--------------------------- MODULE MCCudaAllocator ---------------------------
(* Two threads and three bytes of address space: segments of one byte, a    *)
(* request of two that gets a segment of its own and cannot have one before *)
(* cached segments are released, and a request of one that splits it.       *)
EXTENDS CudaAllocator
=============================================================================
