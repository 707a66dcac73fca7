---------------------------- MODULE MCKernelCache ----------------------------
(* Two threads, two sources and two contexts: every pair of calls meets with *)
(* the same key, with one of its parts the same, and with none.              *)
EXTENDS KernelCache
=============================================================================
