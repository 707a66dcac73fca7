--------------------------- MODULE MCTensorMemory ---------------------------
(* Two variables, tensors of one and of five elements: with packets of two  *)
(* and launches of at most two threads, one element makes no packet and     *)
(* five need two rounds and a tail.                                         *)
EXTENDS TensorMemory
=============================================================================
