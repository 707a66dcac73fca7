----------------------------- MODULE MCLazyGraph -----------------------------
(* Programs that start with a matrix and a row and make two or three more  *)
(* tensors, in any order of capturing, computing, viewing and realizing.   *)
EXTENDS LazyGraph, TLC

MatrixAndRow == <<2, 1>>
=============================================================================
