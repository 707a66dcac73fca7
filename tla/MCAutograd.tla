------------------------------ MODULE MCAutograd ------------------------------
(* Programs that start with one Variable and compute three more, or with   *)
(* two of different types, or of which one requires no gradient, and       *)
(* compute two more.                                                       *)
EXTENDS Autograd, TLC

Starts ==
  LET Start(requires_grad, type) == [requires_grad |-> requires_grad, type |-> type]
  IN  {<<Start(TRUE, 1)>>, <<Start(TRUE, 2), Start(TRUE, 1)>>, <<Start(FALSE, 2), Start(TRUE, 1)>>}
=============================================================================
