----------------------------- MODULE MCDerivatives -----------------------------
(* Programs over a matrix and a row, or over a column and a row that       *)
(* requires no gradient.                                                   *)
EXTENDS Derivatives, TLC

Lowest == -2

Matrices ==
  LET Leaf(data, requires_grad) == [data |-> data, requires_grad |-> requires_grad]
  IN  {<<Leaf(<<<<1, -2>>, <<3, 2>>>>, TRUE), Leaf(<<<<2, 3>>>>, TRUE)>>,
       <<Leaf(<<<<2>>, <<-1>>>>, TRUE), Leaf(<<<<1, 0>>>>, FALSE)>>}
=============================================================================
