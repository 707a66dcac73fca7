--------------------------- MODULE MCStridedTensor ---------------------------
(* Two tensors of every pair of shapes below and up to MaxSteps operations:  *)
(* each axis repeated, dropped, missing and empty, rows shorter and longer   *)
(* than a warp, and rows read by vectors; up to ten elements, so that the    *)
(* threads of an element-wise kernel go round more than once, with packets   *)
(* and with elements that fill none.  The first tensor's elements have       *)
(* distinct sums.                                                            *)
EXTENDS StridedTensor

MCShapes ==
    {<<0>>, <<1>>, <<3>>, <<5>>, <<10>>,
     <<1, 3>>, <<2, 1>>, <<2, 3>>, <<3, 2>>, <<2, 4>>, <<2, 0>>,
     <<2, 1, 3>>, <<1, 2, 1>>, <<2, 2, 2>>}

MCFirstValue(e) == 2 ^ e
MCSecondValue(e) == 3 * e + 1
=============================================================================
