---------------------------- MODULE MCTiledMatmul ----------------------------
(* Blocks of two by two threads that compute two by two elements each.     *)
(* The first two shapes take the tiled kernel, with a last slide that is   *)
(* cut off: one block; two blocks, the second beyond most of the columns,  *)
(* which rule out vector accesses.  The others, one at the limit of the    *)
(* tiled kernel and two with an extent of zero, take the plain one.        *)
EXTENDS TiledMatmul

MCProducts ==
    {<<4, 4, 3>>, <<4, 5, 3>>,
     <<4, 4, 2>>, <<3, 2, 4>>, <<1, 3, 0>>, <<0, 2, 1>>}

MCFlips == {<<3, 2, 0>>, <<1, 3, 0>>}
=============================================================================
