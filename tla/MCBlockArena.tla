---------------------------- MODULE MCBlockArena ----------------------------
(* Small instances of BlockArena: 10 bytes of address space after the null *)
(* address, in segments of two and three units of two bytes, adjacent ones *)
(* included, and one heap cell for every block that space can be cut into. *)
EXTENDS BlockArena, TLC

Symmetry == Permutations(Block)
=============================================================================
