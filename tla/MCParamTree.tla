------------------------------ MODULE MCParamTree ------------------------------
(* A module and one that it may hold under two names.                      *)
EXTENDS ParamTree, TLC

CONSTANTS Model, Layer, a, b

Names == Permutations(Name)
=============================================================================
