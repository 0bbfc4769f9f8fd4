------------------------------ MODULE MCRawArray ------------------------------
(* Argument ranges for the model-checking run of RawArray.                 *)
EXTENDS RawArray, TLC

Sizes == 0 .. 2
Positions == 0 .. 2
Symmetry == Permutations(Arrays) \union Permutations(Values)
=============================================================================
