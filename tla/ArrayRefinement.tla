--------------------------- MODULE ArrayRefinement ---------------------------
(* Array implements ArrayContract.                                         *)
EXTENDS Array

Contents(r) == [i \in 1 .. r.length |-> Read(r, i - 1)]

Contract ==
  INSTANCE ArrayContract WITH contents <- [a \in Arrays |-> Contents(arr[a])]

\* An array is the sequence of its visible elements: every method does to that
\* sequence what it is named for and hands back the element it took out.
KeepsContract == Contract!Spec
=============================================================================
