------------------------------- MODULE MCArray -------------------------------
(* Method sets and argument ranges for the model-checking runs of Array.   *)
EXTENDS ArrayRefinement, TLC

Sizes == 0 .. IsizeMax
FewSizes == 0 .. 4 \union {Usize \div ElemSize}
Positions == 0 .. IsizeMax
AnyIndex == 0 .. Usize - 1
AnySize == 0 .. Usize - 1
FewPositions == 0 .. 3
NoElements == {}

AllMethods ==
  {"with_capacity", "reserve", "push", "push_within_capacity", "pop", "clear",
   "append", "insert", "remove", "remove_unchecked", "swap_remove",
   "swap_remove_unchecked", "truncate"}

\* Every method but those that lose or double an element.
Faithful == AllMethods \ {"push", "append", "insert", "truncate"}

Storing == {"with_capacity", "push_within_capacity"}
Pushing == {"push"}
Sizing == {"with_capacity", "reserve"}
Truncating == Storing \union {"truncate"}

Exactly == {}
UpToOneMore == {1}
Symmetry == Permutations(Arrays) \union Permutations(Elements)

\* What the methods read: `fault' and `last' only report on a call.
Fields == <<arr, inside>>
=============================================================================
