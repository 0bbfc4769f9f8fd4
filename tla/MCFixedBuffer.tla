---------------------------- MODULE MCFixedBuffer ----------------------------
(* Layouts and call sets for the model-checking runs of FixedBuffer.       *)
EXTENDS FixedBuffer, TLC

L(s, a) == [size |-> s, align |-> a]

\* Sizes from zero up against every alignment up to four.
MixedLayouts == {L(0, 4), L(1, 1), L(2, 1), L(1, 4), L(3, 2), L(4, 4)}

\* No block is smaller than the largest alignment asked for.
SizedLayouts == {L(2, 1), L(2, 2), L(3, 2), L(4, 1), L(6, 2)}

\* What one type gives: its alignment, and multiples of its size.
TypedLayouts == {L(0, 2), L(2, 2), L(4, 2), L(6, 2)}

AllCalls == {"grow", "shrink", "deallocate"}
GrowOnly == {"grow"}
ShrinkOnly == {"shrink"}
DeallocateOnly == {"deallocate"}
NoCalls == {}

Symmetry == Permutations(Handles)
=============================================================================
