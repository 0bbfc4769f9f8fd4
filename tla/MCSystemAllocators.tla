-------------------------- MODULE MCSystemAllocators --------------------------
(* Handles, memory and layouts for the model-checking run of               *)
(* SystemAllocators.                                                       *)
EXTENDS SystemAllocators, TLC

CONSTANTS v1, v2, v3, m1

L(s, a) == [size |-> s, align |-> a]

AllHandles == {v1, v2, v3, m1}
LibcHandles == {m1}

\* Nothing, sizes no smaller than any alignment, alignments on both sides of
\* PtrAlign, and a request of nearly half the address space.
SystemLayouts == {L(0, 1), L(4, 4), L(6, 2), L(IsizeMax - 3, 4)}

\* A block smaller than its alignment, and one that needs none.
UnevenLayouts == {L(1, 4), L(2, 1)}

LibcMemory == 20 .. 27
NoCalls == {}

Symmetry == Permutations({v1, v2, v3})
=============================================================================
