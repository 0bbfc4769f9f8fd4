-------------------------- MODULE AllocatorContract --------------------------
(***************************************************************************)
(* What core::alloc::Allocator promises its callers, as the allocators and *)
(* the containers of this repository rely on it: a block is a run of       *)
(* addresses of its own, aligned and in memory the allocator may hand out; *)
(* it stays put until it is resized or released; a resize may move it and  *)
(* keeps the leading bytes; any request may fail, and then changes         *)
(* nothing (a stuttering step here).                                       *)
(***************************************************************************)
EXTENDS Integers

CONSTANTS
  Address,   \* all addresses
  Region,    \* the addresses the allocator may hand out
  Layouts, Handles, None

VARIABLE live

Init == live = [h \in Handles |-> None]

Extent(p, n) == p .. p + n - 1

\* A block for layout l at p that shares no byte with a block other than h's.
Grantable(h, l, p) ==
  /\ p % l.align = 0
  /\ Extent(p, l.size) \subseteq Region
  /\ \A g \in Handles \ {h} :
       live[g] # None =>
         Extent(p, l.size) \intersect Extent(live[g].ptr, live[g].size) = {}

Grant(h, l, p) ==
  /\ live[h] = None
  /\ live' = [live EXCEPT
       ![h] = [ptr |-> p, size |-> l.size, align |-> l.align, filled |-> 0]]
  /\ Grantable(h, l, p)

\* grow and shrink: as many of the leading bytes as both sizes have.
Resize(h, l, p) ==
  /\ live[h] # None
  /\ live' = [live EXCEPT
       ![h] = [ptr |-> p, size |-> l.size, align |-> l.align,
               filled |-> IF @.filled <= l.size THEN @.filled ELSE l.size]]
  /\ Grantable(h, l, p)

Release(h) ==
  /\ live[h] # None
  /\ live' = [live EXCEPT ![h] = None]

\* The holder stores data in the whole block.
Store(h) ==
  /\ live[h] # None
  /\ live' = [live EXCEPT ![h].filled = live[h].size]

Next ==
  \E h \in Handles :
    \/ Release(h)
    \/ Store(h)
    \/ \E l \in Layouts, p \in Address : Grant(h, l, p) \/ Resize(h, l, p)

Spec == Init /\ [][Next]_live
=============================================================================
