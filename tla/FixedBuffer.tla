----------------------------- MODULE FixedBuffer -----------------------------
(***************************************************************************)
(* FixedBufferAllocator (src/alloc/fixed_buffer.rs): an allocator that     *)
(* bumps the pointer `begin' through a byte slice [Base, BufEnd).  It      *)
(* keeps no list of what it handed out: whether a block is the last one    *)
(* is recomputed from `begin', the size and the alignment of the layout.   *)
(*                                                                         *)
(* `live' and `mem' are the two sides of the contract the code has with    *)
(* its client: the blocks the client still holds, and, for every address,  *)
(* whose data is stored there.  The client is unrestricted unless          *)
(* StackClient or Calls says otherwise.                                    *)
(***************************************************************************)
EXTENDS Integers

CONSTANTS
  WordSize,     \* number of machine addresses, 2^w for a w-bit usize
  Base,         \* address of the first byte of the backing slice
  BufEnd,       \* the field `end': one byte past the slice
  Layouts,      \* the layouts clients ask for: [size, align]
  Handles,      \* the pointers a client can hold at one time
  None,         \* "no block", and "nobody's data"
  Calls,        \* which of grow, shrink, deallocate the client ever makes
  StackClient   \* does the client release and resize its topmost block only?

Address == 0 .. WordSize - 1
Buffer == Base .. BufEnd - 1
IsizeMax == WordSize \div 2 - 1
Block == [ptr : Address, size : Nat, align : Nat \ {0}, filled : Nat]

\* What core guarantees of a slice and of a Layout, and what is a call.
ASSUME AddressAssumption ==
  /\ WordSize \in Nat \ {0}
  /\ Base \in Address \ {0}
  /\ BufEnd \in Address
  /\ Base <= BufEnd
  /\ BufEnd - Base <= IsizeMax
ASSUME LayoutAssumption ==
  \A l \in Layouts : /\ l.size \in Nat
                     /\ l.align \in Nat \ {0}
                     /\ l.size + (l.align - 1) <= IsizeMax
ASSUME ClientAssumption ==
  /\ Calls \subseteq {"grow", "shrink", "deallocate"}
  /\ StackClient \in BOOLEAN
  /\ None \notin Block
  /\ None \notin Handles

VARIABLES
  begin,   \* the field `begin'
  live,    \* live[h]: the block the client holds as h; filled = bytes of data
  mem      \* mem[a]: the handle whose data is at address a

vars == <<begin, live, mem>>

-----------------------------------------------------------------------------
(* Address arithmetic.  `&  !(align - 1)' with a power of two rounds down  *)
(* to a multiple of it; + and - on usize wrap, as in a release build.      *)

Wrap(x) == x % WordSize
AlignDown(x, a) == x - (x % a)

\* Mutant: rounds down where the code rounds up.
AlignUpNotRounded(x, a) == AlignDown(x, a)
AlignUp(x, a) == AlignDown(Wrap(x + (a - 1)), a)

End(b) == b.ptr + b.size
Bytes(b) == b.ptr .. End(b) - 1
IsLive(h) == live[h] # None

\* No live byte lies above h: what "the last allocated pointer" comes to
\* once the blocks above it have been released.
Topmost(h) ==
  \A g \in Handles \ {h} :
    IsLive(g) /\ live[g].size > 0 => End(live[g]) <= live[h].ptr

\* mem once n bytes at p are what h has in memory, all of it written by h.
Stored(h, p, n) ==
  [a \in Address |-> IF a \in p .. p + n - 1 THEN h ELSE mem[a]]

\* mem once h has no more than n bytes at p: the rest of its data is nobody's.
Kept(h, p, n) ==
  [a \in Address |->
     IF mem[a] = h /\ a \notin p .. p + n - 1 THEN None ELSE mem[a]]

\* ptr::copy_nonoverlapping of n bytes of h's; what is left behind is nobody's.
Copied(h, from, to, n) ==
  [a \in Address |->
     IF a \in to .. to + n - 1 /\ from + (a - to) \in Address
     THEN mem[from + (a - to)]
     ELSE IF mem[a] = h THEN None ELSE mem[a]]

-----------------------------------------------------------------------------
(* The two tests the code decides by.                                      *)

\* Mutant: the next block starts at `begin' whatever its alignment.
StartUnaligned(l) == begin
Start(l) == AlignUp(begin, l.align)
NewBegin(l) == Wrap(Start(l) + l.size)

\* Mutant: the size of the new block is left out of the bounds check.
FitsIgnoringSize(l) == Start(l) <= BufEnd
Fits(l) == NewBegin(l) <= BufEnd

\* prev_begin, and what deallocate makes of `begin' = b
PrevBegin(b, blk) == AlignDown(Wrap(b - blk.size), blk.align)
IsLast(b, blk) == PrevBegin(b, blk) = blk.ptr

\* Mutant: release without the test.
ReleasedAlways(b, blk) == blk.ptr
Released(b, blk) == IF IsLast(b, blk) THEN blk.ptr ELSE b

-----------------------------------------------------------------------------
(* The allocator's operations.  An AllocError leaves everything unchanged. *)

Init ==
  /\ begin = Base
  /\ live = [h \in Handles |-> None]
  /\ mem = [a \in Address |-> None]

NewBlock(p, l, n) == [ptr |-> p, size |-> l.size, align |-> l.align, filled |-> n]
Lesser(m, n) == IF m <= n THEN m ELSE n

Allocate(h, l) ==
  /\ ~IsLive(h)
  /\ \/ /\ Fits(l)
        /\ begin' = NewBegin(l)
        /\ live' = [live EXCEPT ![h] = NewBlock(Start(l), l, 0)]
        /\ mem' = mem
     \/ /\ ~Fits(l)
        /\ UNCHANGED vars

\* Mutant: the old block's bytes are not copied to the new one.
MovedWithoutCopy(h, l) ==
  /\ begin' = Released(NewBegin(l), live[h])
  /\ live' = [live EXCEPT ![h] =
                NewBlock(Start(l), l, Lesser(live[h].filled, l.size))]
  /\ mem' = Kept(h, Start(l), l.size)

\* grow and shrink when the alignment changes: allocate, copy
\* old_layout.size() bytes, deallocate.
Moved(h, l) ==
  /\ begin' = Released(NewBegin(l), live[h])
  /\ live' = [live EXCEPT ![h] =
                NewBlock(Start(l), l, Lesser(live[h].filled, l.size))]
  /\ mem' = Copied(h, live[h].ptr, Start(l), live[h].size)

\* Mutant: the resized block is returned but `begin' stays where it was.
ResizedWithoutBump(h, l) ==
  /\ begin' = begin
  /\ live' = [live EXCEPT ![h] =
                NewBlock(@.ptr, l, Lesser(@.filled, l.size))]
  /\ mem' = Kept(h, live[h].ptr, l.size)

\* begin.offset(difference); the same pointer comes back
ResizedInPlace(h, l) ==
  /\ begin' = Wrap(begin + (l.size - live[h].size))
  /\ live' = [live EXCEPT ![h] =
                NewBlock(@.ptr, l, Lesser(@.filled, l.size))]
  /\ mem' = Kept(h, live[h].ptr, l.size)

\* The bounds check of grow: `end' against ptr + difference.
GrowthFits(b, l) == b.ptr + (l.size - b.size) <= BufEnd

MayResize(h, l) ==
  StackClient => Topmost(h) /\ l.align = live[h].align

Grow(h, l) ==
  /\ "grow" \in Calls
  /\ IsLive(h) /\ l.size >= live[h].size /\ MayResize(h, l)
  /\ LET realign == l.align # live[h].align
         last == IsLast(begin, live[h]) /\ GrowthFits(live[h], l) IN
     \/ realign /\ Fits(l) /\ Moved(h, l)
     \/ ~realign /\ last /\ ResizedInPlace(h, l)
     \/ (IF realign THEN ~Fits(l) ELSE ~last) /\ UNCHANGED vars

Shrink(h, l) ==
  /\ "shrink" \in Calls
  /\ IsLive(h) /\ l.size <= live[h].size /\ MayResize(h, l)
  /\ LET realign == l.align # live[h].align
         last == IsLast(begin, live[h]) IN
     \/ realign /\ Fits(l) /\ Moved(h, l)
     \/ ~realign /\ last /\ ResizedInPlace(h, l)
     \/ (IF realign THEN ~Fits(l) ELSE ~last) /\ UNCHANGED vars

Deallocate(h) ==
  /\ "deallocate" \in Calls
  /\ IsLive(h) /\ (StackClient => Topmost(h))
  /\ begin' = Released(begin, live[h])
  /\ live' = [live EXCEPT ![h] = None]
  /\ mem' = Kept(h, live[h].ptr, 0)

\* The client stores its data in the whole of a block it holds.
Write(h) ==
  /\ IsLive(h) /\ live[h].filled < live[h].size
  /\ live' = [live EXCEPT ![h].filled = live[h].size]
  /\ mem' = Stored(h, live[h].ptr, live[h].size)
  /\ begin' = begin

Next ==
  \E h \in Handles :
    \/ Deallocate(h)
    \/ Write(h)
    \/ \E l \in Layouts : Allocate(h, l) \/ Grow(h, l) \/ Shrink(h, l)

Spec == Init /\ [][Next]_vars

-----------------------------------------------------------------------------
(* Properties.                                                             *)

TypeOK ==
  /\ begin \in Address
  /\ live \in [Handles -> Block \union {None}]
  /\ mem \in [Address -> Handles \union {None}]

\* Two blocks a client holds never share a byte, whatever was released,
\* grown, shrunk or moved in between: the soundness of recomputing "last".
LiveDisjoint ==
  \A g, h \in Handles :
    g # h /\ IsLive(g) /\ IsLive(h)
      => Bytes(live[g]) \intersect Bytes(live[h]) = {}

\* `begin' never drops below a byte that is still held, so the next
\* allocation cannot hand it out again.
LiveBelowBegin ==
  \A h \in Handles :
    IsLive(h) /\ live[h].size > 0 => End(live[h]) <= begin

\* Every block lies in the slice the allocator was given.
LiveInBuffer ==
  \A h \in Handles : IsLive(h) => Bytes(live[h]) \subseteq Buffer

\* Nothing is stored outside the slice, neither by clients in their blocks nor
\* by the copies of grow and shrink.
DataInSlice ==
  \A a \in Address : mem[a] # None => a \in Buffer

\* Every block has the alignment of the layout it was last asked for,
\* through every resize.
LiveAligned ==
  \A h \in Handles : IsLive(h) => live[h].ptr % live[h].align = 0

\* What a client wrote in a block is still there until it releases it: the
\* first `filled' bytes survive other clients' calls and its own resizes.
DataIntact ==
  \A h \in Handles :
    IsLive(h) => \A a \in live[h].ptr .. live[h].ptr + live[h].filled - 1 :
                   a \in Address => mem[a] = h

\* No call a client may make overflows the usize additions of allocate.
NoOverflow ==
  \A l \in Layouts : AlignDown(begin + (l.align - 1), l.align) + l.size < WordSize

\* grow, shrink and deallocate are no-ops (an error, for a resize) unless
\* called with the last allocated pointer.
NoOpUnlessLast ==
  [][\A h \in Handles :
       IsLive(h) /\ ~Topmost(h) =>
         \/ live'[h] = None /\ begin' = begin
         \/ live'[h] # None /\ live'[h].ptr # live[h].ptr /\ End(live'[h]) <= begin'
         \/ live'[h] # None /\ live'[h].size = live[h].size]_vars

\* The inductive invariant behind LiveDisjoint and LiveBelowBegin.  Blocks
\* start in the slice, though grow may let them end beyond it; `begin' is
\* then at most one layout beyond it too, which keeps addresses from wrapping.
Apart(b, c) == b.size = 0 \/ c.size = 0 \/ End(b) <= c.ptr \/ End(c) <= b.ptr

Placed(b) ==
  /\ Base <= b.ptr /\ b.ptr <= BufEnd
  /\ \E l \in Layouts : b.size = l.size /\ b.align = l.align

Ceiling ==
  begin <= BufEnd \/ \E l \in Layouts : begin < BufEnd + l.size + l.align

IInv ==
  /\ TypeOK
  /\ \A h \in Handles : IsLive(h) => Placed(live[h])
  /\ \A g, h \in Handles : g # h /\ IsLive(g) /\ IsLive(h) => Apart(live[g], live[h])
  /\ LiveBelowBegin
  /\ Base <= begin
  /\ Ceiling

\* The client disciplines under which recomputing "last" is sound: a client
\* that works on its topmost block only, or layouts none of which is smaller
\* than the alignment of another, but for nothing, unaligned.
Compatible ==
  StackClient \/ \A l, m \in Layouts :
                   IF l.size = 0 THEN l.align = 1 ELSE m.align <= l.size

\* The slice lies low enough for the sums of allocate and grow to fit usize.
Roomy ==
  \A l, m \in Layouts : BufEnd + l.size + l.align + m.size + m.align <= WordSize

\* The same for the sums of allocate alone, one layout at a time; so it is for
\* every layout core admits in a slice of the lower half of the address space.
Low ==
  \A l \in Layouts : BufEnd + l.size + l.align <= WordSize

\* The allocator keeps the contract of core::alloc::Allocator towards its
\* clients: over its own slice as long as nobody calls grow, and over the
\* address space (blocks apart, aligned, data kept) when somebody does.
Contract ==
  INSTANCE AllocatorContract
    WITH Region <- IF "grow" \in Calls THEN Address ELSE Buffer
KeepsContract == Contract!Spec
=============================================================================
