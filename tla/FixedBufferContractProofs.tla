---------------------- MODULE FixedBufferContractProofs ----------------------
(***************************************************************************)
(* What FixedBuffer promises beyond keeping blocks apart: their alignment, *)
(* their place in the slice, the data in them, and with these the contract *)
(* of core::alloc::Allocator.                                              *)
(***************************************************************************)
EXTENDS FixedBufferProofs

-----------------------------------------------------------------------------
(* Alignment.                                                              *)

\* What is rounded down to a multiple of a is one.
LEMMA AlignDownMultiple ==
  ASSUME NEW x \in Int, NEW a \in Nat \ {0}
  PROVE  AlignDown(x, a) % a = 0
<1> DEFINE q == x \div a
<1>1. q \in Int /\ x = a * q + (x % a)
  OBVIOUS
<1>2. AlignDown(x, a) = a * q
  BY <1>1 DEF AlignDown
<1>3. (a * q) % a = 0
  BY <1>1
<1> QED BY <1>2, <1>3

\* A new block is aligned as its layout asks, wrapped sums or not.
LEMMA StartAligned ==
  ASSUME begin \in Address, NEW l \in Layouts
  PROVE  Start(l) % l.align = 0
<1>1. Wrap(begin + (l.align - 1)) \in Int /\ l.align \in Nat \ {0}
  BY WrapAddress, LayoutAssumption, AddressAssumption DEF Address
<1> QED
  BY <1>1, AlignDownMultiple DEF Start, AlignUp

\* One block replaced by one that is aligned, or by none.
LEMMA AlignedReplaced ==
  ASSUME TypeOK, LiveAligned, NEW h \in Handles, NEW b,
         live' = [live EXCEPT ![h] = b], b # None => b.ptr % b.align = 0
  PROVE  LiveAligned'
BY DEF TypeOK, LiveAligned, IsLive

\* Every block has the alignment of the layout it was last asked for, through
\* every resize, whatever the client does and wherever the slice lies.
THEOREM Aligned == Spec => []LiveAligned
<1>1. Init => LiveAligned
  BY DEF Init, LiveAligned, IsLive
<1>2. TypeOK /\ LiveAligned /\ [Next]_vars => LiveAligned'
  <2> SUFFICES ASSUME TypeOK, LiveAligned, [Next]_vars PROVE LiveAligned'
    OBVIOUS
  <2> USE DEF TypeOK
  <2>1. ASSUME NEW h \in Handles, Deallocate(h) PROVE LiveAligned'
    BY <2>1, AlignedReplaced DEF Deallocate
  <2>2. ASSUME NEW h \in Handles, Write(h) PROVE LiveAligned'
    <3> DEFINE b == [live[h] EXCEPT !.filled = live[h].size]
    <3>1. IsLive(h) /\ live' = [live EXCEPT ![h] = b]
      BY <2>2 DEF Write
    <3>2. b.ptr = live[h].ptr /\ b.align = live[h].align
      BY <3>1, LiveBlock DEF Block
    <3>3. b.ptr % b.align = 0
      BY <3>1, <3>2 DEF LiveAligned
    <3> QED BY <3>1, <3>3, AlignedReplaced
  <2>3. ASSUME NEW h \in Handles, NEW l \in Layouts, Allocate(h, l)
        PROVE  LiveAligned'
    <3>1. CASE live' = [live EXCEPT ![h] = NewBlock(Start(l), l, 0)]
      BY <3>1, StartAligned, AlignedReplaced DEF NewBlock
    <3>2. CASE UNCHANGED vars
      BY <3>2 DEF vars, LiveAligned, IsLive
    <3> QED BY <2>3, <3>1, <3>2 DEF Allocate
  <2>4. ASSUME NEW h \in Handles, NEW l \in Layouts, Grow(h, l) \/ Shrink(h, l)
        PROVE  LiveAligned'
    <3>1. CASE Moved(h, l)
      BY <3>1, StartAligned, AlignedReplaced DEF Moved, NewBlock
    <3>2. CASE l.align = live[h].align /\ ResizedInPlace(h, l) /\ IsLive(h)
      <4> DEFINE b == NewBlock(live[h].ptr, l, Lesser(live[h].filled, l.size))
      <4>1. live' = [live EXCEPT ![h] = b]
        BY <3>2 DEF ResizedInPlace
      <4>2. b.ptr % b.align = 0
        BY <3>2 DEF NewBlock, LiveAligned
      <4> QED BY <4>1, <4>2, AlignedReplaced
    <3>3. CASE UNCHANGED vars
      BY <3>3 DEF vars, LiveAligned, IsLive
    <3> QED BY <2>4, <3>1, <3>2, <3>3 DEF Grow, Shrink
  <2>5. CASE UNCHANGED vars
    BY <2>5 DEF vars, LiveAligned, IsLive
  <2> QED BY <2>1, <2>2, <2>3, <2>4, <2>5 DEF Next
<1> QED
  BY <1>1, <1>2, TypeCorrect, PTL DEF Spec

-----------------------------------------------------------------------------
(* Bounds.  Without grow neither `begin' nor a block ever leaves the slice,*)
(* whichever block is released: `begin' is moved to the start of one of    *)
(* its blocks or to the end of a new one.                                  *)

WithinSlice(b) == Placed(b) /\ End(b) <= BufEnd

SliceInv ==
  /\ TypeOK
  /\ Base <= begin /\ begin <= BufEnd
  /\ \A h \in Handles : IsLive(h) => WithinSlice(live[h])

\* One block replaced by one in the slice, or by none.
LEMMA SliceReplaced ==
  ASSUME SliceInv, TypeOK', NEW h \in Handles, NEW b,
         live' = [live EXCEPT ![h] = b], b # None => WithinSlice(b),
         Base <= begin', begin' <= BufEnd
  PROVE  SliceInv'
<1>1. (\A g \in Handles : IsLive(g) => WithinSlice(live[g]))'
  BY DEF SliceInv, TypeOK, IsLive, WithinSlice, Placed, End
<1> QED BY <1>1 DEF SliceInv

\* A request that passes the check of allocate gets memory of the slice.
LEMMA FitsWithin ==
  ASSUME begin \in Address, Base <= begin, begin <= BufEnd, Low,
         NEW l \in Layouts, Fits(l), NEW n
  PROVE  /\ WithinSlice(NewBlock(Start(l), l, n))
         /\ Base <= NewBegin(l) /\ NewBegin(l) <= BufEnd
<1>1. /\ begin \in Nat /\ begin \in Address /\ Base \in Nat /\ BufEnd \in Nat
      /\ WordSize \in Nat /\ l.size \in Nat /\ l.align \in Nat
  BY AddressAssumption, LayoutAssumption DEF Address
<1>2. begin + l.size + l.align <= WordSize
  BY <1>1 DEF Low
<1>3. /\ Start(l) \in Nat /\ begin <= Start(l)
      /\ NewBegin(l) = Start(l) + l.size /\ NewBegin(l) <= BufEnd
  BY <1>1, <1>2, NoWrapBelow DEF Fits
<1>4. Placed(NewBlock(Start(l), l, n))
  BY <1>1, <1>3 DEF Placed, NewBlock
<1> QED
  BY <1>1, <1>3, <1>4 DEF WithinSlice, NewBlock, End

\* A difference just below 0 wraps to the top.
LEMMA ModBelow ==
  ASSUME NEW n \in Nat \ {0}, NEW y \in Int, y + n \in 0 .. n - 1
  PROVE  y % n = y + n
<1>1. /\ y = n * (y \div n) + (y % n) /\ y \div n \in Int
      /\ y % n \in 0 .. n - 1
  OBVIOUS
<1>2. y \div n = -1
  BY <1>1
<1> QED BY <1>1, <1>2

\* shrink in place moves `begin' down, and not below the start of the block.
LEMMA ShrunkWithin ==
  ASSUME SliceInv, Low, NEW h \in Handles, IsLive(h), NEW l \in Layouts,
         l.size <= live[h].size, IsLast(begin, live[h]),
         begin' = Wrap(begin + (l.size - live[h].size))
  PROVE  Base <= begin' /\ begin' <= BufEnd
<1> DEFINE b == live[h]
<1>1. /\ begin \in Nat /\ Base \in Nat /\ BufEnd \in Nat /\ WordSize \in Nat
      /\ l.size \in Nat /\ b.ptr \in Nat /\ b.size \in Nat
      /\ b.align \in Nat \ {0} /\ begin < WordSize
      /\ Base <= b.ptr /\ b.ptr + b.size <= BufEnd /\ begin <= BufEnd
      /\ begin \in Address
  BY LiveBlock, AddressAssumption, LayoutAssumption
  DEF SliceInv, TypeOK, WithinSlice, Placed, End, Address
<1>2. BufEnd + b.size + b.align <= WordSize
  <2>1. PICK m \in Layouts : b.size = m.size /\ b.align = m.align
    BY DEF SliceInv, WithinSlice, Placed
  <2> QED BY <2>1 DEF Low
<1>3. PrevBegin(begin, b) = b.ptr
  BY DEF IsLast
\* A wrapped begin - size would be rounded to an address above the slice.
<1>4. b.size <= begin
  <2> SUFFICES ASSUME begin < b.size PROVE FALSE
    BY <1>1
  <2> DEFINE x == begin - b.size + WordSize
  <2>1. x \in Address /\ x \in Int
    BY <1>1, <1>2 DEF Address
  <2>2. Wrap(begin - b.size) = x
    <3>1. x = (begin - b.size) + WordSize /\ WordSize \in Nat \ {0}
      BY <1>1
    <3> QED BY <1>1, <2>1, <3>1, ModBelow DEF Wrap, Address
  <2>3. x < AlignDown(x, b.align) + b.align /\ AlignDown(x, b.align) \in Int
    BY <1>1, <2>1, AlignDownBounds
  <2>4. AlignDown(x, b.align) = b.ptr
    BY <1>3, <2>2 DEF PrevBegin
  <2> QED BY <1>1, <1>2, <2>3, <2>4
<1>5. b.ptr <= begin - b.size
  <2> DEFINE x == begin - b.size
  <2>1. x \in Address /\ x \in Int
    BY <1>1, <1>4 DEF Address
  <2>2. AlignDown(x, b.align) = b.ptr
    BY <1>3, <2>1, WrapAddress DEF PrevBegin
  <2> QED BY <1>1, <2>1, <2>2, AlignDownBounds
<1>6. begin + (l.size - b.size) \in Address
  BY <1>1, <1>4 DEF Address
<1>7. begin' = begin + (l.size - b.size)
  BY <1>1, <1>6, WrapAddress
<1> QED BY <1>1, <1>5, <1>7

\* grow or shrink into a new block, and the release of the old one.
LEMMA MovedWithin ==
  ASSUME SliceInv, Low, TypeOK', NEW h \in Handles, IsLive(h),
         NEW l \in Layouts, Fits(l), Moved(h, l)
  PROVE  SliceInv'
<1> DEFINE b == NewBlock(Start(l), l, Lesser(live[h].filled, l.size))
<1>1. /\ live' = [live EXCEPT ![h] = b]
      /\ begin' = Released(NewBegin(l), live[h])
  BY DEF Moved
<1>2. WithinSlice(b) /\ Base <= NewBegin(l) /\ NewBegin(l) <= BufEnd
  BY FitsWithin DEF SliceInv, TypeOK
<1>3. Base <= live[h].ptr /\ live[h].ptr <= BufEnd
  BY DEF SliceInv, WithinSlice, Placed
<1>4. Base <= begin' /\ begin' <= BufEnd
  BY <1>1, <1>2, <1>3 DEF Released
<1> QED BY <1>1, <1>2, <1>4, SliceReplaced

LEMMA ShrinkWithin ==
  ASSUME SliceInv, Low, TypeOK', NEW h \in Handles, NEW l \in Layouts,
         Shrink(h, l)
  PROVE  SliceInv'
<1>1. IsLive(h) /\ l.size <= live[h].size
  BY DEF Shrink
<1>2. CASE UNCHANGED vars
  BY <1>2 DEF vars, SliceInv, TypeOK, IsLive, WithinSlice, Placed, End
<1>3. CASE Fits(l) /\ Moved(h, l)
  BY <1>1, <1>3, MovedWithin
<1>4. CASE /\ l.align = live[h].align /\ IsLast(begin, live[h])
           /\ ResizedInPlace(h, l)
  <2> DEFINE b == NewBlock(live[h].ptr, l, Lesser(live[h].filled, l.size))
  <2>1. /\ live' = [live EXCEPT ![h] = b]
        /\ begin' = Wrap(begin + (l.size - live[h].size))
    BY <1>4 DEF ResizedInPlace
  <2>2. Base <= begin' /\ begin' <= BufEnd
    BY <1>1, <1>4, <2>1, ShrunkWithin
  <2>3. /\ b.ptr = live[h].ptr /\ b.size = l.size /\ b.align = l.align
        /\ live[h].ptr \in Nat /\ live[h].size \in Nat /\ l.size \in Nat
        /\ BufEnd \in Nat
    BY <1>1, LiveBlock, LayoutAssumption, AddressAssumption
    DEF NewBlock, SliceInv, Address
  <2>4. WithinSlice(b)
    BY <1>1, <2>3 DEF SliceInv, WithinSlice, Placed, End
  <2> QED BY <2>1, <2>2, <2>4, SliceReplaced
<1> QED BY <1>2, <1>3, <1>4 DEF Shrink

\* `begin' and every block stay in the slice as long as nobody calls grow,
\* in whatever order blocks are released, shrunk or moved.
THEOREM Bounded == "grow" \notin Calls /\ Low /\ Spec => []SliceInv
<1>1. Init => SliceInv
  BY AddressAssumption DEF Init, SliceInv, TypeOK, IsLive, Address
<1>2. "grow" \notin Calls /\ Low /\ SliceInv /\ TypeOK' /\ [Next]_vars
        => SliceInv'
  <2> SUFFICES ASSUME "grow" \notin Calls, Low, SliceInv, TypeOK', [Next]_vars
               PROVE  SliceInv'
    OBVIOUS
  <2>1. ASSUME NEW h \in Handles, Deallocate(h) PROVE SliceInv'
    <3>1. Base <= begin' /\ begin' <= BufEnd
      BY <2>1 DEF Deallocate, Released, SliceInv, WithinSlice, Placed
    <3> QED BY <2>1, <3>1, SliceReplaced DEF Deallocate
  <2>2. ASSUME NEW h \in Handles, Write(h) PROVE SliceInv'
    <3> DEFINE b == [live[h] EXCEPT !.filled = live[h].size]
    <3>1. IsLive(h) /\ begin' = begin /\ live' = [live EXCEPT ![h] = b]
      BY <2>2 DEF Write, SliceInv, TypeOK
    <3>2. b.ptr = live[h].ptr /\ b.size = live[h].size /\ b.align = live[h].align
      BY <3>1, LiveBlock DEF SliceInv, Block
    <3>3. WithinSlice(b)
      BY <3>1, <3>2 DEF SliceInv, WithinSlice, Placed, End
    <3>4. Base <= begin' /\ begin' <= BufEnd
      BY <3>1 DEF SliceInv
    <3> QED BY <3>1, <3>3, <3>4, SliceReplaced
  <2>3. ASSUME NEW h \in Handles, NEW l \in Layouts, Allocate(h, l)
        PROVE  SliceInv'
    <3>1. CASE UNCHANGED vars
      BY <3>1 DEF vars, SliceInv, TypeOK, IsLive, WithinSlice, Placed, End
    <3>2. CASE Fits(l) /\ ~UNCHANGED vars
      <4>1. /\ begin' = NewBegin(l)
            /\ live' = [live EXCEPT ![h] = NewBlock(Start(l), l, 0)]
        BY <2>3, <3>2 DEF Allocate
      <4>2. /\ WithinSlice(NewBlock(Start(l), l, 0))
            /\ Base <= begin' /\ begin' <= BufEnd
        BY <3>2, <4>1, FitsWithin DEF SliceInv, TypeOK
      <4> QED BY <4>1, <4>2, SliceReplaced
    <3> QED BY <2>3, <3>1, <3>2 DEF Allocate
  <2>4. ASSUME NEW h \in Handles, NEW l \in Layouts, Shrink(h, l)
        PROVE  SliceInv'
    BY <2>4, ShrinkWithin
  <2>5. CASE UNCHANGED vars
    BY <2>5 DEF vars, SliceInv, TypeOK, IsLive, WithinSlice, Placed, End
  <2> QED BY <2>1, <2>2, <2>3, <2>4, <2>5 DEF Next, Grow
<1>3. "grow" \notin Calls /\ Low => []("grow" \notin Calls /\ Low)
  <2>1. ("grow" \notin Calls /\ Low) /\ [TRUE]_vars
          => ("grow" \notin Calls /\ Low)'
    BY DEF Low
  <2> QED BY <2>1, PTL
<1> QED
  BY <1>1, <1>2, <1>3, TypeCorrect, PTL DEF Spec

\* Every block lies in the slice the allocator was given.
THEOREM InBuffer == "grow" \notin Calls /\ Low /\ Spec => []LiveInBuffer
<1>1. SliceInv => LiveInBuffer
  <2> SUFFICES ASSUME SliceInv, NEW h \in Handles, IsLive(h)
               PROVE  Bytes(live[h]) \subseteq Buffer
    BY DEF LiveInBuffer
  <2>1. /\ live[h].ptr \in Nat /\ live[h].size \in Nat
        /\ Base \in Nat /\ BufEnd \in Nat
    BY LiveBlock, AddressAssumption DEF SliceInv, Address
  <2>2. Base <= live[h].ptr /\ End(live[h]) <= BufEnd
    BY DEF SliceInv, WithinSlice, Placed
  <2> QED BY <2>1, <2>2 DEF Bytes, Buffer, End
<1> QED
  BY <1>1, Bounded, PTL

\* It is `begin' alone that the sums depend on.
LEMMA ExactBelow ==
  ASSUME begin \in Address, begin <= BufEnd, Low
  PROVE  NoOverflow
<1> SUFFICES ASSUME NEW l \in Layouts
             PROVE  AlignDown(begin + (l.align - 1), l.align) + l.size < WordSize
  BY DEF NoOverflow
<1> DEFINE x == begin + (l.align - 1)
<1>1. /\ begin \in Nat /\ BufEnd \in Nat /\ WordSize \in Nat
      /\ l.size \in Nat /\ l.align \in Nat \ {0}
  BY AddressAssumption, LayoutAssumption DEF Address
<1>2. x \in Int /\ x + l.size < WordSize
  BY <1>1 DEF Low
<1>3. AlignDown(x, l.align) \in Int /\ AlignDown(x, l.align) <= x
  BY <1>1, <1>2, AlignDownBounds
<1> QED BY <1>1, <1>2, <1>3

\* The unchecked additions of allocate never overflow usize, for whatever
\* layout is asked for next.
THEOREM Exact == "grow" \notin Calls /\ Low /\ Spec => []NoOverflow
<1>1. Low /\ SliceInv => NoOverflow
  BY ExactBelow DEF SliceInv, TypeOK
<1>2. Low => []Low
  <2>1. Low /\ [TRUE]_vars => Low'
    BY DEF Low
  <2> QED BY <2>1, PTL
<1> QED
  BY <1>1, <1>2, Bounded, PTL

\* In the lower half of the address space no layout core admits is too large.
LEMMA LowerHalf ==
  ASSUME BufEnd <= WordSize \div 2
  PROVE  Low
<1>1. WordSize \in Nat /\ BufEnd \in Nat /\ 2 * (WordSize \div 2) <= WordSize
  BY AddressAssumption DEF Address
<1>2. WordSize \div 2 \in Int
  BY <1>1
<1> QED BY <1>1, <1>2, LayoutAssumption DEF Low, IsizeMax

-----------------------------------------------------------------------------
(* Data.  A new block lies above everything held, a block resized in place *)
(* above everything but itself, so what a copy or a store overwrites is    *)
(* nobody's or the holder's own.                                           *)

Intact(h) ==
  \A a \in live[h].ptr .. live[h].ptr + live[h].filled - 1 :
    a \in Address => mem[a] = h

DataInv ==
  /\ IInv
  /\ \A h \in Handles : IsLive(h) => live[h].filled <= live[h].size /\ Intact(h)

\* One block replaced by one whose data is in memory, or by none.
LEMMA DataReplaced ==
  ASSUME DataInv, IInv', NEW h \in Handles, NEW b,
         live' = [live EXCEPT ![h] = b],
         b # None => /\ b.filled <= b.size
                     /\ \A a \in b.ptr .. b.ptr + b.filled - 1 :
                          a \in Address => mem'[a] = h,
         \A g \in Handles \ {h} : IsLive(g) => Intact(g)'
  PROVE  DataInv'
<1>1. live'[h] = b /\ \A g \in Handles \ {h} : live'[g] = live[g]
  BY DEF DataInv, IInv, TypeOK
<1>2. ASSUME NEW g \in Handles, IsLive(g)'
      PROVE  (live[g].filled <= live[g].size /\ Intact(g))'
  <2>1. CASE g = h
    BY <1>1, <1>2, <2>1 DEF IsLive, Intact
  <2>2. CASE g # h
    BY <1>1, <1>2, <2>2 DEF IsLive, DataInv
  <2> QED BY <2>1, <2>2
<1> QED BY <1>2 DEF DataInv

\* Forgetting what h has outside a range is no loss to another holder.
LEMMA KeptIntact ==
  ASSUME DataInv, NEW h \in Handles, NEW g \in Handles \ {h}, IsLive(g),
         NEW p, NEW n, mem' = Kept(h, p, n), live'[g] = live[g]
  PROVE  Intact(g)'
BY DEF DataInv, Intact, Kept

\* Where another handle has data.
LEMMA DataBelow ==
  ASSUME DataInv, NEW g \in Handles, IsLive(g),
         NEW a \in live[g].ptr .. live[g].ptr + live[g].filled - 1
  PROVE  /\ a \in Nat /\ a < begin /\ begin \in Nat
         /\ live[g].size > 0 /\ live[g].ptr <= a /\ a < End(live[g])
<1>1. /\ live[g].ptr \in Nat /\ live[g].size \in Nat /\ live[g].filled \in Nat
      /\ live[g].filled <= live[g].size /\ begin \in Nat
  BY LiveBlock, AddressAssumption DEF DataInv, IInv, TypeOK, Address
<1>2. live[g].size > 0 /\ a < End(live[g]) /\ live[g].ptr <= a /\ a \in Nat
  BY <1>1 DEF End
<1> QED BY <1>1, <1>2 DEF DataInv, IInv, LiveBelowBegin, End

\* The copy of grow and shrink, for what both sizes have room for.
LEMMA MovedIntact ==
  ASSUME DataInv, Roomy, IInv', NEW h \in Handles, IsLive(h),
         NEW l \in Layouts, Moved(h, l)
  PROVE  DataInv'
<1> DEFINE old == live[h]
           b == NewBlock(Start(l), l, Lesser(old.filled, l.size))
           to == Start(l)
<1>1. live' = [live EXCEPT ![h] = b] /\ mem' = Copied(h, old.ptr, to, old.size)
  BY DEF Moved
<1>2. /\ to \in Nat /\ begin \in Nat /\ begin <= to
      /\ old.ptr \in Nat /\ old.size \in Nat /\ old.filled \in Nat
      /\ old.filled <= old.size /\ l.size \in Nat
      /\ begin < WordSize /\ WordSize \in Nat
  BY NoWrap, LiveBlock, LayoutAssumption, AddressAssumption
  DEF DataInv, IInv, TypeOK, Address
<1>3. /\ b.ptr = to /\ b.size = l.size
      /\ b.filled \in Nat /\ b.filled <= l.size /\ b.filled <= old.filled
  BY <1>2 DEF NewBlock, Lesser
<1>4. ASSUME NEW a \in b.ptr .. b.ptr + b.filled - 1, a \in Address
      PROVE  mem'[a] = h
  <2> DEFINE c == old.ptr + (a - to)
  <2>1. /\ a \in Nat /\ to <= a /\ a <= to + b.filled - 1
        /\ a \in to .. to + old.size - 1
    BY <1>2, <1>3
  <2>2. c \in old.ptr .. old.ptr + old.filled - 1
    BY <1>2, <1>3, <2>1
  <2>3. c \in Address
    BY <1>2, <2>2, DataBelow DEF Address
  <2>4. mem[c] = h
    BY <2>2, <2>3 DEF DataInv, Intact
  <2> QED BY <1>1, <1>4, <2>1, <2>3, <2>4 DEF Copied
<1>5. ASSUME NEW g \in Handles \ {h}, IsLive(g)
      PROVE  Intact(g)'
  <2>1. live'[g] = live[g]
    BY <1>1 DEF DataInv, IInv, TypeOK
  <2>2. ASSUME NEW a \in live[g].ptr .. live[g].ptr + live[g].filled - 1,
               a \in Address
        PROVE  mem'[a] = g
    <3>1. a \in Nat /\ a < to
      BY <1>2, <1>5, DataBelow
    <3>2. a \notin to .. to + old.size - 1
      BY <1>2, <3>1
    <3>3. mem[a] = g
      BY <1>5, <2>2 DEF DataInv, Intact
    <3> QED BY <1>1, <2>2, <3>2, <3>3 DEF Copied
  <2> QED BY <2>1, <2>2 DEF Intact
<1> QED
  BY <1>1, <1>3, <1>4, <1>5, DataReplaced

LEMMA ResizedInPlaceIntact ==
  ASSUME DataInv, IInv', NEW h \in Handles, IsLive(h),
         NEW l \in Layouts, ResizedInPlace(h, l)
  PROVE  DataInv'
<1> DEFINE old == live[h]
           b == NewBlock(old.ptr, l, Lesser(old.filled, l.size))
<1>1. live' = [live EXCEPT ![h] = b] /\ mem' = Kept(h, old.ptr, l.size)
  BY DEF ResizedInPlace
<1>2. /\ old.ptr \in Nat /\ old.filled \in Nat /\ l.size \in Nat
      /\ b.ptr = old.ptr /\ b.size = l.size
      /\ b.filled \in Nat /\ b.filled <= l.size /\ b.filled <= old.filled
  BY LiveBlock, LayoutAssumption DEF DataInv, IInv, NewBlock, Lesser
<1>3. ASSUME NEW a \in b.ptr .. b.ptr + b.filled - 1, a \in Address
      PROVE  mem'[a] = h
  <2>1. /\ a \in old.ptr .. old.ptr + old.filled - 1
        /\ a \in old.ptr .. old.ptr + l.size - 1
    BY <1>2
  <2>2. mem[a] = h
    BY <1>3, <2>1 DEF DataInv, Intact
  <2> QED BY <1>1, <1>3, <2>1, <2>2 DEF Kept
<1>4. \A g \in Handles \ {h} : IsLive(g) => live'[g] = live[g] /\ Intact(g)'
  BY <1>1, KeptIntact DEF DataInv, IInv, TypeOK
<1> QED
  BY <1>1, <1>2, <1>3, <1>4, DataReplaced

LEMMA WriteIntact ==
  ASSUME DataInv, IInv', NEW h \in Handles, Write(h)
  PROVE  DataInv'
<1> DEFINE b == [live[h] EXCEPT !.filled = live[h].size]
<1>1. /\ IsLive(h) /\ live' = [live EXCEPT ![h] = b]
      /\ mem' = Stored(h, live[h].ptr, live[h].size)
  BY DEF Write, DataInv, IInv, TypeOK
<1>2. /\ b.ptr = live[h].ptr /\ b.size = live[h].size /\ b.filled = live[h].size
      /\ live[h].ptr \in Nat /\ live[h].size \in Nat
  BY <1>1, LiveBlock DEF DataInv, IInv, Block
<1>3. \A a \in b.ptr .. b.ptr + b.filled - 1 : a \in Address => mem'[a] = h
  BY <1>1, <1>2 DEF Stored
<1>4. ASSUME NEW g \in Handles \ {h}, IsLive(g)
      PROVE  Intact(g)'
  <2>1. live'[g] = live[g]
    BY <1>1 DEF DataInv, IInv, TypeOK
  <2>2. ASSUME NEW a \in live[g].ptr .. live[g].ptr + live[g].filled - 1,
               a \in Address
        PROVE  mem'[a] = g
    <3>1. /\ a \in Nat /\ live[g].size > 0
          /\ live[g].ptr <= a /\ a < End(live[g])
          /\ live[g].ptr \in Nat /\ live[g].size \in Nat
      BY <1>4, DataBelow, LiveBlock DEF DataInv, IInv
    <3>2. Apart(live[g], live[h])
      BY <1>1, <1>4 DEF DataInv, IInv
    <3>3. a \notin live[h].ptr .. live[h].ptr + live[h].size - 1
      BY <1>2, <3>1, <3>2 DEF Apart, End
    <3>4. mem[a] = g
      BY <1>4, <2>2 DEF DataInv, Intact
    <3> QED BY <1>1, <2>2, <3>3, <3>4 DEF Stored
  <2> QED BY <2>1, <2>2 DEF Intact
<1>5. b.filled <= b.size
  BY <1>2
<1> QED
  BY <1>1, <1>3, <1>4, <1>5, DataReplaced

\* What a client wrote in a block is still there until it releases it,
\* through the calls of every other client and its own resizes.
THEOREM Intactness == Compatible /\ Roomy /\ Spec => []DataIntact
<1>1. Init /\ IInv => DataInv
  BY DEF Init, DataInv, IsLive
<1>2. Roomy /\ IInv' /\ DataInv /\ [Next]_vars => DataInv'
  <2> SUFFICES ASSUME Roomy, IInv', DataInv, [Next]_vars PROVE DataInv'
    OBVIOUS
  <2>1. ASSUME NEW h \in Handles, Deallocate(h) PROVE DataInv'
    <3>1. /\ live' = [live EXCEPT ![h] = None]
          /\ mem' = Kept(h, live[h].ptr, 0)
      BY <2>1 DEF Deallocate
    <3>2. \A g \in Handles \ {h} : IsLive(g) => live'[g] = live[g] /\ Intact(g)'
      BY <3>1, KeptIntact DEF DataInv, IInv, TypeOK
    <3> QED BY <3>1, <3>2, DataReplaced
  <2>2. ASSUME NEW h \in Handles, Write(h) PROVE DataInv'
    BY <2>2, WriteIntact
  <2>3. CASE UNCHANGED vars
    BY <2>3 DEF vars, DataInv, IsLive, Intact
  <2>4. ASSUME NEW h \in Handles, NEW l \in Layouts, Allocate(h, l)
        PROVE  DataInv'
    <3>1. CASE live' = [live EXCEPT ![h] = NewBlock(Start(l), l, 0)] /\ mem' = mem
      <4> DEFINE b == NewBlock(Start(l), l, 0)
      <4>1. /\ b.ptr \in Nat /\ b.filled = 0 /\ b.size \in Nat
        BY NoWrap, LayoutAssumption DEF DataInv, NewBlock
      <4>2. \A g \in Handles \ {h} : live'[g] = live[g]
        BY <3>1 DEF DataInv, IInv, TypeOK
      <4>3. \A g \in Handles \ {h} : IsLive(g) => Intact(g)'
        BY <3>1, <4>2 DEF DataInv, Intact
      <4>4. /\ b.filled <= b.size
            /\ \A a \in b.ptr .. b.ptr + b.filled - 1 : a \in Address => mem'[a] = h
        BY <4>1
      <4> QED BY <3>1, <4>3, <4>4, DataReplaced
    <3> QED BY <2>3, <2>4, <3>1 DEF Allocate
  <2>5. ASSUME NEW h \in Handles, NEW l \in Layouts, Grow(h, l) \/ Shrink(h, l)
        PROVE  DataInv'
    BY <2>3, <2>5, MovedIntact, ResizedInPlaceIntact DEF Grow, Shrink
  <2> QED BY <2>1, <2>2, <2>3, <2>4, <2>5 DEF Next
<1>3. DataInv => DataIntact
  BY DEF DataInv, DataIntact, Intact
<1>4. Roomy => []Roomy
  <2>1. Roomy /\ [TRUE]_vars => Roomy'
    BY DEF Roomy
  <2> QED BY <2>1, PTL
<1> QED
  BY <1>1, <1>2, <1>3, <1>4, Inductive, PTL DEF Spec

-----------------------------------------------------------------------------
(* Calls on a block that is not the last one.                              *)

\* A block that moves although others lie above it goes above them, and stays
\* below `begin'.
LEMMA MovedAbove ==
  ASSUME IInv, Compatible, Roomy, ~StackClient, NEW h \in Handles, IsLive(h),
         ~Topmost(h), NEW l \in Layouts, Fits(l), Moved(h, l)
  PROVE  /\ live'[h] # None /\ live'[h].ptr # live[h].ptr
         /\ End(live'[h]) <= begin'
<1> DEFINE b == NewBlock(Start(l), l, Lesser(live[h].filled, l.size))
<1>1. live'[h] = b
  BY DEF Moved, IInv, TypeOK
<1>2. b.ptr = Start(l) /\ b.size = l.size
  BY DEF NewBlock
<1>3. Lesser(live[h].filled, l.size) \in Nat /\ Start(l) \in Address
  BY LiveBlock, LayoutAssumption, NoWrap DEF Lesser, IInv
<1>4. b # None
  BY <1>3, NewBlockType, ClientAssumption
<1>5. PICK g \in Handles \ {h} :
        IsLive(g) /\ live[g].size > 0 /\ ~(End(live[g]) <= live[h].ptr)
  BY DEF Topmost
<1>6. /\ live[g].ptr \in Nat /\ live[g].size \in Nat /\ live[h].ptr \in Nat
      /\ Start(l) \in Nat /\ begin \in Nat /\ l.size \in Nat
      /\ End(live[g]) <= begin /\ begin <= Start(l)
      /\ NewBegin(l) = Start(l) + l.size
  BY <1>5, LiveBlock, NoWrap, LayoutAssumption DEF IInv, LiveBelowBegin
<1>7. live[h].ptr < Start(l)
  BY <1>5, <1>6 DEF End
\* `begin' cannot go back to the old block: there is another one above it.
<1>8. begin' = NewBegin(l)
  <2>1. begin' = NewBegin(l) \/ begin' = live[h].ptr
    BY MovedBegin
  <2>2. End(live[g]) <= begin'
    BY <1>5, MovedBegin
  <2> QED BY <1>5, <2>1, <2>2
<1> HIDE DEF b
<1> QED BY <1>1, <1>2, <1>4, <1>6, <1>7, <1>8 DEF End

\* A call on a block that others lie above reclaims nothing: deallocate leaves
\* `begin' alone, grow and shrink fail unless they move the block above the
\* others.
THEOREM NoOp == Compatible /\ Roomy /\ Spec => NoOpUnlessLast
<1> DEFINE Harmless(h) ==
             \/ live'[h] = None /\ begin' = begin
             \/ live'[h] # None /\ live'[h].ptr # live[h].ptr /\ End(live'[h]) <= begin'
             \/ live'[h] # None /\ live'[h].size = live[h].size
<1>1. Compatible /\ Roomy /\ IInv /\ [Next]_vars
        => [\A h \in Handles : IsLive(h) /\ ~Topmost(h) => Harmless(h)]_vars
  <2> SUFFICES ASSUME Compatible, Roomy, IInv, Next,
                      NEW h \in Handles, IsLive(h), ~Topmost(h)
               PROVE  Harmless(h)
    OBVIOUS
  <2>1. live \in [Handles -> Block \union {None}] /\ live[h] # None
    BY DEF IInv, TypeOK, IsLive
  <2>2. CASE live'[h] = live[h]
    BY <2>1, <2>2
  <2>3. CASE UNCHANGED vars
    BY <2>2, <2>3 DEF vars
  <2>4. ASSUME NEW k \in Handles \ {h}, NEW b, live' = [live EXCEPT ![k] = b]
        PROVE  Harmless(h)
    BY <2>1, <2>2, <2>4
  <2>5. ASSUME NEW k \in Handles, Deallocate(k)
        PROVE  Harmless(h)
    <3>1. CASE k = h
      <4>1. ~IsLast(begin, live[h])
        BY <2>5, <3>1, LastIsTopmost DEF Deallocate
      <4> QED BY <2>1, <2>5, <3>1, <4>1 DEF Deallocate, Released
    <3> QED BY <2>4, <2>5, <3>1 DEF Deallocate
  <2>6. ASSUME NEW k \in Handles, Write(k)
        PROVE  Harmless(h)
    <3>1. CASE k = h
      <4>1. live' = [live EXCEPT ![h] = [live[h] EXCEPT !.filled = live[h].size]]
        BY <2>1, <2>6, <3>1 DEF Write
      <4>2. live[h] \in Block
        BY <2>1
      <4>3. /\ [live[h] EXCEPT !.filled = live[h].size] \in Block
            /\ [live[h] EXCEPT !.filled = live[h].size].size = live[h].size
        BY <4>2 DEF Block
      <4> QED BY <2>1, <4>1, <4>3, ClientAssumption
    <3>2. CASE k # h
      BY <2>1, <2>2, <2>6, <3>2 DEF Write
    <3> QED BY <3>1, <3>2
  <2>7. ASSUME NEW k \in Handles, NEW l \in Layouts, Allocate(k, l)
        PROVE  Harmless(h)
    <3>1. k # h
      BY <2>7 DEF Allocate
    <3> QED BY <2>3, <2>4, <2>7, <3>1 DEF Allocate
  <2>8. ASSUME NEW k \in Handles, NEW l \in Layouts, Grow(k, l) \/ Shrink(k, l)
        PROVE  Harmless(h)
    <3>1. CASE k # h /\ Moved(k, l)
      BY <2>4, <3>1 DEF Moved
    <3>2. CASE k # h /\ ResizedInPlace(k, l)
      BY <2>1, <2>2, <3>2 DEF ResizedInPlace
    <3>3. CASE k = h /\ ~StackClient /\ Fits(l) /\ Moved(h, l)
      BY <3>3, MovedAbove
    <3>4. CASE k = h
      <4>1. ~StackClient
        BY <2>8, <3>4 DEF Grow, Shrink, MayResize
      <4>2. ~IsLast(begin, live[h])
        BY <4>1, LastIsTopmost
      <4>3. UNCHANGED vars \/ (Fits(l) /\ Moved(h, l))
        BY <2>8, <3>4, <4>2 DEF Grow, Shrink
      <4> QED BY <2>3, <3>3, <3>4, <4>1, <4>3
    <3> QED BY <2>3, <2>8, <3>1, <3>2, <3>4 DEF Grow, Shrink
  <2> QED BY <2>5, <2>6, <2>7, <2>8 DEF Next
<1>2. Compatible /\ Roomy => [](Compatible /\ Roomy)
  <2>1. (Compatible /\ Roomy) /\ [TRUE]_vars => (Compatible /\ Roomy)'
    BY DEF Compatible, Roomy
  <2> QED BY <2>1, PTL
<1> HIDE DEF Harmless
<1> QED BY <1>1, <1>2, Inductive, PTL DEF Spec, NoOpUnlessLast, Harmless

-----------------------------------------------------------------------------
(* The contract of core::alloc::Allocator.  Each operation is the one of   *)
(* the same meaning over there; that its block is grantable follows from   *)
(* the invariants of the state it leads to.                                *)

ContractInv ==
  /\ IInv
  /\ LiveAligned
  /\ "grow" \notin Calls => LiveInBuffer

LEMMA NewIsGrantable ==
  ASSUME ContractInv', TypeOK, NEW h \in Handles, NEW l \in Layouts,
         NEW p \in Address, NEW n \in Nat,
         live' = [live EXCEPT ![h] = NewBlock(p, l, n)]
  PROVE  Contract!Grantable(h, l, p)
<1> DEFINE b == NewBlock(p, l, n)
<1>1. /\ live'[h] = b /\ b.ptr = p /\ b.size = l.size /\ b.align = l.align
      /\ \A g \in Handles \ {h} : live'[g] = live[g]
  BY DEF TypeOK, NewBlock
<1>2. b # None /\ p \in Nat /\ l.size \in Nat /\ WordSize \in Nat
  BY NewBlockType, ClientAssumption, LayoutAssumption, AddressAssumption
  DEF Address
<1>3. p % l.align = 0
  BY <1>1, <1>2 DEF ContractInv, LiveAligned, IsLive
<1>4. p .. p + l.size - 1 \subseteq IF "grow" \in Calls THEN Address ELSE Buffer
  <2>1. CASE "grow" \notin Calls
    BY <1>1, <1>2, <2>1 DEF ContractInv, LiveInBuffer, IsLive, Bytes, End
  <2>2. CASE l.size > 0
    <3>1. p + l.size <= begin' /\ begin' \in Address
      BY <1>1, <1>2, <2>2
      DEF ContractInv, IInv, TypeOK, LiveBelowBegin, IsLive, End
    <3> QED BY <1>2, <2>1, <3>1 DEF Address
  <2>3. CASE l.size = 0
    BY <1>2, <2>3
  <2> QED BY <1>2, <2>1, <2>2, <2>3
<1>5. ASSUME NEW g \in Handles \ {h}, live[g] # None
      PROVE  (p .. p + l.size - 1)
               \intersect (live[g].ptr .. live[g].ptr + live[g].size - 1) = {}
  <2>1. Apart(live[g], b)
    <3>1. IsLive(g)' /\ IsLive(h)'
      BY <1>1, <1>2, <1>5 DEF IsLive
    <3>2. Apart(live'[g], live'[h])
      BY <3>1 DEF ContractInv, IInv, Apart, End
    <3> QED BY <1>1, <3>2
  <2>2. live[g].ptr \in Nat /\ live[g].size \in Nat
    BY <1>5, LiveBlock DEF IsLive
  <2> QED BY <1>1, <1>2, <2>1, <2>2 DEF Apart, End
<1> QED
  BY <1>3, <1>4, <1>5 DEF Contract!Grantable, Contract!Extent

\* Moved and resized blocks are what Resize of the contract makes of them.
LEMMA ResizeImplements ==
  ASSUME ContractInv', TypeOK, NEW h \in Handles, IsLive(h),
         NEW l \in Layouts, NEW p \in Address,
         live' = [live EXCEPT ![h] =
                    NewBlock(p, l, Lesser(live[h].filled, l.size))]
  PROVE  Contract!Next
<1>1. Lesser(live[h].filled, l.size) \in Nat
  BY LiveBlock, LayoutAssumption DEF Lesser
<1>2. Contract!Grantable(h, l, p)
  BY <1>1, NewIsGrantable
<1>3. Contract!Resize(h, l, p)
  BY <1>2 DEF Contract!Resize, IsLive, NewBlock, Lesser
<1> QED BY <1>3 DEF Contract!Next

\* What grow needs of the slice is more than what allocate needs.
LEMMA RoomyIsLow == Roomy => Low
<1> SUFFICES ASSUME Roomy, NEW l \in Layouts
             PROVE  BufEnd + l.size + l.align <= WordSize
  BY DEF Low
<1>1. BufEnd \in Nat /\ WordSize \in Nat /\ l.size \in Nat /\ l.align \in Nat
  BY AddressAssumption, LayoutAssumption DEF Address
<1>2. BufEnd + l.size + l.align + l.size + l.align <= WordSize
  BY DEF Roomy
<1> QED BY <1>1, <1>2

\* FixedBufferAllocator implements the contract of core::alloc::Allocator, for
\* compatible layouts: over the slice it was given when nobody calls grow, and
\* over the address space when somebody does.
THEOREM Implements == Compatible /\ Roomy /\ Spec => KeepsContract
<1>1. Init => Contract!Init
  BY DEF Init, Contract!Init
<1>2. TypeOK /\ ContractInv' /\ [Next]_vars => [Contract!Next]_live
  <2> SUFFICES ASSUME TypeOK, ContractInv', [Next]_vars
               PROVE  Contract!Next \/ UNCHANGED live
    OBVIOUS
  <2>1. ASSUME NEW h \in Handles, Deallocate(h) PROVE Contract!Next
    <3>1. Contract!Release(h)
      BY <2>1 DEF Deallocate, Contract!Release, IsLive
    <3> QED BY <3>1 DEF Contract!Next
  <2>2. ASSUME NEW h \in Handles, Write(h) PROVE Contract!Next
    <3>1. Contract!Store(h)
      BY <2>2 DEF Write, Contract!Store, IsLive
    <3> QED BY <3>1 DEF Contract!Next
  <2>3. CASE UNCHANGED vars
    BY <2>3 DEF vars
  <2>4. ASSUME NEW h \in Handles, NEW l \in Layouts, Allocate(h, l)
        PROVE  Contract!Next \/ UNCHANGED live
    <3>1. CASE live' = [live EXCEPT ![h] = NewBlock(Start(l), l, 0)]
      <4>1. Start(l) \in Address
        BY StartType DEF TypeOK
      <4>2. Contract!Grantable(h, l, Start(l))
        BY <3>1, <4>1, NewIsGrantable
      <4>3. Contract!Grant(h, l, Start(l))
        BY <2>4, <3>1, <4>2 DEF Allocate, Contract!Grant, NewBlock, IsLive
      <4> QED BY <4>1, <4>3 DEF Contract!Next
    <3> QED BY <2>3, <2>4, <3>1 DEF Allocate, vars
  <2>5. ASSUME NEW h \in Handles, NEW l \in Layouts, Grow(h, l) \/ Shrink(h, l)
        PROVE  Contract!Next \/ UNCHANGED live
    <3>1. IsLive(h)
      BY <2>5 DEF Grow, Shrink
    <3>2. CASE Moved(h, l)
      <4>1. Start(l) \in Address
        BY StartType DEF TypeOK
      <4> QED BY <3>1, <3>2, <4>1, ResizeImplements DEF Moved
    <3>3. CASE ResizedInPlace(h, l)
      <4>1. live[h].ptr \in Address
        BY <3>1, LiveBlock
      <4>2. live' = [live EXCEPT ![h] = NewBlock(live[h].ptr, l,
                                        Lesser(live[h].filled, l.size))]
        BY <3>3 DEF ResizedInPlace
      <4> QED BY <3>1, <4>1, <4>2, ResizeImplements
    <3> QED BY <2>3, <2>5, <3>2, <3>3 DEF Grow, Shrink, vars
  <2> QED BY <2>1, <2>2, <2>3, <2>4, <2>5 DEF Next
<1>3. IInv /\ LiveAligned /\ ("grow" \notin Calls => LiveInBuffer) => ContractInv
  BY DEF ContractInv
<1>4. IInv => TypeOK
  BY DEF IInv
<1>5. CASE "grow" \in Calls
  <2>1. IInv /\ LiveAligned => ContractInv
    BY <1>5, <1>3
  <2> QED
    BY <1>1, <1>2, <1>4, <2>1, Inductive, Aligned, PTL
    DEF Spec, KeepsContract, Contract!Spec
<1>6. CASE "grow" \notin Calls
  <2>1. IInv /\ LiveAligned /\ LiveInBuffer => ContractInv
    BY <1>3
  <2>2. Roomy => Low
    BY RoomyIsLow
  <2> QED
    BY <1>1, <1>2, <1>4, <1>6, <2>1, <2>2, Inductive, Aligned, InBuffer, PTL
    DEF Spec, KeepsContract, Contract!Spec
<1> QED BY <1>5, <1>6
=============================================================================
