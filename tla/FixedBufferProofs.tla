-------------------------- MODULE FixedBufferProofs --------------------------
(***************************************************************************)
(* Proofs about FixedBuffer, for every slice, word size, set of layouts    *)
(* and number of handles.                                                  *)
(***************************************************************************)
EXTENDS FixedBuffer, TLAPS

-----------------------------------------------------------------------------
(* Address arithmetic.                                                     *)

\* x % n for a positive n: in range, and x itself when x is in range already.
LEMMA ModRange ==
  ASSUME NEW x \in Int, NEW n \in Nat \ {0}
  PROVE  x % n \in 0 .. n - 1
OBVIOUS

LEMMA ModSmall ==
  ASSUME NEW n \in Nat \ {0}, NEW x \in 0 .. n - 1
  PROVE  x % n = x
OBVIOUS

\* A usize result is an address, and is exact when it does not wrap.
LEMMA WrapAddress ==
  ASSUME NEW x \in Int
  PROVE  /\ Wrap(x) \in Address
         /\ x \in Address => Wrap(x) = x
BY ModRange, ModSmall, AddressAssumption DEF Wrap, Address

\* Rounding down moves an address down by less than the alignment.
LEMMA AlignDownBounds ==
  ASSUME NEW x \in Int, NEW a \in Nat \ {0}
  PROVE  /\ AlignDown(x, a) \in Int
         /\ AlignDown(x, a) <= x
         /\ x < AlignDown(x, a) + a
         /\ x >= 0 => AlignDown(x, a) >= 0
BY ModRange DEF AlignDown

LEMMA AlignDownAddress ==
  ASSUME NEW x \in Address, NEW a \in Nat \ {0}
  PROVE  AlignDown(x, a) \in Address
BY AlignDownBounds, AddressAssumption DEF Address

-----------------------------------------------------------------------------
(* Typing.                                                                 *)

\* What allocate computes from a well-typed `begin' are addresses.
LEMMA StartType ==
  ASSUME begin \in Address, NEW l \in Layouts
  PROVE  Start(l) \in Address /\ NewBegin(l) \in Address
<1>1. l.size \in Nat /\ l.align \in Nat \ {0}
  BY LayoutAssumption
<1>2. begin \in Int
  BY AddressAssumption DEF Address
<1>3. Wrap(begin + (l.align - 1)) \in Address
  BY <1>1, <1>2, WrapAddress
<1>4. Start(l) \in Address
  BY <1>1, <1>3, AlignDownAddress DEF Start, AlignUp
<1>5. Start(l) + l.size \in Int
  BY <1>1, <1>4, AddressAssumption DEF Address
<1> QED
  BY <1>4, <1>5, WrapAddress DEF NewBegin

LEMMA NewBlockType ==
  ASSUME NEW p \in Address, NEW l \in Layouts, NEW n \in Nat
  PROVE  NewBlock(p, l, n) \in Block
BY LayoutAssumption DEF NewBlock, Block

LEMMA ReleasedType ==
  ASSUME NEW b \in Address, NEW blk \in Block
  PROVE  Released(b, blk) \in Address
BY DEF Released, Block

\* Every copy, store and release leaves mem a map from addresses to owners.
LEMMA StoredType ==
  ASSUME mem \in [Address -> Handles \union {None}],
         NEW h \in Handles, NEW p, NEW n
  PROVE  Stored(h, p, n) \in [Address -> Handles \union {None}]
BY DEF Stored

LEMMA KeptType ==
  ASSUME mem \in [Address -> Handles \union {None}], NEW h, NEW p, NEW n
  PROVE  Kept(h, p, n) \in [Address -> Handles \union {None}]
BY DEF Kept

LEMMA CopiedType ==
  ASSUME mem \in [Address -> Handles \union {None}],
         NEW h, NEW p, NEW q, NEW n
  PROVE  Copied(h, p, q, n) \in [Address -> Handles \union {None}]
BY DEF Copied

\* A live handle holds a block, and None is not one.
LEMMA LiveBlock ==
  ASSUME TypeOK, NEW h \in Handles, IsLive(h)
  PROVE  /\ live[h] \in Block
         /\ live[h].ptr \in Address
         /\ live[h].ptr \in Nat
         /\ live[h].size \in Nat
         /\ live[h].align \in Nat \ {0}
         /\ live[h].filled \in Nat
BY ClientAssumption, AddressAssumption DEF TypeOK, IsLive, Block, Address

\* The parts of a resize that grow and shrink share keep the types.
LEMMA ResizeType ==
  ASSUME TypeOK, NEW h \in Handles, IsLive(h), NEW l \in Layouts,
         Moved(h, l) \/ ResizedInPlace(h, l)
  PROVE  TypeOK'
<1> USE DEF TypeOK
<1>1. /\ l.size \in Nat /\ l.align \in Nat \ {0}
      /\ Lesser(live[h].filled, l.size) \in Nat
  BY LayoutAssumption, LiveBlock DEF Lesser
<1>2. begin \in Int
  BY AddressAssumption DEF Address
<1>3. CASE Moved(h, l)
  <2>1. begin' \in Address
    BY <1>3, StartType, LiveBlock, ReleasedType DEF Moved
  <2>2. live' \in [Handles -> Block \union {None}]
    BY <1>1, <1>3, StartType, NewBlockType DEF Moved
  <2>3. mem' \in [Address -> Handles \union {None}]
    BY <1>3, CopiedType DEF Moved
  <2> QED BY <2>1, <2>2, <2>3
<1>4. CASE ResizedInPlace(h, l)
  <2>1. begin' \in Address
    BY <1>1, <1>2, <1>4, LiveBlock, WrapAddress DEF ResizedInPlace
  <2>2. live' \in [Handles -> Block \union {None}]
    BY <1>1, <1>4, LiveBlock, NewBlockType DEF ResizedInPlace
  <2>3. mem' \in [Address -> Handles \union {None}]
    BY <1>4, KeptType DEF ResizedInPlace
  <2> QED BY <2>1, <2>2, <2>3
<1> QED BY <1>3, <1>4

\* Type correctness of the allocator: no operation leaves the address space
\* or makes a block of something else, whatever the client does.
THEOREM TypeCorrect == Spec => []TypeOK
<1>1. Init => TypeOK
  BY AddressAssumption DEF Init, TypeOK, Address
<1>2. TypeOK /\ [Next]_vars => TypeOK'
  <2> SUFFICES ASSUME TypeOK, [Next]_vars PROVE TypeOK'
    OBVIOUS
  <2>1. ASSUME NEW h \in Handles, Deallocate(h) PROVE TypeOK'
    <3>1. begin' \in Address
      BY <2>1, LiveBlock, ReleasedType DEF Deallocate, TypeOK
    <3>2. live' \in [Handles -> Block \union {None}]
      BY <2>1 DEF Deallocate, TypeOK
    <3>3. mem' \in [Address -> Handles \union {None}]
      BY <2>1, KeptType DEF Deallocate, TypeOK
    <3> QED BY <3>1, <3>2, <3>3 DEF TypeOK
  <2>2. ASSUME NEW h \in Handles, Write(h) PROVE TypeOK'
    <3>1. live' \in [Handles -> Block \union {None}]
      BY <2>2, LiveBlock DEF Write, TypeOK, Block
    <3>2. mem' \in [Address -> Handles \union {None}]
      BY <2>2, StoredType DEF Write, TypeOK
    <3> QED BY <2>2, <3>1, <3>2 DEF Write, TypeOK
  <2>3. ASSUME NEW h \in Handles, NEW l \in Layouts, Allocate(h, l)
        PROVE  TypeOK'
    BY <2>3, StartType, NewBlockType DEF Allocate, TypeOK, vars
  <2>4. ASSUME NEW h \in Handles, NEW l \in Layouts, Grow(h, l) \/ Shrink(h, l)
        PROVE  TypeOK'
    BY <2>4, ResizeType DEF Grow, Shrink, TypeOK, vars
  <2>5. CASE UNCHANGED vars
    BY <2>5 DEF vars, TypeOK
  <2> QED
    BY <2>1, <2>2, <2>3, <2>4, <2>5 DEF Next
<1> QED
  BY <1>1, <1>2, PTL DEF Spec

-----------------------------------------------------------------------------
(* Safety: the held blocks stay apart and below `begin'.                   *)

\* The part of IInv a step has to re-establish when it replaces the block
\* of one handle: the new block against every other one, and `begin'.
LEMMA Replaced ==
  ASSUME IInv, TypeOK', NEW h \in Handles, NEW b,
         live' = [live EXCEPT ![h] = b],
         b # None => Placed(b) /\ (b.size > 0 => End(b) <= begin'),
         \A g \in Handles \ {h} :
           IsLive(g) => /\ b # None => Apart(live[g], b)
                        /\ live[g].size > 0 => End(live[g]) <= begin',
         Base <= begin', Ceiling'
  PROVE  IInv'
<1>1. \A g \in Handles : IsLive(g)' => live'[g] # None
  BY DEF IsLive
<1>2. live'[h] = b /\ \A g \in Handles \ {h} : live'[g] = live[g]
  BY DEF IInv, TypeOK
<1>3. (\A g \in Handles : IsLive(g) => Placed(live[g]))'
  BY <1>1, <1>2 DEF IInv, IsLive, Placed
<1>4. (\A g, k \in Handles :
         g # k /\ IsLive(g) /\ IsLive(k) => Apart(live[g], live[k]))'
  <2> SUFFICES ASSUME NEW g \in Handles, NEW k \in Handles, g # k,
                      live'[g] # None, live'[k] # None
               PROVE  Apart(live'[g], live'[k])
    BY DEF IsLive, Apart, End
  <2>1. CASE g # h /\ k # h
    BY <1>2, <2>1 DEF IInv, IsLive
  <2>2. CASE k = h
    BY <1>2, <2>2 DEF IsLive
  <2>3. CASE g = h
    <3>1. Apart(live[k], b)
      BY <1>2, <2>3 DEF IsLive
    <3> QED BY <1>2, <2>3, <3>1 DEF Apart
  <2> QED BY <2>1, <2>2, <2>3
<1>5. LiveBelowBegin'
  BY <1>2 DEF LiveBelowBegin, IsLive, End
<1> QED
  BY <1>3, <1>4, <1>5 DEF IInv

\* Below the top of the address space the sums of allocate do not wrap: the
\* block starts at or above `begin'.
LEMMA NoWrapBelow ==
  ASSUME begin \in Address, NEW l \in Layouts,
         begin + l.size + l.align <= WordSize
  PROVE  /\ Start(l) \in Address /\ Start(l) \in Nat /\ begin \in Nat
         /\ begin <= Start(l)
         /\ NewBegin(l) = Start(l) + l.size
         /\ NewBegin(l) \in Address
<1>1. /\ begin \in Nat /\ WordSize \in Nat
      /\ l.size \in Nat /\ l.align \in Nat \ {0}
  BY AddressAssumption, LayoutAssumption DEF Address
<1>2. begin + (l.align - 1) \in Address
  BY <1>1 DEF Address
<1>3. Start(l) = AlignDown(begin + (l.align - 1), l.align)
  BY <1>1, <1>2, WrapAddress DEF Start, AlignUp
<1>4. begin <= Start(l) /\ Start(l) <= begin + (l.align - 1)
  <2> DEFINE x == begin + (l.align - 1)
  <2>1. x \in Int
    BY <1>1
  <2>2. /\ AlignDown(x, l.align) \in Int
        /\ AlignDown(x, l.align) <= x
        /\ x < AlignDown(x, l.align) + l.align
    BY <1>1, <2>1, AlignDownBounds
  <2> QED BY <1>1, <1>3, <2>2
<1>5. Start(l) \in Address /\ NewBegin(l) \in Address
  BY StartType
<1>6. Start(l) + l.size \in Address
  BY <1>1, <1>4, <1>5 DEF Address
<1> QED
  BY <1>1, <1>4, <1>5, <1>6, WrapAddress DEF NewBegin, Address

\* That is where the invariant keeps `begin'.
LEMMA NoWrap ==
  ASSUME IInv, Roomy, NEW l \in Layouts
  PROVE  /\ Start(l) \in Address /\ Start(l) \in Nat /\ begin \in Nat
         /\ begin <= Start(l)
         /\ NewBegin(l) = Start(l) + l.size
         /\ NewBegin(l) \in Address
<1>1. /\ begin \in Nat /\ WordSize \in Nat /\ BufEnd \in Nat
      /\ l.size \in Nat /\ l.align \in Nat \ {0}
  BY AddressAssumption, LayoutAssumption DEF IInv, TypeOK, Address
<1>2. begin + l.size + l.align <= WordSize
  <2>1. CASE begin <= BufEnd
    BY <1>1, <2>1 DEF Roomy
  <2>2. CASE \E m \in Layouts : begin < BufEnd + m.size + m.align
    <3>1. PICK m \in Layouts : begin < BufEnd + m.size + m.align
      BY <2>2
    <3>2. m.size \in Nat /\ m.align \in Nat
      BY LayoutAssumption
    <3>3. BufEnd + m.size + m.align + l.size + l.align <= WordSize
      BY DEF Roomy
    <3> QED BY <1>1, <3>1, <3>2, <3>3
  <2> QED BY <2>1, <2>2 DEF IInv, Ceiling
<1> QED
  BY <1>2, NoWrapBelow DEF IInv, TypeOK

\* A block that passes the test of deallocate ends less than its own
\* alignment below `begin'.
LEMMA LastEndsNear ==
  ASSUME NEW x \in Address, NEW b \in Block, b.size > 0 => End(b) <= x,
         IsLast(x, b)
  PROVE  End(b) <= x /\ x < End(b) + b.align
<1>1. /\ b.ptr \in Nat /\ b.size \in Nat /\ b.align \in Nat \ {0} /\ x \in Nat
  BY AddressAssumption DEF Block, Address
<1>2. x - b.size \in Address
  BY <1>1, AddressAssumption DEF End, Address
<1>3. AlignDown(x - b.size, b.align) = b.ptr
  BY <1>1, <1>2, WrapAddress DEF IsLast, PrevBegin
<1>4. b.ptr <= x - b.size /\ x - b.size < b.ptr + b.align
  <2>1. x - b.size \in Int
    BY <1>1
  <2> QED BY <1>1, <1>3, <2>1, AlignDownBounds
<1> QED
  BY <1>1, <1>4 DEF End

\* So a block of no less than that alignment does not fit in between.
LEMMA LastIsAbove ==
  ASSUME NEW x \in Address, NEW b \in Block, b.size > 0 => End(b) <= x,
         IsLast(x, b),
         NEW c \in Block, c.size > 0, End(c) <= x, Apart(c, b),
         IF b.size = 0 THEN b.align = 1 ELSE b.align <= c.size
  PROVE  End(c) <= b.ptr
<1>1. /\ b.ptr \in Nat /\ b.size \in Nat /\ b.align \in Nat \ {0} /\ x \in Nat
      /\ c.ptr \in Nat /\ c.size \in Nat
  BY AddressAssumption DEF Block, Address
<1>2. End(b) <= x /\ x < End(b) + b.align
  BY LastEndsNear
<1> QED BY <1>1, <1>2 DEF Apart, End

LEMMA LastBounds ==
  ASSUME IInv, NEW h \in Handles, IsLive(h), IsLast(begin, live[h])
  PROVE  /\ End(live[h]) <= begin
         /\ begin < End(live[h]) + live[h].align
BY LiveBlock, LastEndsNear DEF IInv, TypeOK, LiveBelowBegin

\* The blocks of compatible layouts are as LastIsAbove asks.
LEMMA CompatibleBlocks ==
  ASSUME Compatible, ~StackClient, NEW b, NEW c, Placed(b), Placed(c), c.size > 0
  PROVE  IF b.size = 0 THEN b.align = 1 ELSE b.align <= c.size
<1>1. PICK l \in Layouts : b.size = l.size /\ b.align = l.align
  BY DEF Placed
<1>2. PICK m \in Layouts : c.size = m.size /\ c.align = m.align
  BY DEF Placed
<1>3. IF l.size = 0 THEN l.align = 1 ELSE l.align <= l.size
  BY DEF Compatible
<1>4. IF m.size = 0 THEN m.align = 1 ELSE l.align <= m.size
  BY DEF Compatible
<1> QED BY <1>1, <1>2, <1>3, <1>4

\* What the test of grow, shrink and deallocate is meant to establish, and
\* does for compatible layouts: nothing that is still held lies above.
LEMMA LastIsTopmost ==
  ASSUME IInv, Compatible, NEW h \in Handles, IsLive(h),
         IsLast(begin, live[h]), StackClient => Topmost(h)
  PROVE  Topmost(h)
<1>1. CASE StackClient
  BY <1>1
<1>2. CASE ~StackClient
  <2> SUFFICES ASSUME NEW g \in Handles \ {h}, IsLive(g), live[g].size > 0
               PROVE  End(live[g]) <= live[h].ptr
    BY DEF Topmost
  <2>1. live[g] \in Block /\ live[h] \in Block /\ begin \in Address
    BY LiveBlock DEF IInv, TypeOK
  <2>2. IF live[h].size = 0 THEN live[h].align = 1 ELSE live[h].align <= live[g].size
    BY <1>2, CompatibleBlocks DEF IInv
  <2>3. End(live[g]) <= begin /\ (live[h].size > 0 => End(live[h]) <= begin)
    BY DEF IInv, LiveBelowBegin
  <2>4. Apart(live[g], live[h])
    BY DEF IInv
  <2> QED BY <2>1, <2>2, <2>3, <2>4, LastIsAbove
<1> QED BY <1>1, <1>2

-----------------------------------------------------------------------------
(* One lemma per way the allocator changes a block.                        *)

LEMMA AllocateKeeps ==
  ASSUME IInv, Roomy, TypeOK', NEW h \in Handles, NEW l \in Layouts,
         Allocate(h, l)
  PROVE  IInv'
<1>1. CASE ~Fits(l)
  BY <1>1 DEF Allocate, IInv, vars, TypeOK, IsLive, LiveBelowBegin, Ceiling
<1>2. CASE Fits(l)
  <2> DEFINE b == NewBlock(Start(l), l, 0)
  <2>1. /\ begin' = NewBegin(l) /\ live' = [live EXCEPT ![h] = b]
        /\ ~IsLive(h) /\ NewBegin(l) <= BufEnd
    BY <1>2 DEF Allocate, Fits
  <2>2. b.ptr = Start(l) /\ b.size = l.size /\ b.align = l.align
    BY DEF NewBlock
  <2>3. /\ begin \in Nat /\ Start(l) \in Nat /\ l.size \in Nat
        /\ begin <= Start(l) /\ begin' = Start(l) + l.size
        /\ Base \in Nat /\ Base <= begin
    BY <2>1, NoWrap, LayoutAssumption, AddressAssumption DEF IInv, Address
  <2>4. Placed(b) /\ End(b) <= begin'
    BY <2>1, <2>2, <2>3, AddressAssumption DEF Placed, End, Address
  <2>5. \A g \in Handles \ {h} :
          IsLive(g) => /\ Apart(live[g], b)
                       /\ live[g].size > 0 => End(live[g]) <= begin'
    <3> SUFFICES ASSUME NEW g \in Handles \ {h}, IsLive(g)
                 PROVE  /\ Apart(live[g], b)
                        /\ live[g].size > 0 => End(live[g]) <= begin'
      OBVIOUS
    <3>1. live[g].ptr \in Nat /\ live[g].size \in Nat
      BY LiveBlock DEF IInv
    <3>2. live[g].size > 0 => End(live[g]) <= begin
      BY DEF IInv, LiveBelowBegin
    <3> QED BY <2>2, <2>3, <3>1, <3>2 DEF Apart, End
  <2>6. Base <= begin' /\ Ceiling'
    BY <2>1, <2>3 DEF Ceiling
  <2> QED
    BY <2>1, <2>4, <2>5, <2>6, Replaced
<1> QED BY <1>1, <1>2

LEMMA DeallocateKeeps ==
  ASSUME IInv, Compatible, TypeOK', NEW h \in Handles, Deallocate(h)
  PROVE  IInv'
<1>1. /\ IsLive(h) /\ live' = [live EXCEPT ![h] = None]
      /\ begin' = Released(begin, live[h])
      /\ StackClient => Topmost(h)
  BY DEF Deallocate
<1>2. CASE IsLast(begin, live[h])
  <2>1. begin' = live[h].ptr
    BY <1>1, <1>2 DEF Released
  <2>2. Topmost(h)
    BY <1>1, <1>2, LastIsTopmost
  <2>3. Base <= begin' /\ begin' <= BufEnd
    BY <1>1, <2>1 DEF IInv, Placed
  <2> QED
    BY <1>1, <2>1, <2>2, <2>3, Replaced DEF Topmost, Ceiling
<1>3. CASE ~IsLast(begin, live[h])
  <2>1. begin' = begin
    BY <1>1, <1>3 DEF Released
  <2> QED
    BY <1>1, <2>1, Replaced DEF IInv, LiveBelowBegin, Ceiling
<1> QED BY <1>2, <1>3

\* The old block may pass for the last one once the new one is there: when it
\* does, everything held, the new block too, lies below it or is empty.
LEMMA MovedBegin ==
  ASSUME IInv, Compatible, Roomy, ~StackClient,
         NEW h \in Handles, IsLive(h), NEW l \in Layouts, Fits(l), Moved(h, l)
  PROVE  /\ NewBegin(l) = Start(l) + l.size /\ begin <= Start(l)
         /\ begin' = NewBegin(l) \/ begin' = live[h].ptr
         /\ l.size > 0 => Start(l) + l.size <= begin'
         /\ \A g \in Handles \ {h} :
              IsLive(g) /\ live[g].size > 0 => End(live[g]) <= begin'
<1> DEFINE old == live[h]
           b == NewBlock(Start(l), l, 0)
<1>1. begin' = Released(NewBegin(l), old)
  BY DEF Moved
<1>2. b.ptr = Start(l) /\ b.size = l.size /\ b.align = l.align
  BY DEF NewBlock
<1>3. /\ begin \in Nat /\ Start(l) \in Nat /\ l.size \in Nat
      /\ begin <= Start(l) /\ NewBegin(l) = Start(l) + l.size
      /\ NewBegin(l) \in Address /\ NewBegin(l) <= BufEnd
      /\ Start(l) \in Address /\ Base \in Nat /\ BufEnd \in Nat /\ Base <= begin
  BY NoWrap, LayoutAssumption, AddressAssumption DEF Fits, IInv, Address
<1>4. /\ old \in Block /\ old.ptr \in Nat /\ old.size \in Nat
      /\ old.size > 0 => End(old) <= begin
      /\ b \in Block /\ Placed(old) /\ Placed(b)
  <2>1. Placed(b)
    BY <1>2, <1>3 DEF Placed
  <2> QED BY <1>3, <2>1, LiveBlock, NewBlockType DEF IInv, LiveBelowBegin
<1>5. /\ begin' = NewBegin(l) \/ begin' = old.ptr
      /\ begin' # NewBegin(l) => IsLast(NewBegin(l), old) /\ begin' = old.ptr
  BY <1>1 DEF Released
<1>6. old.size > 0 => End(old) <= NewBegin(l)
  BY <1>3, <1>4 DEF End
<1>7. ASSUME IsLast(NewBegin(l), old), begin' = old.ptr, l.size > 0
      PROVE  Start(l) + l.size <= begin'
  <2>1. Apart(b, old) /\ End(b) <= NewBegin(l)
    BY <1>2, <1>3, <1>4 DEF Apart, End
  <2>2. IF old.size = 0 THEN old.align = 1 ELSE old.align <= b.size
    BY <1>2, <1>4, <1>7, CompatibleBlocks
  <2>3. End(b) <= old.ptr
    BY <1>2, <1>3, <1>4, <1>6, <1>7, <2>1, <2>2, LastIsAbove
  <2> QED BY <1>2, <1>7, <2>3 DEF End
<1>8. ASSUME NEW g \in Handles \ {h}, IsLive(g), live[g].size > 0
      PROVE  End(live[g]) <= begin'
  <2>1. /\ live[g] \in Block /\ live[g].ptr \in Nat /\ live[g].size \in Nat
        /\ End(live[g]) <= begin /\ Apart(live[g], old) /\ Placed(live[g])
    BY <1>8, LiveBlock DEF IInv, LiveBelowBegin
  <2>2. End(live[g]) <= NewBegin(l)
    BY <1>3, <2>1 DEF End
  <2>3. IF old.size = 0 THEN old.align = 1 ELSE old.align <= live[g].size
    BY <1>4, <1>8, <2>1, CompatibleBlocks
  <2>4. CASE IsLast(NewBegin(l), old) /\ begin' = old.ptr
    BY <1>3, <1>4, <1>6, <1>8, <2>1, <2>2, <2>3, <2>4, LastIsAbove
  <2> QED BY <1>5, <2>2, <2>4
<1>9. l.size > 0 => Start(l) + l.size <= begin'
  BY <1>3, <1>5, <1>7
<1> QED BY <1>3, <1>5, <1>8, <1>9

LEMMA MovedKeeps ==
  ASSUME IInv, Compatible, Roomy, TypeOK', ~StackClient,
         NEW h \in Handles, IsLive(h), NEW l \in Layouts, Fits(l), Moved(h, l)
  PROVE  IInv'
<1> DEFINE old == live[h]
           b == NewBlock(Start(l), l, Lesser(old.filled, l.size))
<1>1. live' = [live EXCEPT ![h] = b]
  BY DEF Moved
<1>2. b.ptr = Start(l) /\ b.size = l.size /\ b.align = l.align
  BY DEF NewBlock
<1>3. /\ begin \in Nat /\ Start(l) \in Nat /\ l.size \in Nat
      /\ begin <= Start(l) /\ NewBegin(l) = Start(l) + l.size
      /\ Base \in Nat /\ BufEnd \in Nat /\ Base <= begin
      /\ NewBegin(l) <= BufEnd
  BY NoWrap, LayoutAssumption, AddressAssumption DEF IInv, Address, Fits
<1>4. /\ begin' = NewBegin(l) \/ begin' = old.ptr
      /\ l.size > 0 => Start(l) + l.size <= begin'
      /\ \A g \in Handles \ {h} :
           IsLive(g) /\ live[g].size > 0 => End(live[g]) <= begin'
  BY MovedBegin
<1>5. Placed(b) /\ (b.size > 0 => End(b) <= begin')
  BY <1>2, <1>3, <1>4 DEF Placed, End
<1>6. \A g \in Handles \ {h} :
        IsLive(g) => /\ Apart(live[g], b)
                     /\ live[g].size > 0 => End(live[g]) <= begin'
  <2> SUFFICES ASSUME NEW g \in Handles \ {h}, IsLive(g)
               PROVE  /\ Apart(live[g], b)
                      /\ live[g].size > 0 => End(live[g]) <= begin'
    OBVIOUS
  <2>1. live[g].ptr \in Nat /\ live[g].size \in Nat
    BY LiveBlock DEF IInv
  <2>2. live[g].size > 0 => End(live[g]) <= begin
    BY DEF IInv, LiveBelowBegin
  <2> QED BY <1>2, <1>3, <1>4, <2>1, <2>2 DEF Apart, End
<1>7. Base <= begin' /\ Ceiling'
  <2>1. Base <= old.ptr /\ old.ptr <= BufEnd
    BY DEF IInv, Placed
  <2> QED BY <1>3, <1>4, <2>1 DEF Ceiling
<1> QED
  BY <1>1, <1>5, <1>6, <1>7, Replaced

\* In place, grow may end past the slice: then `begin' is past it by less
\* than the size and alignment of the layout it grew from.
LEMMA ResizedInPlaceKeeps ==
  ASSUME IInv, Compatible, Roomy, TypeOK', NEW h \in Handles, IsLive(h),
         NEW l \in Layouts, l.align = live[h].align,
         IsLast(begin, live[h]), StackClient => Topmost(h),
         l.size <= live[h].size \/ GrowthFits(live[h], l),
         ResizedInPlace(h, l)
  PROVE  IInv'
<1> DEFINE old == live[h]
           b == NewBlock(old.ptr, l, Lesser(old.filled, l.size))
<1>1. /\ live' = [live EXCEPT ![h] = b]
      /\ begin' = Wrap(begin + (l.size - old.size))
  BY DEF ResizedInPlace
<1>2. b.ptr = old.ptr /\ b.size = l.size /\ b.align = l.align
  BY DEF NewBlock
<1>3. /\ begin \in Nat /\ begin < WordSize /\ WordSize \in Nat
      /\ BufEnd \in Nat /\ Base \in Nat
      /\ l.size \in Nat /\ l.align \in Nat
      /\ old.ptr \in Nat /\ old.size \in Nat /\ old.align \in Nat
      /\ Base <= old.ptr /\ old.ptr <= BufEnd
      /\ End(old) <= begin /\ begin < End(old) + old.align
  BY LiveBlock, LastBounds, LayoutAssumption, AddressAssumption
  DEF IInv, TypeOK, Placed, Address
<1>4. PICK m \in Layouts : old.size = m.size /\ old.align = m.align
  BY DEF IInv, Placed
<1>5. begin + (l.size - old.size) \in Address /\ Ceiling'
  <2> DEFINE x == begin + (l.size - old.size)
  <2>1. CASE l.size <= old.size
    <3>1. x \in Address /\ x <= begin
      BY <1>3, <2>1 DEF End, Address
    <3>2. begin' = x
      BY <1>1, <1>3, <3>1, WrapAddress
    <3>3. ASSUME NEW k \in Layouts, begin < BufEnd + k.size + k.align
          PROVE  x < BufEnd + k.size + k.align
      <4>1. k.size \in Nat /\ k.align \in Nat
        BY LayoutAssumption
      <4> QED BY <1>3, <3>1, <3>3, <4>1
    <3>4. begin <= BufEnd => x <= BufEnd
      BY <1>3, <3>1
    <3> QED BY <3>1, <3>2, <3>3, <3>4 DEF IInv, Ceiling
  <2>2. CASE GrowthFits(old, l) /\ ~(l.size <= old.size)
    <3>1. old.ptr + (l.size - old.size) <= BufEnd
      BY <2>2 DEF GrowthFits
    <3>2. m.size \in Nat /\ m.align \in Nat
      BY LayoutAssumption
    <3>3. x \in Nat /\ x < BufEnd + m.size + m.align
      BY <1>3, <1>4, <2>2, <3>1, <3>2 DEF End
    <3>4. BufEnd + m.size + m.align + m.size + m.align <= WordSize
      BY DEF Roomy
    <3>5. x \in Address
      BY <1>3, <3>2, <3>3, <3>4 DEF Address
    <3>6. begin' = x
      BY <1>1, <1>3, <3>5, WrapAddress
    <3> QED BY <3>3, <3>5, <3>6 DEF Ceiling
  <2> QED BY <2>1, <2>2
<1>6. /\ begin' = begin + (l.size - old.size)
      /\ Base <= begin' /\ old.ptr <= begin' /\ old.ptr + l.size <= begin'
  <2>1. begin' = begin + (l.size - old.size)
    BY <1>1, <1>3, <1>5, WrapAddress
  <2> QED BY <1>3, <2>1 DEF End
<1>7. Placed(b) /\ End(b) <= begin'
  BY <1>2, <1>3, <1>6 DEF Placed, End
<1>8. \A g \in Handles \ {h} :
        IsLive(g) => /\ Apart(live[g], b)
                     /\ live[g].size > 0 => End(live[g]) <= begin'
  <2> SUFFICES ASSUME NEW g \in Handles \ {h}, IsLive(g)
               PROVE  /\ Apart(live[g], b)
                      /\ live[g].size > 0 => End(live[g]) <= begin'
    OBVIOUS
  <2>1. live[g].ptr \in Nat /\ live[g].size \in Nat
    BY LiveBlock DEF IInv
  <2>2. live[g].size > 0 => End(live[g]) <= old.ptr
    BY LastIsTopmost DEF Topmost
  <2> QED BY <1>2, <1>3, <1>6, <2>1, <2>2 DEF Apart, End
<1> QED
  BY <1>1, <1>5, <1>6, <1>7, <1>8, Replaced

LEMMA ResizeKeeps ==
  ASSUME IInv, Compatible, Roomy, TypeOK', NEW h \in Handles,
         NEW l \in Layouts, Grow(h, l) \/ Shrink(h, l)
  PROVE  IInv'
<1>1. /\ IsLive(h)
      /\ StackClient => Topmost(h)
      /\ StackClient => l.align = live[h].align
  BY DEF Grow, Shrink, MayResize
<1>2. CASE UNCHANGED vars
  BY <1>2 DEF IInv, vars, TypeOK, IsLive, LiveBelowBegin, Ceiling
<1>3. CASE l.align # live[h].align /\ Fits(l) /\ Moved(h, l)
  BY <1>1, <1>3, MovedKeeps
<1>4. CASE /\ l.align = live[h].align /\ IsLast(begin, live[h])
           /\ l.size <= live[h].size \/ GrowthFits(live[h], l)
           /\ ResizedInPlace(h, l)
  BY <1>1, <1>4, ResizedInPlaceKeeps
<1> QED
  BY <1>2, <1>3, <1>4 DEF Grow, Shrink

LEMMA WriteKeeps ==
  ASSUME IInv, TypeOK', NEW h \in Handles, Write(h)
  PROVE  IInv'
<1> DEFINE b == [live[h] EXCEPT !.filled = live[h].size]
<1>1. /\ IsLive(h) /\ begin' = begin /\ live' = [live EXCEPT ![h] = b]
  BY DEF Write, IInv, TypeOK
<1>2. b.ptr = live[h].ptr /\ b.size = live[h].size /\ b.align = live[h].align
  BY <1>1, LiveBlock DEF IInv, Block
<1>3. Placed(b) /\ (b.size > 0 => End(b) <= begin')
  BY <1>1, <1>2 DEF IInv, Placed, LiveBelowBegin, End
<1>4. \A g \in Handles \ {h} :
        IsLive(g) => /\ Apart(live[g], b)
                     /\ live[g].size > 0 => End(live[g]) <= begin'
  BY <1>1, <1>2 DEF IInv, Apart, LiveBelowBegin, End
<1> QED
  BY <1>1, <1>3, <1>4, Replaced DEF IInv, Ceiling

-----------------------------------------------------------------------------
(* The theorems.                                                           *)

\* The inductive invariant, for compatible layouts in a slice that is not
\* at the very top of the address space.
THEOREM Inductive == Compatible /\ Roomy /\ Spec => []IInv
<1>1. Init => IInv
  BY AddressAssumption
  DEF Init, IInv, TypeOK, IsLive, LiveBelowBegin, Ceiling, Address
<1>2. Compatible /\ Roomy /\ IInv /\ TypeOK' /\ [Next]_vars => IInv'
  <2> SUFFICES ASSUME Compatible, Roomy, IInv, TypeOK', [Next]_vars
               PROVE  IInv'
    OBVIOUS
  <2>1. CASE \E h \in Handles : Deallocate(h)
    BY <2>1, DeallocateKeeps
  <2>2. CASE \E h \in Handles : Write(h)
    BY <2>2, WriteKeeps
  <2>3. CASE \E h \in Handles, l \in Layouts : Allocate(h, l)
    BY <2>3, AllocateKeeps
  <2>4. CASE \E h \in Handles, l \in Layouts : Grow(h, l) \/ Shrink(h, l)
    BY <2>4, ResizeKeeps
  <2>5. CASE UNCHANGED vars
    BY <2>5 DEF IInv, vars, TypeOK, IsLive, LiveBelowBegin, Ceiling
  <2> QED
    BY <2>1, <2>2, <2>3, <2>4, <2>5 DEF Next
<1>3. Compatible /\ Roomy => [](Compatible /\ Roomy)
  <2>1. (Compatible /\ Roomy) /\ [TRUE]_vars => (Compatible /\ Roomy)'
    BY DEF Compatible, Roomy
  <2> QED BY <2>1, PTL
<1> QED
  BY <1>1, <1>2, <1>3, TypeCorrect, PTL DEF Spec

\* Two blocks a client holds never share a byte: recomputing whether a block
\* is the last one is sound for a client that works on its topmost block, and
\* for layouts none of which is smaller than another's alignment, but for
\* unaligned empty ones.
THEOREM Disjoint == Compatible /\ Roomy /\ Spec => []LiveDisjoint
<1>1. IInv => LiveDisjoint
  <2> SUFFICES ASSUME IInv, NEW g \in Handles, NEW h \in Handles, g # h,
                      IsLive(g), IsLive(h)
               PROVE  Bytes(live[g]) \intersect Bytes(live[h]) = {}
    BY DEF LiveDisjoint
  <2>1. /\ live[g].ptr \in Nat /\ live[g].size \in Nat
        /\ live[h].ptr \in Nat /\ live[h].size \in Nat
    BY LiveBlock DEF IInv
  <2>2. Apart(live[g], live[h])
    BY DEF IInv
  <2> QED BY <2>1, <2>2 DEF Apart, Bytes, End
<1> QED
  BY <1>1, Inductive, PTL

\* The next allocation starts above everything that is still held.
THEOREM BelowBegin == Compatible /\ Roomy /\ Spec => []LiveBelowBegin
<1>1. IInv => LiveBelowBegin
  BY DEF IInv
<1> QED
  BY <1>1, Inductive, PTL
=============================================================================
