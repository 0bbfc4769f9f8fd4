---------------------------- MODULE RawArrayProofs ----------------------------
(***************************************************************************)
(* What a RawArray knows of its block, proved for any number of arrays and *)
(* other clients, any sizes and any slice; then that RawArrays that share  *)
(* an allocator leave each other alone: their blocks stay apart, and no    *)
(* call changes what another array shows, even the calls that store behind *)
(* their block, as long as no usize sum of the allocator wraps.            *)
(***************************************************************************)
EXTENDS RawArray, TLAPS

KnownInv ==
  /\ begin \in Address
  /\ live \in [Handles -> FBA!Block \union {None}]
  /\ field \in [Arrays -> [length : Nat, capacity : Nat]]
  /\ BlockKnown

-----------------------------------------------------------------------------
(* The allocator.                                                          *)

\* A usize result is an address.
LEMMA WrapType ==
  ASSUME NEW x \in Int
  PROVE  FBA!Wrap(x) \in Address
<1>1. \A n \in Nat \ {0} : x % n \in 0 .. n - 1
  OBVIOUS
<1> QED BY <1>1, ArraysAssumption DEF FBA!Wrap, Address

\* A new block of bytes starts at an address, and so does what is behind it.
LEMMA NewBlockType ==
  ASSUME begin \in Address, NEW n \in Nat
  PROVE  /\ FBA!NewBlock(FBA!Start(Bytes(n)), Bytes(n), 0) \in FBA!Block
         /\ FBA!NewBlock(FBA!Start(Bytes(n)), Bytes(n), 0).size = n
         /\ FBA!NewBegin(Bytes(n)) \in Address
<1>1. Bytes(n).size = n /\ Bytes(n).align = 1
  BY DEF Bytes
<1>2. begin + (1 - 1) \in Int
  BY ArraysAssumption DEF Address
<1>3. \A x \in Address : FBA!AlignDown(x, 1) = x
  BY ArraysAssumption DEF FBA!AlignDown, Address
<1>4. FBA!Start(Bytes(n)) \in Address
  BY <1>1, <1>2, <1>3, WrapType DEF FBA!Start, FBA!AlignUp
<1>5. FBA!Start(Bytes(n)) + n \in Int
  BY <1>4, ArraysAssumption DEF Address
<1> QED
  BY <1>1, <1>4, <1>5, WrapType
  DEF FBA!NewBegin, FBA!NewBlock, FBA!Block, FBA!Address, Address

-----------------------------------------------------------------------------
(* One lemma per way a step changes blocks or fields.                      *)

\* Another client's block is no array's.
LEMMA OtherKeeps ==
  ASSUME KnownInv, NEW o \in Others, NEW b \in FBA!Block \union {None},
         live' = [live EXCEPT ![o] = b], begin' \in Address, UNCHANGED field
  PROVE  KnownInv'
<1>1. \A a \in Arrays : a \in Handles /\ a # o
  BY ArraysAssumption DEF Handles
<1>2. \A a \in Arrays : live'[a] = live[a]
  BY <1>1 DEF KnownInv
<1>3. BlockKnown'
  BY <1>2 DEF KnownInv, BlockKnown
<1> QED BY <1>3 DEF KnownInv

\* The length may be set to whatever the block has room for.
LEMMA LengthKeeps ==
  ASSUME KnownInv, NEW a \in Arrays, UNCHANGED <<begin, live>>,
         NEW n \in Nat, n <= field[a].capacity,
         field' = [field EXCEPT ![a].length = n]
  PROVE  KnownInv'
<1>1. /\ field[a].capacity \in Nat
      /\ field'[a] = [length |-> n, capacity |-> field[a].capacity]
      /\ \A b \in Arrays \ {a} : field'[b] = field[b]
  BY DEF KnownInv
<1>2. live[a] = None => n = 0 /\ field[a].capacity = 0
  BY <1>1 DEF KnownInv, BlockKnown, New
<1>3. BlockKnown'
  BY <1>1, <1>2 DEF KnownInv, BlockKnown, New
<1> QED BY <1>1, <1>3 DEF KnownInv

\* A first block: with_capacity, and reserve of an array without one.
LEMMA FirstBlockKeeps ==
  ASSUME KnownInv, NEW a \in Arrays, NEW n \in Nat, FirstBlock(a, n)
  PROVE  KnownInv'
<1> DEFINE b == FBA!NewBlock(FBA!Start(Bytes(n)), Bytes(n), 0)
<1>1. b \in FBA!Block /\ b.size = n /\ begin' \in Address
  BY NewBlockType DEF FirstBlock, KnownInv
<1>2. b # None /\ a \in Handles
  BY <1>1, ArraysAssumption DEF Handles, FBA!Block, FBA!Address
<1>3. /\ live' = [live EXCEPT ![a] = b]
      /\ field' = [field EXCEPT ![a] = [length |-> 0, capacity |-> n]]
  BY DEF FirstBlock
<1> HIDE DEF b
<1>4. BlockKnown'
  BY <1>1, <1>2, <1>3 DEF KnownInv, BlockKnown
<1> QED BY <1>1, <1>3, <1>4 DEF KnownInv

\* reserve tells the array what it told the allocator.
LEMMA ReservedKeeps ==
  ASSUME KnownInv, NEW a \in Arrays, NEW n \in Nat, Reserved(a, n)
  PROVE  KnownInv'
<1>1. a \in Handles /\ begin \in Int
  BY ArraysAssumption DEF Handles, KnownInv, Address
<1>2. CASE FirstBlock(a, n)
  BY <1>2, FirstBlockKeeps
<1>3. CASE field[a].capacity > 0 /\ LongerBlock(a, n)
  <2> DEFINE c == field[a].capacity
             b == [live[a] EXCEPT !.size = c + n]
  <2>1. c \in Nat /\ live[a] # None /\ live[a] \in FBA!Block /\ live[a].size = c
    BY <1>1, <1>3 DEF KnownInv, BlockKnown, New
  <2>2. b \in FBA!Block /\ b.size = c + n /\ b # None
    BY <2>1, ArraysAssumption DEF FBA!Block, FBA!Address
  <2>3. begin' \in Address
    BY <1>1, <1>3, WrapType DEF LongerBlock
  <2>4. /\ live' = [live EXCEPT ![a] = b]
        /\ field' = [field EXCEPT ![a].capacity = c + n]
    BY <1>1, <1>3 DEF LongerBlock, KnownInv
  <2>5. /\ live'[a] = b
        /\ field'[a] = [length |-> field[a].length, capacity |-> c + n]
        /\ field[a].length \in Nat
        /\ \A d \in Arrays \ {a} : live'[d] = live[d] /\ field'[d] = field[d]
    BY <1>1, <2>4 DEF KnownInv, Handles
  <2>6. field[a].length <= c + n
    BY <2>1, <2>5 DEF KnownInv, BlockKnown
  <2> HIDE DEF b, c
  <2>7. ASSUME NEW d \in Arrays
        PROVE  /\ live'[d] = None => field'[d] = New
               /\ live'[d] # None => /\ field'[d].capacity = live'[d].size
                                     /\ field'[d].length <= live'[d].size
    <3>1. CASE d = a
      BY <2>2, <2>5, <2>6, <3>1
    <3>2. CASE d # a
      BY <2>5, <3>2 DEF KnownInv, BlockKnown
    <3> QED BY <3>1, <3>2
  <2>8. live' \in [Handles -> FBA!Block \union {None}]
    BY <1>1, <2>2, <2>4 DEF KnownInv
  <2>9. field' \in [Arrays -> [length : Nat, capacity : Nat]]
    <3>1. [field[a] EXCEPT !.capacity = c + n] \in [length : Nat, capacity : Nat]
      BY <2>1, <2>5 DEF KnownInv
    <3> QED BY <2>4, <3>1 DEF KnownInv
  <2> QED BY <2>3, <2>7, <2>8, <2>9 DEF KnownInv, BlockKnown
<1> QED BY <1>2, <1>3 DEF Reserved

\* The calls of the other clients.
LEMMA OtherCallKeeps ==
  ASSUME KnownInv, NEW o \in Others, OtherCall(o)
  PROVE  KnownInv'
<1>1. o \in Handles /\ begin \in Int /\ UNCHANGED field
  BY ArraysAssumption DEF Handles, KnownInv, Address, OtherCall
<1>2. CASE UNCHANGED <<begin, live>>
  BY <1>1, <1>2 DEF KnownInv, BlockKnown
<1>3. CASE FBA!Deallocate(o)
  <2>1. live[o] \in FBA!Block
    BY <1>1, <1>3 DEF KnownInv, FBA!Deallocate, FBA!IsLive
  <2>2. begin' \in Address
    BY <1>3, <2>1
    DEF KnownInv, FBA!Deallocate, FBA!Released, FBA!Block, FBA!Address, Address
  <2> QED BY <1>1, <1>3, <2>2, OtherKeeps DEF FBA!Deallocate
<1>4. ASSUME NEW n \in Counts, FBA!Allocate(o, Bytes(n))
      PROVE  KnownInv'
  <2>1. n \in Nat
    BY ArraysAssumption
  <2>2. CASE /\ begin' = FBA!NewBegin(Bytes(n))
             /\ live' = [live EXCEPT ![o] =
                           FBA!NewBlock(FBA!Start(Bytes(n)), Bytes(n), 0)]
    BY <1>1, <2>1, <2>2, NewBlockType, OtherKeeps DEF KnownInv
  <2> QED BY <1>2, <1>4, <2>2 DEF FBA!Allocate, FBA!vars
<1>5. ASSUME NEW n \in Counts, FBA!Grow(o, Bytes(n))
      PROVE  KnownInv'
  <2>1. /\ n \in Nat /\ Bytes(n).size = n /\ Bytes(n).align = 1
        /\ live[o] \in FBA!Block
    BY <1>1, <1>5, ArraysAssumption
    DEF Bytes, KnownInv, FBA!Grow, FBA!IsLive
  <2> DEFINE k == FBA!Lesser(live[o].filled, n)
  <2>2. k \in Nat /\ live[o].ptr \in Address /\ live[o].size \in Nat
    BY <2>1 DEF FBA!Lesser, FBA!Block, FBA!Address, Address
  <2>3. CASE FBA!ResizedInPlace(o, Bytes(n))
    <3>1. begin' \in Address
      <4>1. begin + (n - live[o].size) \in Int
        BY <1>1, <2>1, <2>2
      <4> QED BY <2>1, <2>3, <4>1, WrapType DEF FBA!ResizedInPlace
    <3>2. FBA!NewBlock(live[o].ptr, Bytes(n), k) \in FBA!Block
      BY <2>1, <2>2 DEF FBA!NewBlock, FBA!Block, FBA!Address, Address
    <3>3. live' = [live EXCEPT ![o] = FBA!NewBlock(live[o].ptr, Bytes(n), k)]
      BY <2>1, <2>3 DEF FBA!ResizedInPlace, KnownInv
    <3> QED BY <1>1, <3>1, <3>2, <3>3, OtherKeeps
  <2>4. CASE FBA!Moved(o, Bytes(n))
    <3>1. /\ FBA!NewBegin(Bytes(n)) \in Address
          /\ FBA!Start(Bytes(n)) \in Address
      BY <2>1, NewBlockType
      DEF KnownInv, FBA!NewBlock, FBA!Block, FBA!Address, Address
    <3>2. begin' \in Address
      BY <2>2, <2>4, <3>1 DEF FBA!Moved, FBA!Released
    <3>3. FBA!NewBlock(FBA!Start(Bytes(n)), Bytes(n), k) \in FBA!Block
      BY <2>1, <2>2, <3>1 DEF FBA!NewBlock, FBA!Block, FBA!Address, Address
    <3>4. live' = [live EXCEPT ![o] =
                     FBA!NewBlock(FBA!Start(Bytes(n)), Bytes(n), k)]
      BY <2>1, <2>4 DEF FBA!Moved, KnownInv
    <3> QED BY <1>1, <3>2, <3>3, <3>4, OtherKeeps
  <2> QED BY <1>2, <1>5, <2>3, <2>4 DEF FBA!Grow, FBA!vars
<1> QED
  BY <1>3, <1>4, <1>5 DEF OtherCall

\* Before the first call.
LEMMA KnownInitial ==
  ASSUME Init
  PROVE  KnownInv
<1>1. begin \in Address
  BY ArraysAssumption DEF Init, FBA!Init, Address
<1>2. /\ live = [h \in Handles |-> None]
      /\ field = [a \in Arrays |-> New]
      /\ New \in [length : Nat, capacity : Nat]
  BY DEF Init, FBA!Init, New
<1>3. \A a \in Arrays : live[a] = None /\ field[a] = New
  BY <1>2 DEF Handles
<1> QED BY <1>1, <1>2, <1>3 DEF KnownInv, BlockKnown

\* Whatever the step.
LEMMA KnownStep ==
  ASSUME KnownInv, [Next]_vars
  PROVE  KnownInv'
<1>1. CASE UNCHANGED <<begin, live, field>>
  BY <1>1 DEF KnownInv, BlockKnown
<1>2. ASSUME NEW a \in Arrays, Refused(a) PROVE KnownInv'
  BY <1>1, <1>2 DEF Refused
<1>3. ASSUME NEW a \in Arrays
      PROVE  /\ field[a].length \in Nat /\ field[a].capacity \in Nat
             /\ field[a].length <= field[a].capacity
  <2>1. field[a].length \in Nat /\ field[a].capacity \in Nat
    BY DEF KnownInv
  <2>2. live[a] = None => field[a].length = 0
    BY DEF KnownInv, BlockKnown, New
  <2> QED BY <2>1, <2>2 DEF KnownInv, BlockKnown
<1>4. ASSUME NEW a \in Arrays, UNCHANGED <<begin, live>>,
             field[a].length > 0,
             field' = [field EXCEPT ![a].length = @ - 1]
      PROVE  KnownInv'
  <2>1. field' = [field EXCEPT ![a].length = field[a].length - 1]
    BY <1>4 DEF KnownInv
  <2>2. /\ field[a].length - 1 \in Nat
        /\ field[a].length - 1 <= field[a].capacity
    BY <1>3, <1>4
  <2> QED BY <1>4, <2>1, <2>2, LengthKeeps
<1>5. ASSUME NEW a \in Arrays, NEW n \in Nat, Reserve(a, n)
      PROVE  KnownInv'
  BY <1>2, <1>5, ReservedKeeps DEF Reserve
<1>6. ASSUME NEW a \in Arrays, NEW v \in Values, Push(a, v)
      PROVE  KnownInv'
  <2>1. Growth(a) \in Nat
    BY ArraysAssumption DEF Growth
  <2> QED BY <1>2, <1>6, <2>1, ReservedKeeps DEF Push, Pushed
<1>7. ASSUME NEW a \in Arrays, NEW i \in Indices, NEW v \in Values, Insert(a, i, v)
      PROVE  KnownInv'
  <2>1. Growth(a) \in Nat
    BY ArraysAssumption DEF Growth
  <2> QED
    BY <1>2, <1>7, <2>1, ReservedKeeps
    DEF Insert, InsertUnchecked, Pushed
<1>8. ASSUME NEW a \in Arrays, NEW b \in Arrays, AppendFrom(a, b)
      PROVE  KnownInv'
  BY <1>2, <1>3, <1>8, ReservedKeeps DEF AppendFrom
<1>9. ASSUME NEW a \in Arrays, NEW n \in Counts, WithCapacity(a, n)
      PROVE  KnownInv'
  <2>1. n \in Nat
    BY ArraysAssumption
  <2>2. CASE FirstBlock(a, n)
    BY <2>1, <2>2, FirstBlockKeeps
  <2> QED BY <1>2, <1>9, <2>2 DEF WithCapacity
<1>10. ASSUME NEW a \in Arrays, NEW v \in Values, PushWithinCapacity(a, v)
       PROVE  KnownInv'
  <2>1. CASE /\ field[a].length < field[a].capacity
             /\ field' = [field EXCEPT ![a].length = @ + 1]
             /\ UNCHANGED <<begin, live>>
    <3>1. field' = [field EXCEPT ![a].length = field[a].length + 1]
      BY <2>1 DEF KnownInv
    <3>2. /\ field[a].length + 1 \in Nat
          /\ field[a].length + 1 <= field[a].capacity
      BY <1>3, <2>1
    <3> QED BY <2>1, <3>1, <3>2, LengthKeeps
  <2> QED BY <1>2, <1>10, <2>1 DEF PushWithinCapacity
<1>11. ASSUME NEW a \in Arrays, Pop(a) \/ Clear(a)
       PROVE  KnownInv'
  <2>1. CASE Pop(a)
    BY <1>2, <1>4, <2>1 DEF Pop, Popped
  <2>2. CASE Clear(a)
    <3>1. /\ 0 \in Nat /\ 0 <= field[a].capacity
          /\ field' = [field EXCEPT ![a].length = 0]
          /\ UNCHANGED <<begin, live>>
      BY <1>3, <2>2 DEF Clear
    <3> QED BY <3>1, LengthKeeps
  <2> QED BY <1>11, <2>1, <2>2
<1>12. ASSUME NEW a \in Arrays, NEW n \in Counts, Truncate(a, n)
       PROVE  KnownInv'
  <2>1. n \in Nat
    BY ArraysAssumption
  <2>2. CASE /\ field[a].length > n /\ UNCHANGED <<begin, live>>
             /\ field' = [field EXCEPT ![a].length = n]
    <3>1. n <= field[a].capacity
      BY <1>3, <2>1, <2>2
    <3> QED BY <2>1, <2>2, <3>1, LengthKeeps
  <2> QED BY <1>1, <1>2, <1>12, <2>2 DEF Truncate
<1>13. ASSUME NEW a \in Arrays, NEW i \in Indices,
              Remove(a, i) \/ SwapRemove(a, i)
       PROVE  KnownInv'
  <2>1. i \in Nat
    BY ArraysAssumption
  <2>2. CASE /\ i < field[a].length /\ UNCHANGED <<begin, live>>
             /\ field' = [field EXCEPT ![a].length = field[a].length - 1]
    <3>1. field[a].length > 0
      BY <1>3, <2>1, <2>2
    <3>2. /\ field[a].length - 1 \in Nat
          /\ field[a].length - 1 <= field[a].capacity
      BY <1>3, <3>1
    <3> QED BY <2>2, <3>2, LengthKeeps
  <2>3. CASE field[a].length > 0 /\ Popped(a)
    BY <1>4, <2>3 DEF Popped
  <2>4. CASE RemoveUnchecked(a, i)
    BY <2>2, <2>4 DEF RemoveUnchecked, KnownInv
  <2>5. CASE SwapRemoveUnchecked(a, i)
    BY <2>2, <2>5 DEF SwapRemoveUnchecked
  <2> QED
    BY <1>2, <1>13, <2>3, <2>4, <2>5 DEF Remove, SwapRemove
<1>14. ASSUME NEW o \in Others, OtherCall(o)
       PROVE  KnownInv'
  BY <1>14, OtherCallKeeps
<1>15. ASSUME NEW o \in Others, NEW v \in Values, Fill(o, v)
       PROVE  KnownInv'
  <2> DEFINE b == [live[o] EXCEPT !.filled = live[o].size]
  <2>1. o \in Handles /\ live[o] # None
    BY <1>15 DEF Fill, Handles
  <2>2. b \in FBA!Block
    BY <2>1 DEF KnownInv, FBA!Block
  <2>3. /\ live' = [live EXCEPT ![o] = b]
        /\ begin' \in Address /\ UNCHANGED field
    BY <1>15, <2>1 DEF Fill, KnownInv
  <2> QED BY <2>2, <2>3, OtherKeeps
<1> QED
  BY <1>1, <1>5, <1>6, <1>7, <1>8, <1>9, <1>10, <1>11, <1>12, <1>13, <1>14,
     <1>15, ArraysAssumption
  DEF Next, vars

-----------------------------------------------------------------------------
(* The theorem.                                                            *)

\* What an array tells the allocator of its block is what the allocator gave
\* it, and its elements are all within it, over every interleaving of the
\* calls of arrays and other clients: what reserve and push rely on when they
\* hand a layout to grow.
THEOREM Known == Spec => []BlockKnown
<1>1. Init => KnownInv
  BY KnownInitial
<1>2. KnownInv /\ [Next]_vars => KnownInv'
  BY KnownStep
<1>3. KnownInv => BlockKnown
  BY DEF KnownInv
<1> QED
  BY <1>1, <1>2, <1>3, PTL DEF Spec

-----------------------------------------------------------------------------
(* Arrays that share an allocator.                                         *)

\* No usize sum of a request with the fill of the slice wraps: `begin' is in
\* the lower half of the addresses when layouts go up to isize::MAX.
Headroom == begin + LayoutMax < WordSize

\* How blocks lie: each below `begin', and no two over one another.
Laid ==
  /\ \A h \in Handles : live[h] # None =>
       /\ live[h].align = 1
       /\ live[h].size <= LayoutMax
       /\ live[h].filled <= live[h].size
       /\ live[h].size > 0 => FBA!End(live[h]) <= begin
  /\ \A g, h \in Handles :
       g # h /\ live[g] # None /\ live[h] # None => FBA!Apart(live[g], live[h])

\* Every byte a client sees is one somebody stored.
Stored == \A h \in Handles : \A x \in Extent(h) : x \in Address /\ byte[x] \in Values

ShareInv ==
  /\ KnownInv
  /\ Laid
  /\ byte \in [Address -> Values \union {None}]
  /\ Stored

\* What a step on the block of a, after which memory is m, has to leave alone.
Respects(a, m) ==
  /\ \A h \in Handles \ {a} :
       Extent(h)' = Extent(h) /\ \A x \in Extent(h) : m[x] = byte[x]
  /\ \A x \in Extent(a)' : x \in Address /\ m[x] \in Values

\* What every step on the block of a achieves.
Safe(a) ==
  /\ last'.on = a
  /\ Laid'
  /\ byte' \in [Address -> Values \union {None}]
  /\ Stored'
  /\ \A h \in Handles \ {a} : Shown(h)' = Shown(h)

-----------------------------------------------------------------------------
(* Where things are.                                                       *)

\* A block of the invariant has natural fields, and lies below `begin'.
LEMMA BlockBounds ==
  ASSUME ShareInv, NEW h \in Handles, live[h] # None
  PROVE  /\ live[h].ptr \in Nat /\ live[h].size \in Nat /\ live[h].filled \in Nat
         /\ live[h] \in FBA!Block /\ live[h].align = 1
         /\ live[h].size <= LayoutMax /\ live[h].filled <= live[h].size
         /\ live[h].size > 0 => live[h].ptr + live[h].size <= begin
<1>1. live[h] \in FBA!Block
  BY DEF ShareInv, KnownInv
<1>2. live[h].ptr \in Nat /\ live[h].size \in Nat /\ live[h].filled \in Nat
  BY <1>1, ArraysAssumption DEF FBA!Block, FBA!Address
<1> QED BY <1>1, <1>2 DEF ShareInv, Laid, FBA!End

\* The allocator's and the arrays' numbers.
LEMMA Numbers ==
  ASSUME ShareInv
  PROVE  /\ begin \in Nat /\ begin < WordSize /\ WordSize \in Nat /\ LayoutMax \in Nat
         /\ \A a \in Arrays : /\ a \in Handles
                              /\ field[a].length \in Nat /\ field[a].capacity \in Nat
                              /\ field[a].length <= field[a].capacity
                              /\ field[a].capacity <= LayoutMax
                              /\ field[a].capacity > 0 => live[a] # None
                              /\ live[a] # None => live[a].size = field[a].capacity
<1>1. begin \in Nat /\ begin < WordSize /\ WordSize \in Nat /\ LayoutMax \in Nat
  BY ArraysAssumption DEF ShareInv, KnownInv, Address
<1>2. ASSUME NEW a \in Arrays
      PROVE  /\ a \in Handles
             /\ field[a].length \in Nat /\ field[a].capacity \in Nat
             /\ field[a].length <= field[a].capacity
             /\ field[a].capacity <= LayoutMax
             /\ field[a].capacity > 0 => live[a] # None
             /\ live[a] # None => live[a].size = field[a].capacity
  <2>1. a \in Handles /\ field[a].length \in Nat /\ field[a].capacity \in Nat
    BY DEF ShareInv, KnownInv, Handles
  <2>2. CASE live[a] = None
    BY <1>1, <2>1, <2>2 DEF ShareInv, KnownInv, BlockKnown, New
  <2>3. CASE live[a] # None
    BY <2>1, <2>3, BlockBounds DEF ShareInv, KnownInv, BlockKnown
  <2> QED BY <2>2, <2>3
<1> QED BY <1>1, <1>2

\* What a client sees lies in its block.
LEMMA ExtentBounds ==
  ASSUME ShareInv, NEW h \in Handles, NEW x \in Extent(h)
  PROVE  /\ live[h] # None /\ x \in Nat
         /\ live[h].ptr <= x /\ x < live[h].ptr + live[h].size /\ x < begin
         /\ x \in Address /\ byte[x] \in Values
<1>1. CASE h \in Arrays
  <2>1. field[h].length > 0
    BY <1>1, Numbers DEF Extent
  <2>2. live[h] # None /\ live[h].size >= field[h].length
    BY <1>1, <2>1, Numbers
  <2>3. x \in live[h].ptr .. live[h].ptr + field[h].length - 1
    BY <1>1, <2>1 DEF Extent
  <2> QED BY <1>1, <2>1, <2>2, <2>3, BlockBounds, Numbers DEF ShareInv, Stored
<1>2. CASE h \notin Arrays
  <2>1. live[h] # None /\ live[h].filled # 0
    BY <1>2 DEF Extent
  <2>2. x \in live[h].ptr .. live[h].ptr + live[h].filled - 1
    BY <1>2, <2>1 DEF Extent
  <2> QED BY <2>1, <2>2, BlockBounds, Numbers DEF ShareInv, Stored
<1> QED BY <1>1, <1>2

\* What one client sees is in no other client's block.
LEMMA Foreign ==
  ASSUME ShareInv, NEW g \in Handles, NEW h \in Handles, g # h,
         live[h] # None, NEW x \in Extent(g)
  PROVE  x < live[h].ptr \/ live[h].ptr + live[h].size <= x
<1>1. /\ live[g] # None /\ x \in Nat
      /\ live[g].ptr <= x /\ x < live[g].ptr + live[g].size
  BY ExtentBounds
<1>2. FBA!Apart(live[g], live[h])
  BY <1>1 DEF ShareInv, Laid
<1>3. /\ live[g].ptr \in Nat /\ live[g].size \in Nat
      /\ live[h].ptr \in Nat /\ live[h].size \in Nat
  BY <1>1, BlockBounds
<1> QED BY <1>1, <1>2, <1>3 DEF FBA!Apart, FBA!End

-----------------------------------------------------------------------------
(* The allocator, when nothing wraps: blocks of bytes need no padding.     *)

LEMMA WrapSmall ==
  ASSUME NEW x \in Nat, x < WordSize
  PROVE  FBA!Wrap(x) = x
<1>1. \A n \in Nat \ {0} : \A y \in 0 .. n - 1 : y % n = y
  OBVIOUS
<1> QED BY <1>1, ArraysAssumption DEF FBA!Wrap

\* The next block starts at `begin' and ends at the new `begin'.
LEMMA StartsAtBegin ==
  ASSUME begin \in Nat, NEW n \in Nat, begin + n < WordSize
  PROVE  FBA!Start(Bytes(n)) = begin /\ FBA!NewBegin(Bytes(n)) = begin + n
<1>1. Bytes(n).size = n /\ Bytes(n).align = 1
  BY DEF Bytes
<1>2. \A x \in Nat : x - (x % 1) = x
  OBVIOUS
<1>3. FBA!Wrap(begin + (1 - 1)) = begin
  BY WrapSmall, ArraysAssumption
<1>4. FBA!Start(Bytes(n)) = begin
  BY <1>1, <1>2, <1>3 DEF FBA!Start, FBA!AlignUp, FBA!AlignDown
<1>5. FBA!Wrap(begin + n) = begin + n
  BY WrapSmall
<1> QED BY <1>1, <1>4, <1>5 DEF FBA!NewBegin

\* The block recognised as the last one ends at `begin'.
LEMMA LastEnds ==
  ASSUME ShareInv, NEW h \in Handles, live[h] # None, NEW blk,
         blk.ptr = live[h].ptr, blk.size = live[h].size, blk.align = 1,
         FBA!IsLast(begin, blk)
  PROVE  live[h].ptr + live[h].size = begin
<1>1. /\ live[h].ptr \in Nat /\ live[h].size \in Nat
      /\ live[h].size > 0 => live[h].ptr + live[h].size <= begin
      /\ begin \in Nat /\ begin < WordSize /\ WordSize \in Nat
  BY BlockBounds, Numbers
<1>2. begin - live[h].size \in Nat /\ begin - live[h].size < WordSize
  BY <1>1
<1>3. FBA!Wrap(begin - live[h].size) = begin - live[h].size
  BY <1>2, WrapSmall
<1>4. \A x \in Nat : x - (x % 1) = x
  OBVIOUS
<1>5. FBA!PrevBegin(begin, blk) = begin - live[h].size
  BY <1>2, <1>3, <1>4 DEF FBA!PrevBegin, FBA!AlignDown
<1>6. live[h].ptr = begin - live[h].size
  BY <1>5 DEF FBA!IsLast
<1> QED BY <1>1, <1>6

\* Every other block with bytes lies below the one that ends at `begin'.
LEMMA LastAbove ==
  ASSUME ShareInv, NEW h \in Handles, live[h] # None,
         live[h].ptr + live[h].size = begin,
         NEW g \in Handles, g # h, live[g] # None, live[g].size > 0
  PROVE  live[g].ptr + live[g].size <= live[h].ptr
<1>1. /\ live[h].ptr \in Nat /\ live[h].size \in Nat
      /\ live[g].ptr \in Nat /\ live[g].size \in Nat
      /\ live[g].ptr + live[g].size <= begin
  BY BlockBounds
<1>2. FBA!Apart(live[g], live[h])
  BY DEF ShareInv, Laid
<1> QED BY <1>1, <1>2 DEF FBA!Apart, FBA!End

\* A block laid behind all the others.
LEMMA LaidBehind ==
  ASSUME ShareInv, NEW h \in Handles, NEW b, b # None,
         b.ptr \in Nat, b.size \in Nat, b.filled \in Nat, b.align = 1,
         b.size <= LayoutMax, b.filled <= b.size, b.ptr + b.size = begin',
         \A g \in Handles \ {h} :
           live[g] # None /\ live[g].size > 0 => live[g].ptr + live[g].size <= b.ptr,
         live' = [live EXCEPT ![h] = b]
  PROVE  Laid'
<1>1. live'[h] = b /\ \A g \in Handles \ {h} : live'[g] = live[g]
  BY DEF ShareInv, KnownInv
<1>2. ASSUME NEW g \in Handles, live'[g] # None
      PROVE  /\ live'[g].align = 1
             /\ live'[g].size <= LayoutMax
             /\ live'[g].filled <= live'[g].size
             /\ live'[g].size > 0 => FBA!End(live'[g]) <= begin'
  <2>1. CASE g = h
    BY <1>1, <2>1 DEF FBA!End
  <2>2. CASE g # h
    BY <1>1, <1>2, <2>2, BlockBounds DEF FBA!End
  <2> QED BY <2>1, <2>2
<1>3. ASSUME NEW g \in Handles \ {h}, live[g] # None
      PROVE  FBA!Apart(live[g], b) /\ FBA!Apart(b, live[g])
  BY <1>3, BlockBounds DEF FBA!Apart, FBA!End
<1>4. ASSUME NEW g \in Handles, NEW k \in Handles, g # k,
             live'[g] # None, live'[k] # None
      PROVE  FBA!Apart(live'[g], live'[k])
  <2>1. CASE g = h
    BY <1>1, <1>3, <1>4, <2>1
  <2>2. CASE k = h
    BY <1>1, <1>3, <1>4, <2>2
  <2>3. CASE g # h /\ k # h
    BY <1>1, <1>4, <2>3 DEF ShareInv, Laid
  <2> QED BY <2>1, <2>2, <2>3
<1> QED BY <1>2, <1>4 DEF Laid

\* A step that moves no block and lets `begin' fall no lower than they reach.
LEMMA LaidStill ==
  ASSUME Laid, UNCHANGED <<begin, live>>
  PROVE  Laid'
BY DEF Laid

-----------------------------------------------------------------------------
(* The two ways an array gets room.                                        *)

\* A block of n bytes more, up to the new `begin', in which a has the elements
\* it had before.
Extended(a, n) ==
  /\ Laid'
  /\ live'[a].ptr \in Nat /\ live'[a].ptr + field[a].capacity = begin
  /\ field[a].length > 0 => live'[a].ptr = live[a].ptr
  /\ begin' = begin + n
  /\ field'[a] = [length |-> field[a].length, capacity |-> field[a].capacity + n]
  /\ \A h \in Handles : Extent(h)' = Extent(h)

\* with_capacity forgets the elements there were.
LEMMA FirstBlockLaid ==
  ASSUME ShareInv, Headroom, NEW a \in Arrays, NEW n \in Nat, LayoutOk(n),
         FirstBlock(a, n)
  PROVE  /\ Laid' /\ begin' = begin + n /\ live'[a].ptr = begin
         /\ field'[a] = [length |-> 0, capacity |-> n]
         /\ Extent(a)' = {}
         /\ \A h \in Handles \ {a} : Extent(h)' = Extent(h)
<1>1. begin + n < WordSize /\ a \in Handles /\ begin \in Nat
  BY Numbers DEF Headroom, LayoutOk
<1> DEFINE b == FBA!NewBlock(FBA!Start(Bytes(n)), Bytes(n), 0)
<1>2. /\ b.ptr = begin /\ b.size = n /\ b.align = 1 /\ b.filled = 0
      /\ begin' = begin + n /\ b # None
  <2>1. /\ FBA!Start(Bytes(n)) = begin /\ FBA!NewBegin(Bytes(n)) = begin + n
        /\ Bytes(n).size = n /\ Bytes(n).align = 1
    BY <1>1, StartsAtBegin DEF Bytes
  <2>2. b # None
    BY <1>1, <2>1, Numbers, ArraysAssumption DEF FBA!NewBlock
  <2> QED BY <2>1, <2>2 DEF FBA!NewBlock, FirstBlock
<1>3. /\ live' = [live EXCEPT ![a] = b]
      /\ field' = [field EXCEPT ![a] = [length |-> 0, capacity |-> n]]
  BY DEF FirstBlock
<1> HIDE DEF b
<1>4. /\ live'[a] = b /\ field'[a] = [length |-> 0, capacity |-> n]
      /\ \A h \in Handles \ {a} : live'[h] = live[h]
      /\ \A h \in Arrays \ {a} : field'[h] = field[h]
  BY <1>1, <1>3 DEF ShareInv, KnownInv
<1>5. Laid'
  <2>1. \A g \in Handles \ {a} :
          live[g] # None /\ live[g].size > 0 => live[g].ptr + live[g].size <= b.ptr
    BY <1>2, BlockBounds
  <2>2. /\ b.ptr \in Nat /\ b.size \in Nat /\ b.filled \in Nat /\ b.align = 1
        /\ b.size <= LayoutMax /\ b.filled <= b.size /\ b.ptr + b.size = begin'
    BY <1>1, <1>2 DEF LayoutOk
  <2> QED BY <1>1, <1>2, <1>3, <2>1, <2>2, LaidBehind
<1>6. Extent(a)' = {}
  BY <1>4 DEF Extent
<1>7. \A h \in Handles \ {a} : Extent(h)' = Extent(h)
  BY <1>4 DEF Extent, Handles
<1> QED BY <1>2, <1>4, <1>5, <1>6, <1>7

LEMMA ReservedExtends ==
  ASSUME ShareInv, Headroom, NEW a \in Arrays, NEW n \in Nat,
         CanReserve(a, n), Reserved(a, n)
  PROVE  Extended(a, n)
<1> DEFINE c == field[a].capacity
<1>1. /\ a \in Handles /\ begin \in Nat /\ c \in Nat
      /\ field[a].length \in Nat /\ field[a].length <= c /\ c + n <= LayoutMax
  BY Numbers DEF CanReserve, LayoutOk
<1>2. CASE c = 0 /\ FirstBlock(a, n)
  <2>1. Extent(a) = {} /\ field[a].length = 0
    BY <1>1, <1>2 DEF Extent
  <2> QED
    BY <1>1, <1>2, <2>1, FirstBlockLaid DEF Extended, LayoutOk
<1>3. CASE c > 0 /\ LongerBlock(a, n)
  <2>1. live[a] # None /\ live[a].size = c
    BY <1>3, Numbers
  <2>2. /\ live[a].ptr \in Nat /\ live[a].filled \in Nat /\ live[a].align = 1
        /\ live[a].filled <= c /\ live[a] \in FBA!Block
    BY <1>1, <2>1, BlockBounds
  <2>3. live[a].ptr + c = begin
    <3> DEFINE d == Described(a)
    <3>1. d.ptr = live[a].ptr /\ d.size = c /\ d.align = 1
      BY DEF Described, FBA!NewBlock, Bytes
    <3>2. FBA!IsLast(begin, d)
      BY <1>3 DEF CanReserve
    <3> HIDE DEF d
    <3> QED BY <1>1, <2>1, <3>1, <3>2, LastEnds
  <2> DEFINE b == [live[a] EXCEPT !.size = c + n]
  <2>4. /\ b.ptr = live[a].ptr /\ b.size = c + n /\ b.align = 1
        /\ b.filled = live[a].filled /\ b # None
    <3>1. b \in FBA!Block
      BY <1>1, <2>2 DEF FBA!Block
    <3> QED BY <2>2, <3>1, ArraysAssumption DEF FBA!Block, FBA!Address
  <2>5. begin' = begin + n
    <3>1. begin + n \in Nat /\ begin + n < WordSize
      BY <1>1, Numbers DEF Headroom
    <3> QED BY <1>3, <3>1, WrapSmall DEF LongerBlock
  <2>6. live' = [live EXCEPT ![a] = b]
    BY <1>1, <1>3 DEF LongerBlock, ShareInv, KnownInv
  <2> HIDE DEF b
  <2>7. Laid'
    <3>1. \A g \in Handles \ {a} :
            live[g] # None /\ live[g].size > 0 => live[g].ptr + live[g].size <= b.ptr
      BY <1>1, <2>1, <2>3, <2>4, LastAbove
    <3>2. /\ b.ptr \in Nat /\ b.size \in Nat /\ b.filled \in Nat /\ b.align = 1
          /\ b.size <= LayoutMax /\ b.filled <= b.size /\ b.ptr + b.size = begin'
      BY <1>1, <2>2, <2>3, <2>4, <2>5
    <3> QED BY <1>1, <2>4, <2>6, <3>1, <3>2, LaidBehind
  <2>8. field'[a] = [length |-> field[a].length, capacity |-> c + n]
    BY <1>1, <1>3 DEF LongerBlock, ShareInv, KnownInv
  <2>9. /\ \A h \in Arrays \ {a} : field'[h] = field[h]
        /\ \A h \in Handles \ {a} : live'[h] = live[h]
        /\ live'[a] = b
    BY <1>1, <1>3, <2>6 DEF LongerBlock, ShareInv, KnownInv
  <2>10. \A h \in Handles : Extent(h)' = Extent(h)
    BY <2>4, <2>8, <2>9 DEF Extent, Handles
  <2> QED BY <2>2, <2>3, <2>4, <2>5, <2>7, <2>8, <2>9, <2>10 DEF Extended
<1> QED BY <1>2, <1>3 DEF Reserved

-----------------------------------------------------------------------------
(* Memory.                                                                 *)

\* A step that leaves alone what it has to is safe.
LEMMA RespectIsSafe ==
  ASSUME ShareInv, NEW a \in Handles, NEW ok, NEW m, Returns(a, ok), Memory(m),
         Laid', Respects(a, m)
  PROVE  Safe(a)
<1>1. last'.on = a
  BY DEF Returns
<1>2. ASSUME NEW h \in Handles, NEW x \in Extent(h)'
      PROVE  x \in Address /\ m[x] \in Values /\ byte'[x] = m[x]
  <2>1. x \in Address /\ m[x] \in Values
    <3>1. CASE h = a
      BY <1>2, <3>1 DEF Respects
    <3>2. CASE h # a
      <4>1. x \in Extent(h) /\ m[x] = byte[x]
        BY <1>2, <3>2 DEF Respects
      <4> QED BY <4>1, ExtentBounds
    <3> QED BY <3>1, <3>2
  <2>2. x \in UNION {Extent(k)' : k \in Handles}
    BY <1>2
  <2> QED BY <2>1, <2>2 DEF Memory
<1>3. Stored'
  BY <1>2 DEF Stored
<1>4. byte' \in [Address -> Values \union {None}]
  <2>1. ASSUME NEW x \in Address
        PROVE  (IF x \in UNION {Extent(h)' : h \in Handles} THEN m[x] ELSE None)
                 \in Values \union {None}
    BY <1>2
  <2> QED BY <2>1 DEF Memory
<1>5. ASSUME NEW h \in Handles \ {a}
      PROVE  Shown(h)' = Shown(h)
  <2>1. Extent(h)' = Extent(h) /\ \A x \in Extent(h) : m[x] = byte[x]
    BY DEF Respects
  <2>2. \A x \in Extent(h) : byte'[x] = byte[x]
    BY <1>2, <2>1
  <2> QED BY <2>1, <2>2 DEF Shown
<1> QED BY <1>1, <1>3, <1>4, <1>5 DEF Safe

\* A call that is refused.
LEMMA RefusedIsSafe ==
  ASSUME ShareInv, NEW a \in Arrays, Refused(a)
  PROVE  Safe(a)
<1>1. UNCHANGED <<begin, live, field, byte>> /\ last'.on = a
  BY DEF Refused, Returns
<1>2. Laid'
  BY <1>1 DEF ShareInv, Laid
<1>3. \A h \in Handles : Extent(h)' = Extent(h)
  BY <1>1 DEF Extent
<1>4. Stored' /\ \A h \in Handles : Shown(h)' = Shown(h)
  BY <1>1, <1>3 DEF ShareInv, Stored, Shown
<1> QED BY <1>1, <1>2, <1>4 DEF Safe, ShareInv

\* A new length within the block changes what the array itself shows only.
LEMMA LengthShows ==
  ASSUME ShareInv, NEW a \in Arrays, NEW n \in Nat, UNCHANGED <<begin, live>>,
         field' = [field EXCEPT ![a].length = n]
  PROVE  /\ Laid' /\ a \in Handles
         /\ \A h \in Handles \ {a} : Extent(h)' = Extent(h)
         /\ \A x \in Extent(a)' :
              x \in live[a].ptr .. live[a].ptr + n - 1 /\ n > 0
<1>1. /\ field'[a].length = n
      /\ \A h \in Arrays \ {a} : field'[h] = field[h]
  BY DEF ShareInv, KnownInv
<1>2. \A h \in Handles \ {a} : Extent(h)' = Extent(h)
  BY <1>1 DEF Extent, Handles
<1> QED BY <1>1, <1>2 DEF Extent, ShareInv, Laid, Handles

\* A shorter array shows the elements it showed before.
LEMMA ShorterIsSafe ==
  ASSUME ShareInv, NEW a \in Arrays, NEW n \in Nat, NEW ok,
         UNCHANGED <<begin, live>>, n <= field[a].length,
         field' = [field EXCEPT ![a].length = n], Returns(a, ok), Memory(byte)
  PROVE  Safe(a)
<1>1. /\ Laid' /\ a \in Handles
      /\ \A h \in Handles \ {a} : Extent(h)' = Extent(h)
      /\ \A x \in Extent(a)' : x \in live[a].ptr .. live[a].ptr + n - 1 /\ n > 0
  BY LengthShows
<1>2. ASSUME NEW x \in Extent(a)'
      PROVE  x \in Address /\ byte[x] \in Values
  <2>1. /\ x \in live[a].ptr .. live[a].ptr + n - 1 /\ n > 0
        /\ field[a].length \in Nat /\ live[a] # None
    BY <1>1, Numbers
  <2>2. live[a].ptr \in Nat
    BY <1>1, <2>1, BlockBounds
  <2>3. x \in live[a].ptr .. live[a].ptr + field[a].length - 1
    BY <2>1, <2>2
  <2>4. x \in Extent(a)
    BY <2>1, <2>3 DEF Extent
  <2> QED BY <1>1, <2>4, ExtentBounds
<1>3. Respects(a, byte)
  BY <1>1, <1>2 DEF Respects
<1> QED BY <1>1, <1>3, RespectIsSafe

\* Storing a value behind every block, or in the room that has been added.
LEMMA StoredBehind ==
  ASSUME ShareInv, NEW x \in Nat, begin <= x, NEW v \in Values, NEW h \in Handles,
         NEW y \in Extent(h)
  PROVE  Written(byte, x, v)[y] = byte[y]
<1>1. y \in Address /\ y < begin /\ y \in Nat /\ begin \in Nat
  BY ExtentBounds, Numbers
<1> QED BY <1>1 DEF Written, ShareInv

-----------------------------------------------------------------------------
(* The methods of RawArray.                                                *)

\* When room is reserved, memory may change at and above the old `begin', and
\* where the array itself shows elements.
LEMMA ExtendedRespects ==
  ASSUME ShareInv, NEW a \in Arrays, NEW n \in Nat, Extended(a, n), NEW m,
         \A h \in Handles \ {a} : \A x \in Extent(h) : m[x] = byte[x],
         \A x \in Extent(a) : m[x] \in Values
  PROVE  Respects(a, m)
<1>1. a \in Handles
  BY DEF Handles
<1>2. \A h \in Handles : Extent(h)' = Extent(h)
  BY DEF Extended
<1>3. \A x \in Extent(a) : x \in Address
  BY <1>1, ExtentBounds
<1> QED BY <1>1, <1>2, <1>3 DEF Respects

LEMMA ReserveIsSafe ==
  ASSUME ShareInv, Headroom, NEW a \in Arrays, NEW n \in Nat, Reserve(a, n)
  PROVE  Safe(a)
<1>1. CASE CanReserve(a, n) /\ Reserved(a, n) /\ Returns(a, TRUE) /\ Memory(byte)
  <2>1. Extended(a, n) /\ a \in Handles
    BY <1>1, ReservedExtends DEF Handles
  <2>2. \A x \in Extent(a) : byte[x] \in Values
    BY <2>1, ExtentBounds
  <2>3. Respects(a, byte)
    BY <2>1, <2>2, ExtendedRespects
  <2> QED BY <1>1, <2>1, <2>3, RespectIsSafe DEF Extended
<1> QED BY <1>1, RefusedIsSafe DEF Reserve

\* What push stores lies behind everything anybody shows.
LEMMA PushedIsSafe ==
  ASSUME ShareInv, Headroom, NEW a \in Arrays, NEW v \in Values, NEW ok,
         Pushed(a, v), Returns(a, ok)
  PROVE  Safe(a)
<1> DEFINE n == Growth(a)
           p == live'[a].ptr + field'[a].capacity
           m == Written(byte, p, v)
<1>1. n \in Nat /\ a \in Handles
  BY ArraysAssumption DEF Growth, Handles
<1>2. CanReserve(a, n) /\ Reserved(a, n) /\ Memory(m)
  BY DEF Pushed
<1>3. Extended(a, n)
  BY <1>1, <1>2, ReservedExtends
<1> HIDE DEF n
<1>4. p \in Nat /\ begin <= p
  <2>1. /\ live'[a].ptr \in Nat /\ live'[a].ptr + field[a].capacity = begin
        /\ field'[a].capacity = field[a].capacity + n
    BY <1>3 DEF Extended
  <2> QED BY <1>1, <2>1, Numbers
<1> HIDE DEF p
<1>5. \A h \in Handles : \A x \in Extent(h) : m[x] = byte[x]
  BY <1>4, StoredBehind
<1>6. \A x \in Extent(a) : m[x] \in Values
  BY <1>1, <1>5, ExtentBounds
<1> HIDE DEF m
<1>7. Respects(a, m)
  BY <1>1, <1>3, <1>5, <1>6, ExtendedRespects
<1> QED BY <1>1, <1>2, <1>3, <1>7, RespectIsSafe DEF Extended

LEMMA PushIsSafe ==
  ASSUME ShareInv, Headroom, NEW a \in Arrays, NEW v \in Values, Push(a, v)
  PROVE  Safe(a)
BY PushedIsSafe, RefusedIsSafe DEF Push

LEMMA WithCapacityIsSafe ==
  ASSUME ShareInv, Headroom, NEW a \in Arrays, NEW n \in Nat, WithCapacity(a, n)
  PROVE  Safe(a)
<1>1. CASE LayoutOk(n) /\ FirstBlock(a, n) /\ Returns(a, TRUE) /\ Memory(byte)
  <2>1. /\ Laid' /\ a \in Handles /\ Extent(a)' = {}
        /\ \A h \in Handles \ {a} : Extent(h)' = Extent(h)
    BY <1>1, FirstBlockLaid DEF Handles
  <2>2. Respects(a, byte)
    BY <2>1 DEF Respects
  <2> QED BY <1>1, <2>1, <2>2, RespectIsSafe
<1> QED BY <1>1, RefusedIsSafe DEF WithCapacity

LEMMA PoppedIsSafe ==
  ASSUME ShareInv, NEW a \in Arrays, field[a].length > 0, Popped(a), NEW ok,
         Returns(a, ok)
  PROVE  Safe(a)
<1>1. /\ field[a].length - 1 \in Nat /\ field[a].length - 1 <= field[a].length
      /\ field' = [field EXCEPT ![a].length = field[a].length - 1]
  BY Numbers DEF Popped, ShareInv, KnownInv
<1> QED BY <1>1, ShorterIsSafe DEF Popped

LEMMA PopIsSafe ==
  ASSUME ShareInv, NEW a \in Arrays, Pop(a)
  PROVE  Safe(a)
BY PoppedIsSafe, RefusedIsSafe DEF Pop

LEMMA ClearIsSafe ==
  ASSUME ShareInv, NEW a \in Arrays, Clear(a)
  PROVE  Safe(a)
<1>1. 0 \in Nat /\ 0 <= field[a].length
  BY Numbers
<1> QED BY <1>1, ShorterIsSafe DEF Clear

LEMMA TruncateIsSafe ==
  ASSUME ShareInv, NEW a \in Arrays, NEW n \in Nat, Truncate(a, n)
  PROVE  Safe(a)
<1>1. CASE Returns(a, TRUE) /\ UNCHANGED <<begin, live, field, byte>>
  <2>1. UNCHANGED <<begin, live, field, byte>> /\ last'.on = a
    BY <1>1 DEF Returns
  <2>2. Laid'
    BY <2>1 DEF ShareInv, Laid
  <2>3. \A h \in Handles : Extent(h)' = Extent(h)
    BY <2>1 DEF Extent
  <2>4. Stored' /\ \A h \in Handles : Shown(h)' = Shown(h)
    BY <2>1, <2>3 DEF ShareInv, Stored, Shown
  <2> QED BY <2>1, <2>2, <2>4 DEF Safe, ShareInv
<1>2. CASE /\ field[a].length > n /\ UNCHANGED <<begin, live>>
           /\ field' = [field EXCEPT ![a].length = n]
           /\ Returns(a, TRUE) /\ Memory(byte)
  <2>1. n <= field[a].length
    BY <1>2, Numbers
  <2> QED BY <1>2, <2>1, ShorterIsSafe
<1> QED BY <1>1, <1>2, RefusedIsSafe DEF Truncate

\* The elements of an array, one by one.
LEMMA Elements ==
  ASSUME ShareInv, NEW a \in Arrays, field[a].length > 0
  PROVE  /\ a \in Handles /\ live[a] # None /\ live[a].ptr \in Nat
         /\ field[a].length \in Nat /\ field[a].capacity \in Nat
         /\ field[a].length <= field[a].capacity
         /\ live[a].size = field[a].capacity
         /\ live[a].ptr + field[a].capacity <= begin
         /\ begin \in Nat /\ begin < WordSize /\ WordSize \in Nat
         /\ Extent(a) = live[a].ptr .. live[a].ptr + field[a].length - 1
         /\ \A x \in live[a].ptr .. live[a].ptr + field[a].length - 1 :
              byte[x] \in Values /\ x \in Address
<1>1. /\ a \in Handles /\ live[a] # None
      /\ field[a].length \in Nat /\ field[a].capacity \in Nat
      /\ field[a].length <= field[a].capacity /\ field[a].capacity > 0
      /\ live[a].size = field[a].capacity
      /\ begin \in Nat /\ begin < WordSize /\ WordSize \in Nat
  BY Numbers
<1>2. live[a].ptr \in Nat /\ live[a].ptr + field[a].capacity <= begin
  BY <1>1, BlockBounds
<1>3. Extent(a) = live[a].ptr .. live[a].ptr + field[a].length - 1
  BY <1>1 DEF Extent
<1>4. \A x \in Extent(a) : byte[x] \in Values /\ x \in Address
  BY <1>1, ExtentBounds
<1> QED BY <1>1, <1>2, <1>3, <1>4

\* Nobody else sees a byte of an array's block.
LEMMA OthersElsewhere ==
  ASSUME ShareInv, NEW a \in Arrays, live[a] # None, NEW h \in Handles \ {a},
         NEW x \in Extent(h)
  PROVE  /\ x \in Address /\ x \in Nat /\ x < begin
         /\ x \notin live[a].ptr .. live[a].ptr + field[a].capacity - 1
<1>1. a \in Handles /\ live[a].size = field[a].capacity
  BY Numbers
<1>2. x < live[a].ptr \/ live[a].ptr + field[a].capacity <= x
  BY <1>1, Foreign
<1>3. live[a].ptr \in Nat /\ field[a].capacity \in Nat
  BY <1>1, BlockBounds, Numbers
<1> QED BY <1>2, <1>3, ExtentBounds

\* A change within the array's block, below its new length.
LEMMA OwnChangeIsSafe ==
  ASSUME ShareInv, NEW a \in Arrays, NEW n \in Nat, NEW ok, NEW m,
         UNCHANGED <<begin, live>>, field' = [field EXCEPT ![a].length = n],
         Returns(a, ok), Memory(m), live[a] # None,
         \A x \in Address :
           x \notin live[a].ptr .. live[a].ptr + field[a].capacity - 1
             => m[x] = byte[x],
         \A x \in live[a].ptr .. live[a].ptr + n - 1 : x \in Address /\ m[x] \in Values
  PROVE  Safe(a)
<1>1. /\ Laid' /\ a \in Handles
      /\ \A h \in Handles \ {a} : Extent(h)' = Extent(h)
      /\ \A x \in Extent(a)' : x \in live[a].ptr .. live[a].ptr + n - 1 /\ n > 0
  BY LengthShows
<1>2. \A h \in Handles \ {a} : \A x \in Extent(h) : m[x] = byte[x]
  BY OthersElsewhere
<1>3. Respects(a, m)
  BY <1>1, <1>2 DEF Respects
<1> QED BY <1>1, <1>3, RespectIsSafe

LEMMA PushWithinCapacityIsSafe ==
  ASSUME ShareInv, NEW a \in Arrays, NEW v \in Values, PushWithinCapacity(a, v)
  PROVE  Safe(a)
<1> DEFINE n == field[a].length
           p == live[a].ptr
           m == Written(byte, p + n, v)
<1>1. CASE /\ n < field[a].capacity
           /\ field' = [field EXCEPT ![a].length = @ + 1]
           /\ Returns(a, TRUE) /\ UNCHANGED <<begin, live>> /\ Memory(m)
  <2>1. /\ n \in Nat /\ field[a].capacity \in Nat /\ a \in Handles /\ live[a] # None
        /\ live[a].size = field[a].capacity /\ live[a].size > 0
        /\ begin \in Nat /\ begin < WordSize /\ WordSize \in Nat
    BY <1>1, Numbers
  <2>2. p \in Nat /\ p + field[a].capacity <= begin
    BY <2>1, BlockBounds
  <2>3. field' = [field EXCEPT ![a].length = n + 1] /\ n + 1 \in Nat
    BY <1>1, <2>1 DEF ShareInv, KnownInv
  <2>4. \A x \in Address : m[x] = IF x = p + n THEN v ELSE byte[x]
    BY DEF Written, ShareInv
  <2>5. \A x \in Address : x \notin p .. p + field[a].capacity - 1 => m[x] = byte[x]
    BY <1>1, <2>1, <2>2, <2>4
  <2>6. ASSUME NEW x \in p .. p + (n + 1) - 1
        PROVE  x \in Address /\ m[x] \in Values
    <3>1. x \in Address
      BY <1>1, <2>1, <2>2 DEF Address
    <3>2. CASE x = p + n
      BY <2>4, <3>1, <3>2
    <3>3. CASE x # p + n
      <4>1. n > 0 /\ x \in p .. p + n - 1
        BY <2>1, <2>2, <3>3
      <4>2. byte[x] \in Values
        BY <4>1, Elements
      <4> QED BY <2>4, <3>1, <3>3, <4>2
    <3> QED BY <3>2, <3>3
  <2> HIDE DEF m
  <2> QED BY <1>1, <2>1, <2>3, <2>5, <2>6, OwnChangeIsSafe
<1> QED BY <1>1, RefusedIsSafe DEF PushWithinCapacity

\* What is moved down comes from the elements themselves, except for the byte
\* that lands behind the new last one.
LEMMA RemoveUncheckedIsSafe ==
  ASSUME ShareInv, NEW a \in Arrays, NEW i \in Nat, RemoveUnchecked(a, i)
  PROVE  Safe(a)
<1> DEFINE n == field[a].length
           p == live[a].ptr
           m == Copy(p + i + 1, p + i, n - i)
<1>1. i < n /\ n > 0 /\ n \in Nat
  BY Numbers DEF RemoveUnchecked
<1>2. /\ live[a] # None /\ p \in Nat /\ field[a].capacity \in Nat
      /\ n <= field[a].capacity
      /\ \A x \in p .. p + n - 1 : byte[x] \in Values /\ x \in Address
  BY <1>1, Elements
<1>3. /\ field' = [field EXCEPT ![a].length = n - 1] /\ n - 1 \in Nat
      /\ Returns(a, TRUE) /\ UNCHANGED <<begin, live>> /\ Memory(m)
  <2>1. Returns(a, TRUE) /\ UNCHANGED <<begin, live>> /\ Memory(m)
    BY Zenon DEF RemoveUnchecked
  <2>2. field' = [field EXCEPT ![a].length = n - 1]
    BY DEF RemoveUnchecked, ShareInv, KnownInv
  <2>3. n - 1 \in Nat
    BY <1>1
  <2> QED BY <2>1, <2>2, <2>3, Zenon
<1>4. \A x \in Address :
        m[x] = IF x \in p + i .. p + i + (n - i) - 1
               THEN byte[p + i + 1 + (x - (p + i))] ELSE byte[x]
  BY DEF Copy
<1> HIDE DEF m
<1>5. \A x \in Address : x \notin p .. p + field[a].capacity - 1 => m[x] = byte[x]
  BY <1>1, <1>2, <1>4
<1>6. ASSUME NEW x \in p .. p + (n - 1) - 1
      PROVE  x \in Address /\ m[x] \in Values
  <2>1. x \in p .. p + n - 1 /\ x + 1 \in p .. p + n - 1
    BY <1>1, <1>2
  <2>2. p + i + 1 + (x - (p + i)) = x + 1
    BY <1>2, <2>1
  <2>3. byte[x] \in Values /\ byte[x + 1] \in Values /\ x \in Address
    BY <1>2, <2>1
  <2>4. m[x] = byte[x] \/ m[x] = byte[x + 1]
    BY <1>4, <2>2, <2>3
  <2> QED BY <2>3, <2>4
<1> QED BY <1>2, <1>3, <1>5, <1>6, OwnChangeIsSafe

LEMMA SwapRemoveUncheckedIsSafe ==
  ASSUME ShareInv, NEW a \in Arrays, NEW i \in Nat, SwapRemoveUnchecked(a, i)
  PROVE  Safe(a)
<1> DEFINE n == field[a].length
           p == live[a].ptr
           m == Written(byte, p + i, byte[p + n - 1])
<1>1. i < n /\ n > 0 /\ n \in Nat
  BY Numbers DEF SwapRemoveUnchecked
<1>2. /\ live[a] # None /\ p \in Nat /\ field[a].capacity \in Nat
      /\ n <= field[a].capacity
      /\ \A x \in p .. p + n - 1 : byte[x] \in Values /\ x \in Address
  BY <1>1, Elements
<1>3. /\ field' = [field EXCEPT ![a].length = n - 1] /\ n - 1 \in Nat
      /\ Returns(a, TRUE) /\ UNCHANGED <<begin, live>> /\ Memory(m)
  <2>1. /\ Returns(a, TRUE) /\ UNCHANGED <<begin, live>> /\ Memory(m)
        /\ field' = [field EXCEPT ![a].length = n - 1]
    BY Zenon DEF SwapRemoveUnchecked
  <2>2. n - 1 \in Nat
    BY <1>1
  <2> QED BY <2>1, <2>2, Zenon
<1>4. \A x \in Address : m[x] = IF x = p + i THEN byte[p + n - 1] ELSE byte[x]
  BY DEF Written, ShareInv
<1> HIDE DEF m
<1>5. \A x \in Address : x \notin p .. p + field[a].capacity - 1 => m[x] = byte[x]
  BY <1>1, <1>2, <1>4
<1>6. p + n - 1 \in p .. p + n - 1 /\ byte[p + n - 1] \in Values
  BY <1>1, <1>2
<1>7. ASSUME NEW x \in p .. p + (n - 1) - 1
      PROVE  x \in Address /\ m[x] \in Values
  <2>1. x \in p .. p + n - 1
    BY <1>1, <1>2
  <2> QED BY <1>2, <1>4, <1>6, <2>1
<1> QED BY <1>2, <1>3, <1>5, <1>7, OwnChangeIsSafe

LEMMA RemoveIsSafe ==
  ASSUME ShareInv, NEW a \in Arrays, NEW i \in Nat,
         Remove(a, i) \/ SwapRemove(a, i)
  PROVE  Safe(a)
<1>1. CASE field[a].length > 0 /\ Popped(a) /\ Returns(a, TRUE)
  BY <1>1, PoppedIsSafe
<1>2. CASE RemoveUnchecked(a, i)
  BY <1>2, RemoveUncheckedIsSafe
<1>3. CASE SwapRemoveUnchecked(a, i)
  BY <1>3, SwapRemoveUncheckedIsSafe
<1> QED BY <1>1, <1>2, <1>3, RefusedIsSafe DEF Remove, SwapRemove

\* insert moves the elements behind i up, the last of them into the byte that
\* has just been reserved.
LEMMA ShiftIsSafe ==
  ASSUME ShareInv, Headroom, NEW a \in Arrays, NEW i \in Nat, NEW v \in Values,
         i < field[a].length, CanReserve(a, 1), Reserved(a, 1), NEW ok,
         Returns(a, ok), NEW m,
         m = Written(Copy(live'[a].ptr + i, live'[a].ptr + i + 1,
                          field[a].length - i),
                     live'[a].ptr + i, v),
         Memory(m)
  PROVE  Safe(a)
<1> DEFINE n == field[a].length
           p == live[a].ptr
<1>1. n > 0 /\ n \in Nat /\ Extended(a, 1)
  BY Numbers, ReservedExtends
<1>2. /\ live'[a].ptr = p /\ Laid' /\ p + field[a].capacity = begin
      /\ a \in Handles
  BY <1>1 DEF Extended, Handles
<1>3. /\ live[a] # None /\ p \in Nat /\ field[a].capacity \in Nat
      /\ n <= field[a].capacity /\ Extent(a) = p .. p + n - 1
      /\ \A x \in p .. p + n - 1 : byte[x] \in Values /\ x \in Address
  BY <1>1, Elements
<1>4. ASSUME NEW x \in Address
      PROVE  m[x] = IF x = p + i THEN v
                    ELSE IF x \in p + i + 1 .. p + i + 1 + (n - i) - 1
                         THEN byte[p + i + (x - (p + i + 1))] ELSE byte[x]
  <2> DEFINE c == Copy(p + i, p + i + 1, n - i)
  <2>1. /\ c[x] = IF x \in p + i + 1 .. p + i + 1 + (n - i) - 1
                  THEN byte[p + i + (x - (p + i + 1))] ELSE byte[x]
        /\ DOMAIN c = Address /\ c = [y \in Address |-> c[y]]
    BY DEF Copy
  <2>2. m = Written(c, p + i, v)
    BY <1>2
  <2> HIDE DEF c
  <2> QED BY <2>1, <2>2 DEF Written
<1>5. ASSUME NEW h \in Handles \ {a}, NEW x \in Extent(h)
      PROVE  m[x] = byte[x]
  <2>1. x \in Address /\ x \in Nat /\ x < begin /\ x \notin p .. p + field[a].capacity - 1
    BY <1>3, OthersElsewhere
  <2>2. x < p
    BY <1>2, <1>3, <2>1
  <2> QED BY <1>3, <1>4, <2>1, <2>2
<1>6. ASSUME NEW x \in Extent(a)
      PROVE  m[x] \in Values
  <2>1. x \in p .. p + n - 1 /\ x \in Address /\ byte[x] \in Values
    BY <1>3
  <2>2. CASE x \in p + i + 1 .. p + i + 1 + (n - i) - 1
    <3>1. p + i + (x - (p + i + 1)) = x - 1 /\ x - 1 \in p .. p + n - 1
      <4>1. p \in Nat /\ n \in Nat /\ x \in Nat /\ x <= p + n - 1
        BY <1>1, <1>3, <2>1
      <4>2. p + i + 1 <= x
        BY <2>2, <4>1
      <4> QED BY <4>1, <4>2
    <3>2. byte[x - 1] \in Values
      BY <1>3, <3>1
    <3> QED BY <1>4, <2>1, <2>2, <3>1, <3>2
  <2> QED BY <1>4, <2>1, <2>2
<1>7. Respects(a, m)
  BY <1>1, <1>5, <1>6, ExtendedRespects
<1> QED BY <1>2, <1>7, RespectIsSafe

LEMMA InsertIsSafe ==
  ASSUME ShareInv, Headroom, NEW a \in Arrays, NEW i \in Nat, NEW v \in Values,
         Insert(a, i, v)
  PROVE  Safe(a)
<1>1. CASE Pushed(a, v) /\ Returns(a, TRUE)
  BY <1>1, PushedIsSafe
<1>2. CASE /\ i < field[a].length /\ CanReserve(a, 1) /\ Reserved(a, 1)
           /\ LET base == live'[a].ptr + i IN
              Memory(Written(Copy(base, base + 1, field[a].length - i), base, v))
           /\ Returns(a, TRUE)
  <2> DEFINE base == live'[a].ptr + i
             m == Written(Copy(base, base + 1, field[a].length - i), base, v)
  <2>1. Memory(m)
    BY <1>2, Zenon
  <2>2. m = Written(Copy(live'[a].ptr + i, live'[a].ptr + i + 1,
                         field[a].length - i), live'[a].ptr + i, v)
    BY Zenon
  <2> HIDE DEF m
  <2> QED BY <1>2, <2>1, <2>2, ShiftIsSafe
<1> QED
  BY <1>1, <1>2, RefusedIsSafe, Zenon DEF Insert, InsertUnchecked

\* What append_from copies lands in the room that has just been reserved, or
\* in the room a had, and a does not show it.
LEMMA AppendFromIsSafe ==
  ASSUME ShareInv, Headroom, NEW a \in Arrays, NEW b \in Arrays, AppendFrom(a, b)
  PROVE  Safe(a)
<1> DEFINE n == field[b].length
           q == live'[a].ptr + field[a].length
           m == IF n = 0 THEN byte ELSE Copy(live[b].ptr, q, n)
<1>1. CASE CanReserve(a, n) /\ Reserved(a, n) /\ Memory(m) /\ Returns(a, TRUE)
  <2>1. /\ n \in Nat /\ a \in Handles /\ field[a].length \in Nat
        /\ field[a].capacity \in Nat /\ field[a].length <= field[a].capacity
        /\ begin \in Nat
    BY Numbers DEF Handles
  <2>2. Extended(a, n)
    BY <1>1, <2>1, ReservedExtends
  <2>3. /\ live'[a].ptr \in Nat /\ live'[a].ptr + field[a].capacity = begin
        /\ field[a].length > 0 => live'[a].ptr = live[a].ptr
        /\ Laid'
    BY <2>2 DEF Extended
  <2>4. \A x \in Address : x < q => m[x] = byte[x]
    <3>1. CASE n = 0
      BY <3>1
    <3>2. CASE n # 0
      <4>1. \A x \in Address :
              Copy(live[b].ptr, q, n)[x] =
                IF x \in q .. q + n - 1 THEN byte[live[b].ptr + (x - q)] ELSE byte[x]
        BY DEF Copy
      <4>2. q \in Nat /\ \A x \in Address : x \in Nat
        BY <2>1, <2>3, ArraysAssumption DEF Address
      <4> QED BY <2>1, <3>2, <4>1, <4>2
    <3> QED BY <3>1, <3>2
  <2>5. ASSUME NEW h \in Handles \ {a}, NEW x \in Extent(h)
        PROVE  m[x] = byte[x]
    <3>1. x \in Address /\ x \in Nat /\ x < begin
      BY ExtentBounds
    <3>2. x < live'[a].ptr
      <4>1. CASE field[a].capacity = 0
        BY <2>3, <3>1, <4>1
      <4>2. CASE field[a].capacity > 0
        <5>1. live[a] # None
          BY <4>2, Numbers
        <5>2. live'[a].ptr = live[a].ptr
          <6>1. live' = [live EXCEPT ![a].size = field[a].capacity + n]
            BY <1>1, <2>1, <4>2 DEF Reserved, LongerBlock
          <6>2. live \in [Handles -> FBA!Block \union {None}]
            BY DEF ShareInv, KnownInv
          <6> QED BY <2>1, <6>1, <6>2
        <5>3. x \notin live[a].ptr .. live[a].ptr + field[a].capacity - 1
          BY <5>1, OthersElsewhere
        <5> QED BY <2>1, <2>3, <3>1, <5>2, <5>3
      <4> QED BY <2>1, <4>1, <4>2
    <3>3. x < q
      BY <2>1, <2>3, <3>1, <3>2
    <3> QED BY <2>4, <3>1, <3>3
  <2>7. ASSUME NEW x \in Extent(a)
        PROVE  m[x] \in Values
    <3>1. field[a].length > 0 /\ x \in live[a].ptr .. live[a].ptr + field[a].length - 1
      BY <2>1 DEF Extent
    <3>2. x \in Address /\ byte[x] \in Values
      BY <2>1, ExtentBounds
    <3>3. x < q
      BY <2>1, <2>3, <3>1
    <3> QED BY <2>4, <3>2, <3>3
  <2> HIDE DEF m
  <2>8. Respects(a, m)
    BY <2>1, <2>2, <2>5, <2>7, ExtendedRespects
  <2> QED BY <1>1, <2>1, <2>3, <2>8, RespectIsSafe
<1> QED BY <1>1, RefusedIsSafe, Zenon DEF AppendFrom

-----------------------------------------------------------------------------
(* The other clients.                                                      *)

\* A call of another client's that leaves it with what it had stored, or none.
LEMMA OtherIsSafe ==
  ASSUME ShareInv, NEW o \in Others, NEW b, UNCHANGED field, Laid',
         live' = [live EXCEPT ![o] = b], Returns(o, TRUE), Memory(byte),
         \/ b = None \/ b.filled = 0
         \/ live[o] # None /\ b.ptr = live[o].ptr /\ b.filled = live[o].filled
  PROVE  Safe(o)
<1>1. o \in Handles /\ o \notin Arrays
  BY ArraysAssumption DEF Handles
<1>2. live'[o] = b /\ \A h \in Handles \ {o} : live'[h] = live[h]
  BY <1>1 DEF ShareInv, KnownInv
<1>3. \A h \in Handles \ {o} : Extent(h)' = Extent(h)
  BY <1>2 DEF Extent
<1>4. Extent(o)' \subseteq Extent(o)
  BY <1>1, <1>2 DEF Extent
<1>5. Respects(o, byte)
  BY <1>1, <1>3, <1>4, ExtentBounds DEF Respects
<1> QED BY <1>1, <1>5, RespectIsSafe

\* An allocation that fails, a resize that fails: nothing happens.
LEMMA IdleIsSafe ==
  ASSUME ShareInv, NEW o \in Others, UNCHANGED <<begin, live, field>>,
         Returns(o, TRUE), Memory(byte)
  PROVE  Safe(o)
<1>1. o \in Handles
  BY DEF Handles
<1>2. \A h \in Handles : Extent(h)' = Extent(h)
  BY DEF Extent
<1>3. Laid'
  BY DEF ShareInv, Laid
<1>4. Respects(o, byte)
  BY <1>1, <1>2, ExtentBounds DEF Respects
<1> QED BY <1>1, <1>3, <1>4, RespectIsSafe

\* deallocate: what remains lies below the new `begin'.
LEMMA DeallocateLaid ==
  ASSUME ShareInv, NEW o \in Others, FBA!Deallocate(o)
  PROVE  Laid' /\ live' = [live EXCEPT ![o] = None]
<1>1. /\ live[o] # None /\ o \in Handles
      /\ begin' = FBA!Released(begin, live[o])
      /\ live' = [live EXCEPT ![o] = None]
  BY DEF FBA!Deallocate, FBA!IsLive, Handles
<1>2. live'[o] = None /\ \A h \in Handles \ {o} : live'[h] = live[h]
  BY <1>1 DEF ShareInv, KnownInv
<1>3. live[o].align = 1
  BY <1>1, BlockBounds
<1>4. ASSUME NEW h \in Handles \ {o}, live[h] # None, live[h].size > 0
      PROVE  live[h].ptr + live[h].size <= begin'
  <2>1. CASE FBA!IsLast(begin, live[o])
    <3>1. live[o].ptr + live[o].size = begin
      BY <1>1, <1>3, <2>1, LastEnds
    <3>2. live[h].ptr + live[h].size <= live[o].ptr
      BY <1>1, <1>4, <3>1, LastAbove
    <3> QED BY <1>1, <2>1, <3>2 DEF FBA!Released
  <2>2. CASE ~FBA!IsLast(begin, live[o])
    BY <1>1, <1>4, <2>2, BlockBounds DEF FBA!Released
  <2> QED BY <2>1, <2>2
<1>5. ASSUME NEW h \in Handles, live'[h] # None
      PROVE  /\ live'[h].align = 1
             /\ live'[h].size <= LayoutMax
             /\ live'[h].filled <= live'[h].size
             /\ live'[h].size > 0 => FBA!End(live'[h]) <= begin'
  BY <1>2, <1>4, <1>5, BlockBounds DEF FBA!End
<1>6. ASSUME NEW g \in Handles, NEW h \in Handles, g # h,
             live'[g] # None, live'[h] # None
      PROVE  FBA!Apart(live'[g], live'[h])
  BY <1>2, <1>6 DEF ShareInv, Laid
<1> QED BY <1>1, <1>5, <1>6 DEF Laid

\* The block of another client, at the end of all the others.
LEMMA LaidLast ==
  ASSUME ShareInv, NEW o \in Others, NEW p \in Nat, NEW n \in Nat, NEW k \in Nat,
         n <= LayoutMax, k <= n, p < WordSize, p + n = begin',
         \A g \in Handles \ {o} :
           live[g] # None /\ live[g].size > 0 => live[g].ptr + live[g].size <= p,
         live' = [live EXCEPT ![o] = FBA!NewBlock(p, Bytes(n), k)]
  PROVE  Laid'
<1> DEFINE b == FBA!NewBlock(p, Bytes(n), k)
<1>1. b.ptr = p /\ b.size = n /\ b.filled = k /\ b.align = 1 /\ o \in Handles
  BY DEF FBA!NewBlock, Bytes, Handles
<1>2. b # None
  BY Numbers, ArraysAssumption DEF FBA!NewBlock, Bytes
<1> HIDE DEF b
<1>3. live' = [live EXCEPT ![o] = b]
  BY DEF b
<1> QED BY <1>1, <1>2, <1>3, LaidBehind

LEMMA OtherCallIsSafe ==
  ASSUME ShareInv, Headroom, NEW o \in Others, OtherCall(o)
  PROVE  Safe(o)
<1>1. /\ Returns(o, TRUE) /\ UNCHANGED field /\ Memory(byte) /\ o \in Handles
  BY DEF OtherCall, Handles
<1>2. CASE FBA!Deallocate(o)
  <2>1. Laid' /\ live' = [live EXCEPT ![o] = None]
    BY <1>2, DeallocateLaid
  <2> QED BY <1>1, <2>1, OtherIsSafe
<1>3. CASE UNCHANGED <<begin, live>>
  BY <1>1, <1>3, IdleIsSafe
<1>4. ASSUME NEW n \in Counts, LayoutOk(n), FBA!Allocate(o, Bytes(n))
      PROVE  Safe(o)
  <2>1. /\ n \in Nat /\ n <= LayoutMax /\ begin \in Nat /\ begin < WordSize
        /\ begin + n < WordSize
    BY <1>4, Numbers, ArraysAssumption DEF LayoutOk, Headroom
  <2>2. CASE /\ begin' = FBA!NewBegin(Bytes(n))
             /\ live' = [live EXCEPT ![o] =
                           FBA!NewBlock(FBA!Start(Bytes(n)), Bytes(n), 0)]
    <3> DEFINE b == FBA!NewBlock(begin, Bytes(n), 0)
    <3>1. begin' = begin + n /\ live' = [live EXCEPT ![o] = b]
      BY <2>1, <2>2, StartsAtBegin
    <3>2. b.filled = 0
      BY DEF FBA!NewBlock
    <3>3. \A g \in Handles \ {o} :
            live[g] # None /\ live[g].size > 0 => live[g].ptr + live[g].size <= begin
      BY BlockBounds
    <3>4. Laid'
      <4>1. 0 \in Nat /\ 0 <= n /\ begin + n = begin'
        BY <2>1, <3>1
      <4> QED BY <2>1, <3>1, <3>3, <4>1, LaidLast
    <3> HIDE DEF b
    <3> QED BY <1>1, <3>1, <3>2, <3>4, OtherIsSafe
  <2> QED BY <1>3, <1>4, <2>2 DEF FBA!Allocate, FBA!vars
<1>5. ASSUME NEW n \in Counts, LayoutOk(n), FBA!Grow(o, Bytes(n))
      PROVE  Safe(o)
  <2>1. /\ n \in Nat /\ n <= LayoutMax /\ begin \in Nat /\ begin < WordSize
        /\ begin + n < WordSize
        /\ Bytes(n).size = n /\ Bytes(n).align = 1
    BY <1>5, Numbers, ArraysAssumption DEF LayoutOk, Headroom, Bytes
  <2>2. live[o] # None /\ live[o].size <= n
    BY <1>5, <2>1 DEF FBA!Grow, FBA!IsLive
  <2>3. /\ live[o].ptr \in Nat /\ live[o].size \in Nat /\ live[o].filled \in Nat
        /\ live[o].align = 1 /\ live[o].filled <= live[o].size
        /\ live[o] \in FBA!Block
    BY <1>1, <2>2, BlockBounds
  <2>4. CASE FBA!IsLast(begin, live[o]) /\ FBA!ResizedInPlace(o, Bytes(n))
    <3> DEFINE p == live[o].ptr
               k == live[o].filled
               b == FBA!NewBlock(p, Bytes(n), k)
    <3>1. p + live[o].size = begin
      BY <1>1, <2>2, <2>3, <2>4, LastEnds
    <3>2. \A g \in Handles \ {o} :
            live[g] # None /\ live[g].size > 0 => live[g].ptr + live[g].size <= p
      BY <1>1, <2>2, <3>1, LastAbove
    <3>3. begin' = p + n
      <4>1. begin' = FBA!Wrap(begin + (n - live[o].size))
        BY <2>1, <2>4 DEF FBA!ResizedInPlace
      <4>2. begin + (n - live[o].size) = p + n /\ p + n \in Nat /\ p + n < WordSize
        BY <2>1, <2>2, <2>3, <3>1, Numbers
      <4> QED BY <4>1, <4>2, WrapSmall
    <3>4. FBA!Lesser(k, n) = k
      BY <2>1, <2>2, <2>3 DEF FBA!Lesser
    <3>5. live' = [live EXCEPT ![o] = b]
      <4>1. live' = [live EXCEPT ![o] =
                       FBA!NewBlock(live[o].ptr, Bytes(n),
                                    FBA!Lesser(live[o].filled, n))]
        BY <1>1, <2>1, <2>4 DEF FBA!ResizedInPlace, ShareInv, KnownInv
      <4> QED BY <3>4, <4>1
    <3>6. Laid'
      <4>1. k <= n /\ p < WordSize
        BY <2>1, <2>2, <2>3, <3>1, Numbers
      <4> QED BY <2>1, <2>3, <3>2, <3>3, <3>5, <4>1, LaidLast
    <3>7. b.ptr = p /\ b.filled = k
      BY DEF FBA!NewBlock
    <3> HIDE DEF b
    <3> QED BY <1>1, <2>2, <3>5, <3>6, <3>7, OtherIsSafe
  <2> QED BY <1>3, <1>5, <2>1, <2>3, <2>4 DEF FBA!Grow, FBA!vars
<1> QED BY <1>2, <1>4, <1>5 DEF OtherCall

\* A client that stores data stores it in its own block.
LEMMA FillIsSafe ==
  ASSUME ShareInv, NEW o \in Others, NEW v \in Values, Fill(o, v)
  PROVE  Safe(o)
<1> DEFINE p == live[o].ptr
           n == live[o].size
           m == [x \in Address |-> IF x \in FBA!Bytes(live[o]) THEN v ELSE byte[x]]
           b == [live[o] EXCEPT !.filled = n]
<1>1. /\ o \in Handles /\ o \notin Arrays /\ live[o] # None /\ Returns(o, TRUE)
      /\ UNCHANGED <<begin, field>> /\ Memory(m)
      /\ live' = [live EXCEPT ![o].filled = live[o].size]
  BY ArraysAssumption, Zenon DEF Fill, Handles
<1>2. /\ p \in Nat /\ n \in Nat /\ live[o] \in FBA!Block
      /\ live[o].align = 1 /\ n <= LayoutMax
      /\ n > 0 => p + n <= begin
  BY <1>1, BlockBounds
<1>3. /\ b.ptr = p /\ b.size = n /\ b.filled = n /\ b.align = 1 /\ b # None
  <2>1. b \in FBA!Block
    BY <1>2 DEF FBA!Block
  <2> QED BY <1>2, <2>1, ArraysAssumption DEF FBA!Block, FBA!Address
<1>4. live'[o] = b /\ \A h \in Handles \ {o} : live'[h] = live[h]
  BY <1>1 DEF ShareInv, KnownInv
<1> HIDE DEF b
<1>5. Laid'
  <2>1. ASSUME NEW h \in Handles, live'[h] # None
        PROVE  /\ live'[h].align = 1
               /\ live'[h].size <= LayoutMax
               /\ live'[h].filled <= live'[h].size
               /\ live'[h].size > 0 => FBA!End(live'[h]) <= begin'
    <3>1. CASE h = o
      BY <1>1, <1>2, <1>3, <1>4, <3>1 DEF FBA!End
    <3>2. CASE h # o
      BY <1>1, <1>4, <2>1, <3>2, BlockBounds DEF FBA!End
    <3> QED BY <3>1, <3>2
  <2>2. ASSUME NEW g \in Handles, NEW h \in Handles, g # h,
               live'[g] # None, live'[h] # None
        PROVE  FBA!Apart(live'[g], live'[h])
    <3>1. /\ live[g] # None /\ live'[g].ptr = live[g].ptr /\ live'[g].size = live[g].size
          /\ live[h] # None /\ live'[h].ptr = live[h].ptr /\ live'[h].size = live[h].size
      BY <1>1, <1>3, <1>4, <2>2
    <3> QED BY <2>2, <3>1 DEF ShareInv, Laid, FBA!Apart, FBA!End
  <2> QED BY <2>1, <2>2 DEF Laid
<1>6. \A x \in Address : m[x] = IF x \in p .. p + n - 1 THEN v ELSE byte[x]
  <2>1. FBA!Bytes(live[o]) = p .. p + n - 1
    BY <1>2 DEF FBA!Bytes, FBA!End
  <2>2. ASSUME NEW x \in Address
        PROVE  m[x] = IF x \in FBA!Bytes(live[o]) THEN v ELSE byte[x]
    OBVIOUS
  <2> HIDE DEF m
  <2> QED BY <2>1, <2>2
<1> HIDE DEF m
<1>7. \A h \in Handles \ {o} : Extent(h)' = Extent(h)
  BY <1>1, <1>4 DEF Extent
<1>8. ASSUME NEW h \in Handles \ {o}, NEW x \in Extent(h)
      PROVE  m[x] = byte[x]
  <2>1. x \in Address /\ x \in Nat /\ (x < p \/ p + n <= x)
    BY <1>1, ExtentBounds, Foreign
  <2> QED BY <1>2, <1>6, <2>1
<1>9. ASSUME NEW x \in Extent(o)'
      PROVE  x \in Address /\ m[x] \in Values
  <2>1. x \in p .. p + n - 1 /\ n # 0
    BY <1>1, <1>3, <1>4 DEF Extent
  <2>2. x \in Address
    BY <1>2, <2>1, Numbers DEF Address
  <2> QED BY <1>6, <2>1, <2>2
<1>10. Respects(o, m)
  BY <1>7, <1>8, <1>9 DEF Respects
<1> QED BY <1>1, <1>5, <1>10, RespectIsSafe

-----------------------------------------------------------------------------
(* The theorems.                                                           *)

\* Whatever the call, somebody makes it, and it is safe.
LEMMA StepIsSafe ==
  ASSUME ShareInv, Headroom, Next
  PROVE  \E c \in Handles : Safe(c)
<1>1. Arrays \subseteq Handles /\ Others \subseteq Handles
      /\ Counts \subseteq Nat /\ Indices \subseteq Nat
  BY ArraysAssumption DEF Handles
<1>2. ASSUME NEW a \in Arrays, Pop(a) \/ Clear(a)
      PROVE  Safe(a)
  BY <1>2, PopIsSafe, ClearIsSafe
<1>3. ASSUME NEW a \in Arrays, NEW n \in Counts,
             WithCapacity(a, n) \/ Reserve(a, n) \/ Truncate(a, n)
      PROVE  Safe(a)
  BY <1>1, <1>3, WithCapacityIsSafe, ReserveIsSafe, TruncateIsSafe
<1>4. ASSUME NEW a \in Arrays, NEW i \in Indices, Remove(a, i) \/ SwapRemove(a, i)
      PROVE  Safe(a)
  BY <1>1, <1>4, RemoveIsSafe
<1>5. ASSUME NEW a \in Arrays, NEW v \in Values, Push(a, v) \/ PushWithinCapacity(a, v)
      PROVE  Safe(a)
  BY <1>5, PushIsSafe, PushWithinCapacityIsSafe
<1>6. ASSUME NEW a \in Arrays, NEW v \in Values, NEW i \in Indices, Insert(a, i, v)
      PROVE  Safe(a)
  BY <1>1, <1>6, InsertIsSafe
<1>7. ASSUME NEW a \in Arrays, NEW b \in Arrays, AppendFrom(a, b)
      PROVE  Safe(a)
  BY <1>7, AppendFromIsSafe
<1>8. ASSUME NEW o \in Others, NEW v \in Values, Fill(o, v)
      PROVE  Safe(o)
  BY <1>8, FillIsSafe
<1> QED
  BY <1>1, <1>2, <1>3, <1>4, <1>5, <1>6, <1>7, <1>8, OtherCallIsSafe DEF Next

LEMMA ShareInitial ==
  ASSUME Init
  PROVE  ShareInv
<1>1. KnownInv
  BY KnownInitial
<1>2. \A h \in Handles : live[h] = None
  BY DEF Init, FBA!Init
<1>3. \A h \in Handles : Extent(h) = {}
  BY <1>2 DEF Init, New, Extent
<1> QED BY <1>1, <1>2, <1>3 DEF ShareInv, Laid, Stored, Init

LEMMA ShareStep ==
  ASSUME ShareInv, Headroom, [Next]_vars
  PROVE  ShareInv'
<1>1. KnownInv'
  BY KnownStep DEF ShareInv
<1>2. CASE Next
  BY <1>1, <1>2, StepIsSafe DEF ShareInv, Safe
<1>3. CASE UNCHANGED vars
  <2>1. \A h \in Handles : Extent(h)' = Extent(h)
    BY <1>3 DEF vars, Extent
  <2> QED BY <1>1, <1>3, <2>1 DEF vars, ShareInv, Laid, Stored
<1> QED BY <1>2, <1>3

\* As long as no sum wraps.
THEOREM Shared == Spec /\ []Headroom => []ShareInv
<1>1. Init => ShareInv
  BY ShareInitial
<1>2. ShareInv /\ Headroom /\ [Next]_vars => ShareInv'
  BY ShareStep
<1> QED BY <1>1, <1>2, PTL DEF Spec

\* Everything has its type, and no length or capacity exceeds what a layout
\* can hold.
THEOREM TypesKept == Spec /\ []Headroom => []TypeOK
<1>1. ShareInv => TypeOK
  <2> SUFFICES ASSUME ShareInv PROVE TypeOK
    OBVIOUS
  <2>1. FBA!TypeOK
    BY DEF ShareInv, KnownInv, FBA!TypeOK, FBA!Address, Address
  <2>2. \A a \in Arrays : field[a] \in [length : 0 .. LayoutMax, capacity : 0 .. LayoutMax]
    <3> TAKE a \in Arrays
    <3>1. /\ field[a] = [length |-> field[a].length, capacity |-> field[a].capacity]
      BY DEF ShareInv, KnownInv
    <3>2. field[a].length \in 0 .. LayoutMax /\ field[a].capacity \in 0 .. LayoutMax
      BY Numbers
    <3> QED BY <3>1, <3>2
  <2> QED BY <2>1, <2>2 DEF TypeOK, ShareInv, KnownInv
<1> QED BY <1>1, Shared, PTL

\* The blocks of arrays and of other clients never overlap, and lie below
\* where the allocator takes the next one, though reserve may grow a block
\* beyond the slice.
THEOREM KeptApart == Spec /\ []Headroom => []BlocksApart
<1>1. ShareInv => BlocksApart
  <2> SUFFICES ASSUME ShareInv PROVE BlocksApart
    OBVIOUS
  <2>1. ASSUME NEW g \in Handles, NEW h \in Handles, g # h,
               live[g] # None, live[h] # None
        PROVE  FBA!Bytes(live[g]) \intersect FBA!Bytes(live[h]) = {}
    <3>1. /\ live[g].ptr \in Nat /\ live[g].size \in Nat
          /\ live[h].ptr \in Nat /\ live[h].size \in Nat
      BY <2>1, BlockBounds
    <3>2. FBA!Apart(live[g], live[h])
      BY <2>1 DEF ShareInv, Laid
    <3> QED BY <3>1, <3>2 DEF FBA!Apart, FBA!Bytes, FBA!End
  <2> QED
    BY <2>1
    DEF ShareInv, Laid, BlocksApart, FBA!LiveDisjoint, FBA!LiveBelowBegin, FBA!IsLive
<1> QED BY <1>1, Shared, PTL

\* An array shows stored elements only, never what lay in its memory before.
THEOREM ShowsStored == Spec /\ []Headroom => []Initialised
<1>1. ShareInv => Initialised
  BY ArraysAssumption DEF ShareInv, Stored, Initialised
<1> QED BY <1>1, Shared, PTL

\* No call on one array, and nothing another client does, changes what the
\* other arrays show: push stores behind the block it has just grown, which
\* is the last one, and so behind everybody's.
THEOREM LeftAlone == Spec /\ []Headroom => Isolation
<1>1. ShareInv /\ Headroom /\ [Next]_vars
        => [\A h \in Handles : h # last'.on => Shown(h)' = Shown(h)]_vars
  <2> SUFFICES ASSUME ShareInv, Headroom, Next
               PROVE  \A h \in Handles : h # last'.on => Shown(h)' = Shown(h)
    OBVIOUS
  <2> QED BY StepIsSafe DEF Safe
<1> QED BY <1>1, Shared, PTL DEF Spec, Isolation

-----------------------------------------------------------------------------
(* When nothing wraps.                                                     *)

\* The slice lies low enough for two layouts above it.
Spacious == BufEnd + 2 * LayoutMax < WordSize

\* Blocks start in the slice, or just behind it, and `begin' is at most one
\* layout beyond.
RoomInv ==
  /\ begin <= BufEnd + LayoutMax
  /\ \A h \in Handles : live[h] # None => live[h].ptr <= BufEnd

LEMMA RoomIsHeadroom ==
  ASSUME Spacious, ShareInv, RoomInv
  PROVE  Headroom /\ BufEnd \in Nat
BY Numbers, ArraysAssumption DEF Spacious, RoomInv, Headroom

\* One block changes, and starts in the slice.
LEMMA RoomReplaced ==
  ASSUME ShareInv, RoomInv, NEW h \in Handles,
         \A g \in Handles \ {h} : live'[g] = live[g],
         live'[h] # None => live'[h].ptr <= BufEnd,
         begin' <= BufEnd + LayoutMax
  PROVE  RoomInv'
BY DEF RoomInv

\* A first block is checked against the end of the slice.
LEMMA FirstBlockRoom ==
  ASSUME Spacious, ShareInv, RoomInv, NEW a \in Arrays, NEW n \in Nat, LayoutOk(n),
         FBA!Fits(Bytes(n)), FirstBlock(a, n)
  PROVE  RoomInv'
<1>1. /\ Headroom /\ BufEnd \in Nat /\ a \in Handles /\ begin \in Nat
      /\ LayoutMax \in Nat /\ WordSize \in Nat
  BY RoomIsHeadroom, Numbers DEF Handles
<1>2. begin' = begin + n /\ live'[a].ptr = begin
  BY <1>1, FirstBlockLaid
<1>3. begin + n <= BufEnd
  BY <1>1, StartsAtBegin DEF FBA!Fits, LayoutOk, Headroom
<1>4. \A g \in Handles \ {a} : live'[g] = live[g]
  BY DEF FirstBlock, ShareInv, KnownInv
<1> QED BY <1>1, <1>2, <1>3, <1>4, RoomReplaced

\* A block that grows keeps its start, and stays a layout.
LEMMA ReservedRoom ==
  ASSUME Spacious, ShareInv, RoomInv, NEW a \in Arrays, NEW n \in Nat,
         CanReserve(a, n), Reserved(a, n)
  PROVE  RoomInv'
<1>1. /\ Headroom /\ BufEnd \in Nat /\ a \in Handles /\ begin \in Nat
      /\ field[a].capacity \in Nat /\ LayoutMax \in Nat
      /\ field[a].capacity + n <= LayoutMax
  BY RoomIsHeadroom, Numbers DEF Handles, CanReserve, LayoutOk
<1>2. CASE field[a].capacity = 0
  <2>1. FirstBlock(a, n) /\ FBA!Fits(Bytes(n)) /\ LayoutOk(n)
    BY <1>1, <1>2 DEF Reserved, CanReserve, LayoutOk
  <2> QED BY <2>1, FirstBlockRoom
<1>3. CASE field[a].capacity > 0
  <2>1. live[a] # None /\ live[a].ptr <= BufEnd
    BY <1>1, <1>3, Numbers DEF RoomInv
  <2>2. live' = [live EXCEPT ![a].size = field[a].capacity + n]
    BY <1>1, <1>3 DEF Reserved, LongerBlock
  <2>3. /\ live'[a].ptr = live[a].ptr
        /\ \A g \in Handles \ {a} : live'[g] = live[g]
    <3>1. live \in [Handles -> FBA!Block \union {None}]
      BY DEF ShareInv, KnownInv
    <3> QED BY <1>1, <2>1, <2>2, <3>1
  <2>4. /\ live'[a].ptr \in Nat /\ live'[a].ptr + field[a].capacity = begin
        /\ begin' = begin + n
    BY <1>1, ReservedExtends DEF Extended
  <2>5. begin' <= BufEnd + LayoutMax
    BY <1>1, <2>1, <2>3, <2>4
  <2> QED BY <1>1, <2>1, <2>3, <2>5, RoomReplaced
<1> QED BY <1>1, <1>2, <1>3

LEMMA OtherRoom ==
  ASSUME Spacious, ShareInv, RoomInv, NEW o \in Others, OtherCall(o)
  PROVE  RoomInv'
<1>1. /\ Headroom /\ BufEnd \in Nat /\ o \in Handles /\ begin \in Nat
      /\ LayoutMax \in Nat /\ begin <= BufEnd + LayoutMax
      /\ live \in [Handles -> FBA!Block \union {None}]
  BY RoomIsHeadroom, Numbers DEF Handles, RoomInv, ShareInv, KnownInv
<1>2. CASE UNCHANGED <<begin, live>>
  BY <1>2 DEF RoomInv
<1>3. CASE FBA!Deallocate(o)
  <2>1. /\ live[o] # None /\ live' = [live EXCEPT ![o] = None]
        /\ begin' = live[o].ptr \/ begin' = begin
    BY <1>3 DEF FBA!Deallocate, FBA!IsLive, FBA!Released
  <2>2. live[o].ptr <= BufEnd /\ live[o].ptr \in Nat
    BY <1>1, <2>1, BlockBounds DEF RoomInv
  <2>3. begin' <= BufEnd + LayoutMax
    BY <1>1, <2>1, <2>2
  <2> QED BY <1>1, <2>1, <2>3, RoomReplaced
<1>4. ASSUME NEW n \in Counts, LayoutOk(n), FBA!Allocate(o, Bytes(n))
      PROVE  RoomInv'
  <2>1. n \in Nat /\ begin + n < WordSize
    BY <1>1, <1>4, Numbers, ArraysAssumption DEF LayoutOk, Headroom
  <2>2. CASE /\ FBA!Fits(Bytes(n))
             /\ begin' = FBA!NewBegin(Bytes(n))
             /\ live' = [live EXCEPT ![o] =
                           FBA!NewBlock(FBA!Start(Bytes(n)), Bytes(n), 0)]
    <3>1. /\ begin' = begin + n /\ begin + n <= BufEnd
          /\ live' = [live EXCEPT ![o] = FBA!NewBlock(begin, Bytes(n), 0)]
      BY <1>1, <2>1, <2>2, StartsAtBegin DEF FBA!Fits
    <3>2. FBA!NewBlock(begin, Bytes(n), 0).ptr = begin
      BY DEF FBA!NewBlock
    <3>3. live'[o].ptr = begin /\ \A g \in Handles \ {o} : live'[g] = live[g]
      BY <1>1, <3>1, <3>2
    <3> QED BY <1>1, <2>1, <3>1, <3>3, RoomReplaced
  <2> QED BY <1>2, <1>4, <2>2 DEF FBA!Allocate, FBA!vars
<1>5. ASSUME NEW n \in Counts, LayoutOk(n), FBA!Grow(o, Bytes(n))
      PROVE  RoomInv'
  <2>1. /\ n \in Nat /\ n <= LayoutMax /\ begin + n < WordSize
        /\ Bytes(n).size = n /\ Bytes(n).align = 1
    BY <1>1, <1>5, Numbers, ArraysAssumption DEF LayoutOk, Headroom, Bytes
  <2>2. live[o] # None /\ live[o].size <= n
    BY <1>5, <2>1 DEF FBA!Grow, FBA!IsLive
  <2>3. /\ live[o].ptr \in Nat /\ live[o].size \in Nat /\ live[o].align = 1
        /\ live[o].ptr <= BufEnd
    BY <1>1, <2>2, BlockBounds DEF RoomInv
  <2>4. CASE FBA!IsLast(begin, live[o]) /\ FBA!ResizedInPlace(o, Bytes(n))
    <3>1. live[o].ptr + live[o].size = begin
      BY <1>1, <2>2, <2>3, <2>4, LastEnds
    <3>2. begin' = live[o].ptr + n
      <4>1. begin' = FBA!Wrap(begin + (n - live[o].size))
        BY <2>1, <2>4 DEF FBA!ResizedInPlace
      <4>2. /\ begin + (n - live[o].size) = live[o].ptr + n
            /\ live[o].ptr + n \in Nat /\ live[o].ptr + n < WordSize
        BY <2>1, <2>2, <2>3, <3>1, Numbers
      <4> QED BY <4>1, <4>2, WrapSmall
    <3>3. /\ live'[o].ptr = live[o].ptr
          /\ \A g \in Handles \ {o} : live'[g] = live[g]
      BY <1>1, <2>4 DEF FBA!ResizedInPlace, FBA!NewBlock
    <3>4. begin' <= BufEnd + LayoutMax
      BY <1>1, <2>1, <2>3, <3>2
    <3> QED BY <1>1, <2>3, <3>3, <3>4, RoomReplaced
  <2> QED BY <1>2, <1>5, <2>1, <2>3, <2>4 DEF FBA!Grow, FBA!vars
<1> QED BY <1>3, <1>4, <1>5 DEF OtherCall

LEMMA RoomStep ==
  ASSUME Spacious, ShareInv, RoomInv, [Next]_vars
  PROVE  RoomInv'
<1>1. CASE UNCHANGED <<begin, live>>
  BY <1>1 DEF RoomInv
<1>2. ASSUME NEW a \in Arrays, Refused(a)
      PROVE  RoomInv'
  BY <1>1, <1>2 DEF Refused
<1>3. ASSUME NEW a \in Arrays
      PROVE  Growth(a) \in Nat /\ field[a].length \in Nat /\ 1 \in Nat
  BY Numbers, ArraysAssumption DEF Growth
<1>4. ASSUME NEW a \in Arrays, NEW n \in Nat, CanReserve(a, n) /\ Reserved(a, n)
      PROVE  RoomInv'
  BY <1>4, ReservedRoom
<1>5. ASSUME NEW a \in Arrays, NEW n \in Counts,
             WithCapacity(a, n) \/ Reserve(a, n) \/ Truncate(a, n)
      PROVE  RoomInv'
  <2>1. n \in Nat
    BY ArraysAssumption
  <2> QED
    BY <1>1, <1>2, <1>4, <1>5, <2>1, FirstBlockRoom
    DEF WithCapacity, Reserve, Truncate
<1>6. ASSUME NEW a \in Arrays, Pop(a) \/ Clear(a)
      PROVE  RoomInv'
  BY <1>1, <1>2, <1>6 DEF Pop, Clear, Popped
<1>7. ASSUME NEW a \in Arrays, NEW i \in Indices, Remove(a, i) \/ SwapRemove(a, i)
      PROVE  RoomInv'
  BY <1>1, <1>2, <1>7
  DEF Remove, SwapRemove, RemoveUnchecked, SwapRemoveUnchecked, Popped
<1>8. ASSUME NEW a \in Arrays, NEW v \in Values, Push(a, v) \/ PushWithinCapacity(a, v)
      PROVE  RoomInv'
  BY <1>1, <1>2, <1>3, <1>4, <1>8 DEF Push, Pushed, PushWithinCapacity
<1>9. ASSUME NEW a \in Arrays, NEW v \in Values, NEW i \in Indices, Insert(a, i, v)
      PROVE  RoomInv'
  BY <1>1, <1>2, <1>3, <1>4, <1>9 DEF Insert, InsertUnchecked, Pushed
<1>10. ASSUME NEW a \in Arrays, NEW b \in Arrays, AppendFrom(a, b)
       PROVE  RoomInv'
  BY <1>2, <1>3, <1>4, <1>10 DEF AppendFrom
<1>11. ASSUME NEW o \in Others, NEW v \in Values, Fill(o, v)
       PROVE  RoomInv'
  <2>1. o \in Handles /\ live \in [Handles -> FBA!Block \union {None}]
    BY DEF Handles, ShareInv, KnownInv
  <2>2. /\ live[o] # None /\ live'[o].ptr = live[o].ptr /\ begin' = begin
        /\ \A g \in Handles \ {o} : live'[g] = live[g]
    BY <1>11, <2>1 DEF Fill
  <2> QED BY <2>1, <2>2, RoomReplaced DEF RoomInv
<1> QED
  BY <1>1, <1>5, <1>6, <1>7, <1>8, <1>9, <1>10, <1>11, OtherRoom DEF Next, vars

\* In a slice low enough for two layouts above it nothing ever wraps, so all
\* of the above holds without a condition on the behaviour.
THEOREM NeverWraps == Spacious /\ Spec => []Headroom /\ []BlocksApart /\ Isolation
<1>1. Spacious /\ Init => ShareInv /\ RoomInv
  <2> SUFFICES ASSUME Init PROVE ShareInv /\ RoomInv
    OBVIOUS
  <2>1. \A h \in Handles : live[h] = None
    BY DEF Init, FBA!Init
  <2>2. begin = Base
    BY DEF Init, FBA!Init
  <2> QED BY <2>1, <2>2, ShareInitial, Numbers, ArraysAssumption DEF RoomInv
<1> SUFFICES ASSUME Spacious
             PROVE  Spec => []Headroom /\ []BlocksApart /\ Isolation
  OBVIOUS
<1>2. ShareInv /\ RoomInv /\ [Next]_vars => (ShareInv /\ RoomInv)'
  BY ShareStep, RoomStep, RoomIsHeadroom
<1>3. ShareInv /\ RoomInv => Headroom
  BY RoomIsHeadroom
<1>4. Init => ShareInv /\ RoomInv
  BY <1>1
<1> QED BY <1>2, <1>3, <1>4, KeptApart, LeftAlone, PTL DEF Spec
=============================================================================
