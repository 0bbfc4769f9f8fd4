------------------------ MODULE SystemAllocatorsProofs ------------------------
(***************************************************************************)
(* Proofs about SystemAllocators: where the blocks of both allocators lie, *)
(* for every mapping, heap, set of layouts and number of clients; then     *)
(* what both promise together: blocks apart, aligned and with the data of  *)
(* their holders in them, and with these the one contract of               *)
(* core::alloc::Allocator.                                                 *)
(***************************************************************************)
EXTENDS SystemAllocators, FixedBufferContractProofs

\* `begin' stays in the mapped range, a block of the VirtualMemoryAllocator in
\* the range and only while it is mapped, a block of Mallocator in the heap.
InMemory(h, b) ==
  IF h \in HeapHandles THEN Bytes(b) \subseteq Heap ELSE mapped /\ WithinSlice(b)

SystemInv ==
  /\ TypeOK
  /\ mapped \in BOOLEAN
  /\ Base <= begin /\ begin <= BufEnd
  /\ \A h \in Handles : IsLive(h) => InMemory(h, live[h])

\* A block replaced by one in the right memory, or by none.
LEMMA SystemReplaced ==
  ASSUME SystemInv, NEW h \in Handles, NEW b,
         live' = [live EXCEPT ![h] = b],
         b # None => b \in Block /\ InMemory(h, b),
         begin' \in Address, Base <= begin', begin' <= BufEnd,
         mem' \in [Address -> Handles \union {None}],
         mapped' = mapped
  PROVE  SystemInv'
<1>1. live'[h] = b /\ \A g \in Handles \ {h} : live'[g] = live[g]
  BY DEF SystemInv, TypeOK
<1>2. TypeOK'
  BY DEF SystemInv, TypeOK
<1>3. ASSUME NEW g \in Handles, IsLive(g)'
      PROVE  InMemory(g, live[g])'
  <2>1. InMemory(g, live'[g])
    BY <1>1, <1>3 DEF SystemInv, IsLive
  <2> QED BY <2>1 DEF InMemory, WithinSlice, Placed, End, Bytes
<1> QED BY <1>2, <1>3 DEF SystemInv

\* What libc answers is an address, and its bytes are the heap's.
LEMMA PlacesInHeap ==
  ASSUME NEW l \in Layouts, NEW p \in Places(l), NEW n \in Nat
  PROVE  /\ NewBlock(p, l, n) \in Block
         /\ Bytes(NewBlock(p, l, n)) \subseteq Heap
<1> DEFINE b == NewBlock(p, l, n)
<1>1. /\ p \in Address /\ p \in Nat /\ l.size \in Nat
      /\ p .. p + l.size - 1 \subseteq Heap
  BY HeapAssumption, LayoutAssumption, AddressAssumption DEF Places, Address
<1>2. b \in Block
  BY <1>1, NewBlockType
<1>3. b.ptr = p /\ b.size = l.size
  BY DEF NewBlock
<1>4. Bytes(b) = p .. p + l.size - 1
  BY <1>1, <1>3 DEF Bytes, End
<1> QED BY <1>1, <1>2, <1>4

\* A new block that the FixedBufferAllocator grants lies in the mapping.
LEMMA GrantedInMemory ==
  ASSUME SystemInv, Low, mapped, NEW h \in MappedHandles, NEW l \in Layouts,
         Fits(l), NEW n \in Nat
  PROVE  /\ NewBlock(Start(l), l, n) \in Block
         /\ InMemory(h, NewBlock(Start(l), l, n))
         /\ NewBegin(l) \in Address /\ Base <= NewBegin(l) /\ NewBegin(l) <= BufEnd
<1>1. begin \in Address /\ Base <= begin /\ begin <= BufEnd
  BY DEF SystemInv, TypeOK
<1>2. Start(l) \in Address /\ NewBegin(l) \in Address
  BY <1>1, StartType
<1>3. /\ WithinSlice(NewBlock(Start(l), l, n))
      /\ Base <= NewBegin(l) /\ NewBegin(l) <= BufEnd
  BY <1>1, FitsWithin
<1> QED BY <1>2, <1>3, NewBlockType DEF InMemory, MappedHandles

\* deallocate moves `begin' to the start of a block in the range, or not at all.
LEMMA ReleasedInRange ==
  ASSUME SystemInv, NEW h \in MappedHandles, IsLive(h),
         NEW b \in Address, Base <= b, b <= BufEnd
  PROVE  /\ Released(b, live[h]) \in Address
         /\ Base <= Released(b, live[h]) /\ Released(b, live[h]) <= BufEnd
<1>1. h \in Handles /\ InMemory(h, live[h]) /\ h \notin HeapHandles
  BY DEF MappedHandles, SystemInv
<1>2. live[h] \in Block
  BY <1>1, LiveBlock DEF SystemInv
<1> QED
  BY <1>1, <1>2, ReleasedType DEF Released, InMemory, WithinSlice, Placed

\* Every step of the two allocators and their clients keeps the invariant.
LEMMA SystemStep ==
  ASSUME Low, Borrowed, SystemInv, [SystemNext]_systemVars
  PROVE  SystemInv'
<1> USE DEF MappedHandles
<1>0. /\ TypeOK /\ mem \in [Address -> Handles \union {None}]
      /\ begin \in Address /\ Base <= begin /\ begin <= BufEnd
  BY DEF SystemInv, TypeOK
<1>1. CASE UNCHANGED systemVars
  BY <1>1 DEF systemVars, SystemInv, TypeOK, IsLive, InMemory, WithinSlice,
              Placed, End, Bytes
<1>2. CASE Create
  <2>1. CASE mapped' = TRUE /\ begin' = Base /\ UNCHANGED <<live, mem>>
    <3>1. TypeOK' /\ mapped' \in BOOLEAN
      BY <1>0, <2>1, AddressAssumption DEF TypeOK, Address
    <3>2. Base <= begin' /\ begin' <= BufEnd
      BY <2>1, AddressAssumption DEF Address
    <3>3. ASSUME NEW h \in Handles, IsLive(h)'
          PROVE  InMemory(h, live[h])'
      <4>1. InMemory(h, live[h]) /\ live'[h] = live[h] /\ mapped'
        BY <2>1, <3>3 DEF SystemInv, IsLive
      <4> QED BY <4>1 DEF InMemory, WithinSlice, Placed, End, Bytes
    <3> QED BY <3>1, <3>2, <3>3 DEF SystemInv
  <2> QED BY <1>1, <1>2, <2>1 DEF Create, Mappings
\* Nobody can drop what is still borrowed.
<1>3. CASE Drop
  <2>1. /\ \A h \in Handles : IsLive(h) => h \in HeapHandles
        /\ mapped' = FALSE /\ UNCHANGED <<begin, live>>
    BY <1>3 DEF Drop
  <2>2. mem' \in [Address -> Handles \union {None}]
    BY <1>0, <1>3 DEF Drop, Unmapped
  <2> QED
    BY <2>1, <2>2
    DEF SystemInv, TypeOK, IsLive, InMemory, Bytes, End
<1>4. ASSUME NEW h \in Handles, MappedDeallocate(h) \/ HeapDeallocate(h) \/ Forget(h)
      PROVE  SystemInv'
  <2>1. /\ IsLive(h) /\ live' = [live EXCEPT ![h] = None] /\ mapped' = mapped
        /\ mem' \in [Address -> Handles \union {None}]
    BY <1>0, <1>4, KeptType DEF MappedDeallocate, HeapDeallocate, Forget
  <2>2. begin' \in Address /\ Base <= begin' /\ begin' <= BufEnd
    BY <1>0, <1>4, <2>1, ReleasedInRange
    DEF MappedDeallocate, HeapDeallocate, Forget
  <2> QED BY <2>1, <2>2, SystemReplaced
<1>5. ASSUME NEW h \in Handles, Fill(h)
      PROVE  SystemInv'
  <2> DEFINE b == [live[h] EXCEPT !.filled = live[h].size]
  <2>1. /\ IsLive(h) /\ begin' = begin /\ mapped' = mapped
        /\ live' = [live EXCEPT ![h] = b]
        /\ mem' \in [Address -> Handles \union {None}]
    BY <1>0, <1>5, StoredType DEF Fill, Write, TypeOK
  <2>2. /\ b \in Block
        /\ b.ptr = live[h].ptr /\ b.size = live[h].size /\ b.align = live[h].align
    BY <1>0, <2>1, LiveBlock DEF Block
  <2>3. InMemory(h, b)
    BY <2>1, <2>2
    DEF SystemInv, InMemory, WithinSlice, Placed, End, Bytes
  <2> QED BY <1>0, <2>1, <2>2, <2>3, SystemReplaced
<1>6. ASSUME NEW h \in Handles, NEW l \in Layouts, MappedAllocate(h, l)
      PROVE  SystemInv'
  <2>1. CASE Fits(l) /\ begin' = NewBegin(l) /\ mem' = mem
             /\ live' = [live EXCEPT ![h] = NewBlock(Start(l), l, 0)]
    BY <1>0, <1>6, <2>1, GrantedInMemory, SystemReplaced DEF MappedAllocate
  <2> QED
    BY <1>1, <1>6, <2>1 DEF MappedAllocate, Allocate, vars, systemVars
<1>7. ASSUME NEW h \in Handles, NEW l \in Layouts, MappedResize(h, l)
      PROVE  SystemInv'
  <2>1. CASE Fits(l) /\ Replace(h, l, Start(l)) /\ UNCHANGED mapped
             /\ begin' = Released(NewBegin(l), live[h])
    <3> DEFINE n == Lesser(live[h].filled, l.size)
               b == NewBlock(Start(l), l, n)
    <3>1. mapped /\ h \in MappedHandles /\ IsLive(h) /\ n \in Nat
      BY <1>0, <1>7, LiveBlock, LayoutAssumption DEF MappedResize, Lesser
    <3>2. live' = [live EXCEPT ![h] = b]
          /\ mem' \in [Address -> Handles \union {None}]
      BY <1>0, <2>1, CopiedType DEF Replace
    <3>3. /\ b \in Block /\ InMemory(h, b)
          /\ NewBegin(l) \in Address /\ Base <= NewBegin(l) /\ NewBegin(l) <= BufEnd
      BY <2>1, <3>1, GrantedInMemory
    <3>4. begin' \in Address /\ Base <= begin' /\ begin' <= BufEnd
      BY <2>1, <3>1, <3>3, ReleasedInRange
    <3> QED BY <2>1, <3>2, <3>3, <3>4, SystemReplaced
  <2> QED BY <1>1, <1>7, <2>1 DEF MappedResize
<1>8. ASSUME NEW h \in Handles, NEW l \in Layouts, HeapAllocate(h, l)
      PROVE  SystemInv'
  <2>1. ASSUME NEW p \in Places(l), live' = [live EXCEPT ![h] = NewBlock(p, l, 0)],
               UNCHANGED <<begin, mem, mapped>>
        PROVE  SystemInv'
    <3>1. NewBlock(p, l, 0) \in Block /\ InMemory(h, NewBlock(p, l, 0))
      BY <1>8, PlacesInHeap DEF HeapAllocate, InMemory
    <3> QED BY <1>0, <2>1, <3>1, SystemReplaced
  <2> QED BY <1>1, <1>8, <2>1 DEF HeapAllocate
<1>9. ASSUME NEW h \in Handles, NEW l \in Layouts, HeapResize(h, l)
      PROVE  SystemInv'
  <2>1. ASSUME NEW p \in Places(l), Replace(h, l, p), UNCHANGED <<begin, mapped>>
        PROVE  SystemInv'
    <3> DEFINE n == Lesser(live[h].filled, l.size)
               b == NewBlock(p, l, n)
    <3>1. h \in HeapHandles /\ IsLive(h) /\ n \in Nat
      BY <1>0, <1>9, LiveBlock, LayoutAssumption DEF HeapResize, Lesser
    <3>2. live' = [live EXCEPT ![h] = b]
          /\ mem' \in [Address -> Handles \union {None}]
      BY <1>0, <2>1, CopiedType DEF Replace
    <3>3. b \in Block /\ InMemory(h, b)
      BY <3>1, PlacesInHeap DEF InMemory
    <3> QED BY <1>0, <2>1, <3>2, <3>3, SystemReplaced
  <2> QED BY <1>1, <1>9, <2>1 DEF HeapResize
<1> QED
  BY <1>1, <1>2, <1>3, <1>4, <1>5, <1>6, <1>7, <1>8, <1>9 DEF SystemNext

\* The inductive invariant, for clients that borrow the allocator.
THEOREM SystemInductive == Low /\ Borrowed /\ SystemSpec => []SystemInv
<1>1. SystemInit => SystemInv
  <2> SUFFICES ASSUME SystemInit PROVE SystemInv
    OBVIOUS
  <2>1. TypeOK /\ Base <= begin /\ begin <= BufEnd
    BY AddressAssumption DEF SystemInit, Init, TypeOK, Address
  <2>2. mapped \in BOOLEAN /\ \A h \in Handles : ~IsLive(h)
    BY DEF SystemInit, Init, IsLive
  <2> QED BY <2>1, <2>2 DEF SystemInv
<1>2. Low /\ Borrowed => [](Low /\ Borrowed)
  <2>1. (Low /\ Borrowed) /\ [TRUE]_vars => (Low /\ Borrowed)'
    BY DEF Low
  <2> QED BY <2>1, PTL
<1> QED
  BY <1>1, <1>2, SystemStep, PTL DEF SystemSpec

\* Every block lies in the memory of the allocator it came from, and no block
\* of a VirtualMemoryAllocator outlives the mapping, if clients borrow it.
THEOREM InTheirMemory == Low /\ Borrowed /\ SystemSpec => []BlocksInTheirMemory
<1>1. SystemInv => BlocksInTheirMemory
  <2> SUFFICES ASSUME SystemInv, NEW h \in Handles, IsLive(h), h \notin HeapHandles
               PROVE  mapped /\ Bytes(live[h]) \subseteq Buffer
    BY DEF BlocksInTheirMemory, SystemInv, InMemory, MappedHandles
  <2>1. /\ live[h].ptr \in Nat /\ live[h].size \in Nat
        /\ Base \in Nat /\ BufEnd \in Nat
    BY LiveBlock, AddressAssumption DEF SystemInv, Address
  <2>2. mapped /\ Base <= live[h].ptr /\ End(live[h]) <= BufEnd
    BY DEF SystemInv, InMemory, WithinSlice, Placed
  <2> QED BY <2>1, <2>2 DEF Bytes, Buffer, End
<1> QED
  BY <1>1, SystemInductive, PTL

\* No request to the allocator over the mapping overflows its sums, however
\* often the mapping is made and dropped.
THEOREM SystemExact == Low /\ Borrowed /\ SystemSpec => []NoOverflow
<1>1. Low /\ SystemInv => NoOverflow
  BY ExactBelow DEF SystemInv, TypeOK
<1>2. Low => []Low
  <2>1. Low /\ [TRUE]_vars => Low'
    BY DEF Low
  <2> QED BY <2>1, PTL
<1> QED
  BY <1>1, <1>2, SystemInductive, PTL

-----------------------------------------------------------------------------
(* Blocks apart, aligned, with their data, and the contract.               *)

\* The clients these proofs are about: they borrow the VirtualMemoryAllocator,
\* its mapping lies low enough for the sums of allocate, and their layouts are
\* compatible, for any order of calls.
Clients == Borrowed /\ Low /\ Compatible /\ ~StackClient

\* A block of the VirtualMemoryAllocator ends at `begin' or below.
MappedBelowBegin ==
  \A h \in MappedHandles : IsLive(h) /\ live[h].size > 0 => End(live[h]) <= begin

HeldInv ==
  /\ SystemInv
  /\ LiveDisjoint
  /\ MappedBelowBegin
  /\ LiveAligned
  /\ \A h \in Handles : IsLive(h) => live[h].filled <= live[h].size /\ Intact(h)

-----------------------------------------------------------------------------
(* Runs of bytes.                                                          *)

\* Apart is what it takes to share no byte.
LEMMA ApartBytes ==
  ASSUME NEW b \in Block, NEW c \in Block
  PROVE  Bytes(b) \intersect Bytes(c) = {} <=> Apart(b, c)
<1>1. /\ b.ptr \in Nat /\ b.size \in Nat /\ c.ptr \in Nat /\ c.size \in Nat
      /\ End(b) = b.ptr + b.size /\ End(c) = c.ptr + c.size
  BY AddressAssumption DEF Block, Address, End
<1>2. ASSUME ~Apart(b, c)
      PROVE  Bytes(b) \intersect Bytes(c) # {}
  <2>1. b.size > 0 /\ c.size > 0 /\ c.ptr < End(b) /\ b.ptr < End(c)
    BY <1>1, <1>2 DEF Apart
  <2>2. CASE b.ptr <= c.ptr
    <3>1. c.ptr \in Bytes(b) /\ c.ptr \in Bytes(c)
      BY <1>1, <2>1, <2>2 DEF Bytes
    <3> QED BY <3>1
  <2>3. CASE c.ptr <= b.ptr
    <3>1. b.ptr \in Bytes(b) /\ b.ptr \in Bytes(c)
      BY <1>1, <2>1, <2>3 DEF Bytes
    <3> QED BY <3>1
  <2> QED BY <1>1, <2>2, <2>3
<1>3. ASSUME Apart(b, c)
      PROVE  Bytes(b) \intersect Bytes(c) = {}
  BY <1>1, <1>3 DEF Apart, Bytes
<1> QED BY <1>2, <1>3

\* The bytes of a block are addresses, the heap's or the mapping's.
LEMMA BytesIn ==
  ASSUME SystemInv, NEW h \in Handles, NEW b \in Block, InMemory(h, b)
  PROVE  /\ Bytes(b) \subseteq Address
         /\ h \in HeapHandles => Bytes(b) \subseteq Heap
         /\ h \notin HeapHandles => Bytes(b) \subseteq Buffer
<1>1. CASE h \in HeapHandles
  BY <1>1, HeapAssumption DEF InMemory
<1>2. CASE h \notin HeapHandles
  <2>1. /\ Base <= b.ptr /\ End(b) <= BufEnd /\ End(b) = b.ptr + b.size
        /\ b.ptr \in Nat /\ b.size \in Nat /\ Base \in Nat /\ BufEnd \in Nat
        /\ BufEnd < WordSize /\ WordSize \in Nat
    BY <1>2, AddressAssumption DEF InMemory, WithinSlice, Placed, Block, Address, End
  <2>2. Bytes(b) \subseteq Buffer
    BY <2>1 DEF Bytes, Buffer
  <2>3. Buffer \subseteq Address
    BY <2>1 DEF Buffer, Address
  <2> QED BY <1>2, <2>2, <2>3
<1> QED BY <1>1, <1>2

\* A live block is in its memory.
LEMMA LiveBytes ==
  ASSUME SystemInv, NEW h \in Handles, IsLive(h)
  PROVE  /\ live[h] \in Block /\ InMemory(h, live[h])
         /\ Bytes(live[h]) \subseteq Address
         /\ h \in HeapHandles => Bytes(live[h]) \subseteq Heap
         /\ h \notin HeapHandles => Bytes(live[h]) \subseteq Buffer
BY LiveBlock, BytesIn DEF SystemInv

\* Where a holder has data it has bytes.
LEMMA DataInBytes ==
  ASSUME HeldInv, NEW g \in Handles, IsLive(g),
         NEW a \in live[g].ptr .. live[g].ptr + live[g].filled - 1
  PROVE  a \in Bytes(live[g]) /\ a \in Address /\ mem[a] = g
<1>1. /\ live[g].ptr \in Nat /\ live[g].size \in Nat /\ live[g].filled \in Nat
      /\ live[g].filled <= live[g].size
  BY LiveBlock DEF HeldInv, SystemInv
<1>2. a \in Bytes(live[g])
  BY <1>1 DEF Bytes, End
<1>3. a \in Address
  BY <1>2, LiveBytes DEF HeldInv
<1> QED BY <1>2, <1>3 DEF HeldInv, Intact

-----------------------------------------------------------------------------
(* One block replaced by another, or by none.                              *)

\* What the new block has to be, and h's data in it.
Fresh(h, b) ==
  /\ b \in Block
  /\ \A g \in Handles \ {h} : IsLive(g) => Bytes(live[g]) \intersect Bytes(b) = {}
  /\ b.ptr % b.align = 0
  /\ b.filled <= b.size

LEMMA HeldReplaced ==
  ASSUME HeldInv, SystemInv', NEW h \in Handles, NEW b,
         live' = [live EXCEPT ![h] = b],
         b # None => /\ Fresh(h, b)
                     /\ h \in MappedHandles /\ b.size > 0 => End(b) <= begin'
                     /\ \A a \in b.ptr .. b.ptr + b.filled - 1 :
                          a \in Address => mem'[a] = h,
         \A g \in MappedHandles \ {h} :
           IsLive(g) /\ live[g].size > 0 => End(live[g]) <= begin',
         \A g \in Handles \ {h} : IsLive(g) =>
           \A a \in live[g].ptr .. live[g].ptr + live[g].filled - 1 : mem'[a] = g
  PROVE  HeldInv'
<1>1. live'[h] = b /\ \A g \in Handles \ {h} : live'[g] = live[g]
  BY DEF HeldInv, SystemInv, TypeOK
<1>2. LiveDisjoint'
  <2> SUFFICES ASSUME NEW g \in Handles, NEW k \in Handles, g # k,
                      live'[g] # None, live'[k] # None
               PROVE  Bytes(live'[g]) \intersect Bytes(live'[k]) = {}
    BY DEF LiveDisjoint, IsLive, Bytes, End
  <2>1. CASE g # h /\ k # h
    BY <1>1, <2>1 DEF HeldInv, LiveDisjoint, IsLive
  <2>2. CASE k = h
    BY <1>1, <2>2 DEF Fresh, IsLive
  <2>3. CASE g = h
    BY <1>1, <2>3 DEF Fresh, IsLive
  <2> QED BY <2>1, <2>2, <2>3
<1>3. MappedBelowBegin'
  BY <1>1 DEF MappedBelowBegin, MappedHandles, IsLive, End
<1>4. LiveAligned'
  BY <1>1 DEF HeldInv, LiveAligned, IsLive, Fresh
<1>5. ASSUME NEW g \in Handles, IsLive(g)'
      PROVE  (live[g].filled <= live[g].size /\ Intact(g))'
  <2>1. CASE g = h
    BY <1>1, <1>5, <2>1 DEF IsLive, Intact, Fresh
  <2>2. CASE g # h
    BY <1>1, <1>5, <2>2 DEF IsLive, HeldInv, Intact
  <2> QED BY <2>1, <2>2
<1> QED BY <1>2, <1>3, <1>4, <1>5 DEF HeldInv

\* Forgetting what h has outside a range is no loss to another holder.
LEMMA OthersKept ==
  ASSUME HeldInv, NEW h \in Handles, NEW p, NEW n, mem' = Kept(h, p, n),
         NEW g \in Handles \ {h}, IsLive(g),
         NEW a \in live[g].ptr .. live[g].ptr + live[g].filled - 1
  PROVE  mem'[a] = g
BY DataInBytes DEF Kept

\* What Replace copies is all h has that fits the new block, and it overwrites
\* nobody when the new block is apart from the others.
LEMMA ReplacedData ==
  ASSUME HeldInv, NEW h \in Handles, IsLive(h), NEW l \in Layouts,
         NEW p \in Address, NEW b,
         b = NewBlock(p, l, Lesser(live[h].filled, l.size)),
         \A g \in Handles \ {h} : IsLive(g) => Bytes(live[g]) \intersect Bytes(b) = {},
         mem' = Copied(h, live[h].ptr, p, Lesser(live[h].size, l.size))
  PROVE  /\ b \in Block /\ b.ptr = p /\ b.size = l.size /\ b.align = l.align
         /\ b.filled <= b.size
         /\ \A a \in b.ptr .. b.ptr + b.filled - 1 : a \in Address => mem'[a] = h
         /\ \A g \in Handles \ {h} : IsLive(g) =>
              \A a \in live[g].ptr .. live[g].ptr + live[g].filled - 1 : mem'[a] = g
<1> DEFINE old == live[h]
           n == Lesser(old.size, l.size)
<1>1. /\ p \in Nat /\ old.ptr \in Nat /\ old.size \in Nat /\ old.filled \in Nat
      /\ old.filled <= old.size /\ l.size \in Nat
  BY LiveBlock, LayoutAssumption, AddressAssumption DEF HeldInv, SystemInv, Address
<1>2. /\ b.ptr = p /\ b.size = l.size /\ b.align = l.align
      /\ b.filled \in Nat /\ b.filled <= l.size /\ b.filled <= old.filled
      /\ n \in Nat /\ b.filled <= n /\ n <= l.size
  BY <1>1 DEF NewBlock, Lesser
<1>3. b \in Block
  <2>1. Lesser(old.filled, l.size) \in Nat
    BY <1>1 DEF Lesser
  <2> QED BY <2>1, NewBlockType
<1>4. ASSUME NEW a \in b.ptr .. b.ptr + b.filled - 1, a \in Address
      PROVE  mem'[a] = h
  <2> DEFINE c == old.ptr + (a - p)
  <2>1. a \in p .. p + n - 1 /\ c \in old.ptr .. old.ptr + old.filled - 1
    BY <1>1, <1>2
  <2>2. c \in Address /\ mem[c] = h
    BY <2>1, DataInBytes
  <2> QED BY <1>4, <2>1, <2>2 DEF Copied
<1>5. ASSUME NEW g \in Handles \ {h}, IsLive(g),
             NEW a \in live[g].ptr .. live[g].ptr + live[g].filled - 1
      PROVE  mem'[a] = g
  <2>1. a \in Bytes(live[g]) /\ a \in Address /\ mem[a] = g
    BY <1>5, DataInBytes
  <2>2. a \notin Bytes(b)
    BY <1>5, <2>1
  <2>3. a \notin p .. p + n - 1
    BY <1>1, <1>2, <2>2 DEF Bytes, End
  <2> QED BY <2>1, <2>3 DEF Copied
<1> QED BY <1>2, <1>3, <1>4, <1>5

-----------------------------------------------------------------------------
(* The two sources of new blocks.                                          *)

\* p aligned for libc is aligned for the layout.
LEMMA MallocAligned ==
  ASSUME NEW l \in Layouts, NEW p \in Nat, p % MallocAlign(l) = 0
  PROVE  p % l.align = 0
<1> DEFINE A == l.align
           P == PtrAlign
           M == MallocAlign(l)
<1>1. A \in Nat \ {0} /\ P \in Nat \ {0} /\ (A % P = 0 \/ P % A = 0)
  BY LayoutAssumption, HeapAssumption
<1>2. ASSUME NEW x \in Nat, NEW n \in Nat \ {0}, x % n = 0
      PROVE  \E q \in Nat : x = n * q
  <2>1. x = n * (x \div n) + (x % n) /\ x \div n \in Nat
    BY <1>2
  <2> QED BY <1>2, <2>1
<1>3. ASSUME NEW n \in Nat \ {0}, NEW q \in Nat
      PROVE  (n * q) % n = 0
  OBVIOUS
\* The alignment asked for divides the one libc is asked for.
<1>4. PICK k \in Nat : M = A * k /\ M # 0
  <2>1. CASE A % P = 0
    <3>1. PICK q \in Nat : A = P * q
      BY <1>1, <1>2, <2>1
    <3>2. (A + P - 1) \div P = q
      BY <1>1, <3>1
    <3>3. M = q * P
      BY <3>2 DEF MallocAlign
    <3>4. M = A * 1
      BY <1>1, <3>1, <3>3
    <3> QED BY <1>1, <3>4
  <2>2. CASE P % A = 0
    <3>1. PICK q \in Nat : P = A * q
      BY <1>1, <1>2, <2>2
    <3>2. A <= P
      BY <1>1, <3>1
    <3>3. (A + P - 1) \div P = 1
      BY <1>1, <3>2
    <3>4. M = P
      BY <1>1, <3>3 DEF MallocAlign
    <3> QED BY <1>1, <3>1, <3>4
  <2> QED BY <1>1, <2>1, <2>2
<1>5. PICK j \in Nat : p = M * j
  <2>1. M \in Nat \ {0}
    BY <1>1, <1>4
  <2> QED BY <1>2, <2>1
<1>6. p = A * (k * j) /\ k * j \in Nat
  BY <1>1, <1>4, <1>5
<1> QED BY <1>1, <1>3, <1>6

\* What libc answers is aligned and apart from every block there is.
LEMMA PlacesFresh ==
  ASSUME NEW h \in HeapHandles, NEW l \in Layouts, NEW p \in Places(l),
         NEW n \in Nat, n <= l.size
  PROVE  Fresh(h, NewBlock(p, l, n))
<1> DEFINE b == NewBlock(p, l, n)
<1>1. b.ptr = p /\ b.size = l.size /\ b.align = l.align /\ b.filled = n
  BY DEF NewBlock
<1>2. p \in Nat
  BY HeapAssumption, AddressAssumption DEF Places, Address
<1>3. b.ptr % b.align = 0
  BY <1>1, <1>2, MallocAligned DEF Places
<1>4. Bytes(b) = p .. p + l.size - 1
  BY <1>1, <1>2, LayoutAssumption DEF Bytes, End
<1>5. \A g \in Handles : IsLive(g) => Bytes(live[g]) \intersect Bytes(b) = {}
  BY <1>4 DEF Places
<1>6. b \in Block
  BY PlacesInHeap
<1> QED BY <1>1, <1>3, <1>5, <1>6 DEF Fresh

\* What the FixedBufferAllocator grants starts at `begin' or above, aligned,
\* and apart from every block there is.
LEMMA GrantedFresh ==
  ASSUME HeldInv, Clients, mapped, NEW h \in MappedHandles, NEW l \in Layouts,
         Fits(l), NEW n \in Nat, n <= l.size
  PROVE  /\ Fresh(h, NewBlock(Start(l), l, n))
         /\ InMemory(h, NewBlock(Start(l), l, n))
         /\ Start(l) \in Address /\ NewBegin(l) \in Address
         /\ begin <= Start(l) /\ NewBegin(l) = Start(l) + l.size
         /\ \A g \in MappedHandles :
              IsLive(g) => Apart(live[g], NewBlock(Start(l), l, n))
<1> DEFINE b == NewBlock(Start(l), l, n)
<1>1. /\ b.ptr = Start(l) /\ b.size = l.size /\ b.align = l.align
      /\ b.filled = n
  BY DEF NewBlock
<1>2. b \in Block /\ InMemory(h, b)
  BY GrantedInMemory DEF HeldInv, Clients
<1>3. /\ begin \in Address /\ begin \in Nat /\ begin <= BufEnd
      /\ BufEnd \in Nat /\ WordSize \in Nat
      /\ l.size \in Nat /\ l.align \in Nat
  BY AddressAssumption, LayoutAssumption DEF HeldInv, SystemInv, TypeOK, Address
<1>4. begin + l.size + l.align <= WordSize
  BY <1>3 DEF Clients, Low
<1>5. /\ Start(l) \in Address /\ Start(l) \in Nat /\ begin <= Start(l)
      /\ NewBegin(l) = Start(l) + l.size /\ NewBegin(l) \in Address
  BY <1>3, <1>4, NoWrapBelow
<1>6. b.ptr % b.align = 0
  BY <1>1, <1>3, StartAligned
<1>7. ASSUME NEW g \in MappedHandles, IsLive(g)
      PROVE  Apart(live[g], b)
  <2>1. /\ live[g].ptr \in Nat /\ live[g].size \in Nat
        /\ live[g].size > 0 => End(live[g]) <= begin
    BY <1>7, LiveBlock DEF HeldInv, SystemInv, MappedBelowBegin, MappedHandles
  <2> QED BY <1>1, <1>3, <1>5, <2>1 DEF Apart, End
<1>8. ASSUME NEW g \in Handles \ {h}, IsLive(g)
      PROVE  Bytes(live[g]) \intersect Bytes(b) = {}
  <2>1. CASE g \in HeapHandles
    <3>1. Bytes(live[g]) \subseteq Heap
      BY <1>8, <2>1, LiveBytes DEF HeldInv
    <3>2. Bytes(b) \subseteq Buffer
      BY <1>2, BytesIn DEF HeldInv, MappedHandles
    <3> QED BY <3>1, <3>2, HeapAssumption
  <2>2. CASE g \notin HeapHandles
    <3>1. Apart(live[g], b) /\ live[g] \in Block
      BY <1>7, <1>8, <2>2, LiveBytes DEF MappedHandles, HeldInv
    <3> QED BY <1>2, <3>1, ApartBytes
  <2> QED BY <2>1, <2>2
<1> QED BY <1>1, <1>2, <1>5, <1>6, <1>7, <1>8 DEF Fresh

\* Where deallocate leaves `begin', no block of the VirtualMemoryAllocator but
\* the released one is above it.
LEMMA ReleasedAbove ==
  ASSUME HeldInv, Clients, NEW h \in MappedHandles, IsLive(h),
         NEW x \in Address, live[h].size > 0 => End(live[h]) <= x,
         NEW c \in Block, Placed(c), c.size > 0, End(c) <= x, Apart(c, live[h])
  PROVE  End(c) <= Released(x, live[h])
<1>1. live[h] \in Block /\ Placed(live[h])
  BY LiveBytes DEF HeldInv, MappedHandles, InMemory, WithinSlice
<1>2. IF live[h].size = 0 THEN live[h].align = 1 ELSE live[h].align <= c.size
  BY <1>1, CompatibleBlocks DEF Clients
<1>3. CASE IsLast(x, live[h])
  BY <1>1, <1>2, <1>3, LastIsAbove DEF Released
<1> QED BY <1>3 DEF Released

\* So for the other blocks, whether `begin' was moved up before or not.
LEMMA OthersBelow ==
  ASSUME HeldInv, Clients, NEW h \in MappedHandles, IsLive(h),
         NEW x \in Address, begin <= x,
         NEW g \in MappedHandles \ {h}, IsLive(g), live[g].size > 0
  PROVE  End(live[g]) <= Released(x, live[h])
<1>1. /\ live[g] \in Block /\ live[h] \in Block /\ Placed(live[g])
      /\ x \in Nat /\ begin \in Nat
      /\ End(live[g]) \in Nat /\ End(live[h]) \in Nat
  <2>1. live[g] \in Block /\ live[h] \in Block /\ InMemory(g, live[g])
    BY LiveBytes DEF HeldInv, MappedHandles
  <2>2. Placed(live[g])
    BY <2>1 DEF MappedHandles, InMemory, WithinSlice
  <2>3. x \in Nat /\ begin \in Nat
    BY AddressAssumption DEF HeldInv, SystemInv, TypeOK, Address
  <2>4. \A c \in Block : End(c) \in Nat
    BY AddressAssumption DEF Block, Address, End
  <2> QED BY <2>1, <2>2, <2>3, <2>4
<1>2. End(live[g]) <= begin /\ (live[h].size > 0 => End(live[h]) <= begin)
  BY DEF HeldInv, MappedBelowBegin
<1>3. Apart(live[g], live[h])
  BY <1>1, ApartBytes DEF HeldInv, LiveDisjoint, MappedHandles
<1>4. End(live[g]) <= x /\ (live[h].size > 0 => End(live[h]) <= x)
  BY <1>1, <1>2
<1> QED BY <1>1, <1>3, <1>4, ReleasedAbove

-----------------------------------------------------------------------------
(* One lemma per way a block changes.                                      *)

\* The mapping goes with what was in it, and nothing else.
LEMMA DropHolds ==
  ASSUME HeldInv, SystemInv', Clients, Drop
  PROVE  HeldInv'
<1>1. /\ \A h \in MappedHandles : ~IsLive(h)
      /\ live' = live /\ begin' = begin /\ mem' = Unmapped
  BY DEF Drop, Clients
<1>2. ASSUME NEW h \in Handles, IsLive(h)
      PROVE  Intact(h)'
  <2>1. h \in HeapHandles
    BY <1>1, <1>2 DEF MappedHandles
  <2>2. ASSUME NEW a \in live[h].ptr .. live[h].ptr + live[h].filled - 1
        PROVE  mem'[a] = h
    <3>1. a \in Heap /\ a \in Address /\ mem[a] = h
      BY <1>2, <2>1, <2>2, DataInBytes, LiveBytes DEF HeldInv
    <3>2. a \notin Buffer
      BY <3>1, HeapAssumption
    <3> QED BY <1>1, <3>1, <3>2 DEF Unmapped
  <2> QED BY <1>1, <2>2 DEF Intact
<1>3. LiveDisjoint' /\ MappedBelowBegin' /\ LiveAligned'
  BY <1>1
  DEF HeldInv, LiveDisjoint, MappedBelowBegin, LiveAligned, IsLive, Bytes, End
<1> QED BY <1>1, <1>2, <1>3 DEF HeldInv, IsLive

\* A block that goes, given back or forgotten.
LEMMA ReleaseHolds ==
  ASSUME HeldInv, SystemInv', Clients, NEW h \in Handles,
         MappedDeallocate(h) \/ HeapDeallocate(h) \/ Forget(h)
  PROVE  HeldInv'
<1>1. /\ IsLive(h) /\ live' = [live EXCEPT ![h] = None]
      /\ mem' = Kept(h, live[h].ptr, 0)
      /\ \/ begin' = begin
         \/ h \in MappedHandles /\ begin' = Released(begin, live[h])
  <2>1. CASE MappedDeallocate(h)
    BY <2>1 DEF MappedDeallocate
  <2>2. CASE HeapDeallocate(h)
    BY <2>2 DEF HeapDeallocate
  <2>3. CASE Forget(h)
    BY <2>3 DEF Forget
  <2> QED BY <2>1, <2>2, <2>3
<1>2. begin \in Address /\ begin <= begin
  BY AddressAssumption DEF HeldInv, SystemInv, TypeOK, Address
<1>3. ASSUME NEW g \in MappedHandles \ {h}, IsLive(g), live[g].size > 0
      PROVE  End(live[g]) <= begin'
  <2>1. CASE begin' = begin
    BY <1>3, <2>1 DEF HeldInv, MappedBelowBegin
  <2>2. CASE h \in MappedHandles /\ begin' = Released(begin, live[h])
    BY <1>1, <1>2, <1>3, <2>2, OthersBelow
  <2> QED BY <1>1, <2>1, <2>2
<1>4. \A g \in Handles \ {h} : IsLive(g) =>
        \A a \in live[g].ptr .. live[g].ptr + live[g].filled - 1 : mem'[a] = g
  BY <1>1, OthersKept
<1> QED BY <1>1, <1>3, <1>4, HeldReplaced

\* The holder stores data in its own block and no other.
LEMMA FillHolds ==
  ASSUME HeldInv, SystemInv', NEW h \in Handles, Fill(h)
  PROVE  HeldInv'
<1> DEFINE b == [live[h] EXCEPT !.filled = live[h].size]
<1>1. /\ IsLive(h) /\ begin' = begin /\ live' = [live EXCEPT ![h] = b]
      /\ mem' = Stored(h, live[h].ptr, live[h].size)
  BY DEF Fill, Write, HeldInv, SystemInv, TypeOK
<1>2. /\ b \in Block /\ b.ptr = live[h].ptr /\ b.size = live[h].size
      /\ b.align = live[h].align /\ b.filled = live[h].size
      /\ live[h].ptr \in Nat /\ live[h].size \in Nat
  BY <1>1, LiveBlock DEF HeldInv, SystemInv, Block
<1>3. Bytes(b) = Bytes(live[h]) /\ Bytes(b) = b.ptr .. b.ptr + b.filled - 1
  BY <1>2 DEF Bytes, End
<1>4. /\ \A g \in Handles \ {h} :
           IsLive(g) => Bytes(live[g]) \intersect Bytes(b) = {}
      /\ b.ptr % b.align = 0 /\ b.filled <= b.size
  <2>1. \A g \in Handles \ {h} :
          IsLive(g) => Bytes(live[g]) \intersect Bytes(live[h]) = {}
    BY <1>1 DEF HeldInv, LiveDisjoint
  <2>2. live[h].ptr % live[h].align = 0
    BY <1>1 DEF HeldInv, LiveAligned
  <2>3. b.filled <= b.size
    BY <1>2
  <2> HIDE DEF b
  <2> QED BY <1>2, <1>3, <2>1, <2>2, <2>3
<1>5. Fresh(h, b)
  BY <1>2, <1>4 DEF Fresh
<1>6. h \in MappedHandles /\ b.size > 0 => End(b) <= begin'
  BY <1>1, <1>2 DEF HeldInv, MappedBelowBegin, End
<1>7. \A a \in b.ptr .. b.ptr + b.filled - 1 : a \in Address => mem'[a] = h
  BY <1>1, <1>2 DEF Stored
<1>8. ASSUME NEW g \in Handles \ {h}, IsLive(g),
             NEW a \in live[g].ptr .. live[g].ptr + live[g].filled - 1
      PROVE  mem'[a] = g
  <2>1. a \in Bytes(live[g]) /\ a \in Address /\ mem[a] = g
    BY <1>8, DataInBytes
  <2>2. a \notin live[h].ptr .. live[h].ptr + live[h].size - 1
    BY <1>2, <1>3, <1>4, <1>8, <2>1
  <2> QED BY <1>1, <2>1, <2>2 DEF Stored
<1>9. \A g \in MappedHandles \ {h} :
        IsLive(g) /\ live[g].size > 0 => End(live[g]) <= begin'
  BY <1>1 DEF HeldInv, MappedBelowBegin
<1> HIDE DEF b
<1> QED BY <1>1, <1>5, <1>6, <1>7, <1>8, <1>9, HeldReplaced

\* A new block, with nothing in it yet.
LEMMA AllocateHolds ==
  ASSUME HeldInv, SystemInv', NEW h \in Handles, NEW b, Fresh(h, b),
         b.filled = 0, live' = [live EXCEPT ![h] = b], mem' = mem,
         begin \in Nat, begin' \in Nat, begin <= begin',
         h \in MappedHandles /\ b.size > 0 => End(b) <= begin'
  PROVE  HeldInv'
<1>1. \A a \in b.ptr .. b.ptr + b.filled - 1 : a \in Address => mem'[a] = h
  BY AddressAssumption DEF Fresh, Block, Address
<1>2. \A g \in Handles \ {h} : IsLive(g) =>
        \A a \in live[g].ptr .. live[g].ptr + live[g].filled - 1 : mem'[a] = g
  BY DataInBytes
<1>3. ASSUME NEW g \in MappedHandles \ {h}, IsLive(g), live[g].size > 0
      PROVE  End(live[g]) <= begin'
  <2>1. End(live[g]) <= begin /\ End(live[g]) \in Nat
    BY <1>3, LiveBlock DEF HeldInv, SystemInv, MappedBelowBegin, MappedHandles, End
  <2> QED BY <2>1
<1> QED BY <1>1, <1>2, <1>3, HeldReplaced

\* core's default grow and shrink on libc's memory.
LEMMA HeapResizeHolds ==
  ASSUME HeldInv, SystemInv', NEW h \in HeapHandles, IsLive(h),
         NEW l \in Layouts, NEW p \in Places(l), Replace(h, l, p), begin' = begin
  PROVE  HeldInv'
<1> DEFINE b == NewBlock(p, l, Lesser(live[h].filled, l.size))
<1>1. /\ h \in Handles /\ p \in Address
      /\ Lesser(live[h].filled, l.size) \in Nat
      /\ Lesser(live[h].filled, l.size) <= l.size
  BY LiveBlock, LayoutAssumption, HeapAssumption, AddressAssumption
  DEF HeldInv, SystemInv, Places, Lesser, Address
<1>2. Fresh(h, b)
  BY <1>1, PlacesFresh
<1>3. /\ live' = [live EXCEPT ![h] = b]
      /\ mem' = Copied(h, live[h].ptr, p, Lesser(live[h].size, l.size))
  BY DEF Replace
<1> HIDE DEF b
<1>4. /\ \A a \in b.ptr .. b.ptr + b.filled - 1 : a \in Address => mem'[a] = h
      /\ \A g \in Handles \ {h} : IsLive(g) =>
           \A a \in live[g].ptr .. live[g].ptr + live[g].filled - 1 : mem'[a] = g
  <2>1. \A g \in Handles \ {h} : IsLive(g) => Bytes(live[g]) \intersect Bytes(b) = {}
    BY <1>2 DEF Fresh
  <2> QED BY <1>1, <1>3, <2>1, ReplacedData DEF b
<1>5. h \notin MappedHandles
  BY DEF MappedHandles
<1>6. \A g \in MappedHandles \ {h} :
        IsLive(g) /\ live[g].size > 0 => End(live[g]) <= begin'
  BY DEF HeldInv, MappedBelowBegin
<1> QED BY <1>1, <1>2, <1>3, <1>4, <1>5, <1>6, HeldReplaced

\* The same over the mapping: the old block may pass for the last one once the
\* new one is there, and then nothing that is held lies above it.
LEMMA MappedResizeHolds ==
  ASSUME HeldInv, SystemInv', Clients, mapped, NEW h \in MappedHandles, IsLive(h),
         NEW l \in Layouts, Fits(l), Replace(h, l, Start(l)),
         begin' = Released(NewBegin(l), live[h])
  PROVE  HeldInv'
<1> DEFINE b == NewBlock(Start(l), l, Lesser(live[h].filled, l.size))
<1>1. /\ h \in Handles /\ l.size \in Nat
      /\ Lesser(live[h].filled, l.size) \in Nat
      /\ Lesser(live[h].filled, l.size) <= l.size
  BY LiveBlock, LayoutAssumption DEF HeldInv, SystemInv, Lesser, MappedHandles
<1>2. /\ Fresh(h, b) /\ InMemory(h, b)
      /\ Start(l) \in Address /\ NewBegin(l) \in Address
      /\ begin <= Start(l) /\ NewBegin(l) = Start(l) + l.size
      /\ Apart(live[h], b)
  BY <1>1, GrantedFresh
<1>3. /\ live' = [live EXCEPT ![h] = b] /\ b.ptr = Start(l) /\ b.size = l.size
      /\ mem' = Copied(h, live[h].ptr, Start(l), Lesser(live[h].size, l.size))
  BY DEF Replace, NewBlock
<1>4. /\ \A a \in b.ptr .. b.ptr + b.filled - 1 : a \in Address => mem'[a] = h
      /\ \A g \in Handles \ {h} : IsLive(g) =>
           \A a \in live[g].ptr .. live[g].ptr + live[g].filled - 1 : mem'[a] = g
  <2>1. \A g \in Handles \ {h} : IsLive(g) => Bytes(live[g]) \intersect Bytes(b) = {}
    BY <1>2 DEF Fresh
  <2> QED BY <1>1, <1>2, <1>3, <2>1, ReplacedData
<1> HIDE DEF b
<1>5. /\ begin \in Nat /\ Start(l) \in Nat /\ begin <= NewBegin(l)
      /\ NewBegin(l) \in Nat /\ End(b) = NewBegin(l)
      /\ live[h].size > 0 => End(live[h]) <= NewBegin(l)
  <2>1. begin \in Nat /\ Start(l) \in Nat
    BY <1>2, AddressAssumption DEF HeldInv, SystemInv, TypeOK, Address
  <2>2. begin <= NewBegin(l) /\ NewBegin(l) \in Nat /\ End(b) = NewBegin(l)
    BY <1>1, <1>2, <1>3, <2>1 DEF End
  <2>3. live[h].size > 0 => End(live[h]) <= begin /\ End(live[h]) \in Nat
    BY <1>1, LiveBlock DEF HeldInv, SystemInv, MappedBelowBegin, End
  <2> QED BY <2>1, <2>2, <2>3
<1>6. b.size > 0 => End(b) <= begin'
  <2>1. Placed(b) /\ b \in Block
    BY <1>2 DEF InMemory, WithinSlice, MappedHandles, Fresh
  <2>2. Apart(b, live[h])
    BY <1>2 DEF Apart
  <2>3. End(b) <= NewBegin(l)
    BY <1>5
  <2> QED BY <1>2, <1>5, <2>1, <2>2, <2>3, ReleasedAbove
<1>7. \A g \in MappedHandles \ {h} :
        IsLive(g) /\ live[g].size > 0 => End(live[g]) <= begin'
  BY <1>2, <1>5, OthersBelow
<1> QED BY <1>1, <1>2, <1>3, <1>4, <1>6, <1>7, HeldReplaced

-----------------------------------------------------------------------------
(* The theorems.                                                           *)

\* Every step of the two allocators and their clients keeps the invariant.
LEMMA HeldStep ==
  ASSUME Clients, HeldInv, SystemInv', [SystemNext]_systemVars
  PROVE  HeldInv'
<1>0. /\ begin \in Address /\ begin \in Nat /\ begin <= begin
      /\ begin' \in Nat
  BY AddressAssumption DEF HeldInv, SystemInv, TypeOK, Address
<1>1. CASE UNCHANGED systemVars
  BY <1>1
  DEF systemVars, HeldInv, LiveDisjoint, MappedBelowBegin, LiveAligned, IsLive,
      Intact, Bytes, End
<1>2. CASE Create
  <2>1. CASE mapped' = TRUE /\ begin' = Base /\ UNCHANGED <<live, mem>> /\ ~mapped
    <3>1. \A h \in MappedHandles : ~IsLive(h)
      BY <2>1 DEF HeldInv, SystemInv, InMemory, MappedHandles
    <3> QED
      BY <2>1, <3>1
      DEF HeldInv, LiveDisjoint, MappedBelowBegin, LiveAligned, IsLive, Intact,
          Bytes, End
  <2> QED BY <1>1, <1>2, <2>1 DEF Create, Mappings
<1>3. CASE Drop
  BY <1>3, DropHolds
<1>4. ASSUME NEW h \in Handles, MappedDeallocate(h) \/ HeapDeallocate(h) \/ Forget(h)
      PROVE  HeldInv'
  BY <1>4, ReleaseHolds
<1>5. ASSUME NEW h \in Handles, Fill(h)
      PROVE  HeldInv'
  BY <1>5, FillHolds
<1>6. ASSUME NEW h \in Handles, NEW l \in Layouts, MappedAllocate(h, l)
      PROVE  HeldInv'
  <2> DEFINE b == NewBlock(Start(l), l, 0)
  <2>1. CASE Fits(l) /\ begin' = NewBegin(l) /\ mem' = mem
             /\ live' = [live EXCEPT ![h] = b]
    <3>1. mapped /\ h \in MappedHandles /\ 0 \in Nat /\ l.size \in Nat /\ 0 <= l.size
      BY <1>6, LayoutAssumption DEF MappedAllocate
    <3>2. /\ Fresh(h, b) /\ begin <= Start(l) /\ Start(l) \in Address
          /\ NewBegin(l) = Start(l) + l.size
      BY <2>1, <3>1, GrantedFresh
    <3>3. b.filled = 0 /\ b.ptr = Start(l) /\ b.size = l.size
      BY DEF NewBlock
    <3> HIDE DEF b
    <3>4. begin <= begin' /\ End(b) <= begin'
      BY <1>0, <2>1, <3>1, <3>2, <3>3, AddressAssumption DEF Address, End
    <3> QED BY <1>0, <2>1, <3>2, <3>3, <3>4, AllocateHolds
  <2> QED
    BY <1>1, <1>6, <2>1 DEF MappedAllocate, Allocate, vars, systemVars
<1>7. ASSUME NEW h \in Handles, NEW l \in Layouts, MappedResize(h, l)
      PROVE  HeldInv'
  BY <1>1, <1>7, MappedResizeHolds DEF MappedResize
<1>8. ASSUME NEW h \in Handles, NEW l \in Layouts, HeapAllocate(h, l)
      PROVE  HeldInv'
  <2>1. ASSUME NEW p \in Places(l), live' = [live EXCEPT ![h] = NewBlock(p, l, 0)],
               UNCHANGED <<begin, mem, mapped>>
        PROVE  HeldInv'
    <3> DEFINE b == NewBlock(p, l, 0)
    <3>1. /\ h \in HeapHandles /\ 0 \in Nat /\ 0 <= l.size /\ h \notin MappedHandles
      BY <1>8, LayoutAssumption DEF HeapAllocate, MappedHandles
    <3>2. Fresh(h, b) /\ b.filled = 0
      BY <3>1, PlacesFresh DEF NewBlock
    <3> HIDE DEF b
    <3> QED BY <1>0, <2>1, <3>1, <3>2, AllocateHolds DEF b
  <2> QED BY <1>1, <1>8, <2>1 DEF HeapAllocate
<1>9. ASSUME NEW h \in Handles, NEW l \in Layouts, HeapResize(h, l)
      PROVE  HeldInv'
  BY <1>1, <1>9, HeapResizeHolds DEF HeapResize
<1> QED
  BY <1>1, <1>2, <1>3, <1>4, <1>5, <1>6, <1>7, <1>8, <1>9 DEF SystemNext

\* The inductive invariant of both allocators together.
THEOREM SystemHeld == Clients /\ SystemSpec => []HeldInv
<1>1. SystemInit /\ SystemInv => HeldInv
  BY DEF SystemInit, Init, HeldInv, LiveDisjoint, MappedBelowBegin, LiveAligned,
         IsLive, MappedHandles
<1>2. Clients => []Clients
  <2>1. Clients /\ [TRUE]_vars => Clients'
    BY DEF Clients, Low, Compatible
  <2> QED BY <2>1, PTL
<1>3. Clients => Low /\ Borrowed
  BY DEF Clients
<1> QED
  BY <1>1, <1>2, <1>3, HeldStep, SystemInductive, PTL DEF SystemSpec

\* What a client wrote in a block of either allocator is still there until it
\* releases it: through the calls of the others, the copies of its own resizes,
\* and mappings that come and go.
THEOREM SystemIntact == Clients /\ SystemSpec => []DataIntact
<1>1. HeldInv => DataIntact
  BY DEF HeldInv, DataIntact, Intact
<1> QED BY <1>1, SystemHeld, PTL

\* Every block of either allocator has the alignment of its layout: rounding it
\* up to that of a pointer for libc keeps what was asked for.
THEOREM SystemAligned == Clients /\ SystemSpec => []LiveAligned
<1>1. HeldInv => LiveAligned
  BY DEF HeldInv
<1> QED BY <1>1, SystemHeld, PTL

\* A new block with no byte of another's is one the contract lets be granted.
LEMMA FreshIsGrantable ==
  ASSUME HeldInv, HeldInv', NEW h \in Handles, NEW l \in Layouts,
         NEW p \in Address, NEW n \in Nat,
         live' = [live EXCEPT ![h] = NewBlock(p, l, n)]
  PROVE  System!Grantable(h, l, p)
<1> DEFINE b == NewBlock(p, l, n)
<1>1. /\ live'[h] = b /\ b.ptr = p /\ b.size = l.size /\ b.align = l.align
      /\ \A g \in Handles \ {h} : live'[g] = live[g]
  BY DEF HeldInv, SystemInv, TypeOK, NewBlock
<1>2. b # None /\ b \in Block /\ p \in Nat /\ l.size \in Nat
  BY NewBlockType, ClientAssumption, LayoutAssumption, AddressAssumption
  DEF Address
<1>3. Bytes(b) = p .. p + l.size - 1
  BY <1>1, <1>2 DEF Bytes, End
<1> HIDE DEF b
<1>4. p % l.align = 0
  BY <1>1, <1>2 DEF HeldInv, LiveAligned, IsLive
<1>5. Bytes(b) \subseteq Buffer \union Heap
  <2>1. InMemory(h, b)'
    BY <1>1, <1>2 DEF HeldInv, SystemInv, IsLive, InMemory, WithinSlice, Placed,
                      Bytes, End
  <2>3. CASE h \in HeapHandles
    BY <2>1, <2>3 DEF InMemory, Bytes, End
  <2>4. CASE h \notin HeapHandles
    <3>1. Base <= b.ptr /\ End(b) <= BufEnd
      BY <2>1, <2>4 DEF InMemory, WithinSlice, Placed, End
    <3>2. Base \in Nat /\ BufEnd \in Nat
      BY AddressAssumption DEF Address
    <3> QED BY <1>1, <1>2, <3>1, <3>2 DEF Bytes, Buffer, End
  <2> QED BY <2>3, <2>4
<1>6. ASSUME NEW g \in Handles \ {h}, live[g] # None
      PROVE  Bytes(b) \intersect (live[g].ptr .. live[g].ptr + live[g].size - 1) = {}
  <2>1. live'[g] = live[g] /\ live'[h] = b /\ b # None /\ g # h
    BY <1>1, <1>2, <1>6
  <2>2. IsLive(g)' /\ IsLive(h)'
    BY <1>6, <2>1 DEF IsLive
  <2>3. (Bytes(live[g]) \intersect Bytes(live[h]) = {})'
    BY <2>1, <2>2 DEF HeldInv, LiveDisjoint
  <2>4. Bytes(live[g]) \intersect Bytes(b) = {}
    BY <2>1, <2>3 DEF Bytes, End
  <2>5. Bytes(live[g]) = live[g].ptr .. live[g].ptr + live[g].size - 1
    BY <1>6, LiveBlock DEF HeldInv, SystemInv, IsLive, Bytes, End
  <2> QED BY <2>4, <2>5
<1> QED
  BY <1>3, <1>4, <1>5, <1>6 DEF System!Grantable, System!Extent

\* Resized blocks are what Resize of the contract makes of them.
LEMMA ReplaceImplements ==
  ASSUME HeldInv, HeldInv', NEW h \in Handles, IsLive(h),
         NEW l \in Layouts, NEW p \in Address, Replace(h, l, p)
  PROVE  System!Next
<1>1. Lesser(live[h].filled, l.size) \in Nat
  BY LiveBlock, LayoutAssumption DEF Lesser, HeldInv, SystemInv
<1>2. System!Grantable(h, l, p)
  BY <1>1, FreshIsGrantable DEF Replace
<1>3. System!Resize(h, l, p)
  BY <1>2 DEF System!Resize, Replace, IsLive, NewBlock, Lesser
<1> QED BY <1>3 DEF System!Next

\* New blocks are what Grant makes of them.
LEMMA AllocateImplements ==
  ASSUME HeldInv, HeldInv', NEW h \in Handles, ~IsLive(h), NEW l \in Layouts,
         NEW p \in Address, live' = [live EXCEPT ![h] = NewBlock(p, l, 0)]
  PROVE  System!Next
<1>1. System!Grantable(h, l, p)
  BY FreshIsGrantable
<1>2. System!Grant(h, l, p)
  BY <1>1 DEF System!Grant, NewBlock, IsLive
<1> QED BY <1>2 DEF System!Next

\* VirtualMemoryAllocator and Mallocator together implement one contract of
\* core::alloc::Allocator over the mapping and the heap: no block of either
\* overlaps another of either, and an array that goes away without giving its
\* block back is no more than a release nobody can use.
THEOREM SystemImplements == Clients /\ SystemSpec => KeepsSystemContract
<1>1. SystemInit => System!Init
  BY DEF SystemInit, Init, System!Init
<1>2. HeldInv /\ HeldInv' /\ [SystemNext]_systemVars => [System!Next]_live
  <2> SUFFICES ASSUME HeldInv, HeldInv', [SystemNext]_systemVars
               PROVE  System!Next \/ UNCHANGED live
    OBVIOUS
  <2>1. CASE UNCHANGED systemVars \/ Create \/ Drop
    BY <2>1 DEF systemVars, Create, Drop
  <2>2. ASSUME NEW h \in Handles,
               MappedDeallocate(h) \/ HeapDeallocate(h) \/ Forget(h)
        PROVE  System!Next
    <3>1. System!Release(h)
      BY <2>2
      DEF MappedDeallocate, HeapDeallocate, Forget, System!Release, IsLive
    <3> QED BY <3>1 DEF System!Next
  <2>3. ASSUME NEW h \in Handles, Fill(h)
        PROVE  System!Next
    <3>1. System!Store(h)
      BY <2>3 DEF Fill, Write, System!Store, IsLive
    <3> QED BY <3>1 DEF System!Next
  <2>4. ASSUME NEW h \in Handles, NEW l \in Layouts,
               MappedAllocate(h, l) \/ MappedResize(h, l)
        PROVE  System!Next \/ UNCHANGED live
    <3>1. Start(l) \in Address
      BY StartType DEF HeldInv, SystemInv, TypeOK
    <3>2. CASE MappedAllocate(h, l)
      BY <3>1, <3>2, AllocateImplements DEF MappedAllocate, Allocate, vars
    <3>3. CASE MappedResize(h, l)
      BY <3>1, <3>3, ReplaceImplements DEF MappedResize, systemVars
    <3> QED BY <2>4, <3>2, <3>3
  <2>5. ASSUME NEW h \in Handles, NEW l \in Layouts,
               HeapAllocate(h, l) \/ HeapResize(h, l)
        PROVE  System!Next \/ UNCHANGED live
    <3>1. \A p \in Places(l) : p \in Address
      BY HeapAssumption, AddressAssumption DEF Places, Address
    <3>2. CASE HeapAllocate(h, l)
      BY <3>1, <3>2, AllocateImplements DEF HeapAllocate, systemVars
    <3>3. CASE HeapResize(h, l)
      BY <3>1, <3>3, ReplaceImplements DEF HeapResize, systemVars
    <3> QED BY <2>5, <3>2, <3>3
  <2> QED BY <2>1, <2>2, <2>3, <2>4, <2>5 DEF SystemNext
<1> QED
  BY <1>1, <1>2, SystemHeld, PTL DEF SystemSpec, KeepsSystemContract, System!Spec
=============================================================================
