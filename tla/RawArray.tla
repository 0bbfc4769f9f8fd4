------------------------------- MODULE RawArray -------------------------------
(***************************************************************************)
(* RawArrays (core/src/array/mod.rs) that share one FixedBufferAllocator,  *)
(* passed to every call, with each other and with other clients.           *)
(*                                                                         *)
(* Array models the methods over a block of their own and any allocator.   *)
(* Here the allocator is the real one and memory is one map from addresses *)
(* to bytes: `grow' succeeds for the last block only, the bytes behind a   *)
(* block are somebody else's or will be, and what an array tells the       *)
(* allocator about its block is what its fields say.  Elements are one     *)
(* byte wide and need no drop.  The build has overflow checks.             *)
(***************************************************************************)
EXTENDS Integers

CONSTANTS
  WordSize, Base, BufEnd,   \* the slice of the allocator, as in FixedBuffer
  LayoutMax,    \* bytes of the largest layout (isize::MAX in the code)
  Arrays,       \* the RawArrays
  Others,       \* the pointers the other clients hold
  Values,       \* what a byte can be
  None,         \* no block, and a byte whose value is anything
  FirstPush,    \* elements the first push reserves (16 in the code)
  Counts,       \* arguments of with_capacity, reserve and truncate, block sizes
  Indices       \* arguments of insert, remove and swap_remove

ASSUME ArraysAssumption ==
  /\ WordSize \in Nat \ {0} /\ Base \in 0 .. WordSize - 1
  /\ BufEnd \in Base .. WordSize - 1
  /\ Arrays \intersect Others = {}
  /\ None \notin Values \union Arrays \union Others
  /\ None \notin [ptr : 0 .. WordSize - 1, size : Nat, align : Nat \ {0}, filled : Nat]
  /\ LayoutMax \in 0 .. WordSize \div 2 - 1
  /\ FirstPush \in Nat \ {0} /\ Counts \subseteq Nat /\ Indices \subseteq Nat

VARIABLES
  begin, live,   \* the allocator's field and the blocks, as in FixedBuffer
  field,         \* field[a]: length and capacity of a; data is live[a].ptr
  byte,          \* the byte at each address some client sees, else None
  last           \* on whose block the last call was, and whether it succeeded

vars == <<begin, live, field, byte, last>>

Address == 0 .. WordSize - 1
Handles == Arrays \union Others
Bytes(n) == [size |-> n, align |-> 1]

\* Mutant: any size makes a layout.
LayoutUnchecked(n) == TRUE
LayoutOk(n) == n <= LayoutMax

\* The allocator.  Who owns which byte of data is not followed here.
FBA ==
  INSTANCE FixedBuffer WITH
    mem <- [x \in Address |-> None],
    Layouts <- {Bytes(n) : n \in 0 .. LayoutMax},
    Calls <- {"grow", "deallocate"},
    StackClient <- FALSE

-----------------------------------------------------------------------------
(* The functions the methods share.                                        *)

New == [length |-> 0, capacity |-> 0]

Init ==
  /\ FBA!Init
  /\ field = [a \in Arrays |-> New]
  /\ byte = [x \in Address |-> None]
  /\ last = [on |-> None, ok |-> TRUE]

Returns(a, ok) == last' = [on |-> a, ok |-> ok]
Refused(a) == Returns(a, FALSE) /\ UNCHANGED <<begin, live, field, byte>>

\* ptr::copy of n bytes, and ptr::write
Copy(from, to, n) ==
  [x \in Address |-> IF x \in to .. to + n - 1 THEN byte[from + (x - to)] ELSE byte[x]]
Written(m, p, v) == [m EXCEPT ![p] = v]

\* Where the elements of an array and the data of another client lie.
Extent(h) ==
  LET n == IF h \in Arrays THEN field[h].length
           ELSE IF live[h] = None THEN 0 ELSE live[h].filled
  IN  IF n = 0 THEN {} ELSE live[h].ptr .. live[h].ptr + n - 1

\* Memory becomes m.  A byte nobody sees is not followed: should a client come
\* to see it, it could be anything.
Memory(m) ==
  byte' = [x \in Address |->
             IF x \in UNION {Extent(h)' : h \in Handles} THEN m[x] ELSE None]

\* The block as the array describes it to the allocator.
Described(a) == FBA!NewBlock(live[a].ptr, Bytes(field[a].capacity), 0)

\* Mutant: every block but the last can be grown too.
CanReserveAnywhere(a, n) ==
  /\ LayoutOk(field[a].capacity + n)
  /\ IF field[a].capacity = 0
     THEN FBA!Fits(Bytes(n))
     ELSE FBA!GrowthFits(Described(a), Bytes(field[a].capacity + n))

\* reserve succeeds with a first block, or when the allocator can grow the one
\* there is: it is the last, and passes the check against `end'.
CanReserve(a, n) ==
  /\ LayoutOk(field[a].capacity + n)
  /\ IF field[a].capacity = 0
     THEN FBA!Fits(Bytes(n))
     ELSE /\ FBA!IsLast(begin, Described(a))
          /\ FBA!GrowthFits(Described(a), Bytes(field[a].capacity + n))

\* The two branches of reserve, from the call of the allocator on.
FirstBlock(a, n) ==
  /\ begin' = FBA!NewBegin(Bytes(n))
  /\ live' = [live EXCEPT ![a] = FBA!NewBlock(FBA!Start(Bytes(n)), Bytes(n), 0)]
  /\ field' = [field EXCEPT ![a] = [length |-> 0, capacity |-> n]]

\* Mutant: the new capacity is not recorded.
LongerBlockStale(a, n) ==
  /\ begin' = FBA!Wrap(begin + n)
  /\ live' = [live EXCEPT ![a].size = field[a].capacity + n]
  /\ UNCHANGED field
LongerBlock(a, n) ==
  /\ begin' = FBA!Wrap(begin + n)
  /\ live' = [live EXCEPT ![a].size = field[a].capacity + n]
  /\ field' = [field EXCEPT ![a].capacity = @ + n]

Reserved(a, n) ==
  \/ field[a].capacity = 0 /\ FirstBlock(a, n)
  \/ field[a].capacity > 0 /\ LongerBlock(a, n)

Growth(a) == IF field[a].capacity = 0 THEN FirstPush ELSE 1

\* push reserves, then stores at byte `capacity', which is at most isize::MAX.
Pushed(a, v) ==
  /\ CanReserve(a, Growth(a))
  /\ Reserved(a, Growth(a))
  /\ Memory(Written(byte, live'[a].ptr + field'[a].capacity, v))

Popped(a) ==
  /\ field' = [field EXCEPT ![a].length = @ - 1]
  /\ UNCHANGED <<begin, live>>
  /\ Memory(byte)

-----------------------------------------------------------------------------
(* The methods of RawArray.                                                *)

\* The client replaces the array, whose block is not given back.
WithCapacity(a, n) ==
  \/ /\ LayoutOk(n) /\ FBA!Fits(Bytes(n))
     /\ FirstBlock(a, n)
     /\ Returns(a, TRUE)
     /\ Memory(byte)
  \/ /\ ~(LayoutOk(n) /\ FBA!Fits(Bytes(n)))
     /\ Refused(a)

Reserve(a, n) ==
  \/ /\ CanReserve(a, n) /\ Reserved(a, n)
     /\ Returns(a, TRUE)
     /\ Memory(byte)
  \/ ~CanReserve(a, n) /\ Refused(a)

Push(a, v) ==
  \/ Pushed(a, v) /\ Returns(a, TRUE)
  \/ ~CanReserve(a, Growth(a)) /\ Refused(a)

Pop(a) ==
  \/ field[a].length = 0 /\ Refused(a)
  \/ field[a].length > 0 /\ Popped(a) /\ Returns(a, TRUE)

Clear(a) ==
  /\ field' = [field EXCEPT ![a].length = 0]
  /\ Returns(a, TRUE)
  /\ UNCHANGED <<begin, live>>
  /\ Memory(byte)

\* Mutant: full is noticed one element too late.
PushWithinCapacityLate(a, v) ==
  /\ live[a] # None /\ field[a].length <= field[a].capacity
  /\ field' = [field EXCEPT ![a].length = @ + 1]
  /\ Returns(a, TRUE)
  /\ UNCHANGED <<begin, live>>
  /\ Memory(Written(byte, live[a].ptr + field[a].length, v))

PushWithinCapacity(a, v) ==
  \/ /\ field[a].length >= field[a].capacity
     /\ Refused(a)
  \/ /\ field[a].length < field[a].capacity
     /\ field' = [field EXCEPT ![a].length = @ + 1]
     /\ Returns(a, TRUE)
     /\ UNCHANGED <<begin, live>>
     /\ Memory(Written(byte, live[a].ptr + field[a].length, v))

\* The bytes of b are copied behind a's length, which stays.
AppendFrom(a, b) ==
  LET n == field[b].length IN
  /\ a # b
  /\ \/ /\ CanReserve(a, n) /\ Reserved(a, n)
        /\ Memory(IF n = 0 THEN byte
                  ELSE Copy(live[b].ptr, live'[a].ptr + field[a].length, n))
        /\ Returns(a, TRUE)
     \/ ~CanReserve(a, n) /\ Refused(a)

\* insert_unchecked: the elements behind i move up; the length stays.
InsertUnchecked(a, i, v) ==
  \/ /\ i = field[a].length
     /\ \/ Pushed(a, v) /\ Returns(a, TRUE)
        \/ ~CanReserve(a, Growth(a)) /\ Refused(a)
  \/ /\ i < field[a].length
     /\ \/ /\ CanReserve(a, 1) /\ Reserved(a, 1)
           /\ LET base == live'[a].ptr + i IN
              Memory(Written(Copy(base, base + 1, field[a].length - i), base, v))
           /\ Returns(a, TRUE)
        \/ ~CanReserve(a, 1) /\ Refused(a)

Insert(a, i, v) ==
  \/ i > field[a].length /\ Refused(a)
  \/ InsertUnchecked(a, i, v)

\* remove_unchecked: `length - i' bytes move down, one from behind the last.
RemoveUnchecked(a, i) ==
  LET addr == live[a].ptr + i IN
  /\ i < field[a].length
  /\ field' = [field EXCEPT ![a].length = @ - 1]
  /\ Returns(a, TRUE)
  /\ UNCHANGED <<begin, live>>
  /\ Memory(Copy(addr + 1, addr, field[a].length - i))

\* `length - 1' of an empty array panics.
Remove(a, i) ==
  LET n == field[a].length IN
  \/ n = 0 /\ Refused(a)
  \/ n > 0 /\ i = n - 1 /\ Popped(a) /\ Returns(a, TRUE)
  \/ n > 0 /\ i >= n /\ Refused(a)
  \/ i < n - 1 /\ RemoveUnchecked(a, i)

SwapRemoveUnchecked(a, i) ==
  LET n == field[a].length IN
  /\ i < n
  /\ field' = [field EXCEPT ![a].length = n - 1]
  /\ Returns(a, TRUE)
  /\ UNCHANGED <<begin, live>>
  /\ Memory(Written(byte, live[a].ptr + i, byte[live[a].ptr + n - 1]))

SwapRemove(a, i) ==
  LET n == field[a].length IN
  \/ n = 0 /\ Refused(a)
  \/ n > 0 /\ i = n - 1 /\ Popped(a) /\ Returns(a, TRUE)
  \/ n > 0 /\ i >= n /\ Refused(a)
  \/ i < n - 1 /\ SwapRemoveUnchecked(a, i)

\* Mutant: the length is set whether or not it is greater.
TruncateAlways(a, n) ==
  /\ live[a] # None
  /\ field' = [field EXCEPT ![a].length = n]
  /\ Returns(a, TRUE)
  /\ UNCHANGED <<begin, live>>
  /\ Memory(byte)

\* For n = 0 the start of the range of dropped elements, `len - 1', panics.
Truncate(a, n) ==
  \/ /\ field[a].length <= n
     /\ Returns(a, TRUE)
     /\ UNCHANGED <<begin, live, field, byte>>
  \/ field[a].length > n /\ n = 0 /\ Refused(a)
  \/ /\ field[a].length > n /\ n > 0
     /\ field' = [field EXCEPT ![a].length = n]
     /\ Returns(a, TRUE)
     /\ UNCHANGED <<begin, live>>
     /\ Memory(byte)

-----------------------------------------------------------------------------
(* The other clients of the allocator.                                     *)

OtherCall(o) ==
  /\ \/ FBA!Deallocate(o)
     \/ \E n \in Counts : /\ LayoutOk(n)
                          /\ FBA!Allocate(o, Bytes(n)) \/ FBA!Grow(o, Bytes(n))
  /\ Returns(o, TRUE)
  /\ UNCHANGED field
  /\ Memory(byte)

Fill(o, v) ==
  /\ live[o] # None
  /\ live' = [live EXCEPT ![o].filled = live[o].size]
  /\ Returns(o, TRUE)
  /\ UNCHANGED <<begin, field>>
  /\ Memory([x \in Address |-> IF x \in FBA!Bytes(live[o]) THEN v ELSE byte[x]])

\* The unchecked methods, for an index in bounds, are steps of the checked ones.
Next ==
  \/ \E a \in Arrays :
       \/ Pop(a) \/ Clear(a)
       \/ \E n \in Counts : WithCapacity(a, n) \/ Reserve(a, n) \/ Truncate(a, n)
       \/ \E i \in Indices : Remove(a, i) \/ SwapRemove(a, i)
       \/ \E v \in Values :
            \/ Push(a, v) \/ PushWithinCapacity(a, v)
            \/ \E i \in Indices : Insert(a, i, v)
       \/ \E b \in Arrays : AppendFrom(a, b)
  \/ \E o \in Others : OtherCall(o) \/ \E v \in Values : Fill(o, v)

Spec == Init /\ [][Next]_vars

-----------------------------------------------------------------------------
(* Properties.                                                             *)

\* What a client sees: the elements of an array, the data of another block.
Shown(h) == [x \in Extent(h) |-> byte[x]]

TypeOK ==
  /\ FBA!TypeOK
  /\ field \in [Arrays -> [length : 0 .. LayoutMax, capacity : 0 .. LayoutMax]]
  /\ byte \in [Address -> Values \union {None}]

\* No array ever shows an element that was not stored in it: a slot that holds
\* whatever lay there before.
Initialised == \A h \in Handles : \A x \in Extent(h) : byte[x] # None

\* No call on one array, and nothing another client does, changes what any
\* other array shows or another client stored, even the calls that read or
\* write behind their block.
Isolation ==
  [][\A h \in Handles : h # last'.on => Shown(h)' = Shown(h)]_vars

\* What an array says of its block when it asks for more is what the allocator
\* gave it, and its elements are all in it: the obligation the Safety sections
\* of reserve and push state, over every interleaving of clients.
BlockKnown ==
  \A a \in Arrays :
    /\ live[a] = None => field[a] = New
    /\ live[a] # None => /\ field[a].capacity = live[a].size
                         /\ field[a].length <= live[a].size

\* The blocks of arrays and other clients stay apart and below `begin'.
BlocksApart == FBA!LiveDisjoint /\ FBA!LiveBelowBegin
=============================================================================
