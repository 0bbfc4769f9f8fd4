-------------------------------- MODULE Array --------------------------------
(***************************************************************************)
(* Array<T> (core/src/array/mod.rs): elements in one block of memory,      *)
(* obtained from an allocator any request to which may fail.  The code     *)
(* computes in three units that agree only for one-byte elements:          *)
(* `length' counts elements, `capacity' is set to the byte length of the   *)
(* block, and offsets are bytes.                                           *)
(*                                                                         *)
(* Next to the fields of the arrays the model keeps what a run of the      *)
(* program has but its fields do not show: the size and the contents of    *)
(* the block, which elements are alive inside arrays, what the last call   *)
(* returned, and which rules of the memory model were broken so far.  An   *)
(* access outside the block leaves the block as it is and reads None.      *)
(***************************************************************************)
EXTENDS Integers, FiniteSets, Sequences

CONSTANTS
  ElemSize,        \* mem::size_of::<T>(); zero-sized types are left out
  ElemAlign,       \* mem::align_of::<T>()
  Usize,           \* number of usize values; half of it bounds every layout
  FirstPush,       \* elements the first push reserves (16 in the code)
  Arrays, Elements, None,
  Fragile,         \* the elements whose Drop panics
  Counts,          \* arguments of with_capacity, reserve and truncate
  Indices,         \* arguments of insert, remove and swap_remove
  Calls,           \* the methods the client calls
  Excess,          \* how many bytes the allocator may add to those asked for
  OverflowChecks   \* usize overflow panics (debug build) or wraps (release)

IsizeMax == Usize \div 2 - 1
Slots == 0 .. IsizeMax - 1

ASSUME SizeAssumption ==
  /\ ElemSize \in Nat \ {0} /\ ElemAlign \in Nat \ {0}
  /\ Usize \in Nat \ {0, 1} /\ FirstPush \in Nat \ {0}
  /\ ElemSize + ElemAlign < Usize
ASSUME InputAssumption ==
  /\ Fragile \subseteq Elements
  /\ Counts \subseteq 0 .. Usize - 1 /\ Indices \subseteq 0 .. Usize - 1
  /\ None \notin Elements /\ None \notin Arrays
  /\ Excess \subseteq Nat /\ OverflowChecks \in BOOLEAN

VARIABLES
  arr,      \* arr[a]: the fields of a and its block
  inside,   \* the elements moved into arrays, not yet returned or dropped
  fault,    \* what went wrong so far, of Faults
  last      \* the last call, with the index or size it was given, and its result

vars == <<arr, inside, fault, last>>

-----------------------------------------------------------------------------
(* Memory.  A record of arr has the fields length and capacity of Array,   *)
(* block, the size in bytes of what `data' points to, and slot, what lies  *)
(* at each multiple of ElemSize in it.                                     *)

New == [length |-> 0, capacity |-> 0, block |-> 0, slot |-> [i \in Slots |-> None]]

Wrap(x) == x % Usize
\* Mutant: a layout may be as large as a usize.
LayoutUnchecked(size) == size < Usize
LayoutOk(size) == size < Usize /\ size + (ElemAlign - 1) <= IsizeMax

InBlock(r, i) == (i + 1) * ElemSize <= r.block
Room(r, n) == (r.length + n) * ElemSize <= r.block
Read(r, i) == IF InBlock(r, i) THEN r.slot[i] ELSE None

\* "outside": an element taken, dropped or stored beyond the block; "overrun": a
\* copy that reads beyond it; "layout": a layout that is not the block's;
\* "dropped": an element dropped or returned that is not alive.
Faults == {"outside", "overrun", "layout", "dropped", "overflow"}
Touching(r, I) == IF \A i \in I : InBlock(r, i) THEN {} ELSE {"outside"}
Put(r, i, e) ==
  [r EXCEPT !.slot = [j \in Slots |-> IF j = i /\ InBlock(r, i) THEN e ELSE @[j]]]

\* ptr::copy of n elements from slot `from' on to slot `to' on
Copy(r, from, to, n) ==
  [r EXCEPT !.slot =
     [j \in Slots |-> IF j \in to .. to + n - 1 /\ InBlock(r, j)
                      THEN Read(r, from + (j - to)) ELSE @[j]]]

Visible(r) == 0 .. r.length - 1
VisibleElements(r) == {Read(r, i) : i \in Visible(r)}

\* Dropping or handing out an element that is not alive, or is so twice.
Losing(r, I) ==
  IF /\ {Read(r, i) : i \in I} \subseteq inside
     /\ Cardinality({Read(r, i) : i \in I}) = Cardinality(I)
  THEN {} ELSE {"dropped"}

Result(ok, r, f) == [ok |-> ok, arr |-> r, fault |-> f]

Done(call, a, o, in, v) ==
  /\ arr' = [arr EXCEPT ![a] = o.arr]
  /\ fault' = fault \union o.fault
  /\ inside' = in
  /\ last' = [call |-> call, on |-> a, ok |-> o.ok, value |-> v]

Refused(call, a) == Done(call, a, Result(FALSE, arr[a], {}), inside, None)
Panicked(call, a) == Done(call, a, Result(FALSE, arr[a], {"overflow"}), inside, None)

-----------------------------------------------------------------------------
(* The functions the methods share.                                        *)

Init ==
  /\ arr = [a \in Arrays |-> New]
  /\ inside = {}
  /\ fault = {}
  /\ last = [call |-> <<"new">>, on |-> None, ok |-> TRUE, value |-> None]

\* What the allocator may grant a request of `size' bytes: no fewer.
Granted(size) == {size} \union {got \in size .. IsizeMax : got - size \in Excess}

\* Mutant: a grow does not record the new capacity.
ResizedStale(r, got) == [r EXCEPT !.block = got, !.capacity = IF @ = 0 THEN got ELSE @]

\* The block and the fields after a reservation that was granted so many bytes.
Resized(r, got) ==
  [r EXCEPT !.block = got, !.capacity = got,
            !.length = IF r.capacity = 0 THEN 0 ELSE @]

\* Mutant: the block is grown to n elements, not by n.
ReservedTotal(r, n) ==
  {Result(FALSE, r, {})} \union
  {Result(TRUE, Resized(r, got), {}) : got \in Granted(ElemSize * n)}

\* reserve: the first allocation, or a grow by n elements.  It tells the
\* allocator the block has ElemSize * capacity bytes.
Reserved(r, n) ==
  LET size == ElemSize * (r.capacity + n)
      wrong == IF r.capacity = 0 \/ ElemSize * r.capacity = r.block
               THEN {} ELSE {"layout"}
  IN  IF LayoutOk(size)
      THEN {Result(FALSE, r, wrong)} \union
           {Result(TRUE, Resized(r, got), wrong) : got \in Granted(size)}
      ELSE {Result(FALSE, r, {})}

\* push: reserve, then assign at byte ElemSize * capacity, which drops what is
\* there; length stays.
Pushed(r, e) ==
  LET Written(o) ==
        IF ElemSize * o.arr.capacity > IsizeMax
        THEN Result(FALSE, o.arr, o.fault)
        ELSE Result(TRUE, Put(o.arr, o.arr.capacity, e),
                    o.fault \union Touching(o.arr, {o.arr.capacity})
                            \union Losing(o.arr, {o.arr.capacity}))
  IN  {IF o.ok THEN Written(o) ELSE o :
         o \in Reserved(r, IF r.capacity = 0 THEN FirstPush ELSE 1)}

\* Mutant: the element after the last one is returned.
PoppedOneOff(r) == [arr |-> [r EXCEPT !.length = Wrap(@ - 1)], slot |-> r.length]
Popped(r) ==
  LET n == Wrap(r.length - 1) IN [arr |-> [r EXCEPT !.length = n], slot |-> n]

\* append: the elements are copied behind the length, which stays.
Appended(r, other) ==
  LET n == other.length
      Filled(o) ==
        Result(TRUE,
          [o.arr EXCEPT !.slot =
             [j \in Slots |->
                IF j \in o.arr.length .. o.arr.length + n - 1 /\ InBlock(o.arr, j)
                THEN Read(other, j - o.arr.length) ELSE @[j]]],
          o.fault \union Touching(other, Visible(other))
                  \union Touching(o.arr, o.arr.length .. o.arr.length + n - 1))
  IN  {IF o.ok THEN Filled(o) ELSE o : o \in Reserved(r, n)}

\* Mutant: the elements are moved before it is known that there is room.
InsertedShiftFirst(r, i, e) ==
  {[o EXCEPT !.arr = Copy(@, i, i + 1, ElemSize * (r.length - i))] :
     o \in Reserved(r, 1)}

\* insert_unchecked: the copy moves ElemSize * (length - i) elements
\* (the count of ptr::copy is in elements, not bytes); length stays.
Inserted(r, i, e) ==
  LET n == ElemSize * (r.length - i)
      Shifted(o) ==
        Result(TRUE, Put(Copy(o.arr, i, i + 1, n), i, e),
               o.fault \union Touching(o.arr, i .. i + n))
  IN  IF i = r.length THEN Pushed(r, e)
      ELSE {IF o.ok THEN Shifted(o) ELSE o : o \in Reserved(r, 1)}

\* Mutant: the gap is filled from one element too far.
RemovedOneOff(r, i) ==
  Result(TRUE, [Copy(r, i + 2, i, r.length - i) EXCEPT !.length = @ - 1], {})

\* remove_unchecked: copies length - i elements, the one past the last too.
Removed(r, i) ==
  Result(TRUE, [Copy(r, i + 1, i, r.length - i) EXCEPT !.length = @ - 1],
         Touching(r, i .. r.length - 1)
           \union (IF InBlock(r, r.length) THEN {} ELSE {"overrun"}))

\* Mutant: the last element is not moved into the gap.
SwappedOutInPlace(r, i) == Result(TRUE, [r EXCEPT !.length = @ - 1], {})
SwappedOut(r, i) ==
  Result(TRUE, [Put(r, i, Read(r, r.length - 1)) EXCEPT !.length = @ - 1],
         Touching(r, {i, r.length - 1}))

\* Dropping the slots of I in order; a panicking drop leaves the rest alone.
DroppedOf(r, I) ==
  {i \in I : \A j \in I : j < i => Read(r, j) \notin Fragile}

-----------------------------------------------------------------------------
(* The methods of Array.                                                   *)

Made(got) == [New EXCEPT !.block = got, !.capacity = got]

\* The client replaces an array that holds no memory yet.
WithCapacity(a, n) ==
  /\ arr[a].block = 0
  /\ LET size == Wrap(ElemSize * n)
         call == <<"with_capacity", n>>
         overflows == ElemSize * n >= Usize IN
     \/ OverflowChecks /\ overflows /\ Panicked(call, a)
     \/ /\ OverflowChecks => ~overflows
        /\ \/ /\ LayoutOk(size)
              /\ \E got \in Granted(size) :
                   Done(call, a, Result(TRUE, Made(got), {}), inside, None)
           \/ Refused(call, a)

Reserve(a, n) ==
  \E o \in Reserved(arr[a], n) : Done(<<"reserve", n>>, a, o, inside, None)

\* On an error the value, moved into the call, is dropped.
Push(a, e) ==
  \E o \in Pushed(arr[a], e) :
    Done(<<"push">>, a, o, IF o.ok THEN inside \union {e} ELSE inside, None)

\* Mutant: full is noticed one element too late.
PushWithinCapacityLate(a, e) ==
  LET r == arr[a] IN
  /\ r.length <= r.capacity
  /\ Done(<<"push_within_capacity">>, a,
          Result(TRUE, [Put(r, r.length, e) EXCEPT !.length = @ + 1],
                 Touching(r, {r.length})),
          inside \union {e}, None)

PushWithinCapacity(a, e) ==
  LET r == arr[a]
      written == [Put(r, r.length, e) EXCEPT !.length = @ + 1] IN
  \/ /\ r.length >= r.capacity
     /\ Refused(<<"push_within_capacity">>, a)
  \/ /\ r.length < r.capacity
     /\ Done(<<"push_within_capacity">>, a,
             Result(TRUE, written, Touching(r, {r.length})),
             inside \union {e}, None)

\* What pop, remove and swap_remove share: the element at slot i comes out.
HandOut(call, a, o, i) ==
  LET r == arr[a] IN
  Done(call, a,
       [o EXCEPT !.fault = @ \union Touching(r, {i}) \union Losing(r, {i})],
       inside \ {Read(r, i)}, Read(r, i))

PopLast(call, a) ==
  LET p == Popped(arr[a]) IN HandOut(call, a, Result(TRUE, p.arr, {}), p.slot)

Pop(a) ==
  \/ arr[a].length = 0 /\ Refused(<<"pop">>, a)
  \/ arr[a].length > 0 /\ PopLast(<<"pop">>, a)

\* Mutant: the length is set to 0 after all are dropped, if none panicked.
ClearLate(a) ==
  LET r == arr[a]
      ok == VisibleElements(r) \intersect Fragile = {} IN
  Done(<<"clear">>, a,
       Result(ok, [r EXCEPT !.length = IF ok THEN 0 ELSE @],
              Touching(r, Visible(r)) \union Losing(r, Visible(r))),
       inside \ VisibleElements(r), None)

\* length is set to 0 first; then all are dropped, the drop glue of a slice
\* going on behind an element whose drop panicked.
Clear(a) ==
  LET r == arr[a]
      ok == VisibleElements(r) \intersect Fragile = {} IN
  Done(<<"clear">>, a,
       Result(ok, [r EXCEPT !.length = 0],
              Touching(r, Visible(r)) \union Losing(r, Visible(r))),
       inside \ VisibleElements(r), None)

AppendFrom(a, b) ==
  /\ a # b
  /\ \E o \in Appended(arr[a], arr[b]) : Done(<<"append">>, a, o, inside, None)

\* An index out of range, and an error, drop the value.
Insert(a, i, e) ==
  \/ i > arr[a].length /\ Refused(<<"insert", i>>, a)
  \/ /\ i <= arr[a].length
     /\ \E o \in Inserted(arr[a], i, e) :
          Done(<<"insert", i>>, a, o, IF o.ok THEN inside \union {e} ELSE inside, None)

LastIndex(r) == Wrap(r.length - 1)

\* On an empty array `length - 1' panics, or wraps to the largest index.
Remove(a, i) ==
  LET r == arr[a] IN
  \/ OverflowChecks /\ r.length = 0 /\ Panicked(<<"remove", i>>, a)
  \/ /\ OverflowChecks => r.length > 0
     /\ \/ /\ i = LastIndex(r)
           /\ PopLast(<<"remove", i>>, a)
        \/ /\ i # LastIndex(r) /\ i >= r.length
           /\ Refused(<<"remove", i>>, a)
        \/ /\ i # LastIndex(r) /\ i < r.length
           /\ HandOut(<<"remove", i>>, a, Removed(r, i), i)

RemoveUnchecked(a, i) ==
  /\ i < arr[a].length
  /\ HandOut(<<"remove_unchecked", i>>, a, Removed(arr[a], i), i)

SwapRemove(a, i) ==
  LET r == arr[a] IN
  \/ OverflowChecks /\ r.length = 0 /\ Panicked(<<"swap_remove", i>>, a)
  \/ /\ OverflowChecks => r.length > 0
     /\ \/ /\ i = LastIndex(r) /\ r.length > 0
           /\ PopLast(<<"swap_remove", i>>, a)
        \/ /\ r.length = 0 \/ i > LastIndex(r)
           /\ Refused(<<"swap_remove", i>>, a)
        \/ /\ i < LastIndex(r) /\ r.length > 0
           /\ HandOut(<<"swap_remove", i>>, a, SwappedOut(r, i), i)

SwapRemoveUnchecked(a, i) ==
  /\ i < arr[a].length
  /\ HandOut(<<"swap_remove_unchecked", i>>, a, SwappedOut(arr[a], i), i)

\* Drops from slot n - 1 on; for n = 0 the range is empty where it wraps.
Truncate(a, n) ==
  LET r == arr[a]
      I == IF n = 0 THEN {} ELSE n - 1 .. r.length - 1
      D == DroppedOf(r, I)
      whole == {Read(r, i) : i \in I} \intersect Fragile = {} IN
  \/ /\ r.length <= n
     /\ Done(<<"truncate", n>>, a, Result(TRUE, r, {}), inside, None)
  \/ r.length > n /\ n = 0 /\ OverflowChecks /\ Panicked(<<"truncate", n>>, a)
  \/ /\ r.length > n /\ (OverflowChecks => n > 0)
     /\ Done(<<"truncate", n>>, a,
             Result(whole, [r EXCEPT !.length = IF whole THEN n ELSE @],
                    Touching(r, D) \union Losing(r, D)),
             inside \ {Read(r, i) : i \in D}, None)

Next ==
  \E a \in Arrays :
    \/ "pop" \in Calls /\ Pop(a)
    \/ "clear" \in Calls /\ Clear(a)
    \/ \E n \in Counts :
         \/ "with_capacity" \in Calls /\ WithCapacity(a, n)
         \/ "reserve" \in Calls /\ Reserve(a, n)
         \/ "truncate" \in Calls /\ Truncate(a, n)
    \/ \E i \in Indices :
         \/ "remove" \in Calls /\ Remove(a, i)
         \/ "remove_unchecked" \in Calls /\ RemoveUnchecked(a, i)
         \/ "swap_remove" \in Calls /\ SwapRemove(a, i)
         \/ "swap_remove_unchecked" \in Calls /\ SwapRemoveUnchecked(a, i)
    \/ \E e \in Elements \ inside :
         \/ "push" \in Calls /\ Push(a, e)
         \/ "push_within_capacity" \in Calls /\ PushWithinCapacity(a, e)
         \/ \E i \in Indices : "insert" \in Calls /\ Insert(a, i, e)
    \/ \E b \in Arrays : "append" \in Calls /\ AppendFrom(a, b)

Spec == Init /\ [][Next]_vars

-----------------------------------------------------------------------------
(* Properties.                                                             *)

TypeOK ==
  /\ arr \in [Arrays -> [length : 0 .. Usize - 1, capacity : 0 .. Usize - 1,
                         block : 0 .. IsizeMax,
                         slot : [Slots -> Elements \union {None}]]]
  /\ inside \subseteq Elements
  /\ fault \subseteq Faults
  /\ DOMAIN last = {"call", "on", "ok", "value"}

\* No method takes, drops or stores an element beyond the block the allocator
\* gave: the checks of push_within_capacity, remove and the others suffice.
InBounds == "outside" \notin fault

\* No method copies from beyond the block either.
CopiesInBounds == "overrun" \notin fault

\* The layout given to grow is the one the block was allocated with.
LayoutKept == "layout" \notin fault

\* No element is dropped or returned that is not alive in the array.
NoDoubleDrop == "dropped" \notin fault

\* The length never exceeds the capacity.
LengthWithinCapacity == \A a \in Arrays : arr[a].length <= arr[a].capacity

\* What a client sees through Deref: slots of the block, each with an element
\* that is alive, and no element in two places.
VisibleAlive ==
  /\ \A a \in Arrays : /\ \A i \in Visible(arr[a]) : InBlock(arr[a], i)
                       /\ VisibleElements(arr[a]) \subseteq inside
  /\ \A a, b \in Arrays : \A i \in Visible(arr[a]), j \in Visible(arr[b]) :
       <<a, i>> # <<b, j>> => Read(arr[a], i) # Read(arr[b], j)

\* An element given to an array is found in one until it is handed back or
\* dropped.
NothingLost == inside \subseteq UNION {VisibleElements(arr[a]) : a \in Arrays}

\* After with_capacity or reserve succeeded there is room for as many elements
\* as were asked for, behind those that are there.
RoomAsAsked ==
  [][last'.ok /\ last'.call[1] \in {"with_capacity", "reserve"} =>
       Room(arr'[last'.on], last'.call[2])]_vars

\* A call that reports failure leaves what every array shows as it was, however
\* far it got before it failed.
FailureKeepsContents ==
  [][~last'.ok /\ last'.call # <<"clear">> =>
       \A a \in Arrays : /\ arr'[a].length = arr[a].length
                         /\ \A i \in Visible(arr[a]) : Read(arr'[a], i) = Read(arr[a], i)]_vars
=============================================================================
