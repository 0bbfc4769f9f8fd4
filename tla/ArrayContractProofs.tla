-------------------------- MODULE ArrayContractProofs --------------------------
(***************************************************************************)
(* Who owns an element: proved of every array of a client that keeps to    *)
(* the methods that neither lose nor double an element, for any number of  *)
(* arrays.  Nothing is dropped twice or lost, and each method does to the  *)
(* visible sequence what ArrayContract says of it.  Of one-byte elements   *)
(* the checks in the code are enough for this; wider ones are safe with a  *)
(* client that pushes no more of them than it asked room for.              *)
(***************************************************************************)
EXTENDS ArrayRefinement, ArrayProofs, FiniteSetTheorems, FunctionTheorems,
        SequenceTheorems

\* The client of these theorems.  It leaves push, append, insert and truncate
\* alone, and reserve too unless elements are one byte wide; in a release build
\* it removes nothing at the largest index (of an empty array, `length - 1').
Disciplined ==
  /\ Calls \intersect {"push", "append", "insert", "truncate"} = {}
  /\ "reserve" \in Calls => ElemSize = 1
  /\ OverflowChecks \/ Usize - 1 \notin Indices

\* Of elements wider than a byte, the ones push_within_capacity stores fit in
\* the block: the client keeps to the room it asked for.
Thrifty ==
  last'.call = <<"push_within_capacity">> /\ last'.ok /\ ElemSize # 1 =>
    Room(arr[last'.on], 1)

\* What may go wrong all the same: a panic, and a copy that reads too far.
Harmless == {"overflow", "overrun"}

\* An array whose visible slots are all in its block.
Sound(r) ==
  /\ Fitting(r)
  /\ r.slot \in [Slots -> Elements \union {None}]
  /\ r.length * ElemSize <= r.block

ArrayType ==
  [length : 0 .. Usize - 1, capacity : 0 .. Usize - 1, block : 0 .. IsizeMax,
   slot : [Slots -> Elements \union {None}]]

\* VisibleAlive and NothingLost are inductive with what is in a block.
Owned ==
  /\ arr \in [Arrays -> ArrayType] /\ \A a \in Arrays : Sound(arr[a])
  /\ inside \subseteq Elements
  /\ fault \subseteq Harmless
  /\ DOMAIN last = {"call", "on", "ok", "value"}
  /\ \A a \in Arrays : \A i \in Visible(arr[a]) : Read(arr[a], i) \in inside
  /\ \A a, b \in Arrays : \A i \in Visible(arr[a]), j \in Visible(arr[b]) :
       <<a, i>> # <<b, j>> => Read(arr[a], i) # Read(arr[b], j)
  /\ \A e \in inside : \E a \in Arrays : \E i \in Visible(arr[a]) : Read(arr[a], i) = e

-----------------------------------------------------------------------------
(* Slots.                                                                  *)

LEMMA TimesMonotonic ==
  ASSUME NEW k \in Nat, NEW x \in Nat, NEW y \in Nat, x <= y
  PROVE  x * k <= y * k
<1>1. PICK d \in Nat : y = x + d
  <2>1. y - x \in Nat /\ y = x + (y - x)
    OBVIOUS
  <2> QED BY <2>1
<1>2. (x + d) * k = x * k + d * k
  OBVIOUS
<1>3. d * k \in Nat /\ x * k \in Nat
  OBVIOUS
<1> QED BY <1>1, <1>2, <1>3

\* The slots below one that is in the block are in the block.
LEMMA BlockClosed ==
  ASSUME NEW r, Fitting(r), NEW n \in Nat, n * ElemSize <= r.block,
         NEW i \in Nat, i < n
  PROVE  InBlock(r, i) /\ i \in Slots
<1>1. (i + 1) * ElemSize <= n * ElemSize
  BY TimesMonotonic, SizeAssumption
<1>2. /\ (i + 1) * ElemSize \in Nat /\ n * ElemSize \in Nat
      /\ (i + 1) * ElemSize = ElemSize * (i + 1)
  BY SizeAssumption
<1>3. (i + 1) * ElemSize <= r.block
  BY <1>1, <1>2 DEF Fitting
<1>4. i + 1 <= (i + 1) * ElemSize
  BY <1>2, BytesCover
<1>5. i + 1 <= IsizeMax
  BY <1>2, <1>3, <1>4, SizeAssumption DEF Fitting, IsizeMax
<1> QED BY <1>3, <1>5, SizeAssumption DEF InBlock, Slots, IsizeMax

LEMMA VisibleInBlock ==
  ASSUME NEW r, Sound(r), NEW i \in Visible(r)
  PROVE  /\ i \in Nat /\ i < r.length
         /\ InBlock(r, i) /\ i \in Slots
         /\ Read(r, i) = r.slot[i]
<1>1. i \in Nat /\ i < r.length /\ r.length \in Nat
  BY DEF Visible, Sound, Fitting
<1>2. InBlock(r, i) /\ i \in Slots
  BY <1>1, BlockClosed DEF Sound
<1> QED BY <1>1, <1>2 DEF Read

\* Whatever slot is read, an element or nothing comes back.
LEMMA ReadType ==
  ASSUME NEW r, Sound(r), NEW i \in Nat
  PROVE  Read(r, i) \in Elements \union {None}
<1>1. CASE InBlock(r, i)
  <2>1. (i + 1) * ElemSize <= r.block /\ i + 1 \in Nat
    BY <1>1 DEF InBlock
  <2>2. i \in Slots
    BY <2>1, BlockClosed DEF Sound
  <2> QED BY <1>1, <2>2 DEF Read, Sound
<1>2. CASE ~InBlock(r, i)
  BY <1>2 DEF Read
<1> QED BY <1>1, <1>2

LEMMA SoundType ==
  ASSUME NEW r, Sound(r)
  PROVE  r \in ArrayType
<1>1. /\ r.length \in 0 .. Usize - 1 /\ r.capacity \in 0 .. Usize - 1
      /\ r.block \in 0 .. IsizeMax
  BY SizeAssumption DEF Sound, Fitting, IsizeMax
<1>2. r = [length |-> r.length, capacity |-> r.capacity, block |-> r.block, slot |-> r.slot]
  BY DEF Sound, Fitting, Record
<1> QED BY <1>1, <1>2 DEF ArrayType, Sound

\* What Put and Copy make of each slot.
LEMMA PutSound ==
  ASSUME NEW r, Sound(r), NEW i, NEW e \in Elements \union {None}
  PROVE  /\ Sound(Put(r, i, e))
         /\ Put(r, i, e).length = r.length /\ Put(r, i, e).block = r.block
         /\ \A j \in Slots :
              Put(r, i, e).slot[j] = IF j = i /\ InBlock(r, i) THEN e ELSE r.slot[j]
<1> DEFINE s == [j \in Slots |-> IF j = i /\ InBlock(r, i) THEN e ELSE r.slot[j]]
           q == [r EXCEPT !.slot = s]
<1>1. Put(r, i, e) = q
  BY DEF Put
<1>2. s \in [Slots -> Elements \union {None}]
  BY DEF Sound
<1>3. /\ \A j \in Slots : s[j] = IF j = i /\ InBlock(r, i) THEN e ELSE r.slot[j]
  OBVIOUS
<1> HIDE DEF s
<1>4. q = [length |-> r.length, capacity |-> r.capacity, block |-> r.block, slot |-> s]
  BY DEF Sound, Fitting, Record
<1> HIDE DEF q
<1>5. Fitting(q)
  BY <1>1, PutFitting DEF Sound
<1> QED BY <1>1, <1>2, <1>3, <1>4, <1>5 DEF Sound

LEMMA CopySound ==
  ASSUME NEW r, Sound(r), NEW from \in Nat, NEW to \in Nat, NEW n \in Nat
  PROVE  /\ Sound(Copy(r, from, to, n))
         /\ Copy(r, from, to, n).length = r.length
         /\ \A j \in Nat : j \in Slots =>
              Copy(r, from, to, n).slot[j] =
              IF j \in to .. to + n - 1 /\ InBlock(r, j)
              THEN Read(r, from + (j - to)) ELSE r.slot[j]
<1> DEFINE s == [j \in Slots |-> IF j \in to .. to + n - 1 /\ InBlock(r, j)
                                 THEN Read(r, from + (j - to)) ELSE r.slot[j]]
           q == [r EXCEPT !.slot = s]
<1>1. Copy(r, from, to, n) = q
  BY DEF Copy
<1>2. s \in [Slots -> Elements \union {None}]
  <2>1. \A j \in to .. to + n - 1 : from + (j - to) \in Nat
    OBVIOUS
  <2>2. \A j \in to .. to + n - 1 : Read(r, from + (j - to)) \in Elements \union {None}
    BY <2>1, ReadType
  <2> QED BY <2>2 DEF Sound
<1>3. \A j \in Slots : s[j] = IF j \in to .. to + n - 1 /\ InBlock(r, j)
                              THEN Read(r, from + (j - to)) ELSE r.slot[j]
  OBVIOUS
<1> HIDE DEF s
<1>4. q = [length |-> r.length, capacity |-> r.capacity, block |-> r.block, slot |-> s]
  BY DEF Sound, Fitting, Record
<1> HIDE DEF q
<1>5. Fitting(q)
  BY <1>1, CopyFitting DEF Sound
<1> QED BY <1>1, <1>2, <1>3, <1>4, <1>5 DEF Sound

\* Any length the block has room for shows the slots below it.
LEMMA LengthSound ==
  ASSUME NEW r, Sound(r), NEW n \in Nat, n <= r.capacity, n * ElemSize <= r.block
  PROVE  /\ Sound([r EXCEPT !.length = n])
         /\ [r EXCEPT !.length = n].length = n
         /\ \A i \in 0 .. n - 1 : i \in Slots /\ Read([r EXCEPT !.length = n], i) = r.slot[i]
<1> DEFINE q == [r EXCEPT !.length = n]
<1>1. q = [length |-> n, capacity |-> r.capacity, block |-> r.block, slot |-> r.slot]
  BY DEF Sound, Fitting, Record
<1>2. Fitting(q)
  BY LengthFitting DEF Sound
<1> HIDE DEF q
<1>3. Sound(q)
  BY <1>1, <1>2 DEF Sound
<1>4. Visible(q) = 0 .. n - 1
  BY <1>1 DEF Visible
<1>5. \A i \in 0 .. n - 1 : i \in Slots /\ Read(q, i) = q.slot[i]
  BY <1>3, <1>4, VisibleInBlock
<1> QED BY <1>1, <1>3, <1>5 DEF q

-----------------------------------------------------------------------------
(* What an array shows after each method.                                  *)

\* One element fewer, and room for n elements leaves room for n - 1.
LEMMA Shorter ==
  ASSUME NEW r, Sound(r), r.length > 0
  PROVE  /\ r.length - 1 \in Nat /\ r.length - 1 <= r.capacity
         /\ (r.length - 1) * ElemSize <= r.block
<1>1. r.length \in Nat /\ r.length - 1 \in Nat /\ r.length - 1 <= r.capacity
  BY DEF Sound, Fitting
<1>2. (r.length - 1) * ElemSize <= r.length * ElemSize
  BY <1>1, TimesMonotonic, SizeAssumption
<1>3. (r.length - 1) * ElemSize \in Nat /\ r.length * ElemSize \in Nat
  BY <1>1, SizeAssumption
<1> QED BY <1>1, <1>2, <1>3 DEF Sound, Fitting

LEMMA WrapLast ==
  ASSUME NEW r, Sound(r), r.length > 0
  PROVE  Wrap(r.length - 1) = r.length - 1
<1>1. \A m \in Nat \ {0} : \A x \in 0 .. m - 1 : x % m = x
  OBVIOUS
<1> QED BY <1>1, Shorter, SizeAssumption DEF Wrap, Sound, Fitting

LEMMA PoppedShows ==
  ASSUME NEW r, Sound(r), r.length > 0
  PROVE  /\ Sound(Popped(r).arr) /\ Popped(r).slot = r.length - 1
         /\ Popped(r).arr.length = r.length - 1
         /\ \A j \in 0 .. r.length - 2 : Read(Popped(r).arr, j) = Read(r, j)
<1> DEFINE n == r.length - 1
           q == [r EXCEPT !.length = n]
<1>1. Popped(r) = [arr |-> q, slot |-> n]
  BY WrapLast DEF Popped
<1>2. n \in Nat /\ n <= r.capacity /\ n * ElemSize <= r.block
  BY Shorter
<1>3. \A j \in 0 .. r.length - 2 : j \in 0 .. n - 1 /\ j \in Visible(r)
  BY <1>2 DEF Visible, Sound, Fitting
<1> HIDE DEF n
<1>4. /\ Sound(q) /\ q.length = n
      /\ \A j \in 0 .. n - 1 : Read(q, j) = r.slot[j]
  BY <1>2, LengthSound
<1> HIDE DEF q
<1>5. \A j \in 0 .. r.length - 2 : Read(q, j) = Read(r, j)
  BY <1>3, <1>4, VisibleInBlock
<1> QED BY <1>1, <1>4, <1>5 DEF n

\* remove_unchecked moves the elements behind i down by one.
LEMMA RemovedShows ==
  ASSUME NEW r, Sound(r), NEW i \in Visible(r)
  PROVE  /\ Sound(Removed(r, i).arr)
         /\ Removed(r, i).arr.length = r.length - 1
         /\ \A j \in 0 .. r.length - 2 :
              Read(Removed(r, i).arr, j) = Read(r, IF j < i THEN j ELSE j + 1)
<1>1. i \in Nat /\ i < r.length /\ r.length \in Nat
  BY VisibleInBlock DEF Sound, Fitting
<1> DEFINE n == r.length - 1
           c == Copy(r, i + 1, i, r.length - i)
           q == [c EXCEPT !.length = n]
<1>2. n \in Nat /\ n <= r.capacity /\ n * ElemSize <= r.block
  BY <1>1, Shorter
<1> DEFINE from == i + 1
           k == r.length - i
<1>3. c = Copy(r, from, i, k) /\ from \in Nat /\ k \in Nat
  BY <1>1
<1>4. Removed(r, i).arr = q /\ c.block = r.block /\ c.capacity = r.capacity
  <2>1. Fitting(c) /\ c.capacity = r.capacity /\ c.length = r.length
    BY CopyFitting DEF Sound
  <2>2. c.block = r.block
    BY <2>1 DEF Fitting, Sound
  <2> QED BY <2>1, <2>2 DEF Removed, Result
<1> HIDE DEF c, from, k
<1>5. Sound(c) /\ c.length = r.length
  <2>1. Sound(Copy(r, from, i, k))
    BY <1>1, <1>3, CopySound
  <2>2. Copy(r, from, i, k).length = r.length
    BY CopyFitting DEF Sound
  <2> QED BY <1>3, <2>1, <2>2
<1>6. /\ Sound(q) /\ q.length = n
      /\ \A j \in 0 .. n - 1 : j \in Slots /\ Read(q, j) = c.slot[j]
  <2> HIDE DEF n
  <2> QED BY <1>2, <1>4, <1>5, LengthSound
<1> HIDE DEF q
<1>7. ASSUME NEW j \in 0 .. r.length - 2
      PROVE  Read(q, j) = Read(r, IF j < i THEN j ELSE j + 1)
  <2>1. j \in 0 .. n - 1 /\ j \in Visible(r)
    BY <1>1 DEF Visible
  <2>2. Read(q, j) = c.slot[j] /\ j \in Slots /\ InBlock(r, j) /\ Read(r, j) = r.slot[j]
    BY <1>6, <2>1, VisibleInBlock
  <2>3. CASE j < i
    <3>1. ~(j \in i .. i + k - 1 /\ InBlock(r, j)) /\ j \in Nat
      BY <1>1, <2>3
    <3>2. c.slot[j] = r.slot[j]
      BY <1>1, <1>3, <2>2, <3>1, CopySound
    <3> QED BY <2>2, <2>3, <3>2
  <2>4. CASE ~(j < i)
    <3>1. j \in i .. i + k - 1 /\ from + (j - i) = j + 1 /\ j \in Nat
      BY <1>1, <2>4 DEF from, k
    <3>2. c.slot[j] = Read(r, from + (j - i))
      BY <1>1, <1>3, <2>2, <3>1, CopySound
    <3> QED BY <2>2, <2>4, <3>1, <3>2
  <2> QED BY <2>3, <2>4
<1> QED BY <1>4, <1>6, <1>7

\* swap_remove_unchecked stores the last element in the gap.
LEMMA SwappedShows ==
  ASSUME NEW r, Sound(r), NEW i \in Visible(r)
  PROVE  /\ Sound(SwappedOut(r, i).arr)
         /\ SwappedOut(r, i).arr.length = r.length - 1
         /\ \A j \in 0 .. r.length - 2 :
              Read(SwappedOut(r, i).arr, j) = Read(r, IF j = i THEN r.length - 1 ELSE j)
<1>1. i \in Nat /\ i < r.length /\ r.length \in Nat /\ InBlock(r, i)
  BY VisibleInBlock DEF Sound, Fitting
<1> DEFINE n == r.length - 1
           c == Put(r, i, Read(r, n))
           q == [c EXCEPT !.length = n]
<1>2. n \in Nat /\ n <= r.capacity /\ n * ElemSize <= r.block
  BY <1>1, Shorter
<1>3. Read(r, n) \in Elements \union {None}
  BY <1>2, ReadType
<1>4. /\ Sound(c) /\ c.length = r.length /\ c.capacity = r.capacity /\ c.block = r.block
      /\ \A j \in Slots : c.slot[j] = IF j = i THEN Read(r, n) ELSE r.slot[j]
  <2>1. c.capacity = r.capacity
    BY PutFitting DEF Sound
  <2> QED BY <1>1, <1>3, <2>1, PutSound
<1>5. SwappedOut(r, i).arr = q
  BY <1>4 DEF SwappedOut, Result
<1> HIDE DEF c
<1>6. /\ Sound(q) /\ q.length = n
      /\ \A j \in 0 .. n - 1 : j \in Slots /\ Read(q, j) = c.slot[j]
  <2> HIDE DEF n
  <2> QED BY <1>2, <1>4, LengthSound
<1> HIDE DEF q
<1>7. ASSUME NEW j \in 0 .. r.length - 2
      PROVE  Read(q, j) = Read(r, IF j = i THEN n ELSE j)
  <2>1. j \in 0 .. n - 1 /\ j \in Visible(r)
    BY <1>1 DEF Visible
  <2>2. Read(q, j) = c.slot[j] /\ j \in Slots /\ Read(r, j) = r.slot[j]
    BY <1>6, <2>1, VisibleInBlock
  <2> QED BY <1>4, <2>2
<1> QED BY <1>5, <1>6, <1>7

\* push_within_capacity stores one element behind the others.
LEMMA WrittenShows ==
  ASSUME NEW r, Sound(r), NEW e \in Elements, Room(r, 1), r.length < r.capacity
  PROVE  LET s == [Put(r, r.length, e) EXCEPT !.length = @ + 1] IN
         /\ Sound(s) /\ s.length = r.length + 1
         /\ \A j \in Visible(r) : Read(s, j) = Read(r, j)
         /\ Read(s, r.length) = e
<1> DEFINE n == r.length + 1
           c == Put(r, r.length, e)
           q == [c EXCEPT !.length = n]
<1>1. r.length \in Nat /\ n \in Nat /\ n <= r.capacity /\ n * ElemSize <= r.block
  BY DEF Sound, Fitting, Room
<1>2. InBlock(r, r.length)
  BY <1>1 DEF InBlock
<1>3. /\ Sound(c) /\ c.length = r.length /\ c.capacity = r.capacity /\ c.block = r.block
      /\ \A j \in Slots : c.slot[j] = IF j = r.length THEN e ELSE r.slot[j]
  <2>1. c.capacity = r.capacity
    BY PutFitting DEF Sound
  <2> QED BY <1>2, <2>1, PutSound
<1>4. [Put(r, r.length, e) EXCEPT !.length = @ + 1] = q
  BY <1>3
<1> HIDE DEF c
<1>5. /\ Sound(q) /\ q.length = n
      /\ \A j \in 0 .. n - 1 : j \in Slots /\ Read(q, j) = c.slot[j]
  <2> HIDE DEF n
  <2> QED BY <1>1, <1>3, LengthSound
<1> HIDE DEF q
<1>6. r.length \in 0 .. n - 1 /\ \A j \in Visible(r) : j \in 0 .. n - 1 /\ j # r.length
  BY <1>1 DEF Visible
<1>7. \A j \in Visible(r) : Read(q, j) = Read(r, j)
  BY <1>3, <1>5, <1>6, VisibleInBlock
<1>8. Read(q, r.length) = e
  BY <1>3, <1>5, <1>6
<1> QED BY <1>4, <1>5, <1>7, <1>8

\* clear shows nothing.
LEMMA EmptiedShows ==
  ASSUME NEW r, Sound(r)
  PROVE  Sound([r EXCEPT !.length = 0]) /\ [r EXCEPT !.length = 0].length = 0
<1>1. 0 \in Nat /\ 0 <= r.capacity /\ 0 * ElemSize <= r.block
  BY SizeAssumption DEF Sound, Fitting
<1> QED BY <1>1, LengthSound

\* reserve keeps what is shown and tells grow the layout of the block.
LEMMA ReservedShows ==
  ASSUME NEW r, Sound(r), ElemSize = 1, NEW n \in Nat, NEW o \in Reserved(r, n)
  PROVE  Sound(o.arr) /\ Same(r, o.arr) /\ o.fault = {} /\ (o.ok = TRUE \/ o.ok = FALSE)
<1>1. Fitting(o.arr) /\ Same(r, o.arr)
  BY ReservedFitting DEF Sound
<1>2. ElemSize * r.capacity = r.block
  BY DEF Sound, Fitting
<1>3. \/ o = Result(FALSE, r, {})
      \/ \E got : o = Result(TRUE, Resized(r, got), {})
  BY <1>2, Zenon DEF Reserved
<1>4. o.fault = {} /\ (o.ok = TRUE \/ o.ok = FALSE)
  BY <1>3 DEF Result
<1>5. o.arr.slot = r.slot
  <2>1. Record(r)
    BY DEF Sound, Fitting
  <2>2. \A got : Resized(r, got).slot = r.slot
    BY <2>1 DEF Resized, Record
  <2> QED BY <1>3, <2>2 DEF Result
<1>6. o.arr.length * ElemSize <= o.arr.block
  BY <1>1 DEF Fitting
<1> QED BY <1>1, <1>4, <1>5, <1>6 DEF Sound

\* with_capacity replaces an array that shows nothing by another.
LEMMA MadeShows ==
  ASSUME NEW r, Sound(r), r.block = 0, NEW n \in Nat,
         LayoutOk(Wrap(ElemSize * n)), NEW got \in Granted(Wrap(ElemSize * n))
  PROVE  Sound(Made(got)) /\ Same(r, Made(got))
<1>1. got \in Nat /\ got < Usize /\ got <= IsizeMax
  BY WrapType, BytesCover, GrantedFitting
<1>2. /\ Fitting(Made(got))
      /\ Made(got) = [length |-> 0, capacity |-> got, block |-> got,
                      slot |-> [i \in Slots |-> None]]
  BY <1>1, MadeFitting
<1>3. 0 * ElemSize <= got
  BY <1>1, SizeAssumption
<1>4. Sound(Made(got))
  BY <1>2, <1>3 DEF Sound
<1>5. r.length = 0
  BY SizeAssumption DEF Sound, Fitting
<1>6. Same(r, Made(got))
  BY <1>2, <1>5 DEF Same, Visible
<1> QED BY <1>4, <1>6

-----------------------------------------------------------------------------
(* Who owns the elements after a step.                                     *)

\* s shows what slots p[0], p[1], .. of r show, none of them twice; the slots
\* of r in Left are shown no more.
Rearranges(r, s, p, Left) ==
  /\ p \in [Visible(s) -> Visible(r)]
  /\ \A j, k \in Visible(s) : p[j] = p[k] => j = k
  /\ Left \subseteq Visible(r)
  /\ \A i \in Visible(r) : i \in Left <=> \A j \in Visible(s) : p[j] # i
  /\ \A j \in Visible(s) : Read(s, j) = Read(r, p[j])

\* The other arrays, and what a step reports.
LEMMA DoneOthers ==
  ASSUME Owned, NEW call, NEW a \in Arrays, NEW o, Sound(o.arr),
         o.fault \subseteq Harmless, NEW in, NEW v, Done(call, a, o, in, v)
  PROVE  /\ arr' \in [Arrays -> ArrayType] /\ \A b \in Arrays : Sound(arr'[b])
         /\ arr'[a] = o.arr /\ \A b \in Arrays \ {a} : arr'[b] = arr[b]
         /\ inside' = in
         /\ fault' \subseteq Harmless
         /\ DOMAIN last' = {"call", "on", "ok", "value"}
<1>1. /\ arr' = [arr EXCEPT ![a] = o.arr] /\ arr \in [Arrays -> ArrayType]
      /\ fault' = fault \union o.fault /\ inside' = in
  BY DEF Done, Owned
<1>2. /\ arr' \in [Arrays -> ArrayType] /\ arr'[a] = o.arr
      /\ \A b \in Arrays \ {a} : arr'[b] = arr[b]
  BY <1>1, SoundType
<1>3. DOMAIN last' = {"call", "on", "ok", "value"}
  BY DEF Done
<1> QED BY <1>1, <1>2, <1>3 DEF Owned

\* An element an array shows no more has left it, the others are still there.
LEMMA RearrangedKeeps ==
  ASSUME Owned, NEW call, NEW a \in Arrays, NEW o, Sound(o.arr),
         o.fault \subseteq Harmless,
         NEW p, NEW Left, Rearranges(arr[a], o.arr, p, Left),
         NEW in, in = inside \ {Read(arr[a], i) : i \in Left},
         NEW v, Done(call, a, o, in, v)
  PROVE  Owned'
<1> DEFINE r == arr[a]
           from(b, j) == IF b = a THEN p[j] ELSE j
<1>1. /\ arr' \in [Arrays -> ArrayType] /\ \A b \in Arrays : Sound(arr'[b])
      /\ arr'[a] = o.arr /\ \A b \in Arrays \ {a} : arr'[b] = arr[b]
      /\ inside' = in
      /\ fault' \subseteq Harmless
      /\ DOMAIN last' = {"call", "on", "ok", "value"}
  BY DoneOthers
<1>2. ASSUME NEW b \in Arrays, NEW j \in Visible(arr'[b])
      PROVE  /\ from(b, j) \in Visible(arr[b])
             /\ Read(arr'[b], j) = Read(arr[b], from(b, j))
             /\ b = a => from(b, j) \notin Left
  BY <1>1 DEF Rearranges
<1>3. ASSUME NEW b \in Arrays, NEW c \in Arrays,
             NEW j \in Visible(arr'[b]), NEW k \in Visible(arr'[c]),
             <<b, j>> # <<c, k>>
      PROVE  <<b, from(b, j)>> # <<c, from(c, k)>>
  BY <1>1, <1>3 DEF Rearranges
<1> HIDE DEF from
<1>4. ASSUME NEW b \in Arrays, NEW c \in Arrays,
             NEW j \in Visible(arr'[b]), NEW k \in Visible(arr'[c]),
             <<b, j>> # <<c, k>>
      PROVE  Read(arr'[b], j) # Read(arr'[c], k)
  BY <1>2, <1>3, <1>4 DEF Owned
<1>5. ASSUME NEW b \in Arrays, NEW j \in Visible(arr'[b])
      PROVE  Read(arr'[b], j) \in in
  <2>1. Read(arr[b], from(b, j)) \in inside
    BY <1>2 DEF Owned
  <2>2. ASSUME NEW i \in Left PROVE Read(arr[b], from(b, j)) # Read(r, i)
    <3>1. <<b, from(b, j)>> # <<a, i>>
      BY <1>2
    <3>2. i \in Visible(r)
      BY DEF Rearranges
    <3> QED BY <1>2, <3>1, <3>2 DEF Owned
  <2> QED BY <1>2, <2>1, <2>2
<1>6. ASSUME NEW e \in in
      PROVE  \E b \in Arrays : \E j \in Visible(arr'[b]) : Read(arr'[b], j) = e
  <2>0. PICK b \in Arrays : \E i \in Visible(arr[b]) : Read(arr[b], i) = e
    BY DEF Owned
  <2>1. PICK i \in Visible(arr[b]) : Read(arr[b], i) = e
    BY <2>0
  <2>2. CASE b # a
    BY <1>1, <2>1, <2>2
  <2>3. CASE b = a
    <3>1. i \notin Left /\ i \in Visible(r) /\ Rearranges(r, o.arr, p, Left)
      BY <2>1, <2>3
    <3> HIDE DEF r
    <3>2. PICK j \in Visible(o.arr) : p[j] = i
      BY <3>1 DEF Rearranges
    <3>3. Read(o.arr, j) = Read(r, i)
      BY <3>1, <3>2 DEF Rearranges
    <3> QED BY <1>1, <2>1, <2>3, <3>3 DEF r
  <2> QED BY <2>2, <2>3
<1>7. in \subseteq Elements
  BY DEF Owned
<1> QED BY <1>1, <1>4, <1>5, <1>6, <1>7 DEF Owned

\* A call that changes nothing an array shows.
LEMMA SameOwned ==
  ASSUME Owned, NEW call, NEW a \in Arrays, NEW o, Sound(o.arr),
         o.fault \subseteq Harmless, Same(arr[a], o.arr), NEW v,
         Done(call, a, o, inside, v)
  PROVE  Owned'
<1> DEFINE p == [j \in Visible(o.arr) |-> j]
<1>1. Visible(o.arr) = Visible(arr[a])
  BY DEF Same, Visible
<1>2. /\ p \in [Visible(o.arr) -> Visible(arr[a])]
      /\ \A j \in Visible(o.arr) : p[j] = j
  BY <1>1
<1>3. inside = inside \ {Read(arr[a], i) : i \in {}}
  OBVIOUS
<1> HIDE DEF p
<1>4. \A j \in Visible(o.arr) : Read(o.arr, j) = Read(arr[a], p[j])
  BY <1>1, <1>2 DEF Same
<1>5. \A i \in Visible(arr[a]) : i \in {} <=> \A j \in Visible(o.arr) : p[j] # i
  BY <1>1, <1>2
<1>6. Rearranges(arr[a], o.arr, p, {})
  BY <1>2, <1>4, <1>5 DEF Rearranges
<1> QED BY <1>3, <1>6, RearrangedKeeps

LEMMA RefusedOwned ==
  ASSUME Owned, NEW call, NEW a \in Arrays, Refused(call, a) \/ Panicked(call, a)
  PROVE  Owned'
<1>1. PICK f \in {{}, {"overflow"}} :
        Done(call, a, Result(FALSE, arr[a], f), inside, None)
  BY Zenon DEF Refused, Panicked
<1> DEFINE o == Result(FALSE, arr[a], f)
<1>2. o.arr = arr[a] /\ o.fault = f
  BY DEF Result
<1> HIDE DEF o
<1>3. Sound(arr[a]) /\ Same(arr[a], arr[a]) /\ f \subseteq Harmless
  BY SameItself DEF Owned, Harmless
<1> QED BY <1>1, <1>2, <1>3, SameOwned DEF o

\* An element that is visible is alive, and in the block.
LEMMA TakesOwn ==
  ASSUME Owned, NEW a \in Arrays, NEW i \in Visible(arr[a])
  PROVE  Touching(arr[a], {i}) = {} /\ Losing(arr[a], {i}) = {}
<1>1. InBlock(arr[a], i) /\ Read(arr[a], i) \in inside
  BY VisibleInBlock DEF Owned
<1>2. {Read(arr[a], j) : j \in {i}} = {Read(arr[a], i)}
  OBVIOUS
<1>3. Cardinality({Read(arr[a], i)}) = Cardinality({i})
  BY FS_Singleton
<1>4. Touching(arr[a], {i}) = {}
  BY <1>1 DEF Touching
<1>5. Losing(arr[a], {i}) = {}
  BY <1>1, <1>2, <1>3 DEF Losing
<1> QED BY <1>4, <1>5

\* pop and the removes: one element leaves, the others stay in some order.
LEMMA HandOutOwned ==
  ASSUME Owned, NEW call, NEW a \in Arrays, NEW s, Sound(s),
         NEW i \in Visible(arr[a]),
         NEW p, Rearranges(arr[a], s, p, {i}),
         NEW f, f \subseteq Harmless,
         HandOut(call, a, Result(TRUE, s, f), i)
  PROVE  Owned'
<1> DEFINE r == arr[a]
           o == Result(TRUE, s, f)
           g == o.fault \union Touching(r, {i}) \union Losing(r, {i})
           q == [o EXCEPT !.fault = g]
           in == inside \ {Read(r, i)}
<1>1. Done(call, a, q, in, Read(r, i))
  BY DEF HandOut
<1>2. g = f
  BY TakesOwn DEF Result
<1>3. q.arr = s /\ q.fault = g
  <2> HIDE DEF g
  <2> QED BY DEF Result
<1> HIDE DEF q, g
<1>4. in = inside \ {Read(r, j) : j \in {i}}
  OBVIOUS
<1> HIDE DEF in
<1>5. Sound(q.arr) /\ q.fault \subseteq Harmless /\ Rearranges(r, q.arr, p, {i})
  BY <1>2, <1>3
<1> QED BY <1>1, <1>4, <1>5, RearrangedKeeps

LEMMA PopLastOwned ==
  ASSUME Owned, NEW call, NEW a \in Arrays, arr[a].length > 0, PopLast(call, a)
  PROVE  Owned'
<1> DEFINE r == arr[a]
           s == Popped(r).arr
           n == r.length - 1
           p == [j \in Visible(s) |-> j]
<1>1. Sound(r)
  BY DEF Owned
<1>2. r.length \in Nat /\ n \in Nat /\ n \in Visible(r) /\ Visible(r) = 0 .. n
  BY <1>1 DEF Visible, Sound, Fitting
<1>3. /\ Sound(s) /\ Popped(r).slot = n /\ s.length = n
      /\ \A j \in 0 .. r.length - 2 : Read(s, j) = Read(r, j)
  BY <1>1, PoppedShows
<1>4. HandOut(call, a, Result(TRUE, s, {}), n)
  BY <1>3 DEF PopLast
<1> HIDE DEF s
<1>5. Visible(s) = 0 .. n - 1
  BY <1>3 DEF Visible
<1>6. /\ p \in [Visible(s) -> Visible(r)]
      /\ \A j \in Visible(s) : p[j] = j
  BY <1>2, <1>5
<1> HIDE DEF p
<1>7. \A j, k \in Visible(s) : p[j] = p[k] => j = k
  BY <1>6
<1>8. \A j \in Visible(r) : j = n <=> \A k \in Visible(s) : p[k] # j
  BY <1>2, <1>5, <1>6
<1>9. ASSUME NEW j \in Visible(s) PROVE Read(s, j) = Read(r, p[j])
  <2>1. j \in 0 .. r.length - 2 /\ p[j] = j
    BY <1>2, <1>5, <1>6
  <2> QED BY <1>3, <2>1
<1>10. Rearranges(r, s, p, {n})
  BY <1>2, <1>6, <1>7, <1>8, <1>9 DEF Rearranges
<1> HIDE DEF n
<1> DEFINE f == {}
<1>11. f \subseteq Harmless /\ HandOut(call, a, Result(TRUE, s, f), n)
  BY <1>4
<1> HIDE DEF f
<1> QED BY <1>2, <1>3, <1>10, <1>11, HandOutOwned

LEMMA RemovedOwned ==
  ASSUME Owned, NEW call, NEW a \in Arrays, NEW i \in Visible(arr[a]),
         HandOut(call, a, Removed(arr[a], i), i)
  PROVE  Owned'
<1> DEFINE r == arr[a]
           s == Removed(r, i).arr
           n == r.length - 1
           p == [j \in Visible(s) |-> IF j < i THEN j ELSE j + 1]
<1>1. Sound(r) /\ Fitting(r)
  BY DEF Owned, Sound
<1>2. r.length \in Nat /\ n \in Nat /\ i \in 0 .. n /\ Visible(r) = 0 .. n
  BY <1>1, VisibleInBlock DEF Visible, Sound, Fitting
<1>3. /\ Sound(s) /\ s.length = n
      /\ \A j \in 0 .. r.length - 2 : Read(s, j) = Read(r, IF j < i THEN j ELSE j + 1)
  BY <1>1, RemovedShows
<1>4. Touching(r, i .. r.length - 1) = {}
  <2>1. ASSUME NEW j \in i .. r.length - 1 PROVE InBlock(r, j)
    <3>1. j \in Visible(r)
      BY <1>2
    <3> QED BY <1>1, <3>1, VisibleInBlock
  <2> QED BY <2>1 DEF Touching
<1> DEFINE f == IF InBlock(r, r.length) THEN {} ELSE {"overrun"}
<1>5. HandOut(call, a, Result(TRUE, s, f), i) /\ f \subseteq Harmless
  BY <1>4 DEF Removed, Result, Harmless
<1> HIDE DEF f
<1> HIDE DEF s
<1>6. Visible(s) = 0 .. n - 1
  BY <1>3 DEF Visible
<1>7. /\ p \in [Visible(s) -> Visible(r)]
      /\ \A j \in Visible(s) : p[j] = IF j < i THEN j ELSE j + 1
  BY <1>2, <1>6
<1> HIDE DEF p
<1>8. \A j, k \in Visible(s) : p[j] = p[k] => j = k
  BY <1>2, <1>6, <1>7
<1>9. ASSUME NEW j \in Visible(r) PROVE j = i <=> \A k \in Visible(s) : p[k] # j
  <2>1. CASE j < i
    <3>1. j \in Visible(s) /\ p[j] = j
      BY <1>2, <1>6, <1>7, <2>1
    <3> QED BY <1>2, <2>1, <3>1
  <2>2. CASE j = i
    BY <1>2, <1>6, <1>7, <2>2
  <2>3. CASE j > i
    <3>1. j - 1 \in Visible(s) /\ p[j - 1] = j
      BY <1>2, <1>6, <1>7, <2>3
    <3> QED BY <1>2, <2>3, <3>1
  <2>4. j < i \/ j = i \/ j > i
    BY <1>2
  <2> QED BY <2>1, <2>2, <2>3, <2>4
<1>10. ASSUME NEW j \in Visible(s) PROVE Read(s, j) = Read(r, p[j])
  <2>1. j \in 0 .. r.length - 2 /\ p[j] = IF j < i THEN j ELSE j + 1
    BY <1>2, <1>6, <1>7
  <2>2. Read(s, j) = Read(r, IF j < i THEN j ELSE j + 1)
    BY <1>3, <2>1
  <2> QED BY <2>1, <2>2
<1>11. Rearranges(r, s, p, {i})
  BY <1>7, <1>8, <1>9, <1>10 DEF Rearranges
<1> QED BY <1>3, <1>5, <1>11, HandOutOwned

LEMMA SwappedOwned ==
  ASSUME Owned, NEW call, NEW a \in Arrays, NEW i \in Visible(arr[a]),
         HandOut(call, a, SwappedOut(arr[a], i), i)
  PROVE  Owned'
<1> DEFINE r == arr[a]
           s == SwappedOut(r, i).arr
           n == r.length - 1
           p == [j \in Visible(s) |-> IF j = i THEN n ELSE j]
<1>1. Sound(r) /\ Fitting(r)
  BY DEF Owned, Sound
<1>2. r.length \in Nat /\ n \in Nat /\ i \in 0 .. n /\ Visible(r) = 0 .. n
  BY <1>1, VisibleInBlock DEF Visible, Sound, Fitting
<1>3. /\ Sound(s) /\ s.length = n
      /\ \A j \in 0 .. r.length - 2 : Read(s, j) = Read(r, IF j = i THEN n ELSE j)
  BY <1>1, SwappedShows
<1>4. Touching(r, {i, r.length - 1}) = {}
  BY <1>1, <1>2, VisibleInBlock DEF Touching
<1>5. HandOut(call, a, Result(TRUE, s, {}), i)
  BY <1>4 DEF SwappedOut, Result
<1> HIDE DEF s
<1>6. Visible(s) = 0 .. n - 1
  BY <1>3 DEF Visible
<1>7. /\ p \in [Visible(s) -> Visible(r)]
      /\ \A j \in Visible(s) : p[j] = IF j = i THEN n ELSE j
  BY <1>2, <1>6
<1> HIDE DEF p
<1>8. \A j, k \in Visible(s) : p[j] = p[k] => j = k
  BY <1>2, <1>6, <1>7
<1>9. ASSUME NEW j \in Visible(r) PROVE j = i <=> \A k \in Visible(s) : p[k] # j
  <2>1. CASE j = i
    BY <1>2, <1>6, <1>7, <2>1
  <2>2. CASE j # i /\ j = n
    <3>1. i \in Visible(s) /\ p[i] = j
      BY <1>2, <1>6, <1>7, <2>2
    <3> QED BY <2>2, <3>1
  <2>3. CASE j # i /\ j # n
    <3>1. j \in Visible(s) /\ p[j] = j
      BY <1>2, <1>6, <1>7, <2>3
    <3> QED BY <2>3, <3>1
  <2> QED BY <2>1, <2>2, <2>3
<1>10. ASSUME NEW j \in Visible(s) PROVE Read(s, j) = Read(r, p[j])
  <2>1. j \in 0 .. r.length - 2 /\ p[j] = IF j = i THEN n ELSE j
    BY <1>2, <1>6, <1>7
  <2>2. Read(s, j) = Read(r, IF j = i THEN n ELSE j)
    BY <1>3, <2>1
  <2> QED BY <2>1, <2>2
<1>11. Rearranges(r, s, p, {i})
  BY <1>7, <1>8, <1>9, <1>10 DEF Rearranges
<1> DEFINE f == {}
<1>12. f \subseteq Harmless /\ HandOut(call, a, Result(TRUE, s, f), i)
  BY <1>5
<1> HIDE DEF f
<1> QED BY <1>3, <1>11, <1>12, HandOutOwned

LEMMA PopOwned ==
  ASSUME Owned, NEW a \in Arrays, Pop(a)
  PROVE  Owned'
BY PopLastOwned, RefusedOwned DEF Pop

\* The removes, of an index in bounds.
LEMMA RemovesOwned ==
  ASSUME Owned, Disciplined, NEW a \in Arrays, NEW i \in Indices,
         \/ Remove(a, i) \/ RemoveUnchecked(a, i)
         \/ SwapRemove(a, i) \/ SwapRemoveUnchecked(a, i)
  PROVE  Owned'
<1> DEFINE r == arr[a]
<1>1. i \in Nat /\ i < Usize /\ r.length \in Nat /\ Sound(r)
  BY InputAssumption, SizeAssumption DEF Owned, Sound, Fitting
<1>2. r.length > 0 => LastIndex(r) = r.length - 1
  BY <1>1, WrapLast DEF LastIndex
<1>3. r.length = 0 => OverflowChecks \/ i # LastIndex(r)
  <2>1. ASSUME r.length = 0 PROVE LastIndex(r) = Usize - 1
    <3>1. \A m \in Nat \ {0} : (0 - 1) % m = m - 1
      OBVIOUS
    <3> QED BY <2>1, <3>1, SizeAssumption DEF LastIndex, Wrap
  <2> QED BY <2>1 DEF Disciplined
<1>4. i < r.length => i \in Visible(r)
  BY <1>1 DEF Visible
<1> HIDE DEF r
<1>5. CASE \E call : Refused(call, a) \/ Panicked(call, a)
  BY <1>5, RefusedOwned
<1>6. CASE r.length > 0 /\ \E call : PopLast(call, a)
  BY <1>6, PopLastOwned DEF r
<1>7. CASE i < r.length /\ \E call : HandOut(call, a, Removed(r, i), i)
  BY <1>4, <1>7, RemovedOwned DEF r
<1>8. CASE i < r.length /\ \E call : HandOut(call, a, SwappedOut(r, i), i)
  BY <1>4, <1>8, SwappedOwned DEF r
<1>9. CASE Remove(a, i)
  BY <1>1, <1>3, <1>5, <1>6, <1>7, <1>9 DEF Remove, r
<1>10. CASE RemoveUnchecked(a, i)
  BY <1>1, <1>7, <1>10 DEF RemoveUnchecked, r
<1>11. CASE SwapRemove(a, i)
  BY <1>1, <1>2, <1>5, <1>6, <1>8, <1>11 DEF SwapRemove, r
<1>12. CASE SwapRemoveUnchecked(a, i)
  BY <1>8, <1>12 DEF SwapRemoveUnchecked, r
<1> QED BY <1>9, <1>10, <1>11, <1>12

\* clear drops what is visible, once.
LEMMA ClearOwned ==
  ASSUME Owned, NEW a \in Arrays, Clear(a)
  PROVE  Owned'
<1> DEFINE r == arr[a]
           ok == VisibleElements(r) \intersect Fragile = {}
           s == [r EXCEPT !.length = 0]
           f == Touching(r, Visible(r)) \union Losing(r, Visible(r))
           o == Result(ok, s, f)
           in == inside \ VisibleElements(r)
           p == [j \in {} |-> j]
<1>1. Sound(r)
  BY DEF Owned
<1>2. Done(<<"clear">>, a, o, in, None)
  BY DEF Clear
<1>3. Sound(s) /\ s.length = 0
  BY <1>1, EmptiedShows
<1>4. f = {}
  <2>1. Touching(r, Visible(r)) = {}
    BY <1>1, VisibleInBlock DEF Touching
  <2>2. {Read(r, i) : i \in Visible(r)} \subseteq inside
    BY DEF Owned
  <2>3. Cardinality({Read(r, i) : i \in Visible(r)}) = Cardinality(Visible(r))
    <3> DEFINE T == {Read(r, i) : i \in Visible(r)}
               g == [i \in Visible(r) |-> Read(r, i)]
    <3>1. IsFiniteSet(Visible(r))
      BY <1>1, FS_Interval DEF Visible, Sound, Fitting
    <3>2. \A i, j \in Visible(r) : g[i] = g[j] => i = j
      BY DEF Owned
    <3>3. g \in Bijection(Visible(r), T)
      BY <3>2, Fun_IsBij
    <3> HIDE DEF T, g
    <3>4. Cardinality(T) = Cardinality(Visible(r))
      BY <3>1, <3>3, FS_Bijection DEF ExistsBijection
    <3> QED BY <3>4 DEF T
  <2> QED BY <2>1, <2>2, <2>3 DEF Losing
<1> HIDE DEF s, f
<1>5. o.arr = s /\ o.fault = f
  BY DEF Result
<1>6. Visible(s) = {}
  BY <1>3 DEF Visible
<1>7. Rearranges(r, s, p, Visible(r))
  BY <1>6 DEF Rearranges
<1>8. in = inside \ {Read(r, i) : i \in Visible(r)}
  BY DEF VisibleElements
<1> HIDE DEF o, in, p
<1> QED BY <1>2, <1>3, <1>4, <1>5, <1>7, <1>8, RearrangedKeeps

\* with_capacity and reserve only ever change where the elements are kept.
LEMMA SizedOwned ==
  ASSUME Owned, Disciplined, NEW a \in Arrays, NEW n \in Counts,
         WithCapacity(a, n) \/ ("reserve" \in Calls /\ Reserve(a, n))
  PROVE  Owned'
<1>1. n \in Nat /\ Sound(arr[a])
  BY InputAssumption, SizeAssumption DEF Owned
<1>2. CASE WithCapacity(a, n)
  <2> DEFINE call == <<"with_capacity", n>>
  <2>1. CASE Panicked(call, a) \/ Refused(call, a)
    BY <2>1, RefusedOwned
  <2>2. ASSUME arr[a].block = 0, LayoutOk(Wrap(ElemSize * n)),
               NEW got \in Granted(Wrap(ElemSize * n)),
               Done(call, a, Result(TRUE, Made(got), {}), inside, None)
        PROVE  Owned'
    <3> DEFINE o == Result(TRUE, Made(got), {})
    <3>1. Sound(Made(got)) /\ Same(arr[a], Made(got))
      BY <1>1, <2>2, MadeShows
    <3>2. o.arr = Made(got) /\ o.fault = {}
      BY DEF Result
    <3> HIDE DEF o, call
    <3> QED BY <2>2, <3>1, <3>2, SameOwned DEF o
  <2> QED BY <1>2, <2>1, <2>2 DEF WithCapacity
<1>3. CASE "reserve" \in Calls /\ Reserve(a, n)
  <2>1. ElemSize = 1
    BY <1>3 DEF Disciplined
  <2>2. PICK o \in Reserved(arr[a], n) : Done(<<"reserve", n>>, a, o, inside, None)
    BY <1>3 DEF Reserve
  <2>3. Sound(o.arr) /\ Same(arr[a], o.arr) /\ o.fault = {}
    BY <1>1, <2>1, ReservedShows
  <2> QED BY <2>2, <2>3, SameOwned
<1> QED BY <1>2, <1>3

\* The check of push_within_capacity makes room for a byte; for wider elements
\* the client does.
LEMMA RoomToPush ==
  ASSUME Owned, Thrifty, NEW a \in Arrays, NEW o, o.ok = TRUE, NEW in, NEW v,
         arr[a].length < arr[a].capacity,
         Done(<<"push_within_capacity">>, a, o, in, v)
  PROVE  Room(arr[a], 1)
<1>1. CASE ElemSize = 1
  <2>1. /\ arr[a].length \in Nat /\ arr[a].capacity \in Nat
        /\ arr[a].block = arr[a].capacity
    BY DEF Owned, Sound, Fitting
  <2>2. (arr[a].length + 1) * 1 <= arr[a].block
    BY <2>1
  <2> QED BY <1>1, <2>2 DEF Room
<1>2. CASE ElemSize # 1
  BY <1>2, DoneNamed DEF Thrifty
<1> QED BY <1>1, <1>2

\* An element stored in an array was in none before.
LEMMA StoredOwned ==
  ASSUME Owned, Thrifty, NEW a \in Arrays, NEW e \in Elements \ inside,
         PushWithinCapacity(a, e)
  PROVE  Owned'
<1> DEFINE r == arr[a]
           s == [Put(r, r.length, e) EXCEPT !.length = @ + 1]
           o == Result(TRUE, s, Touching(r, {r.length}))
           in == inside \union {e}
<1>1. CASE Refused(<<"push_within_capacity">>, a)
  BY <1>1, RefusedOwned
<1>2. CASE /\ r.length < r.capacity
           /\ Done(<<"push_within_capacity">>, a, o, in, None)
  <2>1. Sound(r) /\ r.length \in Nat /\ Fitting(r)
    BY DEF Owned, Sound, Fitting
  <2>0. Room(r, 1)
    <3>1. o.ok = TRUE
      BY DEF Result
    <3> HIDE DEF o, in
    <3> QED BY <1>2, <3>1, RoomToPush
  <2>2. /\ Sound(s) /\ s.length = r.length + 1
        /\ \A j \in Visible(r) : Read(s, j) = Read(r, j)
        /\ Read(s, r.length) = e
    BY <1>2, <2>0, <2>1, WrittenShows
  <2>3. InBlock(r, r.length)
    BY <2>0 DEF Room, InBlock
  <2>4. Touching(r, {r.length}) = {}
    BY <2>3 DEF Touching
  <2> HIDE DEF s
  <2>5. o.arr = s /\ o.fault = {}
    BY <2>4 DEF Result
  <2> HIDE DEF o, in
  <2>6. /\ arr' \in [Arrays -> ArrayType] /\ \A b \in Arrays : Sound(arr'[b])
        /\ arr'[a] = s /\ \A b \in Arrays \ {a} : arr'[b] = arr[b]
        /\ inside' = in
        /\ fault' \subseteq Harmless
        /\ DOMAIN last' = {"call", "on", "ok", "value"}
    BY <1>2, <2>2, <2>5, DoneOthers
  <2>7. Visible(s) = Visible(r) \union {r.length} /\ r.length \notin Visible(r)
    BY <2>1, <2>2 DEF Visible
  <2>8. ASSUME NEW b \in Arrays, NEW j \in Visible(arr'[b])
        PROVE  \/ b = a /\ j = r.length /\ Read(arr'[b], j) = e
               \/ /\ j \in Visible(arr[b])
                  /\ Read(arr'[b], j) = Read(arr[b], j)
    BY <2>2, <2>6, <2>7
  <2>9. ASSUME NEW b \in Arrays, NEW j \in Visible(arr[b])
        PROVE  /\ j \in Visible(arr'[b])
               /\ Read(arr'[b], j) = Read(arr[b], j)
               /\ Read(arr[b], j) \in inside
    BY <2>2, <2>6, <2>7 DEF Owned
  <2>10. ASSUME NEW b \in Arrays, NEW c \in Arrays,
                NEW j \in Visible(arr'[b]), NEW k \in Visible(arr'[c]),
                <<b, j>> # <<c, k>>
         PROVE  Read(arr'[b], j) # Read(arr'[c], k)
    BY <2>8, <2>9, <2>10 DEF Owned
  <2>11. ASSUME NEW b \in Arrays, NEW j \in Visible(arr'[b])
         PROVE  Read(arr'[b], j) \in in
    BY <2>8, <2>9 DEF in
  <2>12. ASSUME NEW d \in in
         PROVE  \E b \in Arrays : \E j \in Visible(arr'[b]) : Read(arr'[b], j) = d
    <3>1. CASE d \in inside
      <4>1. PICK b \in Arrays : \E j \in Visible(arr[b]) : Read(arr[b], j) = d
        BY <3>1 DEF Owned
      <4> QED BY <2>9, <4>1
    <3>2. CASE d = e
      BY <2>2, <2>6, <2>7, <3>2
    <3> QED BY <3>1, <3>2 DEF in
  <2>13. in \subseteq Elements
    BY DEF in, Owned
  <2> QED BY <2>6, <2>10, <2>11, <2>12, <2>13 DEF Owned
<1> QED BY <1>1, <1>2 DEF PushWithinCapacity

-----------------------------------------------------------------------------
(* The theorems on ownership.                                              *)

LEMMA InitOwned == Init => Owned
<1>1. IsizeMax \in Nat
  BY SizeAssumption DEF IsizeMax
<1>2. Sound(New)
  <2>1. Fitting(New)
    BY <1>1, SizeAssumption DEF Fitting, Record, New
  <2> QED BY <1>1, <2>1, SizeAssumption DEF Sound, New
<1>3. New \in ArrayType
  BY <1>2, SoundType
<1>4. Visible(New) = {}
  BY DEF Visible, New
<1> QED BY <1>2, <1>3, <1>4 DEF Init, Owned

LEMMA StepOwned ==
  ASSUME Owned, Disciplined, [Next]_vars, [Thrifty]_vars
  PROVE  Owned'
<1>1. CASE UNCHANGED vars
  BY <1>1 DEF Owned, vars
<1>2. CASE Next /\ Thrifty
  <2>1. PICK a \in Arrays :
          \/ Pop(a) \/ Clear(a)
          \/ \E n \in Counts : WithCapacity(a, n) \/ ("reserve" \in Calls /\ Reserve(a, n))
          \/ \E i \in Indices : \/ Remove(a, i) \/ RemoveUnchecked(a, i)
                               \/ SwapRemove(a, i) \/ SwapRemoveUnchecked(a, i)
          \/ \E e \in Elements \ inside : PushWithinCapacity(a, e)
    BY <1>2 DEF Next, Disciplined
  <2> QED
    BY <1>2, <2>1, PopOwned, ClearOwned, SizedOwned, RemovesOwned, StoredOwned
<1> QED BY <1>1, <1>2

\* Whatever a disciplined client calls, and in whatever order, the fields of
\* every array and the size of its block stay in range, and slots hold elements
\* or nothing.
THEOREM Typed == Disciplined /\ Spec /\ [][Thrifty]_vars => []TypeOK
<1> SUFFICES ASSUME Disciplined PROVE Spec /\ [][Thrifty]_vars => []TypeOK
  OBVIOUS
<1>1. Init => Owned
  BY InitOwned
<1>2. Owned /\ [Next]_vars /\ [Thrifty]_vars => Owned'
  BY StepOwned
<1>3. Owned => TypeOK
  BY DEF Owned, TypeOK, ArrayType, Harmless, Faults
<1> QED BY <1>1, <1>2, <1>3, PTL DEF Spec

\* What a client sees through Deref are elements alive in the block of the
\* array, and no element is seen in two places, across all arrays: no remove
\* leaves a duplicate behind, and no panicking clear a dropped element.
THEOREM Visibly == Disciplined /\ Spec /\ [][Thrifty]_vars => []VisibleAlive
<1> SUFFICES ASSUME Disciplined PROVE Spec /\ [][Thrifty]_vars => []VisibleAlive
  OBVIOUS
<1>1. Init => Owned
  BY InitOwned
<1>2. Owned /\ [Next]_vars /\ [Thrifty]_vars => Owned'
  BY StepOwned
<1>3. Owned => VisibleAlive
  <2> SUFFICES ASSUME Owned PROVE VisibleAlive
    OBVIOUS
  <2>1. \A a \in Arrays : Sound(arr[a])
    BY DEF Owned
  <2>2. \A a \in Arrays : \A i \in Visible(arr[a]) : InBlock(arr[a], i)
    BY <2>1, VisibleInBlock
  <2>3. \A a \in Arrays : VisibleElements(arr[a]) \subseteq inside
    BY DEF Owned, VisibleElements
  <2> QED BY <2>2, <2>3 DEF Owned, VisibleAlive
<1> QED BY <1>1, <1>2, <1>3, PTL DEF Spec

\* An element moved into an array is found in one until it is handed back or
\* dropped: no remove, no clear and no growth of a block loses one.
THEOREM Lossless == Disciplined /\ Spec /\ [][Thrifty]_vars => []NothingLost
<1> SUFFICES ASSUME Disciplined PROVE Spec /\ [][Thrifty]_vars => []NothingLost
  OBVIOUS
<1>1. Init => Owned
  BY InitOwned
<1>2. Owned /\ [Next]_vars /\ [Thrifty]_vars => Owned'
  BY StepOwned
<1>3. Owned => NothingLost
  <2> SUFFICES ASSUME Owned, NEW e \in inside
               PROVE  \E a \in Arrays : e \in VisibleElements(arr[a])
    BY DEF NothingLost
  <2>1. PICK a \in Arrays : \E i \in Visible(arr[a]) : Read(arr[a], i) = e
    BY DEF Owned
  <2> QED BY <2>1 DEF VisibleElements
<1> QED BY <1>1, <1>2, <1>3, PTL DEF Spec

\* Grow is given the layout the block was allocated with, and what is dropped
\* or handed out was alive and is so only once.
THEOREM Faultless ==
  Disciplined /\ Spec /\ [][Thrifty]_vars => [](LayoutKept /\ NoDoubleDrop)
<1> SUFFICES ASSUME Disciplined
             PROVE  Spec /\ [][Thrifty]_vars => [](LayoutKept /\ NoDoubleDrop)
  OBVIOUS
<1>1. Init => Owned
  BY InitOwned
<1>2. Owned /\ [Next]_vars /\ [Thrifty]_vars => Owned'
  BY StepOwned
<1>3. Owned => LayoutKept /\ NoDoubleDrop
  BY DEF Owned, Harmless, LayoutKept, NoDoubleDrop
<1> QED BY <1>1, <1>2, <1>3, PTL DEF Spec

\* No element of one byte is taken, dropped or stored outside the block of its
\* array, whatever the client pushes and removes: the checks in the code, on
\* the length, the capacity and the index, are all that keeps it inside.
THEOREM Contained == Disciplined /\ ElemSize = 1 /\ Spec => []InBounds
<1> SUFFICES ASSUME Disciplined, ElemSize = 1 PROVE Spec => []InBounds
  OBVIOUS
<1>1. Init => Owned
  BY InitOwned
<1>2. [Thrifty]_vars
  BY DEF Thrifty
<1>3. Owned /\ [Next]_vars => Owned'
  BY <1>2, StepOwned
<1>4. Owned => InBounds
  BY DEF Owned, Harmless, InBounds
<1> QED BY <1>1, <1>3, <1>4, PTL DEF Spec

-----------------------------------------------------------------------------
(* Sequences: what the operators of ArrayContract make of one.             *)

Values == Elements \union {None}

LEMMA IntervalEqual ==
  ASSUME NEW k \in Nat, NEW m \in Nat, 1 .. k = 1 .. m
  PROVE  k = m
<1>1. k \in 1 .. k \/ k = 0
  OBVIOUS
<1>2. m \in 1 .. m \/ m = 0
  OBVIOUS
<1>3. (k \in 1 .. m \/ k = 0) /\ (m \in 1 .. k \/ m = 0)
  BY <1>1, <1>2
<1> QED BY <1>3

\* A function on 1 .. n is a sequence of length n.
LEMMA FunctionSeq ==
  ASSUME NEW n \in Nat, NEW w \in [1 .. n -> Values]
  PROVE  w \in Seq(Values) /\ Len(w) = n
<1>1. w \in Seq(Values)
  BY SeqDef
<1>2. Len(w) \in Nat /\ 1 .. Len(w) = 1 .. n
  BY <1>1, LenProperties
<1> QED BY <1>1, <1>2, IntervalEqual

LEMMA RemoveAtIs ==
  ASSUME NEW q \in Seq(Values), NEW t \in Seq(Values), NEW i \in 1 .. Len(q),
         Len(t) = Len(q) - 1,
         \A j \in 1 .. Len(t) : t[j] = IF j < i THEN q[j] ELSE q[j + 1]
  PROVE  t = Contract!RemoveAt(q, i)
<1> DEFINE u == SubSeq(q, 1, i - 1)
           w == SubSeq(q, i + 1, Len(q))
<1>1. Len(q) \in Nat /\ i \in Nat
  BY LenProperties
<1>2. /\ u \in Seq(Values) /\ Len(u) = i - 1
      /\ \A j \in 1 .. i - 1 : u[j] = q[j]
  <2>1. 1 \in Int /\ i - 1 \in Int /\ \A j \in 1 .. i - 1 : q[j] \in Values
    BY <1>1, ElementOfSeq
  <2>2. /\ u \in Seq(Values) /\ Len(u) = IF 1 <= i - 1 THEN (i - 1) - 1 + 1 ELSE 0
        /\ \A j \in 1 .. (i - 1) - 1 + 1 : u[j] = q[1 + j - 1]
    BY <2>1, SubSeqProperties
  <2> QED BY <1>1, <2>2
<1>3. /\ w \in Seq(Values) /\ Len(w) = Len(q) - i
      /\ \A j \in 1 .. Len(q) - i : w[j] = q[i + j]
  <2>1. i + 1 \in Int /\ Len(q) \in Int /\ \A j \in i + 1 .. Len(q) : q[j] \in Values
    BY <1>1, ElementOfSeq
  <2>2. /\ w \in Seq(Values)
        /\ Len(w) = IF i + 1 <= Len(q) THEN Len(q) - (i + 1) + 1 ELSE 0
        /\ \A j \in 1 .. Len(q) - (i + 1) + 1 : w[j] = q[(i + 1) + j - 1]
    BY <2>1, SubSeqProperties
  <2> QED BY <1>1, <2>2
<1> HIDE DEF u, w
<1>4. /\ u \o w \in Seq(Values) /\ Len(u \o w) = Len(q) - 1
      /\ \A j \in 1 .. Len(q) - 1 : (u \o w)[j] = IF j <= i - 1 THEN u[j] ELSE w[j - (i - 1)]
  BY <1>1, <1>2, <1>3, ConcatProperties
<1>5. ASSUME NEW j \in 1 .. Len(q) - 1 PROVE (u \o w)[j] = t[j]
  <2>1. CASE j <= i - 1
    BY <1>1, <1>2, <1>4, <2>1
  <2>2. CASE ~(j <= i - 1)
    <3>1. j - (i - 1) \in 1 .. Len(q) - i /\ i + (j - (i - 1)) = j + 1
      BY <1>1, <2>2
    <3>2. w[j - (i - 1)] = q[j + 1]
      BY <1>3, <3>1
    <3>3. (u \o w)[j] = w[j - (i - 1)]
      BY <1>4, <2>2
    <3>4. t[j] = q[j + 1]
      BY <1>1, <2>2
    <3> QED BY <3>2, <3>3, <3>4
  <2> QED BY <2>1, <2>2
<1>6. t = u \o w
  BY <1>4, <1>5, SeqEqual
<1> QED BY <1>6 DEF Contract!RemoveAt, u, w

LEMMA SwapOutIs ==
  ASSUME NEW q \in Seq(Values), NEW t \in Seq(Values), NEW i \in 1 .. Len(q),
         Len(t) = Len(q) - 1,
         \A j \in 1 .. Len(t) : t[j] = IF j = i THEN q[Len(q)] ELSE q[j]
  PROVE  t = Contract!Front(Contract!ReplaceAt(q, i, Contract!Last(q)))
<1> DEFINE n == Len(q)
           w == [q EXCEPT ![i] = q[n]]
           u == SubSeq(w, 1, n - 1)
<1>1. n \in Nat /\ i \in Nat /\ q \in [1 .. n -> Values] /\ n \in 1 .. n
  BY LenProperties
<1>2. /\ w \in [1 .. n -> Values]
      /\ \A j \in 1 .. n : w[j] = IF j = i THEN q[n] ELSE q[j]
  BY <1>1
<1>3. w \in Seq(Values) /\ Len(w) = n
  <2> HIDE DEF w, n
  <2> QED BY <1>1, <1>2, FunctionSeq
<1> HIDE DEF w
<1>4. /\ u \in Seq(Values) /\ Len(u) = n - 1
      /\ \A j \in 1 .. n - 1 : u[j] = w[j]
  <2>1. n - 1 \in Int /\ 1 \in Int /\ \A j \in 1 .. n - 1 : w[j] \in Values
    BY <1>1, <1>2
  <2>2. /\ u \in Seq(Values) /\ Len(u) = IF 1 <= n - 1 THEN (n - 1) - 1 + 1 ELSE 0
        /\ \A j \in 1 .. (n - 1) - 1 + 1 : u[j] = w[1 + j - 1]
    <3> HIDE DEF n
    <3> QED BY <2>1, SubSeqProperties
  <2> QED BY <1>1, <2>2
<1>5. t = u
  <2> HIDE DEF u
  <2> QED BY <1>1, <1>2, <1>4, SeqEqual
<1> QED
  BY <1>3, <1>5 DEF Contract!Front, Contract!ReplaceAt, Contract!Last, u, w

LEMMA AppendIs ==
  ASSUME NEW q \in Seq(Values), NEW t \in Seq(Values), NEW e \in Values,
         Len(t) = Len(q) + 1, \A j \in 1 .. Len(q) : t[j] = q[j], t[Len(q) + 1] = e
  PROVE  t = Append(q, e)
<1>1. Len(q) \in Nat
  BY LenProperties
<1>2. /\ Append(q, e) \in Seq(Values) /\ Len(Append(q, e)) = Len(q) + 1
      /\ \A j \in 1 .. Len(q) : Append(q, e)[j] = q[j]
      /\ Append(q, e)[Len(q) + 1] = e
  BY AppendProperties
<1>3. \A j \in 1 .. Len(t) : t[j] = Append(q, e)[j]
  BY <1>1, <1>2
<1> QED BY <1>2, <1>3, SeqEqual

-----------------------------------------------------------------------------
(* Every step is one of the contract's.                                    *)

LEMMA ContentsSeq ==
  ASSUME NEW r, Sound(r)
  PROVE  /\ Contents(r) \in Seq(Values) /\ Len(Contents(r)) = r.length
         /\ \A i \in 1 .. r.length : i - 1 \in Visible(r) /\ Contents(r)[i] = Read(r, i - 1)
<1> DEFINE w == Contents(r)
           n == r.length
<1>1. n \in Nat /\ \A i \in 1 .. n : i - 1 \in Nat /\ i - 1 \in Visible(r)
  BY DEF Sound, Fitting, Visible
<1>2. \A i \in 1 .. n : w[i] = Read(r, i - 1)
  BY DEF Contents
<1>3. w \in [1 .. n -> Values]
  BY <1>1, ReadType DEF Contents, Values
<1> HIDE DEF w, n
<1>4. w \in Seq(Values) /\ Len(w) = n
  BY <1>1, <1>3, FunctionSeq
<1> QED BY <1>1, <1>2, <1>4 DEF w, n

\* The abstract variable, before and after a step.
Abstract == [a \in Arrays |-> Contents(arr[a])]

LEMMA DoneAbstract ==
  ASSUME Owned, NEW call, NEW a \in Arrays, NEW o, NEW in, NEW v,
         Done(call, a, o, in, v)
  PROVE  /\ Abstract' = [Abstract EXCEPT ![a] = Contents(o.arr)]
         /\ last' = [call |-> call, on |-> a, ok |-> o.ok, value |-> v]
<1>1. arr' = [arr EXCEPT ![a] = o.arr] /\ arr \in [Arrays -> ArrayType]
  BY DEF Done, Owned
<1>2. \A b \in Arrays : arr'[b] = IF b = a THEN o.arr ELSE arr[b]
  BY <1>1
<1>3. Abstract' = [b \in Arrays |-> Contents(arr'[b])]
  BY DEF Abstract, Contents, Read, InBlock
<1>4. \A b \in Arrays : Contents(arr'[b]) = IF b = a THEN Contents(o.arr) ELSE Contents(arr[b])
  BY <1>2
<1>5. Abstract' = [Abstract EXCEPT ![a] = Contents(o.arr)]
  BY <1>3, <1>4 DEF Abstract
<1> QED BY <1>5 DEF Done

\* What shows the same is the same sequence.
LEMMA SameContents ==
  ASSUME NEW r, Sound(r), NEW s, Sound(s), Same(r, s)
  PROVE  Contents(s) = Contents(r)
<1>1. s.length = r.length /\ \A i \in 1 .. r.length : Read(s, i - 1) = Read(r, i - 1)
  BY ContentsSeq DEF Same
<1> QED BY <1>1 DEF Contents

LEMMA SameAbstract ==
  ASSUME Owned, NEW call, NEW a \in Arrays, NEW o, Sound(o.arr), Same(arr[a], o.arr),
         NEW v, Done(call, a, o, inside, v)
  PROVE  UNCHANGED Abstract
<1>1. Contents(o.arr) = Contents(arr[a])
  BY SameContents DEF Owned
<1>2. Abstract' = [Abstract EXCEPT ![a] = Contents(arr[a])]
  BY <1>1, DoneAbstract
<1>3. Abstract[a] = Contents(arr[a])
  BY DEF Abstract
<1> QED BY <1>2, <1>3 DEF Abstract

\* A call that is refused, or panics at once.
LEMMA RefusedContract ==
  ASSUME Owned, NEW a \in Arrays, NEW call,
         \/ call = <<"push_within_capacity">> \/ call = <<"pop">>
         \/ \E n \in Counts : call = <<"with_capacity", n>> \/ call = <<"reserve", n>>
         \/ \E i \in Indices : call = <<"remove", i>> \/ call = <<"swap_remove", i>>,
         Refused(call, a) \/ Panicked(call, a)
  PROVE  Contract!Next
<1>1. PICK f \in {{}, {"overflow"}} :
        Done(call, a, Result(FALSE, arr[a], f), inside, None)
  BY Zenon DEF Refused, Panicked
<1> DEFINE o == Result(FALSE, arr[a], f)
<1>2. o.arr = arr[a] /\ o.ok = FALSE
  BY DEF Result
<1> HIDE DEF o
<1>3. Sound(arr[a]) /\ Same(arr[a], arr[a])
  BY SameItself DEF Owned
<1>4. UNCHANGED Abstract
  BY <1>1, <1>2, <1>3, SameAbstract DEF o
<1>5. last' = [call |-> call, on |-> a, ok |-> FALSE, value |-> None]
  BY <1>1, <1>2, Zenon DEF o, Done
<1>6. Contract!Fail(a)
  BY <1>4, <1>5 DEF Contract!Fail, Contract!Returns, Abstract
<1> QED BY <1>6 DEF Contract!Next

\* An element that comes out: the new sequence, and what is handed back.
Handed(call, a, i, s) ==
  /\ i + 1 \in 1 .. Len(Abstract[a])
  /\ Abstract[a] = Contents(arr[a])
  /\ Abstract' = [Abstract EXCEPT ![a] = Contents(s)]
  /\ Contract!Returns(call, a, TRUE, Abstract[a][i + 1])

LEMMA HandOutAbstract ==
  ASSUME Owned, NEW call, NEW a \in Arrays, NEW s, NEW f,
         NEW i \in Visible(arr[a]), HandOut(call, a, Result(TRUE, s, f), i)
  PROVE  Handed(call, a, i, s)
<1> DEFINE r == arr[a]
           o == Result(TRUE, s, f)
           g == o.fault \union Touching(r, {i}) \union Losing(r, {i})
           q == [o EXCEPT !.fault = g]
<1>1. PICK in : Done(call, a, q, in, Read(r, i))
  BY Zenon DEF HandOut
<1>2. q.arr = s /\ q.ok = TRUE
  <2> HIDE DEF g
  <2> QED BY DEF Result
<1> HIDE DEF q
<1>3. Abstract' = [Abstract EXCEPT ![a] = Contents(s)]
  BY <1>1, <1>2, DoneAbstract
<1>4. last' = [call |-> call, on |-> a, ok |-> TRUE, value |-> Read(r, i)]
  BY <1>1, <1>2, Zenon DEF Done
<1>5. Sound(r) /\ Abstract[a] = Contents(r)
  BY DEF Owned, Abstract
<1>6. Len(Contents(r)) = r.length /\ r.length \in Nat /\ i \in Nat /\ i < r.length
  BY <1>5, ContentsSeq, VisibleInBlock DEF Sound, Fitting
<1>7. i + 1 \in 1 .. r.length /\ (i + 1) - 1 = i
  BY <1>6
<1>8. Contents(r)[i + 1] = Read(r, i)
  BY <1>5, <1>7, ContentsSeq
<1>9. Contract!Returns(call, a, TRUE, Abstract[a][i + 1])
  BY <1>4, <1>5, <1>8 DEF Contract!Returns
<1> QED BY <1>3, <1>5, <1>6, <1>7, <1>9 DEF Handed

LEMMA TakenContract ==
  ASSUME Owned, NEW a \in Arrays, NEW s, Sound(s), NEW f, NEW i \in Visible(arr[a]),
         NEW call,
         \/ call = <<"pop">> /\ i + 1 = arr[a].length
         \/ call = <<"remove", i>> \/ call = <<"remove_unchecked", i>>,
         s.length = arr[a].length - 1,
         \A j \in 0 .. arr[a].length - 2 :
           Read(s, j) = Read(arr[a], IF j < i THEN j ELSE j + 1),
         HandOut(call, a, Result(TRUE, s, f), i)
  PROVE  Contract!Next
<1> DEFINE r == arr[a]
           q == Contents(r)
           t == Contents(s)
<1>1. Sound(r) /\ r.length \in Nat /\ i \in Nat
  BY VisibleInBlock DEF Owned, Sound, Fitting
<1>2. /\ q \in Seq(Values) /\ Len(q) = r.length
      /\ t \in Seq(Values) /\ Len(t) = r.length - 1
      /\ \A j \in 1 .. r.length : q[j] = Read(r, j - 1)
      /\ \A j \in 1 .. r.length - 1 : t[j] = Read(s, j - 1)
  BY <1>1, ContentsSeq
<1>3. /\ i + 1 \in 1 .. Len(Abstract[a]) /\ Abstract[a] = q
      /\ Abstract' = [Abstract EXCEPT ![a] = t]
      /\ Contract!Returns(call, a, TRUE, Abstract[a][i + 1])
  <2>1. Handed(call, a, i, s)
    BY HandOutAbstract
  <2> QED BY <2>1 DEF Handed
<1> HIDE DEF q, t
<1>4. ASSUME NEW j \in 1 .. Len(t)
      PROVE  t[j] = IF j < i + 1 THEN q[j] ELSE q[j + 1]
  <2>1. /\ j - 1 \in 0 .. r.length - 2 /\ j \in 1 .. r.length /\ j + 1 \in 1 .. r.length
        /\ (j + 1) - 1 = (j - 1) + 1 /\ (j - 1 < i <=> j < i + 1)
    BY <1>1, <1>2
  <2>2. t[j] = Read(s, j - 1) /\ q[j] = Read(r, j - 1)
    BY <1>2, <2>1
  <2>3. q[j + 1] = Read(r, (j + 1) - 1)
    BY <1>2, <2>1
  <2>4. Read(s, j - 1) = Read(r, IF j - 1 < i THEN j - 1 ELSE (j - 1) + 1)
    BY <2>1
  <2>5. CASE j - 1 < i
    BY <2>1, <2>2, <2>4, <2>5
  <2>6. CASE ~(j - 1 < i)
    <3>1. Read(s, j - 1) = Read(r, (j - 1) + 1)
      BY <2>4, <2>6
    <3> QED BY <2>1, <2>2, <2>3, <2>6, <3>1
  <2> QED BY <2>5, <2>6
<1>5. t = Contract!RemoveAt(q, i + 1)
  <2> DEFINE k == i + 1
  <2>1. k \in 1 .. Len(q) /\ Len(t) = Len(q) - 1
    BY <1>2, <1>3
  <2>2. \A j \in 1 .. Len(t) : t[j] = IF j < k THEN q[j] ELSE q[j + 1]
    BY <1>4
  <2> HIDE DEF k
  <2>3. t = Contract!RemoveAt(q, k)
    BY <1>2, <2>1, <2>2, RemoveAtIs
  <2> QED BY <2>3 DEF k
<1>6. Contract!TakeOut(call, a, i + 1)
  <2>1. Abstract' = [Abstract EXCEPT ![a] = Contract!RemoveAt(@, i + 1)]
    BY <1>3, <1>5 DEF Abstract
  <2> QED BY <1>3, <2>1 DEF Contract!TakeOut, Abstract
<1> DEFINE w == [b \in Arrays |-> Contents(arr[b])][a]
<1>7. i + 1 \in 1 .. Len(w) /\ w # <<>>
  <2>1. i + 1 \in 1 .. Len(w) /\ w = q
    BY <1>3 DEF Abstract
  <2> HIDE DEF w
  <2> QED BY <1>1, <2>1
<1>8. CASE call = <<"pop">> /\ i + 1 = arr[a].length
  <2>1. i + 1 = Len(w)
    BY <1>2, <1>3, <1>8 DEF Abstract
  <2> HIDE DEF w
  <2>2. Contract!TakeOut(<<"pop">>, a, Len(w))
    BY <1>6, <1>8, <2>1
  <2> QED BY <1>7, <2>2 DEF Contract!Next, w
<1>9. CASE call = <<"remove", i>> \/ call = <<"remove_unchecked", i>>
  <2>1. (i + 1) - 1 = i
    BY <1>1
  <2> QED BY <1>6, <1>7, <1>9, <2>1 DEF Contract!Next
<1> QED BY <1>8, <1>9

LEMMA SwappedContract ==
  ASSUME Owned, NEW a \in Arrays, NEW s, Sound(s), NEW f, NEW i \in Visible(arr[a]),
         NEW call, call = <<"swap_remove", i>> \/ call = <<"swap_remove_unchecked", i>>,
         s.length = arr[a].length - 1,
         \A j \in 0 .. arr[a].length - 2 :
           Read(s, j) = Read(arr[a], IF j = i THEN arr[a].length - 1 ELSE j),
         HandOut(call, a, Result(TRUE, s, f), i)
  PROVE  Contract!Next
<1> DEFINE r == arr[a]
           q == Contents(r)
           t == Contents(s)
<1>1. Sound(r) /\ r.length \in Nat /\ i \in Nat /\ i < r.length
  BY VisibleInBlock DEF Owned, Sound, Fitting
<1>2. /\ q \in Seq(Values) /\ Len(q) = r.length
      /\ t \in Seq(Values) /\ Len(t) = r.length - 1
      /\ \A j \in 1 .. r.length : q[j] = Read(r, j - 1)
      /\ \A j \in 1 .. r.length - 1 : t[j] = Read(s, j - 1)
  BY <1>1, ContentsSeq
<1>3. /\ i + 1 \in 1 .. Len(Abstract[a]) /\ Abstract[a] = q
      /\ Abstract' = [Abstract EXCEPT ![a] = t]
      /\ Contract!Returns(call, a, TRUE, Abstract[a][i + 1])
  <2>1. Handed(call, a, i, s)
    BY HandOutAbstract
  <2> QED BY <2>1 DEF Handed
<1> HIDE DEF q, t
<1>4. ASSUME NEW j \in 1 .. Len(t)
      PROVE  t[j] = IF j = i + 1 THEN q[Len(q)] ELSE q[j]
  <2>1. /\ j - 1 \in 0 .. r.length - 2 /\ j \in 1 .. r.length
        /\ (j - 1 = i <=> j = i + 1)
    BY <1>1, <1>2
  <2>2. t[j] = Read(s, j - 1) /\ q[j] = Read(r, j - 1) /\ q[Len(q)] = Read(r, r.length - 1)
    <3>1. r.length \in 1 .. r.length /\ Len(q) = r.length
      BY <1>1, <1>2
    <3>2. q[Len(q)] = Read(r, r.length - 1)
      BY <1>2, <3>1
    <3>3. j \in 1 .. r.length - 1
      BY <1>2
    <3>4. t[j] = Read(s, j - 1)
      BY <1>2, <3>3
    <3>5. q[j] = Read(r, j - 1)
      BY <1>2, <2>1
    <3> QED BY <3>2, <3>4, <3>5
  <2>3. Read(s, j - 1) = Read(r, IF j - 1 = i THEN r.length - 1 ELSE j - 1)
    BY <2>1
  <2>4. CASE j - 1 = i
    BY <2>1, <2>2, <2>3, <2>4
  <2>5. CASE j - 1 # i
    BY <2>1, <2>2, <2>3, <2>5
  <2> QED BY <2>4, <2>5
<1>5. t = Contract!Front(Contract!ReplaceAt(q, i + 1, Contract!Last(q)))
  <2> DEFINE k == i + 1
  <2>1. k \in 1 .. Len(q) /\ Len(t) = Len(q) - 1
    BY <1>2, <1>3
  <2>2. \A j \in 1 .. Len(t) : t[j] = IF j = k THEN q[Len(q)] ELSE q[j]
    BY <1>4
  <2> HIDE DEF k
  <2>3. t = Contract!Front(Contract!ReplaceAt(q, k, Contract!Last(q)))
    BY <1>2, <2>1, <2>2, SwapOutIs
  <2> QED BY <2>3 DEF k
<1>6. Contract!SwapOut(call, a, i + 1)
  <2>1. Abstract' = [Abstract EXCEPT ![a] =
                       Contract!Front(Contract!ReplaceAt(@, i + 1, Contract!Last(@)))]
    BY <1>3, <1>5 DEF Abstract
  <2> QED BY <1>3, <2>1 DEF Contract!SwapOut, Abstract
<1>7. i + 1 \in 1 .. Len([b \in Arrays |-> Contents(arr[b])][a]) /\ (i + 1) - 1 = i
  BY <1>1, <1>3 DEF Abstract
<1> QED BY <1>6, <1>7 DEF Contract!Next

LEMMA PopContract ==
  ASSUME Owned, NEW a \in Arrays, arr[a].length > 0, NEW call,
         \/ call = <<"pop">> \/ call = <<"remove", arr[a].length - 1>>
         \/ call = <<"swap_remove", arr[a].length - 1>>,
         PopLast(call, a)
  PROVE  Contract!Next
<1> DEFINE r == arr[a]
           s == Popped(r).arr
           n == r.length - 1
<1>1. Sound(r) /\ r.length \in Nat /\ n \in Nat /\ n \in Visible(r) /\ n + 1 = r.length
  BY DEF Owned, Sound, Fitting, Visible
<1>2. /\ Sound(s) /\ Popped(r).slot = n /\ s.length = r.length - 1
      /\ \A j \in 0 .. r.length - 2 : Read(s, j) = Read(r, j)
  BY <1>1, PoppedShows
<1>3. HandOut(call, a, Result(TRUE, s, {}), n)
  BY <1>2 DEF PopLast
<1> HIDE DEF s
<1>4. CASE call = <<"pop">> \/ call = <<"remove", n>>
  <2>1. ASSUME NEW j \in 0 .. r.length - 2
        PROVE  Read(s, j) = Read(r, IF j < n THEN j ELSE j + 1)
    <3>1. j < n
      BY <1>1
    <3> QED BY <1>2, <3>1
  <2> HIDE DEF n
  <2> QED BY <1>1, <1>2, <1>3, <1>4, <2>1, TakenContract
<1>5. CASE call = <<"swap_remove", n>>
  <2>1. ASSUME NEW j \in 0 .. r.length - 2
        PROVE  Read(s, j) = Read(r, IF j = n THEN r.length - 1 ELSE j)
    <3>1. j # n
      BY <1>1
    <3> QED BY <1>2, <3>1
  <2> HIDE DEF n
  <2> QED BY <1>1, <1>2, <1>3, <1>5, <2>1, SwappedContract
<1> QED BY <1>4, <1>5

\* The removes.
LEMMA RemovesContract ==
  ASSUME Owned, Disciplined, NEW a \in Arrays, NEW i \in Indices,
         \/ Remove(a, i) \/ RemoveUnchecked(a, i)
         \/ SwapRemove(a, i) \/ SwapRemoveUnchecked(a, i)
  PROVE  Contract!Next
<1> DEFINE r == arr[a]
<1>1. i \in Nat /\ i < Usize /\ r.length \in Nat /\ Sound(r)
  BY InputAssumption, SizeAssumption DEF Owned, Sound, Fitting
<1>2. r.length > 0 => LastIndex(r) = r.length - 1
  BY <1>1, WrapLast DEF LastIndex
<1>3. r.length = 0 => OverflowChecks \/ i # LastIndex(r)
  <2>1. ASSUME r.length = 0 PROVE LastIndex(r) = Usize - 1
    <3>1. \A m \in Nat \ {0} : (0 - 1) % m = m - 1
      OBVIOUS
    <3> QED BY <2>1, <3>1, SizeAssumption DEF LastIndex, Wrap
  <2> QED BY <2>1 DEF Disciplined
<1>4. i < r.length => i \in Visible(r)
  BY <1>1 DEF Visible
<1> HIDE DEF r
<1>5. ASSUME NEW call, call = <<"remove", i>> \/ call = <<"swap_remove", i>>,
             Refused(call, a) \/ Panicked(call, a)
      PROVE  Contract!Next
  BY <1>5, RefusedContract
<1>6. ASSUME NEW call, call = <<"remove", i>> \/ call = <<"swap_remove", i>>,
             r.length > 0, i = LastIndex(r), PopLast(call, a)
      PROVE  Contract!Next
  BY <1>2, <1>6, PopContract DEF r
<1>7. ASSUME NEW call, call = <<"remove", i>> \/ call = <<"remove_unchecked", i>>,
             i < r.length, HandOut(call, a, Removed(r, i), i)
      PROVE  Contract!Next
  <2> DEFINE s == Removed(r, i).arr
             f == Removed(r, i).fault
  <2>1. /\ Sound(s) /\ s.length = r.length - 1
        /\ \A j \in 0 .. r.length - 2 : Read(s, j) = Read(r, IF j < i THEN j ELSE j + 1)
    BY <1>1, <1>4, <1>7, RemovedShows
  <2>2. Removed(r, i) = Result(TRUE, s, f)
    BY DEF Removed, Result
  <2> HIDE DEF s, f
  <2>3. HandOut(call, a, Result(TRUE, s, f), i) /\ i \in Visible(r)
    BY <1>4, <1>7, <2>2
  <2> QED BY <1>7, <2>1, <2>3, TakenContract DEF r
<1>8. ASSUME NEW call, call = <<"swap_remove", i>> \/ call = <<"swap_remove_unchecked", i>>,
             i < r.length, HandOut(call, a, SwappedOut(r, i), i)
      PROVE  Contract!Next
  <2> DEFINE s == SwappedOut(r, i).arr
             f == SwappedOut(r, i).fault
  <2>1. /\ Sound(s) /\ s.length = r.length - 1
        /\ \A j \in 0 .. r.length - 2 : Read(s, j) = Read(r, IF j = i THEN r.length - 1 ELSE j)
    BY <1>1, <1>4, <1>8, SwappedShows
  <2>2. SwappedOut(r, i) = Result(TRUE, s, f)
    BY DEF SwappedOut, Result
  <2> HIDE DEF s, f
  <2>3. HandOut(call, a, Result(TRUE, s, f), i) /\ i \in Visible(r)
    BY <1>4, <1>8, <2>2
  <2> QED BY <1>8, <2>1, <2>3, SwappedContract DEF r
<1>9. CASE Remove(a, i)
  BY <1>1, <1>3, <1>5, <1>6, <1>7, <1>9 DEF Remove, r
<1>10. CASE RemoveUnchecked(a, i)
  BY <1>1, <1>7, <1>10 DEF RemoveUnchecked, r
<1>11. CASE SwapRemove(a, i)
  BY <1>1, <1>2, <1>5, <1>6, <1>8, <1>11 DEF SwapRemove, r
<1>12. CASE SwapRemoveUnchecked(a, i)
  BY <1>8, <1>12 DEF SwapRemoveUnchecked, r
<1> QED BY <1>9, <1>10, <1>11, <1>12

LEMMA ClearContract ==
  ASSUME Owned, NEW a \in Arrays, Clear(a)
  PROVE  Contract!Next
<1> DEFINE r == arr[a]
           ok == VisibleElements(r) \intersect Fragile = {}
           s == [r EXCEPT !.length = 0]
           o == Result(ok, s, Touching(r, Visible(r)) \union Losing(r, Visible(r)))
           in == inside \ VisibleElements(r)
<1>1. Done(<<"clear">>, a, o, in, None)
  BY Zenon DEF Clear
<1>2. s.length = 0
  BY EmptiedShows DEF Owned
<1>3. o.arr = s /\ o.ok = ok /\ ok \in BOOLEAN
  BY Zenon DEF Result
<1> HIDE DEF r, s, o, ok, in
<1>4. Contents(s) = <<>>
  BY <1>2 DEF Contents
<1>5. Abstract' = [Abstract EXCEPT ![a] = <<>>]
  <2>1. Abstract' = [Abstract EXCEPT ![a] = Contents(o.arr)]
    BY <1>1, DoneAbstract
  <2> QED BY <1>3, <1>4, <2>1
<1>6. Contract!Returns(<<"clear">>, a, ok, None) /\ ok \in BOOLEAN
  <2>1. last' = [call |-> <<"clear">>, on |-> a, ok |-> o.ok, value |-> None]
    BY <1>1, DoneAbstract
  <2>2. last' = [call |-> <<"clear">>, on |-> a, ok |-> ok, value |-> None]
    BY <1>3, <2>1, Zenon
  <2> QED BY <1>3, <2>2, Zenon DEF Contract!Returns
<1>7. Contract!Empty(a)
  BY <1>5, <1>6 DEF Contract!Empty, Abstract
<1> QED BY <1>7 DEF Contract!Next

LEMMA SizedContract ==
  ASSUME Owned, Disciplined, NEW a \in Arrays, NEW n \in Counts,
         WithCapacity(a, n) \/ ("reserve" \in Calls /\ Reserve(a, n))
  PROVE  Contract!Next
<1>1. n \in Nat /\ Sound(arr[a])
  BY InputAssumption, SizeAssumption DEF Owned
<1>2. ASSUME NEW o, Sound(o.arr), Same(arr[a], o.arr), o.ok = TRUE \/ o.ok = FALSE,
             NEW call \in {"with_capacity", "reserve"},
             Done(<<call, n>>, a, o, inside, None)
      PROVE  Contract!Next
  <2>1. UNCHANGED Abstract
    BY <1>2, SameAbstract
  <2>2. Contract!Returns(<<call, n>>, a, o.ok, None)
    BY <1>2 DEF Done, Contract!Returns
  <2>3. CASE o.ok = TRUE
    <3>1. Contract!Returns(<<call, n>>, a, TRUE, None)
      BY <2>2, <2>3
    <3>2. Contract!MakeRoom(a)
      BY <2>1, <3>1 DEF Contract!MakeRoom, Abstract
    <3> QED BY <3>2 DEF Contract!Next
  <2>4. CASE o.ok = FALSE
    <3>1. Contract!Returns(<<call, n>>, a, FALSE, None)
      BY <2>2, <2>4
    <3>2. Contract!Fail(a)
      BY <2>1, <3>1 DEF Contract!Fail, Abstract
    <3> QED BY <3>2 DEF Contract!Next
  <2> QED BY <1>2, <2>3, <2>4
<1>3. CASE WithCapacity(a, n)
  <2>1. CASE Panicked(<<"with_capacity", n>>, a) \/ Refused(<<"with_capacity", n>>, a)
    BY <2>1, RefusedContract
  <2>2. ASSUME arr[a].block = 0, LayoutOk(Wrap(ElemSize * n)),
               NEW got \in Granted(Wrap(ElemSize * n)),
               Done(<<"with_capacity", n>>, a, Result(TRUE, Made(got), {}), inside, None)
        PROVE  Contract!Next
    <3> DEFINE o == Result(TRUE, Made(got), {})
    <3>1. Sound(Made(got)) /\ Same(arr[a], Made(got))
      BY <1>1, <2>2, MadeShows
    <3>2. o.arr = Made(got) /\ o.ok = TRUE
      BY DEF Result
    <3> HIDE DEF o
    <3> QED BY <1>2, <2>2, <3>1, <3>2 DEF o
  <2> QED BY <1>3, <2>1, <2>2 DEF WithCapacity
<1>4. CASE "reserve" \in Calls /\ Reserve(a, n)
  <2>1. ElemSize = 1
    BY <1>4 DEF Disciplined
  <2>2. PICK o \in Reserved(arr[a], n) : Done(<<"reserve", n>>, a, o, inside, None)
    BY <1>4 DEF Reserve
  <2>3. Sound(o.arr) /\ Same(arr[a], o.arr) /\ (o.ok = TRUE \/ o.ok = FALSE)
    BY <1>1, <2>1, ReservedShows
  <2> QED BY <1>2, <2>2, <2>3
<1> QED BY <1>3, <1>4

LEMMA StoredContract ==
  ASSUME Owned, Thrifty, NEW a \in Arrays, NEW e \in Elements \ inside,
         PushWithinCapacity(a, e)
  PROVE  Contract!Next
<1> DEFINE r == arr[a]
           s == [Put(r, r.length, e) EXCEPT !.length = @ + 1]
           o == Result(TRUE, s, Touching(r, {r.length}))
           in == inside \union {e}
<1>1. CASE Refused(<<"push_within_capacity">>, a)
  BY <1>1, RefusedContract
<1>2. CASE /\ r.length < r.capacity
           /\ Done(<<"push_within_capacity">>, a, o, in, None)
  <2> DEFINE q == Contents(r)
             t == Contents(s)
  <2>1. Sound(r) /\ r.length \in Nat
    BY DEF Owned, Sound, Fitting
  <2>0. Room(r, 1)
    <3>1. o.ok = TRUE
      BY DEF Result
    <3> HIDE DEF o, in
    <3> QED BY <1>2, <3>1, RoomToPush
  <2>2. /\ Sound(s) /\ s.length = r.length + 1
        /\ \A j \in Visible(r) : Read(s, j) = Read(r, j)
        /\ Read(s, r.length) = e
    BY <1>2, <2>0, <2>1, WrittenShows
  <2> HIDE DEF s
  <2>3. o.arr = s /\ o.ok = TRUE
    BY DEF Result
  <2> HIDE DEF o, in
  <2>4. /\ q \in Seq(Values) /\ Len(q) = r.length
        /\ t \in Seq(Values) /\ Len(t) = r.length + 1
        /\ \A j \in 1 .. r.length : j - 1 \in Visible(r) /\ q[j] = Read(r, j - 1)
        /\ \A j \in 1 .. r.length + 1 : t[j] = Read(s, j - 1)
    BY <2>1, <2>2, ContentsSeq
  <2>5. Abstract' = [Abstract EXCEPT ![a] = t] /\ Abstract[a] = q
    BY <1>2, <2>3, DoneAbstract DEF Abstract
  <2> HIDE DEF q, t
  <2>6. t = Append(q, e)
    <3>1. ASSUME NEW j \in 1 .. r.length PROVE t[j] = q[j]
      <4>1. j \in 1 .. r.length + 1
        BY <2>1
      <4> QED BY <2>2, <2>4, <4>1
    <3>2. t[r.length + 1] = e
      <4>1. r.length + 1 \in 1 .. r.length + 1 /\ (r.length + 1) - 1 = r.length
        BY <2>1
      <4> QED BY <2>2, <2>4, <4>1
    <3> QED BY <2>4, <3>1, <3>2, AppendIs DEF Values
  <2>7. Contract!Returns(<<"push_within_capacity">>, a, TRUE, None)
    BY <1>2, <2>3, Zenon DEF Done, Contract!Returns
  <2>8. e \notin Contract!Held
    <3>1. ASSUME NEW b \in Arrays, e \in Contract!ToSet(Contents(arr[b])) PROVE FALSE
      <4>1. Sound(arr[b]) /\ Len(Contents(arr[b])) = arr[b].length
        BY ContentsSeq DEF Owned
      <4>2. PICK k \in 1 .. arr[b].length : Contents(arr[b])[k] = e
        BY <3>1 DEF Contract!ToSet, Contents
      <4>3. k - 1 \in Visible(arr[b]) /\ Read(arr[b], k - 1) = e
        BY <4>1, <4>2, ContentsSeq
      <4> QED BY <4>3 DEF Owned
    <3> QED BY <3>1 DEF Contract!Held
  <2>9. Contract!AppendOne(a, e)
    BY <2>5, <2>6, <2>7, <2>8 DEF Contract!AppendOne, Abstract
  <2> QED BY <2>9 DEF Contract!Next
<1> QED BY <1>1, <1>2 DEF PushWithinCapacity

\* An Array is the sequence of its visible elements, as long as its client is
\* disciplined: every method does to that sequence what it is named for, hands
\* back the element it took out, and changes no sequence when it fails.
THEOREM Implements == Disciplined /\ Spec /\ [][Thrifty]_vars => KeepsContract
<1> SUFFICES ASSUME Disciplined PROVE Spec /\ [][Thrifty]_vars => KeepsContract
  OBVIOUS
<1>1. Init => Owned
  BY InitOwned
<1>2. Owned /\ [Next]_vars /\ [Thrifty]_vars => Owned'
  BY StepOwned
<1>3. Init => Contract!Init
  <2> SUFFICES ASSUME Init PROVE Contract!Init
    OBVIOUS
  <2>1. Contents(New) = <<>>
    BY DEF Contents, New
  <2>2. \A a \in Arrays : Contents(arr[a]) = <<>>
    BY <2>1 DEF Init
  <2> QED BY <2>2 DEF Contract!Init, Init
<1>4. Owned /\ [Next]_vars /\ [Thrifty]_vars => [Contract!Next]_<<Abstract, last>>
  <2> SUFFICES ASSUME Owned, [Next]_vars, [Thrifty]_vars
               PROVE  Contract!Next \/ UNCHANGED <<Abstract, last>>
    OBVIOUS
  <2>1. CASE UNCHANGED vars
    BY <2>1 DEF vars, Abstract, Contents, Read, InBlock
  <2>2. CASE Next /\ Thrifty
    <3>1. PICK a \in Arrays :
            \/ Pop(a) \/ Clear(a)
            \/ \E n \in Counts : WithCapacity(a, n) \/ ("reserve" \in Calls /\ Reserve(a, n))
            \/ \E i \in Indices : \/ Remove(a, i) \/ RemoveUnchecked(a, i)
                                 \/ SwapRemove(a, i) \/ SwapRemoveUnchecked(a, i)
            \/ \E e \in Elements \ inside : PushWithinCapacity(a, e)
      BY <2>2 DEF Next, Disciplined
    <3>2. CASE Pop(a)
      BY <3>2, PopContract, RefusedContract DEF Pop
    <3> QED
      BY <2>2, <3>1, <3>2, ClearContract, SizedContract, RemovesContract, StoredContract
  <2> QED BY <2>1, <2>2
<1> QED
  BY <1>1, <1>2, <1>3, <1>4, PTL DEF Spec, KeepsContract, Contract!Spec, Abstract
=============================================================================
