------------------------------ MODULE ArrayProofs ------------------------------
(***************************************************************************)
(* The length of an Array never passes its capacity, and a call that fails *)
(* leaves what arrays show alone: proved for elements of any size, any     *)
(* methods and arguments, and any client.                                  *)
(***************************************************************************)
EXTENDS Array, TLAPS

\* An array as the methods leave it.  The capacity is the block's size, and
\* nothing is stored behind the block.
Record(r) ==
  r = [length |-> r.length, capacity |-> r.capacity, block |-> r.block, slot |-> r.slot]

Fitting(r) ==
  /\ Record(r)
  /\ r.length \in Nat /\ r.capacity \in Nat
  /\ r.length <= r.capacity /\ r.capacity < Usize
  /\ r.block = r.capacity /\ r.block <= IsizeMax
  /\ \A j \in Slots : ~InBlock(r, j) => r.slot[j] = None

\* s shows what r does, through Deref.
Same(r, s) ==
  /\ s.length = r.length
  /\ \A i \in Visible(r) : Read(s, i) = Read(r, i)

ArrInv ==
  /\ DOMAIN arr = Arrays
  /\ \A a \in Arrays : Fitting(arr[a])

-----------------------------------------------------------------------------
(* What the shared functions make of an array.                             *)

\* Bytes are no fewer than elements.
LEMMA BytesCover ==
  ASSUME NEW n \in Nat
  PROVE  ElemSize * n \in Nat /\ n <= ElemSize * n
<1>1. ElemSize \in Nat /\ ElemSize >= 1
  BY SizeAssumption
<1> QED BY <1>1

\* Storing within the block leaves the fields alone.
LEMMA SlotFitting ==
  ASSUME NEW r, Fitting(r), NEW s,
         \A j \in Slots : ~InBlock(r, j) => s[j] = None
  PROVE  /\ Fitting([r EXCEPT !.slot = s])
         /\ [r EXCEPT !.slot = s].length = r.length
         /\ [r EXCEPT !.slot = s].capacity = r.capacity
<1> DEFINE q == [r EXCEPT !.slot = s]
<1>1. q = [length |-> r.length, capacity |-> r.capacity, block |-> r.block, slot |-> s]
  BY DEF Fitting, Record
<1> HIDE DEF q
<1>2. \A j : InBlock(q, j) <=> InBlock(r, j)
  BY <1>1 DEF InBlock
<1> QED BY <1>1, <1>2 DEF Fitting, Record, q

LEMMA PutFitting ==
  ASSUME NEW r, Fitting(r), NEW i, NEW e
  PROVE  /\ Fitting(Put(r, i, e))
         /\ Put(r, i, e).length = r.length
         /\ Put(r, i, e).capacity = r.capacity
<1> DEFINE s == [j \in Slots |-> IF j = i /\ InBlock(r, i) THEN e ELSE r.slot[j]]
<1>1. \A j \in Slots : ~InBlock(r, j) => s[j] = None
  BY DEF Fitting
<1>2. Put(r, i, e) = [r EXCEPT !.slot = s]
  BY DEF Put
<1> HIDE DEF s
<1> QED BY <1>1, <1>2, SlotFitting

LEMMA CopyFitting ==
  ASSUME NEW r, Fitting(r), NEW i, NEW j, NEW n
  PROVE  /\ Fitting(Copy(r, i, j, n))
         /\ Copy(r, i, j, n).length = r.length
         /\ Copy(r, i, j, n).capacity = r.capacity
<1> DEFINE s == [k \in Slots |-> IF k \in j .. j + n - 1 /\ InBlock(r, k)
                                 THEN Read(r, i + (k - j)) ELSE r.slot[k]]
<1>1. \A k \in Slots : ~InBlock(r, k) => s[k] = None
  BY DEF Fitting
<1>2. Copy(r, i, j, n) = [r EXCEPT !.slot = s]
  BY DEF Copy
<1> HIDE DEF s
<1> QED BY <1>1, <1>2, SlotFitting

\* The length may be set to whatever the capacity has room for.
LEMMA LengthFitting ==
  ASSUME NEW r, Fitting(r), NEW n \in Nat, n <= r.capacity
  PROVE  Fitting([r EXCEPT !.length = n])
<1> DEFINE q == [r EXCEPT !.length = n]
<1>1. q = [length |-> n, capacity |-> r.capacity, block |-> r.block, slot |-> r.slot]
  BY DEF Fitting, Record
<1> HIDE DEF q
<1>2. \A j : InBlock(q, j) <=> InBlock(r, j)
  BY <1>1 DEF InBlock
<1> QED BY <1>1, <1>2 DEF Fitting, Record, q

\* A larger block shows the same: what it adds was not visible.
LEMMA ResizeFitting ==
  ASSUME NEW r, Fitting(r), NEW n \in Nat, r.capacity <= n, n < Usize, n <= IsizeMax,
         NEW k, k = r.length
  PROVE  /\ Fitting([r EXCEPT !.block = n, !.capacity = n, !.length = k])
         /\ Same(r, [r EXCEPT !.block = n, !.capacity = n, !.length = k])
<1> DEFINE p == [r EXCEPT !.block = n]
           q == [p EXCEPT !.capacity = n]
           t == [q EXCEPT !.length = k]
<1>1. p = [length |-> r.length, capacity |-> r.capacity, block |-> n, slot |-> r.slot]
  BY DEF Fitting, Record
<1>2. q = [length |-> r.length, capacity |-> n, block |-> n, slot |-> r.slot]
  <2> HIDE DEF p
  <2> QED BY <1>1
<1>3. t = [length |-> k, capacity |-> n, block |-> n, slot |-> r.slot]
  <2> HIDE DEF q
  <2> QED BY <1>2
<1> HIDE DEF p, q, t
<1>4. \A i \in Nat : InBlock(r, i) => InBlock(t, i)
  <2> SUFFICES ASSUME NEW i \in Nat, InBlock(r, i) PROVE InBlock(t, i)
    OBVIOUS
  <2>1. (i + 1) * ElemSize \in Nat
    BY SizeAssumption
  <2> QED BY <1>3, <2>1 DEF InBlock, Fitting
<1>5. Fitting(t)
  <2>1. \A j \in Slots : ~InBlock(t, j) => t.slot[j] = None
    BY <1>3, <1>4 DEF Fitting, Slots
  <2> QED BY <1>3, <2>1 DEF Fitting, Record
<1>6. Same(r, t)
  <2>1. \A i \in Visible(r) : i \in Nat
    BY DEF Visible, Fitting
  <2>2. ASSUME NEW i \in Nat, InBlock(t, i) PROVE i \in Slots
    <3>1. i + 1 <= ElemSize * (i + 1) /\ ElemSize * (i + 1) = (i + 1) * ElemSize
      BY BytesCover, SizeAssumption
    <3>2. i + 1 <= IsizeMax
      BY <1>3, <2>2, <3>1, SizeAssumption DEF InBlock, IsizeMax
    <3> QED BY <3>2, SizeAssumption DEF Slots, IsizeMax
  <2>3. \A i \in Nat : Read(t, i) = Read(r, i)
    BY <1>3, <1>4, <2>2 DEF Read, Fitting
  <2> QED BY <1>3, <2>1, <2>3 DEF Same
<1> QED BY <1>5, <1>6 DEF p, q, t

\* The allocator grants no less than it is asked for, and no more than can be.
LEMMA GrantedFitting ==
  ASSUME NEW size \in Nat, LayoutOk(size), NEW got \in Granted(size)
  PROVE  got \in Nat /\ size <= got /\ got < Usize /\ got <= IsizeMax
<1>1. size <= IsizeMax /\ IsizeMax \in Nat /\ IsizeMax < Usize
  BY SizeAssumption DEF LayoutOk, IsizeMax
<1>2. got = size \/ got \in size .. IsizeMax
  BY DEF Granted
<1> QED BY <1>1, <1>2, SizeAssumption

\* A reservation never lowers the capacity, and without one there is no length.
LEMMA ReservedFitting ==
  ASSUME NEW r, Fitting(r), NEW n \in Nat, NEW o \in Reserved(r, n)
  PROVE  Fitting(o.arr) /\ Same(r, o.arr)
<1> DEFINE size == ElemSize * (r.capacity + n)
<1>1. r.capacity + n \in Nat /\ r.capacity <= r.capacity + n
  BY DEF Fitting
<1>2. size \in Nat /\ r.capacity + n <= size
  BY <1>1, BytesCover
<1>3. ASSUME LayoutOk(size), NEW got \in Granted(size)
      PROVE  Fitting(Resized(r, got)) /\ Same(r, Resized(r, got))
  <2> DEFINE k == IF r.capacity = 0 THEN 0 ELSE r.length
  <2>1. Resized(r, got) = [r EXCEPT !.block = got, !.capacity = got, !.length = k]
    BY DEF Resized
  <2>2. k = r.length
    BY DEF Fitting
  <2> HIDE DEF k, size
  <2>3. got \in Nat /\ r.capacity <= got /\ got < Usize /\ got <= IsizeMax
    BY <1>1, <1>2, <1>3, GrantedFitting DEF Fitting
  <2>4. /\ Fitting([r EXCEPT !.block = got, !.capacity = got, !.length = k])
        /\ Same(r, [r EXCEPT !.block = got, !.capacity = got, !.length = k])
    BY <2>2, <2>3, ResizeFitting
  <2> QED BY <2>1, <2>4
<1>4. \/ o.arr = r
      \/ LayoutOk(size) /\ \E got \in Granted(size) : o.arr = Resized(r, got)
  BY DEF Reserved, Result
<1>5. Same(r, r)
  BY DEF Same
<1> HIDE DEF size
<1> QED BY <1>3, <1>4, <1>5

LEMMA WrapType ==
  ASSUME NEW x \in Nat
  PROVE  Wrap(x) \in Nat /\ Wrap(x) < Usize
<1>1. \A y \in Nat, m \in Nat \ {0} : y % m \in 0 .. m - 1
  OBVIOUS
<1>2. x % Usize \in 0 .. Usize - 1
  BY <1>1, SizeAssumption
<1> QED BY <1>2, SizeAssumption DEF Wrap

\* A new array is empty, with room for what was granted.
LEMMA MadeFitting ==
  ASSUME NEW got \in Nat, got < Usize, got <= IsizeMax
  PROVE  /\ Fitting(Made(got))
         /\ Made(got) = [length |-> 0, capacity |-> got, block |-> got,
                         slot |-> [i \in Slots |-> None]]
<1> DEFINE b == [New EXCEPT !.block = got]
<1>1. b = [length |-> 0, capacity |-> 0, block |-> got,
           slot |-> [i \in Slots |-> None]]
  BY DEF New
<1>2. Made(got) = [b EXCEPT !.capacity = got]
  BY DEF Made
<1> HIDE DEF b
<1>3. Made(got) = [length |-> 0, capacity |-> got, block |-> got,
                   slot |-> [i \in Slots |-> None]]
  BY <1>1, <1>2
<1>4. \A j \in Slots : Made(got).slot[j] = None
  BY <1>3
<1> QED BY <1>3, <1>4 DEF Fitting, Record

LEMMA PushedFitting ==
  ASSUME NEW r, Fitting(r), NEW e, NEW o \in Pushed(r, e)
  PROVE  Fitting(o.arr) /\ (~o.ok => Same(r, o.arr))
<1> DEFINE n == IF r.capacity = 0 THEN FirstPush ELSE 1
<1>1. n \in Nat
  BY SizeAssumption
<1>2. PICK p \in Reserved(r, n) :
        \/ o = p
        \/ \E f : o = Result(FALSE, p.arr, f)
        \/ \E f : o = Result(TRUE, Put(p.arr, p.arr.capacity, e), f)
  BY Zenon DEF Pushed
<1> HIDE DEF n
<1>3. Fitting(p.arr) /\ Same(r, p.arr)
  BY <1>1, ReservedFitting
<1>4. Fitting(Put(p.arr, p.arr.capacity, e))
  BY <1>3, PutFitting
<1> QED BY <1>2, <1>3, <1>4 DEF Result

LEMMA AppendedFitting ==
  ASSUME NEW r, Fitting(r), NEW s, Fitting(s), NEW o \in Appended(r, s)
  PROVE  Fitting(o.arr) /\ (~o.ok => Same(r, o.arr))
<1>1. s.length \in Nat
  BY DEF Fitting
<1> DEFINE Kept(q) ==
             [j \in Slots |->
                IF j \in q.arr.length .. q.arr.length + s.length - 1 /\ InBlock(q.arr, j)
                THEN Read(s, j - q.arr.length) ELSE q.arr.slot[j]]
<1>2. PICK p \in Reserved(r, s.length) :
        o = p \/ \E f : o = Result(TRUE, [p.arr EXCEPT !.slot = Kept(p)], f)
  BY Zenon DEF Appended
<1>3. Fitting(p.arr) /\ Same(r, p.arr)
  BY <1>1, ReservedFitting
<1>4. Fitting([p.arr EXCEPT !.slot = Kept(p)])
  <2> DEFINE t == Kept(p)
  <2>1. \A j \in Slots : ~InBlock(p.arr, j) => t[j] = None
    BY <1>3 DEF Fitting
  <2> HIDE DEF t
  <2>2. Fitting([p.arr EXCEPT !.slot = t])
    BY <1>3, <2>1, SlotFitting
  <2> QED BY <2>2 DEF t
<1> HIDE DEF Kept
<1> QED BY <1>2, <1>3, <1>4 DEF Result

LEMMA InsertedFitting ==
  ASSUME NEW r, Fitting(r), NEW i, NEW e, NEW o \in Inserted(r, i, e)
  PROVE  Fitting(o.arr) /\ (~o.ok => Same(r, o.arr))
<1>1. CASE i = r.length
  BY <1>1, PushedFitting DEF Inserted
<1>2. CASE i # r.length
  <2>1. PICK p \in Reserved(r, 1) :
          \/ o = p
          \/ \E n : /\ o.arr = Put(Copy(p.arr, i, i + 1, n), i, e)
                   /\ o.ok = TRUE
    BY <1>2 DEF Inserted, Result
  <2>2. Fitting(p.arr) /\ Same(r, p.arr)
    BY ReservedFitting
  <2> QED BY <2>1, <2>2, CopyFitting, PutFitting
<1> QED BY <1>1, <1>2

\* Taking one element out.
LEMMA ShortenedFitting ==
  ASSUME NEW r, Fitting(r), r.length > 0
  PROVE  /\ Fitting(Popped(r).arr)
         /\ \A i : Fitting(Removed(r, i).arr) /\ Fitting(SwappedOut(r, i).arr)
<1>1. r.length - 1 \in Nat /\ r.length - 1 <= r.capacity
  BY DEF Fitting
<1>2. ASSUME NEW s, Fitting(s), s.length = r.length, s.capacity = r.capacity
      PROVE  Fitting([s EXCEPT !.length = @ - 1])
  <2>1. [s EXCEPT !.length = @ - 1] = [s EXCEPT !.length = r.length - 1]
    BY <1>2 DEF Fitting, Record
  <2> QED BY <1>1, <1>2, <2>1, LengthFitting
<1>3. Fitting(Popped(r).arr)
  <2>1. \A m \in Nat \ {0} : \A x \in 0 .. m - 1 : x % m = x
    OBVIOUS
  <2>2. Wrap(r.length - 1) = r.length - 1
    BY <1>1, <2>1, SizeAssumption DEF Wrap, Fitting
  <2> QED BY <1>1, <2>2, LengthFitting DEF Popped
<1>4. ASSUME NEW i PROVE Fitting(Removed(r, i).arr) /\ Fitting(SwappedOut(r, i).arr)
  <2>1. Fitting([Copy(r, i + 1, i, r.length - i) EXCEPT !.length = @ - 1])
    BY <1>2, CopyFitting
  <2>2. Fitting([Put(r, i, Read(r, r.length - 1)) EXCEPT !.length = @ - 1])
    BY <1>2, PutFitting
  <2> QED BY <2>1, <2>2 DEF Removed, SwappedOut, Result
<1> QED BY <1>3, <1>4

-----------------------------------------------------------------------------
(* The theorem.                                                            *)

\* A step that leaves one array sound leaves all of them so.
LEMMA DoneKeeps ==
  ASSUME ArrInv, NEW call, NEW a \in Arrays, NEW o, Fitting(o.arr), NEW in, NEW v,
         Done(call, a, o, in, v)
  PROVE  ArrInv'
<1>1. arr' = [arr EXCEPT ![a] = o.arr]
  BY DEF Done
<1>2. \A b \in Arrays : arr'[b] = IF b = a THEN o.arr ELSE arr[b]
  BY <1>1 DEF ArrInv
<1>3. DOMAIN arr' = Arrays
  BY <1>1 DEF ArrInv
<1> QED BY <1>2, <1>3 DEF ArrInv, Fitting, Record

\* An element that comes out shortens an array that has one.
LEMMA HandOutKeeps ==
  ASSUME ArrInv, NEW call, NEW a \in Arrays, NEW r, Fitting(r), NEW f, NEW i,
         HandOut(call, a, Result(TRUE, r, f), i)
  PROVE  ArrInv'
<1>1. PICK o, in, v : o.arr = r /\ Done(call, a, o, in, v)
  BY DEF HandOut, Result
<1> QED BY <1>1, DoneKeeps

\* A call that is refused, or panics at once, changes no array.
LEMMA RefusedKeeps ==
  ASSUME ArrInv, NEW call, NEW a \in Arrays, Refused(call, a) \/ Panicked(call, a)
  PROVE  ArrInv'
BY DoneKeeps DEF Refused, Panicked, Result, ArrInv

LEMMA PopLastKeeps ==
  ASSUME ArrInv, NEW a \in Arrays, arr[a].length > 0, NEW call, PopLast(call, a)
  PROVE  ArrInv'
<1>1. Fitting(Popped(arr[a]).arr)
  BY ShortenedFitting DEF ArrInv
<1> QED BY <1>1, HandOutKeeps DEF PopLast

LEMMA PopKeeps ==
  ASSUME ArrInv, NEW a \in Arrays, Pop(a)
  PROVE  ArrInv'
BY PopLastKeeps, RefusedKeeps DEF Pop

\* The removes, of an index in bounds.
LEMMA RemovesKeep ==
  ASSUME ArrInv, OverflowChecks, NEW a \in Arrays, NEW i \in Indices,
         \/ Remove(a, i) \/ RemoveUnchecked(a, i)
         \/ SwapRemove(a, i) \/ SwapRemoveUnchecked(a, i)
  PROVE  ArrInv'
<1> DEFINE r == arr[a]
<1>1. i \in Nat /\ Fitting(r) /\ r.length \in Nat
  BY InputAssumption, SizeAssumption DEF ArrInv, Fitting
<1> HIDE DEF r
<1>2. CASE \E call : Refused(call, a) \/ Panicked(call, a)
  BY <1>2, RefusedKeeps
<1>3. CASE r.length > 0 /\ \E call : PopLast(call, a)
  BY <1>3, PopLastKeeps DEF r
<1>4. CASE i < r.length /\ \E call : HandOut(call, a, Removed(r, i), i)
  <2>1. r.length > 0
    BY <1>1, <1>4
  <2>2. PICK s, f : Removed(r, i) = Result(TRUE, s, f) /\ Fitting(s)
    BY <1>1, <2>1, ShortenedFitting DEF Removed, Result
  <2> QED BY <1>4, <2>2, HandOutKeeps
<1>5. CASE i < r.length /\ \E call : HandOut(call, a, SwappedOut(r, i), i)
  <2>1. r.length > 0
    BY <1>1, <1>5
  <2>2. PICK s, f : SwappedOut(r, i) = Result(TRUE, s, f) /\ Fitting(s)
    BY <1>1, <2>1, ShortenedFitting DEF SwappedOut, Result
  <2> QED BY <1>5, <2>2, HandOutKeeps
<1>6. r.length > 0 => LastIndex(r) = r.length - 1
  <2>1. \A m \in Nat \ {0} : \A x \in 0 .. m - 1 : x % m = x
    OBVIOUS
  <2> QED BY <1>1, <2>1, SizeAssumption DEF LastIndex, Wrap, Fitting
<1>7. CASE Remove(a, i)
  BY <1>1, <1>2, <1>3, <1>4, <1>7 DEF Remove, r
<1>8. CASE RemoveUnchecked(a, i)
  BY <1>4, <1>8 DEF RemoveUnchecked, r
<1>9. CASE SwapRemove(a, i)
  BY <1>1, <1>2, <1>3, <1>5, <1>6, <1>9 DEF SwapRemove, r
<1>10. CASE SwapRemoveUnchecked(a, i)
  BY <1>5, <1>10 DEF SwapRemoveUnchecked, r
<1>11. CASE Pop(a)
  BY <1>1, <1>2, <1>3, <1>11 DEF Pop, r
<1> QED BY <1>7, <1>8, <1>9, <1>10, <1>11
\* with_capacity, reserve and truncate.
LEMMA SizedKeep ==
  ASSUME ArrInv, OverflowChecks, NEW a \in Arrays, NEW n \in Counts,
         WithCapacity(a, n) \/ Reserve(a, n) \/ Truncate(a, n)
  PROVE  ArrInv'
<1>1. n \in Nat /\ Fitting(arr[a])
  BY InputAssumption, SizeAssumption DEF ArrInv
<1>2. CASE WithCapacity(a, n)
  <2> DEFINE size == Wrap(ElemSize * n)
  <2>1. size \in Nat
    BY <1>1, WrapType, BytesCover
  <2> HIDE DEF size
  <2>2. CASE Panicked(<<"with_capacity", n>>, a) \/ Refused(<<"with_capacity", n>>, a)
    BY <2>2, RefusedKeeps
  <2>3. ASSUME LayoutOk(size), NEW got \in Granted(size),
               Done(<<"with_capacity", n>>, a, Result(TRUE, Made(got), {}), inside, None)
        PROVE  ArrInv'
    <3>1. got \in Nat /\ got < Usize /\ got <= IsizeMax
      BY <2>1, <2>3, GrantedFitting
    <3>2. Fitting(Result(TRUE, Made(got), {}).arr)
      BY <3>1, MadeFitting DEF Result
    <3> QED BY <2>3, <3>2, DoneKeeps
  <2> QED BY <1>2, <2>2, <2>3 DEF WithCapacity, size
<1>3. CASE Reserve(a, n)
  BY <1>1, <1>3, ReservedFitting, DoneKeeps DEF Reserve
<1>4. CASE Truncate(a, n)
  <2> DEFINE r == arr[a]
  <2>1. \A f : Fitting(Result(TRUE, r, f).arr)
    BY <1>1 DEF Result
  <2>2. ASSUME NEW ok, NEW f, r.length > n
        PROVE  Fitting(Result(ok, [r EXCEPT !.length = n], f).arr)
    <3>1. n <= r.capacity
      BY <1>1, <2>2 DEF Fitting
    <3>2. Fitting([r EXCEPT !.length = n])
      BY <1>1, <3>1, LengthFitting
    <3> HIDE DEF r
    <3> QED BY <3>2 DEF Result
  <2>3. ASSUME NEW ok, NEW f
        PROVE  Fitting(Result(ok, [r EXCEPT !.length = @], f).arr)
    <3>1. [r EXCEPT !.length = @] = r
      BY <1>1 DEF Fitting, Record
    <3> QED BY <1>1, <3>1 DEF Result
  <2>4. CASE Panicked(<<"truncate", n>>, a)
    BY <2>4, RefusedKeeps
  <2>5. CASE \E o, in : Fitting(o.arr) /\ Done(<<"truncate", n>>, a, o, in, None)
    BY <2>5, DoneKeeps
  <2> HIDE DEF r
  <2> QED BY <1>4, <2>1, <2>2, <2>3, <2>4, <2>5 DEF Truncate, r
<1> QED BY <1>2, <1>3, <1>4

LEMMA PushesKeep ==
  ASSUME ArrInv, NEW a \in Arrays, NEW e,
         Push(a, e) \/ PushWithinCapacity(a, e)
  PROVE  ArrInv'
<1>1. Fitting(arr[a])
  BY DEF ArrInv
<1>2. CASE Push(a, e)
  BY <1>1, <1>2, PushedFitting, DoneKeeps DEF Push
<1>3. CASE PushWithinCapacity(a, e)
  <2> DEFINE r == arr[a]
             p == Put(r, r.length, e)
             written == [p EXCEPT !.length = @ + 1]
  <2>1. CASE Refused(<<"push_within_capacity">>, a)
    BY <2>1, RefusedKeeps
  <2>2. ASSUME r.length < r.capacity PROVE \A f : Fitting(Result(TRUE, written, f).arr)
    <3>1. Fitting(p) /\ p.length = r.length /\ p.capacity = r.capacity
      BY <1>1, PutFitting
    <3>2. r.length + 1 \in Nat /\ r.length + 1 <= r.capacity
      BY <1>1, <2>2 DEF Fitting
    <3> HIDE DEF p, r
    <3>3. [p EXCEPT !.length = @ + 1] = [p EXCEPT !.length = r.length + 1]
      BY <3>1 DEF Fitting, Record
    <3>4. Fitting(written)
      BY <3>1, <3>2, <3>3, LengthFitting
    <3> QED BY <3>4 DEF Result
  <2>3. CASE \E o, in : /\ Fitting(o.arr)
                       /\ Done(<<"push_within_capacity">>, a, o, in, None)
    BY <2>3, DoneKeeps
  <2> HIDE DEF p
  <2> QED BY <1>3, <2>1, <2>2, <2>3 DEF PushWithinCapacity, p
<1> QED BY <1>2, <1>3

LEMMA InsertKeeps ==
  ASSUME ArrInv, NEW a \in Arrays, NEW e, NEW i, Insert(a, i, e)
  PROVE  ArrInv'
<1>1. \A o \in Inserted(arr[a], i, e) : Fitting(o.arr)
  BY InsertedFitting DEF ArrInv
<1> QED BY <1>1, DoneKeeps, RefusedKeeps DEF Insert

LEMMA ClearKeeps ==
  ASSUME ArrInv, NEW a \in Arrays, Clear(a)
  PROVE  ArrInv'
<1>1. Fitting(arr[a])
  BY DEF ArrInv
<1>2. Fitting([arr[a] EXCEPT !.length = 0])
  BY <1>1, LengthFitting DEF Fitting
<1>3. PICK ok, f, in : Done(<<"clear">>, a, Result(ok, [arr[a] EXCEPT !.length = 0], f), in, None)
  BY DEF Clear
<1>4. Fitting(Result(ok, [arr[a] EXCEPT !.length = 0], f).arr)
  BY <1>2 DEF Result
<1> QED BY <1>3, <1>4, DoneKeeps

LEMMA AppendKeeps ==
  ASSUME ArrInv, NEW a \in Arrays, NEW b \in Arrays, AppendFrom(a, b)
  PROVE  ArrInv'
BY AppendedFitting, DoneKeeps DEF AppendFrom, ArrInv

LEMMA InitKeeps == Init => ArrInv
<1>1. Fitting(New)
  <2>1. IsizeMax \in Nat
    BY SizeAssumption DEF IsizeMax
  <2> QED BY <2>1, SizeAssumption DEF Fitting, Record, New
<1> QED BY <1>1 DEF Init, ArrInv

LEMMA StepKeeps ==
  ASSUME ArrInv, OverflowChecks, [Next]_vars
  PROVE  ArrInv'
<1>1. CASE UNCHANGED vars
  BY <1>1 DEF ArrInv, vars, Fitting, Record
<1>2. ASSUME NEW a \in Arrays, NEW n \in Counts,
             WithCapacity(a, n) \/ Reserve(a, n) \/ Truncate(a, n)
      PROVE  ArrInv'
  BY <1>2, SizedKeep
<1>3. ASSUME NEW a \in Arrays, NEW i \in Indices,
             \/ Remove(a, i) \/ RemoveUnchecked(a, i)
             \/ SwapRemove(a, i) \/ SwapRemoveUnchecked(a, i)
      PROVE  ArrInv'
  BY <1>3, RemovesKeep
<1>4. ASSUME NEW a \in Arrays, Pop(a) PROVE ArrInv'
  BY <1>4, PopKeeps
<1>5. ASSUME NEW a \in Arrays, NEW e, Push(a, e) \/ PushWithinCapacity(a, e)
      PROVE  ArrInv'
  BY <1>5, PushesKeep
<1>6. ASSUME NEW a \in Arrays, NEW e, NEW i, Insert(a, i, e) PROVE ArrInv'
  BY <1>6, InsertKeeps
<1>7. ASSUME NEW a \in Arrays, Clear(a) PROVE ArrInv'
  BY <1>7, ClearKeeps
<1>8. ASSUME NEW a \in Arrays, NEW b \in Arrays, AppendFrom(a, b) PROVE ArrInv'
  BY <1>8, AppendKeeps
<1> QED
  BY <1>1, <1>2, <1>3, <1>4, <1>5, <1>6, <1>7, <1>8 DEF Next

\* No method in any order, on elements of any size, takes the length past the
\* recorded capacity, in a build with overflow checks: `capacity' being set to
\* a number of bytes only ever makes it larger.  (In a release build, remove of
\* the largest index takes an element out of an empty array.)
THEOREM WithinCapacity == OverflowChecks /\ Spec => []LengthWithinCapacity
<1> SUFFICES ASSUME OverflowChecks PROVE Spec => []LengthWithinCapacity
  OBVIOUS
<1>1. Init => ArrInv
  BY InitKeeps
<1>2. ArrInv /\ [Next]_vars => ArrInv'
  BY StepKeeps
<1>3. ArrInv => LengthWithinCapacity
  BY DEF ArrInv, Fitting, LengthWithinCapacity
<1> QED
  BY <1>1, <1>2, <1>3, PTL DEF Spec

-----------------------------------------------------------------------------
(* Failing calls.                                                          *)

\* If the step is a call that fails, no array shows anything else after it.
Unseen == ~last'.ok => \A a \in Arrays : Same(arr[a], arr'[a])

LEMMA SameItself ==
  ASSUME NEW r
  PROVE  Same(r, r)
BY DEF Same

LEMMA DoneUnseen ==
  ASSUME ArrInv, NEW call, NEW a \in Arrays, NEW o, NEW in, NEW v,
         ~o.ok => Same(arr[a], o.arr), Done(call, a, o, in, v)
  PROVE  Unseen
<1>1. arr' = [arr EXCEPT ![a] = o.arr] /\ last'.ok = o.ok
  BY DEF Done
<1>2. \A b \in Arrays : arr'[b] = IF b = a THEN o.arr ELSE arr[b]
  BY <1>1 DEF ArrInv
<1> QED BY <1>1, <1>2, SameItself DEF Unseen

\* A call that changes an array and reports success, or refuses.
LEMMA EitherUnseen ==
  ASSUME ArrInv, NEW call, NEW a \in Arrays,
         \/ Refused(call, a) \/ Panicked(call, a)
         \/ \E r, f, in, v : Done(call, a, Result(TRUE, r, f), in, v)
  PROVE  Unseen
<1>1. CASE Refused(call, a) \/ Panicked(call, a)
  BY <1>1, DoneUnseen, SameItself DEF Refused, Panicked, Result
<1>2. CASE \E r, f, in, v : Done(call, a, Result(TRUE, r, f), in, v)
  <2>1. PICK r, f, in, v : Done(call, a, Result(TRUE, r, f), in, v)
    BY <1>2
  <2> QED BY <2>1, DoneUnseen DEF Result
<1> QED BY <1>1, <1>2

\* An element that comes out comes with success.
LEMMA HandOutUnseen ==
  ASSUME NEW call, NEW a, NEW r, NEW f, NEW i,
         HandOut(call, a, Result(TRUE, r, f), i)
  PROVE  Unseen
<1> DEFINE o == Result(TRUE, r, f)
           g == o.fault \union Touching(arr[a], {i}) \union Losing(arr[a], {i})
<1>1. \A h : [o EXCEPT !.fault = h].ok = TRUE
  BY DEF Result
<1>2. PICK in, v : Done(call, a, [o EXCEPT !.fault = g], in, v)
  BY Zenon DEF HandOut
<1> HIDE DEF o, g
<1>3. last'.ok = TRUE
  BY <1>1, <1>2 DEF Done
<1> QED BY <1>3 DEF Unseen

LEMMA RemovesUnseen ==
  ASSUME ArrInv, NEW a \in Arrays, NEW i,
         \/ Remove(a, i) \/ RemoveUnchecked(a, i) \/ Pop(a)
         \/ SwapRemove(a, i) \/ SwapRemoveUnchecked(a, i)
  PROVE  Unseen
<1>1. CASE \E call : PopLast(call, a)
  BY <1>1, HandOutUnseen DEF PopLast
<1>2. CASE \E call, j : HandOut(call, a, Removed(arr[a], j), j)
  BY <1>2, HandOutUnseen DEF Removed
<1>3. CASE \E call, j : HandOut(call, a, SwappedOut(arr[a], j), j)
  BY <1>3, HandOutUnseen DEF SwappedOut
<1>4. CASE \E call : Refused(call, a) \/ Panicked(call, a)
  BY <1>4, EitherUnseen
<1> QED
  BY <1>1, <1>2, <1>3, <1>4, Zenon
  DEF Remove, RemoveUnchecked, Pop, SwapRemove, SwapRemoveUnchecked

LEMMA SizedUnseen ==
  ASSUME ArrInv, NEW a \in Arrays, NEW n \in Counts,
         WithCapacity(a, n) \/ Reserve(a, n) \/ Truncate(a, n)
  PROVE  Unseen
<1>1. n \in Nat /\ Fitting(arr[a])
  BY InputAssumption, SizeAssumption DEF ArrInv
<1>2. CASE WithCapacity(a, n)
  BY <1>2, EitherUnseen DEF WithCapacity
<1>3. CASE Reserve(a, n)
  BY <1>1, <1>3, ReservedFitting, DoneUnseen DEF Reserve
<1>4. CASE Truncate(a, n)
  <2> DEFINE r == arr[a]
  <2>1. CASE \E f, in : Done(<<"truncate", n>>, a, Result(TRUE, r, f), in, None)
    BY <2>1, EitherUnseen
  <2>2. CASE Panicked(<<"truncate", n>>, a)
    BY <2>2, EitherUnseen
  <2>3. ASSUME NEW whole, NEW f, NEW in,
               Done(<<"truncate", n>>, a,
                    Result(whole, [r EXCEPT !.length = IF whole THEN n ELSE @], f),
                    in, None)
        PROVE  Unseen
    <3> DEFINE s == [r EXCEPT !.length = IF whole THEN n ELSE @]
    <3>1. ~whole => s = r
      BY <1>1 DEF Fitting, Record
    <3>2. ~whole => Same(r, s)
      BY <3>1, SameItself
    <3> HIDE DEF s
    <3>3. Result(whole, s, f).ok = whole /\ Result(whole, s, f).arr = s
      BY DEF Result
    <3> QED BY <2>3, <3>2, <3>3, DoneUnseen DEF s
  <2> QED BY <1>4, <2>1, <2>2, <2>3, Zenon DEF Truncate
<1> QED BY <1>2, <1>3, <1>4

LEMMA StoresUnseen ==
  ASSUME ArrInv, NEW a \in Arrays, NEW e,
         \/ Push(a, e) \/ PushWithinCapacity(a, e)
         \/ \E i \in Indices : Insert(a, i, e)
         \/ \E b \in Arrays : AppendFrom(a, b)
  PROVE  Unseen
<1>1. CASE Push(a, e)
  BY <1>1, PushedFitting, DoneUnseen DEF Push, ArrInv
<1>2. CASE PushWithinCapacity(a, e)
  BY <1>2, EitherUnseen DEF PushWithinCapacity
<1>3. ASSUME NEW i \in Indices, Insert(a, i, e) PROVE Unseen
  <2>1. \A o \in Inserted(arr[a], i, e) : ~o.ok => Same(arr[a], o.arr)
    BY InsertedFitting DEF ArrInv
  <2> QED BY <1>3, <2>1, DoneUnseen, EitherUnseen DEF Insert
<1>4. ASSUME NEW b \in Arrays, AppendFrom(a, b) PROVE Unseen
  <2>1. \A o \in Appended(arr[a], arr[b]) : ~o.ok => Same(arr[a], o.arr)
    BY AppendedFitting DEF ArrInv
  <2> QED BY <1>4, <2>1, DoneUnseen DEF AppendFrom
<1> QED BY <1>1, <1>2, <1>3, <1>4

\* A call that reports failure leaves what every array shows as it was, in a
\* build with overflow checks and for elements of any size, however far it got:
\* a push may fail behind a reservation that went well, a truncate in a drop.
THEOREM FailureHarmless == OverflowChecks /\ Spec => FailureKeepsContents
<1> SUFFICES ASSUME OverflowChecks PROVE Spec => FailureKeepsContents
  OBVIOUS
<1>1. Init => ArrInv
  BY InitKeeps
<1>2. ArrInv /\ [Next]_vars => ArrInv'
  BY StepKeeps
<1>3. ArrInv /\ [Next]_vars =>
        [~last'.ok /\ last'.call # <<"clear">> =>
           \A a \in Arrays :
             /\ arr'[a].length = arr[a].length
             /\ \A i \in Visible(arr[a]) : Read(arr'[a], i) = Read(arr[a], i)]_vars
  <2> SUFFICES ASSUME ArrInv, Next, last'.call # <<"clear">> PROVE Unseen
    BY DEF Unseen, Same
  <2>1. ASSUME NEW a \in Arrays, Clear(a) PROVE Unseen
    <3>1. last'.call = <<"clear">>
      BY <2>1 DEF Clear, Done
    <3> QED BY <3>1
  <2> QED
    BY <2>1, RemovesUnseen, SizedUnseen, StoresUnseen DEF Next
<1> QED
  BY <1>1, <1>2, <1>3, PTL DEF Spec, FailureKeepsContents

-----------------------------------------------------------------------------
(* Room.                                                                   *)

\* If the step is a call that asks for room and succeeds, it made that room.
Roomier ==
  last'.ok /\ last'.call[1] \in {"with_capacity", "reserve"} =>
    Room(arr'[last'.on], last'.call[2])

LEMMA DoneNamed ==
  ASSUME NEW call, NEW a, NEW o, NEW in, NEW v, Done(call, a, o, in, v)
  PROVE  last'.call = call /\ last'.on = a /\ last'.ok = o.ok
BY DEF Done

LEMMA HandOutNamed ==
  ASSUME NEW call, NEW a, NEW o, NEW i, HandOut(call, a, o, i)
  PROVE  last'.call = call
<1>1. PICK p, in, v : Done(call, a, p, in, v)
  BY Zenon DEF HandOut
<1> QED BY <1>1, DoneNamed

\* The other methods go by other names.
LEMMA OthersRoomier ==
  ASSUME NEW a \in Arrays,
         \/ Pop(a) \/ Clear(a) \/ \E n \in Counts : Truncate(a, n)
         \/ \E i \in Indices : \/ Remove(a, i) \/ RemoveUnchecked(a, i)
                              \/ SwapRemove(a, i) \/ SwapRemoveUnchecked(a, i)
         \/ \E e : Push(a, e) \/ PushWithinCapacity(a, e)
         \/ \E e, i : Insert(a, i, e)
         \/ \E b \in Arrays : AppendFrom(a, b)
  PROVE  Roomier
<1>1. ASSUME NEW call,
             \/ \E o, in, v : Done(call, a, o, in, v)
             \/ \E o, i : HandOut(call, a, o, i)
      PROVE  last'.call = call
  BY <1>1, DoneNamed, HandOutNamed
<1>2. Pop(a) => last'.call = <<"pop">>
  BY <1>1, Zenon DEF Pop, PopLast, Refused
<1>3. Clear(a) => last'.call = <<"clear">>
  BY <1>1, Zenon DEF Clear
<1>4. ASSUME NEW n, Truncate(a, n) PROVE last'.call = <<"truncate", n>>
  BY <1>1, <1>4, Zenon DEF Truncate, Panicked
<1>5. ASSUME NEW i
      PROVE  /\ Remove(a, i) => last'.call = <<"remove", i>>
             /\ RemoveUnchecked(a, i) => last'.call = <<"remove_unchecked", i>>
             /\ SwapRemove(a, i) => last'.call = <<"swap_remove", i>>
             /\ SwapRemoveUnchecked(a, i) => last'.call = <<"swap_remove_unchecked", i>>
  <2>1. Remove(a, i) => last'.call = <<"remove", i>>
    BY <1>1, Zenon DEF Remove, PopLast, Refused, Panicked
  <2>2. SwapRemove(a, i) => last'.call = <<"swap_remove", i>>
    BY <1>1, Zenon DEF SwapRemove, PopLast, Refused, Panicked
  <2> QED BY <1>1, <2>1, <2>2, Zenon DEF RemoveUnchecked, SwapRemoveUnchecked
<1>6. ASSUME NEW e
      PROVE  /\ Push(a, e) => last'.call = <<"push">>
             /\ PushWithinCapacity(a, e) => last'.call = <<"push_within_capacity">>
             /\ \A i : Insert(a, i, e) => last'.call = <<"insert", i>>
  <2>1. Push(a, e) => last'.call = <<"push">>
    BY <1>1, Zenon DEF Push
  <2>2. PushWithinCapacity(a, e) => last'.call = <<"push_within_capacity">>
    BY <1>1, Zenon DEF PushWithinCapacity, Refused
  <2>3. ASSUME NEW i, Insert(a, i, e) PROVE last'.call = <<"insert", i>>
    BY <1>1, <2>3, Zenon DEF Insert, Refused
  <2> QED BY <2>1, <2>2, <2>3
<1>7. ASSUME NEW b, AppendFrom(a, b) PROVE last'.call = <<"append">>
  BY <1>1, <1>7, Zenon DEF AppendFrom
<1>8. ASSUME NEW n
      PROVE  /\ last'.call = <<"truncate", n>> => Roomier
             /\ last'.call = <<"remove", n>> => Roomier
             /\ last'.call = <<"remove_unchecked", n>> => Roomier
             /\ last'.call = <<"swap_remove", n>> => Roomier
             /\ last'.call = <<"swap_remove_unchecked", n>> => Roomier
             /\ last'.call = <<"insert", n>> => Roomier
  BY DEF Roomier
<1>9. /\ last'.call = <<"pop">> => Roomier
      /\ last'.call = <<"clear">> => Roomier
      /\ last'.call = <<"push">> => Roomier
      /\ last'.call = <<"push_within_capacity">> => Roomier
      /\ last'.call = <<"append">> => Roomier
  BY DEF Roomier
<1>10. ASSUME \E n \in Counts : Truncate(a, n) PROVE Roomier
  BY <1>4, <1>8, <1>10
<1>11. ASSUME NEW i \in Indices,
              \/ Remove(a, i) \/ RemoveUnchecked(a, i)
              \/ SwapRemove(a, i) \/ SwapRemoveUnchecked(a, i)
       PROVE  Roomier
  BY <1>5, <1>8, <1>11
<1>12. ASSUME NEW e, Push(a, e) \/ PushWithinCapacity(a, e) PROVE Roomier
  BY <1>6, <1>9, <1>12
<1>13. ASSUME NEW e, NEW i, Insert(a, i, e) PROVE Roomier
  BY <1>6, <1>8, <1>13
<1>14. ASSUME NEW b \in Arrays, AppendFrom(a, b) PROVE Roomier
  BY <1>7, <1>9, <1>14
<1> QED
  BY <1>2, <1>3, <1>9, <1>10, <1>11, <1>12, <1>13, <1>14

\* with_capacity multiplies, and in a build with overflow checks does so exactly.
LEMMA WithCapacityRoomier ==
  ASSUME ArrInv, OverflowChecks, NEW a \in Arrays, NEW n \in Counts, WithCapacity(a, n)
  PROVE  Roomier
<1> DEFINE size == ElemSize * n
           call == <<"with_capacity", n>>
<1>1. n \in Nat /\ size \in Nat
  BY InputAssumption, SizeAssumption, BytesCover
<1>2. CASE Panicked(call, a) \/ Refused(call, a)
  <2>1. ~last'.ok
    BY <1>2, DoneNamed DEF Panicked, Refused, Result
  <2> QED BY <2>1 DEF Roomier
<1>3. ASSUME size < Usize, LayoutOk(Wrap(size)), NEW got \in Granted(Wrap(size)),
             Done(call, a, Result(TRUE, Made(got), {}), inside, None)
      PROVE  Roomier
  <2> HIDE DEF size
  <2>1. \A m \in Nat \ {0} : \A x \in 0 .. m - 1 : x % m = x
    OBVIOUS
  <2>2. Wrap(size) = size
    BY <1>1, <1>3, <2>1, SizeAssumption DEF Wrap
  <2>3. got \in Nat /\ size <= got /\ got < Usize /\ got <= IsizeMax
    BY <1>1, <1>3, <2>2, GrantedFitting
  <2>4. Made(got).length = 0 /\ Made(got).block = got
    BY <2>3, MadeFitting
  <2>5. arr'[a] = Made(got)
    BY <1>3 DEF Done, Result, ArrInv
  <2>6. (0 + n) * ElemSize = size
    BY <1>1, SizeAssumption DEF size
  <2>7. Room(arr'[a], n)
    BY <2>3, <2>4, <2>5, <2>6 DEF Room
  <2>8. last'.on = a /\ last'.call = call
    BY <1>3, DoneNamed
  <2> QED BY <2>7, <2>8 DEF Roomier
<1>4. \/ Panicked(call, a) \/ Refused(call, a)
      \/ /\ ~(size >= Usize) /\ LayoutOk(Wrap(size))
         /\ \E got \in Granted(Wrap(size)) :
              Done(call, a, Result(TRUE, Made(got), {}), inside, None)
  BY Zenon DEF WithCapacity
<1>5. ~(size >= Usize) => size < Usize
  BY <1>1, SizeAssumption
<1> HIDE DEF size
<1> QED BY <1>2, <1>3, <1>4, <1>5

\* reserve asks for the capacity and n more, and the length is within capacity.
LEMMA ReserveRoomier ==
  ASSUME ArrInv, NEW a \in Arrays, NEW n \in Counts, Reserve(a, n)
  PROVE  Roomier
<1> DEFINE r == arr[a]
           size == ElemSize * (r.capacity + n)
<1>1. n \in Nat /\ Fitting(r)
  BY InputAssumption, SizeAssumption DEF ArrInv
<1>2. PICK o \in Reserved(r, n) : Done(<<"reserve", n>>, a, o, inside, None)
  BY DEF Reserve
<1>3. /\ last'.on = a /\ last'.call = <<"reserve", n>> /\ last'.ok = o.ok
      /\ arr'[a] = o.arr
  BY <1>2, DoneNamed DEF Done, ArrInv
<1>4. o.arr.length = r.length
  BY <1>1, ReservedFitting DEF Same
<1> HIDE DEF r
<1>5. /\ r.length \in Nat /\ r.capacity \in Nat /\ r.length <= r.capacity
      /\ r.length + n \in Nat /\ r.capacity + n \in Nat
      /\ r.length + n <= r.capacity + n
  BY <1>1 DEF Fitting
<1>6. size \in Nat /\ (r.length + n) * ElemSize <= size
  <2>1. \A x, y \in Nat : x <= y => x * ElemSize <= ElemSize * y
    <3> SUFFICES ASSUME NEW x \in Nat, NEW y \in Nat, x <= y
                 PROVE  x * ElemSize <= ElemSize * y
      OBVIOUS
    <3>1. y - x \in Nat /\ y = x + (y - x)
      OBVIOUS
    <3>2. ElemSize * (y - x) \in Nat /\ ElemSize * x \in Nat
      BY <3>1, SizeAssumption
    <3>3. ElemSize * (x + (y - x)) = ElemSize * x + ElemSize * (y - x)
      BY <3>1, SizeAssumption
    <3>4. x * ElemSize = ElemSize * x
      BY SizeAssumption
    <3> QED BY <3>1, <3>2, <3>3, <3>4
  <2> QED BY <1>5, <2>1, SizeAssumption
<1>7. o.ok => LayoutOk(size) /\ \E got \in Granted(size) : o.arr = Resized(r, got)
  BY DEF Reserved, Result
<1> HIDE DEF size
<1>8. ASSUME o.ok PROVE Room(o.arr, n)
  <2>1. PICK got \in Granted(size) : LayoutOk(size) /\ o.arr = Resized(r, got)
    BY <1>7, <1>8
  <2>2. got \in Nat /\ size <= got
    BY <1>6, <2>1, GrantedFitting
  <2>3. o.arr.block = got
    BY <1>1, <2>1 DEF Resized, Fitting, Record
  <2>4. (r.length + n) * ElemSize \in Nat
    BY <1>5, SizeAssumption
  <2> QED BY <1>4, <1>6, <2>2, <2>3, <2>4 DEF Room
<1> QED BY <1>3, <1>8 DEF Roomier

\* Once with_capacity or reserve has succeeded there is room for the elements
\* asked for, of any size, in a build with overflow checks: that capacity counts
\* bytes never makes the block too small.
THEOREM RoomGiven == OverflowChecks /\ Spec => RoomAsAsked
<1> SUFFICES ASSUME OverflowChecks PROVE Spec => RoomAsAsked
  OBVIOUS
<1>1. Init => ArrInv
  BY InitKeeps
<1>2. ArrInv /\ [Next]_vars => ArrInv'
  BY StepKeeps
<1>3. ArrInv /\ [Next]_vars =>
        [last'.ok /\ last'.call[1] \in {"with_capacity", "reserve"} =>
           Room(arr'[last'.on], last'.call[2])]_vars
  <2> SUFFICES ASSUME ArrInv, Next PROVE Roomier
    BY DEF Roomier
  <2> QED
    BY OthersRoomier, WithCapacityRoomier, ReserveRoomier DEF Next
<1> QED
  BY <1>1, <1>2, <1>3, PTL DEF Spec, RoomAsAsked
=============================================================================
