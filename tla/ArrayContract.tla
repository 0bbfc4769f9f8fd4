---------------------------- MODULE ArrayContract ----------------------------
(***************************************************************************)
(* What an Array is to its user: a sequence of the elements moved into it. *)
(* A call that succeeds changes the sequence by exactly its operation and  *)
(* hands back the element it took out; a call that fails leaves every      *)
(* sequence as it was.  Memory does not appear here.                       *)
(***************************************************************************)
EXTENDS Integers, SequencesExt

CONSTANTS
  Arrays, Elements, None,
  Counts, Indices   \* the sizes and indices calls are given

VARIABLES
  contents,  \* contents[a]: the elements of array a, first to last
  last       \* the last call: [call, on, ok, value], call with its index or size

Held == UNION {ToSet(contents[a]) : a \in Arrays}

Returns(call, a, ok, v) ==
  last' = [call |-> call, on |-> a, ok |-> ok, value |-> v]

Init ==
  /\ contents = [a \in Arrays |-> <<>>]
  /\ last = [call |-> <<"new">>, on |-> None, ok |-> TRUE, value |-> None]

\* push_within_capacity
AppendOne(a, e) ==
  /\ e \notin Held
  /\ contents' = [contents EXCEPT ![a] = Append(@, e)]
  /\ Returns(<<"push_within_capacity">>, a, TRUE, None)

\* remove, remove_unchecked at index i - 1, pop at the last
TakeOut(call, a, i) ==
  /\ contents' = [contents EXCEPT ![a] = RemoveAt(@, i)]
  /\ Returns(call, a, TRUE, contents[a][i])

\* swap_remove, swap_remove_unchecked: the last element fills the gap
SwapOut(call, a, i) ==
  /\ contents' = [contents EXCEPT ![a] = Front(ReplaceAt(@, i, Last(@)))]
  /\ Returns(call, a, TRUE, contents[a][i])

Empty(a) ==
  /\ contents' = [contents EXCEPT ![a] = <<>>]
  /\ \E ok \in BOOLEAN : Returns(<<"clear">>, a, ok, None)

\* with_capacity and reserve only ever change where the elements are kept.
MakeRoom(a) ==
  /\ UNCHANGED contents
  /\ \E call \in {"with_capacity", "reserve"}, n \in Counts :
       Returns(<<call, n>>, a, TRUE, None)

Fail(a) ==
  /\ UNCHANGED contents
  /\ \/ \E call \in {"push_within_capacity", "pop"} : Returns(<<call>>, a, FALSE, None)
     \/ \E call \in {"with_capacity", "reserve"}, n \in Counts :
          Returns(<<call, n>>, a, FALSE, None)
     \/ \E call \in {"remove", "swap_remove"}, i \in Indices :
          Returns(<<call, i>>, a, FALSE, None)

Next ==
  \E a \in Arrays :
    \/ Empty(a) \/ MakeRoom(a) \/ Fail(a)
    \/ \E e \in Elements : AppendOne(a, e)
    \/ contents[a] # <<>> /\ TakeOut(<<"pop">>, a, Len(contents[a]))
    \/ \E i \in 1 .. Len(contents[a]) :
         \/ \E call \in {"remove", "remove_unchecked"} : TakeOut(<<call, i - 1>>, a, i)
         \/ \E call \in {"swap_remove", "swap_remove_unchecked"} :
              SwapOut(<<call, i - 1>>, a, i)

Spec == Init /\ [][Next]_<<contents, last>>
=============================================================================
