----------------------------- MODULE GrammarProofs -----------------------------
(***************************************************************************)
(* Lemmas about DeclarationGrammar, for any tokens: streams of tokens and  *)
(* what is left of them, fields and variants between their cuts, and one   *)
(* token more of each.                                                     *)
(***************************************************************************)
EXTENDS DeclarationGrammar, SequenceTheorems, FiniteSetTheorems, TLAPS

-----------------------------------------------------------------------------
(* Concatenating sequences.                                                *)

\* Induction on the naturals: of the numbers outside S none is the least, as
\* the intervals 1 .. n are well founded by inclusion.
LEMMA SetInduction ==
  ASSUME NEW S, 0 \in S, \A n \in Nat : n \in S => n + 1 \in S
  PROVE  \A n \in Nat : n \in S
<1> SUFFICES ASSUME NEW b \in Nat, b \notin S PROVE FALSE
  OBVIOUS
<1> DEFINE T == {1 .. n : n \in Nat \ S}
<1>1. T \subseteq FiniteSubsetsOf(Nat) /\ T # {}
  <2>1. \A n \in Nat : IsFiniteSet(1 .. n)
    BY FS_Interval
  <2> QED BY <2>1 DEF FiniteSubsetsOf
<1>2. PICK x \in T : \A y \in T : <<y, x>> \notin StrictSubsetOrdering(Nat)
  <2> HIDE DEF T
  <2> QED BY <1>1, WFMin, FS_StrictSubsetOrderingWellFounded
<1>3. PICK m \in Nat \ S : x = 1 .. m
  OBVIOUS
<1>4. m # 0 /\ m - 1 \in Nat
  OBVIOUS
<1>5. m - 1 \in S
  <2> SUFFICES ASSUME m - 1 \notin S PROVE FALSE
    OBVIOUS
  <2>1. 1 .. (m - 1) \in T
    BY <1>4
  <2>2. 1 .. (m - 1) \subseteq 1 .. m /\ 1 .. (m - 1) # 1 .. m
    <3>1. m \in 1 .. m /\ m \notin 1 .. (m - 1)
      BY <1>4
    <3> QED BY <3>1
  <2>3. <<1 .. (m - 1), 1 .. m>> \in StrictSubsetOrdering(Nat)
    BY <2>2 DEF StrictSubsetOrdering
  <2> QED BY <1>2, <1>3, <2>1, <2>3
<1> QED BY <1>4, <1>5

\* Concatenation, by a name of its own: the proofs use it by the facts below only.
Cat(a, b) == a \o b

\* g[i] is the concatenation of the first i sequences of s, as FlattenSeq
\* computes it.
Flattens(g, s, m) ==
  g = [i \in 1 .. m |-> IF i = 1 THEN s[i] ELSE Cat(g[i - 1], s[i])]

\* Such a g at i: the concatenation as far as i - 1, and s[i].
LEMMA FlattensAt ==
  ASSUME NEW g, NEW s, NEW m \in Nat, Flattens(g, s, m), NEW i \in 1 .. m
  PROVE  g[i] = IF i = 1 THEN s[i] ELSE Cat(g[i - 1], s[i])
<1> DEFINE F == [j \in 1 .. m |-> IF j = 1 THEN s[j] ELSE Cat(g[j - 1], s[j])]
<1>1. g = F
  BY DEF Flattens
<1>2. F[i] = IF i = 1 THEN s[i] ELSE Cat(g[i - 1], s[i])
  OBVIOUS
<1> HIDE DEF F
<1> QED BY <1>1, <1>2

\* There is such a g for every s, of any length.
LEMMA FlattensExists ==
  ASSUME NEW s, NEW n \in Nat
  PROVE  \E g : Flattens(g, s, n)
<1> DEFINE S == {m \in Nat : \E g : Flattens(g, s, m)}
<1>1. 0 \in S
  <2>1. Flattens([i \in 1 .. 0 |-> s[i]], s, 0)
    BY DEF Flattens
  <2> QED BY <2>1
<1>2. ASSUME NEW m \in Nat, m \in S PROVE m + 1 \in S
  <2>1. PICK g : Flattens(g, s, m)
    BY <1>2
  <2> DEFINE h == [i \in 1 .. (m + 1) |->
                     IF i <= m THEN g[i]
                     ELSE IF i = 1 THEN s[i] ELSE Cat(g[m], s[i])]
  <2>2. \A i \in 1 .. (m + 1) :
          h[i] = IF i = 1 THEN s[i] ELSE Cat(h[i - 1], s[i])
    <3> SUFFICES ASSUME NEW i \in 1 .. (m + 1)
                 PROVE  h[i] = IF i = 1 THEN s[i] ELSE Cat(h[i - 1], s[i])
      OBVIOUS
    <3>1. CASE i <= m
      <4>1. g[i] = IF i = 1 THEN s[i] ELSE Cat(g[i - 1], s[i])
        BY <2>1, <3>1, FlattensAt
      <4>2. i # 1 => i - 1 \in 1 .. (m + 1) /\ i - 1 <= m
        BY <3>1
      <4> QED BY <3>1, <4>1, <4>2
    <3>2. CASE i = m + 1
      <4>1. i # 1 => m \in 1 .. (m + 1) /\ i - 1 = m
        BY <3>2
      <4> QED BY <3>2, <4>1
    <3> QED BY <3>1, <3>2
  <2>3. Flattens(h, s, m + 1)
    <3>1. h = [i \in 1 .. (m + 1) |-> h[i]]
      OBVIOUS
    <3> HIDE DEF h
    <3> QED BY <2>2, <3>1 DEF Flattens
  <2> HIDE DEF h
  <2> QED BY <2>3
<1> HIDE DEF S
<1>3. n \in S
  BY <1>1, <1>2, SetInduction
<1> QED BY <1>3 DEF S

\* FlattenSeq is the last of these concatenations.
LEMMA FlattenSeqIs ==
  ASSUME NEW s, Len(s) \in Nat \ {0}
  PROVE  \E g : Flattens(g, s, Len(s)) /\ FlattenSeq(s) = g[Len(s)]
<1> DEFINE G == CHOOSE g : Flattens(g, s, Len(s))
<1>1. Flattens(G, s, Len(s))
  BY FlattensExists
<1>2. FlattenSeq(s) = G[Len(s)]
  BY DEF FlattenSeq, Flattens, Cat
<1> QED BY <1>1, <1>2

\* FlattenSeq of a sequence of sequences over D, one sequence at a time from
\* the front.
LEMMA FlattenEmpty == FlattenSeq(<<>>) = <<>>
BY DEF FlattenSeq

\* Concatenation is associative.
LEMMA ConcatAssoc ==
  ASSUME NEW D, NEW a \in Seq(D), NEW b \in Seq(D), NEW c \in Seq(D)
  PROVE  /\ Cat(Cat(a, b), c) = Cat(a, Cat(b, c)) /\ Cat(a, b) \in Seq(D)
BY DEF Cat

\* Nothing behind a sequence leaves it as it is.
LEMMA CatEmpty ==
  ASSUME NEW D, NEW a \in Seq(D)
  PROVE  Cat(a, <<>>) = a /\ <<>> \in Seq(D)
BY DEF Cat

\* The first m elements of s are sequences over D; t is s without its first.
Pieces(s, m, D) == \A i \in 1 .. m : s[i] \in Seq(D)
Follows(t, s, m) == \A i \in 1 .. m : t[i] = s[i + 1]

\* The concatenations of sequences over D are sequences over D.
LEMMA FlattensType ==
  ASSUME NEW D, NEW s, NEW m \in Nat, Pieces(s, m, D),
         NEW g, Flattens(g, s, m)
  PROVE  Pieces(g, m, D)
<1>1. ASSUME NEW n \in Nat, n \in 1 .. m => g[n] \in Seq(D), n + 1 \in 1 .. m
      PROVE  g[n + 1] \in Seq(D)
  <2>1. g[n + 1] = IF n + 1 = 1 THEN s[n + 1] ELSE Cat(g[n + 1 - 1], s[n + 1])
    BY <1>1, FlattensAt
  <2>2. s[n + 1] \in Seq(D)
    BY <1>1 DEF Pieces
  <2>3. CASE n = 0
    BY <2>1, <2>2, <2>3
  <2>4. CASE n # 0
    <3>1. n \in 1 .. m /\ g[n] \in Seq(D) /\ n + 1 - 1 = n
      BY <1>1, <2>4
    <3>2. Cat(g[n], s[n + 1]) \in Seq(D)
      BY <2>2, <3>1, ConcatAssoc
    <3> QED BY <2>1, <2>4, <3>1, <3>2
  <2> QED BY <2>3, <2>4
<1> DEFINE S == {n \in Nat : n \in 1 .. m => g[n] \in Seq(D)}
<1>2. 0 \in S /\ \A n \in Nat : n \in S => n + 1 \in S
  BY <1>1
<1> HIDE DEF S
<1>3. \A n \in Nat : n \in S
  BY <1>2, SetInduction
<1> QED BY <1>3 DEF S, Pieces

\* Without its first sequence s concatenates to the same, less that sequence.
LEMMA FlattensShift ==
  ASSUME NEW D, NEW s, NEW t, NEW m \in Nat,
         Pieces(s, m + 1, D),
         Follows(t, s, m),
         NEW g, Flattens(g, s, m + 1), NEW h, Flattens(h, t, m)
  PROVE  \A i \in 1 .. m : g[i + 1] = Cat(s[1], h[i])
<1>1. Pieces(t, m, D)
  BY DEF Pieces, Follows
<1>2. Pieces(h, m, D)
  BY <1>1, FlattensType
<1>3. g[1] = s[1]
  <2>1. 1 \in 1 .. m + 1 /\ m + 1 \in Nat
    OBVIOUS
  <2> QED BY <2>1, FlattensAt
<1>4. ASSUME NEW n \in Nat, n \in 1 .. m => g[n + 1] = Cat(s[1], h[n]), n + 1 \in 1 .. m
      PROVE  g[n + 2] = Cat(s[1], h[n + 1])
  <2>1. /\ n + 2 \in 1 .. m + 1 /\ n + 2 # 1 /\ n + 2 - 1 = n + 1 /\ n + 1 - 1 = n
        /\ m + 1 \in Nat /\ t[n + 1] = s[n + 2]
    BY <1>4 DEF Follows
  <2>2. g[n + 2] = Cat(g[n + 1], s[n + 2])
    <3>1. g[n + 2] = IF n + 2 = 1 THEN s[n + 2] ELSE Cat(g[n + 2 - 1], s[n + 2])
      BY <2>1, FlattensAt
    <3> QED BY <2>1, <3>1
  <2>3. h[n + 1] = IF n + 1 = 1 THEN s[n + 2] ELSE Cat(h[n], s[n + 2])
    <3>1. h[n + 1] = IF n + 1 = 1 THEN t[n + 1] ELSE Cat(h[n + 1 - 1], t[n + 1])
      BY <1>4, FlattensAt
    <3> QED BY <2>1, <3>1
  <2>4. s[1] \in Seq(D) /\ s[n + 2] \in Seq(D)
    BY <2>1 DEF Pieces
  <2>5. CASE n = 0
    BY <1>3, <2>2, <2>3, <2>5
  <2>6. CASE n # 0
    <3>1. n \in 1 .. m
      BY <1>4, <2>6
    <3>2. g[n + 1] = Cat(s[1], h[n]) /\ h[n] \in Seq(D)
      BY <1>2, <1>4, <3>1 DEF Pieces
    <3>3. Cat(Cat(s[1], h[n]), s[n + 2]) = Cat(s[1], Cat(h[n], s[n + 2]))
      <4>1. \A a, b, c \in Seq(D) : Cat(Cat(a, b), c) = Cat(a, Cat(b, c))
        BY ConcatAssoc
      <4> QED BY <2>4, <3>2, <4>1
    <3>4. h[n + 1] = Cat(h[n], s[n + 2])
      BY <2>3, <2>6
    <3> QED BY <2>2, <3>2, <3>3, <3>4, Zenon
  <2> QED BY <2>5, <2>6
<1> DEFINE S == {n \in Nat : n \in 1 .. m => g[n + 1] = Cat(s[1], h[n])}
<1>5. 0 \in S /\ \A n \in Nat : n \in S => n + 1 \in S
  <2>1. 0 \in S
    OBVIOUS
  <2>2. ASSUME NEW n \in Nat, n \in S PROVE n + 1 \in S
    <3>1. n + 1 + 1 = n + 2 /\ n + 1 \in Nat
      OBVIOUS
    <3>2. n \in 1 .. m => g[n + 1] = Cat(s[1], h[n])
      BY <2>2
    <3>3. n + 1 \in 1 .. m => g[n + 1 + 1] = Cat(s[1], h[n + 1])
      <4> HIDE DEF S
      <4> QED BY <1>4, <3>1, <3>2
    <3> QED BY <3>1, <3>3, Zenon
  <2> QED BY <2>1, <2>2
<1> HIDE DEF S
<1>6. \A n \in Nat : n \in S
  BY <1>5, SetInduction
<1> QED BY <1>6 DEF S

\* t is s without its first sequence; s has m + 1 over D.
Splits(s, t, m, D) ==
  /\ Len(s) = m + 1 /\ Pieces(s, m + 1, D)
  /\ Len(t) = m /\ (m = 0 => t = <<>>) /\ Follows(t, s, m)

\* FlattenSeq of s is its first sequence and FlattenSeq of the others: the
\* stream of a file is its first item and the stream of the rest.
LEMMA FlattenCons ==
  ASSUME NEW D, NEW s, NEW t, NEW m \in Nat, Splits(s, t, m, D)
  PROVE  /\ FlattenSeq(s) = Cat(s[1], FlattenSeq(t))
         /\ FlattenSeq(s) \in Seq(D) /\ FlattenSeq(t) \in Seq(D)
<1> USE DEF Splits
<1>1. m + 1 \in Nat \ {0} /\ m + 1 \in 1 .. m + 1 /\ 1 \in 1 .. m + 1
  OBVIOUS
<1>2. PICK g : Flattens(g, s, m + 1) /\ FlattenSeq(s) = g[m + 1]
  BY <1>1, FlattenSeqIs
<1>3. FlattenSeq(s) \in Seq(D)
  <2>1. Pieces(g, m + 1, D)
    BY <1>1, <1>2, FlattensType
  <2> QED BY <1>1, <1>2, <2>1 DEF Pieces
<1>4. CASE m = 0
  <2>1. FlattenSeq(t) = <<>>
    BY <1>4, FlattenEmpty
  <2>2. g[1] = s[1]
    BY <1>1, <1>2, FlattensAt
  <2>3. FlattenSeq(s) = s[1]
    BY <1>2, <1>4, <2>2
  <2> QED BY <1>3, <2>1, <2>3, CatEmpty
<1>5. CASE m # 0
  <2>1. PICK h : Flattens(h, t, m) /\ FlattenSeq(t) = h[m]
    BY <1>5, FlattenSeqIs
  <2>2. \A i \in 1 .. m : g[i + 1] = Cat(s[1], h[i])
    BY <1>2, <2>1, FlattensShift
  <2>3. h[m] \in Seq(D)
    <3>1. Pieces(t, m, D)
      BY DEF Pieces, Follows
    <3>2. Pieces(h, m, D)
      BY <2>1, <3>1, FlattensType
    <3> QED BY <1>5, <3>2 DEF Pieces
  <2>4. m \in 1 .. m
    BY <1>5
  <2> QED BY <1>2, <1>3, <2>1, <2>2, <2>3, <2>4, Zenon
<1> QED BY <1>4, <1>5

-----------------------------------------------------------------------------
(* Streams.                                                                *)

\* What is left of ts behind its first p tokens.
Drop(ts, p) == SubSeq(ts, p + 1, Len(ts))

\* The tokens of ts from p on, and r behind them: what a loop that has taken p
\* tokens of ts still has.
From(ts, p, r) == Cat(Drop(ts, p), r)

\* Drop by its length and elements.
LEMMA DropIs ==
  ASSUME NEW T, NEW ts \in Seq(T), NEW p \in 0 .. Len(ts)
  PROVE  /\ Drop(ts, p) \in Seq(T) /\ Len(Drop(ts, p)) = Len(ts) - p
         /\ \A i \in 1 .. Len(ts) - p : Drop(ts, p)[i] = ts[p + i]
<1>1. Len(ts) \in Nat /\ p \in Nat /\ p <= Len(ts) /\ p + 1 \in Int
  BY LenProperties
<1>2. \A i \in p + 1 .. Len(ts) : ts[i] \in T
  BY <1>1, ElementOfSeq
<1>3. /\ SubSeq(ts, p + 1, Len(ts)) \in Seq(T)
      /\ Len(SubSeq(ts, p + 1, Len(ts))) = IF p + 1 <= Len(ts) THEN Len(ts) - (p + 1) + 1 ELSE 0
      /\ \A i \in 1 .. Len(ts) - (p + 1) + 1 : SubSeq(ts, p + 1, Len(ts))[i] = ts[p + 1 + i - 1]
  BY <1>1, <1>2, SubSeqProperties
<1>4. Drop(ts, p) \in Seq(T) /\ Len(Drop(ts, p)) = Len(ts) - p
  BY <1>1, <1>3 DEF Drop
<1>5. ASSUME NEW i \in 1 .. Len(ts) - p PROVE Drop(ts, p)[i] = ts[p + i]
  <2>1. i \in 1 .. Len(ts) - (p + 1) + 1 /\ p + 1 + i - 1 = p + i
    BY <1>1
  <2> QED BY <1>3, <2>1 DEF Drop
<1> QED BY <1>4, <1>5

\* Cat by its length and elements.
LEMMA CatIs ==
  ASSUME NEW T, NEW a \in Seq(T), NEW b \in Seq(T)
  PROVE  /\ Cat(a, b) \in Seq(T) /\ Len(Cat(a, b)) = Len(a) + Len(b)
         /\ \A i \in 1 .. Len(a) : Cat(a, b)[i] = a[i]
         /\ \A i \in Len(a) + 1 .. Len(a) + Len(b) : Cat(a, b)[i] = b[i - Len(a)]
<1>1. Len(a) \in Nat /\ Len(b) \in Nat
  BY LenProperties
<1> QED BY <1>1, ConcatProperties DEF Cat

\* A loop whose stream is s has ts from p on before it, and r behind ts.
Reads(s, ts, p, r) ==
  /\ s \in Seq(Token) /\ Len(s) = Len(ts) - p + Len(r)
  /\ \A i \in 1 .. Len(ts) - p : s[i] = ts[p + i]
  /\ \A n \in 0 .. Len(ts) - p : SubSeq(s, n + 1, Len(s)) = From(ts, p + n, r)
  /\ p < Len(ts) => s # <<>> /\ Head(s) = ts[p + 1]
  /\ p = Len(ts) => s = r

\* From(ts, p, r) is such a stream: to take n tokens is to go n on.
LEMMA FromReads ==
  ASSUME NEW ts \in Seq(Token), NEW r \in Seq(Token), NEW p \in 0 .. Len(ts)
  PROVE  Reads(From(ts, p, r), ts, p, r)
<1> DEFINE s == From(ts, p, r)
<1>0. s = Cat(Drop(ts, p), r)
  BY DEF From
<1> HIDE DEF s
<1>1. /\ Len(ts) \in Nat /\ Len(r) \in Nat /\ p \in Nat /\ p <= Len(ts)
  BY LenProperties
<1>2. /\ Drop(ts, p) \in Seq(Token) /\ Len(Drop(ts, p)) = Len(ts) - p
      /\ \A i \in 1 .. Len(ts) - p : Drop(ts, p)[i] = ts[p + i]
  BY DropIs
<1>3. /\ s \in Seq(Token) /\ Len(s) = Len(ts) - p + Len(r)
      /\ \A i \in 1 .. Len(ts) - p : s[i] = ts[p + i]
      /\ \A i \in Len(ts) - p + 1 .. Len(s) : s[i] = r[i - (Len(ts) - p)]
  <2>1. /\ s \in Seq(Token) /\ Len(s) = Len(Drop(ts, p)) + Len(r)
        /\ \A i \in 1 .. Len(Drop(ts, p)) : s[i] = Drop(ts, p)[i]
        /\ \A i \in Len(Drop(ts, p)) + 1 .. Len(Drop(ts, p)) + Len(r) :
             s[i] = r[i - Len(Drop(ts, p))]
    BY <1>0, <1>2, CatIs
  <2> QED BY <1>1, <1>2, <2>1
<1>4. ASSUME NEW n \in 0 .. Len(ts) - p
      PROVE  SubSeq(s, n + 1, Len(s)) = From(ts, p + n, r)
  <2>0. p + n \in 0 .. Len(ts) /\ n \in 0 .. Len(s) /\ n \in Nat /\ s \in Seq(Token)
        /\ Len(s) = Len(ts) - p + Len(r)
    BY <1>1, <1>3
  <2>1. /\ Drop(ts, p + n) \in Seq(Token) /\ Len(Drop(ts, p + n)) = Len(ts) - p - n
        /\ \A i \in 1 .. Len(ts) - p - n : Drop(ts, p + n)[i] = ts[p + n + i]
    <3>1. /\ Drop(ts, p + n) \in Seq(Token) /\ Len(Drop(ts, p + n)) = Len(ts) - (p + n)
          /\ \A i \in 1 .. Len(ts) - (p + n) : Drop(ts, p + n)[i] = ts[p + n + i]
      BY <2>0, DropIs
    <3> QED BY <1>1, <2>0, <3>1
  <2>2. /\ Drop(s, n) \in Seq(Token) /\ Len(Drop(s, n)) = Len(s) - n
        /\ \A i \in 1 .. Len(s) - n : Drop(s, n)[i] = s[n + i]
    BY <2>0, DropIs
  <2> DEFINE b == Cat(Drop(ts, p + n), r)
  <2>3. b \in Seq(Token) /\ Len(b) = Len(s) - n
        /\ (\A i \in 1 .. Len(ts) - p - n : b[i] = ts[p + n + i])
        /\ (\A i \in Len(ts) - p - n + 1 .. Len(s) - n : b[i] = r[i - (Len(ts) - p - n)])
    <3>1. /\ b \in Seq(Token) /\ Len(b) = Len(Drop(ts, p + n)) + Len(r)
          /\ \A i \in 1 .. Len(Drop(ts, p + n)) : b[i] = Drop(ts, p + n)[i]
          /\ \A i \in Len(Drop(ts, p + n)) + 1 .. Len(Drop(ts, p + n)) + Len(r) :
               b[i] = r[i - Len(Drop(ts, p + n))]
      BY <2>1, CatIs
    <3> HIDE DEF b
    <3>2. Len(Drop(ts, p + n)) = Len(ts) - p - n
      BY <2>1
    <3>a. Len(b) = Len(ts) - p - n + Len(r)
      BY <3>1, <3>2
    <3>b. Len(ts) - p - n + Len(r) = Len(ts) - p + Len(r) - n
      BY <1>1, <2>0
    <3>c. Len(ts) - p + Len(r) = Len(s)
      BY <2>0
    <3>3. Len(b) = Len(s) - n /\ Len(ts) - p - n + Len(r) = Len(s) - n
      BY <3>a, <3>b, <3>c
    <3>4. ASSUME NEW i \in 1 .. Len(ts) - p - n PROVE b[i] = ts[p + n + i]
      BY <2>1, <3>1, <3>2
    <3>5. ASSUME NEW i \in Len(ts) - p - n + 1 .. Len(s) - n
          PROVE  b[i] = r[i - (Len(ts) - p - n)]
      BY <3>1, <3>2, <3>3
    <3> QED BY <3>1, <3>3, <3>4, <3>5
  <2>4. \A i \in 1 .. Len(s) - n : Drop(s, n)[i] = b[i]
    <3> SUFFICES ASSUME NEW i \in 1 .. Len(s) - n PROVE Drop(s, n)[i] = b[i]
      OBVIOUS
    <3> HIDE DEF b
    <3>1. CASE i <= Len(ts) - p - n
      <4>1. n + i \in 1 .. Len(ts) - p /\ p + (n + i) = p + n + i
            /\ i \in 1 .. Len(ts) - p - n
        BY <1>1, <1>3, <2>0, <3>1
      <4> QED BY <1>3, <2>2, <2>3, <4>1
    <3>2. CASE i > Len(ts) - p - n
      <4>1. i \in Len(ts) - p - n + 1 .. Len(s) - n /\ n + i \in Len(ts) - p + 1 .. Len(s)
            /\ n + i - (Len(ts) - p) = i - (Len(ts) - p - n)
        BY <1>1, <1>3, <2>0, <3>2
      <4>2. Drop(s, n)[i] = s[n + i]
        BY <2>2
      <4>3. s[n + i] = r[n + i - (Len(ts) - p)]
        BY <1>3, <4>1
      <4>4. b[i] = r[i - (Len(ts) - p - n)]
        BY <2>3, <4>1
      <4> QED BY <4>1, <4>2, <4>3, <4>4
    <3> QED BY <1>1, <2>0, <3>1, <3>2
  <2> HIDE DEF b
  <2>5. Drop(s, n) = b
    BY <2>2, <2>3, <2>4, SeqEqual
  <2> QED BY <2>5 DEF b, Drop, From
<1>5. p < Len(ts) => s # <<>> /\ Head(s) = ts[p + 1]
  <2> SUFFICES ASSUME p < Len(ts) PROVE s # <<>> /\ Head(s) = ts[p + 1]
    OBVIOUS
  <2>1. Len(s) > 0 /\ s[1] = ts[p + 1]
    BY <1>1, <1>3
  <2>2. s # <<>>
    BY <2>1, EmptySeq
  <2>3. Head(s) = s[1]
    OBVIOUS
  <2> QED BY <2>1, <2>2, <2>3
<1>6. p = Len(ts) => s = r
  <2> SUFFICES ASSUME p = Len(ts) PROVE s = r
    OBVIOUS
  <2>1. Len(s) = Len(r) /\ \A i \in 1 .. Len(s) : s[i] = r[i]
    BY <1>1, <1>3
  <2> QED BY <1>3, <2>1, SeqEqual
<1>7. Reads(s, ts, p, r)
  BY <1>3, <1>4, <1>5, <1>6 DEF Reads
<1> QED BY <1>7 DEF s

\* A sequence of known length, and the concatenation of two.
LEMMA ShortSeq ==
  ASSUME NEW T, NEW a \in Seq(T)
  PROVE  /\ Len(a) = 1 => a = <<a[1]>>
         /\ Len(a) = 2 => a = <<a[1], a[2]>>
         /\ Len(a) = 3 => a = <<a[1], a[2], a[3]>>
<1>1. Len(a) = 1 => a = <<a[1]>>
  OBVIOUS
<1>2. Len(a) = 2 => a = <<a[1], a[2]>>
  OBVIOUS
<1>3. Len(a) = 3 => a = <<a[1], a[2], a[3]>>
  OBVIOUS
<1> QED BY <1>1, <1>2, <1>3

\* The concatenations the steps of the parser make of its streams.
LEMMA ShortConcat ==
  ASSUME NEW T, NEW a \in Seq(T), NEW b \in Seq(T)
  PROVE  /\ Len(a) = 1 /\ Len(b) = 1 => a \o b = <<a[1], b[1]>>
         /\ Len(a) = 1 /\ Len(b) = 2 => a \o b = <<a[1], b[1], b[2]>>
         /\ Len(a) = 2 /\ Len(b) = 1 => a \o b = <<a[1], a[2], b[1]>>
<1> DEFINE c == a \o b
<1>1. /\ c \in Seq(T) /\ Len(c) = Len(a) + Len(b)
      /\ \A i \in 1 .. Len(a) + Len(b) :
           c[i] = IF i <= Len(a) THEN a[i] ELSE b[i - Len(a)]
  BY ConcatProperties
<1> HIDE DEF c
<1>2. Len(a) = 1 /\ Len(b) = 1 => c[1] = a[1] /\ c[2] = b[1]
  BY <1>1
<1>3. Len(a) = 1 /\ Len(b) = 2 => c[1] = a[1] /\ c[2] = b[1] /\ c[3] = b[2]
  BY <1>1
<1>4. Len(a) = 2 /\ Len(b) = 1 => c[1] = a[1] /\ c[2] = a[2] /\ c[3] = b[1]
  BY <1>1
<1>5. Len(a) = 1 /\ Len(b) = 1 => c = <<a[1], b[1]>>
  BY <1>1, <1>2, ShortSeq
<1>6. Len(a) = 1 /\ Len(b) = 2 => c = <<a[1], b[1], b[2]>>
  BY <1>1, <1>3, ShortSeq
<1>7. Len(a) = 2 /\ Len(b) = 1 => c = <<a[1], a[2], b[1]>>
  BY <1>1, <1>4, ShortSeq
<1> QED BY <1>5, <1>6, <1>7 DEF c

\* The streams of one, two and three active loops, and what the innermost loop
\* makes of them.
Streams(s, v, o, x, y) ==
  /\ Head(<<s>>) = s /\ Head(<<s, o>>) = s /\ Head(<<s, v, o>>) = s
  /\ <<x>> \o Tail(<<s>>) = <<x>> /\ <<x, y>> \o Tail(<<s>>) = <<x, y>>
  /\ <<x>> \o Tail(<<s, o>>) = <<x, o>> /\ <<x, y>> \o Tail(<<s, o>>) = <<x, y, o>>
  /\ <<x>> \o Tail(<<s, v, o>>) = <<x, v, o>>
  /\ Tail(<<s, o>>) = <<o>>
  /\ <<s, v, o>>[2] = v
  /\ <<x>> \o SubSeq(<<s, v, o>>, 3, Len(<<s, v, o>>)) = <<x, o>>

\* All of Streams holds, for any streams.
LEMMA StreamFacts ==
  ASSUME NEW s, NEW v, NEW o, NEW x, NEW y
  PROVE  Streams(s, v, o, x, y)
<1> DEFINE T == {s, v, o, x, y}
<1>1. Head(<<s>>) = s /\ Head(<<s, o>>) = s /\ Head(<<s, v, o>>) = s
  OBVIOUS
<1>2. Tail(<<s>>) = <<>> /\ Tail(<<s, o>>) = <<o>>
  OBVIOUS
<1>3. Tail(<<s, v, o>>) = <<v, o>>
  OBVIOUS
<1>4. <<x>> \o <<>> = <<x>> /\ <<x, y>> \o <<>> = <<x, y>>
  OBVIOUS
<1>5. <<x>> \in Seq(T) /\ <<o>> \in Seq(T) /\ <<v, o>> \in Seq(T) /\ <<x, y>> \in Seq(T)
  OBVIOUS
<1>6. /\ Len(<<x>>) = 1 /\ Len(<<o>>) = 1 /\ Len(<<v, o>>) = 2 /\ Len(<<x, y>>) = 2
      /\ <<x>>[1] = x /\ <<o>>[1] = o /\ <<v, o>>[1] = v /\ <<v, o>>[2] = o
      /\ <<x, y>>[1] = x /\ <<x, y>>[2] = y
  OBVIOUS
<1>7. <<x>> \o <<o>> = <<<<x>>[1], <<o>>[1]>>
  BY <1>5, <1>6, ShortConcat
<1>8. <<x, y>> \o <<o>> = <<<<x, y>>[1], <<x, y>>[2], <<o>>[1]>>
  BY <1>5, <1>6, ShortConcat
<1>9. <<x>> \o <<v, o>> = <<<<x>>[1], <<v, o>>[1], <<v, o>>[2]>>
  BY <1>5, <1>6, ShortConcat
<1>10. <<s, v, o>>[2] = v /\ <<s, v, o>>[3] = o /\ Len(<<s, v, o>>) = 3
  OBVIOUS
<1>11. SubSeq(<<s, v, o>>, 3, 3) = <<o>>
  <2> DEFINE a == SubSeq(<<s, v, o>>, 3, 3)
  <2>1. \A i \in 3 .. 3 : <<s, v, o>>[i] \in T
    OBVIOUS
  <2>2. a \in Seq(T) /\ Len(a) = 1 /\ a[1] = <<s, v, o>>[3]
    BY <2>1, SubSeqProperties
  <2> HIDE DEF a, T
  <2>3. a = <<a[1]>>
    BY <2>2, ShortSeq
  <2> QED BY <1>10, <2>2, <2>3 DEF a
<1> HIDE DEF T
<1> QED BY <1>1, <1>2, <1>3, <1>4, <1>6, <1>7, <1>8, <1>9, <1>10, <1>11, Zenon DEF Streams

\* One active loop: what Consume and Enter make of its streams.
LEMMA OneStream ==
  ASSUME NEW s, NEW x, NEW y
  PROVE  /\ Head(<<s>>) = s
         /\ <<x>> \o Tail(<<s>>) = <<x>> /\ <<x, y>> \o Tail(<<s>>) = <<x, y>>
<1>1. Streams(s, s, s, x, y)
  BY StreamFacts
<1> QED BY <1>1 DEF Streams

\* Two active loops: what Consume makes of their streams, and a return.
LEMMA TwoStreams ==
  ASSUME NEW s, NEW o, NEW x
  PROVE  /\ Head(<<s, o>>) = s /\ Tail(<<s, o>>) = <<o>> /\ <<x>> \o Tail(<<s, o>>) = <<x, o>>
<1>1. Streams(s, s, o, x, x)
  BY StreamFacts
<1> QED BY <1>1 DEF Streams

\* Enter from the inner of two loops.
LEMMA EnterTwoStreams ==
  ASSUME NEW s, NEW o, NEW x, NEW y
  PROVE  <<x, y>> \o Tail(<<s, o>>) = <<x, y, o>>
<1>1. Streams(s, s, o, x, y)
  BY StreamFacts
<1> QED BY <1>1 DEF Streams

\* Three active loops: what Consume makes of their streams.
LEMMA ThreeStreams ==
  ASSUME NEW s, NEW v, NEW o, NEW x
  PROVE  Head(<<s, v, o>>) = s /\ <<x>> \o Tail(<<s, v, o>>) = <<x, v, o>>
<1>1. Streams(s, v, o, x, x)
  BY StreamFacts
<1> QED BY <1>1 DEF Streams

\* What the return from the fields of a variant makes of three streams.
LEMMA LeaveThreeStreams ==
  ASSUME NEW s, NEW v, NEW o, NEW x
  PROVE  /\ <<s, v, o>>[2] = v
         /\ <<x>> \o SubSeq(<<s, v, o>>, 3, Len(<<s, v, o>>)) = <<x, o>>
<1>1. Streams(s, v, o, x, x)
  BY StreamFacts
<1> QED BY <1>1 DEF Streams

\* From the start, a stream is what it was made of.
LEMMA FromStart ==
  ASSUME NEW ts \in Seq(Token)
  PROVE  /\ From(ts, 0, <<>>) = ts
         /\ \A r \in Seq(Token) : From(ts, 0, r) = Cat(ts, r)
<1>1. Drop(ts, 0) = ts
  BY SubSeqFull DEF Drop
<1>2. Cat(ts, <<>>) = ts
  BY CatEmpty
<1> QED BY <1>1, <1>2 DEF From

\* A sequence of n + 1 is one of n with an element appended.
LEMMA AppendSeq ==
  ASSUME NEW g, NEW n \in Nat
  PROVE  Append([i \in 1 .. n |-> g[i]], g[n + 1]) = [i \in 1 .. n + 1 |-> g[i]]
<1> DEFINE T == {g[i] : i \in 1 .. n + 1}
           a == [i \in 1 .. n |-> g[i]]
           b == [i \in 1 .. n + 1 |-> g[i]]
<1>1. a \in Seq(T) /\ Len(a) = n /\ \A i \in 1 .. n : a[i] = g[i]
  OBVIOUS
<1>2. b \in Seq(T) /\ Len(b) = n + 1 /\ \A i \in 1 .. n + 1 : b[i] = g[i]
  OBVIOUS
<1>3. g[n + 1] \in T
  OBVIOUS
<1> HIDE DEF T, a, b
<1>4. /\ Append(a, g[n + 1]) \in Seq(T) /\ Len(Append(a, g[n + 1])) = n + 1
      /\ \A i \in 1 .. n : Append(a, g[n + 1])[i] = a[i]
      /\ Append(a, g[n + 1])[n + 1] = g[n + 1]
  BY <1>1, <1>3, AppendProperties
<1>5. \A i \in 1 .. n + 1 : Append(a, g[n + 1])[i] = b[i]
  BY <1>1, <1>2, <1>4
<1>6. Append(a, g[n + 1]) = b
  BY <1>2, <1>4, <1>5, SeqEqual
<1> QED BY <1>6 DEF a, b

\* A type or a return type that reads back as it stands grows with the
\* position, as the parser pushes the text of the token it takes.
LEMMA TextGrows ==
  ASSUME NEW ts \in Seq(Token), NEW a \in Nat, NEW p \in Nat, NEW b \in Nat,
         a <= p + 1, 1 <= a, p < Len(ts), p < b, IsType(ts, a, b)
  PROVE  PushText(SubSeq(ts, a, p), ts[p + 1]) = SubSeq(ts, a, p + 1)
<1> DEFINE u == SubSeq(ts, a, p)
           v == SubSeq(ts, a, p + 1)
           n == p + 1 - a
           t == ts[p + 1]
<1>1. /\ Len(ts) \in Nat /\ n \in Nat /\ p \in Int /\ p + 1 \in Int /\ a \in Int
      /\ (\A i \in a .. p : ts[i] \in Token) /\ (\A i \in a .. p + 1 : ts[i] \in Token)
  <2>1. Len(ts) \in Nat
    BY LenProperties
  <2> QED BY <2>1, ElementOfSeq
<1>2. /\ u \in Seq(Token) /\ Len(u) = n /\ \A i \in 1 .. n : u[i] = ts[a + i - 1]
  <2>1. /\ u \in Seq(Token) /\ Len(u) = IF a <= p THEN p - a + 1 ELSE 0
        /\ \A i \in 1 .. p - a + 1 : u[i] = ts[a + i - 1]
    BY <1>1, SubSeqProperties
  <2> HIDE DEF u
  <2> QED BY <2>1
<1>3. /\ v \in Seq(Token) /\ Len(v) = n + 1 /\ \A i \in 1 .. n + 1 : v[i] = ts[a + i - 1]
  <2>1. /\ v \in Seq(Token) /\ Len(v) = IF a <= p + 1 THEN p + 1 - a + 1 ELSE 0
        /\ \A i \in 1 .. p + 1 - a + 1 : v[i] = ts[a + i - 1]
    BY <1>1, SubSeqProperties
  <2> HIDE DEF v
  <2> QED BY <2>1
<1>4. t \in Token /\ v[n + 1] = t
  <2>1. p + 1 \in a .. p + 1 /\ n + 1 \in 1 .. n + 1 /\ a + (n + 1) - 1 = p + 1
    BY <1>1
  <2> HIDE DEF v, n
  <2> QED BY <1>1, <1>3, <2>1
<1>5. t.kind # "group" /\ (p >= a => ~IsWord(ts[p]) \/ ~IsWord(t))
  <2>1. p + 1 \in a .. b /\ (p >= a => p \in a .. b) /\ p # b
    OBVIOUS
  <2> QED BY <2>1 DEF IsType
<1>6. u # <<>> => p >= a /\ Last(u) = ts[p]
  <2> SUFFICES ASSUME u # <<>> PROVE p >= a /\ Last(u) = ts[p]
    OBVIOUS
  <2>1. n # 0
    <3> HIDE DEF u, n
    <3> QED BY <1>2, EmptySeq
  <2>2. n \in 1 .. n /\ a + n - 1 = p /\ p >= a
    BY <1>1, <2>1
  <2> HIDE DEF u, n
  <2> QED BY <1>2, <2>2 DEF Last
<1>7. PushText(u, t) = u \o <<t>>
  <2> HIDE DEF u, t
  <2> QED BY <1>5, <1>6 DEF PushText, Text
<1> HIDE DEF u, v, n, t
<1>8. u \o <<t>> = Append(u, t)
  BY <1>2, <1>4, AppendIsConcat
<1>9. /\ Append(u, t) \in Seq(Token) /\ Len(Append(u, t)) = n + 1
      /\ \A i \in 1 .. n : Append(u, t)[i] = u[i]
      /\ Append(u, t)[n + 1] = t
  BY <1>2, <1>4, AppendProperties
<1>10. \A i \in 1 .. n + 1 : Append(u, t)[i] = v[i]
  <2>1. \A i \in 1 .. n + 1 : i \in 1 .. n \/ i = n + 1
    BY <1>1
  <2> QED BY <1>2, <1>3, <1>4, <1>9, <2>1
<1>11. Append(u, t) = v
  BY <1>1, <1>3, <1>9, <1>10, SeqEqual
<1> QED BY <1>7, <1>8, <1>11 DEF u, v, t

\* The first identifier behind a position is the only first one.
LEMMA NameUnique ==
  ASSUME NEW ts, Len(ts) \in Nat, NEW a \in Nat, NEW h, NEW g, IsName(ts, a, h), IsName(ts, a, g)
  PROVE  h = g /\ NameAt(ts, a) = h
<1>1. \A x : IsName(ts, a, x) => x = h
  BY DEF IsName
<1> QED BY <1>1 DEF NameAt, IsName

-----------------------------------------------------------------------------
(* Fields.                                                                 *)

\* Behind c the next identifier has no colon: where parse_struct_fields fails.
Stuck(ts, c) == \E h \in DOMAIN ts : IsName(ts, c, h) /\ ~HasColon(ts, h)

\* n fields of ts end at the cuts; behind the last there is no other (ok) or
\* the parser fails.
Fields(ts, n, cut, ok) ==
  /\ n \in Nat /\ cut \in [0 .. n -> 0 .. Len(ts)] /\ AreFields(ts, n, cut)
  /\ IF ok THEN NoName(ts, cut[n]) ELSE Stuck(ts, cut[n])

\* k fields are read and no name of another.
FieldsAt(ts, n, cut, k, p, fs) ==
  /\ k \in 0 .. n /\ p \in cut[k] .. Len(ts)
  /\ \A i \in cut[k] + 1 .. p : ~IsIdent(ts[i])
  /\ fs = CutFields(ts, k, cut)

\* And of field k + 1 the name, the colon and the type up to p.
TypeAt(ts, n, cut, k, p, fs, f) ==
  /\ k \in 0 .. n - 1 /\ fs = CutFields(ts, k, cut)
  /\ \E h \in cut[k] + 1 .. cut[k + 1] - 1 :
       /\ IsName(ts, cut[k], h) /\ p \in h + 1 .. TypeEnd(ts, cut[k + 1])
       /\ IsType(ts, h + 2, TypeEnd(ts, cut[k + 1]))
       /\ \A i \in h + 2 .. cut[k + 1] - 1 : ts[i] # Comma
       /\ ts[cut[k + 1]] = Comma \/ cut[k + 1] = Len(ts)
       /\ f = [name |-> ts[h].text, ty |-> SubSeq(ts, h + 2, p)]

\* What the grammar says of a stream of fields gives the number and the cuts.
LEMMA FieldsExist ==
  ASSUME NEW ts \in Seq(Token)
  PROVE  /\ IsFields(ts) => \E n, cut : Fields(ts, n, cut, TRUE) /\ FieldsOf(ts) = CutFields(ts, n, cut)
         /\ StuckFields(ts) => \E n, cut : Fields(ts, n, cut, FALSE)
<1>1. Colons(ts) \in Nat
  <2>1. IsFiniteSet(DOMAIN ts)
    BY LenProperties, FS_Interval
  <2>2. IsFiniteSet({i \in DOMAIN ts : IsColon(ts[i])})
    BY <2>1, FS_Subset
  <2> QED BY <2>2, FS_CardinalityType DEF Colons
<1>2. ASSUME IsFields(ts)
      PROVE \E n, cut : Fields(ts, n, cut, TRUE) /\ FieldsOf(ts) = CutFields(ts, n, cut)
  <2> DEFINE IsCut(n, cut) == AreFields(ts, n, cut) /\ NoName(ts, cut[n])
             N == CHOOSE n \in 0 .. Colons(ts) : \E cut \in [0 .. n -> 0 .. Len(ts)] : IsCut(n, cut)
             C == CHOOSE cut \in [0 .. N -> 0 .. Len(ts)] : IsCut(N, cut)
  <2>1. FieldsOf(ts) = CutFields(ts, N, C)
    BY DEF FieldsOf
  <2>2. \E n \in 0 .. Colons(ts) : \E cut \in [0 .. n -> 0 .. Len(ts)] : IsCut(n, cut)
    BY <1>2 DEF IsFields
  <2> HIDE DEF IsCut
  <2>3. N \in 0 .. Colons(ts) /\ \E cut \in [0 .. N -> 0 .. Len(ts)] : IsCut(N, cut)
    BY <2>2
  <2> HIDE DEF N
  <2>4. C \in [0 .. N -> 0 .. Len(ts)] /\ IsCut(N, C)
    BY <2>3
  <2> HIDE DEF C
  <2>5. N \in Nat
    BY <1>1, <2>3
  <2>6. Fields(ts, N, C, TRUE)
    BY <2>4, <2>5 DEF Fields, IsCut
  <2> QED BY <2>1, <2>6
<1>3. ASSUME StuckFields(ts) PROVE \E n, cut : Fields(ts, n, cut, FALSE)
  <2>1. PICK n \in 0 .. Colons(ts) : \E cut \in [0 .. n -> 0 .. Len(ts)] :
          AreFields(ts, n, cut) /\ Stuck(ts, cut[n])
    BY <1>3 DEF StuckFields, Stuck
  <2>2. PICK cut \in [0 .. n -> 0 .. Len(ts)] : AreFields(ts, n, cut) /\ Stuck(ts, cut[n])
    BY <2>1
  <2>3. n \in Nat
    BY <1>1
  <2>4. Fields(ts, n, cut, FALSE)
    BY <2>2, <2>3 DEF Fields
  <2> QED BY <2>4
<1> QED BY <1>2, <1>3

\* Before the first token no field is read.
LEMMA FieldsStart ==
  ASSUME NEW ts \in Seq(Token), NEW n, NEW cut, NEW ok, Fields(ts, n, cut, ok)
  PROVE  FieldsAt(ts, n, cut, 0, 0, <<>>)
<1>1. cut[0] = 0 /\ n \in Nat /\ Len(ts) \in Nat
  BY LenProperties DEF Fields, AreFields
<1>2. CutFields(ts, 0, cut) = <<>>
  BY DEF CutFields
<1> QED BY <1>1, <1>2 DEF FieldsAt

\* The cuts are positions.
LEMMA CutsType ==
  ASSUME NEW ts \in Seq(Token), NEW n, NEW cut, NEW ok, Fields(ts, n, cut, ok), NEW k \in 0 .. n
  PROVE  n \in Nat /\ k \in Nat /\ cut[k] \in Nat /\ cut[k] <= Len(ts) /\ Len(ts) \in Nat
BY LenProperties DEF Fields

\* A token that is no identifier is skipped between two fields.
LEMMA FieldsSkip ==
  ASSUME NEW ts \in Seq(Token), NEW n, NEW cut, NEW ok, Fields(ts, n, cut, ok),
         NEW k, NEW p, NEW fs, FieldsAt(ts, n, cut, k, p, fs),
         p < Len(ts), ~IsIdent(ts[p + 1])
  PROVE  FieldsAt(ts, n, cut, k, p + 1, fs)
<1>1. cut[k] \in Nat /\ Len(ts) \in Nat
  BY CutsType DEF FieldsAt
<1> QED BY <1>1 DEF FieldsAt

\* When fewer than n fields are read, the next cut ends one.
LEMMA NextField ==
  ASSUME NEW ts \in Seq(Token), NEW n, NEW cut, NEW ok, Fields(ts, n, cut, ok),
         NEW k \in 0 .. n, k < n
  PROVE  k + 1 \in 0 .. n /\ k \in 0 .. n - 1 /\ IsField(ts, cut[k], cut[k + 1])
<1>1. n \in Nat /\ \A i \in 1 .. n : IsField(ts, cut[i - 1], cut[i])
  BY DEF Fields, AreFields
<1>2. k + 1 \in 1 .. n /\ k + 1 - 1 = k /\ k + 1 \in 0 .. n /\ k \in 0 .. n - 1
  BY <1>1
<1>3. IsField(ts, cut[k + 1 - 1], cut[k + 1])
  BY <1>1, <1>2
<1> QED BY <1>2, <1>3

\* An identifier between two fields is the name of the next one and has a
\* colon behind it; or the stream is one the parser fails in.
LEMMA FieldsName ==
  ASSUME NEW ts \in Seq(Token), NEW n, NEW cut, NEW ok, Fields(ts, n, cut, ok),
         NEW k, NEW p, NEW fs, FieldsAt(ts, n, cut, k, p, fs),
         p < Len(ts), IsIdent(ts[p + 1])
  PROVE  IF HasColon(ts, p + 1)
         THEN TypeAt(ts, n, cut, k, p + 2, fs, [name |-> ts[p + 1].text, ty |-> <<>>])
         ELSE ~ok
<1>1. /\ cut[k] \in Nat /\ Len(ts) \in Nat /\ n \in Nat /\ k \in 0 .. n /\ p \in Nat
      /\ cut[k] <= p
  BY CutsType DEF FieldsAt
<1>2. IsName(ts, cut[k], p + 1)
  BY <1>1 DEF FieldsAt, IsName
<1>3. CASE k < n
  <2>1. k + 1 \in 0 .. n /\ k \in 0 .. n - 1 /\ IsField(ts, cut[k], cut[k + 1])
    BY <1>1, <1>3, NextField
  <2>3. PICK h \in cut[k] + 1 .. cut[k + 1] - 1 :
          /\ IsName(ts, cut[k], h) /\ HasColon(ts, h)
          /\ IsType(ts, h + 2, TypeEnd(ts, cut[k + 1]))
          /\ \A i \in h + 2 .. cut[k + 1] - 1 : ts[i] # Comma
          /\ ts[cut[k + 1]] = Comma \/ cut[k + 1] = Len(ts)
    BY <2>1 DEF IsField
  <2>4. h = p + 1
    BY <1>1, <1>2, <2>3, NameUnique
  <2>6. cut[k + 1] \in Nat /\ cut[k + 1] <= Len(ts)
    BY <2>1, CutsType
  <2>7. p + 2 \in h + 1 .. TypeEnd(ts, cut[k + 1])
    <3>1. cut[k + 1] >= p + 2
      BY <1>1, <2>3, <2>4, <2>6
    <3>2. ts[cut[k + 1]] = Comma => cut[k + 1] # p + 2
      <4>1. ts[p + 2] = Punct(":")
        BY <1>1, <2>3, <2>4 DEF HasColon, IsColon
      <4>2. Comma # Punct(":")
        BY DEF Comma, Punct
      <4> QED BY <4>1, <4>2
    <3> QED BY <1>1, <2>4, <2>6, <3>1, <3>2 DEF TypeEnd
  <2>8. SubSeq(ts, p + 1 + 2, p + 2) = <<>>
    BY <1>1, SubSeqEmpty
  <2>9. TypeAt(ts, n, cut, k, p + 2, fs, [name |-> ts[p + 1].text, ty |-> <<>>])
    <3>1. fs = CutFields(ts, k, cut)
      BY DEF FieldsAt
    <3> QED BY <2>1, <2>3, <2>4, <2>7, <2>8, <3>1 DEF TypeAt
  <2> QED BY <2>3, <2>4, <2>9
<1>4. CASE k = n
  <2>1. ~NoName(ts, cut[n])
    BY <1>1, <1>2, <1>4 DEF NoName, IsName
  <2>2. ~ok /\ Stuck(ts, cut[n])
    BY <2>1 DEF Fields
  <2>3. PICK h \in DOMAIN ts : IsName(ts, cut[n], h) /\ ~HasColon(ts, h)
    BY <2>2 DEF Stuck
  <2>4. h = p + 1
    BY <1>1, <1>2, <1>4, <2>3, NameUnique
  <2> QED BY <2>2, <2>3, <2>4
<1> QED BY <1>1, <1>3, <1>4

\* At the end of the stream all the fields are read.
LEMMA FieldsFinish ==
  ASSUME NEW ts \in Seq(Token), NEW n, NEW cut, NEW ok, Fields(ts, n, cut, ok),
         NEW k, NEW fs, FieldsAt(ts, n, cut, k, Len(ts), fs)
  PROVE  ok /\ fs = CutFields(ts, n, cut)
<1>1. /\ cut[k] \in Nat /\ Len(ts) \in Nat /\ n \in Nat /\ k \in 0 .. n
  BY CutsType DEF FieldsAt
<1>2. \A h : ~IsName(ts, cut[k], h)
  BY <1>1 DEF FieldsAt, IsName
<1>3. k = n
  <2> SUFFICES ASSUME k < n PROVE FALSE
    BY <1>1
  <2>2. IsField(ts, cut[k], cut[k + 1])
    BY <1>1, NextField
  <2> QED BY <1>2, <2>2 DEF IsField
<1>4. ~Stuck(ts, cut[n])
  BY <1>2, <1>3 DEF Stuck
<1> QED BY <1>3, <1>4 DEF Fields, FieldsAt

\* What is common to the two steps in a type.
LEMMA TypeFacts ==
  ASSUME NEW ts \in Seq(Token), NEW n, NEW cut, NEW ok, Fields(ts, n, cut, ok),
         NEW k, NEW p, NEW fs, NEW f, TypeAt(ts, n, cut, k, p, fs, f)
  PROVE  /\ Len(ts) \in Nat /\ n \in Nat /\ k \in Nat /\ k + 1 \in 0 .. n /\ p \in Nat /\ p <= Len(ts)
         /\ cut[k] \in Nat /\ cut[k + 1] \in Nat /\ cut[k + 1] <= Len(ts)
<1>1. n \in Nat
  BY DEF Fields
<1>2. k \in 0 .. n /\ k + 1 \in 0 .. n
  BY <1>1 DEF TypeAt
<1>3. cut[k] \in Nat /\ cut[k + 1] \in Nat /\ cut[k + 1] <= Len(ts) /\ Len(ts) \in Nat
  BY <1>2, CutsType
<1>4. p \in Nat /\ p <= Len(ts)
  BY <1>3 DEF TypeAt, TypeEnd
<1> QED BY <1>1, <1>2, <1>3, <1>4

\* A token of a type that is no comma belongs to it.
LEMMA TypeMore ==
  ASSUME NEW ts \in Seq(Token), NEW n, NEW cut, NEW ok, Fields(ts, n, cut, ok),
         NEW k, NEW p, NEW fs, NEW f, TypeAt(ts, n, cut, k, p, fs, f),
         p < Len(ts), ts[p + 1] # Comma
  PROVE  TypeAt(ts, n, cut, k, p + 1, fs, [f EXCEPT !.ty = PushText(@, ts[p + 1])])
<1>1. /\ Len(ts) \in Nat /\ n \in Nat /\ k + 1 \in 0 .. n /\ p \in Nat /\ p <= Len(ts)
      /\ cut[k] \in Nat /\ cut[k + 1] \in Nat /\ cut[k + 1] <= Len(ts)
  BY TypeFacts
<1>2. PICK h \in cut[k] + 1 .. cut[k + 1] - 1 :
       /\ IsName(ts, cut[k], h) /\ p \in h + 1 .. TypeEnd(ts, cut[k + 1])
       /\ IsType(ts, h + 2, TypeEnd(ts, cut[k + 1]))
       /\ \A i \in h + 2 .. cut[k + 1] - 1 : ts[i] # Comma
       /\ ts[cut[k + 1]] = Comma \/ cut[k + 1] = Len(ts)
       /\ f = [name |-> ts[h].text, ty |-> SubSeq(ts, h + 2, p)]
  BY DEF TypeAt
<1>3. p + 1 \in h + 1 .. TypeEnd(ts, cut[k + 1])
  BY <1>1, <1>2 DEF TypeEnd
<1>4. PushText(SubSeq(ts, h + 2, p), ts[p + 1]) = SubSeq(ts, h + 2, p + 1)
  <2>1. /\ h + 2 \in Nat /\ h + 2 <= p + 1 /\ 1 <= h + 2
        /\ TypeEnd(ts, cut[k + 1]) \in Nat /\ p < TypeEnd(ts, cut[k + 1])
    <3>1. h \in Nat /\ p >= h + 1 /\ p + 1 <= TypeEnd(ts, cut[k + 1])
      BY <1>1, <1>2, <1>3
    <3>2. TypeEnd(ts, cut[k + 1]) \in Int
      BY <1>1 DEF TypeEnd
    <3> QED BY <1>1, <3>1, <3>2
  <2> QED BY <1>1, <1>2, <2>1, TextGrows
<1>5. [f EXCEPT !.ty = PushText(@, ts[p + 1])]
        = [name |-> ts[h].text, ty |-> SubSeq(ts, h + 2, p + 1)]
  <2> DEFINE x == ts[h].text
             u == SubSeq(ts, h + 2, p)
             v == SubSeq(ts, h + 2, p + 1)
             t == ts[p + 1]
  <2>1. f = [name |-> x, ty |-> u] /\ PushText(u, t) = v
    BY <1>2, <1>4
  <2> HIDE DEF x, u, v, t
  <2>2. [f EXCEPT !.ty = PushText(f.ty, t)] = [name |-> x, ty |-> v]
    BY <2>1
  <2> QED BY <2>2 DEF x, v, t
<1> QED BY <1>2, <1>3, <1>5 DEF TypeAt

\* At a comma or the end of the stream the field is complete.
LEMMA TypeFinish ==
  ASSUME NEW ts \in Seq(Token), NEW n, NEW cut, NEW ok, Fields(ts, n, cut, ok),
         NEW k, NEW p, NEW fs, NEW f, TypeAt(ts, n, cut, k, p, fs, f),
         p < Len(ts) => ts[p + 1] = Comma
  PROVE  FieldsAt(ts, n, cut, k + 1, IF p < Len(ts) THEN p + 1 ELSE p, Append(fs, f))
<1>1. /\ Len(ts) \in Nat /\ n \in Nat /\ k \in Nat /\ k + 1 \in 0 .. n /\ p \in Nat /\ p <= Len(ts)
      /\ cut[k] \in Nat /\ cut[k + 1] \in Nat /\ cut[k + 1] <= Len(ts)
  BY TypeFacts
<1>2. PICK h \in cut[k] + 1 .. cut[k + 1] - 1 :
       /\ IsName(ts, cut[k], h) /\ p \in h + 1 .. TypeEnd(ts, cut[k + 1])
       /\ IsType(ts, h + 2, TypeEnd(ts, cut[k + 1]))
       /\ \A i \in h + 2 .. cut[k + 1] - 1 : ts[i] # Comma
       /\ ts[cut[k + 1]] = Comma \/ cut[k + 1] = Len(ts)
       /\ f = [name |-> ts[h].text, ty |-> SubSeq(ts, h + 2, p)]
  BY DEF TypeAt
<1>3. p = TypeEnd(ts, cut[k + 1]) /\ cut[k + 1] = IF p < Len(ts) THEN p + 1 ELSE p
  BY <1>1, <1>2 DEF TypeEnd
<1>4. f = FieldOf(ts, cut[k], cut[k + 1])
  <2>1. NameAt(ts, cut[k]) = h
    BY <1>1, <1>2, NameUnique
  <2> QED BY <1>2, <1>3, <2>1 DEF FieldOf
<1>5. Append(fs, f) = CutFields(ts, k + 1, cut)
  <2> DEFINE g == [i \in 1 .. k + 1 |-> FieldOf(ts, cut[i - 1], cut[i])]
  <2>1. CutFields(ts, k, cut) = [i \in 1 .. k |-> g[i]]
    BY <1>1 DEF CutFields
  <2>2. CutFields(ts, k + 1, cut) = [i \in 1 .. k + 1 |-> g[i]]
    BY <1>1 DEF CutFields
  <2>3. g[k + 1] = f
    BY <1>1, <1>4
  <2>4. fs = CutFields(ts, k, cut)
    BY DEF TypeAt
  <2> HIDE DEF g
  <2>5. Append([i \in 1 .. k |-> g[i]], g[k + 1]) = [i \in 1 .. k + 1 |-> g[i]]
    BY <1>1, AppendSeq
  <2> QED BY <2>1, <2>2, <2>3, <2>4, <2>5
<1> QED BY <1>1, <1>3, <1>5 DEF FieldsAt

-----------------------------------------------------------------------------
(* Variants.                                                               *)

\* Behind c the next variant has a payload parse_struct_fields fails in.
StuckIn(ts, c) ==
  \E h \in DOMAIN ts : IsName(ts, c, h) /\ HasPayload(ts, h) /\ StuckFields(Payload(ts, h))

\* n variants of ts end at the cuts; behind the last there is no other (ok) or
\* the parser fails in the payload of the next.
Variants(ts, n, cut, ok) ==
  /\ n \in Nat /\ cut \in [0 .. n -> 0 .. Len(ts)] /\ AreVariants(ts, n, cut)
  /\ IF ok THEN NoName(ts, cut[n]) ELSE StuckIn(ts, cut[n])

\* k variants are read, up to p, and no name of another.
VariantsAt(ts, n, cut, k, p, vs) ==
  /\ k \in 0 .. n /\ p \in cut[k] .. Len(ts)
  /\ \A i \in cut[k] + 1 .. p : ~IsIdent(ts[i])
  /\ vs = CutVariants(ts, k, cut)

\* What the grammar says of a stream of variants gives the number and the cuts.
LEMMA VariantsExist ==
  ASSUME NEW ts \in Seq(Token)
  PROVE  /\ \A vs : AreVariantsOf(ts, vs) =>
              \E n, cut : Variants(ts, n, cut, TRUE) /\ vs = CutVariants(ts, n, cut)
         /\ StuckVariants(ts) => \E n, cut : Variants(ts, n, cut, FALSE)
<1>1. Names(ts) \in Nat
  <2>1. IsFiniteSet(DOMAIN ts)
    BY LenProperties, FS_Interval
  <2>2. IsFiniteSet({i \in DOMAIN ts : IsIdent(ts[i])})
    BY <2>1, FS_Subset
  <2> QED BY <2>2, FS_CardinalityType DEF Names
<1>2. ASSUME NEW vs, AreVariantsOf(ts, vs)
      PROVE  \E n, cut : Variants(ts, n, cut, TRUE) /\ vs = CutVariants(ts, n, cut)
  <2>1. PICK n \in 0 .. Names(ts) : \E cut \in [0 .. n -> 0 .. Len(ts)] :
          AreVariants(ts, n, cut) /\ NoName(ts, cut[n]) /\ vs = CutVariants(ts, n, cut)
    BY <1>2 DEF AreVariantsOf
  <2>2. PICK cut \in [0 .. n -> 0 .. Len(ts)] :
          AreVariants(ts, n, cut) /\ NoName(ts, cut[n]) /\ vs = CutVariants(ts, n, cut)
    BY <2>1
  <2>3. n \in Nat
    BY <1>1
  <2>4. Variants(ts, n, cut, TRUE)
    BY <2>2, <2>3 DEF Variants
  <2> QED BY <2>2, <2>4
<1>3. ASSUME StuckVariants(ts) PROVE \E n, cut : Variants(ts, n, cut, FALSE)
  <2>1. PICK n \in 0 .. Names(ts) : \E cut \in [0 .. n -> 0 .. Len(ts)] :
          AreVariants(ts, n, cut) /\ StuckIn(ts, cut[n])
    BY <1>3 DEF StuckVariants, StuckIn
  <2>2. PICK cut \in [0 .. n -> 0 .. Len(ts)] :
          AreVariants(ts, n, cut) /\ StuckIn(ts, cut[n])
    BY <2>1
  <2>3. n \in Nat
    BY <1>1
  <2>4. Variants(ts, n, cut, FALSE)
    BY <2>2, <2>3 DEF Variants
  <2> QED BY <2>4
<1> QED BY <1>2, <1>3

\* Before the first token no variant is read.
LEMMA VariantsStart ==
  ASSUME NEW ts \in Seq(Token), NEW n, NEW cut, NEW ok, Variants(ts, n, cut, ok)
  PROVE  VariantsAt(ts, n, cut, 0, 0, <<>>)
<1>1. cut[0] = 0 /\ n \in Nat /\ Len(ts) \in Nat
  BY LenProperties DEF Variants, AreVariants
<1>2. CutVariants(ts, 0, cut) = <<>>
  BY DEF CutVariants
<1> QED BY <1>1, <1>2 DEF VariantsAt

\* The cuts are positions.
LEMMA VariantCutsType ==
  ASSUME NEW ts \in Seq(Token), NEW n, NEW cut, NEW ok, Variants(ts, n, cut, ok), NEW k \in 0 .. n
  PROVE  n \in Nat /\ k \in Nat /\ cut[k] \in Nat /\ cut[k] <= Len(ts) /\ Len(ts) \in Nat
BY LenProperties DEF Variants

\* A token that is no identifier is skipped between two variants.
LEMMA VariantsSkip ==
  ASSUME NEW ts \in Seq(Token), NEW n, NEW cut, NEW ok, Variants(ts, n, cut, ok),
         NEW k, NEW p, NEW vs, VariantsAt(ts, n, cut, k, p, vs),
         p < Len(ts), ~IsIdent(ts[p + 1])
  PROVE  VariantsAt(ts, n, cut, k, p + 1, vs)
<1>1. cut[k] \in Nat /\ Len(ts) \in Nat
  BY VariantCutsType DEF VariantsAt
<1> QED BY <1>1 DEF VariantsAt

\* When fewer than n variants are read, the next cut ends one.
LEMMA NextVariant ==
  ASSUME NEW ts \in Seq(Token), NEW n, NEW cut, NEW ok, Variants(ts, n, cut, ok),
         NEW k \in 0 .. n, k < n
  PROVE  k + 1 \in 0 .. n /\ IsVariant(ts, cut[k], cut[k + 1])
<1>1. n \in Nat /\ \A i \in 1 .. n : IsVariant(ts, cut[i - 1], cut[i])
  BY DEF Variants, AreVariants
<1>2. k + 1 \in 1 .. n /\ k + 1 - 1 = k /\ k + 1 \in 0 .. n
  BY <1>1
<1>3. IsVariant(ts, cut[k + 1 - 1], cut[k + 1])
  BY <1>1, <1>2
<1> QED BY <1>2, <1>3

\* The first k + 1 variants are the first k and the one at cut k.
LEMMA CutVariantsAppend ==
  ASSUME NEW ts, NEW cut, NEW k \in Nat
  PROVE  Append(CutVariants(ts, k, cut), VariantOf(ts, cut[k])) = CutVariants(ts, k + 1, cut)
<1> DEFINE g == [i \in 1 .. k + 1 |-> VariantOf(ts, cut[i - 1])]
<1>1. CutVariants(ts, k, cut) = [i \in 1 .. k |-> g[i]]
  BY DEF CutVariants
<1>2. CutVariants(ts, k + 1, cut) = [i \in 1 .. k + 1 |-> g[i]]
  BY DEF CutVariants
<1>3. g[k + 1] = VariantOf(ts, cut[k])
  OBVIOUS
<1> HIDE DEF g
<1>4. Append([i \in 1 .. k |-> g[i]], g[k + 1]) = [i \in 1 .. k + 1 |-> g[i]]
  BY AppendSeq
<1> QED BY <1>1, <1>2, <1>3, <1>4

\* An identifier between two variants is the name of the next: a unit variant,
\* one with fields in its payload, or the one the parser fails in.
LEMMA VariantName ==
  ASSUME NEW ts \in Seq(Token), NEW n, NEW cut, NEW ok, Variants(ts, n, cut, ok),
         NEW k, NEW p, NEW vs, VariantsAt(ts, n, cut, k, p, vs),
         p < Len(ts), IsIdent(ts[p + 1])
  PROVE  IF HasPayload(ts, p + 1)
         THEN \/ /\ k < n /\ IsFields(Payload(ts, p + 1))
                 /\ VariantsAt(ts, n, cut, k + 1, PastComma(ts, p + 2),
                      Append(vs, [name |-> ts[p + 1].text, fields |-> FieldsOf(Payload(ts, p + 1))]))
              \/ ~ok /\ StuckFields(Payload(ts, p + 1))
         ELSE VariantsAt(ts, n, cut, k + 1, PastComma(ts, p + 1),
                Append(vs, [name |-> ts[p + 1].text, fields |-> <<>>]))
<1>1. /\ cut[k] \in Nat /\ Len(ts) \in Nat /\ n \in Nat /\ k \in 0 .. n /\ k \in Nat /\ p \in Nat
      /\ cut[k] <= p
  BY VariantCutsType DEF VariantsAt
<1>2. IsName(ts, cut[k], p + 1)
  BY <1>1 DEF VariantsAt, IsName
<1>3. CASE k < n
  <2>1. k + 1 \in 0 .. n /\ IsVariant(ts, cut[k], cut[k + 1])
    BY <1>1, <1>3, NextVariant
  <2>2. PICK h \in DOMAIN ts :
          /\ IsName(ts, cut[k], h) /\ cut[k + 1] = PastComma(ts, NameEnd(ts, h))
          /\ HasPayload(ts, h) => IsFields(Payload(ts, h))
    BY <2>1 DEF IsVariant
  <2>3. h = p + 1 /\ NameAt(ts, cut[k]) = p + 1
    BY <1>1, <1>2, <2>2, NameUnique
  <2>4. cut[k + 1] \in Nat /\ cut[k + 1] <= Len(ts)
    BY <2>1, VariantCutsType
  <2>5. VariantsAt(ts, n, cut, k + 1, cut[k + 1], CutVariants(ts, k + 1, cut))
    BY <1>1, <2>1, <2>4 DEF VariantsAt
  <2>6. CutVariants(ts, k + 1, cut) = Append(vs, VariantOf(ts, cut[k]))
    <3>1. vs = CutVariants(ts, k, cut)
      BY DEF VariantsAt
    <3> QED BY <1>1, <3>1, CutVariantsAppend
  <2>7. VariantOf(ts, cut[k]) =
          [name |-> ts[p + 1].text,
           fields |-> IF HasPayload(ts, p + 1) THEN FieldsOf(Payload(ts, p + 1)) ELSE <<>>]
    BY <2>3 DEF VariantOf
  <2>8. cut[k + 1] = PastComma(ts, IF HasPayload(ts, p + 1) THEN p + 2 ELSE p + 1)
    <3>1. p + 1 + 1 = p + 2
      BY <1>1
    <3> QED BY <2>2, <2>3, <3>1 DEF NameEnd
  <2>9. CASE HasPayload(ts, p + 1)
    BY <1>3, <2>2, <2>3, <2>5, <2>6, <2>7, <2>8, <2>9
  <2>10. CASE ~HasPayload(ts, p + 1)
    BY <2>5, <2>6, <2>7, <2>8, <2>10
  <2> QED BY <2>9, <2>10
<1>4. CASE k = n
  <2>1. ~NoName(ts, cut[n])
    BY <1>1, <1>2, <1>4 DEF NoName, IsName
  <2>2. ~ok /\ StuckIn(ts, cut[n])
    BY <2>1 DEF Variants
  <2>3. PICK h \in DOMAIN ts :
          IsName(ts, cut[n], h) /\ HasPayload(ts, h) /\ StuckFields(Payload(ts, h))
    BY <2>2 DEF StuckIn
  <2>4. h = p + 1
    BY <1>1, <1>2, <1>4, <2>3, NameUnique
  <2> QED BY <2>2, <2>3, <2>4
<1> QED BY <1>1, <1>3, <1>4

\* At the end of the stream all the variants are read.
LEMMA VariantsFinish ==
  ASSUME NEW ts \in Seq(Token), NEW n, NEW cut, NEW ok, Variants(ts, n, cut, ok),
         NEW k, NEW vs, VariantsAt(ts, n, cut, k, Len(ts), vs)
  PROVE  ok /\ vs = CutVariants(ts, n, cut)
<1>1. /\ cut[k] \in Nat /\ Len(ts) \in Nat /\ n \in Nat /\ k \in 0 .. n
  BY VariantCutsType DEF VariantsAt
<1>2. \A h : ~IsName(ts, cut[k], h)
  BY <1>1 DEF VariantsAt, IsName
<1>3. k = n
  <2> SUFFICES ASSUME k < n PROVE FALSE
    BY <1>1
  <2>2. IsVariant(ts, cut[k], cut[k + 1])
    BY <1>1, NextVariant
  <2> QED BY <1>2, <2>2 DEF IsVariant
<1>4. ~StuckIn(ts, cut[n])
  BY <1>2, <1>3 DEF StuckIn
<1> QED BY <1>3, <1>4 DEF Variants, VariantsAt

\* SkipComma is what PastComma says of the position.
LEMMA SkipCommaIs ==
  ASSUME NEW ts \in Seq(Token), NEW q \in 0 .. Len(ts)
  PROVE  /\ SkipComma(From(ts, q, <<>>)) = From(ts, PastComma(ts, q), <<>>)
         /\ PastComma(ts, q) \in 0 .. Len(ts)
<1> DEFINE s == From(ts, q, <<>>)
<1>1. Len(ts) \in Nat /\ <<>> \in Seq(Token) /\ q \in Nat /\ Len(<<>>) = 0
  BY LenProperties, EmptySeq
<1>2. /\ s \in Seq(Token) /\ Len(s) = Len(ts) - q
      /\ \A n \in 0 .. Len(ts) - q : SubSeq(s, n + 1, Len(s)) = From(ts, q + n, <<>>)
      /\ q < Len(ts) => s # <<>> /\ Head(s) = ts[q + 1]
      /\ q = Len(ts) => s = <<>>
  <2>1. Reads(s, ts, q, <<>>)
    BY <1>1, FromReads
  <2> HIDE DEF s
  <2> QED BY <1>1, <2>1 DEF Reads
<1> HIDE DEF s
<1>3. CASE q < Len(ts)
  <2>1. Tail(s) = From(ts, q + 1, <<>>)
    <3>1. Tail(s) = SubSeq(s, 2, Len(s))
      BY <1>2, <1>3, TailIsSubSeq
    <3>2. SubSeq(s, 1 + 1, Len(s)) = From(ts, q + 1, <<>>)
      BY <1>1, <1>2, <1>3
    <3> QED BY <3>1, <3>2
  <2>2. SkipComma(s) = IF ts[q + 1] = Comma THEN From(ts, q + 1, <<>>) ELSE s
    BY <1>2, <1>3, <2>1 DEF SkipComma, Comma
  <2>3. PastComma(ts, q) = IF ts[q + 1] = Comma THEN q + 1 ELSE q
    BY <1>3 DEF PastComma
  <2>4. CASE ts[q + 1] = Comma
    BY <1>1, <1>3, <2>2, <2>3, <2>4 DEF s
  <2>5. CASE ts[q + 1] # Comma
    BY <1>1, <1>3, <2>2, <2>3, <2>5 DEF s
  <2> QED BY <2>4, <2>5
<1>4. CASE q = Len(ts)
  <2>1. SkipComma(s) = s
    BY <1>2, <1>4 DEF SkipComma
  <2>2. PastComma(ts, q) = q
    BY <1>1, <1>4 DEF PastComma
  <2> QED BY <1>1, <1>4, <2>1, <2>2 DEF s
<1> QED BY <1>1, <1>3, <1>4

\* The last variant given its fields, as the return from a payload does.
SetLast(vs, fs) == [vs EXCEPT ![Len(vs)].fields = fs]

\* The variant that was appended without fields is the one that gets them.
LEMMA VariantFieldsSet ==
  ASSUME NEW ts, NEW cut, NEW k \in Nat, NEW x, NEW fs
  PROVE  SetLast(Append(CutVariants(ts, k, cut), [name |-> x, fields |-> <<>>]), fs)
           = Append(CutVariants(ts, k, cut), [name |-> x, fields |-> fs])
<1> DEFINE vs == Append(CutVariants(ts, k, cut), [name |-> x, fields |-> <<>>])
<1> DEFINE u == CutVariants(ts, k, cut)
           y == [name |-> x, fields |-> <<>>]
           z == [name |-> x, fields |-> fs]
           D == {u[i] : i \in 1 .. k} \union {y, z}
           w == Append(u, z)
<1>1. u \in Seq(D) /\ Len(u) = k
  <2>1. u = [i \in 1 .. k |-> u[i]]
    BY DEF CutVariants
  <2> HIDE DEF u
  <2>2. [i \in 1 .. k |-> u[i]] \in Seq(D)
    OBVIOUS
  <2>3. Len([i \in 1 .. k |-> u[i]]) = k
    OBVIOUS
  <2> QED BY <2>1, <2>2, <2>3
<1>2. y \in D /\ z \in D /\ [y EXCEPT !.fields = fs] = z
  OBVIOUS
<1>a. vs = Append(u, y)
  OBVIOUS
<1> HIDE DEF D, y, z, u, vs
<1>3. /\ vs \in Seq(D) /\ Len(vs) = k + 1 /\ (\A i \in 1 .. k : vs[i] = u[i]) /\ vs[k + 1] = y
  <2> DEFINE v == Append(u, y)
  <2>1. /\ v \in Seq(D) /\ Len(v) = Len(u) + 1
        /\ (\A i \in 1 .. Len(u) : v[i] = u[i]) /\ v[Len(u) + 1] = y
    BY <1>1, <1>2, AppendProperties
  <2>2. vs = v
    BY <1>a
  <2> HIDE DEF v
  <2> QED BY <1>1, <2>1, <2>2
<1>4. /\ w \in Seq(D) /\ Len(w) = k + 1 /\ (\A i \in 1 .. k : w[i] = u[i]) /\ w[k + 1] = z
  BY <1>1, <1>2, AppendProperties
<1> HIDE DEF w
<1> DEFINE e == [vs EXCEPT ![k + 1] = z]
<1>5. e = [vs EXCEPT ![Len(vs)].fields = fs]
  BY <1>2, <1>3
<1>6. vs \in [1 .. k + 1 -> D] /\ w \in [1 .. k + 1 -> D]
  BY <1>3, <1>4, LenProperties
<1>7. ASSUME NEW i \in 1 .. k + 1 PROVE e[i] = w[i]
  <2>1. DOMAIN vs = 1 .. k + 1
    BY <1>6
  <2>2. CASE i = k + 1
    BY <1>4, <2>1, <2>2
  <2>3. CASE i # k + 1
    <3>1. i \in 1 .. k
      BY <2>3
    <3>2. vs[i] = u[i] /\ w[i] = u[i]
      BY <1>3, <1>4, <3>1
    <3> QED BY <2>1, <2>3, <3>2
  <2> QED BY <2>2, <2>3
<1>8. e = w
  <2>1. e \in [1 .. k + 1 -> D]
    BY <1>2, <1>6
  <2> HIDE DEF e
  <2> QED BY <1>6, <1>7, <2>1
<1> QED BY <1>5, <1>8 DEF w, u, z, vs, SetLast
=============================================================================
