---------------------------- MODULE SoaDeriveProofs ----------------------------
(***************************************************************************)
(* parse_type_decls and derive(Soa) are right about every file of the      *)
(* grammar: proved for any number of items, any tokens and any nesting     *)
(* the grammar allows.                                                     *)
(***************************************************************************)
EXTENDS SoaDerive, GrammarProofs

-----------------------------------------------------------------------------
(* Items.                                                                  *)

\* What an item means, as Meaning concatenates it.
MeansOf(i) == IF i.means = Unreadable THEN <<Unreadable>> ELSE i.means

\* All that a file declares, and without what is unreadable.
Declared(src) == UNION {Range(MeansOf(src[i])) : i \in DOMAIN src}
Readable(src) == Declared(src) \ {Unreadable}

\* What comes behind item j of file src.
TokensAfter(src, j) == FlattenSeq([i \in 1 .. Len(src) - j |-> src[i + j].tokens])

\* What the items behind item j mean.
MeansAfter(src, j) == FlattenSeq([i \in 1 .. Len(src) - j |-> MeansOf(src[i + j])])

\* s is the file from token p of item j on.
Place(src, j, p, s) ==
  /\ j \in 1 .. Len(src) /\ p \in 0 .. Len(src[j].tokens)
  /\ s = From(src[j].tokens, p, TokensAfter(src, j))

\* The file has an item the parser is not documented to accept.
Refuses(src) == \E i \in DOMAIN src : src[i] \notin Supported

\* With done recorded, the rest ds of item j completes what the file declares
\* as far as item j; or it is an item that may stop the parser.
Expect(src, j, done, ds, ok) ==
  IF ok
  THEN /\ ds \in Seq(Readable(src))
       /\ Cat(done, Cat(ds, MeansAfter(src, j))) = MeansAfter(src, 0)
  ELSE Refuses(src)

\* What is recorded is the beginning of what the file declares, all readable.
Begins(src, done) ==
  /\ done \in Seq(Readable(src))
  /\ \E x \in Seq(Declared(src)) : Cat(done, x) = MeansAfter(src, 0)

\* Item j from its token p on reads as ds, or is to stop the parser.
ItemAt(src, j, p, ds, ok) == ItemFrom(src[j].tokens, p, ds, ok, j = Len(src))

\* parse_type_decls is at s: at the end, or within an item that completes what
\* is recorded to the declarations of the file.
AtTop(src, done, s) ==
  \/ s = <<>> /\ done = MeansAfter(src, 0)
  \/ \E j, p, ds, ok :
       /\ Place(src, j, p, s) /\ p < Len(src[j].tokens)
       /\ ItemAt(src, j, p, ds, ok) /\ Expect(src, j, done, ds, ok)

\* What the grammar says of each item of a file.
LEMMA FileFacts ==
  ASSUME NEW src, IsFile(src)
  PROVE  /\ Len(src) \in Nat /\ DOMAIN src = 1 .. Len(src)
         /\ \A i \in 1 .. Len(src) :
              /\ src[i].tokens \in Seq(Token) /\ Len(src[i].tokens) \in Nat
              /\ 0 < Len(src[i].tokens)
              /\ MeansOf(src[i]) \in Seq(Declared(src))
              /\ IsRead(src, i) \/ IsRefused(src, i)
<1>1. Len(src) \in Nat /\ DOMAIN src = 1 .. Len(src)
  BY LenProperties DEF IsFile
<1>2. ASSUME NEW i \in 1 .. Len(src)
      PROVE  /\ src[i].tokens \in Seq(Token) /\ Len(src[i].tokens) \in Nat
             /\ 0 < Len(src[i].tokens)
             /\ MeansOf(src[i]) \in Seq(Declared(src))
             /\ IsRead(src, i) \/ IsRefused(src, i)
  <2>1. /\ src[i].tokens \in Seq(Token) /\ src[i].tokens # <<>>
        /\ src[i].means = Unreadable \/ src[i].means \in Seq(Range(src[i].means))
        /\ IsRead(src, i) \/ IsRefused(src, i)
    BY <1>1 DEF IsFile
  <2>2. Len(src[i].tokens) \in Nat \ {0}
    BY <2>1, EmptySeq
  <2>3. MeansOf(src[i]) \in Seq(Range(MeansOf(src[i])))
    <3>1. CASE src[i].means = Unreadable
      <4>1. MeansOf(src[i]) = <<Unreadable>>
        BY <3>1 DEF MeansOf
      <4>2. <<Unreadable>> \in Seq({Unreadable})
        OBVIOUS
      <4>3. <<Unreadable>> \in Seq(Range(<<Unreadable>>))
        BY <4>2, SeqOfRange
      <4> QED BY <4>1, <4>3
    <3>2. CASE src[i].means # Unreadable
      BY <2>1, <3>2 DEF MeansOf
    <3> QED BY <3>1, <3>2
  <2>4. Range(MeansOf(src[i])) \subseteq Declared(src)
    BY <1>1 DEF Declared
  <2>5. MeansOf(src[i]) \in Seq(Declared(src))
    BY <2>3, <2>4, SeqMonotonic
  <2>6. Len(src[i].tokens) \in Nat /\ 0 < Len(src[i].tokens)
    BY <2>2
  <2> QED BY <2>1, <2>5, <2>6
<1> QED BY <1>1, <1>2

\* The tokens and the means behind an item, one item at a time.
LEMMA AfterFacts ==
  ASSUME NEW src, IsFile(src), NEW j \in 0 .. Len(src)
  PROVE  /\ TokensAfter(src, j) \in Seq(Token) /\ MeansAfter(src, j) \in Seq(Declared(src))
         /\ j = Len(src) => TokensAfter(src, j) = <<>> /\ MeansAfter(src, j) = <<>>
         /\ j < Len(src) =>
              /\ TokensAfter(src, j) = Cat(src[j + 1].tokens, TokensAfter(src, j + 1))
              /\ MeansAfter(src, j) = Cat(MeansOf(src[j + 1]), MeansAfter(src, j + 1))
<1>1. Len(src) \in Nat /\ j \in Nat
  BY FileFacts
<1>2. CASE j = Len(src)
  <2>1. /\ [i \in 1 .. Len(src) - j |-> src[i + j].tokens] = <<>>
        /\ [i \in 1 .. Len(src) - j |-> MeansOf(src[i + j])] = <<>>
    BY <1>1, <1>2
  <2>2. TokensAfter(src, j) = <<>> /\ MeansAfter(src, j) = <<>>
    BY <2>1, FlattenEmpty DEF TokensAfter, MeansAfter
  <2>3. <<>> \in Seq(Token) /\ <<>> \in Seq(Declared(src))
    BY EmptySeq
  <2> QED BY <1>2, <2>2, <2>3
<1>3. CASE j < Len(src)
  <2> DEFINE m == Len(src) - j - 1
             s == [i \in 1 .. Len(src) - j |-> src[i + j].tokens]
             t == [i \in 1 .. Len(src) - (j + 1) |-> src[i + (j + 1)].tokens]
             u == [i \in 1 .. Len(src) - j |-> MeansOf(src[i + j])]
             v == [i \in 1 .. Len(src) - (j + 1) |-> MeansOf(src[i + (j + 1)])]
  <2>1. m \in Nat /\ Len(src) - j = m + 1 /\ Len(src) - (j + 1) = m /\ j + 1 \in 1 .. Len(src)
    BY <1>1, <1>3
  <2>2. \A i \in 1 .. m + 1 : i + j \in 1 .. Len(src)
    BY <1>1, <1>3
  <2>3. Pieces(s, m + 1, Token) /\ Pieces(u, m + 1, Declared(src))
    <3>1. \A i \in 1 .. m + 1 : src[i + j].tokens \in Seq(Token) /\ MeansOf(src[i + j]) \in Seq(Declared(src))
      BY <2>2, FileFacts
    <3> QED BY <2>1, <3>1 DEF Pieces
  <2>4. Follows(t, s, m) /\ Follows(v, u, m)
    <3>1. \A i \in 1 .. m : i + (j + 1) = (i + 1) + j /\ i + 1 \in 1 .. m + 1
      BY <1>1, <2>1
    <3> QED BY <2>1, <3>1 DEF Follows
  <2>5. Len(s) = m + 1 /\ Len(u) = m + 1 /\ Len(t) = m /\ Len(v) = m
    BY <2>1
  <2>6. m = 0 => t = <<>> /\ v = <<>>
    BY <2>1
  <2>7. s[1] = src[j + 1].tokens /\ u[1] = MeansOf(src[j + 1])
    BY <1>1, <2>1
  <2>8. /\ TokensAfter(src, j) = FlattenSeq(s) /\ TokensAfter(src, j + 1) = FlattenSeq(t)
        /\ MeansAfter(src, j) = FlattenSeq(u) /\ MeansAfter(src, j + 1) = FlattenSeq(v)
    BY DEF TokensAfter, MeansAfter
  <2> HIDE DEF m, s, t, u, v
  <2>9. Splits(s, t, m, Token) /\ Splits(u, v, m, Declared(src))
    BY <2>3, <2>4, <2>5, <2>6 DEF Splits
  <2>10. FlattenSeq(s) = Cat(s[1], FlattenSeq(t)) /\ FlattenSeq(s) \in Seq(Token)
    BY <2>1, <2>9, FlattenCons
  <2>11. FlattenSeq(u) = Cat(u[1], FlattenSeq(v)) /\ FlattenSeq(u) \in Seq(Declared(src))
    BY <2>1, <2>9, FlattenCons
  <2>12. j # Len(src)
    BY <1>1, <1>3
  <2> QED BY <2>7, <2>8, <2>10, <2>11, <2>12, Zenon
<1> QED BY <1>1, <1>2, <1>3

\* What a place in a file gives the loop that is there.
LEMMA PlaceFacts ==
  ASSUME NEW src, IsFile(src), NEW j, NEW p, NEW s, Place(src, j, p, s)
  PROVE  /\ src[j].tokens \in Seq(Token) /\ TokensAfter(src, j) \in Seq(Token)
         /\ Len(src[j].tokens) \in Nat /\ p \in Nat /\ p <= Len(src[j].tokens)
         /\ j \in 1 .. Len(src) /\ j \in 0 .. Len(src) /\ Len(src) \in Nat
         /\ Reads(s, src[j].tokens, p, TokensAfter(src, j))
<1>1. Len(src) \in Nat /\ j \in 1 .. Len(src) /\ p \in 0 .. Len(src[j].tokens)
  BY FileFacts DEF Place
<1>2. j \in 0 .. Len(src) /\ src[j].tokens \in Seq(Token) /\ Len(src[j].tokens) \in Nat
  BY <1>1, FileFacts
<1>3. TokensAfter(src, j) \in Seq(Token)
  BY <1>2, AfterFacts
<1>4. Reads(s, src[j].tokens, p, TokensAfter(src, j))
  BY <1>1, <1>2, <1>3, FromReads DEF Place
<1> QED BY <1>1, <1>2, <1>3, <1>4

\* Where an item begins, with all before it recorded, the top loop is at its
\* place: each item of a file is read or refused.
LEMMA NextItem ==
  ASSUME NEW src, IsFile(src), NEW j \in 0 .. Len(src), NEW done \in Seq(Readable(src)),
         Cat(done, MeansAfter(src, j)) = MeansAfter(src, 0)
  PROVE  AtTop(src, done, TokensAfter(src, j))
<1>1. Len(src) \in Nat /\ j \in Nat
  BY FileFacts
<1>2. CASE j = Len(src)
  <2>1. TokensAfter(src, j) = <<>> /\ MeansAfter(src, j) = <<>>
    BY <1>2, AfterFacts
  <2>2. Cat(done, <<>>) = done
    BY CatEmpty
  <2> QED BY <2>1, <2>2 DEF AtTop
<1>3. CASE j < Len(src)
  <2> DEFINE i == j + 1
  <2>1. i \in 1 .. Len(src)
    BY <1>1, <1>3
  <2>2. /\ TokensAfter(src, j) = Cat(src[i].tokens, TokensAfter(src, i))
        /\ MeansAfter(src, j) = Cat(MeansOf(src[i]), MeansAfter(src, i))
    BY <1>3, AfterFacts
  <2> HIDE DEF i
  <2>3. /\ src[i].tokens \in Seq(Token) /\ Len(src[i].tokens) \in Nat /\ 0 < Len(src[i].tokens)
        /\ MeansOf(src[i]) \in Seq(Declared(src)) /\ TokensAfter(src, i) \in Seq(Token)
        /\ IsRead(src, i) \/ IsRefused(src, i)
    <3>1. i \in 0 .. Len(src)
      BY <1>1, <2>1
    <3> QED BY <2>1, <3>1, FileFacts, AfterFacts
  <2>4. Place(src, i, 0, TokensAfter(src, j))
    <3>1. From(src[i].tokens, 0, TokensAfter(src, i)) = Cat(src[i].tokens, TokensAfter(src, i))
      BY <2>3, FromStart
    <3> QED BY <2>1, <2>2, <2>3, <3>1 DEF Place
  <2>5. \E ds, ok : ItemAt(src, i, 0, ds, ok) /\ Expect(src, i, done, ds, ok)
    <3>1. CASE IsRead(src, i)
      <4>1. ItemAt(src, i, 0, src[i].means, TRUE) /\ MeansOf(src[i]) = src[i].means
        BY <3>1 DEF IsRead, ItemAt, MeansOf
      <4>2. src[i].means \in Seq(Readable(src))
        <5> DEFINE m == src[i].means
        <5>1. m \in Seq(Declared(src)) /\ \A k \in DOMAIN m : m[k] # Unreadable
          BY <2>3, <3>1, <4>1 DEF IsRead
        <5> HIDE DEF m
        <5>2. Len(m) \in Nat /\ DOMAIN m = 1 .. Len(m) /\ m \in Seq(Range(m))
          BY <5>1, LenProperties, SeqOfRange
        <5>3. \A k \in DOMAIN m : m[k] \in Readable(src)
          BY <5>1, <5>2, ElementOfSeq DEF Readable
        <5>4. Range(m) \subseteq Readable(src)
          BY <5>3 DEF Range
        <5>5. m \in Seq(Readable(src))
          BY <5>2, <5>4, SeqMonotonic
        <5> QED BY <5>5 DEF m
      <4>3. Expect(src, i, done, src[i].means, TRUE)
        BY <2>2, <4>1, <4>2 DEF Expect
      <4> QED BY <4>1, <4>3
    <3>2. CASE IsRefused(src, i)
      <4>1. ItemAt(src, i, 0, <<>>, FALSE)
        BY <3>2 DEF IsRefused, ItemAt
      <4>2. Expect(src, i, done, <<>>, FALSE)
        <5>1. i \in DOMAIN src /\ src[i] \notin Supported
          BY <2>1, <3>2, FileFacts DEF IsRefused
        <5> QED BY <5>1 DEF Expect, Refuses
      <4> QED BY <4>1, <4>2
    <3> QED BY <2>3, <3>1, <3>2
  <2>6. PICK ds, ok : ItemAt(src, i, 0, ds, ok) /\ Expect(src, i, done, ds, ok)
    BY <2>5
  <2> QED BY <2>3, <2>4, <2>6 DEF AtTop
<1> QED BY <1>1, <1>2, <1>3

\* The top loop is at its place behind whatever it read of an item.
LEMMA Land ==
  ASSUME NEW src, IsFile(src), NEW done \in Seq(Readable(src)),
         NEW j, NEW p, NEW s, Place(src, j, p, s),
         NEW ds, NEW ok, ItemAt(src, j, p, ds, ok), Expect(src, j, done, ds, ok)
  PROVE  AtTop(src, done, s)
<1>1. /\ Len(src[j].tokens) \in Nat /\ p \in Nat /\ p <= Len(src[j].tokens)
      /\ j \in 0 .. Len(src)
      /\ Reads(s, src[j].tokens, p, TokensAfter(src, j))
  BY PlaceFacts
<1>2. CASE p < Len(src[j].tokens)
  BY <1>2 DEF AtTop
<1>3. CASE p = Len(src[j].tokens)
  <2>1. ok /\ ds = <<>>
    BY <1>1, <1>3 DEF ItemAt, ItemFrom
  <2>2. s = TokensAfter(src, j)
    BY <1>1, <1>3 DEF Reads
  <2>3. Cat(done, MeansAfter(src, j)) = MeansAfter(src, 0)
    <3>1. Cat(done, Cat(<<>>, MeansAfter(src, j))) = MeansAfter(src, 0)
      BY <2>1 DEF Expect
    <3>2. MeansAfter(src, j) \in Seq(Declared(src))
      BY <1>1, AfterFacts
    <3>3. Cat(<<>>, MeansAfter(src, j)) = MeansAfter(src, j)
      BY <3>2, ConcatEmptySeq DEF Cat
    <3> QED BY <3>1, <3>3
  <2> QED BY <1>1, <2>2, <2>3, NextItem
<1> QED BY <1>1, <1>2, <1>3

\* An item whose rest holds no keyword.
LEMMA LandAtEnd ==
  ASSUME NEW src, IsFile(src), NEW done \in Seq(Readable(src)),
         NEW j, NEW p, NEW s, Place(src, j, p, s), NoKeyword(src[j].tokens, p),
         Expect(src, j, done, <<>>, TRUE)
  PROVE  AtTop(src, done, s)
<1>1. Len(src[j].tokens) \in Nat /\ p \in Nat /\ p <= Len(src[j].tokens)
  BY PlaceFacts
<1>2. ItemAt(src, j, p, <<>>, TRUE)
  BY <1>1 DEF ItemAt, ItemFrom, NoKeyword
<1> QED BY <1>2, Land

\* To record the declaration that is expected leaves nothing of the item.
LEMMA ExpectRecord ==
  ASSUME NEW src, IsFile(src), NEW done \in Seq(Readable(src)), NEW j \in 0 .. Len(src),
         NEW d, Expect(src, j, done, <<d>>, TRUE)
  PROVE  /\ Append(done, d) \in Seq(Readable(src)) /\ Begins(src, Append(done, d))
         /\ Expect(src, j, Append(done, d), <<>>, TRUE)
<1> DEFINE D == Declared(src)
           R == Readable(src)
           M == MeansAfter(src, j)
<1>1. <<d>> \in Seq(R) /\ Cat(done, Cat(<<d>>, M)) = MeansAfter(src, 0) /\ M \in Seq(D)
  BY AfterFacts DEF Expect
<1>2. d \in R
  <2>1. Len(<<d>>) = 1 /\ <<d>>[1] = d
    OBVIOUS
  <2>2. 1 \in 1 .. Len(<<d>>)
    BY <2>1
  <2>3. <<d>>[1] \in R
    BY <1>1, <2>2, ElementOfSeq
  <2> QED BY <2>1, <2>3
<1>3. done \in Seq(R) /\ done \in Seq(D) /\ <<d>> \in Seq(D)
  <2>1. R \subseteq D
    BY DEF Readable
  <2> QED BY <1>1, <2>1, SeqMonotonic
<1> HIDE DEF D, M, R
<1>4. Append(done, d) = Cat(done, <<d>>) /\ Append(done, d) \in Seq(R)
  BY <1>2, <1>3, AppendIsConcat, AppendProperties DEF Cat
<1>5. Cat(Cat(done, <<d>>), M) = Cat(done, Cat(<<d>>, M))
  <2>1. \A a, b, c \in Seq(D) : Cat(Cat(a, b), c) = Cat(a, Cat(b, c)) /\ Cat(a, b) \in Seq(D)
    BY ConcatAssoc
  <2> QED BY <1>1, <1>3, <2>1, Zenon
<1>6. Cat(<<>>, M) = M /\ <<>> \in Seq(R)
  BY <1>1, ConcatEmptySeq, EmptySeq DEF Cat
<1>7. Begins(src, Append(done, d))
  BY <1>1, <1>4, <1>5 DEF Begins, D, R
<1>8. Expect(src, j, Append(done, d), <<>>, TRUE)
  BY <1>1, <1>4, <1>5, <1>6 DEF Expect, R, M
<1> QED BY <1>4, <1>7, <1>8 DEF R

-----------------------------------------------------------------------------
(* The invariant.                                                          *)

\* An enum with its variants as far as they are read.
EnumDecl(nm, vs) == [kind |-> "enum", name |-> nm, variants |-> vs]

\* A declaration of a function, with the fields the parser sets in it.
IsFn(d) == d.kind = "fn" /\ {"kind", "args", "ret"} \subseteq DOMAIN d /\ d = [x \in DOMAIN d |-> d[x]]

\* One loop, at the top.
Top(src, ds, ss) == \E s : ss = <<s>> /\ AtTop(src, ds, s)

\* Behind the name of a struct or enum, before the body is found.
InBody(src, ds, d0, ss) ==
  \E s, j, p, d, ok :
    /\ ss = <<s>> /\ Place(src, j, p, s)
    /\ d0.kind = "struct" \/ \E nm : d0 = EnumDecl(nm, <<>>)
    /\ BodyFrom(src[j].tokens, p, d0, d, ok, j = Len(src)) /\ Expect(src, j, ds, <<d>>, ok)

\* An enum whose variants are read from vts, with o behind them.
EnumOf(src, ds, nm, o, vts, n, cut, ok) ==
  /\ vts \in Seq(Token) /\ Variants(vts, n, cut, ok)
  /\ \E j, p :
       /\ Place(src, j, p, o)
       /\ IF ok
          THEN /\ NoKeyword(src[j].tokens, p)
               /\ Expect(src, j, ds, <<EnumDecl(nm, CutVariants(vts, n, cut))>>, TRUE)
          ELSE Refuses(src)

\* In the body of an enum.
InVariants(src, ds, d, ss) ==
  \E s, o, nm, vts, n, cut, ok, k, p, vs :
    /\ ss = <<s, o>> /\ EnumOf(src, ds, nm, o, vts, n, cut, ok)
    /\ s = From(vts, p, <<>>) /\ p \in 0 .. Len(vts)
    /\ VariantsAt(vts, n, cut, k, p, vs) /\ d = EnumDecl(nm, vs)

\* The fields are those of a struct,
OfStruct(src, ds, d, os, fs, ok) ==
  \E o, j, p :
    /\ d.kind = "struct" /\ os = <<o>> /\ Place(src, j, p, o)
    /\ IF ok
       THEN /\ NoKeyword(src[j].tokens, p)
            /\ Expect(src, j, ds, <<[d EXCEPT !.fields = fs]>>, TRUE)
       ELSE Refuses(src)

\* or of the last variant of an enum,
OfVariant(src, ds, d, os, fs, ok) ==
  \E v, o, nm, vts, n, cut, okv, k, p, x :
    /\ os = <<v, o>> /\ EnumOf(src, ds, nm, o, vts, n, cut, okv)
    /\ v = From(vts, p, <<>>) /\ p \in 0 .. Len(vts) /\ k \in Nat
    /\ d = EnumDecl(nm, Append(CutVariants(vts, k, cut), [name |-> x, fields |-> <<>>]))
    /\ IF ok
       THEN VariantsAt(vts, n, cut, k + 1, PastComma(vts, p),
              Append(CutVariants(vts, k, cut), [name |-> x, fields |-> fs]))
       ELSE Refuses(src)

\* or the arguments of a function.
OfFn(src, ds, d, os, fs, ok) ==
  \E o, j, p :
    /\ IsFn(d) /\ os = <<o>> /\ Place(src, j, p, o)
    /\ IF ok
       THEN \E dd, okr :
              /\ ResultFrom(src[j].tokens, p, [d EXCEPT !.args = fs], dd, okr, j = Len(src))
              /\ Expect(src, j, ds, <<dd>>, okr)
       ELSE Refuses(src)

\* What happens once the fields fs are read, or the parser stops before that.
Caller(src, ds, d, os, fs, ok) ==
  \/ OfStruct(src, ds, d, os, fs, ok)
  \/ OfVariant(src, ds, d, os, fs, ok)
  \/ OfFn(src, ds, d, os, fs, ok)

\* os are the streams of the callers.
Stack(ss, g, os) ==
  \/ \E o : ss = <<g, o>> /\ os = <<o>>
  \/ \E v, o : ss = <<g, v, o>> /\ os = <<v, o>>

\* In parse_struct_fields or parse_fn_args, between two fields.
InFields(src, ds, d, fs, ss) ==
  \E g, os, ts, n, cut, ok, k, p :
    /\ Stack(ss, g, os) /\ Caller(src, ds, d, os, CutFields(ts, n, cut), ok)
    /\ ts \in Seq(Token) /\ g = From(ts, p, <<>>) /\ p \in 0 .. Len(ts)
    /\ Fields(ts, n, cut, ok) /\ FieldsAt(ts, n, cut, k, p, fs)

\* In the type of a field.
InType(src, ds, d, fs, f, ss) ==
  \E g, os, ts, n, cut, ok, k, p :
    /\ Stack(ss, g, os) /\ Caller(src, ds, d, os, CutFields(ts, n, cut), ok)
    /\ ts \in Seq(Token) /\ g = From(ts, p, <<>>) /\ p \in 0 .. Len(ts)
    /\ Fields(ts, n, cut, ok) /\ TypeAt(ts, n, cut, k, p, fs, f)

\* In parse_function_sig behind the name, before or behind the arguments.
InSignature(src, ds, d0, ss) ==
  \E s, j, p, d, ok :
    /\ ss = <<s>> /\ Place(src, j, p, s) /\ IsFn(d0)
    /\ \/ SignatureFrom(src[j].tokens, p, d0, d, ok, j = Len(src))
       \/ ResultFrom(src[j].tokens, p, d0, d, ok, j = Len(src))
    /\ Expect(src, j, ds, <<d>>, ok)

\* In a return type that began behind a; b is the declaration without it.
InReturn(src, ds, d0, ss) ==
  \E s, j, p, a, b, d :
    /\ ss = <<s>> /\ Place(src, j, p, s) /\ IsFn(b) /\ a \in 0 .. p
    /\ d0 = [b EXCEPT !.ret = SubSeq(src[j].tokens, a + 1, p)]
    /\ \A i \in a + 1 .. p : ~EndsSignature(src[j].tokens[i])
    /\ ReturnFrom(src[j].tokens, a, b, d, j = Len(src))
    /\ Expect(src, j, ds, <<d>>, TRUE)

\* The inductive invariant: whatever the loop, its stream is a place in the
\* file that the grammar gives it, what is recorded and what the declaration in
\* progress becomes are the beginning of what the file declares, and the parser
\* only fails where the file has an item it is not documented to accept.
IInv ==
  /\ IsFile(source) /\ Begins(source, decls)
  /\ \/ pc = "top" /\ Top(source, decls, streams)
     \/ pc = "body" /\ InBody(source, decls, decl, streams)
     \/ pc = "fields" /\ InFields(source, decls, decl, fields, streams)
     \/ pc = "type" /\ InType(source, decls, decl, fields, field, streams)
     \/ pc = "variants" /\ InVariants(source, decls, decl, streams)
     \/ pc = "signature" /\ InSignature(source, decls, decl, streams)
     \/ pc = "ret" /\ InReturn(source, decls, decl, streams)
     \/ pc = "failed" /\ Refuses(source)
     \/ pc = "done" /\ decls = MeansAfter(source, 0)

-----------------------------------------------------------------------------
(* The step lemmas.                                                        *)

\* The keywords differ: each is that of one kind of item.
LEMMA KeywordFacts ==
  /\ Modifiers \subseteq Keywords
  /\ Ident("struct") \in Keywords /\ Ident("enum") \in Keywords /\ Ident("type") \in Keywords
  /\ Ident("struct") # Ident("enum") /\ Ident("type") \notin {Ident("struct"), Ident("enum")}
  /\ Modifiers \intersect {Ident("struct"), Ident("enum"), Ident("type")} = {}
BY DEF Modifiers, Keywords, Ident

\* At a keyword an item has its declaration from here on.
LEMMA AtKeyword ==
  ASSUME NEW src, IsFile(src), NEW done, NEW s, AtTop(src, done, s), s # <<>>,
         Head(s) \in Keywords
  PROVE  \E j, p, ds, ok :
           /\ Place(src, j, p, s) /\ p < Len(src[j].tokens) /\ Head(s) = src[j].tokens[p + 1]
           /\ Expect(src, j, done, ds, ok) /\ Expect(src, j, done, <<ds[1]>>, ok)
           /\ \/ TypeItem(src[j].tokens, p, ds, ok, j = Len(src))
              \/ AliasItem(src[j].tokens, p, ds, ok)
              \/ FunctionItem(src[j].tokens, p, ds, ok, j = Len(src))
<1>1. PICK j, p, ds, ok :
        /\ Place(src, j, p, s) /\ p < Len(src[j].tokens)
        /\ ItemAt(src, j, p, ds, ok) /\ Expect(src, j, done, ds, ok)
  BY DEF AtTop
<1> DEFINE ts == src[j].tokens
<1>2. /\ Len(ts) \in Nat /\ p \in Nat /\ p < Len(ts) /\ Reads(s, ts, p, TokensAfter(src, j))
  BY <1>1, PlaceFacts
<1>3. ts[p + 1] \in Keywords /\ Head(s) = ts[p + 1]
  BY <1>2 DEF Reads
<1>4. ItemFrom(ts, p, ds, ok, j = Len(src))
  BY <1>1 DEF ItemAt
<1> HIDE DEF ts
<1>5. PICK a \in p .. Len(ts) :
        /\ \A i \in p + 1 .. a : ts[i] \notin Keywords
        /\ \/ a = Len(ts) /\ ok /\ ds = <<>>
           \/ /\ a < Len(ts) /\ (ok => Len(ds) = 1)
              /\ \/ TypeItem(ts, a, ds, ok, j = Len(src)) \/ AliasItem(ts, a, ds, ok)
                 \/ FunctionItem(ts, a, ds, ok, j = Len(src))
  BY <1>4 DEF ItemFrom
<1>6. a = p
  BY <1>2, <1>3, <1>5
<1>7. /\ ok => Len(ds) = 1
      /\ \/ TypeItem(ts, p, ds, ok, j = Len(src)) \/ AliasItem(ts, p, ds, ok)
         \/ FunctionItem(ts, p, ds, ok, j = Len(src))
  BY <1>2, <1>5, <1>6
<1>8. Expect(src, j, done, <<ds[1]>>, ok)
  <2>1. CASE ok
    <3>1. ds \in Seq(Readable(src)) /\ Len(ds) = 1
      BY <1>1, <1>7, <2>1 DEF Expect
    <3>2. ds = <<ds[1]>>
      BY <3>1, ShortSeq
    <3> QED BY <1>1, <3>2
  <2>2. CASE ~ok
    BY <1>1, <2>2 DEF Expect
  <2> QED BY <2>1, <2>2
<1> QED BY <1>1, <1>3, <1>7, <1>8 DEF ts

\* The top loop skips a token that is no keyword.
LEMMA StepSkipToken == ASSUME IInv, SkipToken PROVE IInv'
<1>1. /\ IsFile(source) /\ Begins(source, decls) /\ Top(source, decls, streams)
      /\ pc' = pc /\ source' = source /\ decls' = decls /\ pc = "top"
      /\ Head(streams) # <<>> /\ Head(Head(streams)) \notin Keywords
      /\ streams' = <<SubSeq(Head(streams), 2, Len(Head(streams)))>> \o Tail(streams)
  BY DEF IInv, SkipToken, Current, More, First, Consume
<1>2. PICK s : streams = <<s>> /\ AtTop(source, decls, s)
  BY <1>1 DEF Top
<1>3. s # <<>> /\ Head(s) \notin Keywords /\ streams' = <<SubSeq(s, 2, Len(s))>>
  BY <1>1, <1>2, OneStream
<1>4. PICK j, p, ds, ok :
        /\ Place(source, j, p, s) /\ p < Len(source[j].tokens)
        /\ ItemAt(source, j, p, ds, ok) /\ Expect(source, j, decls, ds, ok)
  BY <1>2, <1>3 DEF AtTop
<1> DEFINE ts == source[j].tokens
<1>5. /\ Len(ts) \in Nat /\ p \in Nat /\ p < Len(ts) /\ Reads(s, ts, p, TokensAfter(source, j))
      /\ j \in 1 .. Len(source)
  BY <1>1, <1>4, PlaceFacts
<1>6. ts[p + 1] \notin Keywords
  BY <1>3, <1>5 DEF Reads
<1>7. ItemFrom(ts, p + 1, ds, ok, j = Len(source))
  <2>1. ItemFrom(ts, p, ds, ok, j = Len(source))
    BY <1>4 DEF ItemAt
  <2> HIDE DEF ts
  <2>2. PICK a \in p .. Len(ts) :
          /\ \A i \in p + 1 .. a : ts[i] \notin Keywords
          /\ \/ a = Len(ts) /\ ok /\ ds = <<>>
             \/ /\ a < Len(ts) /\ (ok => Len(ds) = 1)
                /\ \/ TypeItem(ts, a, ds, ok, j = Len(source)) \/ AliasItem(ts, a, ds, ok)
                   \/ FunctionItem(ts, a, ds, ok, j = Len(source))
    BY <2>1 DEF ItemFrom
  <2>3. a # p
    <3> SUFFICES ASSUME a = p PROVE FALSE
      OBVIOUS
    <3>1. \/ TypeItem(ts, p, ds, ok, j = Len(source)) \/ AliasItem(ts, p, ds, ok)
          \/ FunctionItem(ts, p, ds, ok, j = Len(source))
      BY <1>5, <2>2
    <3>2. ~TypeItem(ts, p, ds, ok, j = Len(source))
      BY <1>6, KeywordFacts DEF TypeItem
    <3>3. ~AliasItem(ts, p, ds, ok)
      BY <1>6, KeywordFacts DEF AliasItem
    <3>4. ~FunctionItem(ts, p, ds, ok, j = Len(source))
      <4> SUFFICES ASSUME FunctionItem(ts, p, ds, ok, j = Len(source)) PROVE FALSE
        OBVIOUS
      <4>1. PICK n \in 1 .. 4 : \A i \in p + 1 .. p + n : ts[i] \in Modifiers
        BY DEF FunctionItem
      <4>2. ts[p + 1] \in Modifiers
        BY <1>5, <4>1
      <4> QED BY <1>6, <4>2, KeywordFacts
    <3> QED BY <3>1, <3>2, <3>3, <3>4
  <2>4. a \in p + 1 .. Len(ts) /\ \A i \in p + 1 + 1 .. a : ts[i] \notin Keywords
    BY <1>5, <2>2, <2>3
  <2> QED BY <2>2, <2>4 DEF ItemFrom
<1>8. Place(source, j, p + 1, SubSeq(s, 2, Len(s)))
  <2>1. SubSeq(s, 1 + 1, Len(s)) = From(ts, p + 1, TokensAfter(source, j))
    BY <1>5 DEF Reads
  <2> QED BY <1>5, <2>1 DEF Place
<1>9. AtTop(source, decls, SubSeq(s, 2, Len(s)))
  BY <1>1, <1>4, <1>7, <1>8, Land DEF ItemAt, Begins
<1> QED BY <1>1, <1>3, <1>9 DEF IInv, Top

\* To take n tokens of an item is to go n on in it.
LEMMA PlaceStep ==
  ASSUME NEW src, IsFile(src), NEW j, NEW p, NEW s, Place(src, j, p, s),
         NEW n \in Nat, p + n <= Len(src[j].tokens)
  PROVE  /\ Place(src, j, p + n, SubSeq(s, n + 1, Len(s)))
         /\ n <= Len(s) /\ \A i \in 1 .. n : s[i] = src[j].tokens[p + i]
<1> DEFINE ts == src[j].tokens
<1>1. /\ Len(ts) \in Nat /\ p \in Nat /\ j \in 1 .. Len(src) /\ Reads(s, ts, p, TokensAfter(src, j))
      /\ TokensAfter(src, j) \in Seq(Token)
  BY PlaceFacts
<1>2. Len(TokensAfter(src, j)) \in Nat
  BY <1>1, LenProperties
<1> HIDE DEF ts
<1>3. n \in 0 .. Len(ts) - p /\ p + n \in 0 .. Len(ts)
  BY <1>1 DEF ts
<1>4. SubSeq(s, n + 1, Len(s)) = From(ts, p + n, TokensAfter(src, j))
  BY <1>1, <1>3 DEF Reads
<1>5. Place(src, j, p + n, SubSeq(s, n + 1, Len(s)))
  BY <1>1, <1>3, <1>4 DEF Place, ts
<1>6. n <= Len(s)
  BY <1>1, <1>2, <1>3 DEF Reads
<1>7. \A i \in 1 .. n : s[i] = ts[p + i]
  BY <1>1, <1>3 DEF Reads
<1> QED BY <1>5, <1>6, <1>7 DEF ts

\* Failing is right where the file has an item that may be refused.
LEMMA StepFail == ASSUME IInv, Fail, Refuses(source) PROVE IInv'
BY DEF IInv, Fail

\* The end of the stream is the end of the file: all is recorded.
LEMMA StepFinish == ASSUME IInv, Finish PROVE IInv'
<1>1. /\ IsFile(source) /\ Begins(source, decls) /\ Top(source, decls, streams)
      /\ pc' = "done" /\ source' = source /\ decls' = decls
      /\ Head(streams) = <<>>
  BY DEF IInv, Finish, Current, More
<1>2. PICK s : streams = <<s>> /\ AtTop(source, decls, s)
  BY <1>1 DEF Top
<1>3. s = <<>>
  BY <1>1, <1>2, OneStream
<1>4. decls = MeansAfter(source, 0)
  <2> SUFFICES ASSUME NEW j, NEW p, Place(source, j, p, s), p < Len(source[j].tokens)
               PROVE  FALSE
    BY <1>2 DEF AtTop
  <2>1. Reads(s, source[j].tokens, p, TokensAfter(source, j))
    BY <1>1, PlaceFacts
  <2> QED BY <1>3, <2>1 DEF Reads
<1> QED BY <1>1, <1>4 DEF IInv

\* struct or enum, and a name.
LEMMA StepBeginType == ASSUME IInv, BeginType PROVE IInv'
<1>1. /\ IsFile(source) /\ Begins(source, decls) /\ Top(source, decls, streams)
      /\ Head(streams) # <<>> /\ Head(Head(streams)) \in {Ident("struct"), Ident("enum")}
  BY DEF IInv, BeginType, Current, More, First
<1>2. PICK s : streams = <<s>> /\ AtTop(source, decls, s)
  BY <1>1 DEF Top
<1>3. Head(streams) = s /\ s # <<>> /\ Head(s) \in {Ident("struct"), Ident("enum")}
  BY <1>1, <1>2, OneStream
<1>4. Head(s) \in Keywords
  BY <1>3, KeywordFacts
<1>5. PICK j, p, ds, ok :
        /\ Place(source, j, p, s) /\ p < Len(source[j].tokens) /\ Head(s) = source[j].tokens[p + 1]
        /\ Expect(source, j, decls, ds, ok) /\ Expect(source, j, decls, <<ds[1]>>, ok)
        /\ \/ TypeItem(source[j].tokens, p, ds, ok, j = Len(source))
           \/ AliasItem(source[j].tokens, p, ds, ok)
           \/ FunctionItem(source[j].tokens, p, ds, ok, j = Len(source))
  BY <1>1, <1>2, <1>3, <1>4, AtKeyword
<1> DEFINE ts == source[j].tokens
           d0 == IF Head(s) = Ident("struct")
                 THEN [kind |-> "struct", name |-> s[2].text, fields |-> <<>>]
                 ELSE [kind |-> "enum", name |-> s[2].text, variants |-> <<>>]
<1>6. Len(ts) \in Nat /\ p \in Nat
  BY <1>1, <1>5, PlaceFacts
<1>7. TypeItem(ts, p, ds, ok, j = Len(source))
  <2>1. ~AliasItem(ts, p, ds, ok)
    BY <1>3, <1>5, KeywordFacts DEF AliasItem
  <2>2. ~FunctionItem(ts, p, ds, ok, j = Len(source))
    <3> SUFFICES ASSUME FunctionItem(ts, p, ds, ok, j = Len(source)) PROVE FALSE
      OBVIOUS
    <3>1. PICK n \in 1 .. 4 : \A i \in p + 1 .. p + n : ts[i] \in Modifiers
      BY DEF FunctionItem
    <3>2. ts[p + 1] \in Modifiers
      BY <1>6, <3>1
    <3> QED BY <1>3, <1>5, <3>2, KeywordFacts
  <2> QED BY <1>5, <2>1, <2>2
<1>8. p + 2 <= Len(ts)
  BY <1>7 DEF TypeItem
<1>9. /\ Place(source, j, p + 2, SubSeq(s, 2 + 1, Len(s)))
      /\ 2 <= Len(s) /\ s[2] = ts[p + 2]
  <2>1. /\ Place(source, j, p + 2, SubSeq(s, 2 + 1, Len(s)))
        /\ 2 <= Len(s) /\ \A i \in 1 .. 2 : s[i] = ts[p + i]
    BY <1>1, <1>5, <1>8, PlaceStep
  <2> QED BY <2>1
<1>10. Len(s) \in Nat
  BY <1>1, <1>5, PlaceFacts, LenProperties DEF Reads
<1>11. At(2, IsIdent) <=> IsIdent(ts[p + 2])
  BY <1>3, <1>9, <1>10 DEF At, Current
<1>12. CASE At(2, IsIdent)
  <2>1. /\ decl' = d0 /\ pc' = "body" /\ source' = source /\ decls' = decls
        /\ streams' = <<SubSeq(s, 2 + 1, Len(s))>> \o Tail(streams)
    BY <1>3, <1>12 DEF BeginType, Fail, Consume, Current, First
  <2>2. streams' = <<SubSeq(s, 2 + 1, Len(s))>>
    BY <1>2, <2>1, OneStream
  <2>3. BodyFrom(ts, p + 2, d0, ds[1], ok, j = Len(source))
    BY <1>5, <1>7, <1>9, <1>11, <1>12 DEF TypeItem
  <2>4. d0.kind = "struct" \/ d0 = EnumDecl(s[2].text, <<>>)
    BY DEF EnumDecl
  <2> HIDE DEF d0
  <2>5. InBody(source, decls, d0, streams')
    BY <1>5, <1>9, <2>2, <2>3, <2>4 DEF InBody
  <2> QED BY <1>1, <2>1, <2>5 DEF IInv
<1>13. CASE ~At(2, IsIdent)
  <2>1. Fail
    BY <1>13 DEF BeginType
  <2>2. ~ok
    BY <1>7, <1>11, <1>13 DEF TypeItem
  <2> QED BY <1>5, <2>1, <2>2, StepFail DEF Expect
<1> QED BY <1>12, <1>13

\* type, and a name, which is all of an alias.
LEMMA StepTypeAlias == ASSUME IInv, TypeAlias PROVE IInv'
<1>1. /\ IsFile(source) /\ Begins(source, decls) /\ Top(source, decls, streams)
      /\ Head(streams) # <<>> /\ Head(Head(streams)) = Ident("type") /\ pc = "top"
  BY DEF IInv, TypeAlias, Current, More, First
<1>2. PICK s : streams = <<s>> /\ AtTop(source, decls, s)
  BY <1>1 DEF Top
<1>3. Head(streams) = s /\ s # <<>> /\ Head(s) = Ident("type")
  BY <1>1, <1>2, OneStream
<1>4. Head(s) \in Keywords
  BY <1>3, KeywordFacts
<1>5. PICK j, p, ds, ok :
        /\ Place(source, j, p, s) /\ p < Len(source[j].tokens) /\ Head(s) = source[j].tokens[p + 1]
        /\ Expect(source, j, decls, ds, ok) /\ Expect(source, j, decls, <<ds[1]>>, ok)
        /\ \/ TypeItem(source[j].tokens, p, ds, ok, j = Len(source))
           \/ AliasItem(source[j].tokens, p, ds, ok)
           \/ FunctionItem(source[j].tokens, p, ds, ok, j = Len(source))
  BY <1>1, <1>2, <1>3, <1>4, AtKeyword
<1> DEFINE ts == source[j].tokens
           d == [kind |-> "alias", name |-> s[2].text]
<1>6. Len(ts) \in Nat /\ p \in Nat /\ j \in 0 .. Len(source)
  BY <1>1, <1>5, PlaceFacts
<1>7. AliasItem(ts, p, ds, ok)
  <2>1. ~TypeItem(ts, p, ds, ok, j = Len(source))
    BY <1>3, <1>5, KeywordFacts DEF TypeItem
  <2>2. ~FunctionItem(ts, p, ds, ok, j = Len(source))
    <3> SUFFICES ASSUME FunctionItem(ts, p, ds, ok, j = Len(source)) PROVE FALSE
      OBVIOUS
    <3>1. PICK n \in 1 .. 4 : \A i \in p + 1 .. p + n : ts[i] \in Modifiers
      BY DEF FunctionItem
    <3>2. ts[p + 1] \in Modifiers
      BY <1>6, <3>1
    <3> QED BY <1>3, <1>5, <3>2, KeywordFacts
  <2> QED BY <1>5, <2>1, <2>2
<1>8. p + 2 <= Len(ts)
  BY <1>7 DEF AliasItem
<1>9. /\ Place(source, j, p + 2, SubSeq(s, 2 + 1, Len(s)))
      /\ 2 <= Len(s) /\ s[2] = ts[p + 2]
  <2>1. /\ Place(source, j, p + 2, SubSeq(s, 2 + 1, Len(s)))
        /\ 2 <= Len(s) /\ \A i \in 1 .. 2 : s[i] = ts[p + i]
    BY <1>1, <1>5, <1>8, PlaceStep
  <2> QED BY <2>1
<1>10. Len(s) \in Nat
  BY <1>1, <1>5, PlaceFacts, LenProperties DEF Reads
<1>11. At(2, IsIdent) <=> IsIdent(ts[p + 2])
  BY <1>3, <1>9, <1>10 DEF At, Current
<1>12. CASE At(2, IsIdent)
  <2>1. /\ decls' = Append(decls, d) /\ pc' = pc /\ source' = source
        /\ streams' = <<SubSeq(s, 2 + 1, Len(s))>> \o Tail(streams)
    BY <1>3, <1>12 DEF TypeAlias, Fail, Consume, Current, First, Record
  <2>2. streams' = <<SubSeq(s, 2 + 1, Len(s))>>
    BY <1>2, <2>1, OneStream
  <2>3. ok /\ ds = <<d>> /\ NoKeyword(ts, p + 2)
    BY <1>7, <1>9, <1>11, <1>12 DEF AliasItem
  <2> HIDE DEF d
  <2>4. /\ Append(decls, d) \in Seq(Readable(source)) /\ Begins(source, Append(decls, d))
        /\ Expect(source, j, Append(decls, d), <<>>, TRUE)
    <3>1. Expect(source, j, decls, <<d>>, TRUE)
      BY <1>5, <2>3 DEF Expect
    <3> QED BY <1>1, <1>6, <3>1, ExpectRecord DEF Begins
  <2>5. AtTop(source, Append(decls, d), SubSeq(s, 2 + 1, Len(s)))
    BY <1>1, <1>9, <2>3, <2>4, LandAtEnd
  <2> QED BY <1>1, <2>1, <2>2, <2>4, <2>5 DEF IInv, Top
<1>13. CASE ~At(2, IsIdent)
  <2>1. Fail
    BY <1>13 DEF TypeAlias
  <2>2. ~ok
    BY <1>7, <1>11, <1>13 DEF AliasItem
  <2> QED BY <1>5, <2>1, <2>2, StepFail DEF Expect
<1> QED BY <1>12, <1>13

\* A group of fields is entered at its start.
LEMMA OpenFields ==
  ASSUME NEW src, NEW ds, NEW d, NEW ss, NEW ts \in Seq(Token), NEW os, Stack(ss, ts, os),
         \/ IsFields(ts) /\ Caller(src, ds, d, os, FieldsOf(ts), TRUE)
         \/ StuckFields(ts) /\ \A fs : Caller(src, ds, d, os, fs, FALSE)
  PROVE  InFields(src, ds, d, <<>>, ss)
<1>1. \E n, cut, ok :
        Fields(ts, n, cut, ok) /\ Caller(src, ds, d, os, CutFields(ts, n, cut), ok)
  <2>1. CASE IsFields(ts) /\ Caller(src, ds, d, os, FieldsOf(ts), TRUE)
    <3>1. PICK n, cut : Fields(ts, n, cut, TRUE) /\ FieldsOf(ts) = CutFields(ts, n, cut)
      BY <2>1, FieldsExist
    <3> QED BY <2>1, <3>1
  <2>2. CASE StuckFields(ts) /\ \A fs : Caller(src, ds, d, os, fs, FALSE)
    <3>1. PICK n, cut : Fields(ts, n, cut, FALSE)
      BY <2>2, FieldsExist
    <3> QED BY <2>2, <3>1
  <2> QED BY <2>1, <2>2
<1>2. PICK n, cut, ok :
        Fields(ts, n, cut, ok) /\ Caller(src, ds, d, os, CutFields(ts, n, cut), ok)
  BY <1>1
<1>3. FieldsAt(ts, n, cut, 0, 0, <<>>)
  BY <1>2, FieldsStart
<1>4. ts = From(ts, 0, <<>>)
  BY FromStart
<1>5. 0 \in 0 .. Len(ts)
  <2>1. Len(ts) \in Nat
    BY LenProperties
  <2> QED BY <2>1
<1> QED BY <1>2, <1>3, <1>4, <1>5 DEF InFields

\* The stream of a group in a stream of tokens is one.
LEMMA TokenStream ==
  ASSUME NEW ts \in Seq(Token), NEW i \in 1 .. Len(ts), NEW D, IsGroup(ts[i], D)
  PROVE  ts[i].stream \in Seq(Token)
<1>1. ts[i] \in Token
  BY ElementOfSeq
<1> QED BY <1>1, TokenAssumption DEF IsGroup

\* The body of a struct or enum, or a token before it.
LEMMA StepBody == ASSUME IInv, Body PROVE IInv'
<1>1. /\ IsFile(source) /\ Begins(source, decls) /\ InBody(source, decls, decl, streams)
      /\ pc = "body"
  BY DEF IInv, Body
<1>2. PICK s, j, p, d, ok :
        /\ streams = <<s>> /\ Place(source, j, p, s)
        /\ decl.kind = "struct" \/ \E nm : decl = EnumDecl(nm, <<>>)
        /\ BodyFrom(source[j].tokens, p, decl, d, ok, j = Len(source))
        /\ Expect(source, j, decls, <<d>>, ok)
  BY <1>1 DEF InBody
<1> DEFINE ts == source[j].tokens
           s1 == SubSeq(s, 1 + 1, Len(s))
<1>3. Head(streams) = s
  BY <1>2, OneStream
<1>4. /\ Len(ts) \in Nat /\ p \in Nat /\ p <= Len(ts) /\ Reads(s, ts, p, TokensAfter(source, j))
      /\ ts \in Seq(Token) /\ j \in 0 .. Len(source)
  BY <1>1, <1>2, PlaceFacts
<1>5. p < Len(ts) => /\ s # <<>> /\ Head(s) = ts[p + 1]
                     /\ Place(source, j, p + 1, s1)
  <2> SUFFICES ASSUME p < Len(ts)
               PROVE  /\ s # <<>> /\ Head(s) = ts[p + 1]
                      /\ Place(source, j, p + 1, s1)
    OBVIOUS
  <2>1. p + 1 <= Len(ts)
    BY <1>4
  <2>2. Place(source, j, p + 1, s1)
    BY <1>1, <1>2, <2>1, PlaceStep
  <2>3. s # <<>> /\ Head(s) = ts[p + 1]
    BY <1>4 DEF Reads
  <2> QED BY <2>2, <2>3
<1>6. p = Len(ts) => s = <<>> /\ ~ok
  <2> SUFFICES ASSUME p = Len(ts) PROVE s = <<>> /\ ~ok
    OBVIOUS
  <2>1. ~ok /\ j = Len(source)
    BY <1>2, <1>4 DEF BodyFrom
  <2>2. s = TokensAfter(source, j)
    BY <1>4 DEF Reads
  <2>3. TokensAfter(source, j) = <<>>
    BY <1>1, <1>4, <2>1, AfterFacts
  <2> QED BY <2>1, <2>2, <2>3
<1>7. CASE s = <<>>
  <2>1. Fail
    BY <1>3, <1>7 DEF Body, More, Current
  <2>2. ~ok
    BY <1>4, <1>5, <1>6, <1>7
  <2> QED BY <1>2, <2>1, <2>2, StepFail DEF Expect
<1>8. CASE s # <<>> /\ ~IsGroup(Head(s), {"brace"})
  <2>1. p < Len(ts)
    BY <1>4, <1>6, <1>8
  <2>2. /\ pc' = pc /\ source' = source /\ decls' = decls /\ decl' = decl
        /\ streams' = <<s1>> \o Tail(streams)
    BY <1>3, <1>8 DEF Body, Consume, Current, More, First
  <2>3. streams' = <<s1>>
    BY <1>2, <2>2, OneStream
  <2>4. ~IsBrace(ts[p + 1])
    BY <1>5, <1>8, <2>1 DEF IsBrace
  <2>5. BodyFrom(ts, p + 1, decl, d, ok, j = Len(source))
    <3> HIDE DEF ts
    <3>1. BodyFrom(ts, p, decl, d, ok, j = Len(source))
      BY <1>2 DEF ts
    <3>2. CASE ~ok /\ j = Len(source) /\ \A i \in p + 1 .. Len(ts) : ~IsBrace(ts[i])
      <4>1. \A i \in p + 1 + 1 .. Len(ts) : ~IsBrace(ts[i])
        BY <1>4, <3>2
      <4> QED BY <3>2, <4>1 DEF BodyFrom
    <3>3. CASE \E b \in p + 1 .. Len(ts) :
               /\ IsBrace(ts[b]) /\ \A i \in p + 1 .. b - 1 : ~IsBrace(ts[i])
               /\ \/ /\ ok /\ decl.kind = "struct"
                     /\ IsFields(ts[b].stream)
                     /\ d = [decl EXCEPT !.fields = FieldsOf(ts[b].stream)]
                     /\ NoKeyword(ts, b)
                  \/ ~ok /\ decl.kind = "struct" /\ StuckFields(ts[b].stream)
                  \/ /\ ok /\ decl.kind = "enum"
                     /\ d = [decl EXCEPT !.variants = d.variants]
                     /\ AreVariantsOf(ts[b].stream, d.variants)
                     /\ NoKeyword(ts, b)
                  \/ ~ok /\ decl.kind = "enum" /\ StuckVariants(ts[b].stream)
      <4>1. PICK b \in p + 1 .. Len(ts) :
               /\ IsBrace(ts[b]) /\ \A i \in p + 1 .. b - 1 : ~IsBrace(ts[i])
               /\ \/ /\ ok /\ decl.kind = "struct"
                     /\ IsFields(ts[b].stream)
                     /\ d = [decl EXCEPT !.fields = FieldsOf(ts[b].stream)]
                     /\ NoKeyword(ts, b)
                  \/ ~ok /\ decl.kind = "struct" /\ StuckFields(ts[b].stream)
                  \/ /\ ok /\ decl.kind = "enum"
                     /\ d = [decl EXCEPT !.variants = d.variants]
                     /\ AreVariantsOf(ts[b].stream, d.variants)
                     /\ NoKeyword(ts, b)
                  \/ ~ok /\ decl.kind = "enum" /\ StuckVariants(ts[b].stream)
        BY <3>3
      <4>2. b # p + 1
        BY <2>4, <4>1
      <4>3. b \in p + 1 + 1 .. Len(ts) /\ \A i \in p + 1 + 1 .. b - 1 : ~IsBrace(ts[i])
        BY <1>4, <4>1, <4>2
      <4> QED BY <4>1, <4>3 DEF BodyFrom
    <3> QED BY <3>1, <3>2, <3>3 DEF BodyFrom
  <2>6. InBody(source, decls, decl, streams')
    BY <1>2, <1>5, <2>1, <2>3, <2>5 DEF InBody
  <2> QED BY <1>1, <2>2, <2>6 DEF IInv
<1>9. CASE s # <<>> /\ IsGroup(Head(s), {"brace"})
  <2>1. p < Len(ts)
    BY <1>4, <1>6, <1>9
  <2> DEFINE t == ts[p + 1]
             g == t.stream
  <2>2. /\ pc' = IF decl.kind = "struct" THEN "fields" ELSE "variants"
        /\ source' = source /\ decls' = decls /\ decl' = decl /\ fields' = <<>>
        /\ streams' = <<Head(s).stream, s1>> \o Tail(streams)
    BY <1>3, <1>9 DEF Body, Enter, Current, More, First
  <2>3. Head(s) = t /\ IsBrace(t) /\ streams' = <<g, s1>>
    <3>1. Head(s) = t
      BY <1>5, <2>1
    <3>2. IsBrace(t)
      BY <1>9, <3>1 DEF IsBrace
    <3>3. streams' = <<g, s1>> \o Tail(streams)
      BY <2>2, <3>1
    <3> QED BY <1>2, <3>1, <3>2, <3>3, OneStream
  <2>4. g \in Seq(Token)
    <3>1. p + 1 \in 1 .. Len(ts)
      BY <1>4, <2>1
    <3>2. IsGroup(t, {"brace"})
      BY <2>3 DEF IsBrace
    <3> QED BY <1>4, <3>1, <3>2, TokenStream
  <2>5. \/ /\ ok /\ decl.kind = "struct" /\ IsFields(g)
           /\ d = [decl EXCEPT !.fields = FieldsOf(g)] /\ NoKeyword(ts, p + 1)
        \/ ~ok /\ decl.kind = "struct" /\ StuckFields(g)
        \/ /\ ok /\ decl.kind = "enum" /\ d = [decl EXCEPT !.variants = d.variants]
           /\ AreVariantsOf(g, d.variants) /\ NoKeyword(ts, p + 1)
        \/ ~ok /\ decl.kind = "enum" /\ StuckVariants(g)
    <3> HIDE DEF ts
    <3>1. BodyFrom(ts, p, decl, d, ok, j = Len(source))
      BY <1>2 DEF ts
    <3>2. ~ \A i \in p + 1 .. Len(ts) : ~IsBrace(ts[i])
      BY <1>4, <2>1, <2>3
    <3>3. PICK b \in p + 1 .. Len(ts) :
               /\ IsBrace(ts[b]) /\ \A i \in p + 1 .. b - 1 : ~IsBrace(ts[i])
               /\ \/ /\ ok /\ decl.kind = "struct"
                     /\ IsFields(ts[b].stream)
                     /\ d = [decl EXCEPT !.fields = FieldsOf(ts[b].stream)]
                     /\ NoKeyword(ts, b)
                  \/ ~ok /\ decl.kind = "struct" /\ StuckFields(ts[b].stream)
                  \/ /\ ok /\ decl.kind = "enum"
                     /\ d = [decl EXCEPT !.variants = d.variants]
                     /\ AreVariantsOf(ts[b].stream, d.variants)
                     /\ NoKeyword(ts, b)
                  \/ ~ok /\ decl.kind = "enum" /\ StuckVariants(ts[b].stream)
      BY <3>1, <3>2 DEF BodyFrom
    <3>4. b = p + 1
      BY <1>4, <2>1, <2>3, <3>3
    <3> QED BY <3>3, <3>4
  <2> HIDE DEF t, g, s1, ts
  <2>6. Place(source, j, p + 1, s1)
    BY <1>5, <2>1
  <2>7. CASE decl.kind = "struct"
    <3>1. \/ IsFields(g) /\ OfStruct(source, decls, decl, <<s1>>, FieldsOf(g), TRUE)
          \/ StuckFields(g) /\ \A fs : OfStruct(source, decls, decl, <<s1>>, fs, FALSE)
      <4>1. CASE ok
        <5>1. /\ IsFields(g) /\ d = [decl EXCEPT !.fields = FieldsOf(g)]
              /\ NoKeyword(source[j].tokens, p + 1)
          BY <2>5, <2>7, <4>1 DEF ts
        <5>2. Expect(source, j, decls, <<d>>, TRUE)
          BY <1>2, <4>1 DEF Expect
        <5> QED BY <2>6, <2>7, <5>1, <5>2 DEF OfStruct
      <4>2. CASE ~ok
        <5>1. StuckFields(g) /\ Refuses(source)
          BY <1>2, <2>5, <2>7, <4>2 DEF Expect
        <5> QED BY <2>6, <2>7, <5>1 DEF OfStruct
      <4> QED BY <4>1, <4>2
    <3>2. Stack(streams', g, <<s1>>)
      BY <2>3 DEF Stack
    <3>3. InFields(source, decls, decl, <<>>, streams')
      BY <2>4, <3>1, <3>2, OpenFields DEF Caller
    <3> QED BY <1>1, <2>2, <2>7, <3>3 DEF IInv
  <2>8. CASE decl.kind # "struct"
    <3>1. PICK nm : decl = EnumDecl(nm, <<>>)
      BY <1>2, <2>8
    <3>2. \E n, cut, okv : EnumOf(source, decls, nm, s1, g, n, cut, okv)
      <4>1. CASE ok
        <5>1. /\ AreVariantsOf(g, d.variants) /\ d = [decl EXCEPT !.variants = d.variants]
              /\ NoKeyword(source[j].tokens, p + 1)
          BY <2>5, <2>8, <4>1 DEF ts
        <5>2. d = EnumDecl(nm, d.variants)
          <6>1. [EnumDecl(nm, <<>>) EXCEPT !.variants = d.variants] = EnumDecl(nm, d.variants)
            BY DEF EnumDecl
          <6> QED BY <3>1, <5>1, <6>1
        <5>3. PICK n, cut : Variants(g, n, cut, TRUE) /\ d.variants = CutVariants(g, n, cut)
          BY <2>4, <5>1, VariantsExist
        <5>4. Expect(source, j, decls, <<EnumDecl(nm, CutVariants(g, n, cut))>>, TRUE)
          BY <1>2, <4>1, <5>2, <5>3 DEF Expect
        <5> QED BY <2>4, <2>6, <5>1, <5>3, <5>4 DEF EnumOf
      <4>2. CASE ~ok
        <5>1. StuckVariants(g) /\ Refuses(source)
          BY <1>2, <2>5, <2>8, <4>2 DEF Expect
        <5>2. PICK n, cut : Variants(g, n, cut, FALSE)
          BY <2>4, <5>1, VariantsExist
        <5>3. EnumOf(source, decls, nm, s1, g, n, cut, FALSE)
          BY <2>4, <2>6, <5>1, <5>2 DEF EnumOf
        <5> QED BY <5>3
      <4> QED BY <4>1, <4>2
    <3>3. PICK n, cut, okv : EnumOf(source, decls, nm, s1, g, n, cut, okv)
      BY <3>2
    <3>4. VariantsAt(g, n, cut, 0, 0, <<>>)
      BY <2>4, <3>3, VariantsStart DEF EnumOf
    <3>5. g = From(g, 0, <<>>) /\ 0 \in 0 .. Len(g)
      <4>1. Len(g) \in Nat
        BY <2>4, LenProperties
      <4> QED BY <2>4, <4>1, FromStart
    <3>6. InVariants(source, decls, decl, streams')
      BY <2>3, <3>1, <3>3, <3>4, <3>5 DEF InVariants
    <3> QED BY <1>1, <2>2, <2>8, <3>6 DEF IInv
  <2> QED BY <2>7, <2>8
<1> QED BY <1>7, <1>8, <1>9

\* The innermost of the streams is taken from, or is replaced.
LEMMA StackStep ==
  ASSUME NEW ss, NEW g, NEW os, Stack(ss, g, os), NEW x
  PROVE  Head(ss) = g /\ Stack(<<x>> \o Tail(ss), x, os)
<1>1. CASE \E o : ss = <<g, o>> /\ os = <<o>>
  <2>1. PICK o : ss = <<g, o>> /\ os = <<o>>
    BY <1>1
  <2>2. Head(<<g, o>>) = g /\ <<x>> \o Tail(<<g, o>>) = <<x, o>>
    BY TwoStreams
  <2>3. Head(ss) = g /\ <<x>> \o Tail(ss) = <<x, o>>
    BY <2>1, <2>2
  <2> QED BY <2>1, <2>3 DEF Stack
<1>2. CASE \E v, o : ss = <<g, v, o>> /\ os = <<v, o>>
  <2>1. PICK v, o : ss = <<g, v, o>> /\ os = <<v, o>>
    BY <1>2
  <2>2. Head(<<g, v, o>>) = g /\ <<x>> \o Tail(<<g, v, o>>) = <<x, v, o>>
    BY ThreeStreams
  <2>3. Head(ss) = g /\ <<x>> \o Tail(ss) = <<x, v, o>>
    BY <2>1, <2>2
  <2> QED BY <2>1, <2>3 DEF Stack
<1> QED BY <1>1, <1>2 DEF Stack

\* The stream of a group: what is left of it, and n tokens on.
Inner(s, ts, p) ==
  /\ Len(ts) \in Nat /\ p \in Nat /\ p <= Len(ts)
  /\ s = <<>> <=> p = Len(ts)
  /\ p < Len(ts) => Head(s) = ts[p + 1] /\ Tail(s) = From(ts, p + 1, <<>>)
  /\ Len(s) = Len(ts) - p
  /\ \A n \in Nat : n > 0 /\ p + n <= Len(ts) => s[n] = ts[p + n]
  /\ \A n \in Nat : p + n <= Len(ts) =>
       SubSeq(s, n + 1, Len(s)) = From(ts, p + n, <<>>) /\ p + n \in 0 .. Len(ts)

\* Inner holds of a stream that is a group's from p on.
LEMMA InnerFacts ==
  ASSUME NEW ts \in Seq(Token), NEW p \in 0 .. Len(ts)
  PROVE  Inner(From(ts, p, <<>>), ts, p)
<1> DEFINE s == From(ts, p, <<>>)
<1>1. Len(ts) \in Nat /\ p \in Nat /\ p <= Len(ts) /\ <<>> \in Seq(Token) /\ Len(<<>>) = 0
  BY LenProperties, EmptySeq
<1>2. Reads(s, ts, p, <<>>)
  BY <1>1, FromReads
<1> HIDE DEF s
<1>3. /\ Len(s) = Len(ts) - p
      /\ (p < Len(ts) => s # <<>> /\ Head(s) = ts[p + 1]) /\ (p = Len(ts) => s = <<>>)
  BY <1>1, <1>2 DEF Reads
<1>4. \A n \in Nat : n > 0 /\ p + n <= Len(ts) => s[n] = ts[p + n]
  BY <1>1, <1>2 DEF Reads
<1>5. ASSUME NEW n \in Nat, p + n <= Len(ts)
      PROVE  SubSeq(s, n + 1, Len(s)) = From(ts, p + n, <<>>) /\ p + n \in 0 .. Len(ts)
  <2>1. n \in 0 .. Len(ts) - p /\ p + n \in 0 .. Len(ts)
    BY <1>1, <1>5
  <2> QED BY <1>2, <2>1 DEF Reads
<1>6. p < Len(ts) => Tail(s) = From(ts, p + 1, <<>>)
  <2> SUFFICES ASSUME p < Len(ts) PROVE Tail(s) = From(ts, p + 1, <<>>)
    OBVIOUS
  <2>1. s \in Seq(Token) /\ s # <<>>
    BY <1>2 DEF Reads
  <2>2. Tail(s) = SubSeq(s, 2, Len(s))
    BY <2>1, TailIsSubSeq
  <2>3. 1 \in Nat /\ p + 1 <= Len(ts) /\ 1 + 1 = 2
    BY <1>1
  <2>4. SubSeq(s, 1 + 1, Len(s)) = From(ts, p + 1, <<>>)
    BY <1>5, <2>3
  <2> QED BY <2>2, <2>3, <2>4, Zenon
<1>7. Inner(s, ts, p)
  BY <1>1, <1>3, <1>4, <1>5, <1>6 DEF Inner
<1> QED BY <1>7 DEF s

\* A token between two fields.
LEMMA StepSkipInFields == ASSUME IInv, SkipInFields PROVE IInv'
<1>1. /\ IsFile(source) /\ Begins(source, decls)
      /\ InFields(source, decls, decl, fields, streams)
      /\ pc = "fields" /\ pc' = pc /\ source' = source /\ decls' = decls /\ decl' = decl
      /\ fields' = fields
      /\ Head(streams) # <<>> /\ ~IsIdent(Head(Head(streams)))
      /\ streams' = <<SubSeq(Head(streams), 1 + 1, Len(Head(streams)))>> \o Tail(streams)
  BY DEF IInv, SkipInFields, Current, More, First, Consume
<1>2. PICK g, os, ts, n, cut, ok, k, p :
    /\ Stack(streams, g, os) /\ Caller(source, decls, decl, os, CutFields(ts, n, cut), ok)
    /\ ts \in Seq(Token) /\ g = From(ts, p, <<>>) /\ p \in 0 .. Len(ts)
    /\ Fields(ts, n, cut, ok) /\ FieldsAt(ts, n, cut, k, p, fields)
  BY <1>1 DEF InFields
<1> DEFINE s1 == SubSeq(g, 1 + 1, Len(g))
<1>3. Head(streams) = g /\ Inner(g, ts, p)
  BY <1>2, StackStep, InnerFacts
<1>4. p < Len(ts) /\ ~IsIdent(ts[p + 1]) /\ s1 = From(ts, p + 1, <<>>) /\ p + 1 \in 0 .. Len(ts)
  <2>1. p < Len(ts) /\ ~IsIdent(ts[p + 1]) /\ p + 1 <= Len(ts)
    BY <1>1, <1>3 DEF Inner
  <2> QED BY <1>3, <2>1 DEF Inner
<1> HIDE DEF s1
<1>5. Stack(streams', s1, os)
  <2>1. streams' = <<s1>> \o Tail(streams)
    BY <1>1, <1>3 DEF s1
  <2> QED BY <1>2, <2>1, StackStep
<1>6. FieldsAt(ts, n, cut, k, p + 1, fields)
  BY <1>2, <1>4, FieldsSkip
<1>7. InFields(source, decls, decl, fields, streams')
  BY <1>2, <1>4, <1>5, <1>6 DEF InFields
<1> QED BY <1>1, <1>7 DEF IInv

\* A parser that stops in fields is one that was to stop there.
LEMMA CallerRefuses ==
  ASSUME NEW src, NEW ds, NEW d, NEW os, NEW fs, NEW ok, ~ok, Caller(src, ds, d, os, fs, ok)
  PROVE  Refuses(src)
<1>1. CASE OfStruct(src, ds, d, os, fs, ok)
  BY <1>1 DEF OfStruct
<1>2. CASE OfVariant(src, ds, d, os, fs, ok)
  BY <1>2 DEF OfVariant
<1>3. CASE OfFn(src, ds, d, os, fs, ok)
  BY <1>3 DEF OfFn
<1> QED BY <1>1, <1>2, <1>3 DEF Caller

\* The name of a field, and its colon.
LEMMA StepFieldName == ASSUME IInv, FieldName PROVE IInv'
<1>1. /\ IsFile(source) /\ Begins(source, decls)
      /\ InFields(source, decls, decl, fields, streams)
      /\ pc = "fields" /\ Head(streams) # <<>> /\ IsIdent(Head(Head(streams)))
  BY DEF IInv, FieldName, Current, More, First
<1>2. PICK g, os, ts, n, cut, ok, k, p :
    /\ Stack(streams, g, os) /\ Caller(source, decls, decl, os, CutFields(ts, n, cut), ok)
    /\ ts \in Seq(Token) /\ g = From(ts, p, <<>>) /\ p \in 0 .. Len(ts)
    /\ Fields(ts, n, cut, ok) /\ FieldsAt(ts, n, cut, k, p, fields)
  BY <1>1 DEF InFields
<1> DEFINE s1 == SubSeq(g, 2 + 1, Len(g))
           f == [name |-> ts[p + 1].text, ty |-> <<>>]
<1>3. Head(streams) = g /\ Inner(g, ts, p)
  BY <1>2, StackStep, InnerFacts
<1>4. p < Len(ts) /\ IsIdent(ts[p + 1]) /\ Head(g) = ts[p + 1] /\ Len(ts) \in Nat /\ p \in Nat
      /\ Len(g) = Len(ts) - p
  BY <1>1, <1>3 DEF Inner
<1>5. At(2, IsColon) <=> HasColon(ts, p + 1)
  <2>1. At(2, IsColon) <=> Len(g) >= 2 /\ IsColon(g[2])
    BY <1>3 DEF At, Current
  <2>2. Len(g) >= 2 <=> p + 1 < Len(ts)
    BY <1>4
  <2>3. p + 1 < Len(ts) => g[2] = ts[p + 1 + 1]
    <3>1. p + 1 < Len(ts) => p + 2 <= Len(ts) /\ p + 2 = p + 1 + 1
      BY <1>4
    <3>2. p + 2 <= Len(ts) => g[2] = ts[p + 2]
      BY <1>3 DEF Inner
    <3> QED BY <3>1, <3>2
  <2> QED BY <2>1, <2>2, <2>3 DEF HasColon
<1>6. CASE At(2, IsColon)
  <2>1. /\ field' = f /\ pc' = "type" /\ source' = source /\ decls' = decls
        /\ decl' = decl /\ fields' = fields
        /\ streams' = <<s1>> \o Tail(streams)
    BY <1>3, <1>4, <1>6 DEF FieldName, Fail, Consume, Current, First
  <2>2. TypeAt(ts, n, cut, k, p + 2, fields, f)
    BY <1>2, <1>4, <1>5, <1>6, FieldsName
  <2> HIDE DEF f, s1
  <2>3. s1 = From(ts, p + 2, <<>>) /\ p + 2 \in 0 .. Len(ts)
    <3>0. HasColon(ts, p + 1)
      BY <1>5, <1>6
    <3>1. p + 2 <= Len(ts)
      BY <1>4, <3>0 DEF HasColon
    <3> QED BY <1>3, <3>1 DEF Inner, s1
  <2>4. Stack(streams', s1, os)
    BY <1>2, <2>1, StackStep
  <2>5. InType(source, decls, decl, fields, f, streams')
    BY <1>2, <2>2, <2>3, <2>4 DEF InType
  <2> QED BY <1>1, <2>1, <2>5 DEF IInv
<1>7. CASE ~At(2, IsColon)
  <2>1. Fail
    BY <1>7 DEF FieldName
  <2>2. ~ok
    BY <1>2, <1>4, <1>5, <1>7, FieldsName
  <2>3. Refuses(source)
    BY <1>2, <2>2, CallerRefuses
  <2> QED BY <2>1, <2>3, StepFail
<1> QED BY <1>6, <1>7

\* A token of a type, or its end.
LEMMA StepFieldType == ASSUME IInv, FieldType PROVE IInv'
<1>1. /\ IsFile(source) /\ Begins(source, decls)
      /\ InType(source, decls, decl, fields, field, streams)
      /\ pc = "type" /\ source' = source /\ decl' = decl /\ decls' = decls
  BY DEF IInv, FieldType
<1>2. PICK g, os, ts, n, cut, ok, k, p :
    /\ Stack(streams, g, os) /\ Caller(source, decls, decl, os, CutFields(ts, n, cut), ok)
    /\ ts \in Seq(Token) /\ g = From(ts, p, <<>>) /\ p \in 0 .. Len(ts)
    /\ Fields(ts, n, cut, ok) /\ TypeAt(ts, n, cut, k, p, fields, field)
  BY <1>1 DEF InType
<1>3. Head(streams) = g /\ Inner(g, ts, p)
  BY <1>2, StackStep, InnerFacts
<1>4. /\ Len(ts) \in Nat /\ p \in Nat /\ p <= Len(ts) /\ (g = <<>> <=> p = Len(ts))
      /\ p < Len(ts) => Head(g) = ts[p + 1]
  BY <1>3 DEF Inner
<1> DEFINE Next1(m) == SubSeq(g, m + 1, Len(g))
<1>5. ASSUME NEW m \in Nat, p + m <= Len(ts)
      PROVE  Next1(m) = From(ts, p + m, <<>>) /\ p + m \in 0 .. Len(ts)
  BY <1>3, <1>5 DEF Inner
<1>6. CASE g # <<>> /\ Head(g) # Comma
  <2>1. /\ field' = [field EXCEPT !.ty = PushText(@, ts[p + 1])]
        /\ pc' = pc /\ fields' = fields
        /\ streams' = <<Next1(1)>> \o Tail(streams)
    <3>1. /\ field' = [field EXCEPT !.ty = PushText(@, Head(g))]
          /\ pc' = pc /\ fields' = fields
          /\ streams' = <<Next1(1)>> \o Tail(streams)
      BY <1>3, <1>6 DEF FieldType, Consume, Current, More, First, Comma
    <3>2. Head(g) = ts[p + 1]
      BY <1>4, <1>6
    <3> QED BY <3>1, <3>2
  <2> HIDE DEF Next1
  <2>2. p < Len(ts) /\ ts[p + 1] # Comma
    BY <1>4, <1>6
  <2>3. TypeAt(ts, n, cut, k, p + 1, fields, field')
    BY <1>2, <2>1, <2>2, TypeMore
  <2>4. Next1(1) = From(ts, p + 1, <<>>) /\ p + 1 \in 0 .. Len(ts)
    BY <1>4, <1>5, <2>2
  <2>5. Stack(streams', Next1(1), os)
    BY <1>2, <2>1, StackStep
  <2>6. InType(source, decls, decl, fields, field', streams')
    BY <1>2, <2>3, <2>4, <2>5 DEF InType
  <2> QED BY <1>1, <2>1, <2>6 DEF IInv
<1>7. CASE g # <<>> => Head(g) = Comma
  <2> DEFINE m == IF p < Len(ts) THEN 1 ELSE 0
  <2>1. /\ fields' = Append(fields, field) /\ pc' = "fields"
        /\ streams' = <<Next1(m)>> \o Tail(streams)
    <3>1. /\ fields' = Append(fields, field) /\ pc' = "fields"
          /\ streams' = <<Next1(IF g # <<>> THEN 1 ELSE 0)>> \o Tail(streams)
      BY <1>3, <1>7 DEF FieldType, Consume, Current, More, First, Comma
    <3>2. g # <<>> <=> p < Len(ts)
      BY <1>4
    <3> QED BY <3>1, <3>2
  <2> HIDE DEF Next1
  <2>2. FieldsAt(ts, n, cut, k + 1, IF p < Len(ts) THEN p + 1 ELSE p, Append(fields, field))
    <3>1. p < Len(ts) => ts[p + 1] = Comma
      BY <1>4, <1>7
    <3> QED BY <1>2, <3>1, TypeFinish
  <2>3. m \in Nat /\ p + m <= Len(ts) /\ p + m = IF p < Len(ts) THEN p + 1 ELSE p
    BY <1>4
  <2> HIDE DEF m
  <2>4. Next1(m) = From(ts, p + m, <<>>) /\ p + m \in 0 .. Len(ts)
    BY <1>5, <2>3
  <2>5. Stack(streams', Next1(m), os)
    BY <1>2, <2>1, StackStep
  <2>6. FieldsAt(ts, n, cut, k + 1, p + m, fields')
    BY <2>1, <2>2, <2>3
  <2>7. InFields(source, decls, decl, fields', streams')
    BY <1>2, <2>4, <2>5, <2>6 DEF InFields
  <2> QED BY <1>1, <2>1, <2>7 DEF IInv
<1> QED BY <1>6, <1>7

\* Setting the arguments or the return type of a function.
LEMMA FnSet ==
  ASSUME NEW d, IsFn(d), NEW a
  PROVE  /\ IsFn([d EXCEPT !.args = a]) /\ IsFn([d EXCEPT !.ret = a])
         /\ [d EXCEPT !.ret = a].ret = a
         /\ \A b : [[d EXCEPT !.ret = a] EXCEPT !.ret = b] = [d EXCEPT !.ret = b]
BY DEF IsFn

\* The end of the fields: back to the struct, the variant or the function.
LEMMA StepFieldsEnd == ASSUME IInv, FieldsEnd PROVE IInv'
<1>1. /\ IsFile(source) /\ Begins(source, decls)
      /\ InFields(source, decls, decl, fields, streams)
      /\ pc = "fields" /\ source' = source /\ Head(streams) = <<>>
  BY DEF IInv, FieldsEnd, Current, More
<1>2. PICK g, os, ts, n, cut, ok, k, p :
    /\ Stack(streams, g, os) /\ Caller(source, decls, decl, os, CutFields(ts, n, cut), ok)
    /\ ts \in Seq(Token) /\ g = From(ts, p, <<>>) /\ p \in 0 .. Len(ts)
    /\ Fields(ts, n, cut, ok) /\ FieldsAt(ts, n, cut, k, p, fields)
  BY <1>1 DEF InFields
<1>3. Head(streams) = g /\ Inner(g, ts, p)
  BY <1>2, StackStep, InnerFacts
<1>4. p = Len(ts)
  BY <1>1, <1>3 DEF Inner
<1>5. ok /\ fields = CutFields(ts, n, cut)
  BY <1>2, <1>4, FieldsFinish
<1>6. CASE OfStruct(source, decls, decl, os, fields, ok)
  <2>1. PICK o, j, q :
          /\ decl.kind = "struct" /\ os = <<o>> /\ Place(source, j, q, o)
          /\ NoKeyword(source[j].tokens, q)
          /\ Expect(source, j, decls, <<[decl EXCEPT !.fields = fields]>>, TRUE)
    BY <1>5, <1>6 DEF OfStruct
  <2> DEFINE d == [decl EXCEPT !.fields = fields]
  <2>2. decls' = Append(decls, d) /\ pc' = "top" /\ streams' = Tail(streams)
    BY <2>1 DEF FieldsEnd, Record
  <2>3. Expect(source, j, decls, <<d>>, TRUE)
    BY <2>1
  <2> HIDE DEF d
  <2>4. streams' = <<o>>
    <3>1. PICK w : streams = <<g, w>> /\ os = <<w>>
      BY <1>2, <2>1 DEF Stack
    <3>2. w = o
      BY <2>1, <3>1
    <3> QED BY <2>2, <3>1, <3>2, TwoStreams
  <2>5. j \in 0 .. Len(source)
    BY <1>1, <2>1, PlaceFacts
  <2>6. /\ Append(decls, d) \in Seq(Readable(source)) /\ Begins(source, Append(decls, d))
        /\ Expect(source, j, Append(decls, d), <<>>, TRUE)
    BY <1>1, <2>3, <2>5, ExpectRecord DEF Begins
  <2>7. AtTop(source, Append(decls, d), o)
    BY <1>1, <2>1, <2>6, LandAtEnd
  <2> QED BY <1>1, <2>2, <2>4, <2>6, <2>7 DEF IInv, Top
<1>7. CASE OfVariant(source, decls, decl, os, fields, ok)
  <2>1. PICK v, o, nm, vts, vn, vcut, okv, vk, q, x :
          /\ os = <<v, o>> /\ EnumOf(source, decls, nm, o, vts, vn, vcut, okv)
          /\ v = From(vts, q, <<>>) /\ q \in 0 .. Len(vts) /\ vk \in Nat
          /\ decl = EnumDecl(nm, Append(CutVariants(vts, vk, vcut), [name |-> x, fields |-> <<>>]))
          /\ IF ok
             THEN VariantsAt(vts, vn, vcut, vk + 1, PastComma(vts, q),
                    Append(CutVariants(vts, vk, vcut), [name |-> x, fields |-> fields]))
             ELSE Refuses(source)
    BY <1>7, Zenon DEF OfVariant
  <2> DEFINE vs == Append(CutVariants(vts, vk, vcut), [name |-> x, fields |-> <<>>])
             ws == Append(CutVariants(vts, vk, vcut), [name |-> x, fields |-> fields])
  <2>2. decl.kind = "enum" /\ decl.variants = vs
    BY <2>1 DEF EnumDecl
  <2>3. /\ decl' = [decl EXCEPT !.variants[Len(decl.variants)].fields = fields]
        /\ pc' = "variants" /\ decls' = decls
        /\ streams' = <<SkipComma(streams[2])>> \o SubSeq(streams, 3, Len(streams))
    BY <2>2 DEF FieldsEnd
  <2>4. SetLast(vs, fields) = ws
    BY <2>1, VariantFieldsSet
  <2>5. decl' = EnumDecl(nm, ws)
    <3> HIDE DEF vs, ws
    <3>1. decl' = [decl EXCEPT !.variants = SetLast(vs, fields)]
      BY <2>2, <2>3 DEF SetLast
    <3>2. decl = EnumDecl(nm, vs)
      BY <2>1 DEF vs
    <3>3. [EnumDecl(nm, vs) EXCEPT !.variants = ws] = EnumDecl(nm, ws)
      BY DEF EnumDecl
    <3> QED BY <2>4, <3>1, <3>2, <3>3
  <2>6. streams = <<g, v, o>>
    <3>1. PICK w, u : streams = <<g, w, u>> /\ os = <<w, u>>
      BY <1>2, <2>1 DEF Stack
    <3>2. w = v /\ u = o
      BY <2>1, <3>1
    <3> QED BY <3>1, <3>2
  <2>7. streams' = <<SkipComma(v), o>>
    <3>1. streams[2] = v /\ <<SkipComma(v)>> \o SubSeq(streams, 3, Len(streams)) = <<SkipComma(v), o>>
      BY <2>6, LeaveThreeStreams
    <3> QED BY <2>3, <3>1
  <2>8. SkipComma(v) = From(vts, PastComma(vts, q), <<>>) /\ PastComma(vts, q) \in 0 .. Len(vts)
    BY <2>1, SkipCommaIs DEF EnumOf
  <2> HIDE DEF ws
  <2>9. InVariants(source, decls, decl', streams')
    <3>1. VariantsAt(vts, vn, vcut, vk + 1, PastComma(vts, q), ws)
      BY <1>5, <2>1 DEF ws
    <3> QED BY <2>1, <2>5, <2>7, <2>8, <3>1 DEF InVariants
  <2> QED BY <1>1, <2>3, <2>9 DEF IInv
<1>8. CASE OfFn(source, decls, decl, os, fields, ok)
  <2>1. PICK o, j, q, dd, okr :
          /\ IsFn(decl) /\ os = <<o>> /\ Place(source, j, q, o)
          /\ ResultFrom(source[j].tokens, q, [decl EXCEPT !.args = fields], dd, okr, j = Len(source))
          /\ Expect(source, j, decls, <<dd>>, okr)
    BY <1>5, <1>8 DEF OfFn
  <2>2. decl.kind = "fn"
    BY <2>1 DEF IsFn
  <2>3. /\ decl' = [decl EXCEPT !.args = fields] /\ pc' = "signature" /\ decls' = decls
        /\ streams' = Tail(streams)
    BY <2>2 DEF FieldsEnd
  <2>4. streams' = <<o>>
    <3>1. PICK w : streams = <<g, w>> /\ os = <<w>>
      BY <1>2, <2>1 DEF Stack
    <3>2. w = o
      BY <2>1, <3>1
    <3> QED BY <2>3, <3>1, <3>2, TwoStreams
  <2>5. IsFn(decl')
    BY <2>1, <2>3, FnSet
  <2>6. ResultFrom(source[j].tokens, q, decl', dd, okr, j = Len(source))
    BY <2>1, <2>3
  <2>7. InSignature(source, decls, decl', streams')
    BY <2>1, <2>4, <2>5, <2>6 DEF InSignature
  <2> QED BY <1>1, <2>3, <2>7 DEF IInv
<1> QED BY <1>2, <1>5, <1>6, <1>7, <1>8 DEF Caller

\* What the four steps in variants have in common.
LEMMA VariantsHere ==
  ASSUME IInv, pc = "variants"
  PROVE  \E s, o, nm, vts, n, cut, ok, k, p, vs :
           /\ IsFile(source) /\ Begins(source, decls)
           /\ streams = <<s, o>> /\ EnumOf(source, decls, nm, o, vts, n, cut, ok)
           /\ s = From(vts, p, <<>>) /\ p \in 0 .. Len(vts)
           /\ VariantsAt(vts, n, cut, k, p, vs) /\ decl = EnumDecl(nm, vs)
           /\ Head(streams) = s /\ Inner(s, vts, p) /\ vts \in Seq(Token)
           /\ Variants(vts, n, cut, ok) /\ k \in Nat /\ vs = CutVariants(vts, k, cut)
<1>1. IsFile(source) /\ Begins(source, decls) /\ InVariants(source, decls, decl, streams)
  BY DEF IInv
<1>2. PICK s, o, nm, vts, n, cut, ok, k, p, vs :
    /\ streams = <<s, o>> /\ EnumOf(source, decls, nm, o, vts, n, cut, ok)
    /\ s = From(vts, p, <<>>) /\ p \in 0 .. Len(vts)
    /\ VariantsAt(vts, n, cut, k, p, vs) /\ decl = EnumDecl(nm, vs)
  BY <1>1 DEF InVariants
<1>3. vts \in Seq(Token) /\ Variants(vts, n, cut, ok)
  BY <1>2 DEF EnumOf
<1>4. Head(streams) = s /\ Inner(s, vts, p)
  BY <1>2, <1>3, TwoStreams, InnerFacts
<1>5. k \in Nat /\ vs = CutVariants(vts, k, cut)
  <2>1. k \in 0 .. n /\ vs = CutVariants(vts, k, cut)
    BY <1>2 DEF VariantsAt
  <2> QED BY <1>3, <2>1, VariantCutsType
<1> QED BY <1>1, <1>2, <1>3, <1>4, <1>5

\* A token between two variants.
LEMMA StepSkipInVariants == ASSUME IInv, SkipInVariants PROVE IInv'
<1>1. /\ pc = "variants" /\ pc' = pc /\ source' = source /\ decls' = decls /\ decl' = decl
      /\ Head(streams) # <<>> /\ ~IsIdent(Head(Head(streams)))
      /\ streams' = <<SubSeq(Head(streams), 1 + 1, Len(Head(streams)))>> \o Tail(streams)
  BY DEF SkipInVariants, Current, More, First, Consume
<1>2. PICK s, o, nm, vts, n, cut, ok, k, p, vs :
        /\ IsFile(source) /\ Begins(source, decls)
        /\ streams = <<s, o>> /\ EnumOf(source, decls, nm, o, vts, n, cut, ok)
        /\ s = From(vts, p, <<>>) /\ p \in 0 .. Len(vts)
        /\ VariantsAt(vts, n, cut, k, p, vs) /\ decl = EnumDecl(nm, vs)
        /\ Head(streams) = s /\ Inner(s, vts, p) /\ vts \in Seq(Token)
        /\ Variants(vts, n, cut, ok) /\ k \in Nat /\ vs = CutVariants(vts, k, cut)
  BY <1>1, VariantsHere
<1> DEFINE s1 == SubSeq(s, 1 + 1, Len(s))
<1>3. p < Len(vts) /\ ~IsIdent(vts[p + 1]) /\ p + 1 <= Len(vts)
  BY <1>1, <1>2 DEF Inner
<1>4. s1 = From(vts, p + 1, <<>>) /\ p + 1 \in 0 .. Len(vts)
  BY <1>2, <1>3 DEF Inner
<1> HIDE DEF s1
<1>5. streams' = <<s1, o>>
  <2>1. streams' = <<s1>> \o Tail(streams)
    BY <1>1, <1>2 DEF s1
  <2>2. <<s1>> \o Tail(<<s, o>>) = <<s1, o>>
    BY TwoStreams
  <2> QED BY <1>2, <2>1, <2>2
<1>6. VariantsAt(vts, n, cut, k, p + 1, vs)
  BY <1>2, <1>3, VariantsSkip
<1>7. InVariants(source, decls, decl, streams')
  BY <1>2, <1>4, <1>5, <1>6 DEF InVariants
<1> QED BY <1>1, <1>2, <1>7 DEF IInv

\* The end of the body of an enum, which is recorded.
LEMMA StepVariantsEnd == ASSUME IInv, VariantsEnd PROVE IInv'
<1>1. /\ pc = "variants" /\ pc' = "top" /\ source' = source /\ decls' = Append(decls, decl)
      /\ Head(streams) = <<>> /\ streams' = Tail(streams)
  BY DEF VariantsEnd, Current, More, Record
<1>2. PICK s, o, nm, vts, n, cut, ok, k, p, vs :
        /\ IsFile(source) /\ Begins(source, decls)
        /\ streams = <<s, o>> /\ EnumOf(source, decls, nm, o, vts, n, cut, ok)
        /\ s = From(vts, p, <<>>) /\ p \in 0 .. Len(vts)
        /\ VariantsAt(vts, n, cut, k, p, vs) /\ decl = EnumDecl(nm, vs)
        /\ Head(streams) = s /\ Inner(s, vts, p) /\ vts \in Seq(Token)
        /\ Variants(vts, n, cut, ok) /\ k \in Nat /\ vs = CutVariants(vts, k, cut)
  BY <1>1, VariantsHere
<1>3. p = Len(vts)
  BY <1>1, <1>2 DEF Inner
<1>4. ok /\ vs = CutVariants(vts, n, cut)
  BY <1>2, <1>3, VariantsFinish
<1>5. PICK j, q : /\ Place(source, j, q, o) /\ NoKeyword(source[j].tokens, q)
                  /\ Expect(source, j, decls, <<decl>>, TRUE)
  BY <1>2, <1>4 DEF EnumOf
<1>6. j \in 0 .. Len(source)
  BY <1>2, <1>5, PlaceFacts
<1>7. /\ Append(decls, decl) \in Seq(Readable(source)) /\ Begins(source, Append(decls, decl))
      /\ Expect(source, j, Append(decls, decl), <<>>, TRUE)
  BY <1>2, <1>5, <1>6, ExpectRecord DEF Begins
<1>8. AtTop(source, Append(decls, decl), o)
  BY <1>2, <1>5, <1>7, LandAtEnd
<1>9. streams' = <<o>>
  BY <1>1, <1>2, TwoStreams
<1> QED BY <1>1, <1>2, <1>7, <1>8, <1>9 DEF IInv, Top

\* At(2, IsPayload) is what HasPayload says of the name's position.
LEMMA PayloadNext ==
  ASSUME NEW s, NEW ts, NEW p, Inner(s, ts, p), Head(streams) = s, p < Len(ts)
  PROVE  /\ At(2, IsPayload) <=> HasPayload(ts, p + 1)
         /\ HasPayload(ts, p + 1) => /\ p + 2 <= Len(ts) /\ Current[2].stream = Payload(ts, p + 1)
<1>1. Len(ts) \in Nat /\ p \in Nat /\ Len(s) = Len(ts) - p
  BY DEF Inner
<1>2. p + 1 < Len(ts) <=> p + 2 <= Len(ts)
  BY <1>1
<1>3. p + 2 <= Len(ts) => s[2] = ts[p + 1 + 1]
  <2>1. p + 2 = p + 1 + 1
    BY <1>1
  <2>2. p + 2 <= Len(ts) => s[2] = ts[p + 2]
    BY DEF Inner
  <2> QED BY <2>1, <2>2
<1>4. Len(s) >= 2 <=> p + 2 <= Len(ts)
  BY <1>1
<1> QED BY <1>2, <1>3, <1>4 DEF At, Current, HasPayload, Payload

\* A variant without a payload, and its comma.
LEMMA StepUnitVariant == ASSUME IInv, UnitVariant PROVE IInv'
<1>1. /\ pc = "variants" /\ pc' = pc /\ source' = source /\ decls' = decls
      /\ decl' = [decl EXCEPT !.variants = Append(@, [name |-> Head(Head(streams)).text, fields |-> <<>>])]
      /\ Head(streams) # <<>> /\ IsIdent(Head(Head(streams))) /\ ~At(2, IsPayload)
      /\ streams' = <<SkipComma(Tail(Head(streams)))>> \o Tail(streams)
  BY DEF UnitVariant, Current, More, First, NewVariant
<1>2. PICK s, o, nm, vts, n, cut, ok, k, p, vs :
        /\ IsFile(source) /\ Begins(source, decls)
        /\ streams = <<s, o>> /\ EnumOf(source, decls, nm, o, vts, n, cut, ok)
        /\ s = From(vts, p, <<>>) /\ p \in 0 .. Len(vts)
        /\ VariantsAt(vts, n, cut, k, p, vs) /\ decl = EnumDecl(nm, vs)
        /\ Head(streams) = s /\ Inner(s, vts, p) /\ vts \in Seq(Token)
        /\ Variants(vts, n, cut, ok) /\ k \in Nat /\ vs = CutVariants(vts, k, cut)
  BY <1>1, VariantsHere
<1> DEFINE q == PastComma(vts, p + 1)
           ws == Append(vs, [name |-> vts[p + 1].text, fields |-> <<>>])
<1>3. /\ p < Len(vts) /\ IsIdent(vts[p + 1]) /\ Head(s) = vts[p + 1]
      /\ Tail(s) = From(vts, p + 1, <<>>) /\ p + 1 \in 0 .. Len(vts)
  BY <1>1, <1>2 DEF Inner
<1>4. SkipComma(Tail(s)) = From(vts, q, <<>>) /\ q \in 0 .. Len(vts)
  BY <1>2, <1>3, SkipCommaIs
<1>5. ~HasPayload(vts, p + 1)
  BY <1>1, <1>2, <1>3, PayloadNext
<1>6. VariantsAt(vts, n, cut, k + 1, q, ws)
  BY <1>2, <1>3, <1>5, VariantName
<1> HIDE DEF q, ws
<1>7. streams' = <<SkipComma(Tail(s)), o>>
  <2>1. <<SkipComma(Tail(s))>> \o Tail(<<s, o>>) = <<SkipComma(Tail(s)), o>>
    BY TwoStreams
  <2> QED BY <1>1, <1>2, <2>1
<1>8. decl' = EnumDecl(nm, ws)
  <2>1. decl' = [decl EXCEPT !.variants = Append(decl.variants, [name |-> vts[p + 1].text, fields |-> <<>>])]
    BY <1>1, <1>2, <1>3
  <2>2. decl.variants = vs
    BY <1>2 DEF EnumDecl
  <2>3. [EnumDecl(nm, vs) EXCEPT !.variants = ws] = EnumDecl(nm, ws)
    BY DEF EnumDecl
  <2> QED BY <1>2, <2>1, <2>2, <2>3 DEF ws
<1>9. InVariants(source, decls, decl', streams')
  BY <1>2, <1>4, <1>6, <1>7, <1>8 DEF InVariants
<1> QED BY <1>1, <1>2, <1>9 DEF IInv

\* A variant with a payload, which is entered.
LEMMA StepVariantFields == ASSUME IInv, VariantFields PROVE IInv'
<1>1. /\ pc = "variants" /\ pc' = "fields" /\ source' = source /\ decls' = decls
      /\ decl' = [decl EXCEPT !.variants = Append(@, [name |-> Head(Head(streams)).text, fields |-> <<>>])]
      /\ Head(streams) # <<>> /\ IsIdent(Head(Head(streams))) /\ At(2, IsPayload)
      /\ fields' = <<>>
      /\ streams' = <<Current[2].stream, SubSeq(Head(streams), 2 + 1, Len(Head(streams)))>> \o Tail(streams)
  BY DEF VariantFields, Current, More, First, NewVariant, Enter
<1>2. PICK s, o, nm, vts, n, cut, ok, k, p, vs :
        /\ IsFile(source) /\ Begins(source, decls)
        /\ streams = <<s, o>> /\ EnumOf(source, decls, nm, o, vts, n, cut, ok)
        /\ s = From(vts, p, <<>>) /\ p \in 0 .. Len(vts)
        /\ VariantsAt(vts, n, cut, k, p, vs) /\ decl = EnumDecl(nm, vs)
        /\ Head(streams) = s /\ Inner(s, vts, p) /\ vts \in Seq(Token)
        /\ Variants(vts, n, cut, ok) /\ k \in Nat /\ vs = CutVariants(vts, k, cut)
  BY <1>1, VariantsHere
<1> DEFINE s1 == SubSeq(s, 2 + 1, Len(s))
           x == vts[p + 1].text
           g == Payload(vts, p + 1)
           ws == Append(vs, [name |-> x, fields |-> <<>>])
<1>3. p < Len(vts) /\ IsIdent(vts[p + 1]) /\ Head(s) = vts[p + 1] /\ p \in Nat /\ Len(vts) \in Nat
  BY <1>1, <1>2 DEF Inner
<1>4. HasPayload(vts, p + 1) /\ p + 2 <= Len(vts) /\ Current[2].stream = g
  BY <1>1, <1>2, <1>3, PayloadNext
<1>5. s1 = From(vts, p + 2, <<>>) /\ p + 2 \in 0 .. Len(vts)
  BY <1>2, <1>4 DEF Inner
<1>6. g \in Seq(Token)
  <2>1. p + 1 + 1 \in 1 .. Len(vts)
    BY <1>3, <1>4
  <2>2. IsGroup(vts[p + 1 + 1], {"paren", "brace"})
    BY <1>4 DEF HasPayload, IsPayload
  <2> QED BY <1>2, <2>1, <2>2, TokenStream DEF Payload
<1>7. \/ /\ IsFields(g)
         /\ VariantsAt(vts, n, cut, k + 1, PastComma(vts, p + 2),
              Append(vs, [name |-> x, fields |-> FieldsOf(g)]))
      \/ ~ok /\ StuckFields(g)
  BY <1>2, <1>3, <1>4, VariantName
<1> HIDE DEF s1, x, g, ws
<1>8. streams' = <<g, s1, o>>
  <2>1. streams' = <<g, s1>> \o Tail(streams)
    BY <1>1, <1>2, <1>4 DEF s1
  <2>2. <<g, s1>> \o Tail(<<s, o>>) = <<g, s1, o>>
    BY EnterTwoStreams
  <2> QED BY <1>2, <2>1, <2>2
<1>9. decl' = EnumDecl(nm, ws)
  <2>1. decl' = [decl EXCEPT !.variants = Append(decl.variants, [name |-> x, fields |-> <<>>])]
    BY <1>1, <1>2, <1>3 DEF x
  <2>2. decl.variants = vs
    BY <1>2 DEF EnumDecl
  <2>3. [EnumDecl(nm, vs) EXCEPT !.variants = ws] = EnumDecl(nm, ws)
    BY DEF EnumDecl
  <2> QED BY <1>2, <2>1, <2>2, <2>3 DEF ws
<1>10. Stack(streams', g, <<s1, o>>)
  BY <1>8 DEF Stack
<1>11. \/ IsFields(g) /\ OfVariant(source, decls, decl', <<s1, o>>, FieldsOf(g), TRUE)
       \/ StuckFields(g) /\ \A fs : OfVariant(source, decls, decl', <<s1, o>>, fs, FALSE)
  <2>1. decl' = EnumDecl(nm, Append(CutVariants(vts, k, cut), [name |-> x, fields |-> <<>>]))
    BY <1>2, <1>9 DEF ws
  <2>2. CASE IsFields(g) /\ VariantsAt(vts, n, cut, k + 1, PastComma(vts, p + 2),
                              Append(vs, [name |-> x, fields |-> FieldsOf(g)]))
    BY <1>2, <1>5, <2>1, <2>2 DEF OfVariant
  <2>3. CASE ~ok /\ StuckFields(g)
    <3>1. Refuses(source)
      BY <1>2, <2>3 DEF EnumOf
    <3> QED BY <1>2, <1>5, <2>1, <2>3, <3>1 DEF OfVariant
  <2> QED BY <1>7, <2>2, <2>3
<1>12. InFields(source, decls, decl', <<>>, streams')
  BY <1>6, <1>10, <1>11, OpenFields DEF Caller
<1> QED BY <1>1, <1>2, <1>12 DEF IInv

-----------------------------------------------------------------------------
(* Signatures.                                                             *)

\* A signature from p on, before or behind its arguments.
Signature(ts, p, d0, d, ok, last) ==
  SignatureFrom(ts, p, d0, d, ok, last) \/ ResultFrom(ts, p, d0, d, ok, last)

\* Arguments, an arrow and the end of a signature are different tokens.
LEMMA EndFacts ==
  ASSUME NEW t
  PROVE  /\ IsParen(t) => ~EndsSignature(t) /\ t # Punct("-") /\ ~IsPlain(t)
         /\ t = Punct("-") => ~IsParen(t) /\ ~EndsSignature(t) /\ ~IsPlain(t)
         /\ EndsSignature(t) => ~IsParen(t) /\ t # Punct("-") /\ ~IsPlain(t)
<1>1. /\ Punct("-").kind = "punct" /\ Punct(";").kind = "punct"
      /\ Punct("-").text = "-" /\ Punct(";").text = ";"
  BY DEF Punct
<1>2. Punct("-") # Punct(";")
  BY <1>1
<1>3. IsParen(t) => t.kind = "group" /\ t.delimiter = "paren"
  BY DEF IsParen, IsGroup
<1>4. EndsSignature(t) => (t.kind = "group" /\ t.delimiter = "brace") \/ t = Punct(";")
  BY DEF EndsSignature, IsGroup
<1>5. IsParen(t) => t # Punct("-") /\ t # Punct(";")
  BY <1>1, <1>3
<1>6. IsParen(t) => ~EndsSignature(t)
  BY <1>3, <1>4, <1>5
<1>7. EndsSignature(t) => t # Punct("-")
  BY <1>1, <1>2, <1>4
<1> QED BY <1>5, <1>6, <1>7 DEF IsPlain

\* A signature may only stop without an end at the end of the file.
LEMMA SignatureAtEnd ==
  ASSUME NEW ts, NEW p, Len(ts) \in Nat, p = Len(ts), NEW d0, NEW d, NEW ok, NEW last,
         Signature(ts, p, d0, d, ok, last)
  PROVE  ok /\ last /\ d = d0
<1>1. ~SignatureFrom(ts, p, d0, d, ok, last)
  <2>1. p + 1 .. Len(ts) = {}
    OBVIOUS
  <2> QED BY <2>1 DEF SignatureFrom
<1>2. PICK q \in p + 1 .. Len(ts) + 1 :
        \/ ok /\ IsEnd(ts, q, last) /\ d = d0
        \/ q < Len(ts)
  BY <1>1 DEF Signature, ResultFrom
<1>3. q = Len(ts) + 1
  BY <1>2
<1> QED BY <1>2, <1>3 DEF IsEnd

\* What the next token of a signature says of the rest.
LEMMA SignatureAt ==
  ASSUME NEW ts, NEW p \in Nat, Len(ts) \in Nat, p < Len(ts),
         NEW d0, NEW d, NEW ok, NEW last, Signature(ts, p, d0, d, ok, last)
  PROVE  /\ IsParen(ts[p + 1]) =>
              \/ /\ IsFields(ts[p + 1].stream)
                 /\ ResultFrom(ts, p + 1, [d0 EXCEPT !.args = FieldsOf(ts[p + 1].stream)], d, ok, last)
              \/ ~ok /\ StuckFields(ts[p + 1].stream)
         /\ ts[p + 1] = Punct("-") =>
              /\ p + 1 < Len(ts)
              /\ \/ ok /\ IsAngle(ts[p + 1 + 1]) /\ ReturnFrom(ts, p + 1 + 1, d0, d, last)
                 \/ ~ok /\ ~IsAngle(ts[p + 1 + 1])
         /\ EndsSignature(ts[p + 1]) => ok /\ d = d0 /\ NoKeyword(ts, p + 1)
         /\ IsPlain(ts[p + 1]) => Signature(ts, p + 1, d0, d, ok, last)
<1> DEFINE t == ts[p + 1]
<1>1. CASE SignatureFrom(ts, p, d0, d, ok, last)
  <2>1. PICK g \in p + 1 .. Len(ts) :
          /\ IsParen(ts[g]) /\ \A i \in p + 1 .. g - 1 : IsPlain(ts[i])
          /\ \/ /\ IsFields(ts[g].stream)
                /\ ResultFrom(ts, g, [d0 EXCEPT !.args = FieldsOf(ts[g].stream)], d, ok, last)
             \/ ~ok /\ StuckFields(ts[g].stream)
    BY <1>1 DEF SignatureFrom
  <2>2. g # p + 1 => IsPlain(t)
    BY <2>1
  <2>3. ~IsPlain(t) => g = p + 1 /\ IsParen(t)
    BY <2>1, <2>2
  <2>4. IsPlain(t) => SignatureFrom(ts, p + 1, d0, d, ok, last)
    <3> SUFFICES ASSUME IsPlain(t) PROVE SignatureFrom(ts, p + 1, d0, d, ok, last)
      OBVIOUS
    <3>1. g # p + 1
      BY <2>1, EndFacts
    <3>2. g \in p + 1 + 1 .. Len(ts) /\ \A i \in p + 1 + 1 .. g - 1 : IsPlain(ts[i])
      BY <2>1, <3>1
    <3> QED BY <2>1, <3>2 DEF SignatureFrom
  <2>5. IsParen(t) => g = p + 1
    BY <2>3, EndFacts
  <2>6. ~EndsSignature(t) /\ t # Punct("-")
    <3>1. CASE IsPlain(t)
      BY <3>1, EndFacts
    <3>2. CASE ~IsPlain(t)
      BY <2>3, <3>2, EndFacts
    <3> QED BY <3>1, <3>2
  <2> QED BY <2>1, <2>4, <2>5, <2>6 DEF Signature
<1>2. CASE ResultFrom(ts, p, d0, d, ok, last)
  <2>1. PICK q \in p + 1 .. Len(ts) + 1 :
          /\ \A i \in p + 1 .. q - 1 : IsPlain(ts[i])
          /\ \/ ok /\ IsEnd(ts, q, last) /\ d = d0
             \/ /\ q < Len(ts) /\ ts[q] = Punct("-")
                /\ \/ ok /\ IsAngle(ts[q + 1]) /\ ReturnFrom(ts, q + 1, d0, d, last)
                   \/ ~ok /\ ~IsAngle(ts[q + 1])
    BY <1>2 DEF ResultFrom
  <2>2. q # p + 1 => IsPlain(t)
    BY <2>1
  <2>3. q = p + 1 => EndsSignature(t) \/ t = Punct("-")
    BY <2>1 DEF IsEnd
  <2>4. IsPlain(t) => ResultFrom(ts, p + 1, d0, d, ok, last)
    <3> SUFFICES ASSUME IsPlain(t) PROVE ResultFrom(ts, p + 1, d0, d, ok, last)
      OBVIOUS
    <3>1. q # p + 1
      BY <2>3, EndFacts
    <3>2. q \in p + 1 + 1 .. Len(ts) + 1 /\ \A i \in p + 1 + 1 .. q - 1 : IsPlain(ts[i])
      BY <2>1, <3>1
    <3> QED BY <2>1, <3>2 DEF ResultFrom
  <2>5. ~IsParen(t)
    BY <2>2, <2>3, EndFacts DEF IsPlain
  <2>6. EndsSignature(t) \/ t = Punct("-") => q = p + 1
    BY <2>2, EndFacts
  <2>7. EndsSignature(t) => ok /\ d = d0 /\ NoKeyword(ts, p + 1)
    BY <2>1, <2>6, EndFacts DEF IsEnd
  <2>8. t = Punct("-") =>
              /\ p + 1 < Len(ts)
              /\ \/ ok /\ IsAngle(ts[p + 1 + 1]) /\ ReturnFrom(ts, p + 1 + 1, d0, d, last)
                 \/ ~ok /\ ~IsAngle(ts[p + 1 + 1])
    <3> SUFFICES ASSUME t = Punct("-")
                 PROVE  /\ p + 1 < Len(ts)
                        /\ \/ ok /\ IsAngle(ts[p + 1 + 1]) /\ ReturnFrom(ts, p + 1 + 1, d0, d, last)
                           \/ ~ok /\ ~IsAngle(ts[p + 1 + 1])
      OBVIOUS
    <3>1. q = p + 1
      BY <2>6
    <3>2. ~IsEnd(ts, q, last)
      BY <3>1, EndFacts DEF IsEnd
    <3> QED BY <2>1, <3>1, <3>2
  <2> QED BY <2>4, <2>5, <2>7, <2>8 DEF Signature
<1> QED BY <1>1, <1>2 DEF Signature

\* The rest s of a file, as it is looked at.
Reading(src, j, p, s) ==
  /\ src[j].tokens \in Seq(Token) /\ Len(src[j].tokens) \in Nat
  /\ p \in Nat /\ p <= Len(src[j].tokens) /\ j \in 0 .. Len(src)
  /\ p < Len(src[j].tokens) => /\ s # <<>> /\ Head(s) = src[j].tokens[p + 1]
                               /\ Place(src, j, p + 1, SubSeq(s, 1 + 1, Len(s)))
  /\ p = Len(src[j].tokens) /\ j = Len(src) => s = <<>>

\* Reading holds of every place in a file.
LEMMA ReadingFacts ==
  ASSUME NEW src, IsFile(src), NEW j, NEW p, NEW s, Place(src, j, p, s)
  PROVE  Reading(src, j, p, s)
<1> DEFINE ts == src[j].tokens
<1>1. /\ ts \in Seq(Token) /\ Len(ts) \in Nat /\ p \in Nat /\ p <= Len(ts) /\ j \in 0 .. Len(src)
      /\ Reads(s, ts, p, TokensAfter(src, j))
  BY PlaceFacts
<1>2. p < Len(ts) => s # <<>> /\ Head(s) = ts[p + 1] /\ Place(src, j, p + 1, SubSeq(s, 1 + 1, Len(s)))
  <2> SUFFICES ASSUME p < Len(ts)
               PROVE  s # <<>> /\ Head(s) = ts[p + 1] /\ Place(src, j, p + 1, SubSeq(s, 1 + 1, Len(s)))
    OBVIOUS
  <2>1. p + 1 <= Len(ts)
    BY <1>1
  <2>2. Place(src, j, p + 1, SubSeq(s, 1 + 1, Len(s)))
    BY <2>1, PlaceStep
  <2>3. s # <<>> /\ Head(s) = ts[p + 1]
    BY <1>1 DEF Reads
  <2> QED BY <2>2, <2>3
<1>3. p = Len(ts) /\ j = Len(src) => s = <<>>
  <2> SUFFICES ASSUME p = Len(ts), j = Len(src) PROVE s = <<>>
    OBVIOUS
  <2>1. s = TokensAfter(src, j)
    BY <1>1 DEF Reads
  <2>2. TokensAfter(src, j) = <<>>
    BY <1>1, AfterFacts
  <2> QED BY <2>1, <2>2
<1> QED BY <1>1, <1>2, <1>3 DEF Reading

\* A token of a signature that says nothing.
LEMMA StepSkipInSignature == ASSUME IInv, SkipInSignature PROVE IInv'
<1>1. /\ IsFile(source) /\ Begins(source, decls)
      /\ InSignature(source, decls, decl, streams)
      /\ pc = "signature" /\ pc' = pc /\ source' = source /\ decls' = decls /\ decl' = decl
      /\ Head(streams) # <<>> /\ IsPlain(Head(Head(streams)))
      /\ streams' = <<SubSeq(Head(streams), 1 + 1, Len(Head(streams)))>> \o Tail(streams)
  BY DEF IInv, SkipInSignature, Current, More, First, Consume, IsPlain, IsParen
<1>2. PICK s, j, p, d, ok :
        /\ streams = <<s>> /\ Place(source, j, p, s) /\ IsFn(decl)
        /\ Signature(source[j].tokens, p, decl, d, ok, j = Len(source))
        /\ Expect(source, j, decls, <<d>>, ok)
  BY <1>1 DEF InSignature, Signature
<1> DEFINE ts == source[j].tokens
           s1 == SubSeq(s, 1 + 1, Len(s))
<1>3. Reading(source, j, p, s)
  BY <1>1, <1>2, ReadingFacts
<1>4. Head(streams) = s /\ <<s1>> \o Tail(streams) = <<s1>>
  BY <1>2, OneStream
<1>5. p # Len(ts)
  BY <1>1, <1>2, <1>3, <1>4, SignatureAtEnd DEF Reading
<1>6. Len(ts) \in Nat /\ p \in Nat /\ p < Len(ts)
  BY <1>3, <1>5 DEF Reading
<1>7. Signature(ts, p + 1, decl, d, ok, j = Len(source))
  <2>1. IsPlain(ts[p + 1])
    BY <1>1, <1>3, <1>4, <1>6 DEF Reading
  <2> QED BY <1>2, <1>6, <2>1, SignatureAt
<1>8. Place(source, j, p + 1, s1)
  BY <1>3, <1>6 DEF Reading
<1> HIDE DEF s1
<1>9. streams' = <<s1>>
  BY <1>1, <1>4 DEF s1
<1>10. InSignature(source, decls, decl, streams')
  BY <1>2, <1>7, <1>8, <1>9 DEF InSignature, Signature
<1> QED BY <1>1, <1>10 DEF IInv

\* The body, a semicolon or the end of the file: the function is recorded.
LEMMA StepSignatureEnd == ASSUME IInv, SignatureEnd PROVE IInv'
<1>1. /\ IsFile(source) /\ Begins(source, decls)
      /\ InSignature(source, decls, decl, streams)
      /\ pc = "signature" /\ pc' = "top" /\ source' = source /\ decls' = Append(decls, decl)
      /\ Head(streams) # <<>> => EndsSignature(Head(Head(streams)))
      /\ streams' = <<SubSeq(Head(streams), (IF Head(streams) # <<>> THEN 1 ELSE 0) + 1,
                             Len(Head(streams)))>> \o Tail(streams)
  BY DEF IInv, SignatureEnd, Current, More, First, Consume, Record
<1>2. PICK s, j, p, d, ok :
        /\ streams = <<s>> /\ Place(source, j, p, s) /\ IsFn(decl)
        /\ Signature(source[j].tokens, p, decl, d, ok, j = Len(source))
        /\ Expect(source, j, decls, <<d>>, ok)
  BY <1>1 DEF InSignature, Signature
<1> DEFINE ts == source[j].tokens
           n == IF p < Len(ts) THEN 1 ELSE 0
           s1 == SubSeq(s, n + 1, Len(s))
<1>3. Reading(source, j, p, s)
  BY <1>1, <1>2, ReadingFacts
<1>4. Head(streams) = s /\ <<s1>> \o Tail(streams) = <<s1>>
  BY <1>2, OneStream
<1>5. Len(ts) \in Nat /\ p \in Nat /\ p <= Len(ts) /\ n \in Nat /\ p + n <= Len(ts)
      /\ j \in 0 .. Len(source)
  BY <1>3 DEF Reading
<1>6. ok /\ d = decl /\ NoKeyword(ts, p + n) /\ (s # <<>> <=> p < Len(ts))
  <2>1. CASE p < Len(ts)
    <3>1. s # <<>> /\ EndsSignature(ts[p + 1])
      BY <1>1, <1>3, <1>4, <2>1 DEF Reading
    <3>2. ok /\ d = decl /\ NoKeyword(ts, p + 1)
      BY <1>2, <1>5, <2>1, <3>1, SignatureAt
    <3> QED BY <2>1, <3>1, <3>2
  <2>2. CASE ~(p < Len(ts))
    <3>1. n = 0 /\ p = Len(ts)
      BY <1>5, <2>2
    <3>2. ok /\ j = Len(source) /\ d = decl
      <4>1. Signature(ts, p, decl, d, ok, j = Len(source)) /\ Len(ts) \in Nat /\ p = Len(ts)
        BY <1>2, <1>5, <3>1
      <4> HIDE DEF ts
      <4>2. PICK last : last = (j = Len(source))
        OBVIOUS
      <4>3. Signature(ts, p, decl, d, ok, last)
        BY <4>1, <4>2
      <4>4. ok /\ last /\ d = decl
        BY <4>1, <4>3, SignatureAtEnd
      <4> QED BY <4>2, <4>4
    <3>3. s = <<>>
      BY <1>3, <3>1, <3>2 DEF Reading
    <3>4. NoKeyword(ts, p + n)
      <4> HIDE DEF ts, n
      <4>1. p + n + 1 .. Len(ts) = {}
        BY <1>5, <3>1
      <4> QED BY <4>1 DEF NoKeyword
    <3> QED BY <2>2, <3>2, <3>3, <3>4
  <2> QED BY <2>1, <2>2
<1>7. streams' = <<s1>>
  <2>1. streams' = <<SubSeq(s, (IF s # <<>> THEN 1 ELSE 0) + 1, Len(s))>> \o Tail(streams)
    BY <1>1, <1>4
  <2>2. (IF s # <<>> THEN 1 ELSE 0) = n
    BY <1>6
  <2> QED BY <1>4, <2>1, <2>2
<1>8. Place(source, j, p + n, s1)
  BY <1>1, <1>2, <1>5, PlaceStep
<1> HIDE DEF s1, n
<1>9. /\ Append(decls, decl) \in Seq(Readable(source)) /\ Begins(source, Append(decls, decl))
      /\ Expect(source, j, Append(decls, decl), <<>>, TRUE)
  <2>1. Expect(source, j, decls, <<decl>>, TRUE)
    BY <1>2, <1>6 DEF Expect
  <2> QED BY <1>1, <1>5, <2>1, ExpectRecord DEF Begins
<1>10. AtTop(source, Append(decls, decl), s1)
  BY <1>1, <1>6, <1>8, <1>9, LandAtEnd
<1> QED BY <1>1, <1>7, <1>9, <1>10 DEF IInv, Top

\* The arguments, which are entered.
LEMMA StepArguments == ASSUME IInv, Arguments PROVE IInv'
<1>1. /\ IsFile(source) /\ Begins(source, decls)
      /\ InSignature(source, decls, decl, streams)
      /\ pc' = "fields" /\ source' = source /\ decls' = decls /\ decl' = decl /\ fields' = <<>>
      /\ Head(streams) # <<>> /\ IsParen(Head(Head(streams)))
      /\ streams' = <<Head(Head(streams)).stream,
                      SubSeq(Head(streams), 1 + 1, Len(Head(streams)))>> \o Tail(streams)
  BY DEF IInv, Arguments, Current, More, First, Enter, IsParen
<1>2. PICK s, j, p, d, ok :
        /\ streams = <<s>> /\ Place(source, j, p, s) /\ IsFn(decl)
        /\ Signature(source[j].tokens, p, decl, d, ok, j = Len(source))
        /\ Expect(source, j, decls, <<d>>, ok)
  BY <1>1 DEF InSignature, Signature
<1> DEFINE ts == source[j].tokens
           g == ts[p + 1].stream
           s1 == SubSeq(s, 1 + 1, Len(s))
<1>3. Reading(source, j, p, s)
  BY <1>1, <1>2, ReadingFacts
<1>4. Head(streams) = s /\ <<g, s1>> \o Tail(streams) = <<g, s1>>
  BY <1>2, OneStream
<1>5. p # Len(ts)
  BY <1>1, <1>2, <1>3, <1>4, EndFacts, SignatureAtEnd DEF Reading
<1>6. Len(ts) \in Nat /\ p \in Nat /\ p < Len(ts) /\ Head(s) = ts[p + 1] /\ ts \in Seq(Token)
      /\ Place(source, j, p + 1, s1)
  BY <1>3, <1>5 DEF Reading
<1>7. IsParen(ts[p + 1]) /\ streams' = <<g, s1>>
  BY <1>1, <1>4, <1>6
<1>8. \/ /\ IsFields(g)
         /\ ResultFrom(ts, p + 1, [decl EXCEPT !.args = FieldsOf(g)], d, ok, j = Len(source))
      \/ ~ok /\ StuckFields(g)
  BY <1>2, <1>6, <1>7, SignatureAt
<1>9. g \in Seq(Token)
  <2>1. p + 1 \in 1 .. Len(ts)
    BY <1>6
  <2> QED BY <1>6, <1>7, <2>1, TokenStream DEF IsParen
<1> HIDE DEF g, s1
<1>10. \/ IsFields(g) /\ OfFn(source, decls, decl, <<s1>>, FieldsOf(g), TRUE)
       \/ StuckFields(g) /\ \A fs : OfFn(source, decls, decl, <<s1>>, fs, FALSE)
  <2>1. CASE IsFields(g)
             /\ ResultFrom(ts, p + 1, [decl EXCEPT !.args = FieldsOf(g)], d, ok, j = Len(source))
    BY <1>2, <1>6, <2>1 DEF OfFn
  <2>2. CASE ~ok /\ StuckFields(g)
    <3>1. Refuses(source)
      BY <1>2, <2>2 DEF Expect
    <3> QED BY <1>2, <1>6, <2>2, <3>1 DEF OfFn
  <2> QED BY <1>8, <2>1, <2>2
<1>11. Stack(streams', g, <<s1>>)
  BY <1>7 DEF Stack
<1>12. InFields(source, decls, decl, <<>>, streams')
  BY <1>9, <1>10, <1>11, OpenFields DEF Caller
<1> QED BY <1>1, <1>12 DEF IInv

\* The arrow of a return type.
LEMMA StepArrow == ASSUME IInv, Arrow PROVE IInv'
<1>1. /\ IsFile(source) /\ Begins(source, decls)
      /\ InSignature(source, decls, decl, streams)
      /\ Head(streams) # <<>> /\ Head(Head(streams)) = Punct("-")
  BY DEF IInv, Arrow, Current, More, First
<1>2. PICK s, j, p, d, ok :
        /\ streams = <<s>> /\ Place(source, j, p, s) /\ IsFn(decl)
        /\ Signature(source[j].tokens, p, decl, d, ok, j = Len(source))
        /\ Expect(source, j, decls, <<d>>, ok)
  BY <1>1 DEF InSignature, Signature
<1> DEFINE ts == source[j].tokens
           s2 == SubSeq(s, 2 + 1, Len(s))
<1>3. Reading(source, j, p, s)
  BY <1>1, <1>2, ReadingFacts
<1>4. Head(streams) = s /\ <<s2>> \o Tail(streams) = <<s2>>
  BY <1>2, OneStream
<1>5. p # Len(ts)
  BY <1>1, <1>2, <1>3, <1>4, SignatureAtEnd DEF Reading
<1>6. Len(ts) \in Nat /\ p \in Nat /\ p < Len(ts) /\ Head(s) = ts[p + 1] /\ ts \in Seq(Token)
  BY <1>3, <1>5 DEF Reading
<1>7. ts[p + 1] = Punct("-")
  BY <1>1, <1>4, <1>6
<1>8. /\ p + 1 < Len(ts)
      /\ \/ ok /\ IsAngle(ts[p + 1 + 1]) /\ ReturnFrom(ts, p + 1 + 1, decl, d, j = Len(source))
         \/ ~ok /\ ~IsAngle(ts[p + 1 + 1])
  <2>1. PICK last : last = (j = Len(source))
    OBVIOUS
  <2>2. Signature(ts, p, decl, d, ok, last)
    BY <1>2, <2>1
  <2>3. /\ p + 1 < Len(ts)
        /\ \/ ok /\ IsAngle(ts[p + 1 + 1]) /\ ReturnFrom(ts, p + 1 + 1, decl, d, last)
           \/ ~ok /\ ~IsAngle(ts[p + 1 + 1])
    BY <1>6, <1>7, <2>2, SignatureAt
  <2> QED BY <2>1, <2>3
<1>9. p + 1 + 1 = p + 2 /\ p + 2 <= Len(ts)
  BY <1>6, <1>8
<1>10. /\ Place(source, j, p + 2, s2) /\ 2 <= Len(s) /\ s[2] = ts[p + 2]
  <2>1. /\ Place(source, j, p + 2, s2) /\ 2 <= Len(s) /\ \A i \in 1 .. 2 : s[i] = ts[p + i]
    BY <1>1, <1>2, <1>9, PlaceStep
  <2> QED BY <2>1
<1>11. Len(s) \in Nat
  BY <1>1, <1>2, PlaceFacts, LenProperties DEF Reads
<1>12. At(2, IsAngle) <=> IsAngle(ts[p + 2])
  BY <1>4, <1>10, <1>11 DEF At, Current
<1>13. CASE At(2, IsAngle)
  <2>1. /\ decl' = [decl EXCEPT !.ret = <<>>] /\ pc' = "ret" /\ source' = source /\ decls' = decls
        /\ streams' = <<s2>> \o Tail(streams)
    BY <1>4, <1>13 DEF Arrow, Fail, Consume, Current
  <2>2. ok /\ ReturnFrom(ts, p + 2, decl, d, j = Len(source))
    BY <1>8, <1>9, <1>12, <1>13
  <2> HIDE DEF s2
  <2>3. SubSeq(ts, p + 2 + 1, p + 2) = <<>>
    <3>1. p + 2 + 1 \in Int /\ p + 2 \in Int /\ p + 2 + 1 > p + 2
      BY <1>6
    <3> QED BY <1>6, <3>1, SubSeqEmpty
  <2>4. p + 2 \in 0 .. p + 2 /\ \A i \in p + 2 + 1 .. p + 2 : ~EndsSignature(ts[i])
    BY <1>6
  <2>5. Expect(source, j, decls, <<d>>, TRUE)
    BY <1>2, <2>2 DEF Expect
  <2>6. decl' = [decl EXCEPT !.ret = SubSeq(ts, p + 2 + 1, p + 2)]
    BY <2>1, <2>3
  <2>7. streams' = <<s2>>
    BY <1>4, <2>1
  <2>8. InReturn(source, decls, decl', streams')
    BY <1>2, <1>10, <2>2, <2>4, <2>5, <2>6, <2>7 DEF InReturn
  <2> QED BY <1>1, <2>1, <2>8 DEF IInv
<1>14. CASE ~At(2, IsAngle)
  <2>1. Fail
    BY <1>14 DEF Arrow
  <2>2. ~ok
    BY <1>8, <1>9, <1>12, <1>14
  <2> QED BY <1>2, <2>1, <2>2, StepFail DEF Expect
<1> QED BY <1>13, <1>14

\* A token of a return type, or its end.
LEMMA StepReturnType == ASSUME IInv, ReturnType PROVE IInv'
<1>1. /\ IsFile(source) /\ Begins(source, decls)
      /\ InReturn(source, decls, decl, streams)
      /\ pc = "ret" /\ source' = source /\ decls' = decls
  BY DEF IInv, ReturnType
<1>2. PICK s, j, p, a, b, d :
        /\ streams = <<s>> /\ Place(source, j, p, s) /\ IsFn(b) /\ a \in 0 .. p
        /\ decl = [b EXCEPT !.ret = SubSeq(source[j].tokens, a + 1, p)]
        /\ \A i \in a + 1 .. p : ~EndsSignature(source[j].tokens[i])
        /\ ReturnFrom(source[j].tokens, a, b, d, j = Len(source))
        /\ Expect(source, j, decls, <<d>>, TRUE)
  BY <1>1 DEF InReturn
<1> DEFINE ts == source[j].tokens
           s1 == SubSeq(s, 1 + 1, Len(s))
           R(e) == SubSeq(ts, a + 1, e)
<1>3. Reading(source, j, p, s)
  BY <1>1, <1>2, ReadingFacts
<1>4. Head(streams) = s /\ <<s1>> \o Tail(streams) = <<s1>>
  BY <1>2, OneStream
<1>5. Len(ts) \in Nat /\ p \in Nat /\ p <= Len(ts) /\ a \in Nat /\ a <= p /\ ts \in Seq(Token)
  BY <1>2, <1>3 DEF Reading
<1>6. PICK e \in a + 1 .. Len(ts) + 1 :
        /\ IsEnd(ts, e, j = Len(source)) /\ \A i \in a + 1 .. e - 1 : ~EndsSignature(ts[i])
        /\ IsType(ts, a + 1, e - 1)
        /\ d = [b EXCEPT !.ret = R(e - 1)]
  BY <1>2 DEF ReturnFrom
<1>7. e \in p + 1 .. Len(ts) + 1
  <2> SUFFICES ASSUME e <= p PROVE FALSE
    BY <1>5, <1>6
  <2>1. e \in a + 1 .. p /\ e # Len(ts) + 1
    BY <1>5, <1>6
  <2>2. EndsSignature(ts[e])
    BY <1>6, <2>1 DEF IsEnd
  <2> QED BY <1>2, <2>1, <2>2
<1>8. decl = [b EXCEPT !.ret = R(p)]
  BY <1>2
<1>9. CASE s # <<>> /\ ~EndsSignature(Head(s))
  <2>1. /\ decl' = [decl EXCEPT !.ret = PushText(@, Head(s))]
        /\ pc' = pc /\ streams' = <<s1>> \o Tail(streams)
    BY <1>4, <1>9 DEF ReturnType, Consume, Current, First, More
  <2>2. p < Len(ts)
    <3> SUFFICES ASSUME p = Len(ts) PROVE FALSE
      BY <1>5
    <3>1. e = Len(ts) + 1
      BY <1>5, <1>7
    <3>2. j = Len(source)
      <4>1. e \notin DOMAIN ts
        BY <1>5, <3>1
      <4> QED BY <1>6, <4>1 DEF IsEnd
    <3> QED BY <1>3, <1>9, <3>2 DEF Reading
  <2>3. Head(s) = ts[p + 1] /\ Place(source, j, p + 1, s1)
    BY <1>3, <2>2 DEF Reading
  <2>4. PushText(R(p), ts[p + 1]) = R(p + 1)
    <3>1. e # p + 1
      <4>1. ~EndsSignature(ts[p + 1])
        BY <1>9, <2>3
      <4>2. p + 1 \in DOMAIN ts
        BY <1>5, <2>2
      <4> QED BY <1>6, <2>2, <4>1, <4>2 DEF IsEnd
    <3>2. /\ a + 1 \in Nat /\ a + 1 <= p + 1 /\ 1 <= a + 1
          /\ e - 1 \in Nat /\ p < e - 1
      BY <1>5, <1>7, <3>1
    <3> QED BY <1>5, <1>6, <2>2, <3>2, TextGrows
  <2> HIDE DEF R
  <2>5. decl' = [b EXCEPT !.ret = R(p + 1)]
    <3>1. decl.ret = R(p)
      BY <1>2, <1>8, FnSet
    <3>2. decl' = [decl EXCEPT !.ret = R(p + 1)]
      <4>1. decl' = [decl EXCEPT !.ret = PushText(decl.ret, Head(s))]
        BY <2>1
      <4> QED BY <2>3, <2>4, <3>1, <4>1
    <3>3. [[b EXCEPT !.ret = R(p)] EXCEPT !.ret = R(p + 1)] = [b EXCEPT !.ret = R(p + 1)]
      BY <1>2, FnSet
    <3> QED BY <1>8, <3>2, <3>3
  <2>6. a \in 0 .. p + 1 /\ \A i \in a + 1 .. p + 1 : ~EndsSignature(ts[i])
    <3>1. ~EndsSignature(ts[p + 1])
      BY <1>9, <2>3
    <3>2. \A i \in a + 1 .. p + 1 : i \in a + 1 .. p \/ i = p + 1
      BY <1>5
    <3>3. \A i \in a + 1 .. p : ~EndsSignature(ts[i])
      BY <1>2
    <3> QED BY <1>5, <3>1, <3>2, <3>3
  <2>7. decl' = [b EXCEPT !.ret = SubSeq(source[j].tokens, a + 1, p + 1)]
    BY <2>5 DEF R
  <2> HIDE DEF s1
  <2>8. streams' = <<s1>>
    BY <1>4, <2>1
  <2>9. InReturn(source, decls, decl', streams')
    BY <1>2, <2>3, <2>6, <2>7, <2>8 DEF InReturn
  <2> QED BY <1>1, <2>1, <2>9 DEF IInv
<1>10. CASE s # <<>> => EndsSignature(Head(s))
  <2>1. pc' = "signature" /\ streams' = streams /\ decl' = decl
    BY <1>4, <1>10 DEF ReturnType, Current, First, More
  <2>2. e = p + 1
    <3> SUFFICES ASSUME e # p + 1 PROVE FALSE
      OBVIOUS
    <3>1. p < Len(ts) /\ p + 1 \in a + 1 .. e - 1
      BY <1>5, <1>7
    <3>2. s # <<>> /\ Head(s) = ts[p + 1]
      BY <1>3, <3>1 DEF Reading
    <3> QED BY <1>6, <1>10, <3>1, <3>2
  <2>3. d = decl /\ IsEnd(ts, p + 1, j = Len(source))
    <3>1. e - 1 = p
      BY <1>5, <2>2
    <3> QED BY <1>6, <1>8, <2>2, <3>1
  <2> HIDE DEF R
  <2>4. ResultFrom(ts, p, decl, d, TRUE, j = Len(source))
    <3>1. p + 1 \in p + 1 .. Len(ts) + 1 /\ p + 1 .. p + 1 - 1 = {}
      BY <1>5
    <3> QED BY <2>3, <3>1 DEF ResultFrom
  <2>5. IsFn(decl)
    <3>1. IsFn([b EXCEPT !.ret = R(p)])
      BY <1>2, FnSet
    <3> QED BY <1>8, <3>1
  <2>6. InSignature(source, decls, decl, streams)
    BY <1>2, <2>4, <2>5 DEF InSignature
  <2> QED BY <1>1, <2>1, <2>6 DEF IInv
<1> QED BY <1>9, <1>10

\* s starts with n modifiers, and not with more unless n is 4.
LEMMA LeadingIs ==
  ASSUME NEW s, Current = s, Len(s) \in Nat, NEW n \in 1 .. 4, n <= Len(s),
         \A i \in 1 .. n : s[i] \in Modifiers,
         n = 4 \/ (n < Len(s) /\ s[n + 1] \notin Modifiers)
  PROVE  Leading = n
<1> DEFINE P(m) == /\ m <= Len(s) /\ \A i \in 1 .. m : s[i] \in Modifiers
                   /\ m = 4 \/ m = Len(s) \/ s[m + 1] \notin Modifiers
<1>1. P(n)
  OBVIOUS
<1>2. ASSUME NEW m \in 1 .. 4, P(m) PROVE m = n
  <2>1. CASE m < n
    <3>1. m + 1 \in 1 .. n /\ m # 4 /\ m # Len(s)
      BY <2>1
    <3> QED BY <1>2, <3>1
  <2>2. CASE n < m
    <3>1. n # 4 /\ n + 1 \in 1 .. m
      BY <2>2
    <3> QED BY <1>2, <3>1
  <2> QED BY <2>1, <2>2
<1>3. Leading = CHOOSE m \in 1 .. 4 : P(m)
  BY DEF Leading
<1> HIDE DEF P
<1> QED BY <1>1, <1>2, <1>3

\* The modifiers of a function and its name.
LEMMA StepBeginSignature == ASSUME IInv, BeginSignature PROVE IInv'
<1>1. /\ IsFile(source) /\ Begins(source, decls) /\ Top(source, decls, streams)
      /\ Head(streams) # <<>> /\ Head(Head(streams)) \in Modifiers
  BY DEF IInv, BeginSignature, Current, More, First
<1>2. PICK s : streams = <<s>> /\ AtTop(source, decls, s)
  BY <1>1 DEF Top
<1>3. Head(streams) = s /\ s # <<>> /\ Head(s) \in Modifiers /\ Current = s
  BY <1>1, <1>2, OneStream DEF Current
<1>4. Head(s) \in Keywords
  BY <1>3, KeywordFacts
<1>5. PICK j, p, ds, ok :
        /\ Place(source, j, p, s) /\ p < Len(source[j].tokens) /\ Head(s) = source[j].tokens[p + 1]
        /\ Expect(source, j, decls, ds, ok) /\ Expect(source, j, decls, <<ds[1]>>, ok)
        /\ \/ TypeItem(source[j].tokens, p, ds, ok, j = Len(source))
           \/ AliasItem(source[j].tokens, p, ds, ok)
           \/ FunctionItem(source[j].tokens, p, ds, ok, j = Len(source))
  BY <1>1, <1>2, <1>3, <1>4, AtKeyword
<1> DEFINE ts == source[j].tokens
<1>6. /\ Len(ts) \in Nat /\ p \in Nat /\ p < Len(ts) /\ j \in 0 .. Len(source)
      /\ Reads(s, ts, p, TokensAfter(source, j)) /\ Len(TokensAfter(source, j)) \in Nat
  BY <1>1, <1>5, PlaceFacts, LenProperties
<1>7. FunctionItem(ts, p, ds, ok, j = Len(source))
  <2>1. ~TypeItem(ts, p, ds, ok, j = Len(source))
    BY <1>3, <1>5, KeywordFacts DEF TypeItem
  <2>2. ~AliasItem(ts, p, ds, ok)
    BY <1>3, <1>5, KeywordFacts DEF AliasItem
  <2> QED BY <1>5, <2>1, <2>2
<1> HIDE DEF ts
<1> DEFINE Found(n) == {ts[p + i] : i \in 1 .. n}
           Fns(n) == Cardinality({i \in 1 .. n : ts[p + i] = Ident("fn")})
           Fn(t, F) == [kind |-> "fn", name |-> t.text,
                        vis |-> Ident("pub") \in F,
                        is_async |-> Ident("async") \in F,
                        is_const |-> Ident("const") \in F,
                        args |-> <<>>, ret |-> None]
<1>8. PICK n \in 1 .. 4 :
        /\ p + n <= Len(ts) /\ \A i \in p + 1 .. p + n : ts[i] \in Modifiers
        /\ p + n < Len(ts) => n = 4 \/ ts[p + n + 1] \notin Modifiers
        /\ p + n = Len(ts) => n = 4
        /\ \/ ~ok /\ Fns(n) = 0
           \/ ~ok /\ \E i \in 1 .. Fns(n) : p + n + i <= Len(ts) /\ ~IsIdent(ts[p + n + i])
           \/ /\ Fns(n) > 0 /\ p + n + Fns(n) <= Len(ts)
              /\ \A i \in 1 .. Fns(n) : IsIdent(ts[p + n + i])
              /\ SignatureFrom(ts, p + n + Fns(n), Fn(ts[p + n + Fns(n)], Found(n)),
                               ds[1], ok, j = Len(source))
  BY <1>7 DEF FunctionItem
<1> HIDE DEF Fn
<1>9. Len(s) \in Nat /\ Len(s) >= Len(ts) - p /\ \A i \in 1 .. Len(ts) - p : s[i] = ts[p + i]
  BY <1>6 DEF Reads
<1>10. Leading = n
  <2>1. n \in Nat /\ n <= Len(ts) - p /\ n <= Len(s)
    BY <1>6, <1>8, <1>9
  <2>2. \A i \in 1 .. n : i \in 1 .. Len(ts) - p /\ p + i \in p + 1 .. p + n
    BY <1>6, <2>1
  <2>3. \A i \in 1 .. n : s[i] \in Modifiers
    BY <1>8, <1>9, <2>2
  <2>4. n = 4 \/ (n < Len(s) /\ s[n + 1] \notin Modifiers)
    <3> SUFFICES ASSUME n # 4 PROVE n < Len(s) /\ s[n + 1] \notin Modifiers
      OBVIOUS
    <3>1. p + n < Len(ts) /\ ts[p + n + 1] \notin Modifiers
      BY <1>6, <1>8, <2>1
    <3>2. n + 1 \in 1 .. Len(ts) - p /\ p + (n + 1) = p + n + 1
      BY <1>6, <2>1, <3>1
    <3> QED BY <1>6, <1>9, <3>1, <3>2
  <2> QED BY <1>3, <1>9, <2>1, <2>3, <2>4, LeadingIs
<1>11. Fns(n) \in Nat
  <2>1. IsFiniteSet(1 .. n)
    BY FS_Interval
  <2>2. IsFiniteSet({i \in 1 .. n : ts[p + i] = Ident("fn")})
    BY <2>1, FS_Subset
  <2> QED BY <2>2, FS_CardinalityType
<1>12. /\ {Current[i] : i \in 1 .. n} = Found(n)
       /\ {i \in 1 .. n : Current[i] = Ident("fn")} = {i \in 1 .. n : ts[p + i] = Ident("fn")}
  <2>1. \A i \in 1 .. n : Current[i] = ts[p + i]
    <3>1. \A i \in 1 .. n : i \in 1 .. Len(ts) - p
      BY <1>6, <1>8
    <3> QED BY <1>3, <1>9, <3>1
  <2> QED BY <2>1
<1> DEFINE f == Fns(n)
           named == f > 0 /\ \A i \in 1 .. f : At(n + i, IsIdent)
<1>13. \/ /\ named /\ decl' = Fn(s[n + f], Found(n)) /\ pc' = "signature"
          /\ source' = source /\ decls' = decls
          /\ streams' = <<SubSeq(s, n + f + 1, Len(s))>> \o Tail(streams)
       \/ ~named /\ Fail
  <2> HIDE DEF Found
  <2>1. Cardinality({i \in 1 .. n : Current[i] = Ident("fn")}) = f
    BY <1>12
  <2> HIDE DEF Fns, f
  <2> QED BY <1>3, <1>10, <1>12, <2>1 DEF BeginSignature, Fn, Consume
<1> HIDE DEF Fns, Found
<1>14. \A i \in 1 .. f : p + n + i <= Len(ts) =>
         /\ At(n + i, IsIdent) <=> IsIdent(ts[p + n + i])
         /\ s[n + i] = ts[p + n + i]
  <2> SUFFICES ASSUME NEW i \in 1 .. f, p + n + i <= Len(ts)
               PROVE  /\ At(n + i, IsIdent) <=> IsIdent(ts[p + n + i])
                      /\ s[n + i] = ts[p + n + i]
    OBVIOUS
  <2>1. i \in Nat /\ i >= 1
    BY <1>11
  <2>2. n + i \in 1 .. Len(ts) - p /\ p + (n + i) = p + n + i /\ Len(s) >= n + i
    BY <1>6, <1>9, <2>1
  <2>3. s[n + i] = ts[p + n + i]
    BY <1>9, <2>2
  <2> QED BY <1>3, <2>2, <2>3 DEF At
<1>15. CASE ~named
  <2>1. Fail
    BY <1>13, <1>15
  <2>2. ~ok
    <3> SUFFICES ASSUME f > 0, p + n + f <= Len(ts), \A i \in 1 .. f : IsIdent(ts[p + n + i])
                 PROVE  FALSE
      BY <1>8
    <3>1. ASSUME NEW i \in 1 .. f PROVE At(n + i, IsIdent)
      <4>1. p + n + i <= Len(ts)
        BY <1>6, <1>11
      <4> QED BY <1>14, <4>1
    <3> QED BY <1>15, <3>1
  <2> QED BY <1>5, <2>1, <2>2, StepFail DEF Expect
<1>16. CASE named
  <2>1. /\ f > 0 /\ p + n + f <= Len(ts)
        /\ SignatureFrom(ts, p + n + f, Fn(ts[p + n + f], Found(n)), ds[1], ok, j = Len(source))
    <3>1. ~(f = 0)
      BY <1>11, <1>16
    <3>2. ~ \E i \in 1 .. f : p + n + i <= Len(ts) /\ ~IsIdent(ts[p + n + i])
      BY <1>14, <1>16
    <3> QED BY <1>8, <3>1, <3>2
  <2> HIDE DEF named, f
  <2>2. f \in Nat /\ f \in 1 .. f
    BY <1>11, <2>1 DEF f
  <2>3. s[n + f] = ts[p + n + f]
    BY <1>14, <2>1, <2>2
  <2>4. Place(source, j, p + (n + f), SubSeq(s, n + f + 1, Len(s)))
    <3>1. n + f \in Nat /\ p + (n + f) <= Len(source[j].tokens)
      BY <1>6, <2>1, <2>2 DEF ts
    <3> QED BY <1>1, <1>5, <3>1, PlaceStep
  <2>5. p + (n + f) = p + n + f
    BY <1>6, <2>2
  <2> DEFINE s1 == SubSeq(s, n + f + 1, Len(s))
             d0 == Fn(ts[p + n + f], Found(n))
  <2>6. /\ decl' = d0 /\ pc' = "signature" /\ source' = source /\ decls' = decls
        /\ streams' = <<s1>> \o Tail(streams)
    BY <1>13, <1>16, <2>3
  <2>7. Place(source, j, p + n + f, s1)
    BY <2>4, <2>5
  <2> HIDE DEF s1
  <2>8. streams' = <<s1>>
    BY <1>2, <2>6, OneStream
  <2>9. IsFn(d0)
    BY DEF IsFn, Fn
  <2>10. SignatureFrom(source[j].tokens, p + n + f, d0, ds[1], ok, j = Len(source))
    BY <2>1 DEF ts
  <2> HIDE DEF d0
  <2>11. InSignature(source, decls, d0, streams')
    BY <1>5, <2>7, <2>8, <2>9, <2>10 DEF InSignature
  <2> QED BY <1>1, <2>6, <2>11 DEF IInv
<1> QED BY <1>15, <1>16

-----------------------------------------------------------------------------
(* The invariant and what follows from it.                                 *)

\* Meaning is what the items from the first on mean.
LEMMA MeaningIs == ASSUME IsFile(source) PROVE Meaning = MeansAfter(source, 0)
<1> DEFINE F == [i \in DOMAIN source |-> MeansOf(source[i])]
           G == [i \in 1 .. Len(source) - 0 |-> MeansOf(source[i + 0])]
<1>1. Len(source) \in Nat /\ DOMAIN source = 1 .. Len(source)
  BY FileFacts
<1>2. Meaning = FlattenSeq(F)
  BY DEF Meaning, MeansOf
<1>3. F = G
  BY <1>1
<1>4. MeansAfter(source, 0) = FlattenSeq(G)
  BY DEF MeansAfter
<1> QED BY <1>2, <1>3, <1>4, Zenon

\* The parser starts at the first item, with nothing recorded.
LEMMA InitIInv == ASSUME \A s \in Sources : IsFile(s), Init PROVE IInv
<1>1. /\ IsFile(source) /\ pc = "top" /\ decls = <<>>
      /\ streams = <<FlattenSeq([i \in DOMAIN source |-> source[i].tokens])>>
  BY DEF Init
<1> DEFINE F == [i \in DOMAIN source |-> source[i].tokens]
           G == [i \in 1 .. Len(source) - 0 |-> source[i + 0].tokens]
           M == MeansAfter(source, 0)
<1>2. Len(source) \in Nat /\ DOMAIN source = 1 .. Len(source) /\ 0 \in 0 .. Len(source)
  BY <1>1, FileFacts
<1>3. F = G
  BY <1>2
<1>4. TokensAfter(source, 0) = FlattenSeq(G)
  BY DEF TokensAfter
<1> HIDE DEF F, G
<1>5. streams = <<TokensAfter(source, 0)>>
  <2>1. streams = <<FlattenSeq(F)>>
    BY <1>1 DEF F
  <2> QED BY <1>3, <1>4, <2>1
<1>6. <<>> \in Seq(Readable(source)) /\ M \in Seq(Declared(source))
  BY <1>1, <1>2, EmptySeq, AfterFacts
<1> HIDE DEF M
<1>7. Cat(<<>>, M) = M
  BY <1>6, ConcatEmptySeq DEF Cat
<1>8. Begins(source, <<>>)
  BY <1>6, <1>7 DEF Begins, M
<1>9. AtTop(source, <<>>, TokensAfter(source, 0))
  BY <1>1, <1>2, <1>6, <1>7, NextItem DEF M
<1> QED BY <1>1, <1>5, <1>8, <1>9 DEF IInv, Top

\* Every step of the parser keeps the invariant.
LEMMA NextIInv == ASSUME IInv, Next PROVE IInv'
BY StepSkipToken, StepBeginType, StepTypeAlias, StepBody, StepFinish, StepFieldName,
   StepSkipInFields, StepFieldType, StepFieldsEnd, StepVariantFields, StepUnitVariant,
   StepSkipInVariants, StepVariantsEnd, StepBeginSignature, StepArguments, StepArrow,
   StepReturnType, StepSkipInSignature, StepSignatureEnd DEF Next

\* So does a step of the macro that leaves the parser alone.
LEMMA StutterIInv == ASSUME IInv, UNCHANGED vars PROVE IInv'
BY DEF IInv, vars

\* Sound follows: what is recorded begins what the file means, and at the end
\* is all of it.
LEMMA IInvSound == ASSUME IInv PROVE Sound
<1>1. /\ IsFile(source) /\ decls \in Seq(Readable(source))
      /\ \E x \in Seq(Declared(source)) : Cat(decls, x) = MeansAfter(source, 0)
      /\ pc = "done" => decls = MeansAfter(source, 0)
  BY DEF IInv, Begins
<1>2. PICK x \in Seq(Declared(source)) : Cat(decls, x) = MeansAfter(source, 0)
  BY <1>1
<1> DEFINE D == Declared(source)
           M == MeansAfter(source, 0)
<1>3. Meaning = M
  BY <1>1, MeaningIs
<1>4. decls \in Seq(D) /\ x \in Seq(D) /\ Cat(decls, x) = M
  <2>1. Readable(source) \subseteq D
    BY DEF Readable
  <2> QED BY <1>1, <1>2, <2>1, SeqMonotonic
<1>5. pc = "done" => decls = M
  BY <1>1
<1> HIDE DEF D, M
<1>6. /\ M \in Seq(D) /\ Len(M) = Len(decls) + Len(x) /\ Len(decls) \in Nat /\ Len(x) \in Nat
      /\ \A i \in 1 .. Len(decls) : M[i] = decls[i]
  BY <1>4, CatIs, LenProperties
<1>7. SubSeq(M, 1, Len(decls)) = decls
  <2> DEFINE m == SubSeq(M, 1, Len(decls))
  <2>1. \A i \in 1 .. Len(decls) : M[i] \in D
    BY <1>4, <1>6, ElementOfSeq
  <2>2. /\ m \in Seq(D) /\ Len(m) = Len(decls)
        /\ \A i \in 1 .. Len(decls) - 1 + 1 : m[i] = M[1 + i - 1]
    <3>1. 1 \in Int /\ Len(decls) \in Int
      BY <1>6
    <3>2. /\ m \in Seq(D) /\ Len(m) = IF 1 <= Len(decls) THEN Len(decls) - 1 + 1 ELSE 0
          /\ \A i \in 1 .. Len(decls) - 1 + 1 : m[i] = M[1 + i - 1]
      BY <2>1, <3>1, SubSeqProperties
    <3> QED BY <1>6, <3>2
  <2> HIDE DEF m
  <2>3. \A i \in 1 .. Len(decls) : m[i] = decls[i]
    <3>1. \A i \in 1 .. Len(decls) : i \in 1 .. Len(decls) - 1 + 1 /\ 1 + i - 1 = i
      BY <1>6
    <3> QED BY <1>6, <2>2, <3>1
  <2>4. m = decls
    BY <1>4, <2>2, <2>3, SeqEqual
  <2> QED BY <2>4 DEF m
<1>8. SubSeq(decls, 1, Len(decls)) = decls
  BY <1>4, SubSeqFull
<1> QED BY <1>3, <1>5, <1>6, <1>7, <1>8 DEF Sound, IsPrefix

\* Accepts follows: a file of supported items never makes the parser fail.
LEMMA IInvAccepts == ASSUME IInv PROVE Accepts
BY DEF IInv, Accepts, Refuses

-----------------------------------------------------------------------------
\* And the macro has returned only what the finished parser makes it return.
MacroInv ==
  /\ IInv
  /\ expansion = None \/ (pc \in {"done", "failed"} /\ expansion = Expanded)

\* A finished parser takes no step.
LEMMA NextWorks == ASSUME Next PROVE pc \notin {"done", "failed"}
BY DEF Next, SkipToken, BeginType, TypeAlias, Body, Finish, FieldName, SkipInFields, FieldType,
       FieldsEnd, VariantFields, UnitVariant, SkipInVariants, VariantsEnd, BeginSignature,
       Arguments, Arrow, ReturnType, SkipInSignature, SignatureEnd

\* Every step of the macro keeps the invariant.
LEMMA NextMacroInv == ASSUME MacroInv, [MacroNext]_macroVars PROVE MacroInv'
<1>1. CASE Next /\ expansion' = expansion
  <2>1. IInv' /\ expansion = None
    BY <1>1, NextIInv, NextWorks DEF MacroInv
  <2> QED BY <1>1, <2>1 DEF MacroInv
<1>2. CASE Expand
  <2>1. UNCHANGED vars /\ pc \in {"done", "failed"} /\ expansion' = Expanded
    BY <1>2 DEF Expand
  <2>2. IInv'
    BY <2>1, StutterIInv DEF MacroInv
  <2>3. pc' = pc /\ Expanded' = Expanded
    BY <2>1 DEF vars, Expanded
  <2> QED BY <2>1, <2>2, <2>3 DEF MacroInv
<1>3. CASE UNCHANGED macroVars
  <2>1. UNCHANGED vars /\ expansion' = expansion
    BY <1>3 DEF macroVars
  <2>2. IInv'
    BY <2>1, StutterIInv DEF MacroInv
  <2>3. pc' = pc /\ Expanded' = Expanded
    BY <2>1 DEF vars, Expanded
  <2> QED BY <2>1, <2>2, <2>3 DEF MacroInv
<1> QED BY <1>1, <1>2, <1>3 DEF MacroNext

\* Generated code is that of the one struct the file declares.
LEMMA MacroInvCode == ASSUME MacroInv PROVE CodeOfSource
<1> SUFFICES ASSUME expansion # None, expansion.kind = "code"
             PROVE  /\ Len(Meaning) = 1
                    /\ Meaning[1] # Unreadable /\ Meaning[1].kind = "struct"
                    /\ expansion.name = Meaning[1].name /\ expansion.fields = Meaning[1].fields
  BY DEF CodeOfSource
<1>1. /\ expansion = Expanded /\ pc \in {"done", "failed"}
      /\ IsFile(source) /\ decls \in Seq(Readable(source))
      /\ pc = "done" => decls = MeansAfter(source, 0)
  BY DEF MacroInv, IInv, Begins
<1>2. CompileError.kind # "code" /\ Panic.kind # "code"
  BY DEF CompileError, Panic
<1>3. Len(decls) \in Nat /\ (decls = <<>> <=> Len(decls) = 0)
  BY <1>1, LenProperties, EmptySeq
<1>4. ~(pc = "failed" \/ Len(decls) > 1)
  <2> SUFFICES ASSUME pc = "failed" \/ Len(decls) > 1 PROVE FALSE
    OBVIOUS
  <2>1. Expanded = CompileError
    <3> DEFINE a == pc = "failed" \/ Len(decls) > 1
               b == pc # "failed" /\ decls = <<>>
               c == pc # "failed" /\ Len(decls) = 1
    <3>0. Len(decls) > 1 => decls # <<>> /\ Len(decls) # 1
      <4>1. \A l \in Nat : l > 1 => l # 0 /\ l # 1
        OBVIOUS
      <4> QED BY <1>3, <4>1
    <3>1. a /\ ~b /\ ~c
      BY <3>0, Zenon
    <3>2. Expanded = CASE a -> CompileError
                       [] b -> Panic
                       [] c -> IF decls[1].kind = "struct" THEN Code(decls[1]) ELSE CompileError
      BY DEF Expanded
    <3> HIDE DEF a, b, c
    <3> QED BY <3>1, <3>2
  <2> QED BY <1>1, <1>2, <2>1
<1>5. decls # <<>>
  <2> SUFFICES ASSUME decls = <<>> PROVE FALSE
    OBVIOUS
  <2>1. Expanded = Panic
    BY <1>3, <1>4 DEF Expanded
  <2> QED BY <1>1, <1>2, <2>1
<1>6. Len(decls) = 1 /\ pc = "done"
  <2>1. \A l \in Nat : l # 0 /\ ~(l > 1) => l = 1
    OBVIOUS
  <2>2. Len(decls) \in Nat /\ Len(decls) # 0 /\ ~(Len(decls) > 1) /\ pc # "failed"
    BY <1>3, <1>4, <1>5, Zenon
  <2>3. pc = "done"
    BY <1>1, <2>2
  <2> QED BY <2>1, <2>2, <2>3
<1>7. Expanded = IF decls[1].kind = "struct" THEN Code(decls[1]) ELSE CompileError
  BY <1>4, <1>5, <1>6 DEF Expanded
<1>8. decls[1].kind = "struct" /\ expansion = Code(decls[1])
  BY <1>1, <1>2, <1>7
<1>9. Meaning = decls
  BY <1>1, <1>6, MeaningIs
<1>10. decls[1] # Unreadable
  <2>1. 1 \in 1 .. Len(decls)
    BY <1>6
  <2> QED BY <1>1, <2>1, ElementOfSeq DEF Readable
<1> QED BY <1>6, <1>8, <1>9, <1>10 DEF Code

\* Whatever files the macro is given, of the grammar: the parser is always at a
\* place the grammar gives it, with what it has recorded and is parsing the
\* beginning of what the file declares, and the macro returns what follows.
THEOREM MacroInvariant ==
  ASSUME \A s \in Sources : IsFile(s)
  PROVE  MacroSpec => []MacroInv
<1>1. MacroInit => MacroInv
  BY InitIInv DEF MacroInit, MacroInv
<1>2. MacroInv /\ [MacroNext]_macroVars => MacroInv'
  BY NextMacroInv
<1> QED BY <1>1, <1>2, PTL DEF MacroSpec

\* For every file of the grammar, of any length and any tokens, what
\* parse_type_decls has recorded is a prefix of the file's declarations, and
\* all of them when it says it is done.
THEOREM ParserSound ==
  ASSUME \A s \in Sources : IsFile(s)
  PROVE  MacroSpec => []Sound
<1>1. MacroInv => Sound
  BY IInvSound DEF MacroInv
<1> QED BY <1>1, MacroInvariant, PTL

\* For every file of the grammar whose items are all of supported kinds,
\* parse_type_decls does not fail, whatever order the items stand in.
THEOREM ParserAccepts ==
  ASSUME \A s \in Sources : IsFile(s)
  PROVE  MacroSpec => []Accepts
<1>1. MacroInv => Accepts
  BY IInvAccepts DEF MacroInv
<1> QED BY <1>1, MacroInvariant, PTL

\* For every file of the grammar, derive(Soa) generates code only if the file
\* is one struct, and from exactly its name and fields in order.
THEOREM MacroCode ==
  ASSUME \A s \in Sources : IsFile(s)
  PROVE  MacroSpec => []CodeOfSource
<1>1. MacroInv => CodeOfSource
  BY MacroInvCode
<1> QED BY <1>1, MacroInvariant, PTL
=============================================================================
