-------------------------- MODULE DeclarationGrammar --------------------------
(***************************************************************************)
(* The files DeclarationParser is meant for, as a grammar: what the tokens *)
(* of an item declare, and where an item stops the parser, said by where   *)
(* its parts stand and not by the parser's loops.  Every text "from p on"  *)
(* is the tokens behind the first p of ts.                                 *)
(***************************************************************************)
EXTENDS DeclarationParser

CONSTANT Token   \* the tokens a file may hold

\* A group holds a stream of tokens.
ASSUME TokenAssumption ==
  \A t \in Token : t.kind = "group" => t.stream \in Seq(Token)

Comma == Punct(",")

\* The type a .. b reads back as it stands: no group, no two words in a row.
IsType(ts, a, b) ==
  \A i \in a .. b : ts[i].kind # "group" /\ (IsWord(ts[i]) => i = b \/ ~IsWord(ts[i + 1]))

\* h is the first identifier from p on.
IsName(ts, p, h) ==
  /\ h \in p + 1 .. Len(ts) /\ IsIdent(ts[h])
  /\ \A i \in p + 1 .. h - 1 : ~IsIdent(ts[i])

NameAt(ts, p) == CHOOSE h \in p + 1 .. Len(ts) : IsName(ts, p, h)
NoName(ts, p) == \A i \in p + 1 .. Len(ts) : ~IsIdent(ts[i])
Names(ts) == Cardinality({i \in DOMAIN ts : IsIdent(ts[i])})

-----------------------------------------------------------------------------
(* Fields: the tokens of a field are a + 1 .. b.  It has its name, a colon, *)
(* a type in which no comma stands, and ends at a comma or with the stream. *)

Colons(ts) == Cardinality({i \in DOMAIN ts : IsColon(ts[i])})
HasColon(ts, h) == h < Len(ts) /\ IsColon(ts[h + 1])

TypeEnd(ts, b) == IF ts[b] = Comma THEN b - 1 ELSE b

IsField(ts, a, b) ==
  \E h \in a + 1 .. b - 1 :
    /\ IsName(ts, a, h) /\ HasColon(ts, h)
    /\ IsType(ts, h + 2, TypeEnd(ts, b))
    /\ \A i \in h + 2 .. b - 1 : ts[i] # Comma
    /\ ts[b] = Comma \/ b = Len(ts)

FieldOf(ts, a, b) ==
  LET h == NameAt(ts, a) IN
  [name |-> ts[h].text, ty |-> SubSeq(ts, h + 2, TypeEnd(ts, b))]

\* The first n fields are what stands between the cuts.
AreFields(ts, n, cut) ==
  cut[0] = 0 /\ \A k \in 1 .. n : IsField(ts, cut[k - 1], cut[k])

CutFields(ts, n, cut) == [k \in 1 .. n |-> FieldOf(ts, cut[k - 1], cut[k])]

IsFields(ts) ==
  \E n \in 0 .. Colons(ts) : \E cut \in [0 .. n -> 0 .. Len(ts)] :
    AreFields(ts, n, cut) /\ NoName(ts, cut[n])

FieldsOf(ts) ==
  LET IsCut(n, cut) == AreFields(ts, n, cut) /\ NoName(ts, cut[n])
      n == CHOOSE n \in 0 .. Colons(ts) :
             \E cut \in [0 .. n -> 0 .. Len(ts)] : IsCut(n, cut)
  IN CutFields(ts, n, CHOOSE cut \in [0 .. n -> 0 .. Len(ts)] : IsCut(n, cut))

\* After some fields comes an identifier without a colon.
StuckFields(ts) ==
  \E n \in 0 .. Colons(ts) : \E cut \in [0 .. n -> 0 .. Len(ts)] :
    /\ AreFields(ts, n, cut)
    /\ \E h \in DOMAIN ts : IsName(ts, cut[n], h) /\ ~HasColon(ts, h)

-----------------------------------------------------------------------------
(* Variants: a name, perhaps a group with its fields, perhaps a comma.      *)

HasPayload(ts, h) == h < Len(ts) /\ IsPayload(ts[h + 1])
Payload(ts, h) == ts[h + 1].stream
NameEnd(ts, h) == IF HasPayload(ts, h) THEN h + 1 ELSE h
PastComma(ts, e) == IF e < Len(ts) /\ ts[e + 1] = Comma THEN e + 1 ELSE e

IsVariant(ts, a, b) ==
  \E h \in DOMAIN ts :
    /\ IsName(ts, a, h) /\ b = PastComma(ts, NameEnd(ts, h))
    /\ HasPayload(ts, h) => IsFields(Payload(ts, h))

VariantOf(ts, a) ==
  LET h == NameAt(ts, a) IN
  [name |-> ts[h].text,
   fields |-> IF HasPayload(ts, h) THEN FieldsOf(Payload(ts, h)) ELSE <<>>]

AreVariants(ts, n, cut) ==
  cut[0] = 0 /\ \A k \in 1 .. n : IsVariant(ts, cut[k - 1], cut[k])

CutVariants(ts, n, cut) == [k \in 1 .. n |-> VariantOf(ts, cut[k - 1])]

AreVariantsOf(ts, vs) ==
  \E n \in 0 .. Names(ts) : \E cut \in [0 .. n -> 0 .. Len(ts)] :
    AreVariants(ts, n, cut) /\ NoName(ts, cut[n]) /\ vs = CutVariants(ts, n, cut)

StuckVariants(ts) ==
  \E n \in 0 .. Names(ts) : \E cut \in [0 .. n -> 0 .. Len(ts)] :
    /\ AreVariants(ts, n, cut)
    /\ \E h \in DOMAIN ts :
         IsName(ts, cut[n], h) /\ HasPayload(ts, h) /\ StuckFields(Payload(ts, h))

-----------------------------------------------------------------------------
(* Items.  `ok' tells an item that is read, as the declaration d or the     *)
(* sequence of declarations ds, from one that stops the parser; `last' is   *)
(* true of the last item of a file, with no tokens behind it.               *)

IsBrace(t) == IsGroup(t, {"brace"})
IsParen(t) == IsGroup(t, {"paren"})
NoKeyword(ts, p) == \A i \in p + 1 .. Len(ts) : ts[i] \notin Keywords

\* d0 is the declaration as far as its name.
BodyFrom(ts, p, d0, d, ok, last) ==
  \/ \E b \in p + 1 .. Len(ts) :
       /\ IsBrace(ts[b]) /\ \A i \in p + 1 .. b - 1 : ~IsBrace(ts[i])
       /\ \/ /\ ok /\ d0.kind = "struct"
             /\ IsFields(ts[b].stream)
             /\ d = [d0 EXCEPT !.fields = FieldsOf(ts[b].stream)]
             /\ NoKeyword(ts, b)
          \/ ~ok /\ d0.kind = "struct" /\ StuckFields(ts[b].stream)
          \/ /\ ok /\ d0.kind = "enum"
             /\ d = [d0 EXCEPT !.variants = d.variants]
             /\ AreVariantsOf(ts[b].stream, d.variants)
             /\ NoKeyword(ts, b)
          \/ ~ok /\ d0.kind = "enum" /\ StuckVariants(ts[b].stream)
  \/ ~ok /\ last /\ \A i \in p + 1 .. Len(ts) : ~IsBrace(ts[i])

\* A function ends at e, its body or a semicolon, or with the file.
IsEnd(ts, e, last) ==
  /\ \/ e \in DOMAIN ts /\ EndsSignature(ts[e])
     \/ e = Len(ts) + 1 /\ last
  /\ NoKeyword(ts, e)

IsPlain(t) == ~IsParen(t) /\ t # Punct("-") /\ ~EndsSignature(t)

ReturnFrom(ts, p, d0, d, last) ==
  \E e \in p + 1 .. Len(ts) + 1 :
    /\ IsEnd(ts, e, last) /\ \A i \in p + 1 .. e - 1 : ~EndsSignature(ts[i])
    /\ IsType(ts, p + 1, e - 1)
    /\ d = [d0 EXCEPT !.ret = SubSeq(ts, p + 1, e - 1)]

\* Behind the arguments.
ResultFrom(ts, p, d0, d, ok, last) ==
  \E q \in p + 1 .. Len(ts) + 1 :
    /\ \A i \in p + 1 .. q - 1 : IsPlain(ts[i])
    /\ \/ ok /\ IsEnd(ts, q, last) /\ d = d0
       \/ /\ q < Len(ts) /\ ts[q] = Punct("-")
          /\ \/ ok /\ IsAngle(ts[q + 1]) /\ ReturnFrom(ts, q + 1, d0, d, last)
             \/ ~ok /\ ~IsAngle(ts[q + 1])

\* Behind the name of a function.
SignatureFrom(ts, p, d0, d, ok, last) ==
  \E g \in p + 1 .. Len(ts) :
    /\ IsParen(ts[g]) /\ \A i \in p + 1 .. g - 1 : IsPlain(ts[i])
    /\ \/ /\ IsFields(ts[g].stream)
          /\ ResultFrom(ts, g, [d0 EXCEPT !.args = FieldsOf(ts[g].stream)], d, ok, last)
       \/ ~ok /\ StuckFields(ts[g].stream)

TypeItem(ts, p, ds, ok, last) ==
  /\ ts[p + 1] \in {Ident("struct"), Ident("enum")} /\ p + 2 <= Len(ts)
  /\ IF IsIdent(ts[p + 2])
     THEN BodyFrom(ts, p + 2,
            IF ts[p + 1] = Ident("struct")
            THEN [kind |-> "struct", name |-> ts[p + 2].text, fields |-> <<>>]
            ELSE [kind |-> "enum", name |-> ts[p + 2].text, variants |-> <<>>],
            ds[1], ok, last)
     ELSE ~ok

AliasItem(ts, p, ds, ok) ==
  /\ ts[p + 1] = Ident("type") /\ p + 2 <= Len(ts)
  /\ IF IsIdent(ts[p + 2])
     THEN /\ ok /\ ds = <<[kind |-> "alias", name |-> ts[p + 2].text]>>
          /\ NoKeyword(ts, p + 2)
     ELSE ~ok

\* n modifiers, then for each `fn' among them an identifier.
FunctionItem(ts, p, ds, ok, last) ==
  \E n \in 1 .. 4 :
    /\ p + n <= Len(ts) /\ \A i \in p + 1 .. p + n : ts[i] \in Modifiers
    /\ p + n < Len(ts) => n = 4 \/ ts[p + n + 1] \notin Modifiers
    /\ p + n = Len(ts) => n = 4
    /\ LET found == {ts[p + i] : i \in 1 .. n}
           fns == Cardinality({i \in 1 .. n : ts[p + i] = Ident("fn")}) IN
       \/ ~ok /\ fns = 0
       \/ ~ok /\ \E i \in 1 .. fns : p + n + i <= Len(ts) /\ ~IsIdent(ts[p + n + i])
       \/ /\ fns > 0 /\ p + n + fns <= Len(ts)
          /\ \A i \in 1 .. fns : IsIdent(ts[p + n + i])
          /\ SignatureFrom(ts, p + n + fns,
               [kind |-> "fn", name |-> ts[p + n + fns].text,
                vis |-> Ident("pub") \in found,
                is_async |-> Ident("async") \in found,
                is_const |-> Ident("const") \in found,
                args |-> <<>>, ret |-> None],
               ds[1], ok, last)

\* An item without a declaration holds no keyword; else tokens that are none
\* come before its keyword.
ItemFrom(ts, p, ds, ok, last) ==
  \E a \in p .. Len(ts) :
    /\ \A i \in p + 1 .. a : ts[i] \notin Keywords
    /\ \/ a = Len(ts) /\ ok /\ ds = <<>>
       \/ /\ a < Len(ts) /\ (ok => Len(ds) = 1)
          /\ \/ TypeItem(ts, a, ds, ok, last) \/ AliasItem(ts, a, ds, ok)
             \/ FunctionItem(ts, a, ds, ok, last)

\* The tokens of item i of file s declare what it means, or it is one the
\* parser is not documented to accept and stops it.
IsRead(s, i) ==
  /\ s[i].means # Unreadable /\ \A k \in DOMAIN s[i].means : s[i].means[k] # Unreadable
  /\ ItemFrom(s[i].tokens, 0, s[i].means, TRUE, i = Len(s))

IsRefused(s, i) ==
  /\ s[i] \notin Supported
  /\ ItemFrom(s[i].tokens, 0, <<>>, FALSE, i = Len(s))

IsFile(s) ==
  /\ s \in Seq(Range(s))
  /\ \A i \in DOMAIN s :
       /\ s[i].tokens \in Seq(Token) /\ s[i].tokens # <<>>
       /\ s[i].means = Unreadable \/ s[i].means \in Seq(Range(s[i].means))
       /\ IsRead(s, i) \/ IsRefused(s, i)
=============================================================================
