------------------------------ MODULE MCSoaDerive ------------------------------
(* Items of Rust for the runs of SoaDerive: their tokens and what they     *)
(* declare.                                                                *)
EXTENDS SoaDerive, DeclarationGrammar, TLC

T == <<Ident("T")>>
Borrowed == <<Punct("&"), Ident("T")>>
Generic == <<Ident("V"), Punct("<"), Ident("T"), Punct(">")>>
Pair == <<Ident("M"), Punct("<"), Ident("T"), Punct(","), Ident("U"), Punct(">")>>
PairOfPath ==
  <<Ident("M"), Punct("<"), Ident("T"), Punct(","), Ident("m"), Punct(":"),
    Punct(":"), Ident("U"), Punct(">")>>

F(n, type) == [name |-> n, type |-> type]

Meant(fs) == [i \in DOMAIN fs |-> [name |-> fs[i].name, ty |-> fs[i].type]]

\* Fields as tokens, each with the tokens of `before' in front and a comma
\* between two; trailing, if true, puts one behind the last as well.
Written(fs, before, trailing) ==
  FlattenSeq([i \in DOMAIN fs |->
    before \o <<Ident(fs[i].name), Punct(":")>> \o fs[i].type
           \o (IF trailing \/ i < Len(fs) THEN <<Punct(",")>> ELSE <<>>)])

Attribute == <<Punct("#"), Group("bracket", <<Ident("repr"), Group("paren", <<>>)>>)>>
Public == <<Ident("pub")>>

Item(tokens, means) == [tokens |-> tokens, means |-> means]

StructOf(before, n, generics, fs, beforeField, trailing) ==
  Item(before \o <<Ident("struct"), Ident(n)>> \o generics
         \o <<Group("brace", Written(fs, beforeField, trailing))>>,
       <<[kind |-> "struct", name |-> n, fields |-> Meant(fs)]>>)

EnumOf(n, tokens, variants) ==
  Item(<<Ident("enum"), Ident(n), Group("brace", tokens)>>,
       <<[kind |-> "enum", name |-> n, variants |-> variants]>>)

FnOf(before, n, args, ret, end) ==
  Item([i \in DOMAIN before |-> Ident(before[i])]
         \o <<Ident("fn"), Ident(n), Group("paren", Written(args, <<>>, FALSE))>>
         \o (IF ret = None THEN <<>> ELSE <<Punct("-"), Punct(">")>> \o ret)
         \o <<end>>,
       <<[kind |-> "fn", name |-> n,
          vis |-> \E i \in DOMAIN before : before[i] = "pub",
          is_async |-> \E i \in DOMAIN before : before[i] = "async",
          is_const |-> \E i \in DOMAIN before : before[i] = "const",
          args |-> Meant(args), ret |-> ret]>>)

FunctionBody == Group("brace", <<Ident("struct"), Ident("X"), Group("brace", <<>>)>>)

Structs ==
  {StructOf(<<>>, "A", <<>>, <<F("x", T)>>, <<>>, FALSE),
   StructOf(<<>>, "B", SubSeq(Generic, 2, 4), <<F("x", Generic), F("y", T)>>, <<>>, TRUE),
   StructOf(Attribute, "C", <<>>, <<F("x", T), F("y", T)>>, Attribute, FALSE)}

Enums ==
  {EnumOf("E", <<Ident("K"), Punct(","), Ident("L"),
                 Group("brace", Written(<<F("x", T)>>, <<>>, FALSE)), Punct(","), Ident("N")>>,
     <<[name |-> "K", fields |-> <<>>], [name |-> "L", fields |-> Meant(<<F("x", T)>>)],
       [name |-> "N", fields |-> <<>>]>>),
   EnumOf("F", <<Ident("K"), Punct("="), Literal("1"), Punct(",")>>,
     <<[name |-> "K", fields |-> <<>>]>>)}

Functions ==
  {FnOf(<<>>, "f", <<>>, None, FunctionBody),
   FnOf(<<"pub", "const">>, "g", <<F("x", Generic), F("y", T)>>, T, FunctionBody),
   FnOf(<<"pub", "async">>, "h", <<F("x", Borrowed)>>, Generic, Punct(";"))}

Others ==
  {Item(<<Ident("type"), Ident("D"), Punct("=")>> \o Generic \o <<Punct(";")>>,
        <<[kind |-> "alias", name |-> "D"]>>),
   Item(<<Ident("impl"), Ident("A"), Group("brace", <<Ident("fn"), Ident("f")>>)>>, <<>>),
   Item(<<Ident("union"), Ident("W"), Group("brace", Written(<<F("x", T)>>, <<>>, FALSE))>>,
        <<>>)}

Accepted == Structs \union Enums \union Functions \union Others

\* Legal items the parser has no code for, and some that are not legal.
Refused ==
  {StructOf(Public, "A", <<>>, <<F("x", T)>>, <<>>, FALSE),
   StructOf(<<>>, "A", <<>>, <<F("x", T)>>, Public, FALSE),
   StructOf(<<>>, "A", <<>>, <<F("x", Pair), F("y", T)>>, <<>>, FALSE),
   Item(<<Ident("const"), Ident("N"), Punct(":")>> \o T \o <<Punct(";")>>, <<>>),
   Item(<<Ident("fn"), Ident("f"), Group("paren", <<Punct("&"), Ident("self")>>), FunctionBody>>,
        Unreadable),
   Item(<<Ident("fn"), Ident("f"), Group("paren", <<>>), Punct("-"), FunctionBody>>, Unreadable),
   Item(<<Ident("struct"), Group("brace", <<>>)>>, Unreadable),
   Item(<<Ident("type"), Punct("=")>> \o T \o <<Punct(";")>>, Unreadable)}

\* Items read right only with nothing behind them: the search for a brace group
\* would go on into the next item.
LastOnly ==
  {Item(<<Ident("struct"), Ident("A"), Punct(";")>>, Unreadable),
   Item(<<Ident("struct"), Ident("A"), Group("paren", T), Punct(";")>>, Unreadable),
   Item(<<Ident("fn"), Ident("f"), Group("paren", <<>>)>>,
        <<[kind |-> "fn", name |-> "f", vis |-> FALSE, is_async |-> FALSE,
           is_const |-> FALSE, args |-> <<>>, ret |-> None]>>)}

Items == Accepted \union Refused
Files == {<<>>} \union {<<i>> : i \in Items \union LastOnly}
         \union {<<i, j>> : i \in Items, j \in Items \union LastOnly}
         \union {<<i, j, k>> : i, j, k \in Accepted}

\* The tokens of these files, those of their groups included.
StreamsOf(ts) == {g.stream : g \in {t \in ts : t.kind = "group"}}
Inner(ts) == UNION {Range(s) : s \in StreamsOf(ts)}
OfItems == UNION {Range(i.tokens) : i \in Items \union LastOnly}
Tokens == OfItems \union Inner(OfItems) \union Inner(Inner(OfItems))

\* A struct without braces in front of another one.
BracelessFirst == {<<Item(<<Ident("struct"), Ident("A"), Punct(";")>>, Unreadable), i>> : i \in Structs}

\* The files are files of the grammar.
ASSUME FilesAssumption == \A s \in Files : IsFile(s)

\* A derive macro is given one struct or enum.
PathFields == {<<StructOf(<<>>, "A", <<>>, <<F("x", t), F("y", T)>>, <<>>, FALSE)>> :
                 t \in {T, Generic, Pair, PairOfPath}}

\* `&mut T', and a tuple.
WideFields == {<<StructOf(<<>>, "A", <<>>, <<F("x", t), F("y", T)>>, <<>>, FALSE)>> :
                 t \in {T, Generic, <<Punct("&"), Ident("mut"), Ident("T")>>,
                        <<Group("paren", <<Ident("T"), Punct(","), Ident("U")>>)>>}}
=============================================================================
