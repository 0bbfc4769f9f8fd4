--------------------------- MODULE DeclarationParser ---------------------------
(***************************************************************************)
(* parse_type_decls (core/src/rust/mod.rs): one pass over a stream of      *)
(* tokens that picks out structs, enums, aliases and functions and skips   *)
(* everything else.  Groups hold streams of their own, so the loops nest:  *)
(* `streams' are the iterators the active loops have, innermost first, and *)
(* `pc' is the innermost loop.  A step is one turn of a loop.              *)
(*                                                                         *)
(* A piece of source is a record: `tokens', the tokens of one item, and    *)
(* `means', the declarations they are (a sequence of at most one), or      *)
(* Unreadable.  The parser never looks at `means'.                         *)
(***************************************************************************)
EXTENDS Naturals, Sequences, FiniteSets, SequencesExt

CONSTANTS
  Sources,     \* the sequences of items given to the parser
  Supported,   \* the items it is documented or tested to accept
  Unreadable,  \* the meaning of what is no item of Rust or no TypeDecl can hold
  None         \* no return type

VARIABLES
  source,    \* what is parsed
  pc,        \* the innermost loop, or "done", "failed"
  streams,   \* the tokens left to the loops
  decl,      \* the declaration being parsed
  fields,    \* the fields or arguments parsed so far in it
  field,     \* the field being parsed
  decls      \* the result

vars == <<source, pc, streams, decl, fields, field, decls>>

-----------------------------------------------------------------------------
(* Tokens.  The text of a type is the tokens it reads back as.             *)

Ident(s) == [kind |-> "ident", text |-> s]
Punct(c) == [kind |-> "punct", text |-> c]
Literal(s) == [kind |-> "literal", text |-> s]
Group(d, ts) ==
  [kind |-> "group", delimiter |-> d, stream |-> ts]

IsIdent(t) == t.kind = "ident"
IsGroup(t, D) == t.kind = "group" /\ t.delimiter \in D

Modifiers == {Ident("pub"), Ident("async"), Ident("const"), Ident("fn")}
Keywords == {Ident("struct"), Ident("enum"), Ident("type")} \union Modifiers

\* Two words with nothing between them read back as one.
IsWord(t) == t.kind \in {"ident", "literal", "joined"}
Joined(t, u) == [kind |-> "joined", parts |-> <<t, u>>]

\* token_to_string: whatever a group holds, it is written as <group>.
Text(t) ==
  IF t.kind = "group" THEN <<Punct("<"), Ident("group"), Punct(">")>> ELSE <<t>>

\* push_str: nothing is put between the text and that of the next token.
PushText(text, t) ==
  IF text # <<>> /\ IsWord(Last(text)) /\ IsWord(t)
  THEN Append(Front(text), Joined(Last(text), t))
  ELSE text \o Text(t)

\* The innermost iterator: next and peek, and the tokens n turns further on.
Current == Head(streams)
More == Current # <<>>
First == Head(Current)
At(n, S(_)) == Len(Current) >= n /\ S(Current[n])
Consume(n) == streams' = <<SubSeq(Current, n + 1, Len(Current))>> \o Tail(streams)
Enter(t, n) ==
  streams' = <<t.stream, SubSeq(Current, n + 1, Len(Current))>> \o Tail(streams)

Fail ==
  /\ pc' = "failed"
  /\ UNCHANGED <<source, streams, decl, fields, field, decls>>

-----------------------------------------------------------------------------
(* The loop of parse_type_decls.                                           *)

Init ==
  /\ source \in Sources
  /\ pc = "top"
  /\ streams = <<FlattenSeq([i \in DOMAIN source |-> source[i].tokens])>>
  /\ decl = None /\ fields = <<>> /\ field = None
  /\ decls = <<>>

Record(d) == decls' = Append(decls, d)

SkipToken ==
  /\ pc = "top" /\ More /\ First \notin Keywords
  /\ Consume(1)
  /\ UNCHANGED <<source, pc, decl, fields, field, decls>>

BeginType ==
  /\ pc = "top" /\ More /\ First \in {Ident("struct"), Ident("enum")}
  /\ \/ /\ At(2, IsIdent)
        /\ decl' = IF First = Ident("struct")
                   THEN [kind |-> "struct", name |-> Current[2].text, fields |-> <<>>]
                   ELSE [kind |-> "enum", name |-> Current[2].text, variants |-> <<>>]
        /\ pc' = "body"
        /\ Consume(2)
        /\ UNCHANGED <<source, fields, field, decls>>
     \/ ~At(2, IsIdent) /\ Fail

\* Only the name is taken; the loop skips what follows it.
TypeAlias ==
  /\ pc = "top" /\ More /\ First = Ident("type")
  /\ \/ /\ At(2, IsIdent)
        /\ Record([kind |-> "alias", name |-> Current[2].text])
        /\ Consume(2)
        /\ UNCHANGED <<source, pc, decl, fields, field>>
     \/ ~At(2, IsIdent) /\ Fail

\* Everything up to a brace group is skipped, then the group is the body.
Body ==
  /\ pc = "body"
  /\ \/ ~More /\ Fail
     \/ /\ More /\ ~IsGroup(First, {"brace"})
        /\ Consume(1)
        /\ UNCHANGED <<source, pc, decl, fields, field, decls>>
     \/ /\ More /\ IsGroup(First, {"brace"})
        /\ Enter(First, 1)
        /\ pc' = IF decl.kind = "struct" THEN "fields" ELSE "variants"
        /\ fields' = <<>>
        /\ UNCHANGED <<source, decl, field, decls>>

Finish ==
  /\ pc = "top" /\ ~More
  /\ pc' = "done"
  /\ UNCHANGED <<source, streams, decl, fields, field, decls>>

-----------------------------------------------------------------------------
(* parse_struct_fields, and parse_fn_args, which is the same text.         *)

IsColon(t) == t = Punct(":")

FieldName ==
  /\ pc = "fields" /\ More /\ IsIdent(First)
  /\ \/ /\ At(2, IsColon)
        /\ field' = [name |-> First.text, ty |-> <<>>]
        /\ pc' = "type"
        /\ Consume(2)
        /\ UNCHANGED <<source, decl, fields, decls>>
     \/ ~At(2, IsColon) /\ Fail

SkipInFields ==
  /\ pc = "fields" /\ More /\ ~IsIdent(First)
  /\ Consume(1)
  /\ UNCHANGED <<source, pc, decl, fields, field, decls>>

\* Mutant: a field is only kept if a comma comes behind it.
FieldTypeToComma ==
  /\ pc = "type"
  /\ \/ /\ More /\ First # Punct(",")
        /\ field' = [field EXCEPT !.ty = PushText(@, First)]
        /\ Consume(1)
        /\ UNCHANGED <<pc, fields>>
     \/ /\ More => First = Punct(",")
        /\ Consume(IF More THEN 1 ELSE 0)
        /\ fields' = IF More THEN Append(fields, field) ELSE fields
        /\ pc' = "fields"
        /\ field' = field
  /\ UNCHANGED <<source, decl, decls>>

\* A type is what stands before the next comma, wherever that is.
FieldType ==
  /\ pc = "type"
  /\ \/ /\ More /\ First # Punct(",")
        /\ field' = [field EXCEPT !.ty = PushText(@, First)]
        /\ Consume(1)
        /\ UNCHANGED <<pc, fields>>
     \/ /\ More => First = Punct(",")
        /\ Consume(IF More THEN 1 ELSE 0)
        /\ fields' = Append(fields, field)
        /\ pc' = "fields"
        /\ field' = field
  /\ UNCHANGED <<source, decl, decls>>

SkipComma(s) == IF s # <<>> /\ Head(s) = Punct(",") THEN Tail(s) ELSE s

\* The end of the group: back to the caller, with the fields.
FieldsEnd ==
  /\ pc = "fields" /\ ~More
  /\ \/ /\ decl.kind = "struct"
        /\ Record([decl EXCEPT !.fields = fields])
        /\ pc' = "top"
        /\ streams' = Tail(streams)
        /\ decl' = decl
     \/ /\ decl.kind = "enum"
        /\ decl' = [decl EXCEPT !.variants[Len(decl.variants)].fields = fields]
        /\ pc' = "variants"
        /\ streams' = <<SkipComma(streams[2])>> \o SubSeq(streams, 3, Len(streams))
        /\ decls' = decls
     \/ /\ decl.kind = "fn"
        /\ decl' = [decl EXCEPT !.args = fields]
        /\ pc' = "signature"
        /\ streams' = Tail(streams)
        /\ decls' = decls
  /\ UNCHANGED <<source, fields, field>>

-----------------------------------------------------------------------------
(* parse_enum_variants.                                                    *)

NewVariant(n) == decl' = [decl EXCEPT !.variants = Append(@, [name |-> n, fields |-> <<>>])]
IsPayload(t) == IsGroup(t, {"paren", "brace"})

\* The payload of a tuple variant goes to parse_struct_fields as well.
VariantFields ==
  /\ pc = "variants" /\ More /\ IsIdent(First) /\ At(2, IsPayload)
  /\ NewVariant(First.text)
  /\ Enter(Current[2], 2)
  /\ pc' = "fields"
  /\ fields' = <<>>
  /\ UNCHANGED <<source, field, decls>>

UnitVariant ==
  /\ pc = "variants" /\ More /\ IsIdent(First) /\ ~At(2, IsPayload)
  /\ NewVariant(First.text)
  /\ streams' = <<SkipComma(Tail(Current))>> \o Tail(streams)
  /\ UNCHANGED <<source, pc, fields, field, decls>>

\* Mutant: the token is looked at and not taken.
SkipInVariantsPeek ==
  /\ pc = "variants" /\ More /\ ~IsIdent(First)
  /\ UNCHANGED vars

SkipInVariants ==
  /\ pc = "variants" /\ More /\ ~IsIdent(First)
  /\ Consume(1)
  /\ UNCHANGED <<source, pc, decl, fields, field, decls>>

VariantsEnd ==
  /\ pc = "variants" /\ ~More
  /\ Record(decl)
  /\ pc' = "top"
  /\ streams' = Tail(streams)
  /\ UNCHANGED <<source, decl, fields, field>>

-----------------------------------------------------------------------------
(* parse_function_sig.                                                     *)

\* Mutant: at most one modifier after the first token.
LeadingOne == IF Len(Current) >= 2 /\ Current[2] \in Modifiers THEN 2 ELSE 1

\* The number of leading modifiers, the first token included: at most four.
Leading ==
  CHOOSE n \in 1 .. 4 :
    /\ n <= Len(Current)
    /\ \A i \in 1 .. n : Current[i] \in Modifiers
    /\ n = 4 \/ n = Len(Current) \/ Current[n + 1] \notin Modifiers

\* Each `fn' among them takes the next token for the name.
BeginSignature ==
  /\ pc = "top" /\ More /\ First \in Modifiers
  /\ LET n == Leading
         found == {Current[i] : i \in 1 .. n}
         fns == Cardinality({i \in 1 .. n : Current[i] = Ident("fn")})
         named == fns > 0 /\ \A i \in 1 .. fns : At(n + i, IsIdent) IN
     \/ /\ named
        /\ decl' = [kind |-> "fn", name |-> Current[n + fns].text,
                    vis |-> Ident("pub") \in found,
                    is_async |-> Ident("async") \in found,
                    is_const |-> Ident("const") \in found,
                    args |-> <<>>, ret |-> None]
        /\ pc' = "signature"
        /\ Consume(n + fns)
        /\ UNCHANGED <<source, fields, field, decls>>
     \/ ~named /\ Fail

Arguments ==
  /\ pc = "signature" /\ More /\ IsGroup(First, {"paren"})
  /\ Enter(First, 1)
  /\ pc' = "fields"
  /\ fields' = <<>>
  /\ UNCHANGED <<source, decl, field, decls>>

IsAngle(t) == t = Punct(">")

Arrow ==
  /\ pc = "signature" /\ More /\ First = Punct("-")
  /\ \/ /\ At(2, IsAngle)
        /\ decl' = [decl EXCEPT !.ret = <<>>]
        /\ pc' = "ret"
        /\ Consume(2)
        /\ UNCHANGED <<source, fields, field, decls>>
     \/ ~At(2, IsAngle) /\ Fail

\* The body, or a semicolon: where a signature and a return type end.
EndsSignature(t) == IsGroup(t, {"brace"}) \/ t = Punct(";")

ReturnType ==
  /\ pc = "ret"
  /\ \/ /\ More /\ ~EndsSignature(First)
        /\ decl' = [decl EXCEPT !.ret = PushText(@, First)]
        /\ Consume(1)
        /\ pc' = pc
     \/ /\ More => EndsSignature(First)
        /\ pc' = "signature"
        /\ UNCHANGED <<streams, decl>>
  /\ UNCHANGED <<source, fields, field, decls>>

SkipInSignature ==
  /\ pc = "signature" /\ More
  /\ ~IsGroup(First, {"paren"}) /\ First # Punct("-") /\ ~EndsSignature(First)
  /\ Consume(1)
  /\ UNCHANGED <<source, pc, decl, fields, field, decls>>

SignatureEnd ==
  /\ pc = "signature" /\ (More => EndsSignature(First))
  /\ Consume(IF More THEN 1 ELSE 0)
  /\ Record(decl)
  /\ pc' = "top"
  /\ UNCHANGED <<source, decl, fields, field>>

-----------------------------------------------------------------------------
Next ==
  \/ SkipToken \/ BeginType \/ TypeAlias \/ Body \/ Finish
  \/ FieldName \/ SkipInFields \/ FieldType \/ FieldsEnd
  \/ VariantFields \/ UnitVariant \/ SkipInVariants \/ VariantsEnd
  \/ BeginSignature \/ Arguments \/ Arrow \/ ReturnType
  \/ SkipInSignature \/ SignatureEnd

-----------------------------------------------------------------------------
(* Properties.                                                             *)

Meaning == FlattenSeq([i \in DOMAIN source |->
             IF source[i].means = Unreadable THEN <<Unreadable>> ELSE source[i].means])

\* Whatever the parser has recorded so far is what the source declares, in
\* its order, and when it says it is done, nothing is missing: no item takes
\* tokens of its neighbour, and what it cannot read it refuses.
Sound ==
  /\ IsPrefix(decls, Meaning)
  /\ pc = "done" => decls = Meaning

\* Items of the kinds the parser supports are accepted, in any order.
Accepts ==
  (\A i \in DOMAIN source : source[i] \in Supported) => pc # "failed"
=============================================================================
