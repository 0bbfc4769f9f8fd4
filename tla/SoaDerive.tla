------------------------------- MODULE SoaDerive -------------------------------
(***************************************************************************)
(* derive(Soa) (soa/src/lib.rs): parses its input with DeclarationParser   *)
(* and generates code for the one struct it finds.  Of the code only what  *)
(* it is generated from matters here: the name and the fields, in order.   *)
(***************************************************************************)
EXTENDS DeclarationParser

VARIABLE expansion   \* None, then what the macro returns

macroVars == <<vars, expansion>>

CompileError == [kind |-> "compile_error"]
Panic == [kind |-> "panic"]
Code(d) == [kind |-> "code", name |-> d.name, fields |-> d.fields]

\* Mutant: the first declaration is taken, whatever follows it.
ExpandedFirst ==
  CASE pc = "failed" -> CompileError
    [] pc # "failed" /\ decls = <<>> -> Panic
    [] pc # "failed" /\ decls # <<>> ->
         IF decls[1].kind = "struct" THEN Code(decls[1]) ELSE CompileError

\* decls[0] of an empty result panics.
Expanded ==
  CASE pc = "failed" \/ Len(decls) > 1 -> CompileError
    [] pc # "failed" /\ decls = <<>> -> Panic
    [] pc # "failed" /\ Len(decls) = 1 ->
         IF decls[1].kind = "struct" THEN Code(decls[1]) ELSE CompileError

Expand ==
  /\ pc \in {"done", "failed"} /\ expansion = None
  /\ expansion' = Expanded
  /\ UNCHANGED vars

MacroInit == Init /\ expansion = None
MacroNext == (Next /\ expansion' = expansion) \/ Expand

\* The compiler calls the macro and waits; nothing interrupts its loops.
MacroSpec == MacroInit /\ [][MacroNext]_macroVars /\ WF_macroVars(MacroNext)

-----------------------------------------------------------------------------
\* The macro generates code only for an input that is one struct with named
\* fields, and then with exactly its fields in the order of the source, which
\* is the order the generated accessors rely on.
CodeOfSource ==
  expansion # None /\ expansion.kind = "code" =>
    /\ Len(Meaning) = 1
    /\ Meaning[1] # Unreadable /\ Meaning[1].kind = "struct"
    /\ expansion.name = Meaning[1].name /\ expansion.fields = Meaning[1].fields

\* Every invocation of the macro returns: each loop of the parser takes a token
\* or leaves, whatever the input.
Returns == <>(expansion # None)
=============================================================================
