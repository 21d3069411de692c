--------------------------- MODULE MCMacroReading ---------------------------
(***************************************************************************)
(* What the macros read beside the tokens they are given: in one behaviour *)
(* the text of a file of up to five pieces, in another the return types of *)
(* an impl's transitions and the aliases they name, in a third the         *)
(* validators of an impl.                                                  *)
(***************************************************************************)
EXTENDS TransitionContracts

CONSTANTS
  Lawful,          \* the environments rustc accepts
  MaxWeight, NotRead,
  Borrows,         \* methods that name a lifetime twice in a word
  NoState, NoImpl  \* no validator, no impl

-----------------------------------------------------------------------------
\* Return types two levels deep over the machine, a foreign type and four
\* aliases, in a submodule and in the root, under six sets of declarations.
Path(qual, id, args) == [qual |-> qual, id |-> id, args |-> args]
Name(id) == Path("bare", id, <<>>)
Flow(state) == Path("bare", "Flow", <<state>>)
Opt(t) == Path("abs", "Option", <<t>>)
Res(t, u) == Path("abs", "Result", <<t, u>>)
Branch(t, u) == Path("abs", "Branch", <<t, u>>)
T == Name("T")
U == Name("U")

Leaves == {Flow(Name("A")), Flow(Name("B")), Name("Unit"), Name("Done"),
           Path("crate", "Done", <<>>), Path("bare", "To", <<Name("A")>>), Path("crate", "Flow", <<Name("B")>>)}
Inner == UNION {{Opt(t), Path("bare", "Maybe", <<t>>), Path("crate", "Maybe", <<t>>),
                 Path("super", "Alt", <<t, Flow(Name("B"))>>), Path("super", "Alt", <<t, Name("Done")>>)} : t \in Leaves}
         \cup {Res(t, u) : t, u \in Leaves}
Outer == UNION {{Opt(t), Path("crate", "Maybe", <<t>>), Branch(Flow(Name("A")), t)} : t \in Inner}

Fn(written, introspection, receiver) ==
  [return_type |-> written, introspection |-> introspection, has_receiver |-> receiver]
Impl(module, source, functions) ==
  [module |-> module, source_state |-> source, functions |-> functions]

Annotations == {Flow(Name("A")), Opt(Flow(Name("A"))), Res(Flow(Name("A")), Flow(Name("B")))}

ImplsDef ==
  {Impl(m, "A", <<Fn(t, NoType, TRUE)>>) : m \in {"crate", "auth"}, t \in Leaves \cup Inner}
  \cup {Impl("auth", "A", <<Fn(t, NoType, TRUE)>>) : t \in Outer}
  \cup {Impl("auth", "A", <<Fn(t, a, TRUE)>>) : t \in Leaves \cup Inner, a \in Annotations}
  \cup {Impl("auth", "A", <<Fn(t, NoType, TRUE), Fn(u, NoType, r)>>) :
          t, u \in Leaves, r \in BOOLEAN}
  \cup {Impl("crate", "A", <<>>), Impl("crate", "Gone", <<Fn(Flow(Name("A")), NoType, TRUE)>>),
        Impl("crate", "A", <<Fn(NoType, NoType, TRUE)>>), Impl("crate", "A", <<Fn(Flow(Name("C")), NoType, TRUE)>>),
        Impl("crate", "A", <<Fn(Res(Flow(Name("A")), Flow(Name("C"))), NoType, TRUE)>>)}

Alias(params, t) == <<[params |-> params, type |-> t]>>
Declared(root, auth) == [m \in {"crate", "auth"} |-> IF m = "crate" THEN root ELSE auth]

LawfulDef ==
  LET maybe == Alias(<<"T">>, Opt(T))
      alt == Alias(<<"T", "U">>, Res(T, U))
  IN  {Declared(<<>>, <<>>),
       Declared([Maybe |-> maybe, Alt |-> alt, Done |-> Alias(<<>>, Flow(Name("A")))],
                [Done |-> Alias(<<>>, Flow(Name("B")))]),
       Declared([Maybe |-> Alias(<<"T">>, Res(T, Flow(Name("B")))),
                 Alt |-> Alias(<<"U", "T">>, Branch(T, Opt(U))),
                 Done |-> Alias(<<>>, Path("self", "Maybe", <<Flow(Name("A"))>>))],
                [Maybe |-> Alias(<<"T">>, Path("super", "Maybe", <<T>>))]),
       Declared([Maybe |-> maybe, Done |-> Alias(<<>>, Flow(Name("B"))),
                 Alt |-> Alias(<<"T", "U">>, Res(Path("bare", "Maybe", <<T>>), U))],
                [To |-> Alias(<<"T">>, Flow(T)),
                 Done |-> Alias(<<>>, Path("super", "Alt", <<Flow(Name("B")), Name("Unit")>>))])}

\* Two declarations of a name, as under #[cfg], and a cycle.
EnvironmentsDef ==
  LawfulDef \cup
    {Declared([Maybe |-> Alias(<<"T">>, Name("Done")),
               Done |-> Alias(<<>>, Flow(Name("A"))) \o Alias(<<>>, Flow(Name("B")))], <<>>),
     Declared([Done |-> Alias(<<>>, Path("bare", "Maybe", <<Name("Done")>>)),
               Maybe |-> Alias(<<"T">>, Res(T, Name("Done")))], <<>>)}

-----------------------------------------------------------------------------
\* Impls over two states, over states whose names fall together, and over one
\* whose data compares with nothing; every form of answer for the first.
Unit == Path("unit", "()", <<>>)
Text == Name("String")
Opaque == Path("opaque", "dyn", <<>>)
Rejection == Path("statum", "Rejection", <<>>)
Result(q, args) == Path(q, "Result", args)

Draft == [name |-> "Draft", data |-> Unit]
InReview == [name |-> "InReview", data |-> Text]

\* to_snake_case of the names used here.
SnakeNames == [n \in {"Draft", "InReview", "AB", "A_b"} |->
                 CASE n = "Draft" -> "draft" [] n = "InReview" -> "in_review" [] OTHER -> "a_b"]

Answers ==
  {Result(q, <<Unit>> \o e) : q \in {"bare", "statum", "core::result", "abs", "crate", "anyhow"},
     e \in {<<>>, <<Text>>, <<Rejection>>, <<Name("Refusal")>>, <<Text, Text>>}}
  \cup {Path(q, "Validation", <<t>>) : q \in {"bare", "statum", "other"}, t \in {Unit, Text}}
  \cup {Path(q, "Check", <<>>) : q \in {"bare", "super", "crate"}}
  \cup {Path("bare", "Checked", <<t>>) : t \in {Unit, Text, Name("Blank")}}
  \cup {Result("bare", <<>>), Path("bare", "Validation", <<>>), Unit, Name("bool"), NoType}

Validator(name, returned, inputs, awaits) ==
  [state_name |-> name, return_type |-> returned, inputs |-> inputs, is_async |-> awaits]
Asks(name, returned) == Validator(name, returned, <<"&self">>, FALSE)
IsDraft == Asks("draft", Path("bare", "Validation", <<Unit>>))
IsInReview == Validator("in_review", Result("bare", <<Text, Rejection>>), <<"&self">>, TRUE)
Helper == Asks(NoState, NoType)

Written(module, states, functions) ==
  [module |-> module, variants |-> states, functions |-> functions]

PlanImplsDef ==
  {Written(m, <<Draft, InReview>>, <<Asks("draft", t), IsInReview>>) : m \in {"crate", "auth"}, t \in Answers}
  \cup {Written("auth", <<Draft, InReview>>, fs) :
          fs \in SeqOf({IsDraft, IsInReview, Helper, Asks("gone", Result("bare", <<Unit>>)),
                         Asks("Draft", Result("bare", <<Unit>>))}, 3)}
  \cup {Written("auth", <<Draft>>, <<Validator("draft", Result("bare", <<Unit>>), i, FALSE)>>) :
          i \in {<<"&self">>, <<"self">>, <<"&mut self">>, <<"row">>, <<"&self", "row">>, <<>>}}
  \cup {Written("auth", <<[name |-> "AB", data |-> Unit], [name |-> "A_b", data |-> Text]>>,
                 <<Asks("a_b", Result("bare", <<t>>))>>) : t \in {Unit, Text}}
  \cup {Written("auth", <<[name |-> "Draft", data |-> Opaque]>>, <<Asks("draft", Result("bare", <<Opaque>>))>>)}

PlanEnvironmentsDef ==
  {Declared(<<>>, <<>>),
   Declared([Check |-> Alias(<<>>, Result("bare", <<Unit, Rejection>>)),
             Checked |-> Alias(<<"T">>, Path("statum", "Validation", <<T>>))],
            [Check |-> Alias(<<>>, Result("bare", <<Unit, Text>>)),
             Checked |-> Alias(<<"T">>, Path("super", "Checked", <<T>>))]),
   Declared([Result |-> Alias(<<"T">>, Result("core::result", <<T, Rejection>>)),
             Refusal |-> Alias(<<>>, Rejection)],
            [Result |-> Alias(<<"T">>, Path("super", "Result", <<T>>)),
             Blank |-> Alias(<<>>, Unit),
             Check |-> Alias(<<>>, Path("bare", "Result", <<Unit>>))]),
   Declared([Check |-> Alias(<<>>, Name("bool"))],
            [Result |-> Alias(<<"T">>, Path("other", "Answer", <<T>>)),
             Validation |-> Alias(<<"T">>, Result("std::result", <<T, Text>>))])}

-----------------------------------------------------------------------------
\* Pieces of Rust text, each with what Rust makes of it.  The noise tempts a
\* scanner to see a bracket, a quote or a keyword that is not there.
Opener(words, kind, name, tokens, close) ==
    [text |-> words, kind |-> kind, name |-> name, tokens |-> tokens, close |-> close]

SmallOpeners ==
    {Opener("mod a {", "Module", "a", <<"mod", "a", "{">>, "}"),
     Opener("mod b {", "Module", "b", <<"mod", "b", "{">>, "}"),
     Opener("fn get<'a>(x: &'a str) {", "Normal", "",
            <<"fn", "get", "a", "(", "x", "a", "str", ")", "{">>, "}"),
     Opener("macro_rules! make (", "Opaque", "", <<"macro_rules", "!", "make", "(">>, ")")}

Item(words, kind, name, attrs, tokens) ==
    [text |-> words, kind |-> kind, name |-> name, attrs |-> attrs, tokens |-> tokens]

SmallItems ==
    {Item("#[machine] struct S;", "struct", "S", {"machine"}, <<"[", "machine", "]", "struct", "S">>),
     Item("enum S {}", "enum", "S", {}, <<"enum", "S", "{", "}">>),
     Item("type T = S;", "type", "T", {}, <<"type", "T", "S">>)}

Piece(words, newlines, tokens) == [text |-> words, newlines |-> newlines, tokens |-> tokens]
Const(literal, newlines) ==
    Piece("const c: x = " \o literal \o ";", newlines, <<"const", "c", "x">>)

SmallNoise ==
    {Piece("// }\n", 1, <<>>),
     Piece("/* /* } */\n} */", 1, <<>>),
     Const("\"}\n\"", 1), Const("\"\\\"}\"", 0), Const("b\"\\\\\"", 0),
     Const("r#\"\"}\n\"#", 1), Const("br\"{\"", 0),
     Const("'{'", 0), Const("b'\\''", 0), Const("' '", 0),
     Piece("make! { mod a { struct S; } }", 0,
           <<"make", "!", "{", "mod", "a", "{", "struct", "S", "}", "}">>),
     Piece("fn r#mod() {}", 0, <<"fn", "r#mod", "(", ")", "{", "}">>)}

\* A method that borrows from its receiver, as rustfmt leaves it.
Borrowing ==
    {Piece("impl S { fn get<'a>(&'a self) {} }", 0,
           <<"impl", "S", "{", "fn", "get", "a", "(", "a", "self", ")", "{", "}", "}">>)}

SmallFiles == {<<"lib">>, <<"flow", "mod">>}
SmallModules == [f \in SmallFiles |-> IF f = <<"lib">> THEN <<>> ELSE <<"flow">>]

-----------------------------------------------------------------------------
\* The types above, those inside them, and what the aliases make of them.
RECURSIVE Replaced(_, _, _)
Replaced(ty, params, actual) ==
  LET named == {i \in DOMAIN params : IsMarker(ty) /\ params[i] = ty.id}
  IN  IF named # {} THEN actual[CHOOSE i \in named : TRUE]
      ELSE [ty EXCEPT !.args = [i \in DOMAIN @ |-> Replaced(@[i], params, actual)]]

Declarations == UNION {UNION {{[name |-> name, is |-> d[m][name][1]] : name \in DOMAIN d[m]} : m \in DOMAIN d} :
                         d \in EnvironmentsDef \cup PlanEnvironmentsDef}

RECURSIVE Found(_, _)
Found(types, declared) ==
  LET made(ty) == {Replaced(d.is.type, d.is.params, ty.args) :
                     d \in {e \in declared : e.name = ty.id /\ Len(e.is.params) = Len(ty.args)}}
      more == types \cup UNION {ToSet(ty.args) \cup made(ty) : ty \in types}
  IN  IF more = types THEN types ELSE Found(more, declared)

FoundUnder(declared) ==
  Found({d.is.type : d \in declared} \cup Outer \cup (Answers \ {NoType})
        \cup {Res(Flow(Name("A")), Flow(Name("C"))), Result("bare", <<Opaque>>)}, declared)

\* TLC lists AllTypes once, a CONSTANT at every use.
AllTypes == {ty \in FoundUnder(Declarations) : TRUE}
TypesDef == AllTypes

-----------------------------------------------------------------------------
VARIABLES item_impl, methods, existing, has_async, item, planning

Plans == INSTANCE ValidatorPlan WITH
           PlanEnvironments <- PlanEnvironmentsDef, PlanImpls <- PlanImplsDef,
           to_snake_case <- SnakeNames

VARIABLES text, open, line, weight, rust, reading

Reader == INSTANCE SourceReader WITH
            Openers <- SmallOpeners, Items <- SmallItems,
            Noise <- IF Borrows THEN Borrowing ELSE SmallNoise,
            FileNames <- SmallFiles, ModuleOf <- SmallModules

methodVars == <<tr_impl, strict, validated, verdict>>
planVars == <<item_impl, methods, existing, has_async, item, planning>>
textVars == <<text, open, line, weight, rust, reading>>

NoContracts == tr_impl = NoType /\ strict = FALSE /\ validated = <<>> /\ verdict = "none"
NoPlan == /\ item_impl = NoImpl /\ methods = <<>> /\ existing = {}
          /\ has_async = FALSE /\ item = 0 /\ planning = "none"
NoText == text = "none" /\ open = <<>> /\ line = 0 /\ weight = 0 /\ rust = NotRead /\ reading = NotRead

ReadingInit ==
  \/ ContractsInit /\ NoPlan /\ NoText
  \/ Plans!PlanInit /\ NoContracts /\ NoText
  \/ Reader!Init /\ aliases = NoType /\ NoContracts /\ NoPlan

ReadingNext ==
  \/ verdict # "none" /\ ContractsNext /\ UNCHANGED <<planVars, textVars>>
  \/ planning # "none" /\ Plans!PlanNext /\ UNCHANGED <<methodVars, textVars>>
  \/ text # "none" /\ Reader!Next /\ UNCHANGED <<aliases, methodVars, planVars>>

ReadingSpec == ReadingInit /\ [][ReadingNext]_<<contractVars, planVars, textVars>>

-----------------------------------------------------------------------------
\* What the type means to the compiler: names are looked up where they are
\* written, and the parameters of an alias stand for its arguments with the
\* places these were written in.
RECURSIVE Meant(_, _, _), MarkerMeant(_, _, _)
Meant(ty, module, bound) ==
  LET named == resolve_type_alias(ty, module)
      closure(t) == [type |-> t, module |-> module, bound |-> bound]
  IN  IF IsMarker(ty) /\ ty.id \in DOMAIN bound
      THEN Meant(bound[ty.id].type, bound[ty.id].module, bound[ty.id].bound)
      ELSE IF ty.qual # "abs" /\ ty.id = MachineName
      THEN MarkerMeant(ty.args[1], module, bound)
      ELSE UNION {Meant(b, module, bound) : b \in ToSet(Branches(ty))}
           \cup UNION {LET d == aliases[m][ty.id][1]
                       IN  Meant(d.type, m,
                                 [p \in ToSet(d.params) |->
                                    closure(ty.args[CHOOSE i \in DOMAIN d.params : d.params[i] = p])]) :
                         m \in {n \in named : Len(aliases[n][ty.id][1].params) = Len(ty.args)}}

MarkerMeant(ty, module, bound) ==
  IF ty.id \in DOMAIN bound
  THEN MarkerMeant(bound[ty.id].type, bound[ty.id].module, bound[ty.id].bound)
  ELSE {ty.id}

\* Aliases take no aliases as arguments, and the machine is written as in the
\* impl's target.
RECURSIVE AliasFree(_), Plain(_)
AliasFree(ty) == ~IsAlias(ty) /\ \A a \in ToSet(ty.args) : AliasFree(a)
Plain(ty) ==
  /\ ty.id = MachineName => IsMachine(ty) /\ AliasFree(ty)
  /\ \A a \in ToSet(ty.args) : Plain(a) /\ (IsAlias(ty) => AliasFree(a))

PlainAliases == \A m \in DOMAIN aliases : \A name \in DOMAIN aliases[m] :
                  \A d \in ToSet(aliases[m][name]) : Plain(d.type)

Exact(i) == ToSet(validated[i].next_states)
              = Meant(tr_impl.functions[i].return_type, tr_impl.module, <<>>)

\* With aliases followed, the targets are those the compiler sees, as long as no
\* alias is an argument of another and the machine is named in one way: chains of
\* aliases over several modules, parameters, nested wrappers and alternatives
\* neither lose nor invent a target (aliases.rs:154-332).
PlainTypesAreExact ==
  aliases \in Lawful /\ ~strict /\ PlainAliases =>
    \A i \in DOMAIN validated : Plain(tr_impl.functions[i].return_type) => Exact(i)

\* "wrapper aliases, differently qualified machine paths ... are rejected instead
\* of approximated" (docs/introspection-authority.md:31, strict mode).
StrictIsExact ==
  aliases \in Lawful /\ strict => \A i \in DOMAIN validated : Exact(i)

\* The plan of validators is the impl's (plan.rs, signatures.rs).
PlansAreTheImpl == Plans!PlansAreTheImpl

\* The scans take tokens and declarations as Rust does (scan.rs, declarations.rs).
ScansFollowRust == Reader!ScansFollowRust

\* The questions find the items of a module (query.rs).
QueriesFindTheItems == Reader!QueriesFindTheItems
=============================================================================
