---------------------------- MODULE ValidatorPlan ----------------------------
(***************************************************************************)
(* #[validators] collects its plan (validators/plan.rs): the methods of    *)
(* the impl in order, each with the state it rebuilds and the way its      *)
(* answer is read, or the impl is refused.  RebuildCalls starts from the   *)
(* plan.                                                                   *)
(*                                                                         *)
(* Types are those of ReturnTypes; "opaque" qualifies one that is not      *)
(* equivalent to anything, as `dyn Trait` or `fn()`.  Items that are not   *)
(* methods are skipped by the code and left out here.                      *)
(***************************************************************************)
EXTENDS ReturnTypes, FiniteSetsExt

CONSTANTS
  PlanEnvironments,  \* the alias declarations around an impl
  PlanImpls,         \* [module, variants, functions]
  to_snake_case,     \* the name of a variant -> its snake_case
  NoState,           \* the name of a method does not start with is_
  NoType             \* no return type

VARIABLES
  item_impl,    \* the impl
  methods,      \* the contracts of the methods planned so far
  existing,     \* the state names seen
  has_async,
  item,         \* the method looked at
  planning

planVars == <<aliases, item_impl, methods, existing, has_async, item, planning>>

variants == item_impl.variants
method == item_impl.functions[item]

\* The later variant takes a name it shares: variant_by_name.
SpecOf(name) ==
  LET named == {i \in DOMAIN variants : name \in {variants[i].name, to_snake_case[variants[i].name]}}
  IN  IF named = {} THEN {} ELSE {Max(named)}

valid_state_names == {to_snake_case[variants[i].name] : i \in DOMAIN variants}

-----------------------------------------------------------------------------
\* A leading `::` makes no difference.
direct_supported_validator_ok_type(ty) ==
  LET diagnostic == ty.id = "Validation" \/ (Len(ty.args) = 2 /\ ty.args[2].id = "Rejection")
      supported  == \/ ty.id = "Validation" /\ ty.qual \in {"bare", "statum", "abs"} /\ Len(ty.args) = 1
                    \/ /\ ty.id = "Result" /\ ty.qual \in {"bare", "statum", "core::result", "std::result", "abs"}
                       /\ Len(ty.args) \in {1, 2}
  IN  {[ok_type |-> ty.args[1], return_kind |-> IF diagnostic THEN "Diagnostic" ELSE "Plain"] :
         ok \in {TRUE} \cap {supported}}

\* An alias that leads to no wrapper may be named like one.
RECURSIVE supported_in_context(_, _, _)
supported_in_context(ty, context, visited) ==
  LET expanded == UNION {supported_in_context(e.type, e.context, e.visited) :
                           e \in expand_source_type_alias(ty, context, visited)}
  IN  IF expanded # {} THEN expanded ELSE direct_supported_validator_ok_type(ty)

\* Mutant: the name of a wrapper is believed before an alias of that name is
\* followed.
extract_supported_validator_ok_type_ByName(ty) ==
  LET believed == direct_supported_validator_ok_type(ty)
  IN  IF believed # {} THEN believed ELSE supported_in_context(ty, item_impl.module, {})

\* SourceAliasResolver::find_map: with the impl's module, then without.
extract_supported_validator_ok_type(ty) ==
  LET followed == supported_in_context(ty, item_impl.module, {})
  IN  IF followed # {} THEN followed ELSE supported_in_context(ty, NoContext, {})

\* Token by token; what the comparison has no case for is never equivalent.
RECURSIVE types_equivalent(_, _)
types_equivalent(left, right) ==
  /\ left.qual # "opaque"
  /\ <<left.qual, left.id, Len(left.args)>> = <<right.qual, right.id, Len(right.args)>>
  /\ \A i \in DOMAIN left.args : types_equivalent(left.args[i], right.args[i])

\* Err is the empty set.
build_validator_method_contract(f, spec) ==
  LET read == IF f.return_type = NoType THEN {} ELSE extract_supported_validator_ok_type(f.return_type)
  IN  {[variant |-> spec, return_kind |-> r.return_kind, is_async |-> f.is_async] :
         r \in {s \in read : /\ f.inputs = <<"&self">>
                             /\ types_equivalent(s.ok_type, variants[spec].data)}}

-----------------------------------------------------------------------------
CheckAnyMethods ==
  /\ planning = "resolved"
  /\ planning' = IF item_impl.functions = <<>> THEN "refused" ELSE "collecting"
  /\ UNCHANGED <<aliases, item_impl, methods, existing, has_async, item>>

NextMethod ==
  /\ planning = "collecting"
  /\ item \in DOMAIN item_impl.functions
  /\ item' = item + 1
  /\ UNCHANGED <<aliases, item_impl>>

SkipMethod ==
  /\ NextMethod
  /\ method.state_name = NoState
  /\ UNCHANGED <<methods, existing, has_async, planning>>

\* Its name is complained of when all methods have been seen.
UnknownMethod ==
  /\ NextMethod
  /\ method.state_name # NoState
  /\ SpecOf(method.state_name) = {}
  /\ existing' = existing \cup {method.state_name}
  /\ UNCHANGED <<methods, has_async, planning>>

PlanMethod ==
  /\ NextMethod
  /\ method.state_name # NoState
  /\ existing' = existing \cup {method.state_name}
  /\ \E spec \in SpecOf(method.state_name) :
       LET built == build_validator_method_contract(method, spec)
       IN  \/ \E contract \in built :
                /\ methods' = Append(methods, contract)
                /\ has_async' = (has_async \/ contract.is_async)
                /\ UNCHANGED planning
           \/ /\ built = {}
              /\ planning' = "refused"
              /\ UNCHANGED <<methods, has_async>>

FinishPlan ==
  /\ planning = "collecting"
  /\ item \notin DOMAIN item_impl.functions
  /\ planning' = IF existing = valid_state_names THEN "planned" ELSE "refused"
  /\ UNCHANGED <<aliases, item_impl, methods, existing, has_async, item>>

PlanInit ==
  /\ aliases \in PlanEnvironments
  /\ item_impl \in PlanImpls
  /\ methods = <<>>
  /\ existing = {}
  /\ has_async = FALSE
  /\ item = 1
  /\ planning = "resolved"

PlanNext == CheckAnyMethods \/ SkipMethod \/ UnknownMethod \/ PlanMethod \/ FinishPlan

-----------------------------------------------------------------------------
\* What a type is to the compiler, imports aside.  The usual names of a wrapper
\* are one; any other name that is no alias stands for itself.
WrapperNames == {<<q, "Result">> : q \in {"bare", "statum", "core::result", "std::result", "abs"}}
                \cup {<<q, "Validation">> : q \in {"bare", "statum", "abs"}}

RECURSIVE Denoted(_, _, _)
Denoted(ty, module, bound) ==
  LET found   == {n \in resolve_type_alias(ty, module) : Len(aliases[n][ty.id][1].params) = Len(ty.args)}
      m       == CHOOSE n \in found : TRUE
      alias   == aliases[m][ty.id][1]
      actual(p) == ty.args[CHOOSE i \in DOMAIN alias.params : alias.params[i] = p]
  IN  IF IsMarker(ty) /\ ty.id \in DOMAIN bound
      THEN Denoted(bound[ty.id].type, bound[ty.id].module, bound[ty.id].bound)
      ELSE IF found # {}
      THEN Denoted(alias.type, m, [p \in ToSet(alias.params) |->
                                     [type |-> actual(p), module |-> module, bound |-> bound]])
      ELSE [qual |-> IF <<ty.qual, ty.id>> \in WrapperNames THEN "wrapper" ELSE ty.qual, id |-> ty.id,
            args |-> [i \in DOMAIN ty.args |-> Denoted(ty.args[i], module, bound)]]

Answer(f) == Denoted(f.return_type, item_impl.module, <<>>)

IsAnswer(d) == d.qual = "wrapper" /\ Len(d.args) \in IF d.id = "Result" THEN {1, 2} ELSE {1}

Explains(d) == d.id = "Validation" \/ (Len(d.args) = 2 /\ d.args[2].id = "Rejection")

DataOf(v) == Denoted(v.data, item_impl.module, <<>>)

\* Payloads and errors are written out: an alias may only be the whole type.
RECURSIVE WrittenOut(_)
WrittenOut(ty) ==
  /\ ty.qual # "opaque"
  /\ \A a \in ToSet(ty.args) : ~IsAlias(a) /\ WrittenOut(a)

Comparable ==
  /\ \A m \in DOMAIN aliases : \A name \in DOMAIN aliases[m] : WrittenOut(aliases[m][name][1].type)
  /\ \A f \in ToSet(item_impl.functions) : f.return_type # NoType => WrittenOut(f.return_type)
  /\ \A v \in ToSet(variants) : ~IsAlias(v.data) /\ WrittenOut(v.data)

Validators == SelectSeq(item_impl.functions, LAMBDA f : f.state_name # NoState)

NamesDiffer ==
  /\ Cardinality(valid_state_names) = Len(variants)
  /\ IsInjective([i \in DOMAIN Validators |-> Validators[i].state_name])

\* Every state has its one validator, which takes &self and answers with its data.
Rebuilds ==
  /\ {f.state_name : f \in ToSet(Validators)} = valid_state_names
  /\ \A f \in ToSet(Validators) :
       /\ f.inputs = <<"&self">>
       /\ f.return_type # NoType
       /\ IsAnswer(Answer(f))
       /\ \A v \in ToSet(variants) :
            f.state_name = to_snake_case[v.name] => Answer(f).args[1] = DataOf(v)

\* The validator of a state returns its data, and the surface keeps the reason of
\* a refusal exactly if the type has one to give; the mistake would go
\* unnoticed, a report without reasons (signatures.rs:123-207, 288-415).
ReadAsMeant(i) ==
  LET d == Answer(Validators[i])
  IN  IsAnswer(d) =>
        /\ d.args[1] = DataOf(variants[methods[i].variant])
        /\ methods[i].return_kind = "Diagnostic" <=> Explains(d)

\* The plan, what RebuildCalls takes for granted, is one method per state, as long
\* as no two names fall together, in the order of the impl, each read as the
\* compiler will read it; and no impl that rebuilds every state is refused
\* (plan.rs:14-115, signatures.rs:32-207).
PlansAreTheImpl ==
  /\ planning = "planned" =>
       /\ Len(methods) = Len(Validators)
       /\ NamesDiffer =>
            /\ {methods[i].variant : i \in DOMAIN methods} = DOMAIN variants
            /\ IsInjective([i \in DOMAIN methods |-> methods[i].variant])
       /\ Comparable => \A i \in DOMAIN methods : ReadAsMeant(i)
       /\ has_async <=> \E f \in ToSet(Validators) : f.is_async
  /\ planning = "refused" => ~(NamesDiffer /\ Comparable /\ Validators # <<>> /\ Rebuilds)

=============================================================================
