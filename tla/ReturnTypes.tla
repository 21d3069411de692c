----------------------------- MODULE ReturnTypes -----------------------------
(***************************************************************************)
(* How #[transition] reads target states off a return type                 *)
(* (transition/resolve, transition/contract/targets.rs, source/aliases.rs).*)
(*                                                                         *)
(* A type is a path: how it is qualified, its last identifier, and its     *)
(* type arguments; "abs" is a leading `::`.  Other arguments, defaults of  *)
(* alias parameters, and modules deeper than one below the root are left   *)
(* out, and so are imports, which the code does not follow.                *)
(***************************************************************************)
EXTENDS Naturals, SequencesExt

CONSTANTS
  MachineName,   \* the machine of the impl: its target is MachineName<..>
  Root,          \* the module "crate"
  NoContext,     \* no source to look for aliases in
  Types,         \* the types that are written, and what aliases make of them
  MaxDepth       \* bound on the arguments and aliases entered one in another

VARIABLE aliases   \* module -> name -> the declarations found, [params, type]

ASSUME TypesAssumption ==
  /\ MaxDepth \in Nat
  /\ \A ty \in Types : ty.id \in STRING /\ ty.args \in Seq(Types)

\* What the walks over a return type are called with, beside the targets.
Calls == [type : Types, context : (DOMAIN aliases) \cup {NoContext},
          visited : SUBSET ((DOMAIN aliases) \X STRING)]

\* machine_segment_matching_target.
IsMachine(ty) == ty.qual \in {"bare", "self"} /\ ty.id = MachineName /\ Len(ty.args) = 1

\* extract_state_marker: a bare identifier, whatever it names.
IsMarker(ty) == ty.qual = "bare" /\ ty.args = <<>>

supported_wrapper(ty) == ty.qual = "abs" /\ ty.id \in {"Option", "Result", "Branch"}

First(branches) == {branches[i] : i \in DOMAIN branches \cap {1}}

\* The arguments of a wrapper that may hold a machine; an Option has one.
Branches(ty) == IF supported_wrapper(ty) THEN ty.args ELSE <<>>

-----------------------------------------------------------------------------
\* At most one module; a path that starts anywhere else is not followed.
alias_module_path(ty, context) ==
  CASE ty.qual \in {"bare", "self"} -> {context}
    [] ty.qual = "crate" -> {Root}
    [] ty.qual = "super" -> {Root} \ {context}
    [] OTHER -> {}

\* One declaration, or it is ambiguous.
resolve_type_alias(ty, context) ==
  {m \in alias_module_path(ty, context) :
     m \in DOMAIN aliases /\ ty.id \in DOMAIN aliases[m] /\ Len(aliases[m][ty.id]) = 1}

\* TypeAliasSubstituter.
Substituted(declared, params, actual) ==
  LET substituted[ty \in Types] ==
        IF IsMarker(ty) /\ Contains(params, ty.id)
        THEN actual[CHOOSE i \in DOMAIN params : params[i] = ty.id]
        ELSE [ty EXCEPT !.args = [i \in DOMAIN @ |-> substituted[@[i]]]]
  IN  substituted[declared]

instantiate_type_alias(declaration, ty) ==
  {Substituted(declaration.type, declaration.params, ty.args) :
     n \in {Len(declaration.params)} \cap {Len(ty.args)}}

\* Mutant: what an alias stands for is looked up where the alias is used.
expand_source_type_alias_AtUse(ty, context, visited) ==
  UNION {{[type |-> t, context |-> context, visited |-> visited \cup {<<m, ty.id>>}] :
            t \in instantiate_type_alias(aliases[m][ty.id][1], ty)} :
           m \in {n \in resolve_type_alias(ty, context) :
                    context # NoContext /\ <<n, ty.id>> \notin visited}}

\* The arguments go on in the alias's module, and the alias is not expanded
\* again until they are done.
expand_source_type_alias(ty, context, visited) ==
  UNION {{[type |-> t, context |-> m, visited |-> visited \cup {<<m, ty.id>>}] :
            t \in instantiate_type_alias(aliases[m][ty.id][1], ty)} :
           m \in {n \in resolve_type_alias(ty, context) :
                    context # NoContext /\ <<n, ty.id>> \notin visited}}

\* `inner` is the function itself, one call further in.
parse_primary_machine_and_state_inner(inner, call) ==
  LET ty == call.type
      expansion == expand_source_type_alias(ty, call.context, call.visited)
  IN  IF IsMachine(ty) THEN {a.id : a \in {b \in {ty.args[1]} : IsMarker(b)}}
      ELSE IF expansion # {} THEN UNION {inner[e] : e \in expansion}
      ELSE UNION {inner[[call EXCEPT !.type = b]] : b \in First(Branches(ty))}

parse_primary_machine_and_state[depth \in 0 .. MaxDepth] ==
  [call \in Calls |->
     IF depth = 0 THEN {}
     ELSE parse_primary_machine_and_state_inner(parse_primary_machine_and_state[depth - 1], call)]

\* Mutant: a new target is put before the ones already found.
push_unique_target_Front(targets, state) ==
  IF Contains(targets, state) THEN targets ELSE <<state>> \o targets

push_unique_target(targets, state) ==
  IF Contains(targets, state) THEN targets ELSE Append(targets, state)

\* The targets once the first i branches are read.
BranchesRead(inner, call, targets) ==
  LET branches == Branches(call.type)
      read[i \in 0 .. Len(branches)] ==
        IF i = 0 THEN targets ELSE inner[[call EXCEPT !.type = branches[i]]][read[i - 1]]
  IN  read

collect_machine_targets_inner(inner, call, targets) ==
  LET ty == call.type
      expansion == expand_source_type_alias(ty, call.context, call.visited)
  IN  IF IsMachine(ty)
      THEN IF IsMarker(ty.args[1]) THEN push_unique_target(targets, ty.args[1].id) ELSE targets
      ELSE IF expansion # {} THEN inner[CHOOSE e \in expansion : TRUE][targets]
      ELSE BranchesRead(inner, call, targets)[Len(Branches(ty))]

collect_machine_targets[depth \in 0 .. MaxDepth] ==
  [call \in Calls |-> [targets \in Seq(STRING) |->
     IF depth = 0 THEN targets
     ELSE collect_machine_targets_inner(collect_machine_targets[depth - 1], call, targets)]]

-----------------------------------------------------------------------------
\* A set stands for an Option: resolve_transition_targets_in_context, or without
\* a context resolve_transition_targets_strict.
resolve_in_context(ty, context) ==
  LET call == [type |-> ty, context |-> context, visited |-> {}]
      found == {[primary_next_state |-> s,
                 next_states |-> collect_machine_targets[MaxDepth][call][<<>>]] :
                  s \in parse_primary_machine_and_state[MaxDepth][call]}
  IN  {targets \in found : targets.next_states # <<>>}

\* In the strict mode without a context; else SourceAliasResolver::find_map: with
\* the module's context, then without.
find_map(resolved, module, strict) ==
  IF strict \/ resolved[module] = {} THEN resolved[NoContext] ELSE resolved[module]

\* Mutant: the two modes are exchanged.
resolve_transition_targets_Exchanged(ty, module, strict) ==
  find_map([context \in {module, NoContext} |-> resolve_in_context(ty, context)], module, ~strict)

resolve_transition_targets(ty, module, strict) ==
  find_map([context \in {module, NoContext} |-> resolve_in_context(ty, context)], module, strict)

-----------------------------------------------------------------------------
\* An alias: some module declares the name.
IsAlias(ty) == ty.qual # "abs" /\ \E m \in DOMAIN aliases : ty.id \in DOMAIN aliases[m]

=============================================================================
