------------------------- MODULE TransitionContracts -------------------------
(***************************************************************************)
(* The methods of one #[transition] impl are validated one after another   *)
(* (transition/validation.rs): each gets its contract, the targets that    *)
(* the machine's graph will list for it, or the impl is refused.           *)
(***************************************************************************)
EXTENDS ReturnTypes

CONSTANTS
  Variants,        \* of the machine's state enum
  Environments,    \* the alias declarations around an impl
  Impls,           \* [module, source_state, functions]
  NoType           \* no return type, or no #[introspect(return = ..)]

VARIABLES
  tr_impl,      \* the impl
  strict,       \* the feature strict-introspection
  validated,    \* the contracts of the methods validated so far
  verdict

contractVars == <<aliases, tr_impl, strict, validated, verdict>>

\* An environment covers the modules of the impls.
ASSUME ContractsAssumption ==
  /\ \A environment \in Environments, ty \in Types : \A m \in DOMAIN environment :
       ty.id \in DOMAIN environment[m] /\ Len(environment[m][ty.id]) = 1 =>
         instantiate_type_alias(environment[m][ty.id][1], ty) \subseteq Types
  /\ \A impl \in Impls :
       /\ \A environment \in Environments : impl.module \in DOMAIN environment
       /\ impl.functions \in Seq([return_type : Types \cup {NoType}, introspection : Types \cup {NoType},
                                  has_receiver : BOOLEAN])

func == tr_impl.functions[Len(validated) + 1]

\* build_transition_contract: Err is the empty set.  An annotation is read
\* without aliases, and must agree with what is written.
build_transition_contract(f) ==
  LET mode == strict /\ f.introspection = NoType
  IN  IF f.return_type = NoType THEN {}
      ELSE {c \in resolve_transition_targets(f.return_type, tr_impl.module, mode) :
              f.introspection # NoType => c \in resolve_in_context(f.introspection, NoContext)}

all_next_states(contract) == {contract.primary_next_state} \cup ToSet(contract.next_states)

Accepted(f) ==
  {c \in build_transition_contract(f) : f.has_receiver /\ all_next_states(c) \subseteq Variants}

-----------------------------------------------------------------------------
CheckImpl ==
  /\ verdict = "parsed"
  /\ verdict' = IF tr_impl.functions # <<>> /\ tr_impl.source_state \in Variants
                THEN "validating" ELSE "refused"
  /\ UNCHANGED <<aliases, tr_impl, strict, validated>>

CheckMethod ==
  /\ verdict = "validating"
  /\ Len(validated) < Len(tr_impl.functions)
  /\ LET accepted == Accepted(func)
     IN  \/ \E contract \in accepted :
              /\ validated' = Append(validated, contract)
              /\ UNCHANGED verdict
         \/ /\ accepted = {}
            /\ verdict' = "refused"
            /\ UNCHANGED validated
  /\ UNCHANGED <<aliases, tr_impl, strict>>

Done ==
  /\ verdict = "validating"
  /\ Len(validated) = Len(tr_impl.functions)
  /\ verdict' = "validated"
  /\ UNCHANGED <<aliases, tr_impl, strict, validated>>

ContractsInit ==
  /\ aliases \in Environments
  /\ tr_impl \in Impls
  /\ strict \in BOOLEAN
  /\ validated = <<>>
  /\ verdict = "parsed"

ContractsNext == CheckImpl \/ CheckMethod \/ Done

ContractsSpec == ContractsInit /\ [][ContractsNext]_contractVars

-----------------------------------------------------------------------------
ContractsTypeOK ==
  /\ validated \in Seq([primary_next_state : Variants, next_states : Seq(Variants)])
  /\ verdict \in {"parsed", "validating", "refused", "validated"}

\* The two walks over a return type agree: the primary target that messages and
\* annotations are about is the first one the graph lists
\* (strategy.rs:67-121 and 162-229).
PrimaryLeads ==
  \A i \in DOMAIN validated :
    /\ validated[i].next_states # <<>>
    /\ validated[i].primary_next_state = validated[i].next_states[1]

\* strict-introspection never invents a target: what it accepts has, without it,
\* the same primary target and at least the same targets (targets.rs:175-200).
StrictNeverInvents ==
  strict => \A i \in DOMAIN validated :
    LET f == tr_impl.functions[i]
    IN  \E followed \in resolve_transition_targets(f.return_type, tr_impl.module, FALSE) :
          /\ followed.primary_next_state = validated[i].primary_next_state
          /\ ToSet(validated[i].next_states) \subseteq ToSet(followed.next_states)

=============================================================================
