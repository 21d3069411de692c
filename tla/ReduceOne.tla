------------------------------ MODULE ReduceOne ------------------------------
(***************************************************************************)
(* reduce_one (statum-core/src/projection.rs): one stream of events into   *)
(* one projection.  The first event seeds it, the later ones are applied   *)
(* to it, and the first refusal is the result.                             *)
(***************************************************************************)
EXTENDS Naturals, Sequences

CONSTANTS
  Events, Projections, Errors,
  seed,          \* what ProjectionReducer::seed returns for an event
  apply,         \* what apply leaves of a projection, or its error
  NoProjection,
  EmptyInput

(* A reducer answers every event with a projection or an error; whoever    *)
(* instantiates the module assumes it of seed and apply.                   *)
VARIABLES
  seen,        \* history: the events taken from the iterator
  projection,
  result

vars == <<seen, projection, result>>

Running == [kind |-> "running", value |-> NoProjection]
Ok(p) == [kind |-> "ok", value |-> p]
Err(e) == [kind |-> "err", value |-> e]

\* What the reducer makes of event e after p.
Reduced(p, e) == IF p = NoProjection THEN seed[e] ELSE apply[p][e]

Take(e) ==
  LET reduced == Reduced(projection, e)
  IN  /\ result = Running
      /\ seen' = Append(seen, e)
      /\ \/ /\ reduced \in Projections
            /\ projection' = reduced
            /\ UNCHANGED result
         \/ /\ reduced \in Errors
            /\ result' = Err(reduced)
            /\ UNCHANGED projection

\* The iterator is exhausted.
End ==
  /\ result = Running
  /\ result' = IF projection = NoProjection THEN Err(EmptyInput) ELSE Ok(projection)
  /\ UNCHANGED <<seen, projection>>

Init ==
  /\ seen = <<>>
  /\ projection = NoProjection
  /\ result = Running

Next == End \/ \E e \in Events : Take(e)

Spec == Init /\ [][Next]_vars

=============================================================================
