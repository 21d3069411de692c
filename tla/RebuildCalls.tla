----------------------------- MODULE RebuildCalls -----------------------------
(***************************************************************************)
(* The calls of a rebuild surface: what #[validators] knows when it        *)
(* expands (the plan of validators, statum-macros/src/validators/plan.rs)  *)
(* and what the program's calls ask of the generated surface.              *)
(***************************************************************************)
EXTENDS Naturals, Sequences

CONSTANTS
  Tasks,          \* concurrent rebuild calls
  Rows, States,
  Plan,           \* the states in the order their validators are tried
  OpOf,           \* the call of each task: "build", "build_report", "explain"
  RowsOf,         \* the rows of each call, in order
  NoRow,
  InvalidState    \* Err(statum::Error::InvalidState)

Operations == {"build", "build_report", "explain"}

\* What collect_validator_plan (ValidatorPlan) lets through: one method per state, in
\* the order of the impl; it refuses an impl that misses a state.
CollectedPlan(plan) ==
  /\ plan \in Seq(States)
  /\ \A s \in States : \E i \in DOMAIN plan : plan[i] = s
  /\ \A i, j \in DOMAIN plan : plan[i] = plan[j] => i = j

\* Two rows of a batch may be the same row.
ASSUME PlanAssumption ==
  /\ CollectedPlan(Plan)
  /\ OpOf \in [Tasks -> Operations]
  /\ RowsOf \in [Tasks -> Seq(Rows)]
  /\ \A t \in Tasks : OpOf[t] = "explain" => Len(RowsOf[t]) = 1
  /\ NoRow \notin Rows
  /\ InvalidState \notin States

=============================================================================
