----------------------------- MODULE GraphReview -----------------------------
(***************************************************************************)
(* A workflow under the review that docs/graph-diff-migrations.md          *)
(* recommends: each new graph is compared with the baseline, and becomes   *)
(* the baseline, and what runs, when cargo statum graph diff --fail-on     *)
(* passes.  Meanwhile the persisted rows move along the running graph and  *)
(* record their transitions (statum-core/src/introspection/recording.rs).  *)
(***************************************************************************)
EXTENDS GraphDiff

CONSTANTS
  Snapshots,    \* the snapshots that may be proposed
  Rows,
  MaxMoves,     \* bound: the transitions of one row
  MaxReviews    \* bound: the graphs that are proposed

VARIABLES
  fail_on,    \* the severity the repository's job fails on
  baseline,   \* the snapshot of the running graph
  rows,       \* each row's state, and whether it was written with data
  recorded,   \* the transitions each row has recorded
  reviews     \* history: the comparisons made, and whether they passed

vars == <<fail_on, baseline, rows, recorded, reviews>>

ASSUME ReviewAssumption ==
  /\ Snapshots \subseteq GraphSnapshots
  /\ MaxMoves \in Nat
  /\ MaxReviews \in Nat

HasData(g, s) == StateOf(g, s).has_data
Stored(g, s) == [state |-> s, has_data |-> HasData(g, s)]

-----------------------------------------------------------------------------
\* RecordedTransition joined to a graph; snapshots of other machines are never
\* comparable, so the machine is the same.
transition_in(g, event) ==
  {g.transitions[i] : i \in {k \in DOMAIN g.transitions :
     /\ Site(g.transitions[k]) = <<event[1], event[2]>>
     /\ \E n \in DOMAIN g.transitions[k].to_states : g.transitions[k].to_states[n] = event[3]}}

state_of(g, name) == {s \in {g.states[i] : i \in DOMAIN g.states} : s.rust_name = name}
source_state_in(g, event) == IF transition_in(g, event) = {} THEN {} ELSE state_of(g, event[1])
chosen_state_in(g, event) == IF transition_in(g, event) = {} THEN {} ELSE state_of(g, event[3])

telemetry_labels_in(g, event) ==
  {<<from.rust_name, t.method_name, chosen.rust_name>> :
     t \in transition_in(g, event),
     from \in source_state_in(g, event), chosen \in chosen_state_in(g, event)}

-----------------------------------------------------------------------------
\* A graph the macros emit has its keys once and declares its targets; a snapshot
\* is a file and may hold anything.
Emitted(g) ==
  /\ g.snapshot_version = "v1"
  /\ Indexed(g)
  /\ \A e \in edge_keys(g) : {e[1], e[3]} \subseteq state_keys(g)

\* render_graph_diff on the baseline and a proposed graph.
Propose(g) ==
  /\ Len(reviews) < MaxReviews
  /\ reviews' = Append(reviews, [before |-> baseline, after |-> g,
                                 passed |-> Passes(baseline, g, fail_on)])
  /\ baseline' = IF Passes(baseline, g, fail_on) /\ Emitted(g) THEN g ELSE baseline
  /\ UNCHANGED <<fail_on, rows, recorded>>

\* Mutant: the chosen target is not looked up among the legal ones.
try_record_transition_AnyTarget(r, site, chosen) ==
  /\ Len(recorded[r]) < MaxMoves
  /\ site \in site_keys(baseline)
  /\ site[1] = rows[r].state
  /\ chosen \in state_keys(baseline)
  /\ recorded' = [recorded EXCEPT ![r] = Append(@, site \o <<chosen>>)]
  /\ rows' = [rows EXCEPT ![r] = Stored(baseline, chosen)]
  /\ UNCHANGED <<fail_on, baseline, reviews>>

\* A row's machine takes a transition of its state, records it and is stored.
try_record_transition(r, site, chosen) ==
  /\ Len(recorded[r]) < MaxMoves
  /\ site[1] = rows[r].state
  /\ site \o <<chosen>> \in edge_keys(baseline)
  /\ recorded' = [recorded EXCEPT ![r] = Append(@, site \o <<chosen>>)]
  /\ rows' = [rows EXCEPT ![r] = Stored(baseline, chosen)]
  /\ UNCHANGED <<fail_on, baseline, reviews>>

Init ==
  /\ fail_on \in {0, Informational, Review, Breaking}
  /\ baseline \in {g \in Snapshots : Emitted(g) /\ g.states # <<>>}
  /\ rows \in [Rows -> {Stored(baseline, s) : s \in state_keys(baseline)}]
  /\ recorded = [r \in Rows |-> <<>>]
  /\ reviews = <<>>

Next ==
  \/ \E g \in Snapshots : Propose(g)
  \/ \E r \in Rows, site \in site_keys(baseline), chosen \in StateNames :
       try_record_transition(r, site, chosen)

Spec == Init /\ [][Next]_vars

-----------------------------------------------------------------------------
TypeOK ==
  /\ fail_on \in 0 .. Breaking
  /\ baseline \in Snapshots
  /\ Emitted(baseline)
  /\ rows \in [Rows -> [state : StateNames, has_data : BOOLEAN]]
  /\ recorded \in [Rows -> Seq(StateNames \X Methods \X StateNames)]
  /\ reviews \in Seq([before : Snapshots, after : Snapshots, passed : BOOLEAN])

\* A repository that fails on breaking changes never ships a graph that strands
\* a persisted row or that a recorded transition can no longer be joined to,
\* however many graphs have been shipped since the row was written
\* (main.rs:611-790, recording.rs).
RowsSurviveReview ==
  fail_on # 0 =>
    \A r \in Rows :
      /\ rows[r].state \in state_keys(baseline)
      /\ HasData(baseline, rows[r].state) = rows[r].has_data
      /\ \A i \in DOMAIN recorded[r] :
           telemetry_labels_in(baseline, recorded[r][i]) = {recorded[r][i]}

Legality(g) == <<state_keys(g), site_keys(g), edge_keys(g),
                 {<<s, HasData(g, s)>> : s \in state_keys(g)}>>

\* A repository that fails on review changes keeps the workflow it started with,
\* through any number of graphs shipped one after another (main.rs:332-340).
ReviewKeepsLegality ==
  fail_on \in {Informational, Review} =>
    \A i \in DOMAIN reviews :
      reviews[i].passed => Legality(reviews[i].after) = Legality(reviews[1].before)

\* "Labels and descriptions are presentation changes. They should be reported,
\* but not treated as workflow legality changes." (graph-diff-migrations.md:117-118)
PresentationChangesAreReported ==
  \A i \in DOMAIN reviews :
    LET before == reviews[i].before
        after == reviews[i].after
    IN  Comparable(before, after) /\ diff_snapshots(before, after) = {} =>
          \A k \in DOMAIN before.transitions, n \in DOMAIN after.transitions :
            Site(before.transitions[k]) = Site(after.transitions[n]) =>
              before.transitions[k].label = after.transitions[n].label

=============================================================================
