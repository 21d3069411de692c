------------------------------ MODULE GraphDiff ------------------------------
(***************************************************************************)
(* cargo statum graph diff (cargo-statum/src/main.rs): what it reports     *)
(* between two snapshots of a machine's graph metadata, and whether        *)
(* --fail-on lets them pass.  Messages and the order of the report are     *)
(* left out; a change is its severity, category and key.                   *)
(***************************************************************************)
EXTENDS Naturals, Sequences

CONSTANTS
  StateNames, Methods,
  Labels,        \* label and description together
  Identities,    \* package, machine_key, feature_set and graph version
  Cases          \* the lists of unsupported cases

\* StableStateMetadata, StableTransitionMetadata, GraphSnapshot.
StableStates == [rust_name : StateNames, label : Labels, has_data : BOOLEAN]
StableTransitions == [method_name : Methods, label : Labels,
                      from_state : StateNames, to_states : Seq(StateNames)]
GraphSnapshots == [snapshot_version : {"v1", "v2"}, identity : Identities, cases : Cases,
                   states : Seq(StableStates), transitions : Seq(StableTransitions)]

\* Severity, in the order of the enum.
Informational == 1
Review == 2
Breaking == 3

-----------------------------------------------------------------------------
state_keys(g) == {g.states[i].rust_name : i \in DOMAIN g.states}
Site(t) == <<t.from_state, t.method_name>>
site_keys(g) == {Site(g.transitions[i]) : i \in DOMAIN g.transitions}

edge_keys(g) ==
  UNION {{Site(g.transitions[i]) \o <<g.transitions[i].to_states[n]>> :
            n \in DOMAIN g.transitions[i].to_states} : i \in DOMAIN g.transitions}

\* index_states and index_transition_sites: no key twice.
Indexed(g) ==
  /\ \A i, j \in DOMAIN g.states : g.states[i].rust_name = g.states[j].rust_name => i = j
  /\ \A i, j \in DOMAIN g.transitions : Site(g.transitions[i]) = Site(g.transitions[j]) => i = j

\* diff_snapshots returns a report: validate_snapshot_pair and the indexing are Ok.
Comparable(before, after) ==
  /\ before.snapshot_version = "v1"
  /\ after.snapshot_version = "v1"
  /\ before.identity = after.identity
  /\ Indexed(before)
  /\ Indexed(after)

Change(severity, category, key) == [severity |-> severity, category |-> category, key |-> key]
Reported(severity, category, keys) == {Change(severity, category, <<k>>) : k \in keys}

StateOf(g, name) == CHOOSE s \in {g.states[i] : i \in DOMAIN g.states} : s.rust_name = name
SharedStates(before, after) == state_keys(before) \cap state_keys(after)

\* Mutant: the states' data is not compared.
state_changes_NoData(before, after) ==
  Reported(Informational, "state_presentation_changed",
           {s \in SharedStates(before, after) : StateOf(before, s).label # StateOf(after, s).label})

\* What the states both snapshots have may differ in.
state_changes(before, after) ==
  LET shared == SharedStates(before, after)
  IN  Reported(Breaking, "state_data_presence_changed",
               {s \in shared : StateOf(before, s).has_data # StateOf(after, s).has_data})
      \cup Reported(Informational, "state_presentation_changed",
               {s \in shared : StateOf(before, s).label # StateOf(after, s).label})

\* The authority is not compared: the enum has a single value.
diff_snapshots(before, after) ==
  Reported(Breaking, "state_removed", state_keys(before) \ state_keys(after))
  \cup Reported(Review, "state_added", state_keys(after) \ state_keys(before))
  \cup Reported(Breaking, "transition_removed", site_keys(before) \ site_keys(after))
  \cup Reported(Review, "transition_added", site_keys(after) \ site_keys(before))
  \cup Reported(Breaking, "edge_removed", edge_keys(before) \ edge_keys(after))
  \cup Reported(Review, "edge_added", edge_keys(after) \ edge_keys(before))
  \cup state_changes(before, after)
  \cup {Change(Review, "unsupported_cases_changed", <<>>) :
          c \in {before.cases} \ {after.cases}}

\* Mutant: only what is more severe than the threshold fails.
Passes_Above(before, after, fail_on) ==
  /\ Comparable(before, after)
  /\ fail_on # 0 => \A change \in diff_snapshots(before, after) : change.severity <= fail_on

\* render_graph_diff exits with success; 0 stands for no --fail-on.
Passes(before, after, fail_on) ==
  /\ Comparable(before, after)
  /\ fail_on # 0 => \A change \in diff_snapshots(before, after) : change.severity < fail_on

=============================================================================
