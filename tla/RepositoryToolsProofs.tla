----------------------- MODULE RepositoryToolsProofs -----------------------
(***************************************************************************)
(* What a review lets pass keeps, for every snapshot, every number of      *)
(* rows and every chain of comparisons; and what the release scripts       *)
(* publish, for any versions, any number of publishers and of runs that    *)
(* stop anywhere.                                                          *)
(***************************************************************************)
EXTENDS MCRepositoryTools, SequenceTheorems, TLAPS

-----------------------------------------------------------------------------
(* The comparison of two snapshots.                                        *)

LEMMA Joined ==
  ASSUME NEW a, NEW b, NEW c PROVE <<a, b>> \o <<c>> = <<a, b, c>>
  <1> DEFINE S == {a, b, c}
             left == <<a, b>> \o <<c>>
             right == <<a, b, c>>
  <1>1. <<a, b>> \in Seq(S) /\ <<c>> \in Seq(S) /\ right \in Seq(S)
    OBVIOUS
  <1>2. left \in Seq(S) /\ Len(left) = 3 /\ Len(right) = 3
    BY <1>1
  <1>3. \A i \in 1 .. 3 : left[i] = right[i]
    BY <1>1
  <1> QED BY <1>1, <1>2, <1>3, SeqEqual

\* A change of a reported kind is in the report with its severity.
LEMMA Seen ==
  ASSUME NEW severity, NEW category, NEW keys, NEW k \in keys
  PROVE  \E change \in Reported(severity, category, keys) : change.severity = severity
  <1>1. Change(severity, category, <<k>>) \in Reported(severity, category, keys)
    BY DEF Reported
  <1> QED BY <1>1 DEF Change

\* A threshold that is set stops what is as severe.
LEMMA Stopped ==
  ASSUME NEW before, NEW after, NEW threshold \in {Informational, Review, Breaking},
         Passes(before, after, threshold),
         NEW change \in diff_snapshots(before, after), change.severity \in Nat
  PROVE  change.severity < threshold
  BY DEF Passes, Informational, Review, Breaking

\* No reported set of a severity that the threshold stops has a member.
LEMMA NoneReported ==
  ASSUME NEW before, NEW after, NEW threshold \in {Informational, Review, Breaking},
         Passes(before, after, threshold),
         NEW severity \in {Informational, Review, Breaking}, threshold <= severity,
         NEW category, NEW keys,
         Reported(severity, category, keys) \subseteq diff_snapshots(before, after)
  PROVE  keys = {}
  <1> SUFFICES ASSUME NEW k \in keys PROVE FALSE
    OBVIOUS
  <1>1. PICK change \in Reported(severity, category, keys) : change.severity = severity
    BY Seen
  <1>2. severity \in Nat /\ threshold \in Nat
    BY DEF Informational, Review, Breaking
  <1>3. severity < threshold
    BY <1>1, <1>2, Stopped
  <1> QED BY <1>2, <1>3

\* Nothing a row can rest on is missing from a graph that passes.
LEMMA BreakingKeeps ==
  ASSUME NEW before, NEW after, NEW threshold \in {Informational, Review, Breaking},
         Passes(before, after, threshold)
  PROVE  /\ state_keys(before) \subseteq state_keys(after)
         /\ site_keys(before) \subseteq site_keys(after)
         /\ edge_keys(before) \subseteq edge_keys(after)
         /\ \A s \in state_keys(before) : HasData(before, s) = HasData(after, s)
  <1>0. threshold <= Breaking
    BY DEF Informational, Review, Breaking
  <1>1. state_keys(before) \ state_keys(after) = {}
    <2>1. Reported(Breaking, "state_removed", state_keys(before) \ state_keys(after))
            \subseteq diff_snapshots(before, after)
      BY DEF diff_snapshots
    <2> QED BY <1>0, <2>1, NoneReported
  <1>2. site_keys(before) \ site_keys(after) = {}
    <2>1. Reported(Breaking, "transition_removed", site_keys(before) \ site_keys(after))
            \subseteq diff_snapshots(before, after)
      BY DEF diff_snapshots
    <2> QED BY <1>0, <2>1, NoneReported
  <1>3. edge_keys(before) \ edge_keys(after) = {}
    <2>1. Reported(Breaking, "edge_removed", edge_keys(before) \ edge_keys(after))
            \subseteq diff_snapshots(before, after)
      BY DEF diff_snapshots
    <2> QED BY <1>0, <2>1, NoneReported
  <1>4. {s \in SharedStates(before, after) :
           StateOf(before, s).has_data # StateOf(after, s).has_data} = {}
    <2> DEFINE changed == {s \in SharedStates(before, after) :
                             StateOf(before, s).has_data # StateOf(after, s).has_data}
    <2>1. Reported(Breaking, "state_data_presence_changed", changed)
            \subseteq diff_snapshots(before, after)
      BY DEF diff_snapshots, state_changes
    <2> HIDE DEF changed
    <2>2. changed = {}
      BY <1>0, <2>1, NoneReported
    <2> QED BY <2>2 DEF changed
  <1> QED BY <1>1, <1>2, <1>3, <1>4 DEF SharedStates, HasData

\* And nothing is added to one that passes a stricter review.
LEMMA ReviewAdds ==
  ASSUME NEW before, NEW after, NEW threshold \in {Informational, Review},
         Passes(before, after, threshold)
  PROVE  Legality(after) = Legality(before)
  <1>0. threshold <= Review /\ threshold \in {Informational, Review, Breaking}
    BY DEF Informational, Review, Breaking
  <1>1. state_keys(after) \ state_keys(before) = {}
    <2>1. Reported(Review, "state_added", state_keys(after) \ state_keys(before))
            \subseteq diff_snapshots(before, after)
      BY DEF diff_snapshots
    <2> QED BY <1>0, <2>1, NoneReported
  <1>2. site_keys(after) \ site_keys(before) = {}
    <2>1. Reported(Review, "transition_added", site_keys(after) \ site_keys(before))
            \subseteq diff_snapshots(before, after)
      BY DEF diff_snapshots
    <2> QED BY <1>0, <2>1, NoneReported
  <1>3. edge_keys(after) \ edge_keys(before) = {}
    <2>1. Reported(Review, "edge_added", edge_keys(after) \ edge_keys(before))
            \subseteq diff_snapshots(before, after)
      BY DEF diff_snapshots
    <2> QED BY <1>0, <2>1, NoneReported
  <1>4. /\ state_keys(before) = state_keys(after)
        /\ site_keys(before) = site_keys(after)
        /\ edge_keys(before) = edge_keys(after)
        /\ \A s \in state_keys(before) : HasData(before, s) = HasData(after, s)
    <2>1. /\ state_keys(before) \subseteq state_keys(after)
          /\ site_keys(before) \subseteq site_keys(after)
          /\ edge_keys(before) \subseteq edge_keys(after)
          /\ \A s \in state_keys(before) : HasData(before, s) = HasData(after, s)
      BY <1>0, BreakingKeeps
    <2> QED BY <1>1, <1>2, <1>3, <2>1
  <1>5. {<<s, HasData(before, s)>> : s \in state_keys(before)}
          = {<<s, HasData(after, s)>> : s \in state_keys(after)}
    BY <1>4
  <1> QED BY <1>4, <1>5 DEF Legality

-----------------------------------------------------------------------------
(* Rows and their records.                                                 *)

\* A state of a graph has data or not.
LEMMA DataIsBoolean ==
  ASSUME NEW g \in GraphSnapshots, NEW s \in state_keys(g)
  PROVE  HasData(g, s) \in BOOLEAN
  <1>1. PICK i \in DOMAIN g.states : g.states[i].rust_name = s
    BY DEF state_keys
  <1>2. g.states \in Seq(StableStates)
    BY DEF GraphSnapshots
  <1>3. \A j \in DOMAIN g.states : g.states[j] \in StableStates
    BY <1>2
  <1>4. StateOf(g, s) \in {g.states[j] : j \in DOMAIN g.states}
    BY <1>1 DEF StateOf
  <1> QED BY <1>3, <1>4 DEF HasData, StableStates

\* An edge is a site of the graph and one of its targets.
LEMMA EdgeParts ==
  ASSUME NEW g \in GraphSnapshots, NEW e \in edge_keys(g)
  PROVE  \E i \in DOMAIN g.transitions : \E n \in DOMAIN g.transitions[i].to_states :
           /\ g.transitions[i] \in StableTransitions
           /\ g.transitions[i].to_states[n] \in StateNames
           /\ Site(g.transitions[i]) = <<e[1], e[2]>>
           /\ g.transitions[i].to_states[n] = e[3]
           /\ e = <<g.transitions[i].from_state, g.transitions[i].method_name,
                    g.transitions[i].to_states[n]>>
  <1>1. PICK i \in DOMAIN g.transitions : \E n \in DOMAIN g.transitions[i].to_states :
          e = Site(g.transitions[i]) \o <<g.transitions[i].to_states[n]>>
    BY DEF edge_keys
  <1>2. PICK n \in DOMAIN g.transitions[i].to_states :
          e = Site(g.transitions[i]) \o <<g.transitions[i].to_states[n]>>
    BY <1>1
  <1>3. g.transitions \in Seq(StableTransitions)
    BY DEF GraphSnapshots
  <1>4. g.transitions[i] \in StableTransitions
    BY <1>3
  <1>5. g.transitions[i].to_states \in Seq(StateNames)
    BY <1>4 DEF StableTransitions
  <1>6. g.transitions[i].to_states[n] \in StateNames
    BY <1>5
  <1>7. e = <<g.transitions[i].from_state, g.transitions[i].method_name,
              g.transitions[i].to_states[n]>>
    BY <1>2, Joined DEF Site
  <1> QED BY <1>4, <1>6, <1>7 DEF Site

\* Edges are typed, and the states of an emitted graph's edges are its own.
LEMMA EdgeTypes ==
  ASSUME NEW g \in GraphSnapshots, NEW e \in edge_keys(g)
  PROVE  e \in StateNames \X Methods \X StateNames
  <1>1. PICK i \in DOMAIN g.transitions : \E n \in DOMAIN g.transitions[i].to_states :
           /\ g.transitions[i] \in StableTransitions
           /\ g.transitions[i].to_states[n] \in StateNames
           /\ e = <<g.transitions[i].from_state, g.transitions[i].method_name,
                    g.transitions[i].to_states[n]>>
    BY EdgeParts
  <1> QED BY <1>1 DEF StableTransitions

\* A recorded edge of an emitted graph joins to it, and to one label only.
LEMMA EdgesAreJoined ==
  ASSUME NEW g \in GraphSnapshots, Emitted(g), NEW e \in edge_keys(g)
  PROVE  telemetry_labels_in(g, e) = {e}
  <1>1. PICK i \in DOMAIN g.transitions : \E n \in DOMAIN g.transitions[i].to_states :
           /\ Site(g.transitions[i]) = <<e[1], e[2]>>
           /\ g.transitions[i].to_states[n] = e[3]
    BY EdgeParts
  <1>2. g.transitions[i] \in transition_in(g, e)
    BY <1>1 DEF transition_in
  <1>3. \A t \in transition_in(g, e) : t.method_name = e[2]
    BY DEF transition_in, Site
  <1>4. {e[1], e[3]} \subseteq state_keys(g)
    BY DEF Emitted
  <1>5. \A name \in state_keys(g) : /\ state_of(g, name) # {}
                                    /\ \A s \in state_of(g, name) : s.rust_name = name
    BY DEF state_of, state_keys
  <1>6. /\ source_state_in(g, e) = state_of(g, e[1])
        /\ chosen_state_in(g, e) = state_of(g, e[3])
    BY <1>2 DEF source_state_in, chosen_state_in
  <1>7. e = <<e[1], e[2], e[3]>>
    BY EdgeTypes
  <1>8. PICK from \in source_state_in(g, e), chosen \in chosen_state_in(g, e) : TRUE
    BY <1>4, <1>5, <1>6
  <1>9. <<from.rust_name, g.transitions[i].method_name, chosen.rust_name>> = e
    BY <1>2, <1>3, <1>4, <1>5, <1>6, <1>7
  <1>10. e \in telemetry_labels_in(g, e)
    BY <1>2, <1>8, <1>9 DEF telemetry_labels_in
  <1>11. \A label \in telemetry_labels_in(g, e) : label = e
    BY <1>3, <1>4, <1>5, <1>6, <1>7 DEF telemetry_labels_in
  <1> QED BY <1>10, <1>11

-----------------------------------------------------------------------------
(* The rows fit the running graph, and the reviews that passed lead from   *)
(* the first graph to the running one.                                     *)
RowsFit ==
  fail_on # 0 =>
    \A r \in Rows :
      /\ rows[r].state \in state_keys(baseline)
      /\ HasData(baseline, rows[r].state) = rows[r].has_data
      /\ \A i \in DOMAIN recorded[r] : recorded[r][i] \in edge_keys(baseline)

ReviewsLead ==
  fail_on \in {Informational, Review} =>
    \A i \in DOMAIN reviews :
      /\ Legality(reviews[1].before) = Legality(baseline)
      /\ reviews[i].passed => Legality(reviews[i].after) = Legality(reviews[1].before)

IInv == TypeOK /\ RowsFit /\ ReviewsLead

\* A row stored in a state of the graph is typed and fits.
LEMMA StoredRow ==
  ASSUME NEW g \in GraphSnapshots, NEW s \in state_keys(g)
  PROVE  /\ Stored(g, s) \in [state : StateNames, has_data : BOOLEAN]
         /\ Stored(g, s).state = s
         /\ Stored(g, s).has_data = HasData(g, s)
  <1>1. s \in StateNames
    <2>1. g.states \in Seq(StableStates)
      BY DEF GraphSnapshots
    <2>2. \A i \in DOMAIN g.states : g.states[i] \in StableStates
      BY <2>1
    <2>3. PICK i \in DOMAIN g.states : g.states[i].rust_name = s
      BY DEF state_keys
    <2> QED BY <2>2, <2>3 DEF StableStates
  <1> QED BY <1>1, DataIsBoolean DEF Stored

LEMMA InitInv == ASSUME Init PROVE IInv
  <1>1. baseline \in Snapshots /\ baseline \in GraphSnapshots /\ Emitted(baseline)
    BY ReviewAssumption DEF Init
  <1>2. \A r \in Rows : \E s \in state_keys(baseline) : rows[r] = Stored(baseline, s)
    BY DEF Init
  <1>3. rows \in [Rows -> [state : StateNames, has_data : BOOLEAN]]
    <2>1. \A s \in state_keys(baseline) :
            Stored(baseline, s) \in [state : StateNames, has_data : BOOLEAN]
      BY <1>1, StoredRow
    <2> QED BY <2>1 DEF Init
  <1>4. TypeOK
    BY <1>1, <1>3 DEF Init, TypeOK, Informational, Review, Breaking
  <1>5. RowsFit
    <2> SUFFICES ASSUME NEW r \in Rows
                 PROVE  /\ rows[r].state \in state_keys(baseline)
                        /\ HasData(baseline, rows[r].state) = rows[r].has_data
                        /\ recorded[r] = <<>>
      BY DEF RowsFit
    <2>1. PICK s \in state_keys(baseline) : rows[r] = Stored(baseline, s)
      BY <1>2
    <2> QED BY <1>1, <2>1, StoredRow DEF Init
  <1>6. ReviewsLead
    BY DEF ReviewsLead, Init
  <1> QED BY <1>4, <1>5, <1>6 DEF IInv

\* A comparison that passes hands the rows over to the next graph.
LEMMA ProposeInv == ASSUME IInv, NEW g \in Snapshots, Propose(g) PROVE IInv'
  <1> DEFINE entry == [before |-> baseline, after |-> g, passed |-> Passes(baseline, g, fail_on)]
  <1>0. /\ baseline \in GraphSnapshots /\ g \in GraphSnapshots
        /\ fail_on \in 0 .. Breaking /\ fail_on' = fail_on /\ rows' = rows /\ recorded' = recorded
    BY ReviewAssumption DEF IInv, TypeOK, Propose
  <1>1. /\ reviews \in Seq([before : Snapshots, after : Snapshots, passed : BOOLEAN])
        /\ entry \in [before : Snapshots, after : Snapshots, passed : BOOLEAN]
        /\ reviews' = Append(reviews, entry)
    <2>1. Passes(baseline, g, fail_on) \in BOOLEAN
      BY DEF Passes, Comparable
    <2> QED BY <2>1 DEF IInv, TypeOK, Propose
  <1>2. \/ Passes(baseline, g, fail_on) /\ Emitted(g) /\ baseline' = g
        \/ baseline' = baseline
    BY DEF Propose
  <1>3. TypeOK'
    <2>1. reviews' \in Seq([before : Snapshots, after : Snapshots, passed : BOOLEAN])
      BY <1>1
    <2>2. baseline' \in Snapshots /\ Emitted(baseline)'
      BY <1>2 DEF IInv, TypeOK
    <2> QED BY <1>0, <2>1, <2>2 DEF IInv, TypeOK
  <1>4. fail_on # 0 => fail_on \in {Informational, Review, Breaking}
    BY <1>0 DEF Informational, Review, Breaking
  <1>5. RowsFit'
    <2> SUFFICES ASSUME fail_on # 0, NEW r \in Rows
                 PROVE  /\ rows[r].state \in state_keys(baseline')
                        /\ HasData(baseline', rows[r].state) = rows[r].has_data
                        /\ \A i \in DOMAIN recorded[r] : recorded[r][i] \in edge_keys(baseline')
      BY <1>0 DEF RowsFit
    <2>1. /\ rows[r].state \in state_keys(baseline)
          /\ HasData(baseline, rows[r].state) = rows[r].has_data
          /\ \A i \in DOMAIN recorded[r] : recorded[r][i] \in edge_keys(baseline)
      BY DEF IInv, RowsFit
    <2>2. CASE Passes(baseline, g, fail_on) /\ baseline' = g
      <3>1. /\ state_keys(baseline) \subseteq state_keys(g)
            /\ edge_keys(baseline) \subseteq edge_keys(g)
            /\ \A s \in state_keys(baseline) : HasData(baseline, s) = HasData(g, s)
        BY <1>4, <2>2, BreakingKeeps
      <3> QED BY <2>1, <2>2, <3>1
    <2> QED BY <1>2, <2>1, <2>2
  <1>6. ReviewsLead'
    <2> SUFFICES ASSUME fail_on \in {Informational, Review}, NEW i \in DOMAIN reviews'
                 PROVE  /\ Legality(reviews'[1].before) = Legality(baseline')
                        /\ reviews'[i].passed =>
                             Legality(reviews'[i].after) = Legality(reviews'[1].before)
      BY <1>0 DEF ReviewsLead
    <2>1. Passes(baseline, g, fail_on) => Legality(g) = Legality(baseline)
      BY ReviewAdds
    <2>2. Legality(baseline') = Legality(baseline)
      BY <1>2, <2>1
    <2>3. Legality(reviews'[1].before) = Legality(baseline)
      <3>1. CASE reviews = <<>>
        BY <1>1, <3>1
      <3>2. CASE reviews # <<>>
        BY <1>1, <3>2 DEF IInv, ReviewsLead
      <3> QED BY <3>1, <3>2
    <2>4. reviews'[i].passed => Legality(reviews'[i].after) = Legality(baseline)
      <3>1. CASE i \in DOMAIN reviews
        <4>1. reviews'[i] = reviews[i]
          BY <1>1, <3>1
        <4>2. /\ Legality(reviews[1].before) = Legality(baseline)
              /\ reviews[i].passed => Legality(reviews[i].after) = Legality(reviews[1].before)
          BY <3>1 DEF IInv, ReviewsLead
        <4> QED BY <4>1, <4>2
      <3>2. CASE i \notin DOMAIN reviews
        <4>1. reviews'[i] = entry
          BY <1>1, <3>2
        <4> QED BY <4>1, <2>1
      <3> QED BY <3>1, <3>2
    <2> QED BY <2>2, <2>3, <2>4
  <1> QED BY <1>3, <1>5, <1>6 DEF IInv

\* A row moves along an edge of the running graph.
LEMMA RecordInv ==
  ASSUME IInv, NEW r \in Rows, NEW site \in site_keys(baseline), NEW chosen \in StateNames,
         try_record_transition(r, site, chosen)
  PROVE  IInv'
  <1> DEFINE e == site \o <<chosen>>
  <1>0. /\ baseline \in GraphSnapshots /\ Emitted(baseline) /\ UNCHANGED <<fail_on, baseline, reviews>>
        /\ e \in edge_keys(baseline)
        /\ recorded' = [recorded EXCEPT ![r] = Append(@, e)]
        /\ rows' = [rows EXCEPT ![r] = Stored(baseline, chosen)]
    BY ReviewAssumption DEF IInv, TypeOK, try_record_transition
  <1>1. e[3] = chosen
    <2>1. PICK i \in DOMAIN baseline.transitions : site = Site(baseline.transitions[i])
      BY DEF site_keys
    <2> QED BY <2>1, Joined DEF Site
  <1>2. chosen \in state_keys(baseline)
    BY <1>0, <1>1 DEF Emitted
  <1>3. e \in StateNames \X Methods \X StateNames
    BY <1>0, EdgeTypes
  <1>4. /\ Stored(baseline, chosen) \in [state : StateNames, has_data : BOOLEAN]
        /\ Stored(baseline, chosen).state = chosen
        /\ Stored(baseline, chosen).has_data = HasData(baseline, chosen)
    BY <1>0, <1>2, StoredRow
  <1> HIDE DEF e
  <1>5. TypeOK'
    <2>1. recorded' \in [Rows -> Seq(StateNames \X Methods \X StateNames)]
      BY <1>0, <1>3 DEF IInv, TypeOK
    <2>2. rows' \in [Rows -> [state : StateNames, has_data : BOOLEAN]]
      BY <1>0, <1>4 DEF IInv, TypeOK
    <2> QED BY <1>0, <2>1, <2>2 DEF IInv, TypeOK, Emitted
  <1>6. RowsFit'
    <2> SUFFICES ASSUME fail_on # 0, NEW q \in Rows
                 PROVE  /\ rows'[q].state \in state_keys(baseline)
                        /\ HasData(baseline, rows'[q].state) = rows'[q].has_data
                        /\ \A i \in DOMAIN recorded'[q] : recorded'[q][i] \in edge_keys(baseline)
      BY <1>0 DEF RowsFit
    <2>1. /\ rows[q].state \in state_keys(baseline)
          /\ HasData(baseline, rows[q].state) = rows[q].has_data
          /\ \A i \in DOMAIN recorded[q] : recorded[q][i] \in edge_keys(baseline)
      BY DEF IInv, RowsFit
    <2>2. CASE q = r
      <3>1. rows'[q] = Stored(baseline, chosen) /\ recorded'[q] = Append(recorded[q], e)
        BY <1>0, <2>2 DEF IInv, TypeOK
      <3>2. recorded[q] \in Seq(StateNames \X Methods \X StateNames)
        BY DEF IInv, TypeOK
      <3>3. \A i \in DOMAIN recorded'[q] : recorded'[q][i] \in edge_keys(baseline)
        BY <1>0, <1>3, <2>1, <3>1, <3>2
      <3> QED BY <1>2, <1>4, <3>1, <3>3
    <2>3. CASE q # r
      <3>1. rows'[q] = rows[q] /\ recorded'[q] = recorded[q]
        BY <1>0, <2>3 DEF IInv, TypeOK
      <3> QED BY <2>1, <3>1
    <2> QED BY <2>2, <2>3
  <1>7. ReviewsLead'
    BY <1>0 DEF IInv, ReviewsLead
  <1> QED BY <1>5, <1>6, <1>7 DEF IInv

LEMMA StepInv == IInv /\ [Next]_vars => IInv'
  <1>1. ASSUME IInv, UNCHANGED vars PROVE IInv'
    BY <1>1 DEF IInv, TypeOK, RowsFit, ReviewsLead, vars, Emitted
  <1> QED BY <1>1, ProposeInv, RecordInv DEF Next

-----------------------------------------------------------------------------
\* The rows fit the running graph however many graphs have been shipped.
THEOREM Invariance == Spec => []IInv
  <1> QED BY InitInv, StepInv, PTL DEF Spec

\* The types hold.
THEOREM TypeCorrect == Spec => []TypeOK
  <1> QED BY Invariance, PTL DEF IInv

\* A repository that fails on breaking changes strands no row and loses no
\* recorded transition, whatever graphs are proposed (main.rs:611-790).
THEOREM RowsSurviveReviewHolds == Spec => []RowsSurviveReview
  <1>1. ASSUME IInv PROVE RowsSurviveReview
    <2>1. baseline \in GraphSnapshots /\ Emitted(baseline)
      BY <1>1, ReviewAssumption DEF IInv, TypeOK
    <2> QED BY <1>1, <2>1, EdgesAreJoined DEF IInv, RowsFit, RowsSurviveReview
  <1> QED BY <1>1, Invariance, PTL

\* A repository that fails on review changes keeps the workflow it began with
\* (main.rs:332-340).
THEOREM ReviewKeepsLegalityHolds == Spec => []ReviewKeepsLegality
  <1>1. IInv => ReviewKeepsLegality
    BY DEF IInv, ReviewsLead, ReviewKeepsLegality
  <1> QED BY <1>1, Invariance, PTL

-----------------------------------------------------------------------------
(***************************************************************************)
(* The release scripts, for any versions, publishers, layouts, snippets    *)
(* and number of runs.  A run that has announced its version and under     *)
(* which the tree has not been changed still finds every crate at that     *)
(* version, and has uploaded the crates before the one it is at; the tree  *)
(* is whole outside the files that a bump has still to write.              *)
(***************************************************************************)
Trees == [workspace : Versions, snippets : [VERSIONED_SNIPPET_FILES -> Versions]]

ReleaseTypeOK ==
    /\ {tree, committed} \subseteq Trees
    /\ own \in Layouts
    /\ bump \in SUBSET VERSIONED_SNIPPET_FILES
    /\ published \in [Scripts!Crates -> SUBSET Versions]
    /\ pc \in [Publishers -> Scripts!Steps]
    /\ version \in [Publishers -> Versions]
    /\ broken \in BOOLEAN
    /\ moved \in SUBSET Publishers

\* What a bump that goes on, or has ended as it should, has written.
BumpWrites ==
    bump # {} \/ ~broken =>
        \A f \in VERSIONED_SNIPPET_FILES \ bump : tree.snippets[f] = tree.workspace

\* What a run may rely on.
RunKept(step, v, uploaded) ==
    /\ step.at \in {"query", "checks", "publish"} => Scripts!verify_versions_match(v)
    /\ step.at = "publish" => \A j \in 1 .. (step.k - 1) : v \in uploaded[Scripts!PUBLISH_ORDER[j]]
    /\ step.at = "done" => \A c \in Scripts!Crates : v \in uploaded[c]

RunsKept == \A p \in Publishers \ moved : RunKept(pc[p], version[p], published)

ReleaseInv == ReleaseTypeOK /\ BumpWrites /\ RunsKept /\ Scripts!PublishedInOrder

\* What a run found committed it still works on.
CleanUnderRuns == \A p \in Scripts!Running \ moved : tree = committed

LEMMA Order ==
  /\ Scripts!PUBLISH_ORDER = <<"statum-core", "statum-macros", "statum">>
  /\ DOMAIN Scripts!PUBLISH_ORDER = 1 .. 3 /\ Len(Scripts!PUBLISH_ORDER) = 3
  /\ Scripts!PUBLISH_ORDER[1] = "statum-core"
  /\ Scripts!PUBLISH_ORDER[2] = "statum-macros"
  /\ Scripts!PUBLISH_ORDER[3] = "statum"
  /\ Scripts!Crates = {"statum-core", "statum-macros", "statum"}
  <1>1. /\ Scripts!PUBLISH_ORDER = <<"statum-core", "statum-macros", "statum">>
        /\ DOMAIN Scripts!PUBLISH_ORDER = 1 .. 3 /\ Len(Scripts!PUBLISH_ORDER) = 3
        /\ Scripts!PUBLISH_ORDER[1] = "statum-core"
        /\ Scripts!PUBLISH_ORDER[2] = "statum-macros"
        /\ Scripts!PUBLISH_ORDER[3] = "statum"
    BY DEF Scripts!PUBLISH_ORDER
  <1>2. 1 .. 3 = {1, 2, 3}
    OBVIOUS
  <1> QED BY <1>1, <1>2 DEF Scripts!Crates

LEMMA InitReleaseInv == Scripts!Init => ReleaseInv
  <1> SUFFICES ASSUME Scripts!Init PROVE ReleaseInv
    OBVIOUS
  <1>1. PICK v \in Versions : tree = Scripts!Tree(v) /\ committed = Scripts!Tree(v)
    BY DEF Scripts!Init
  <1>2. tree \in Trees /\ committed \in Trees
    BY <1>1 DEF Scripts!Tree, Trees
  <1>3. ReleaseTypeOK
    BY <1>1, <1>2 DEF Scripts!Init, ReleaseTypeOK, Scripts!Steps, Scripts!Tree
  <1>4. BumpWrites
    BY <1>1 DEF BumpWrites, Scripts!Tree
  <1>5. RunsKept
    BY DEF Scripts!Init, RunsKept, RunKept
  <1>6. Scripts!PublishedInOrder
    BY Order DEF Scripts!Init, Scripts!PublishedInOrder
  <1> QED BY <1>3, <1>4, <1>5, <1>6 DEF ReleaseInv

\* What each crate would be uploaded at.
LEMMA CrateVersions ==
  ASSUME ReleaseTypeOK, NEW c \in Scripts!Crates
  PROVE  Scripts!crate_version(c) \in Versions
  BY LayoutAssumption DEF ReleaseTypeOK, Scripts!crate_version, Trees

\* A change of the tree, for whatever it is good, concerns every run under way.
LEMMA TreeChangeKeeps ==
  ASSUME ReleaseInv, Scripts!Moves, UNCHANGED <<own, published, pc, version>>,
         tree' \in Trees, committed' = committed, broken' \in BOOLEAN,
         bump' \in SUBSET VERSIONED_SNIPPET_FILES, BumpWrites'
  PROVE  ReleaseInv'
  <1>1. ReleaseTypeOK'
    BY DEF ReleaseInv, ReleaseTypeOK, Scripts!Moves, Scripts!Running
  <1>2. RunsKept'
    <2> SUFFICES ASSUME NEW p \in Publishers \ moved' PROVE RunKept(pc[p], version[p], published)'
      BY DEF RunsKept
    <2>1. p \in Publishers \ moved /\ p \notin Scripts!Running
      BY DEF Scripts!Moves
    <2>2. RunKept(pc[p], version[p], published)
      BY <2>1 DEF ReleaseInv, RunsKept
    <2> QED BY <2>1, <2>2 DEF RunKept, Scripts!Running
  <1>3. Scripts!PublishedInOrder'
    BY DEF ReleaseInv, Scripts!PublishedInOrder, Scripts!Moves
  <1> QED BY <1>1, <1>2, <1>3 DEF ReleaseInv

\* A step of one run that leaves the tree, and what is on crates.io, alone.
LEMMA RunStepKeeps ==
  ASSUME ReleaseInv, NEW p \in Publishers, NEW at, NEW k, NEW v \in Versions,
         [at |-> at, k |-> k] \in Scripts!Steps, Scripts!At(p, at, k),
         version' = [version EXCEPT ![p] = v],
         UNCHANGED <<tree, committed, own, bump, published, broken, moved>>,
         p \notin moved => RunKept([at |-> at, k |-> k], v, published)
  PROVE  ReleaseInv'
  <1>1. ReleaseTypeOK'
    BY DEF ReleaseInv, ReleaseTypeOK, Scripts!At
  <1>2. BumpWrites'
    BY DEF ReleaseInv, BumpWrites
  <1>3. RunsKept'
    <2> SUFFICES ASSUME NEW q \in Publishers \ moved PROVE RunKept(pc[q], version[q], published)'
      BY DEF RunsKept
    <2>1. RunKept(pc'[q], version'[q], published)
      BY DEF ReleaseInv, ReleaseTypeOK, RunsKept, Scripts!At
    <2> QED BY <2>1 DEF RunKept, Scripts!verify_versions_match, Scripts!crate_version
  <1>4. Scripts!PublishedInOrder'
    BY DEF ReleaseInv, Scripts!PublishedInOrder
  <1> QED BY <1>1, <1>2, <1>3, <1>4 DEF ReleaseInv

LEMMA update_version_Keeps ==
  ASSUME ReleaseInv, NEW v \in Versions, Scripts!update_version(v) PROVE ReleaseInv'
  <1>1. tree' \in Trees
    BY DEF Scripts!update_version, ReleaseInv, ReleaseTypeOK, Trees
  <1>2. BumpWrites'
    BY DEF Scripts!update_version, BumpWrites
  <1> QED BY <1>1, <1>2, TreeChangeKeeps DEF Scripts!update_version, ReleaseInv, ReleaseTypeOK

LEMMA update_install_snippets_Keeps ==
  ASSUME ReleaseInv, NEW f \in VERSIONED_SNIPPET_FILES, Scripts!update_install_snippets(f)
  PROVE  ReleaseInv'
  <1>1. /\ tree \in Trees /\ bump \in SUBSET VERSIONED_SNIPPET_FILES /\ broken \in BOOLEAN
        /\ f \in bump /\ bump' = bump \ {f}
        /\ tree' = [tree EXCEPT !.snippets[f] = tree.workspace]
        /\ broken' = (broken /\ bump' # {})
    BY DEF Scripts!update_install_snippets, ReleaseInv, ReleaseTypeOK
  <1>2. /\ tree' \in Trees /\ tree'.workspace = tree.workspace
        /\ tree'.snippets[f] = tree.workspace
        /\ \A g \in VERSIONED_SNIPPET_FILES \ {f} : tree'.snippets[g] = tree.snippets[g]
    BY <1>1 DEF Trees
  <1>3. BumpWrites'
    BY <1>1, <1>2 DEF BumpWrites, ReleaseInv
  <1>4. broken' \in BOOLEAN
    BY <1>1
  <1> QED BY <1>1, <1>2, <1>3, <1>4, TreeChangeKeeps DEF Scripts!update_install_snippets

LEMMA Restore_Keeps == ASSUME ReleaseInv, Scripts!Restore PROVE ReleaseInv'
  <1>1. BumpWrites'
    BY DEF Scripts!Restore, BumpWrites
  <1>2. broken' \in BOOLEAN
    BY DEF Scripts!Restore
  <1> QED BY <1>1, <1>2, TreeChangeKeeps DEF Scripts!Restore, ReleaseInv, ReleaseTypeOK

\* The tree stays, and no run takes a step.
LEMMA QuietKeeps ==
  ASSUME ReleaseInv, Scripts!BreakOff \/ Scripts!Commit \/ UNCHANGED Scripts!vars
  PROVE  ReleaseInv'
  <1>1. ReleaseTypeOK'
    BY DEF Scripts!BreakOff, Scripts!Commit, Scripts!vars, ReleaseInv, ReleaseTypeOK
  <1>2. BumpWrites'
    BY DEF Scripts!BreakOff, Scripts!Commit, Scripts!vars, ReleaseInv, BumpWrites
  <1>3. UNCHANGED <<tree, own, published, pc, version, moved>>
    BY DEF Scripts!BreakOff, Scripts!Commit, Scripts!vars
  <1>4. RunsKept' /\ Scripts!PublishedInOrder'
    BY <1>3 DEF ReleaseInv, RunsKept, RunKept, Scripts!verify_versions_match,
               Scripts!crate_version, Scripts!PublishedInOrder
  <1> QED BY <1>1, <1>2, <1>4 DEF ReleaseInv

\* The steps of a run before it publishes anything, and after.
LEMMA ScriptStepKeeps ==
  ASSUME ReleaseInv, NEW p \in Publishers,
         \/ Scripts!Start(p) \/ Scripts!Align(p) \/ Scripts!Fail(p)
         \/ Scripts!ensure_versions_are_unpublished(p) \/ Scripts!Checks(p) \/ Scripts!Again(p)
  PROVE  ReleaseInv'
  <1>1. /\ version[p] \in Versions /\ version = [version EXCEPT ![p] = version[p]]
        /\ pc[p] \in Scripts!Steps
        /\ p \notin moved => RunKept(pc[p], version[p], published)
    BY DEF ReleaseInv, ReleaseTypeOK, RunsKept
  <1>2. \A at \in {"idle", "align", "checks", "failed"} :
          /\ [at |-> at, k |-> 0] \in Scripts!Steps
          /\ at # "checks" => RunKept([at |-> at, k |-> 0], version[p], published)
    BY DEF Scripts!Steps, RunKept
  <1>3. \A at \in {"query", "publish"}, k \in 1 .. 3 : [at |-> at, k |-> k] \in Scripts!Steps
    BY Order DEF Scripts!Steps
  <1>4. CASE Scripts!Start(p)
    BY <1>1, <1>2, <1>4, RunStepKeeps DEF Scripts!Start
  <1>5. CASE Scripts!Align(p)
    <2>1. PICK v \in Versions : /\ Scripts!verify_versions_match(v)
                                /\ version' = [version EXCEPT ![p] = v]
      BY <1>5 DEF Scripts!Align
    <2>2. RunKept([at |-> "query", k |-> 1], v, published)
      BY <2>1 DEF RunKept
    <2>3. [at |-> "query", k |-> 1] \in Scripts!Steps
      BY <1>3
    <2>4. /\ Scripts!At(p, "query", 1)
          /\ UNCHANGED <<tree, committed, own, bump, published, broken, moved>>
      BY <1>5 DEF Scripts!Align
    <2> QED BY <2>1, <2>2, <2>3, <2>4, RunStepKeeps
  <1>6. CASE Scripts!Fail(p)
    BY <1>1, <1>2, <1>6, RunStepKeeps DEF Scripts!Fail
  <1>7. CASE Scripts!ensure_versions_are_unpublished(p)
    <2>1. /\ pc[p].at = "query" /\ UNCHANGED <<tree, committed, own, bump, published, version, broken, moved>>
          /\ IF pc[p].k < 3 THEN Scripts!At(p, "query", pc[p].k + 1) ELSE Scripts!At(p, "checks", 0)
      BY <1>7, Order DEF Scripts!ensure_versions_are_unpublished
    <2>2. pc[p].k \in 1 .. 3
      BY <1>1, <2>1, Order DEF Scripts!Steps
    <2>3. p \notin moved => Scripts!verify_versions_match(version[p])
      BY <1>1, <2>1 DEF RunKept
    <2>4. p \notin moved => /\ RunKept([at |-> "query", k |-> pc[p].k + 1], version[p], published)
                            /\ RunKept([at |-> "checks", k |-> 0], version[p], published)
      BY <2>3 DEF RunKept
    <2>5. CASE pc[p].k < 3
      <3>1. pc[p].k + 1 \in 1 .. 3
        BY <2>2, <2>5
      <3> QED BY <1>1, <1>3, <2>1, <2>4, <2>5, <3>1, RunStepKeeps
    <2>6. CASE ~(pc[p].k < 3)
      BY <1>1, <1>2, <2>1, <2>4, <2>6, RunStepKeeps
    <2> QED BY <2>5, <2>6
  <1>8. CASE Scripts!Checks(p)
    <2>1. pc[p].at = "checks"
      BY <1>8 DEF Scripts!Checks
    <2>2. p \notin moved => RunKept([at |-> "publish", k |-> 1], version[p], published)
      BY <1>1, <2>1 DEF RunKept
    <2> QED BY <1>1, <1>3, <1>8, <2>2, RunStepKeeps DEF Scripts!Checks
  <1>9. CASE Scripts!Again(p)
    BY <1>1, <1>2, <1>9, RunStepKeeps DEF Scripts!Again
  <1> QED BY <1>4, <1>5, <1>6, <1>7, <1>8, <1>9

\* An upload after those the crate depends on.
LEMMA run_publish_Keeps ==
  ASSUME ReleaseInv, NEW p \in Publishers, Scripts!run_publish(p) PROVE ReleaseInv'
  <1> DEFINE k == pc[p].k
             crate == Scripts!PUBLISH_ORDER[k]
             v == Scripts!crate_version(crate)
  <1>1. /\ pc[p].at = "publish" /\ pc[p] \in Scripts!Steps
        /\ published' = [published EXCEPT ![crate] = @ \cup {v}]
        /\ UNCHANGED <<tree, committed, own, bump, version, broken, moved>>
        /\ \/ k < 3 /\ Scripts!At(p, "publish", k + 1)
           \/ ~(k < 3) /\ Scripts!At(p, "done", 0)
           \/ Scripts!At(p, "failed", 0)
    BY Order DEF Scripts!run_publish, Scripts!Upload, ReleaseInv, ReleaseTypeOK
  <1>2. k \in 1 .. 3 /\ crate \in Scripts!Crates
    BY <1>1, Order DEF Scripts!Steps
  <1>3. v \in Versions
    BY <1>2, CrateVersions DEF ReleaseInv
  <1>4. p \notin moved =>
          v = version[p] /\ \A j \in 1 .. (k - 1) : v \in published[Scripts!PUBLISH_ORDER[j]]
    <2>1. p \notin moved => RunKept(pc[p], version[p], published)
      BY DEF ReleaseInv, RunsKept
    <2> QED BY <1>1, <1>2, <2>1 DEF RunKept, Scripts!verify_versions_match
  <1> HIDE DEF k, crate, v
  <1>5. published \in [Scripts!Crates -> SUBSET Versions]
    BY DEF ReleaseInv, ReleaseTypeOK
  <1>6. /\ published' \in [Scripts!Crates -> SUBSET Versions]
        /\ \A c \in Scripts!Crates : published[c] \subseteq published'[c]
        /\ v \in published'[crate]
        /\ \A c \in Scripts!Crates : c # crate => published'[c] = published[c]
    BY <1>1, <1>2, <1>3, <1>5
  <1>7. PICK step \in Scripts!Steps :
          /\ pc' = [pc EXCEPT ![p] = step]
          /\ step \in {[at |-> "publish", k |-> k + 1], [at |-> "done", k |-> 0],
                       [at |-> "failed", k |-> 0]}
          /\ step.at = "publish" => k < 3
          /\ step.at = "done" => k = 3
    <2>1. [at |-> "done", k |-> 0] \in Scripts!Steps /\ [at |-> "failed", k |-> 0] \in Scripts!Steps
      BY DEF Scripts!Steps
    <2>2. k < 3 => [at |-> "publish", k |-> k + 1] \in Scripts!Steps
      BY <1>2, Order DEF Scripts!Steps
    <2> QED BY <1>1, <1>2, <2>1, <2>2 DEF Scripts!At
  <1>8. ReleaseTypeOK'
    BY <1>1, <1>6, <1>7 DEF ReleaseInv, ReleaseTypeOK
  <1>9. BumpWrites'
    BY <1>1 DEF ReleaseInv, BumpWrites
  <1>10. RunsKept'
    <2> SUFFICES ASSUME NEW q \in Publishers \ moved PROVE RunKept(pc[q], version[q], published)'
      BY <1>1 DEF RunsKept
    <2>1. RunKept(pc[q], version[q], published) /\ pc[q] \in Scripts!Steps
      BY DEF ReleaseInv, RunsKept, ReleaseTypeOK
    <2>2. \A j \in 1 .. 3 : Scripts!PUBLISH_ORDER[j] \in Scripts!Crates
      BY Order
    <2>3. CASE q # p
      <3>1. pc'[q] = pc[q]
        BY <1>7, <2>3 DEF ReleaseInv, ReleaseTypeOK
      <3>2. pc[q].at = "publish" => pc[q].k \in 1 .. 3
        BY <2>1, Order DEF Scripts!Steps
      <3> QED BY <1>1, <1>6, <2>1, <2>2, <3>1, <3>2
             DEF RunKept, Scripts!verify_versions_match, Scripts!crate_version
    <2>4. CASE q = p
      <3>1. pc'[q] = step
        BY <1>7, <2>4 DEF ReleaseInv, ReleaseTypeOK
      <3>2. Scripts!verify_versions_match(version[q])
        BY <1>1, <2>1, <2>4 DEF RunKept
      <3>3. \A j \in 1 .. k : version[q] \in published'[Scripts!PUBLISH_ORDER[j]]
        BY <1>2, <1>4, <1>6, <2>2, <2>4 DEF crate
      <3>4. k = 3 => \A c \in Scripts!Crates : version[q] \in published'[c]
        BY <3>3, Order
      <3>5. RunKept(step, version[q], published')
        BY <1>2, <1>7, <3>2, <3>3, <3>4 DEF RunKept
      <3> QED BY <1>1, <3>1, <3>5
             DEF RunKept, Scripts!verify_versions_match, Scripts!crate_version
    <2> QED BY <2>3, <2>4
  <1>11. Scripts!PublishedInOrder'
    <2> SUFFICES ASSUME moved = {}, NEW n \in 2 .. 3
        PROVE  published'[Scripts!PUBLISH_ORDER[n]] \subseteq published'[Scripts!PUBLISH_ORDER[n - 1]]
      BY <1>1, Order DEF Scripts!PublishedInOrder
    <2>1. published[Scripts!PUBLISH_ORDER[n]] \subseteq published[Scripts!PUBLISH_ORDER[n - 1]]
      BY Order DEF ReleaseInv, Scripts!PublishedInOrder
    <2>2. Scripts!PUBLISH_ORDER[n - 1] \in Scripts!Crates /\ Scripts!PUBLISH_ORDER[n] \in Scripts!Crates
      BY Order
    <2>3. CASE crate # Scripts!PUBLISH_ORDER[n]
      BY <1>6, <2>1, <2>2, <2>3
    <2>4. CASE crate = Scripts!PUBLISH_ORDER[n]
      <3>1. k = n
        BY <1>2, <2>4, Order DEF crate
      <3>2. v \in published[Scripts!PUBLISH_ORDER[n - 1]]
        BY <1>4, <3>1
      <3>3. published'[crate] = published[crate] \cup {v}
        BY <1>1, <1>2, <1>5
      <3> QED BY <1>6, <2>1, <2>2, <2>4, <3>2, <3>3
    <2> QED BY <2>3, <2>4
  <1> QED BY <1>8, <1>9, <1>10, <1>11 DEF ReleaseInv

LEMMA ReleaseStep == ReleaseInv /\ [Scripts!Next]_(Scripts!vars) => ReleaseInv'
  <1> SUFFICES ASSUME ReleaseInv, [Scripts!Next]_(Scripts!vars) PROVE ReleaseInv'
    OBVIOUS
  <1>1. ASSUME NEW v \in Versions, Scripts!update_version(v) PROVE ReleaseInv'
    BY <1>1, update_version_Keeps
  <1>2. ASSUME NEW f \in VERSIONED_SNIPPET_FILES, Scripts!update_install_snippets(f) PROVE ReleaseInv'
    BY <1>2, update_install_snippets_Keeps
  <1>3. CASE Scripts!BreakOff \/ Scripts!Commit \/ UNCHANGED Scripts!vars
    BY <1>3, QuietKeeps
  <1>4. CASE Scripts!Restore
    BY <1>4, Restore_Keeps
  <1>5. ASSUME NEW p \in Publishers,
               \/ Scripts!Start(p) \/ Scripts!Align(p) \/ Scripts!Fail(p)
               \/ Scripts!ensure_versions_are_unpublished(p) \/ Scripts!Checks(p) \/ Scripts!Again(p)
        PROVE  ReleaseInv'
    BY <1>5, ScriptStepKeeps
  <1>6. ASSUME NEW p \in Publishers, Scripts!run_publish(p) PROVE ReleaseInv'
    BY <1>6, run_publish_Keeps
  <1> QED BY <1>1, <1>2, <1>3, <1>4, <1>5, <1>6 DEF Scripts!Next

LEMMA CleanStep == ReleaseInv /\ CleanUnderRuns /\ [Scripts!Next]_(Scripts!vars) => CleanUnderRuns'
  <1> SUFFICES ASSUME ReleaseInv, CleanUnderRuns, [Scripts!Next]_(Scripts!vars)
      PROVE  CleanUnderRuns'
    OBVIOUS
  <1> USE DEF CleanUnderRuns, Scripts!Running
  <1>1. CASE Scripts!Moves /\ pc' = pc
    BY <1>1 DEF Scripts!Moves
  <1>2. CASE UNCHANGED <<tree, pc, moved>> /\ committed' \in {committed, tree}
    BY <1>2
  <1>3. ASSUME NEW p \in Publishers, NEW step,
               pc' = [pc EXCEPT ![p] = step], UNCHANGED <<tree, committed, moved>>,
               p \in Scripts!Running \/ tree = committed \/ step.at \in {"idle", "failed"}
        PROVE  CleanUnderRuns'
    BY <1>3 DEF ReleaseInv, ReleaseTypeOK
  <1>4. ASSUME NEW p \in Publishers,
               \/ Scripts!Start(p) \/ Scripts!Align(p) \/ Scripts!Fail(p)
               \/ Scripts!ensure_versions_are_unpublished(p) \/ Scripts!Checks(p)
               \/ Scripts!run_publish(p) \/ Scripts!Again(p)
        PROVE  CleanUnderRuns'
    <2>1. CASE Scripts!ensure_versions_are_unpublished(p)
      BY <1>3, <2>1 DEF Scripts!ensure_versions_are_unpublished, Scripts!At
    <2>2. CASE Scripts!run_publish(p)
      BY <1>3, <2>2 DEF Scripts!run_publish, Scripts!Upload, Scripts!At
    <2>3. CASE Scripts!Start(p)
      BY <1>3, <2>3 DEF Scripts!Start, Scripts!ensure_clean_worktree, Scripts!At
    <2>4. CASE Scripts!Align(p) \/ Scripts!Checks(p)
      BY <1>3, <2>4 DEF Scripts!Align, Scripts!Checks, Scripts!At
    <2>5. CASE Scripts!Fail(p) \/ Scripts!Again(p)
      BY <1>3, <2>5 DEF Scripts!Fail, Scripts!Again, Scripts!At
    <2> QED BY <1>4, <2>1, <2>2, <2>3, <2>4, <2>5
  <1> QED BY <1>1, <1>2, <1>4
         DEF Scripts!Next, Scripts!update_version, Scripts!update_install_snippets,
             Scripts!Restore, Scripts!BreakOff, Scripts!Commit, Scripts!vars

\* The types of the release scripts' state, and what holds of it at every moment:
\* what a bump has written, what a run whose tree is left alone may rely on, that
\* it is the committed one, and the order of what is published
\* (scripts/update_version.rs, scripts/publish.rs).
THEOREM ReleaseInvariance == Scripts!Spec => [](ReleaseInv /\ CleanUnderRuns)
  <1>1. Scripts!Init => CleanUnderRuns
    BY DEF Scripts!Init, CleanUnderRuns
  <1> QED BY <1>1, InitReleaseInv, ReleaseStep, CleanStep, PTL DEF Scripts!Spec

\* However many people publish whatever versions, however often a run stops and is
\* repeated: no crate is on crates.io without those it depends on, unless the tree
\* was changed under a run (publish.rs:370-390).
THEOREM PublishedInOrderHolds == Scripts!Spec => []PublishedInOrder
  <1>1. ReleaseInv => PublishedInOrder
    BY DEF ReleaseInv, PublishedInOrder
  <1> QED BY <1>1, ReleaseInvariance, PTL

\* A run that says it has published every crate has, at the version it announced
\* (publish.rs:200-213).
THEOREM FinishedRunsPublishAllHolds == Scripts!Spec => []FinishedRunsPublishAll
  <1>1. ReleaseInv => FinishedRunsPublishAll
    BY DEF ReleaseInv, RunsKept, RunKept, FinishedRunsPublishAll, Scripts!FinishedRunsPublishAll
  <1> QED BY <1>1, ReleaseInvariance, PTL

\* What a run publishes is whole, unless half a bump is committed
\* (update_version.rs:130-135, publish.rs:96-110).
THEOREM PublishedTreesAreWholeHolds == Scripts!Spec => []PublishedTreesAreWhole
  <1>1. ReleaseInv /\ CleanUnderRuns => PublishedTreesAreWhole
    <2> SUFFICES ASSUME ReleaseInv, CleanUnderRuns,
                        NEW p \in Publishers, p \in Scripts!Running, pc[p].at # "align",
                        p \notin moved, NEW c \in Scripts!Crates, own[c] = 0,
                        \/ ~broken /\ bump = {}
                        \/ committed = Scripts!Tree(committed.workspace)
        PROVE  tree = Scripts!Tree(version[p])
      BY DEF PublishedTreesAreWhole, Scripts!PublishedTreesAreWhole, Scripts!Running
    <2>1. Scripts!verify_versions_match(version[p])
      BY DEF ReleaseInv, RunsKept, RunKept, Scripts!Running
    <2>2. tree.workspace = version[p]
      BY <2>1 DEF Scripts!verify_versions_match, Scripts!crate_version
    <2>3. CASE committed = Scripts!Tree(committed.workspace)
      BY <2>2, <2>3 DEF CleanUnderRuns
    <2>4. CASE ~broken /\ bump = {}
      <3>1. tree \in Trees /\ \A f \in VERSIONED_SNIPPET_FILES : tree.snippets[f] = tree.workspace
        BY <2>4 DEF ReleaseInv, ReleaseTypeOK, BumpWrites
      <3>2. tree.snippets = [f \in VERSIONED_SNIPPET_FILES |-> version[p]]
        BY <2>2, <3>1 DEF Trees
      <3> QED BY <2>2, <3>1, <3>2 DEF Scripts!Tree, Trees
    <2> QED BY <2>3, <2>4
  <1> QED BY <1>1, ReleaseInvariance, PTL
=============================================================================
