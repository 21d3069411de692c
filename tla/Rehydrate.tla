------------------------------ MODULE Rehydrate ------------------------------
(***************************************************************************)
(* The rebuild surface that #[validators] generates                        *)
(* (statum-macros/src/validators/emission): build, build_report and        *)
(* explain on one row, build and build_reports on a batch.  Every call     *)
(* walks the rows in order, and for each row the validators in the order   *)
(* of the impl, awaiting each one; other calls, and changes of what the    *)
(* validators consult, interleave at the awaits.  A single-row call is a   *)
(* batch of one row.                                                       *)
(***************************************************************************)
EXTENDS RebuildCalls

CONSTANT MaxChanges   \* bound: how often what the validators consult changes

VARIABLES
  accepts,    \* the states whose validator would accept each row now
  changes,    \* how often that has changed
  asked,      \* the row each call is working on
  attempts,   \* __statum_attempts of that row
  matched,    \* __statum_matched_states of that row (explain)
  results,    \* the reports of the rows done, __statum_results
  ever,       \* history: accepted at some moment since the row was started
  always      \* history: accepted ever since the row was started

worldVars == <<accepts, changes>>
historyVars == <<ever, always>>
vars == <<worldVars, asked, attempts, matched, results, historyVars>>

Verdicts == INSTANCE RowVerdicts WITH
  verdicts <- [t \in Tasks |-> [i \in DOMAIN results[t] |-> results[t][i].result]]

ASSUME ChangesAssumption == MaxChanges \in Nat

Attempts == [target_state : States, matched : BOOLEAN]

\* RebuildAmbiguity, with the states of Ambiguous { matched_states }.
NotChecked == [kind |-> "NotChecked", matched_states |-> <<>>]
Unambiguous == [kind |-> "Unambiguous", matched_states |-> <<>>]
Ambiguous(states) == [kind |-> "Ambiguous", matched_states |-> states]

\* RebuildReport; what a plain build drops is kept to compare it with.
RebuildReport(trail, ambiguity, result) ==
  [attempts |-> trail, ambiguity |-> ambiguity, result |-> result]

\* RebuildReport::matched_attempt: the indices the search may stop at.
matched_attempt(report) ==
  {i \in DOMAIN report.attempts :
     /\ report.attempts[i].matched
     /\ \A j \in 1 .. (i - 1) : ~report.attempts[j].matched}

-----------------------------------------------------------------------------
Change(r, S) ==
  /\ changes < MaxChanges
  /\ changes' = changes + 1
  /\ accepts' = [accepts EXCEPT ![r] = S]
  /\ ever' = [t \in Tasks |-> IF asked[t] = r THEN ever[t] \cup S ELSE ever[t]]
  /\ always' = [t \in Tasks |-> IF asked[t] = r THEN always[t] \cap S ELSE always[t]]
  /\ UNCHANGED <<asked, attempts, matched, results>>

\* Mutant: the attempts of one row are left for the next.
into_machine_KeepAttempts(t) ==
  /\ asked[t] = NoRow
  /\ Len(results[t]) < Len(RowsOf[t])
  /\ LET r == RowsOf[t][Len(results[t]) + 1]
     IN  /\ asked' = [asked EXCEPT ![t] = r]
         /\ ever' = [ever EXCEPT ![t] = accepts[r]]
         /\ always' = [always EXCEPT ![t] = accepts[r]]
  /\ UNCHANGED <<worldVars, results, attempts, matched>>

\* The next item of the batch, or the only one: into_machine and its fields.
into_machine(t) ==
  /\ asked[t] = NoRow
  /\ Len(results[t]) < Len(RowsOf[t])
  /\ LET r == RowsOf[t][Len(results[t]) + 1]
     IN  /\ asked' = [asked EXCEPT ![t] = r]
         /\ ever' = [ever EXCEPT ![t] = accepts[r]]
         /\ always' = [always EXCEPT ![t] = accepts[r]]
  /\ attempts' = [attempts EXCEPT ![t] = <<>>]
  /\ matched' = [matched EXCEPT ![t] = <<>>]
  /\ UNCHANGED <<worldVars, results>>

\* The item is done: its report is pushed.
Finish(t, trail, ambiguity, result) ==
  /\ results' = [results EXCEPT ![t] = Append(@, RebuildReport(trail, ambiguity, result))]
  /\ asked' = [asked EXCEPT ![t] = NoRow]
  /\ UNCHANGED <<worldVars, historyVars, matched>>

\* A validator of the plan is still to run on the row of t.
HasNext(t) == asked[t] # NoRow /\ Len(attempts[t]) < Len(Plan)
NextState(t) == Plan[Len(attempts[t]) + 1]
Outcome(t) == [target_state |-> NextState(t), matched |-> NextState(t) \in accepts[asked[t]]]
Record(t) == attempts' = [attempts EXCEPT ![t] = Append(@, Outcome(t))]

\* Mutant: the accepting attempt is not pushed before the early return.
validator_check_SilentMatch(t) ==
  /\ OpOf[t] # "explain"
  /\ HasNext(t)
  /\ Record(t)
  /\ \/ /\ Outcome(t).matched
        /\ Finish(t, attempts[t], NotChecked, NextState(t))
     \/ /\ ~Outcome(t).matched
        /\ UNCHANGED <<worldVars, historyVars, asked, matched, results>>

\* build and build_report return at the first validator that accepts.
validator_check(t) ==
  /\ OpOf[t] # "explain"
  /\ HasNext(t)
  /\ Record(t)
  /\ \/ /\ Outcome(t).matched
        /\ Finish(t, Append(attempts[t], Outcome(t)), NotChecked, NextState(t))
     \/ /\ ~Outcome(t).matched
        /\ UNCHANGED <<worldVars, historyVars, asked, matched, results>>

\* explain runs every validator.
validator_explain_check(t) ==
  /\ OpOf[t] = "explain"
  /\ HasNext(t)
  /\ Record(t)
  /\ matched' = [matched EXCEPT ![t] =
                   IF Outcome(t).matched THEN Append(@, NextState(t)) ELSE @]
  /\ UNCHANGED <<worldVars, historyVars, asked, results>>

\* Mutant: a row that fails is taken up again.
no_validator_accepted_Retry(t) ==
  /\ OpOf[t] # "explain"
  /\ asked[t] # NoRow /\ ~HasNext(t)
  /\ asked' = [asked EXCEPT ![t] = NoRow]
  /\ UNCHANGED <<worldVars, historyVars, attempts, matched, results>>

\* The end of build and build_report when no validator accepted.
no_validator_accepted(t) ==
  /\ OpOf[t] # "explain"
  /\ asked[t] # NoRow /\ ~HasNext(t)
  /\ Finish(t, attempts[t], NotChecked, InvalidState)
  /\ UNCHANGED attempts

\* Mutant: explain settles an ambiguity the way build does.
validator_explain_finalizer_FirstMatch(t) ==
  LET result == IF Len(matched[t]) > 0 THEN matched[t][1] ELSE InvalidState
      ambiguity == IF Len(matched[t]) > 1 THEN Ambiguous(matched[t]) ELSE Unambiguous
  IN  /\ OpOf[t] = "explain"
      /\ asked[t] # NoRow /\ ~HasNext(t)
      /\ Finish(t, attempts[t], ambiguity, result)
      /\ UNCHANGED attempts

\* The end of explain: only a single match makes a machine.
validator_explain_finalizer(t) ==
  LET result == IF Len(matched[t]) = 1 THEN matched[t][1] ELSE InvalidState
      ambiguity == IF Len(matched[t]) > 1 THEN Ambiguous(matched[t]) ELSE Unambiguous
  IN  /\ OpOf[t] = "explain"
      /\ asked[t] # NoRow /\ ~HasNext(t)
      /\ Finish(t, attempts[t], ambiguity, result)
      /\ UNCHANGED attempts

-----------------------------------------------------------------------------
Init ==
  /\ accepts \in [Rows -> SUBSET States]
  /\ changes = 0
  /\ asked = [t \in Tasks |-> NoRow]
  /\ attempts = [t \in Tasks |-> <<>>]
  /\ matched = [t \in Tasks |-> <<>>]
  /\ results = [t \in Tasks |-> <<>>]
  /\ ever = [t \in Tasks |-> {}]
  /\ always = [t \in Tasks |-> {}]

Step(t) ==
  \/ into_machine(t)
  \/ validator_check(t)
  \/ validator_explain_check(t)
  \/ no_validator_accepted(t)
  \/ validator_explain_finalizer(t)

Next ==
  \/ \E r \in Rows, S \in SUBSET States : Change(r, S)
  \/ \E t \in Tasks : Step(t)

Spec == Init /\ [][Next]_vars

\* A future that is awaited is polled again; validators return.
FairSpec == Spec /\ \A t \in Tasks : WF_vars(Step(t))

-----------------------------------------------------------------------------
Reports == [attempts : Seq(Attempts),
            ambiguity : [kind : {"NotChecked", "Unambiguous", "Ambiguous"},
                         matched_states : Seq(States)],
            result : States \cup {InvalidState}]

TypeOK ==
  /\ accepts \in [Rows -> SUBSET States]
  /\ changes \in 0 .. MaxChanges
  /\ asked \in [Tasks -> Rows \cup {NoRow}]
  /\ attempts \in [Tasks -> Seq(Attempts)]
  /\ matched \in [Tasks -> Seq(States)]
  /\ results \in [Tasks -> Seq(Reports)]
  /\ ever \in [Tasks -> SUBSET States]
  /\ always \in [Tasks -> SUBSET States]

\* Whatever interleaves at the awaits, the verdict on a row is explained by a
\* set of validators between those that accepted throughout the row's turn and
\* those that accepted at some moment of it: none that held on is passed over,
\* and no machine is built in a state nobody vouched for
\* (checks.rs:61-267, into_machine.rs:88-161).
VerdictsAreJustified == Verdicts!Spec

\* The attempts that matched, and a list of their states in that order.
Hits(trail) == {k \in DOMAIN trail : trail[k].matched}

ListsHits(states, trail) ==
  \E order \in [DOMAIN states -> Hits(trail)] :
    /\ \A k \in Hits(trail) : \E i \in DOMAIN states : order[i] = k
    /\ \A i, j \in DOMAIN states : i < j => order[i] < order[j]
    /\ \A i \in DOMAIN states : states[i] = trail[order[i]].target_state

BuildAccounts(report, trail, hits) ==
  /\ hits \subseteq {Len(trail)}
  /\ matched_attempt(report) = hits
  /\ hits = {} => report.result = InvalidState /\ Len(trail) = Len(Plan)
  /\ \A k \in hits : report.result = trail[k].target_state

ExplainAccounts(report, trail, hits) ==
  /\ Len(trail) = Len(Plan)
  /\ report.result # InvalidState <=> \E k \in hits : hits = {k}
  /\ \A k \in hits : hits = {k} =>
       matched_attempt(report) = {k} /\ report.result = trail[k].target_state
  /\ report.ambiguity.kind = "Ambiguous" <=> \E j, k \in hits : j # k
  /\ report.ambiguity.kind = "Ambiguous" => ListsHits(report.ambiguity.matched_states, trail)

AccountsFor(t, report) ==
  /\ \A k \in DOMAIN report.attempts : report.attempts[k].target_state = Plan[k]
  /\ IF OpOf[t] # "explain"
     THEN BuildAccounts(report, report.attempts, Hits(report.attempts))
     ELSE ExplainAccounts(report, report.attempts, Hits(report.attempts))

\* A report's trail accounts for its result: it lists the plan in order, and
\* build_report stops at the attempt matched_attempt finds, whose state is the
\* result; explain lists the whole plan, its result is Ok only for a single
\* match, and Ambiguous names exactly the matches, in order (checks.rs:61-267).
ReportsAccountForResults ==
  \A t \in Tasks : \A i \in DOMAIN results[t] : AccountsFor(t, results[t][i])

\* When nothing the validators consult changes, the operations agree on a row,
\* in whatever order and alongside whatever other rows they meet it: build and
\* build_report give the same verdict, explain that verdict or, when it finds
\* several matches, InvalidState with that verdict's state listed first
\* (docs/rehydration-vocabulary.md:172-189).
OperationsAgreeInAQuietWorld ==
  changes = 0 =>
    \A t, u \in Tasks : \A i \in DOMAIN results[t], j \in DOMAIN results[u] :
      LET mine == results[t][i]
          other == results[u][j]
      IN  RowsOf[t][i] = RowsOf[u][j] /\ OpOf[t] # "explain" =>
            IF OpOf[u] # "explain" \/ other.ambiguity.kind # "Ambiguous"
            THEN mine.result = other.result
            ELSE mine.result = other.ambiguity.matched_states[1]

\* Every batch ends with one report per row: a row that fails neither stops the
\* batch nor loses a slot (batch_finalization.rs:28-114).
EveryRowGetsAReport ==
  <>(\A t \in Tasks : Len(results[t]) = Len(RowsOf[t]))

=============================================================================
