--------------------------- MODULE RehydrateProofs ---------------------------
(***************************************************************************)
(* Proofs about Rehydrate, for every plan, every set of calls and rows and *)
(* every number of changes: type correctness, that the rebuild surface     *)
(* implements RowVerdicts, that every report accounts for its result, and  *)
(* that the operations agree on a row while nothing changes.               *)
(***************************************************************************)
EXTENDS Rehydrate, TLAPS

\* The world of the row in hand lies between the two history sets.
SpanOK(t) ==
  asked[t] # NoRow => /\ always[t] \subseteq accepts[asked[t]]
                      /\ accepts[asked[t]] \subseteq ever[t]

\* The attempts are a prefix of the plan, and tell what was seen on the way.
TrailOK(t) ==
  asked[t] # NoRow =>
    /\ Len(attempts[t]) <= Len(Plan)
    /\ \A k \in 1 .. Len(attempts[t]) :
         /\ attempts[t][k].target_state = Plan[k]
         /\ attempts[t][k].matched => Plan[k] \in ever[t]
         /\ ~attempts[t][k].matched => Plan[k] \notin always[t]
         /\ OpOf[t] # "explain" => ~attempts[t][k].matched

\* The list lists the states of the matched attempts, each once.
Lists(list, trail) ==
  /\ \A m \in 1 .. Len(list) :
       \E k \in 1 .. Len(trail) : trail[k].matched = TRUE /\ Plan[k] = list[m]
  /\ \A k \in 1 .. Len(trail) : trail[k].matched = TRUE =>
       \E m \in 1 .. Len(list) : list[m] = Plan[k]
  /\ \A m, n \in 1 .. Len(list) : list[m] = list[n] => m = n

MatchesOK(t) ==
  asked[t] # NoRow /\ OpOf[t] = "explain" => Lists(matched[t], attempts[t])

IInv == TypeOK /\ \A t \in Tasks : SpanOK(t) /\ TrailOK(t) /\ MatchesOK(t)

-----------------------------------------------------------------------------
\* The assumptions on the plan, in the form the proofs below use.
LEMMA PlanFacts ==
  /\ Plan \in Seq(States)
  /\ \A s \in States : \E i \in 1 .. Len(Plan) : Plan[i] = s
  /\ \A i, j \in 1 .. Len(Plan) : Plan[i] = Plan[j] => i = j
  /\ \A i \in 1 .. Len(Plan) : Plan[i] \in States
  /\ OpOf \in [Tasks -> {"build", "build_report", "explain"}]
  /\ RowsOf \in [Tasks -> Seq(Rows)]
  /\ NoRow \notin Rows
  /\ InvalidState \notin States
  /\ MaxChanges \in Nat
BY PlanAssumption, ChangesAssumption DEF Operations, CollectedPlan

\* The initial states satisfy the invariant.
LEMMA InitIInv == Init => IInv
BY PlanFacts DEF Init, IInv, TypeOK, SpanOK, TrailOK, MatchesOK, Lists

\* A validator that is still to run is one of the plan, and its outcome is an
\* attempt.
LEMMA OutcomeType ==
  ASSUME TypeOK, NEW t \in Tasks, HasNext(t)
  PROVE  /\ NextState(t) \in States
         /\ Outcome(t) \in Attempts
         /\ Outcome(t).target_state = NextState(t)
         /\ Outcome(t).matched <=> NextState(t) \in accepts[asked[t]]
<1>1. Len(attempts[t]) \in Nat /\ Len(attempts[t]) + 1 \in 1 .. Len(Plan)
  BY PlanFacts DEF TypeOK, HasNext
<1>2. NextState(t) \in States
  BY <1>1, PlanFacts DEF NextState
<1>. DEFINE accepted == NextState(t) \in accepts[asked[t]]
<1>3. accepted \in BOOLEAN
  OBVIOUS
<1>4. Outcome(t) = [target_state |-> NextState(t), matched |-> accepted]
  BY DEF Outcome
<1>. HIDE DEF accepted
<1>5. Outcome(t) \in Attempts
  BY <1>2, <1>3, <1>4 DEF Attempts
<1>6. Outcome(t).target_state = NextState(t) /\ Outcome(t).matched = accepted
  BY <1>4
<1>. QED BY <1>2, <1>5, <1>6 DEF accepted

\* A finished item adds a well-typed report.
LEMMA FinishTypeOK ==
  ASSUME TypeOK, NEW t \in Tasks, NEW trail \in Seq(Attempts),
         NEW ambiguity \in [kind : {"NotChecked", "Unambiguous", "Ambiguous"},
                            matched_states : Seq(States)],
         NEW result \in States \cup {InvalidState},
         Finish(t, trail, ambiguity, result)
  PROVE  results' \in [Tasks -> Seq(Reports)] /\ asked' \in [Tasks -> Rows \cup {NoRow}]
<1>1. RebuildReport(trail, ambiguity, result) \in Reports
  BY DEF RebuildReport, Reports
<1>2. Append(results[t], RebuildReport(trail, ambiguity, result)) \in Seq(Reports)
  BY <1>1 DEF TypeOK
<1>. QED BY <1>2 DEF Finish, TypeOK

\* The verdicts of an ambiguity and of explain's match are well typed.
LEMMA AmbiguityType ==
  ASSUME NEW states \in Seq(States)
  PROVE  {NotChecked, Unambiguous, Ambiguous(states)} \subseteq
           [kind : {"NotChecked", "Unambiguous", "Ambiguous"}, matched_states : Seq(States)]
BY DEF NotChecked, Unambiguous, Ambiguous

\* Every step preserves the types.
LEMMA NextTypeOK == TypeOK /\ [Next]_vars => TypeOK'
<1>. SUFFICES ASSUME TypeOK, [Next]_vars PROVE TypeOK'
  OBVIOUS
<1>. USE PlanFacts
<1>1. ASSUME NEW r \in Rows, NEW S \in SUBSET States, Change(r, S) PROVE TypeOK'
  <2>1. changes' \in 0 .. MaxChanges
    BY <1>1 DEF Change, TypeOK
  <2>2. accepts' \in [Rows -> SUBSET States]
    BY <1>1 DEF Change, TypeOK
  <2>3. ever' \in [Tasks -> SUBSET States] /\ always' \in [Tasks -> SUBSET States]
    BY <1>1 DEF Change, TypeOK
  <2>. QED BY <1>1, <2>1, <2>2, <2>3 DEF Change, TypeOK
<1>2. ASSUME NEW t \in Tasks, into_machine(t) PROVE TypeOK'
  <2>1. RowsOf[t][Len(results[t]) + 1] \in Rows
    BY <1>2 DEF into_machine, TypeOK
  <2>2. attempts' \in [Tasks -> Seq(Attempts)] /\ matched' \in [Tasks -> Seq(States)]
    BY <1>2 DEF into_machine, TypeOK
  <2>. QED BY <1>2, <2>1, <2>2 DEF into_machine, TypeOK, worldVars
<1>3. ASSUME NEW t \in Tasks, validator_check(t) PROVE TypeOK'
  <2>1. Append(attempts[t], Outcome(t)) \in Seq(Attempts)
    BY <1>3, OutcomeType DEF validator_check, TypeOK
  <2>2. attempts' \in [Tasks -> Seq(Attempts)]
    BY <1>3, <2>1 DEF validator_check, Record, TypeOK
  <2>3. results' \in [Tasks -> Seq(Reports)] /\ asked' \in [Tasks -> Rows \cup {NoRow}]
    <3>1. NotChecked \in [kind : {"NotChecked", "Unambiguous", "Ambiguous"},
                          matched_states : Seq(States)]
      BY DEF NotChecked
    <3>2. CASE Outcome(t).matched
      BY <1>3, <2>1, <3>1, <3>2, OutcomeType, FinishTypeOK DEF validator_check
    <3>3. CASE ~Outcome(t).matched
      BY <1>3, <3>3 DEF validator_check, TypeOK
    <3>. QED BY <3>2, <3>3
  <2>. QED
    BY <1>3, <2>2, <2>3 DEF validator_check, Finish, TypeOK, worldVars, historyVars
<1>4. ASSUME NEW t \in Tasks, validator_explain_check(t) PROVE TypeOK'
  <2>1. Append(attempts[t], Outcome(t)) \in Seq(Attempts)
    BY <1>4, OutcomeType DEF validator_explain_check, TypeOK
  <2>2. attempts' \in [Tasks -> Seq(Attempts)]
    BY <1>4, <2>1 DEF validator_explain_check, Record, TypeOK
  <2>3. Append(matched[t], NextState(t)) \in Seq(States)
    BY <1>4, OutcomeType DEF validator_explain_check, TypeOK
  <2>4. matched' \in [Tasks -> Seq(States)]
    BY <1>4, <2>3 DEF validator_explain_check, TypeOK
  <2>. QED
    BY <1>4, <2>2, <2>4 DEF validator_explain_check, TypeOK, worldVars, historyVars
<1>5. ASSUME NEW t \in Tasks, no_validator_accepted(t) PROVE TypeOK'
  <2>1. attempts[t] \in Seq(Attempts)
    BY DEF TypeOK
  <2>2. NotChecked \in [kind : {"NotChecked", "Unambiguous", "Ambiguous"},
                        matched_states : Seq(States)]
    BY DEF NotChecked
  <2>3. Finish(t, attempts[t], NotChecked, InvalidState) /\ attempts' = attempts
    BY <1>5 DEF no_validator_accepted
  <2>4. results' \in [Tasks -> Seq(Reports)] /\ asked' \in [Tasks -> Rows \cup {NoRow}]
    BY <2>1, <2>2, <2>3, FinishTypeOK
  <2>. QED BY <2>3, <2>4 DEF Finish, TypeOK, worldVars, historyVars
<1>6. ASSUME NEW t \in Tasks, validator_explain_finalizer(t) PROVE TypeOK'
  <2>. DEFINE result == IF Len(matched[t]) = 1 THEN matched[t][1] ELSE InvalidState
              ambiguity == IF Len(matched[t]) > 1 THEN Ambiguous(matched[t]) ELSE Unambiguous
  <2>1. attempts[t] \in Seq(Attempts) /\ matched[t] \in Seq(States)
    BY DEF TypeOK
  <2>2. result \in States \cup {InvalidState}
    BY <2>1
  <2>3. ambiguity \in [kind : {"NotChecked", "Unambiguous", "Ambiguous"},
                       matched_states : Seq(States)]
    BY <2>1, AmbiguityType
  <2>4. Finish(t, attempts[t], ambiguity, result) /\ attempts' = attempts
    BY <1>6 DEF validator_explain_finalizer
  <2>. HIDE DEF result, ambiguity
  <2>5. results' \in [Tasks -> Seq(Reports)] /\ asked' \in [Tasks -> Rows \cup {NoRow}]
    BY <2>1, <2>2, <2>3, <2>4, FinishTypeOK
  <2>. QED BY <2>4, <2>5 DEF Finish, TypeOK, worldVars, historyVars
<1>7. CASE UNCHANGED vars
  BY <1>7 DEF vars, worldVars, historyVars, TypeOK
<1>. QED BY <1>1, <1>2, <1>3, <1>4, <1>5, <1>6, <1>7 DEF Next, Step

-----------------------------------------------------------------------------
\* The part of the invariant about one call depends on that call's state only.
Local(t) == <<asked[t], attempts[t], matched[t], ever[t], always[t]>>

LEMMA UntouchedCall ==
  ASSUME NEW t \in Tasks, UNCHANGED accepts, UNCHANGED Local(t),
         SpanOK(t), TrailOK(t), MatchesOK(t)
  PROVE  SpanOK(t)' /\ TrailOK(t)' /\ MatchesOK(t)'
<1>1. /\ asked'[t] = asked[t] /\ attempts'[t] = attempts[t] /\ matched'[t] = matched[t]
      /\ ever'[t] = ever[t] /\ always'[t] = always[t]
  BY DEF Local
<1>2. SpanOK(t)'
  BY <1>1 DEF SpanOK
<1>3. TrailOK(t)'
  BY <1>1 DEF TrailOK
<1>4. MatchesOK(t)'
  BY <1>1 DEF MatchesOK
<1>. QED BY <1>2, <1>3, <1>4

\* A call that is between two rows has nothing to keep.
LEMMA IdleCall ==
  ASSUME NEW t \in Tasks, asked'[t] = NoRow
  PROVE  SpanOK(t)' /\ TrailOK(t)' /\ MatchesOK(t)'
BY DEF SpanOK, TrailOK, MatchesOK

\* A change widens `ever` and narrows `always` of the calls on that row.
LEMMA ChangeIInv ==
  ASSUME IInv, NEW r \in Rows, NEW S \in SUBSET States, Change(r, S), NEW t \in Tasks
  PROVE  SpanOK(t)' /\ TrailOK(t)' /\ MatchesOK(t)'
<1>1. /\ asked'[t] = asked[t] /\ attempts'[t] = attempts[t] /\ matched'[t] = matched[t]
      /\ SpanOK(t) /\ TrailOK(t) /\ MatchesOK(t)
  BY DEF Change, IInv
<1>2. ever[t] \subseteq ever'[t] /\ always'[t] \subseteq always[t]
  BY DEF Change, IInv, TypeOK
<1>3. SpanOK(t)'
  <2>1. CASE asked[t] = r
    BY <1>1, <2>1 DEF Change, IInv, TypeOK, SpanOK
  <2>2. CASE asked[t] # r
    BY <1>1, <2>2 DEF Change, IInv, TypeOK, SpanOK
  <2>. QED BY <2>1, <2>2
<1>4. TrailOK(t)'
  BY <1>1, <1>2 DEF TrailOK
<1>5. MatchesOK(t)'
  BY <1>1 DEF MatchesOK
<1>. QED BY <1>3, <1>4, <1>5

\* A row is started with an empty trail and the world as it is.
LEMMA StartIInv ==
  ASSUME IInv, NEW t \in Tasks, into_machine(t)
  PROVE  SpanOK(t)' /\ TrailOK(t)' /\ MatchesOK(t)'
<1>. DEFINE r == RowsOf[t][Len(results[t]) + 1]
<1>1. r \in Rows
  <2>1. TypeOK
    BY DEF IInv
  <2>2. RowsOf[t][Len(results[t]) + 1] \in Rows
    BY <2>1, PlanFacts DEF into_machine, TypeOK
  <2>. QED BY <2>2
<1>2. /\ asked'[t] = r /\ ever'[t] = accepts[r] /\ always'[t] = accepts[r]
      /\ attempts'[t] = <<>> /\ matched'[t] = <<>> /\ accepts' = accepts
  BY DEF into_machine, IInv, TypeOK, worldVars
<1>. HIDE DEF r
<1>3. SpanOK(t)'
  BY <1>2 DEF SpanOK
<1>4. TrailOK(t)'
  BY <1>2, PlanFacts DEF TrailOK
<1>5. MatchesOK(t)'
  BY <1>2 DEF MatchesOK, Lists
<1>. QED BY <1>3, <1>4, <1>5

\* One more attempt keeps the trail truthful.
LEMMA RecordTrail ==
  ASSUME IInv, NEW t \in Tasks, HasNext(t), Record(t), UNCHANGED <<asked, ever, always>>,
         OpOf[t] # "explain" => ~Outcome(t).matched
  PROVE  TrailOK(t)'
<1>. DEFINE n == Len(attempts[t])
<1>1. n \in Nat /\ n + 1 <= Len(Plan) /\ NextState(t) = Plan[n + 1]
  BY PlanFacts DEF HasNext, NextState, IInv, TypeOK
<1>2. /\ attempts'[t] = Append(attempts[t], Outcome(t))
      /\ attempts[t] \in Seq(Attempts)
      /\ Len(attempts'[t]) = n + 1
      /\ attempts'[t][n + 1] = Outcome(t)
      /\ \A k \in 1 .. n : attempts'[t][k] = attempts[t][k]
  BY DEF Record, IInv, TypeOK
<1>3. /\ Outcome(t).target_state = Plan[n + 1]
      /\ Outcome(t).matched <=> Plan[n + 1] \in accepts[asked[t]]
  BY <1>1, OutcomeType DEF IInv
<1>4. /\ always[t] \subseteq accepts[asked[t]] /\ accepts[asked[t]] \subseteq ever[t]
      /\ TrailOK(t) /\ asked[t] # NoRow
  BY DEF IInv, SpanOK, HasNext
<1>. HIDE DEF n
<1>5. \A k \in 1 .. (n + 1) :
        /\ attempts'[t][k].target_state = Plan[k]
        /\ attempts'[t][k].matched => Plan[k] \in ever[t]
        /\ ~attempts'[t][k].matched => Plan[k] \notin always[t]
        /\ OpOf[t] # "explain" => ~attempts'[t][k].matched
  <2>. TAKE k \in 1 .. (n + 1)
  <2>1. CASE k = n + 1
    BY <2>1, <1>2, <1>3, <1>4
  <2>2. CASE k \in 1 .. n
    BY <2>2, <1>2, <1>4 DEF TrailOK, n
  <2>. QED BY <2>1, <2>2, <1>1
<1>. QED BY <1>1, <1>2, <1>5 DEF TrailOK

\* build and build_report: either the row is done, or its trail has grown.
LEMMA CheckIInv ==
  ASSUME IInv, NEW t \in Tasks, validator_check(t)
  PROVE  SpanOK(t)' /\ TrailOK(t)' /\ MatchesOK(t)'
<1>1. CASE Outcome(t).matched
  <2>1. asked'[t] = NoRow
    BY <1>1 DEF validator_check, Finish, IInv, TypeOK
  <2>. QED BY <2>1, IdleCall
<1>2. CASE ~Outcome(t).matched
  <2>1. UNCHANGED <<accepts, asked, ever, always, matched>>
    BY <1>2 DEF validator_check, worldVars, historyVars
  <2>2. SpanOK(t)'
    BY <2>1 DEF IInv, SpanOK
  <2>3. TrailOK(t)'
    BY <1>2, <2>1, RecordTrail DEF validator_check
  <2>4. MatchesOK(t)'
    BY <2>1 DEF validator_check, MatchesOK
  <2>. QED BY <2>2, <2>3, <2>4
<1>. QED BY <1>1, <1>2

\* explain: the matched states follow the trail.
LEMMA ExplainIInv ==
  ASSUME IInv, NEW t \in Tasks, validator_explain_check(t)
  PROVE  SpanOK(t)' /\ TrailOK(t)' /\ MatchesOK(t)'
<1>1. /\ UNCHANGED <<accepts, asked, ever, always>>
      /\ HasNext(t) /\ Record(t) /\ OpOf[t] = "explain"
  BY DEF validator_explain_check, worldVars, historyVars
<1>2. SpanOK(t)'
  BY <1>1 DEF IInv, SpanOK
<1>3. TrailOK(t)'
  BY <1>1, RecordTrail
<1>. DEFINE n == Len(attempts[t])
            m == Len(matched[t])
<1>4. /\ n \in Nat /\ m \in Nat
      /\ n + 1 \in 1 .. Len(Plan) /\ NextState(t) = Plan[n + 1]
      /\ Len(attempts'[t]) = n + 1
      /\ attempts'[t][n + 1] = Outcome(t)
      /\ \A k \in 1 .. n : attempts'[t][k] = attempts[t][k]
  BY <1>1, PlanFacts DEF HasNext, NextState, Record, IInv, TypeOK
<1>. HIDE DEF n, m
<1>5. /\ \A k \in 1 .. (n + 1) : k \in 1 .. n \/ k = n + 1
      /\ \A i \in 1 .. (m + 1) : i \in 1 .. m \/ i = m + 1
  BY <1>4
<1>. USE DEF n, m
<1>6. MatchesOK(t) /\ asked[t] # NoRow
  BY <1>1 DEF IInv, HasNext
<1>. DEFINE accepted == NextState(t) \in accepts[asked[t]]
<1>7. matched'[t] = IF accepted THEN Append(matched[t], Plan[n + 1]) ELSE matched[t]
  BY <1>1, <1>4, OutcomeType DEF validator_explain_check, IInv, TypeOK
<1>8. (attempts'[t][n + 1].matched = TRUE) <=> accepted
  BY <1>1, <1>4, OutcomeType DEF IInv, Attempts
<1>. HIDE DEF accepted
<1>9. CASE accepted
  <2>1. /\ Len(matched'[t]) = m + 1
        /\ matched'[t][m + 1] = Plan[n + 1]
        /\ \A i \in 1 .. m : matched'[t][i] = matched[t][i]
    BY <1>7, <1>9 DEF IInv, TypeOK
  <2>2. \A i \in 1 .. m : \E k \in 1 .. n :
          attempts[t][k].matched = TRUE /\ Plan[k] = matched[t][i]
    BY <1>1, <1>6 DEF MatchesOK, Lists
  <2>3. \A k \in 1 .. n : attempts[t][k].matched = TRUE =>
          \E i \in 1 .. m : matched[t][i] = Plan[k]
    BY <1>1, <1>6 DEF MatchesOK, Lists
  <2>4. \A i, j \in 1 .. m : matched[t][i] = matched[t][j] => i = j
    BY <1>1, <1>6 DEF MatchesOK, Lists
  <2>5. \A i \in 1 .. m : matched[t][i] # Plan[n + 1]
    <3>. TAKE i \in 1 .. m
    <3>1. PICK k \in 1 .. n : Plan[k] = matched[t][i]
      BY <2>2
    <3>2. k \in 1 .. Len(Plan) /\ k # n + 1
      BY <1>4, <3>1
    <3>. QED BY <3>1, <3>2, <1>4, PlanFacts
  <2>. HIDE DEF n, m
  <2>6. \A i \in 1 .. (m + 1) : \E k \in 1 .. (n + 1) :
          attempts'[t][k].matched = TRUE /\ Plan[k] = matched'[t][i]
    <3>. TAKE i \in 1 .. (m + 1)
    <3>1. CASE i = m + 1
      BY <3>1, <2>1, <1>4, <1>9, <1>8
    <3>2. CASE i \in 1 .. m
      <4>1. PICK k \in 1 .. n : attempts[t][k].matched = TRUE /\ Plan[k] = matched[t][i]
        BY <3>2, <2>2
      <4>2. k \in 1 .. (n + 1)
        BY <1>4
      <4>3. attempts'[t][k].matched = TRUE /\ Plan[k] = matched'[t][i]
        BY <3>2, <4>1, <2>1, <1>4
      <4>. QED BY <4>2, <4>3
    <3>. QED BY <3>1, <3>2, <1>5
  <2>7. \A k \in 1 .. (n + 1) : attempts'[t][k].matched = TRUE =>
          \E i \in 1 .. (m + 1) : matched'[t][i] = Plan[k]
    <3>. TAKE k \in 1 .. (n + 1)
    <3>1. CASE k = n + 1
      BY <3>1, <2>1, <1>4
    <3>2. CASE k \in 1 .. n
      BY <3>2, <2>1, <2>3, <1>4
    <3>. QED BY <3>1, <3>2, <1>5
  <2>8. \A i, j \in 1 .. (m + 1) : matched'[t][i] = matched'[t][j] => i = j
    BY <2>1, <2>4, <2>5, <1>4
  <2>9. Len(matched'[t]) = m + 1 /\ Len(attempts'[t]) = n + 1
    BY <2>1, <1>4
  <2>10. MatchesOK(t)'
    BY <2>6, <2>7, <2>8, <2>9 DEF MatchesOK, Lists
  <2>. QED BY <1>2, <1>3, <2>10
<1>10. CASE ~accepted
  <2>1. matched'[t] = matched[t]
    BY <1>10, <1>7
  <2>2. MatchesOK(t)'
    <3>1. attempts'[t][n + 1].matched # TRUE
      BY <1>8, <1>10
    <3>. HIDE DEF n
    <3>2. ASSUME NEW i \in 1 .. Len(matched[t])
          PROVE  \E k \in 1 .. (n + 1) : attempts'[t][k].matched = TRUE /\ Plan[k] = matched[t][i]
      <4>1. PICK k \in 1 .. n : attempts[t][k].matched = TRUE /\ Plan[k] = matched[t][i]
        BY <1>1, <1>6 DEF MatchesOK, Lists, n
      <4>2. k \in 1 .. (n + 1)
        BY <1>4
      <4>3. attempts'[t][k].matched = TRUE
        BY <4>1, <1>4
      <4>. QED BY <4>1, <4>2, <4>3
    <3>3. ASSUME NEW k \in 1 .. (n + 1), attempts'[t][k].matched = TRUE
          PROVE  \E i \in 1 .. Len(matched[t]) : matched[t][i] = Plan[k]
      <4>1. k \in 1 .. n
        BY <1>5, <3>1, <3>3
      <4>2. attempts[t][k].matched = TRUE
        BY <1>4, <3>3, <4>1
      <4>. QED BY <1>1, <1>6, <4>1, <4>2 DEF MatchesOK, Lists, n
    <3>4. \A i, j \in 1 .. Len(matched[t]) : matched[t][i] = matched[t][j] => i = j
      BY <1>1, <1>6 DEF MatchesOK, Lists
    <3>5. Len(attempts'[t]) = n + 1
      BY <1>4
    <3>6. \A i \in 1 .. Len(matched'[t]) : \E k \in 1 .. Len(attempts'[t]) :
            attempts'[t][k].matched = TRUE /\ Plan[k] = matched'[t][i]
      BY <2>1, <3>2, <3>5
    <3>7. \A k \in 1 .. Len(attempts'[t]) : attempts'[t][k].matched = TRUE =>
            \E i \in 1 .. Len(matched'[t]) : matched'[t][i] = Plan[k]
      BY <2>1, <3>3, <3>5
    <3>8. \A i, j \in 1 .. Len(matched'[t]) : matched'[t][i] = matched'[t][j] => i = j
      BY <2>1, <3>4
    <3>. QED BY <3>6, <3>7, <3>8 DEF MatchesOK, Lists
  <2>. QED BY <1>2, <1>3, <2>2
<1>. QED BY <1>9, <1>10

\* Every step preserves the invariant: a step of one call leaves the others
\* as they are.
LEMMA NextIInv == IInv /\ [Next]_vars => IInv'
<1>. SUFFICES ASSUME IInv, [Next]_vars PROVE IInv'
  OBVIOUS
<1>1. TypeOK'
  BY NextTypeOK DEF IInv
<1>2. ASSUME NEW u \in Tasks PROVE SpanOK(u)' /\ TrailOK(u)' /\ MatchesOK(u)'
  <2>1. SpanOK(u) /\ TrailOK(u) /\ MatchesOK(u)
    BY DEF IInv
  <2>2. CASE \E r \in Rows, S \in SUBSET States : Change(r, S)
    BY <2>2, ChangeIInv
  <2>3. ASSUME NEW t \in Tasks, Step(t), t # u
        PROVE  SpanOK(u)' /\ TrailOK(u)' /\ MatchesOK(u)'
    <3>1. UNCHANGED accepts /\ UNCHANGED Local(u)
      <4>1. CASE into_machine(t)
        BY <4>1, <2>3 DEF into_machine, Local, worldVars, IInv, TypeOK
      <4>2. CASE validator_check(t)
        BY <4>2, <2>3
        DEF validator_check, Finish, Record, Local, worldVars, historyVars, IInv, TypeOK
      <4>3. CASE validator_explain_check(t)
        BY <4>3, <2>3
        DEF validator_explain_check, Record, Local, worldVars, historyVars, IInv, TypeOK
      <4>4. CASE no_validator_accepted(t)
        BY <4>4, <2>3
        DEF no_validator_accepted, Finish, Local, worldVars, historyVars, IInv, TypeOK
      <4>5. CASE validator_explain_finalizer(t)
        BY <4>5, <2>3
        DEF validator_explain_finalizer, Finish, Local, worldVars, historyVars, IInv, TypeOK
      <4>. QED BY <2>3, <4>1, <4>2, <4>3, <4>4, <4>5 DEF Step
    <3>. QED BY <2>1, <3>1, UntouchedCall
  <2>4. ASSUME Step(u) PROVE SpanOK(u)' /\ TrailOK(u)' /\ MatchesOK(u)'
    <3>1. CASE into_machine(u)
      BY <3>1, StartIInv
    <3>2. CASE validator_check(u)
      BY <3>2, CheckIInv
    <3>3. CASE validator_explain_check(u)
      BY <3>3, ExplainIInv
    <3>4. CASE no_validator_accepted(u)
      <4>1. asked'[u] = NoRow
        BY <3>4 DEF no_validator_accepted, Finish, IInv, TypeOK
      <4>. QED BY <4>1, IdleCall
    <3>5. CASE validator_explain_finalizer(u)
      <4>1. asked'[u] = NoRow
        BY <3>5 DEF validator_explain_finalizer, Finish, IInv, TypeOK
      <4>. QED BY <4>1, IdleCall
    <3>. QED BY <2>4, <3>1, <3>2, <3>3, <3>4, <3>5 DEF Step
  <2>5. CASE UNCHANGED vars
    BY <2>1, <2>5, UntouchedCall DEF vars, worldVars, historyVars, Local
  <2>. QED BY <2>2, <2>3, <2>4, <2>5 DEF Next
<1>. QED BY <1>1, <1>2 DEF IInv

\* The inductive invariant holds throughout every behaviour.
THEOREM Invariance == Spec => []IInv
BY InitIInv, NextIInv, PTL DEF Spec

\* Every variable keeps its type, for any plan, calls and rows.
THEOREM TypeCorrect == Spec => []TypeOK
<1>1. IInv => TypeOK
  BY DEF IInv
<1>. QED BY <1>1, Invariance, PTL

-----------------------------------------------------------------------------
\* The verdicts RowVerdicts sees in the results.
Shown(s) == [i \in DOMAIN s |-> s[i].result]

\* A report pushed is a verdict pushed.
LEMMA ShownAppend ==
  ASSUME NEW s \in Seq(Reports), NEW r \in Reports
  PROVE  Shown(Append(s, r)) = Append(Shown(s), r.result)
<1>1. /\ DOMAIN Append(s, r) = 1 .. (Len(s) + 1)
      /\ \A i \in 1 .. Len(s) : Append(s, r)[i] = s[i]
      /\ Append(s, r)[Len(s) + 1] = r
      /\ DOMAIN s = 1 .. Len(s)
      /\ Len(s) \in Nat
  OBVIOUS
<1>2. Shown(s) \in Seq(States \cup {InvalidState}) /\ Len(Shown(s)) = Len(s)
  <2>1. \A i \in 1 .. Len(s) : s[i].result \in States \cup {InvalidState}
    <3>. TAKE i \in 1 .. Len(s)
    <3>1. s[i] \in Reports
      BY <1>1
    <3>. QED BY <3>1 DEF Reports
  <2>2. Shown(s) \in [1 .. Len(s) -> States \cup {InvalidState}]
    BY <1>1, <2>1 DEF Shown
  <2>. QED BY <2>2, <1>1
<1>3. r.result \in States \cup {InvalidState}
  BY DEF Reports
<1>4. /\ DOMAIN Append(Shown(s), r.result) = 1 .. (Len(s) + 1)
      /\ \A i \in 1 .. Len(s) : Append(Shown(s), r.result)[i] = s[i].result
      /\ Append(Shown(s), r.result)[Len(s) + 1] = r.result
      /\ Append(Shown(s), r.result) \in Seq(States \cup {InvalidState})
  BY <1>1, <1>2, <1>3 DEF Shown
<1>5. DOMAIN Shown(Append(s, r)) = 1 .. (Len(s) + 1)
  BY <1>1 DEF Shown
<1>6. \A i \in 1 .. (Len(s) + 1) : Shown(Append(s, r))[i] = Append(Shown(s), r.result)[i]
  <2>. TAKE i \in 1 .. (Len(s) + 1)
  <2>1. CASE i = Len(s) + 1
    BY <2>1, <1>1, <1>4 DEF Shown
  <2>2. CASE i \in 1 .. Len(s)
    BY <2>2, <1>1, <1>4 DEF Shown
  <2>3. i = Len(s) + 1 \/ i \in 1 .. Len(s)
    BY <1>1
  <2>. QED BY <2>1, <2>2, <2>3
<1>7. /\ Shown(Append(s, r)) = [i \in 1 .. (Len(s) + 1) |-> Shown(Append(s, r))[i]]
      /\ Append(Shown(s), r.result) = [i \in 1 .. (Len(s) + 1) |-> Append(Shown(s), r.result)[i]]
  BY <1>1, <1>4 DEF Shown
<1>. QED BY <1>6, <1>7

\* Finishing a row with a verdict its span allows is an Answer of RowVerdicts.
LEMMA FinishAnswers ==
  ASSUME TypeOK, NEW t \in Tasks, asked[t] # NoRow,
         NEW trail \in Seq(Attempts),
         NEW ambiguity \in [kind : {"NotChecked", "Unambiguous", "Ambiguous"},
                            matched_states : Seq(States)],
         NEW result \in States \cup {InvalidState},
         Finish(t, trail, ambiguity, result),
         NEW M \in SUBSET States, always[t] \subseteq M, M \subseteq ever[t],
         Verdicts!Verdict(OpOf[t], M, result)
  PROVE  Verdicts!Next
<1>. DEFINE report == RebuildReport(trail, ambiguity, result)
<1>1. report \in Reports /\ report.result = result
  BY DEF RebuildReport, Reports
<1>2. results' = [results EXCEPT ![t] = Append(@, report)]
  BY DEF Finish
<1>. HIDE DEF report
<1>3. [u \in Tasks |-> Shown(results'[u])]
        = [[u \in Tasks |-> Shown(results[u])] EXCEPT ![t] = Append(@, result)]
  <2>1. Shown(results'[t]) = Append(Shown(results[t]), result)
    BY <1>1, <1>2, ShownAppend DEF TypeOK
  <2>2. \A u \in Tasks \ {t} : results'[u] = results[u]
    BY <1>2 DEF TypeOK
  <2>. QED BY <2>1, <2>2
<1>4. Verdicts!Answer(t, M, result)
  BY <1>3 DEF Verdicts!Answer, Finish, worldVars, historyVars, Shown
<1>. QED BY <1>4 DEF Verdicts!Next

\* The first validator to accept: with the ones that always accepted it makes
\* a set that build answers from.
LEMMA CheckAnswers ==
  ASSUME IInv, NEW t \in Tasks, validator_check(t), Outcome(t).matched
  PROVE  Verdicts!Next
<1>1. TypeOK /\ TrailOK(t) /\ SpanOK(t) /\ HasNext(t) /\ asked[t] # NoRow /\ OpOf[t] # "explain"
  BY DEF IInv, validator_check, HasNext
<1>. DEFINE M == always[t] \cup {NextState(t)}
            n == Len(attempts[t])
<1>2. NextState(t) \in States /\ NextState(t) \in accepts[asked[t]]
  BY <1>1, OutcomeType
<1>3. M \in SUBSET States /\ always[t] \subseteq M /\ M \subseteq ever[t]
  BY <1>1, <1>2 DEF TypeOK, SpanOK
<1>4. n \in Nat /\ n + 1 \in 1 .. Len(Plan) /\ NextState(t) = Plan[n + 1]
  BY <1>1, PlanFacts DEF HasNext, NextState, TypeOK
<1>5. \A j \in 1 .. n : Plan[j] \notin always[t]
  BY <1>1 DEF TrailOK
<1>6. \A j \in 1 .. n : Plan[j] # Plan[n + 1]
  <2>. TAKE j \in 1 .. n
  <2>1. j \in 1 .. Len(Plan) /\ j # n + 1
    BY <1>4
  <2>. QED BY <1>4, <2>1, PlanFacts
<1>7. \A j \in 1 .. ((n + 1) - 1) : Plan[j] \notin M
  BY <1>4, <1>5, <1>6
<1>8. Verdicts!Verdict(OpOf[t], M, NextState(t))
  <2>1. DOMAIN Plan = 1 .. Len(Plan)
    BY PlanFacts
  <2>2. NextState(t) \in M
    OBVIOUS
  <2>. HIDE DEF M, n
  <2>. QED BY <1>1, <1>4, <1>7, <2>1, <2>2 DEF Verdicts!Verdict
<1>9. Append(attempts[t], Outcome(t)) \in Seq(Attempts)
  BY <1>1, OutcomeType DEF TypeOK
<1>10. Finish(t, Append(attempts[t], Outcome(t)), NotChecked, NextState(t))
  BY DEF validator_check
<1>11. NotChecked \in [kind : {"NotChecked", "Unambiguous", "Ambiguous"},
                       matched_states : Seq(States)]
  BY DEF NotChecked
<1>. HIDE DEF M
<1>. QED BY <1>1, <1>2, <1>3, <1>8, <1>9, <1>10, <1>11, FinishAnswers

\* No validator accepted: none accepted all along.
LEMMA ExhaustedAnswers ==
  ASSUME IInv, NEW t \in Tasks, no_validator_accepted(t)
  PROVE  Verdicts!Next
<1>1. /\ TypeOK /\ TrailOK(t) /\ asked[t] # NoRow /\ OpOf[t] # "explain"
      /\ Len(attempts[t]) = Len(Plan)
  BY PlanFacts DEF IInv, TypeOK, no_validator_accepted, TrailOK, HasNext
<1>2. \A k \in 1 .. Len(Plan) : Plan[k] \notin always[t]
  BY <1>1 DEF TrailOK
<1>3. always[t] \subseteq {}
  BY <1>1, <1>2, PlanFacts DEF TypeOK
<1>4. Verdicts!Verdict(OpOf[t], {}, InvalidState)
  BY <1>1 DEF Verdicts!Verdict
<1>5. /\ Finish(t, attempts[t], NotChecked, InvalidState)
      /\ attempts[t] \in Seq(Attempts)
  BY <1>1 DEF no_validator_accepted, TypeOK
<1>6. NotChecked \in [kind : {"NotChecked", "Unambiguous", "Ambiguous"},
                      matched_states : Seq(States)]
  BY DEF NotChecked
<1>7. {} \subseteq ever[t] /\ {} \in SUBSET States
  OBVIOUS
<1>. QED BY <1>1, <1>3, <1>4, <1>5, <1>6, <1>7, FinishAnswers

\* explain answers from the set of its matches.
LEMMA ExplainAnswers ==
  ASSUME IInv, NEW t \in Tasks, validator_explain_finalizer(t)
  PROVE  Verdicts!Next
<1>1. /\ TypeOK /\ TrailOK(t) /\ MatchesOK(t) /\ asked[t] # NoRow /\ OpOf[t] = "explain"
      /\ Len(attempts[t]) = Len(Plan) /\ Len(matched[t]) \in Nat
      /\ attempts[t] \in Seq(Attempts) /\ matched[t] \in Seq(States)
  BY PlanFacts DEF IInv, TypeOK, validator_explain_finalizer, TrailOK, HasNext
<1>. DEFINE m == Len(matched[t])
            M == {matched[t][i] : i \in 1 .. m}
            result == IF m = 1 THEN matched[t][1] ELSE InvalidState
            ambiguity == IF m > 1 THEN Ambiguous(matched[t]) ELSE Unambiguous
<1>2. M \in SUBSET States
  BY <1>1
<1>3. \A k \in 1 .. Len(Plan) : attempts[t][k].matched \in BOOLEAN
  <2>. TAKE k \in 1 .. Len(Plan)
  <2>1. attempts[t][k] \in Attempts
    BY <1>1
  <2>. QED BY <2>1 DEF Attempts
<1>4. M \subseteq ever[t]
  <2>. SUFFICES ASSUME NEW i \in 1 .. m PROVE matched[t][i] \in ever[t]
    OBVIOUS
  <2>1. PICK k \in 1 .. Len(Plan) : attempts[t][k].matched = TRUE /\ Plan[k] = matched[t][i]
    BY <1>1 DEF MatchesOK, Lists
  <2>2. attempts[t][k].matched => Plan[k] \in ever[t]
    BY <1>1 DEF TrailOK
  <2>. QED BY <2>1, <2>2
<1>5. always[t] \subseteq M
  <2>. SUFFICES ASSUME NEW s \in always[t] PROVE s \in M
    OBVIOUS
  <2>1. s \in States
    BY <1>1 DEF TypeOK
  <2>2. PICK k \in 1 .. Len(Plan) : Plan[k] = s
    BY <2>1, PlanFacts
  <2>3. attempts[t][k].matched
    BY <1>1, <2>2 DEF TrailOK
  <2>4. attempts[t][k].matched = TRUE
    BY <2>3, <1>3
  <2>5. PICK i \in 1 .. m : matched[t][i] = Plan[k]
    BY <1>1, <2>4 DEF MatchesOK, Lists
  <2>. QED BY <2>2, <2>5
<1>6. Verdicts!Verdict(OpOf[t], M, result)
  <2>1. CASE m = 1
    <3>1. M = {matched[t][1]} /\ result = matched[t][1]
      BY <2>1
    <3>. HIDE DEF M, result
    <3>. QED BY <1>1, <3>1 DEF Verdicts!Verdict
  <2>2. CASE m # 1
    <3>1. \A s \in States : M # {s}
      <4>1. CASE m = 0
        BY <4>1
      <4>2. CASE m > 1
        <5>1. matched[t][1] \in M /\ matched[t][2] \in M
          BY <4>2, <1>1
        <5>2. matched[t][1] # matched[t][2]
          BY <4>2, <1>1 DEF MatchesOK, Lists
        <5>. HIDE DEF M
        <5>. QED BY <5>1, <5>2
      <4>3. m = 0 \/ m > 1
        <5>1. m \in Nat
          BY <1>1
        <5>. HIDE DEF m
        <5>. QED BY <2>2, <5>1
      <4>. QED BY <4>1, <4>2, <4>3
    <3>2. result = InvalidState
      BY <2>2
    <3>. HIDE DEF M, result
    <3>. QED BY <1>1, <3>1, <3>2 DEF Verdicts!Verdict
  <2>. QED BY <2>1, <2>2
<1>7. result \in States \cup {InvalidState}
  BY <1>1
<1>8. ambiguity \in [kind : {"NotChecked", "Unambiguous", "Ambiguous"},
                     matched_states : Seq(States)]
  BY <1>1, AmbiguityType
<1>9. Finish(t, attempts[t], ambiguity, result)
  BY DEF validator_explain_finalizer
<1>. HIDE DEF M, result, ambiguity, m
<1>. QED BY <1>1, <1>2, <1>4, <1>5, <1>6, <1>7, <1>8, <1>9, FinishAnswers

\* Every step is a step of RowVerdicts or leaves what it sees unchanged.
LEMMA StepSimulation == IInv /\ [Next]_vars => [Verdicts!Next]_(Verdicts!verdictVars)
<1>. SUFFICES ASSUME IInv, [Next]_vars PROVE [Verdicts!Next]_(Verdicts!verdictVars)
  OBVIOUS
<1>1. ASSUME NEW r \in Rows, NEW S \in SUBSET States, Change(r, S) PROVE Verdicts!Next
  BY <1>1 DEF Change, Verdicts!Change, Verdicts!Next
<1>2. ASSUME NEW t \in Tasks, into_machine(t) PROVE Verdicts!Next
  <2>1. /\ Len(Shown(results[t])) = Len(results[t])
        /\ Len(results[t]) \in Nat
    <3>1. results[t] \in Seq(Reports)
      BY DEF IInv, TypeOK
    <3>. QED BY <3>1 DEF Shown
  <2>2. [u \in Tasks |-> Shown(results[u])][t] = Shown(results[t])
    OBVIOUS
  <2>3. Verdicts!Ask(t)
    BY <1>2, <2>1, <2>2 DEF into_machine, Verdicts!Ask, worldVars, Shown
  <2>. QED BY <2>3 DEF Verdicts!Next
<1>3. ASSUME NEW t \in Tasks, validator_check(t)
      PROVE  Verdicts!Next \/ UNCHANGED Verdicts!verdictVars
  <2>1. CASE Outcome(t).matched
    BY <1>3, <2>1, CheckAnswers
  <2>2. CASE ~Outcome(t).matched
    BY <1>3, <2>2 DEF validator_check, Verdicts!verdictVars, worldVars, historyVars
  <2>. QED BY <2>1, <2>2
<1>4. ASSUME NEW t \in Tasks, validator_explain_check(t) PROVE UNCHANGED Verdicts!verdictVars
  BY <1>4 DEF validator_explain_check, Verdicts!verdictVars, worldVars, historyVars
<1>5. CASE UNCHANGED vars
  BY <1>5 DEF vars, Verdicts!verdictVars, worldVars, historyVars
<1>. QED
  BY <1>1, <1>2, <1>3, <1>4, <1>5, ExhaustedAnswers, ExplainAnswers DEF Next, Step

\* The rebuild surface implements RowVerdicts: every verdict is justified by
\* what the validators said while the row was being looked at.
THEOREM Refinement == Spec => VerdictsAreJustified
<1>1. Init => Verdicts!Init
  BY DEF Init, Verdicts!Init
<1>. QED BY <1>1, StepSimulation, Invariance, PTL DEF Spec, VerdictsAreJustified, Verdicts!Spec

-----------------------------------------------------------------------------
(* What a report says of its row: the list of an explain in progress names  *)
(* its hits in order, and every report that was pushed accounts for itself. *)
ListOK(t) ==
  asked[t] # NoRow /\ OpOf[t] = "explain" => ListsHits(matched[t], attempts[t])

ReportsInv == ReportsAccountForResults /\ \A t \in Tasks : ListOK(t)

\* Whether an attempt matched is a Boolean.
LEMMA AttemptFacts ==
  ASSUME NEW trail \in Seq(Attempts)
  PROVE  /\ DOMAIN trail = 1 .. Len(trail) /\ Len(trail) \in Nat
         /\ \A k \in DOMAIN trail : trail[k].matched \in BOOLEAN
         /\ Hits(trail) \subseteq 1 .. Len(trail)
<1>1. DOMAIN trail = 1 .. Len(trail) /\ Len(trail) \in Nat
  OBVIOUS
<1>2. \A k \in DOMAIN trail : trail[k].matched \in BOOLEAN
  <2>. TAKE k \in DOMAIN trail
  <2>1. trail[k] \in Attempts
    OBVIOUS
  <2>. QED BY <2>1 DEF Attempts
<1>. QED BY <1>1, <1>2 DEF Hits

\* One more attempt adds at most one hit.
LEMMA HitsGrow ==
  ASSUME NEW trail \in Seq(Attempts), NEW a \in Attempts
  PROVE  /\ a.matched => Hits(Append(trail, a)) = Hits(trail) \cup {Len(trail) + 1}
         /\ ~a.matched => Hits(Append(trail, a)) = Hits(trail)
<1>. DEFINE n == Len(trail) + 1
            longer == Append(trail, a)
<1>1. /\ DOMAIN trail = 1 .. Len(trail) /\ Len(trail) \in Nat
      /\ DOMAIN longer = DOMAIN trail \cup {n} /\ longer[n] = a
      /\ \A k \in DOMAIN trail : longer[k] = trail[k] /\ k # n
  OBVIOUS
<1>. HIDE DEF longer, n
<1>2. \A k : k \in Hits(longer) <=> k \in Hits(trail) \/ (k = n /\ a.matched)
  BY <1>1 DEF Hits
<1>3. Hits(longer) = Hits(trail) \cup {k \in {n} : a.matched}
  BY <1>2
<1>. QED BY <1>3 DEF longer, n

\* A list of hits grows with its trail.
LEMMA ListGrows ==
  ASSUME NEW trail \in Seq(Attempts), NEW states \in Seq(States), NEW a \in Attempts,
         ListsHits(states, trail)
  PROVE  /\ a.matched => ListsHits(Append(states, a.target_state), Append(trail, a))
         /\ ~a.matched => ListsHits(states, Append(trail, a))
<1>. DEFINE n == Len(trail) + 1
            m == Len(states) + 1
            longer == Append(trail, a)
            named == Append(states, a.target_state)
<1>1. /\ Len(trail) \in Nat /\ longer[n] = a
      /\ \A k \in 1 .. Len(trail) : longer[k] = trail[k]
  OBVIOUS
<1>2. \A k \in Hits(trail) : k \in 1 .. Len(trail) /\ longer[k] = trail[k] /\ k < n
  BY <1>1, AttemptFacts
<1>3. PICK order \in [DOMAIN states -> Hits(trail)] :
        /\ \A k \in Hits(trail) : \E i \in DOMAIN states : order[i] = k
        /\ \A i, j \in DOMAIN states : i < j => order[i] < order[j]
        /\ \A i \in DOMAIN states : states[i] = trail[order[i]].target_state
  BY DEF ListsHits
<1>4. ASSUME ~a.matched PROVE ListsHits(states, longer)
  <2>1. Hits(longer) = Hits(trail)
    BY <1>4, HitsGrow
  <2>. HIDE DEF longer
  <2>2. order \in [DOMAIN states -> Hits(longer)]
    BY <1>3, <2>1
  <2>3. \A k \in Hits(longer) : \E i \in DOMAIN states : order[i] = k
    BY <1>3, <2>1
  <2>4. \A i \in DOMAIN states : states[i] = longer[order[i]].target_state
    BY <1>2, <1>3
  <2>. QED BY <1>3, <2>2, <2>3, <2>4 DEF ListsHits
<1>5. ASSUME a.matched PROVE ListsHits(named, longer)
  <2>1. Hits(longer) = Hits(trail) \cup {n}
    BY <1>5, HitsGrow
  <2>2. /\ DOMAIN named = DOMAIN states \cup {m} /\ named[m] = a.target_state
        /\ \A i \in DOMAIN states : named[i] = states[i] /\ i < m /\ i \in Nat
        /\ m \in Nat /\ m \notin DOMAIN states
    BY DEF Attempts
  <2>. HIDE DEF longer, named, n, m
  <2>3. PICK next \in [DOMAIN named -> Hits(longer)] :
          next[m] = n /\ \A i \in DOMAIN states : next[i] = order[i]
    <3>. DEFINE new == [i \in DOMAIN named |-> IF i = m THEN n ELSE order[i]]
    <3>1. /\ new \in [DOMAIN named -> Hits(longer)]
          /\ new[m] = n /\ \A i \in DOMAIN states : new[i] = order[i]
      BY <1>3, <2>1, <2>2
    <3>. QED BY <3>1
  <2>4. \A k \in Hits(longer) : \E i \in DOMAIN named : next[i] = k
    BY <1>3, <2>1, <2>2, <2>3
  <2>5. ASSUME NEW i \in DOMAIN named, NEW j \in DOMAIN named, i < j PROVE next[i] < next[j]
    <3>1. i \in DOMAIN states
      BY <2>2, <2>5
    <3>2. CASE j = m
      BY <1>2, <1>3, <2>3, <3>1, <3>2
    <3>3. CASE j \in DOMAIN states
      BY <1>3, <2>3, <2>5, <3>1, <3>3
    <3>. QED BY <2>2, <3>2, <3>3
  <2>6. \A i \in DOMAIN named : named[i] = longer[next[i]].target_state
    <3>. TAKE i \in DOMAIN named
    <3>1. CASE i = m
      BY <1>1, <2>2, <2>3, <3>1 DEF longer, n
    <3>2. CASE i \in DOMAIN states
      BY <1>2, <1>3, <2>2, <2>3, <3>2
    <3>. QED BY <2>2, <3>1, <3>2
  <2>. QED BY <2>4, <2>5, <2>6 DEF ListsHits
<1>. QED BY <1>4, <1>5

\* A list has one place for each hit.
LEMMA ListCounts ==
  ASSUME NEW trail \in Seq(Attempts), NEW states \in Seq(States), ListsHits(states, trail)
  PROVE  /\ Len(states) > 1 <=> \E j, k \in Hits(trail) : j # k
         /\ Len(states) = 1 <=> \E k \in Hits(trail) : Hits(trail) = {k}
         /\ \A k \in Hits(trail) : Hits(trail) = {k} => states[1] = trail[k].target_state
         /\ Len(states) > 0 =>
              \E first \in Hits(trail) : /\ states[1] = trail[first].target_state
                                         /\ \A k \in Hits(trail) : first <= k
<1>1. PICK order \in [DOMAIN states -> Hits(trail)] :
        /\ \A k \in Hits(trail) : \E i \in DOMAIN states : order[i] = k
        /\ \A i, j \in DOMAIN states : i < j => order[i] < order[j]
        /\ \A i \in DOMAIN states : states[i] = trail[order[i]].target_state
  BY DEF ListsHits
<1>2. DOMAIN states = 1 .. Len(states) /\ Len(states) \in Nat
  OBVIOUS
<1>3. \A k \in Hits(trail) : k \in Nat
  BY AttemptFacts
<1>4. Len(states) > 1 => \E j, k \in Hits(trail) : j # k
  <2>. SUFFICES ASSUME Len(states) > 1 PROVE \E j, k \in Hits(trail) : j # k
    OBVIOUS
  <2>1. 1 \in DOMAIN states /\ 2 \in DOMAIN states /\ order[1] < order[2]
    BY <1>1, <1>2
  <2>2. order[1] \in Hits(trail) /\ order[2] \in Hits(trail)
    BY <1>1, <2>1
  <2>3. order[1] # order[2]
    BY <1>3, <2>1, <2>2
  <2>. QED BY <2>2, <2>3
<1>5. ASSUME Len(states) = 1 PROVE Hits(trail) = {order[1]}
  <2>1. DOMAIN states = {1}
    BY <1>2, <1>5
  <2>. QED BY <1>1, <2>1
<1>6. ASSUME Len(states) = 0 PROVE Hits(trail) = {}
  <2>1. DOMAIN states = {}
    BY <1>2, <1>6
  <2>. QED BY <1>1, <2>1
<1>7. Len(states) = 0 \/ Len(states) = 1 \/ Len(states) > 1
  BY <1>2
<1>8. ASSUME Len(states) > 0
      PROVE  /\ order[1] \in Hits(trail) /\ states[1] = trail[order[1]].target_state
             /\ \A k \in Hits(trail) : order[1] <= k
  <2>1. 1 \in DOMAIN states
    BY <1>2, <1>8
  <2>2. ASSUME NEW k \in Hits(trail) PROVE order[1] <= k
    <3>1. PICK i \in DOMAIN states : order[i] = k
      BY <1>1
    <3>2. CASE i = 1
      BY <1>3, <3>1, <3>2
    <3>3. CASE i > 1
      BY <1>1, <1>3, <2>1, <3>1, <3>3
    <3>. QED BY <1>2, <3>2, <3>3
  <2>. QED BY <1>1, <2>1, <2>2
<1>9. Len(states) > 1 <=> \E j, k \in Hits(trail) : j # k
  BY <1>4, <1>5, <1>6, <1>7
<1>10. Len(states) = 1 <=> \E k \in Hits(trail) : Hits(trail) = {k}
  <2>1. Len(states) = 1 => order[1] \in Hits(trail)
    BY <1>5
  <2>. QED BY <1>4, <1>5, <1>6, <1>7, <2>1
<1>11. \A k \in Hits(trail) : Hits(trail) = {k} => states[1] = trail[k].target_state
  BY <1>4, <1>6, <1>7, <1>8, <1>2
<1>. QED BY <1>8, <1>9, <1>10, <1>11

\* The only hit is the attempt that is found.
LEMMA FoundIsTheHit ==
  ASSUME NEW trail \in Seq(Attempts), NEW k \in Hits(trail), Hits(trail) = {k},
         NEW ambiguity, NEW result
  PROVE  matched_attempt(RebuildReport(trail, ambiguity, result)) = {k}
<1>1. DOMAIN trail = 1 .. Len(trail) /\ Len(trail) \in Nat /\ k \in 1 .. Len(trail)
  BY AttemptFacts
<1>2. \A j \in DOMAIN trail : trail[j].matched <=> j = k
  BY DEF Hits
<1>3. \A j \in 1 .. (k - 1) : j \in DOMAIN trail /\ j # k
  BY <1>1
<1>. DEFINE report == RebuildReport(trail, ambiguity, result)
<1>4. report.attempts = trail
  BY DEF RebuildReport
<1>. HIDE DEF report
<1>5. \A i : i \in matched_attempt(report) => i = k
  BY <1>2, <1>4 DEF matched_attempt
<1>6. k \in matched_attempt(report)
  BY <1>1, <1>2, <1>3, <1>4 DEF matched_attempt
<1>7. matched_attempt(report) = {k}
  BY <1>5, <1>6
<1>. QED BY <1>7 DEF report

\* A report that accounts for itself is pushed onto reports that do.
LEMMA PushedAccounts ==
  ASSUME TypeOK, ReportsAccountForResults, NEW t \in Tasks,
         NEW trail, NEW ambiguity, NEW result, Finish(t, trail, ambiguity, result),
         AccountsFor(t, RebuildReport(trail, ambiguity, result))
  PROVE  ReportsAccountForResults'
<1>. DEFINE report == RebuildReport(trail, ambiguity, result)
<1>1. /\ results'[t] = Append(results[t], report)
      /\ \A u \in Tasks \ {t} : results'[u] = results[u]
      /\ results[t] \in Seq(Reports)
  BY DEF Finish, TypeOK
<1>. HIDE DEF report
<1>2. \A i \in DOMAIN results'[t] :
        results'[t][i] = report \/ (i \in DOMAIN results[t] /\ results'[t][i] = results[t][i])
  BY <1>1
<1>3. ASSUME NEW u \in Tasks, NEW i \in DOMAIN results'[u] PROVE AccountsFor(u, results'[u][i])
  <2>1. CASE u = t
    BY <1>2, <2>1 DEF ReportsAccountForResults, report
  <2>2. CASE u # t
    BY <1>1, <2>2 DEF ReportsAccountForResults
  <2>. QED BY <2>1, <2>2
<1>. QED BY <1>3 DEF ReportsAccountForResults, AccountsFor, BuildAccounts, ExplainAccounts

\* build_report stops at its only match.
LEMMA CheckAccounts ==
  ASSUME IInv, ReportsInv, NEW t \in Tasks, validator_check(t), Outcome(t).matched
  PROVE  ReportsAccountForResults'
<1>. DEFINE n == Len(attempts[t]) + 1
            trail == Append(attempts[t], Outcome(t))
<1>1. /\ TypeOK /\ TrailOK(t) /\ HasNext(t) /\ asked[t] # NoRow /\ OpOf[t] # "explain"
      /\ attempts[t] \in Seq(Attempts)
  BY DEF IInv, TypeOK, validator_check, HasNext
<1>2. Outcome(t) \in Attempts /\ Outcome(t).target_state = NextState(t) /\ NextState(t) = Plan[n]
  BY <1>1, OutcomeType DEF NextState
<1>3. Hits(attempts[t]) = {}
  BY <1>1, AttemptFacts DEF TrailOK, Hits
<1>4. /\ trail \in Seq(Attempts) /\ Len(trail) = n /\ trail[n] = Outcome(t)
      /\ \A k \in 1 .. Len(attempts[t]) : trail[k] = attempts[t][k]
      /\ DOMAIN trail = 1 .. n /\ n \in Nat
      /\ \A k \in 1 .. n : k = n \/ k \in 1 .. Len(attempts[t])
  BY <1>1, <1>2
<1>5. Hits(trail) = {n}
  BY <1>1, <1>2, <1>3, HitsGrow
<1>6. \A k \in DOMAIN trail : trail[k].target_state = Plan[k]
  BY <1>1, <1>2, <1>4 DEF TrailOK
<1>. HIDE DEF trail, n
<1>7. matched_attempt(RebuildReport(trail, NotChecked, NextState(t))) = {n}
  <2>. DEFINE result == NextState(t)
  <2>1. n \in Hits(trail)
    BY <1>5
  <2>. HIDE DEF result
  <2>2. matched_attempt(RebuildReport(trail, NotChecked, result)) = {n}
    BY <1>4, <1>5, <2>1, FoundIsTheHit
  <2>. QED BY <2>2 DEF result
<1>8. AccountsFor(t, RebuildReport(trail, NotChecked, NextState(t)))
  BY <1>1, <1>2, <1>4, <1>5, <1>6, <1>7 DEF AccountsFor, BuildAccounts, RebuildReport
<1>9. Finish(t, trail, NotChecked, NextState(t))
  BY DEF validator_check, trail
<1>. QED BY <1>1, <1>8, <1>9, PushedAccounts DEF ReportsInv

\* build_report found no match in the whole plan.
LEMMA ExhaustedAccounts ==
  ASSUME IInv, ReportsInv, NEW t \in Tasks, no_validator_accepted(t)
  PROVE  ReportsAccountForResults'
<1>1. /\ TypeOK /\ TrailOK(t) /\ asked[t] # NoRow /\ OpOf[t] # "explain"
      /\ Len(attempts[t]) = Len(Plan) /\ attempts[t] \in Seq(Attempts)
  BY PlanFacts DEF IInv, TypeOK, no_validator_accepted, TrailOK, HasNext
<1>2. Hits(attempts[t]) = {}
  BY <1>1, AttemptFacts DEF TrailOK, Hits
<1>3. matched_attempt(RebuildReport(attempts[t], NotChecked, InvalidState)) = {}
  BY <1>2 DEF matched_attempt, RebuildReport, Hits
<1>4. \A k \in DOMAIN attempts[t] : attempts[t][k].target_state = Plan[k]
  BY <1>1, AttemptFacts DEF TrailOK
<1>5. AccountsFor(t, RebuildReport(attempts[t], NotChecked, InvalidState))
  BY <1>1, <1>2, <1>3, <1>4 DEF AccountsFor, BuildAccounts, RebuildReport
<1>. QED BY <1>1, <1>5, PushedAccounts DEF no_validator_accepted, ReportsInv

\* explain reports what its list says.
LEMMA ExplainAccountsForIt ==
  ASSUME IInv, ReportsInv, NEW t \in Tasks, validator_explain_finalizer(t)
  PROVE  ReportsAccountForResults'
<1>1. /\ TypeOK /\ TrailOK(t) /\ asked[t] # NoRow /\ OpOf[t] = "explain"
      /\ Len(attempts[t]) = Len(Plan) /\ Len(matched[t]) \in Nat
      /\ attempts[t] \in Seq(Attempts) /\ matched[t] \in Seq(States)
  BY PlanFacts DEF IInv, TypeOK, validator_explain_finalizer, TrailOK, HasNext
<1>2. ListsHits(matched[t], attempts[t])
  BY <1>1 DEF ReportsInv, ListOK
<1>. DEFINE m == Len(matched[t])
            hits == Hits(attempts[t])
            result == IF m = 1 THEN matched[t][1] ELSE InvalidState
            ambiguity == IF m > 1 THEN Ambiguous(matched[t]) ELSE Unambiguous
            report == RebuildReport(attempts[t], ambiguity, result)
<1>3. /\ m > 1 <=> \E j, k \in hits : j # k
      /\ m = 1 <=> \E k \in hits : hits = {k}
      /\ \A k \in hits : hits = {k} => matched[t][1] = attempts[t][k].target_state
  BY <1>1, <1>2, ListCounts
<1>4. result # InvalidState <=> m = 1
  BY <1>1, PlanFacts
<1>5. ambiguity.kind = "Ambiguous" <=> m > 1
  BY DEF Ambiguous, Unambiguous
<1>6. m > 1 => ambiguity.matched_states = matched[t]
  BY DEF Ambiguous
<1>7. \A k \in hits : hits = {k} => result = attempts[t][k].target_state
  BY <1>3
<1>8. \A k \in DOMAIN attempts[t] : attempts[t][k].target_state = Plan[k]
  BY <1>1, AttemptFacts DEF TrailOK
<1>. HIDE DEF result, ambiguity, m
<1>9. \A k \in hits : hits = {k} => matched_attempt(report) = {k}
  BY <1>1, FoundIsTheHit
<1>10. report.attempts = attempts[t] /\ report.result = result /\ report.ambiguity = ambiguity
  BY DEF RebuildReport
<1>. HIDE DEF report
<1>11. ExplainAccounts(report, attempts[t], hits)
  BY <1>1, <1>2, <1>3, <1>4, <1>5, <1>6, <1>7, <1>9, <1>10 DEF ExplainAccounts
<1>12. AccountsFor(t, report)
  BY <1>1, <1>8, <1>10, <1>11 DEF AccountsFor
<1>13. Finish(t, attempts[t], ambiguity, result)
  BY DEF validator_explain_finalizer, ambiguity, result, m
<1>. QED BY <1>1, <1>12, <1>13, PushedAccounts DEF report, ReportsInv

\* The list of an explain goes with its trail.
LEMMA ListStep ==
  ASSUME IInv, ReportsInv, [Next]_vars, NEW u \in Tasks
  PROVE  ListOK(u)'
<1>1. ListOK(u) /\ TypeOK
  BY DEF ReportsInv, IInv
<1>2. ASSUME asked'[u] = asked[u], matched'[u] = matched[u], attempts'[u] = attempts[u]
      PROVE  ListOK(u)'
  BY <1>1, <1>2 DEF ListOK, ListsHits, Hits
<1>3. ASSUME NEW r \in Rows, NEW S \in SUBSET States, Change(r, S) PROVE ListOK(u)'
  BY <1>2, <1>3 DEF Change
<1>4. ASSUME NEW t \in Tasks, Step(t), t # u PROVE ListOK(u)'
  <2>1. asked'[u] = asked[u] /\ matched'[u] = matched[u] /\ attempts'[u] = attempts[u]
    BY <1>1, <1>4
    DEF Step, into_machine, validator_check, validator_explain_check, no_validator_accepted,
        validator_explain_finalizer, Finish, Record, TypeOK
  <2>. QED BY <1>2, <2>1
<1>5. CASE into_machine(u)
  <2>1. matched'[u] = <<>> /\ attempts'[u] = <<>>
    BY <1>1, <1>5 DEF into_machine, TypeOK
  <2>2. ListsHits(<<>>, <<>>)
    <3>1. Hits(<<>>) = {} /\ DOMAIN <<>> = {}
      BY DEF Hits
    <3>2. <<>> \in [DOMAIN <<>> -> Hits(<<>>)]
      BY <3>1
    <3>. QED BY <3>1, <3>2 DEF ListsHits
  <2>3. ListsHits(matched'[u], attempts'[u])
    BY <2>1, <2>2
  <2>. QED BY <2>3 DEF ListOK, ListsHits, Hits
<1>6. CASE validator_explain_check(u)
  <2>1. /\ HasNext(u) /\ asked[u] # NoRow /\ OpOf[u] = "explain"
        /\ attempts[u] \in Seq(Attempts) /\ matched[u] \in Seq(States)
    BY <1>1, <1>6 DEF validator_explain_check, HasNext, TypeOK
  <2>2. Outcome(u) \in Attempts /\ Outcome(u).target_state = NextState(u)
    BY <1>1, <2>1, OutcomeType
  <2>3. /\ attempts'[u] = Append(attempts[u], Outcome(u))
        /\ Outcome(u).matched => matched'[u] = Append(matched[u], Outcome(u).target_state)
        /\ ~Outcome(u).matched => matched'[u] = matched[u]
    BY <1>1, <1>6, <2>2 DEF validator_explain_check, Record, TypeOK
  <2>4. ListsHits(matched[u], attempts[u])
    BY <1>1, <2>1 DEF ListOK
  <2>5. ListsHits(matched'[u], attempts'[u])
    BY <2>1, <2>2, <2>3, <2>4, ListGrows
  <2>. QED BY <2>5 DEF ListOK, ListsHits, Hits
<1>7. CASE validator_check(u) \/ no_validator_accepted(u)
  BY <1>7 DEF validator_check, no_validator_accepted, ListOK
<1>8. CASE validator_explain_finalizer(u)
  <2>1. asked'[u] = NoRow
    BY <1>1, <1>8 DEF validator_explain_finalizer, Finish, TypeOK
  <2>. QED BY <2>1 DEF ListOK
<1>9. CASE UNCHANGED vars
  BY <1>2, <1>9 DEF vars
<1>. QED BY <1>3, <1>4, <1>5, <1>6, <1>7, <1>8, <1>9 DEF Next, Step

LEMMA ReportsStep == IInv /\ ReportsInv /\ [Next]_vars => ReportsInv'
<1>. SUFFICES ASSUME IInv, ReportsInv, [Next]_vars PROVE ReportsInv'
  OBVIOUS
<1>1. ASSUME UNCHANGED results PROVE ReportsAccountForResults'
  <2>1. \A u \in Tasks : \A i \in DOMAIN results'[u] : AccountsFor(u, results'[u][i])
    BY <1>1 DEF ReportsInv, ReportsAccountForResults
  <2>. QED BY <2>1 DEF ReportsAccountForResults, AccountsFor, BuildAccounts, ExplainAccounts
<1>2. ASSUME NEW r \in Rows, NEW S \in SUBSET States, Change(r, S) PROVE UNCHANGED results
  BY <1>2 DEF Change
<1>3. ASSUME NEW t \in Tasks, Step(t) PROVE ReportsAccountForResults'
  <2>1. CASE into_machine(t) \/ validator_explain_check(t)
    BY <1>1, <2>1 DEF into_machine, validator_explain_check
  <2>2. CASE validator_check(t) /\ ~Outcome(t).matched
    BY <1>1, <2>2 DEF validator_check
  <2>. QED BY <1>3, <2>1, <2>2, CheckAccounts, ExhaustedAccounts, ExplainAccountsForIt DEF Step
<1>4. ASSUME UNCHANGED vars PROVE ReportsAccountForResults'
  BY <1>1, <1>4 DEF vars
<1>5. ReportsAccountForResults'
  BY <1>1, <1>2, <1>3, <1>4 DEF Next
<1>. QED BY <1>5, ListStep DEF ReportsInv

\* Every report accounts for its result (checks.rs:61-267).
THEOREM ReportsAccountHolds == Spec => []ReportsAccountForResults
<1>1. Init => ReportsInv
  BY DEF Init, ReportsInv, ReportsAccountForResults, ListOK
<1>2. Init => IInv /\ ReportsInv
  BY <1>1, InitIInv
<1>3. (IInv /\ ReportsInv) /\ [Next]_vars => (IInv /\ ReportsInv)'
  BY NextIInv, ReportsStep
<1>4. IInv /\ ReportsInv => ReportsAccountForResults
  BY DEF ReportsInv
<1>. QED BY <1>2, <1>3, <1>4, PTL DEF Spec

-----------------------------------------------------------------------------
(* A quiet world.  Until something changes, every trail tells which states  *)
(* of the plan the row's validators accept, and so what the verdict is.     *)
Tells(trail, S) ==
  /\ Len(trail) <= Len(Plan)
  /\ \A k \in DOMAIN trail : trail[k].matched <=> Plan[k] \in S

QuietOK(t) ==
  /\ \A i \in DOMAIN results[t] : Tells(results[t][i].attempts, accepts[RowsOf[t][i]])
  /\ asked[t] # NoRow => /\ asked[t] = RowsOf[t][Len(results[t]) + 1]
                         /\ Tells(attempts[t], accepts[asked[t]])

QuietInv == changes = 0 => \A t \in Tasks : QuietOK(t)

\* The verdict on a row: the first state of the plan that is accepted, if any.
IsVerdict(result, S) ==
  \/ result = InvalidState /\ \A k \in 1 .. Len(Plan) : Plan[k] \notin S
  \/ \E k \in 1 .. Len(Plan) :
       /\ Plan[k] \in S /\ result = Plan[k]
       /\ \A j \in 1 .. Len(Plan) : Plan[j] \in S => k <= j

LEMMA OneVerdict ==
  ASSUME NEW a, NEW b, NEW S, IsVerdict(a, S), IsVerdict(b, S)
  PROVE  a = b
BY DEF IsVerdict

\* The hits of a trail that tells are the accepted states it got to.
LEMMA HitsTell ==
  ASSUME NEW trail \in Seq(Attempts), NEW S, Tells(trail, S)
  PROVE  /\ Len(trail) \in 0 .. Len(Plan)
         /\ \A k : k \in Hits(trail) <=> k \in 1 .. Len(trail) /\ Plan[k] \in S
<1>1. DOMAIN trail = 1 .. Len(trail) /\ Len(trail) \in Nat
  OBVIOUS
<1>. QED BY <1>1, PlanFacts DEF Hits, Tells

\* What build and build_report answer is the verdict.
LEMMA BuildVerdict ==
  ASSUME NEW t \in Tasks, OpOf[t] # "explain", NEW S,
         NEW report \in Reports, AccountsFor(t, report), Tells(report.attempts, S)
  PROVE  IsVerdict(report.result, S)
<1>. DEFINE trail == report.attempts
            hits == Hits(trail)
<1>1. trail \in Seq(Attempts)
  BY DEF Reports
<1>2. /\ \A k \in DOMAIN trail : trail[k].target_state = Plan[k]
      /\ hits \subseteq {Len(trail)}
      /\ hits = {} => report.result = InvalidState /\ Len(trail) = Len(Plan)
      /\ \A k \in hits : report.result = trail[k].target_state
  BY DEF AccountsFor, BuildAccounts
<1>3. /\ Len(trail) \in 0 .. Len(Plan) /\ DOMAIN trail = 1 .. Len(trail)
      /\ \A k : k \in hits <=> k \in 1 .. Len(trail) /\ Plan[k] \in S
  BY <1>1, HitsTell
<1>4. Len(Plan) \in Nat
  BY PlanFacts
<1>. HIDE DEF hits, trail
<1>5. CASE hits = {}
  BY <1>2, <1>3, <1>5 DEF IsVerdict
<1>6. CASE hits # {}
  <2>1. PICK n \in hits : TRUE
    BY <1>6
  <2>2. n = Len(trail) /\ n \in 1 .. Len(Plan) /\ Plan[n] \in S /\ report.result = Plan[n]
    BY <1>2, <1>3, <1>4, <2>1
  <2>3. ASSUME NEW j \in 1 .. Len(Plan), Plan[j] \in S PROVE n <= j
    <3>1. CASE j <= Len(trail)
      <4>1. j \in hits
        BY <1>3, <1>4, <2>3, <3>1
      <4>2. j = Len(trail)
        BY <1>2, <4>1
      <4>. QED BY <2>2, <4>2
    <3>. QED BY <1>3, <1>4, <2>2, <3>1
  <2>. QED BY <2>2, <2>3 DEF IsVerdict
<1>. QED BY <1>5, <1>6

\* explain answers the verdict, or lists it first.
LEMMA ExplainVerdict ==
  ASSUME NEW t \in Tasks, OpOf[t] = "explain", NEW S,
         NEW report \in Reports, AccountsFor(t, report), Tells(report.attempts, S)
  PROVE  IF report.ambiguity.kind # "Ambiguous"
         THEN IsVerdict(report.result, S)
         ELSE IsVerdict(report.ambiguity.matched_states[1], S)
<1>. DEFINE trail == report.attempts
            states == report.ambiguity.matched_states
            hits == Hits(trail)
<1>1. trail \in Seq(Attempts) /\ states \in Seq(States)
  BY DEF Reports
<1>2. /\ \A k \in DOMAIN trail : trail[k].target_state = Plan[k]
      /\ Len(trail) = Len(Plan)
      /\ report.result # InvalidState <=> \E k \in hits : hits = {k}
      /\ \A k \in hits : hits = {k} => report.result = trail[k].target_state
      /\ report.ambiguity.kind = "Ambiguous" <=> \E j, k \in hits : j # k
      /\ report.ambiguity.kind = "Ambiguous" => ListsHits(states, trail)
  BY DEF AccountsFor, ExplainAccounts
<1>3. /\ DOMAIN trail = 1 .. Len(Plan) /\ Len(Plan) \in Nat
      /\ \A k : k \in hits <=> k \in 1 .. Len(Plan) /\ Plan[k] \in S
  BY <1>1, <1>2, HitsTell, PlanFacts
<1>4. CASE report.ambiguity.kind # "Ambiguous"
  <2>. HIDE DEF hits, trail, states
  <2>1. \A j, k \in hits : j = k
    BY <1>2, <1>4
  <2>2. ASSUME hits = {} PROVE IsVerdict(report.result, S)
    BY <1>2, <1>3, <2>2 DEF IsVerdict
  <2>3. ASSUME hits # {} PROVE IsVerdict(report.result, S)
    <3>1. PICK k \in hits : hits = {k}
      BY <2>1, <2>3
    <3>2. k \in 1 .. Len(Plan) /\ Plan[k] \in S /\ report.result = Plan[k]
      BY <1>2, <1>3, <3>1
    <3>3. \A j \in 1 .. Len(Plan) : Plan[j] \in S => k <= j
      BY <1>3, <3>1, <3>2
    <3>. QED BY <3>2, <3>3 DEF IsVerdict
  <2>. QED BY <1>4, <2>2, <2>3
<1>5. CASE report.ambiguity.kind = "Ambiguous"
  <2>1. Len(states) > 1 /\ Len(states) \in Nat
    BY <1>1, <1>2, <1>5, ListCounts
  <2>2. PICK first \in hits : /\ states[1] = trail[first].target_state
                              /\ \A k \in hits : first <= k
    BY <1>1, <1>2, <1>5, <2>1, ListCounts
  <2>. HIDE DEF hits, trail, states
  <2>3. first \in 1 .. Len(Plan) /\ Plan[first] \in S /\ states[1] = Plan[first]
    BY <1>2, <1>3, <2>2
  <2>4. \A j \in 1 .. Len(Plan) : Plan[j] \in S => first <= j
    BY <1>3, <2>2
  <2>5. IsVerdict(states[1], S)
    BY <2>3, <2>4 DEF IsVerdict
  <2>. QED BY <1>5, <2>5 DEF states
<1>. QED BY <1>4, <1>5

\* Reports of the same row agree while nothing has changed.
LEMMA QuietAgreement ==
  ASSUME TypeOK, ReportsAccountForResults, QuietInv
  PROVE  OperationsAgreeInAQuietWorld
<1>. SUFFICES ASSUME changes = 0,
                     NEW t \in Tasks, NEW u \in Tasks,
                     NEW i \in DOMAIN results[t], NEW j \in DOMAIN results[u],
                     RowsOf[t][i] = RowsOf[u][j], OpOf[t] # "explain"
              PROVE  IF OpOf[u] # "explain" \/ results[u][j].ambiguity.kind # "Ambiguous"
                     THEN results[t][i].result = results[u][j].result
                     ELSE results[t][i].result = results[u][j].ambiguity.matched_states[1]
  BY DEF OperationsAgreeInAQuietWorld
<1>. DEFINE S == accepts[RowsOf[t][i]]
<1>1. /\ results[t][i] \in Reports /\ AccountsFor(t, results[t][i])
      /\ Tells(results[t][i].attempts, S)
  BY DEF TypeOK, ReportsAccountForResults, QuietInv, QuietOK
<1>2. /\ results[u][j] \in Reports /\ AccountsFor(u, results[u][j])
      /\ Tells(results[u][j].attempts, S)
  BY DEF TypeOK, ReportsAccountForResults, QuietInv, QuietOK
<1>. HIDE DEF S
<1>3. IsVerdict(results[t][i].result, S)
  BY <1>1, BuildVerdict
<1>4. CASE OpOf[u] # "explain"
  <2>1. IsVerdict(results[u][j].result, S)
    BY <1>2, <1>4, BuildVerdict
  <2>. QED BY <1>3, <1>4, <2>1, OneVerdict
<1>5. CASE OpOf[u] = "explain"
  <2>1. IF results[u][j].ambiguity.kind # "Ambiguous"
        THEN IsVerdict(results[u][j].result, S)
        ELSE IsVerdict(results[u][j].ambiguity.matched_states[1], S)
    BY <1>2, <1>5, ExplainVerdict
  <2>. QED BY <1>3, <1>5, <2>1, OneVerdict
<1>. QED BY <1>4, <1>5

\* What a validator answers extends a trail that tells.
LEMMA TellsMore ==
  ASSUME TypeOK, NEW t \in Tasks, HasNext(t), Tells(attempts[t], accepts[asked[t]])
  PROVE  Tells(Append(attempts[t], Outcome(t)), accepts[asked[t]])
<1>. DEFINE S == accepts[asked[t]]
            trail == attempts[t]
            longer == Append(trail, Outcome(t))
            n == Len(trail) + 1
<1>1. /\ trail \in Seq(Attempts) /\ Len(trail) \in Nat
      /\ n <= Len(Plan) /\ NextState(t) = Plan[n]
      /\ Outcome(t).matched <=> Plan[n] \in S
  BY PlanFacts, OutcomeType DEF TypeOK, HasNext, NextState
<1>2. /\ DOMAIN longer = DOMAIN trail \cup {n} /\ longer[n] = Outcome(t) /\ Len(longer) = n
      /\ \A k \in DOMAIN trail : longer[k] = trail[k]
  BY <1>1
<1>3. \A k \in DOMAIN trail : trail[k].matched <=> Plan[k] \in S
  BY DEF Tells
<1>. HIDE DEF longer, n, S, trail
<1>4. Tells(longer, S)
  BY <1>1, <1>2, <1>3 DEF Tells
<1>. QED BY <1>4 DEF longer, S, trail

\* A report of the row in hand joins reports that tell.
LEMMA QuietFinish ==
  ASSUME TypeOK, NEW t \in Tasks, QuietOK(t), asked[t] # NoRow,
         NEW trail, NEW ambiguity, NEW result, Finish(t, trail, ambiguity, result),
         Tells(trail, accepts[asked[t]])
  PROVE  QuietOK(t)'
<1>. DEFINE report == RebuildReport(trail, ambiguity, result)
            n == Len(results[t]) + 1
<1>1. /\ results'[t] = Append(results[t], report) /\ results[t] \in Seq(Reports)
      /\ asked'[t] = NoRow /\ accepts' = accepts
  BY DEF Finish, TypeOK, worldVars
<1>2. /\ report.attempts = trail /\ asked[t] = RowsOf[t][n]
      /\ \A i \in DOMAIN results[t] : Tells(results[t][i].attempts, accepts[RowsOf[t][i]])
  BY DEF RebuildReport, QuietOK
<1>. HIDE DEF report
<1>3. \A i \in DOMAIN results'[t] :
        \/ i = n /\ results'[t][i] = report
        \/ i \in DOMAIN results[t] /\ results'[t][i] = results[t][i]
  BY <1>1
<1>. HIDE DEF n
<1>4. \A i \in DOMAIN results'[t] : Tells(results'[t][i].attempts, accepts[RowsOf[t][i]])
  BY <1>2, <1>3
<1>. QED BY <1>1, <1>4 DEF QuietOK, Tells

LEMMA QuietStep == IInv /\ QuietInv /\ [Next]_vars => QuietInv'
<1>. SUFFICES ASSUME IInv, QuietInv, [Next]_vars, changes' = 0, NEW u \in Tasks
              PROVE  QuietOK(u)'
  BY DEF QuietInv
<1>1. TypeOK /\ changes \in Nat
  BY PlanFacts DEF IInv, TypeOK
<1>2. ASSUME accepts' = accepts, changes' = changes,
             asked'[u] = asked[u], attempts'[u] = attempts[u], results'[u] = results[u]
      PROVE  QuietOK(u)'
  <2>1. QuietOK(u)
    BY <1>2 DEF QuietInv
  <2>. QED BY <1>2, <2>1 DEF QuietOK, Tells
<1>3. ASSUME NEW r \in Rows, NEW S \in SUBSET States, Change(r, S) PROVE FALSE
  BY <1>1, <1>3 DEF Change
<1>4. ASSUME NEW t \in Tasks, Step(t), t # u PROVE QuietOK(u)'
  <2>1. /\ accepts' = accepts /\ changes' = changes
        /\ asked'[u] = asked[u] /\ attempts'[u] = attempts[u] /\ results'[u] = results[u]
    BY <1>1, <1>4
    DEF Step, into_machine, validator_check, validator_explain_check, no_validator_accepted,
        validator_explain_finalizer, Finish, Record, TypeOK, worldVars
  <2>. QED BY <1>2, <2>1
<1>5. ASSUME Step(u) PROVE changes = 0 /\ accepts' = accepts /\ QuietOK(u)
  <2>1. changes' = changes /\ accepts' = accepts
    BY <1>5
    DEF Step, into_machine, validator_check, validator_explain_check, no_validator_accepted,
        validator_explain_finalizer, Finish, worldVars
  <2>. QED BY <2>1 DEF QuietInv
<1>6. CASE into_machine(u)
  <2>1. QuietOK(u) /\ accepts' = accepts
    BY <1>5, <1>6 DEF Step
  <2>2. /\ asked'[u] = RowsOf[u][Len(results[u]) + 1]
        /\ attempts'[u] = <<>> /\ results'[u] = results[u]
    BY <1>1, <1>6 DEF into_machine, TypeOK
  <2>3. Tells(<<>>, accepts[asked'[u]])
    BY PlanFacts DEF Tells
  <2>. QED BY <2>1, <2>2, <2>3 DEF QuietOK, Tells
<1>7. CASE validator_check(u)
  <2>1. QuietOK(u) /\ accepts' = accepts
    BY <1>5, <1>7 DEF Step
  <2>2. HasNext(u) /\ asked[u] # NoRow
    BY <1>7 DEF validator_check, HasNext
  <2>3. Tells(Append(attempts[u], Outcome(u)), accepts[asked[u]])
    BY <1>1, <2>1, <2>2, TellsMore DEF QuietOK
  <2>4. CASE Outcome(u).matched
    BY <1>1, <1>7, <2>1, <2>2, <2>3, <2>4, QuietFinish DEF validator_check
  <2>5. CASE ~Outcome(u).matched
    <3>1. /\ asked'[u] = asked[u] /\ results'[u] = results[u]
          /\ attempts'[u] = Append(attempts[u], Outcome(u))
      BY <1>1, <1>7, <2>5 DEF validator_check, Record, TypeOK
    <3>2. Tells(attempts'[u], accepts[asked[u]])
      BY <2>3, <3>1
    <3>. QED BY <2>1, <3>1, <3>2 DEF QuietOK, Tells
  <2>. QED BY <2>4, <2>5
<1>8. CASE validator_explain_check(u)
  <2>1. QuietOK(u) /\ accepts' = accepts
    BY <1>5, <1>8 DEF Step
  <2>2. HasNext(u) /\ asked[u] # NoRow
    BY <1>8 DEF validator_explain_check, HasNext
  <2>3. Tells(Append(attempts[u], Outcome(u)), accepts[asked[u]])
    BY <1>1, <2>1, <2>2, TellsMore DEF QuietOK
  <2>4. /\ asked'[u] = asked[u] /\ results'[u] = results[u]
        /\ attempts'[u] = Append(attempts[u], Outcome(u))
    BY <1>1, <1>8 DEF validator_explain_check, Record, TypeOK
  <2>5. Tells(attempts'[u], accepts[asked[u]])
    BY <2>3, <2>4
  <2>. QED BY <2>1, <2>4, <2>5 DEF QuietOK, Tells
<1>9. CASE no_validator_accepted(u) \/ validator_explain_finalizer(u)
  <2>1. QuietOK(u) /\ asked[u] # NoRow
    BY <1>5, <1>9 DEF Step, no_validator_accepted, validator_explain_finalizer
  <2>2. Tells(attempts[u], accepts[asked[u]])
    BY <2>1 DEF QuietOK
  <2>. QED
    BY <1>1, <1>9, <2>1, <2>2, QuietFinish DEF no_validator_accepted, validator_explain_finalizer
<1>10. CASE UNCHANGED vars
  BY <1>2, <1>10 DEF vars, worldVars
<1>. QED BY <1>3, <1>4, <1>6, <1>7, <1>8, <1>9, <1>10 DEF Next, Step

\* The operations agree on a row while nothing changes (checks.rs:61-267).
THEOREM OperationsAgreeHolds == Spec => []OperationsAgreeInAQuietWorld
<1>. DEFINE Inv == IInv /\ ReportsInv /\ QuietInv
<1>1. Init => Inv
  <2>1. Init => ReportsInv
    BY DEF Init, ReportsInv, ReportsAccountForResults, ListOK
  <2>2. Init => QuietInv
    <3>. SUFFICES ASSUME Init, NEW t \in Tasks PROVE QuietOK(t)
      BY DEF QuietInv
    <3>1. results[t] = <<>> /\ asked[t] = NoRow
      BY DEF Init
    <3>2. DOMAIN results[t] = {}
      BY <3>1
    <3>. QED BY <3>1, <3>2 DEF QuietOK
  <2>. QED BY <2>1, <2>2, InitIInv
<1>2. Inv /\ [Next]_vars => Inv'
  BY NextIInv, ReportsStep, QuietStep
<1>3. Inv => OperationsAgreeInAQuietWorld
  BY QuietAgreement DEF IInv, ReportsInv
<1>. QED BY <1>1, <1>2, <1>3, PTL DEF Spec

=============================================================================
