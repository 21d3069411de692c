-------------------------- MODULE ShowcasesProofs --------------------------
(***************************************************************************)
(* Proofs about the stores of the showcases, for any number of callers and *)
(* rows: what a row shows is what a validator takes, and every stage it    *)
(* gets is one that a transition leads to from a stage it has had.  And    *)
(* about the event log, of any length: an order is what its events say     *)
(* unless calls on it overlapped, and a batch tells of each order what a   *)
(* single load does.                                                       *)
(***************************************************************************)
EXTENDS MCShowcases, WellFoundedInduction, TLAPS

\* The rows that the validators of each store take.
DeployRow ==
    {Pipeline!Phase("draft", {}), Pipeline!Phase("planned", {"plan_digest"}),
     Pipeline!Phase("awaiting_approval", {"approval_ticket"}),
     Pipeline!Phase("applying", {"approved_by", "operation_id"}),
     Pipeline!Phase("applied", {"receipt_id"}),
     Pipeline!Phase("rolled_back", {"rollback_reason"}),
     Pipeline!Phase("failed", {"failure_reason"})}
ReviewRow ==
    {Reviews!Document("draft", "none"), Reviews!Document("published", "none")}
      \cup {Reviews!Document("in_review", r) : r \in Reviewers}
CartRow == {Carts!Snapshot("open", FALSE), Carts!Snapshot("checked_out", TRUE)}

StageNames ==
    {"draft", "planned", "awaiting_approval", "applying", "applied", "rolled_back", "failed",
     "in_review", "published", "open", "checked_out"}

StageSets == SUBSET StageNames

\* A table of such rows, each of which has had the stage it shows.
Table(Row) ==
    /\ rows \in Seq(Row) /\ reached \in Seq(StageSets)
    /\ Len(reached) = Len(rows)
    /\ \A i \in 1..Len(rows) : rows[i].status \in reached[i]

\* A process that is about to write has seen the stage its command requires.
DeployCalls ==
    /\ calls \in [Callers -> [at : {"idle", "load", "persist", "show"},
                              command : Pipeline!Commands \cup {"show"},
                              id : Nat, well_formed : BOOLEAN]]
    /\ \A p \in Callers : calls[p].at \in {"load", "persist"} => calls[p].command \in Pipeline!Commands
    /\ \A p \in Callers : calls[p].at = "persist" =>
         /\ calls[p].id \in 1..Len(rows)
         /\ Pipeline!Transition[calls[p].command][1] \in reached[calls[p].id]

\* So has a handler.
ReviewCalls ==
    /\ calls \in [Callers -> [at : {"idle", "submit", "approve", "persist_in_review",
                                    "persist_published", "fetch"},
                              id : Nat, reviewer : Reviewers \cup {"none"}]]
    /\ \A p \in Callers :
         /\ calls[p].at \in {"submit", "persist_in_review"} => calls[p].reviewer \in Reviewers
         /\ calls[p].at \in {"persist_in_review", "persist_published"} => calls[p].id \in 1..Len(rows)
         /\ calls[p].at = "persist_in_review" => "draft" \in reached[calls[p].id]
         /\ calls[p].at = "persist_published" => "in_review" \in reached[calls[p].id]

ShowcaseInv ==
    /\ app \in {"deploy", "review", "cart", "orders"}
    /\ app = "deploy" => Table(DeployRow) /\ DeployCalls
    /\ app = "review" => Table(ReviewRow) /\ ReviewCalls
    /\ app = "cart" => Table(CartRow)
    /\ app = "orders" => rows = <<>> /\ reached = <<>>

-----------------------------------------------------------------------------
\* A row that is added with an initial stage is an Insert of the workflow.
LEMMA Added ==
    ASSUME NEW Row, Table(Row), NEW row \in Row, row.status \in StageNames,
           row.status \in {"draft", "open"},
           rows' = Append(rows, row), reached' = Append(reached, {row.status})
    PROVE  /\ Table(Row)' /\ Workflow!Insert
           /\ Len(rows') = Len(rows) + 1
           /\ \A i \in 1..Len(rows) : reached'[i] = reached[i]
  <1>1. /\ rows' \in Seq(Row) /\ Len(rows') = Len(rows) + 1 /\ Len(rows) \in Nat
        /\ rows'[Len(rows) + 1] = row /\ \A i \in 1..Len(rows) : rows'[i] = rows[i]
    BY DEF Table
  <1>2. /\ reached' \in Seq(StageSets) /\ Len(reached') = Len(rows) + 1
        /\ reached'[Len(rows) + 1] = {row.status} /\ \A i \in 1..Len(rows) : reached'[i] = reached[i]
    <2>1. {row.status} \in StageSets
      BY DEF StageSets
    <2>2. QED
      BY <2>1 DEF Table
  <1>3. Table(Row)'
    <2>1. ASSUME NEW i \in 1..Len(rows') PROVE rows'[i].status \in reached'[i]
      <3>1. CASE i = Len(rows) + 1
        BY <1>1, <1>2, <3>1
      <3>2. CASE i # Len(rows) + 1
        <4>1. i \in 1..Len(rows)
          BY <1>1, <2>1, <3>2
        <4>2. QED
          BY <1>1, <1>2, <4>1 DEF Table
      <3>3. QED
        BY <3>1, <3>2
    <2>2. QED
      BY <1>1, <1>2, <2>1 DEF Table
  <1>4. Stages' = Append(Stages, row.status)
    <2>1. Stages \in Seq({rows[i].status : i \in 1..Len(rows)}) /\ Len(Stages) = Len(rows)
      BY <1>1 DEF Stages, Table
    <2>2. Stages' = [i \in 1..(Len(rows) + 1) |-> rows'[i].status]
      BY <1>1 DEF Stages
    <2>3. Append(Stages, row.status) =
            [i \in 1..(Len(rows) + 1) |-> IF i <= Len(rows) THEN Stages[i] ELSE row.status]
      BY <1>1, <2>1
    <2>4. \A i \in 1..(Len(rows) + 1) :
            rows'[i].status = IF i <= Len(rows) THEN Stages[i] ELSE row.status
      BY <1>1 DEF Stages, Table
    <2>5. QED
      BY <2>2, <2>3, <2>4
  <1>5. QED
    BY <1>1, <1>2, <1>3, <1>4 DEF Workflow!Insert

\* One element of a sequence is replaced.
LEMMA SequenceUpdate ==
    ASSUME NEW S, NEW s \in Seq(S), NEW i \in 1..Len(s), NEW x \in S
    PROVE  /\ [s EXCEPT ![i] = x] \in Seq(S) /\ Len([s EXCEPT ![i] = x]) = Len(s)
           /\ \A k \in 1..Len(s) : [s EXCEPT ![i] = x][k] = IF k = i THEN x ELSE s[k]
  OBVIOUS

\* A row that is overwritten with the end of a transition whose start it has
\* had is a Move of the workflow.
LEMMA Overwritten ==
    ASSUME NEW Row, Table(Row), NEW i \in 1..Len(rows), NEW row \in Row, NEW from, NEW to \in StageNames,
           row.status = to, from \in reached[i],
           <<from, to>> \in Pipeline!Machine \cup Reviews!Machine \cup Carts!Machine,
           rows' = [rows EXCEPT ![i] = row],
           reached' = [reached EXCEPT ![i] = @ \cup {to}]
    PROVE  /\ Table(Row)' /\ Workflow!Move
           /\ Len(rows') = Len(rows)
           /\ \A k \in 1..Len(rows) : reached[k] \subseteq reached'[k]
  <1>1. /\ rows' \in Seq(Row) /\ Len(rows') = Len(rows) /\ Len(rows) \in Nat
        /\ \A k \in 1..Len(rows) : rows'[k] = IF k = i THEN row ELSE rows[k]
    BY DEF Table
  <1>2. /\ reached' \in Seq(StageSets) /\ Len(reached') = Len(rows)
        /\ \A k \in 1..Len(rows) : reached'[k] = IF k = i THEN reached[k] \cup {to} ELSE reached[k]
    <2>1. i \in 1..Len(reached) /\ reached \in Seq(StageSets) /\ Len(reached) = Len(rows)
      BY DEF Table
    <2>2. reached[i] \cup {to} \in StageSets
      BY <2>1 DEF StageSets
    <2> DEFINE new == [reached EXCEPT ![i] = reached[i] \cup {to}]
    <2>3. /\ new \in Seq(StageSets) /\ Len(new) = Len(reached)
          /\ \A k \in 1..Len(reached) : new[k] = IF k = i THEN reached[i] \cup {to} ELSE reached[k]
      <3>1. \A x \in StageSets :
              /\ [reached EXCEPT ![i] = x] \in Seq(StageSets)
              /\ Len([reached EXCEPT ![i] = x]) = Len(reached)
              /\ \A k \in 1..Len(reached) :
                   [reached EXCEPT ![i] = x][k] = IF k = i THEN x ELSE reached[k]
        BY <2>1, SequenceUpdate
      <3>2. QED
        BY <2>2, <3>1, Zenon
    <2>4. reached' = new
      OBVIOUS
    <2> HIDE DEF new
    <2>5. QED
      BY <2>1, <2>3, <2>4
  <1>3. Table(Row)'
    BY <1>1, <1>2 DEF Table
  <1>4. Stages' = [Stages EXCEPT ![i] = to]
    <2>1. DOMAIN rows = 1..Len(rows) /\ DOMAIN rows' = 1..Len(rows)
      BY <1>1 DEF Table
    <2>2. Stages' = [k \in 1..Len(rows) |-> rows'[k].status]
      BY <2>1 DEF Stages
    <2>3. [Stages EXCEPT ![i] = to] = [k \in 1..Len(rows) |-> IF k = i THEN to ELSE rows[k].status]
      BY <2>1 DEF Stages
    <2>4. QED
      BY <1>1, <2>2, <2>3
  <1>5. Workflow!Move
    <2>1. i \in DOMAIN Stages
      BY DEF Stages, Table
    <2>2. <<from, to>>[1] = from /\ <<from, to>>[2] = to
      OBVIOUS
    <2>3. QED
      BY <1>4, <2>1, <2>2 DEF Workflow!Move
  <1>6. QED
    BY <1>1, <1>2, <1>3, <1>5

-----------------------------------------------------------------------------
(***************************************************************************)
(* The deploy pipeline.                                                    *)
(***************************************************************************)
\* What the persist functions write is a row of their stage.
LEMMA DeployRows ==
    ASSUME NEW to \in {"planned", "awaiting_approval", "applying", "applied", "failed", "rolled_back"}
    PROVE  Pipeline!persist_state[to] \in DeployRow /\ Pipeline!persist_state[to].status = to
  <1> USE DEF Pipeline!persist_state, Pipeline!Phase, DeployRow
  <1>1. CASE to = "planned"
    BY <1>1
  <1>2. CASE to = "awaiting_approval"
    BY <1>2
  <1>3. CASE to = "applying"
    BY <1>3
  <1>4. CASE to = "applied"
    BY <1>4
  <1>5. CASE to = "failed"
    BY <1>5
  <1>6. CASE to = "rolled_back"
    BY <1>6
  <1>7. QED
    BY <1>1, <1>2, <1>3, <1>4, <1>5, <1>6

\* What a command writes: a row of the stage that its transition leads to.
LEMMA DeployWrites ==
    ASSUME NEW command \in Pipeline!Commands,
           NEW from, NEW to,
           from = Pipeline!Transition[command][1], to = Pipeline!Transition[command][2]
    PROVE  /\ to \in StageNames /\ <<from, to>> \in Pipeline!Machine
           /\ Pipeline!persist_state[to] \in DeployRow
           /\ Pipeline!persist_state[to].status = to
  <1> DEFINE Tos == {"planned", "awaiting_approval", "applying", "applied", "failed", "rolled_back"}
  <1>1. command \in {"plan", "request_approval", "approve", "finish_success", "finish_failure",
                     "rollback"}
    BY DEF Pipeline!Commands, Pipeline!Transition
  <1>2. to \in Tos /\ Pipeline!Transition[command] = <<from, to>>
    <2>1. CASE command = "plan"
      <3>1. Pipeline!Transition["plan"] = <<"draft", "planned">>
        BY DEF Pipeline!Transition
      <3>2. QED
        BY <2>1, <3>1
    <2>2. CASE command = "request_approval"
      <3>1. Pipeline!Transition["request_approval"] = <<"planned", "awaiting_approval">>
        BY DEF Pipeline!Transition
      <3>2. QED
        BY <2>2, <3>1
    <2>3. CASE command = "approve"
      <3>1. Pipeline!Transition["approve"] = <<"awaiting_approval", "applying">>
        BY DEF Pipeline!Transition
      <3>2. QED
        BY <2>3, <3>1
    <2>4. CASE command = "finish_success"
      <3>1. Pipeline!Transition["finish_success"] = <<"applying", "applied">>
        BY DEF Pipeline!Transition
      <3>2. QED
        BY <2>4, <3>1
    <2>5. CASE command = "finish_failure"
      <3>1. Pipeline!Transition["finish_failure"] = <<"applying", "failed">>
        BY DEF Pipeline!Transition
      <3>2. QED
        BY <2>5, <3>1
    <2>6. CASE command = "rollback"
      <3>1. Pipeline!Transition["rollback"] = <<"applied", "rolled_back">>
        BY DEF Pipeline!Transition
      <3>2. QED
        BY <2>6, <3>1
    <2>7. QED
      BY <1>1, <2>1, <2>2, <2>3, <2>4, <2>5, <2>6
  <1>3. <<from, to>> \in Pipeline!Machine
    BY <1>2 DEF Pipeline!Machine
  <1>4. to \in StageNames
    BY <1>2 DEF StageNames
  <1>5. QED
    BY <1>2, <1>3, <1>4, DeployRows, Zenon

\* A step of the pipeline keeps its table and its calls, and is a step of the
\* workflow or leaves the table as it is.
LEMMA DeployStep ==
    ASSUME Table(DeployRow), DeployCalls, Pipeline!Next
    PROVE  /\ Table(DeployRow)' /\ DeployCalls'
           /\ Workflow!Next \/ UNCHANGED <<Stages, reached>>
  <1> USE DEF Pipeline!Idle, Pipeline!Showing
  <1>1. PICK p \in Callers :
          \/ Pipeline!Create(p) \/ Pipeline!Invoke(p) \/ Pipeline!Load(p)
          \/ Pipeline!Persist(p) \/ Pipeline!Show(p) \/ Pipeline!Crash(p)
    BY DEF Pipeline!Next
  <1>2. /\ Len(rows) \in Nat /\ DOMAIN rows = 1..Len(rows)
        /\ rows \in Seq(DeployRow) /\ Len(reached) = Len(rows)
    BY DEF Table
  <1>3. "show" \notin Pipeline!Commands
    BY DEF Pipeline!Commands, Pipeline!Transition
  <1>4. ASSUME UNCHANGED <<rows, reached>>, DeployCalls'
        PROVE  Table(DeployRow)' /\ DeployCalls' /\ UNCHANGED <<Stages, reached>>
    BY <1>4 DEF Table, Stages
  <1>5. CASE Pipeline!Create(p)
    <2> DEFINE row == Pipeline!Phase("draft", {})
    <2>1. /\ row \in DeployRow /\ row.status = "draft"
          /\ row.status \in StageNames /\ row.status \in {"draft", "open"}
      BY DEF DeployRow, Pipeline!Phase, StageNames
    <2>2. /\ rows' = Append(rows, row) /\ reached' = Append(reached, {row.status})
          /\ calls' = [calls EXCEPT ![p] = Pipeline!Showing(Len(rows) + 1)]
      BY <1>5, <2>1 DEF Pipeline!Create
    <2> HIDE DEF row
    <2>3. /\ Table(DeployRow)' /\ Workflow!Insert /\ Len(rows') = Len(rows) + 1
          /\ \A i \in 1..Len(rows) : reached'[i] = reached[i]
      BY <2>1, <2>2, Added
    <2>4. Len(rows) + 1 \in Nat
      BY <1>2
    <2>5. DeployCalls'
      BY <1>2, <2>2, <2>3, <2>4 DEF DeployCalls
    <2>6. QED
      BY <2>3, <2>5 DEF Workflow!Next
  <1>6. CASE Pipeline!Invoke(p)
    <2>1. UNCHANGED <<rows, reached>>
      BY <1>6 DEF Pipeline!Invoke
    <2>2. CASE \E id \in 1..MaxRows :
                 calls' = [calls EXCEPT ![p] = Pipeline!Showing(id)]
      <3>1. PICK id \in 1..MaxRows :
              calls' = [calls EXCEPT ![p] = Pipeline!Showing(id)]
        BY <2>2
      <3>3. DeployCalls'
        BY <2>1, <3>1 DEF DeployCalls
      <3>4. QED
        BY <1>4, <2>1, <3>3
    <2>3. CASE \E command \in Pipeline!Commands, id \in 1..MaxRows, well_formed \in BOOLEAN :
                 calls' = [calls EXCEPT ![p] = [at |-> "load", command |-> command, id |-> id,
                                                well_formed |-> well_formed]]
      <3>1. PICK command \in Pipeline!Commands, id \in 1..MaxRows, well_formed \in BOOLEAN :
              calls' = [calls EXCEPT ![p] = [at |-> "load", command |-> command, id |-> id,
                                             well_formed |-> well_formed]]
        BY <2>3
      <3>2. DeployCalls'
        BY <2>1, <3>1 DEF DeployCalls
      <3>3. QED
        BY <1>4, <2>1, <3>2
    <2>4. QED
      BY <1>6, <2>2, <2>3 DEF Pipeline!Invoke
  <1>7. ASSUME Pipeline!End(p), UNCHANGED <<rows, reached>>
        PROVE  DeployCalls'
    BY <1>7 DEF Pipeline!End, DeployCalls
  <1>8. CASE Pipeline!Load(p)
    <2>1. UNCHANGED <<rows, reached>> /\ calls[p].at = "load"
      BY <1>8 DEF Pipeline!Load
    <2>2. CASE Pipeline!Loaded(calls[p]) /\ Pipeline!Goto(p, "persist")
      <3>1. /\ calls[p].id \in 1..Len(rows) /\ calls[p].command \in Pipeline!Commands
            /\ Pipeline!Transition[calls[p].command][1] \in reached[calls[p].id]
        BY <1>2, <2>1, <2>2 DEF Pipeline!Loaded, Table, DeployCalls
      <3>2. DeployCalls'
        BY <2>1, <2>2, <3>1 DEF Pipeline!Goto, DeployCalls
      <3>3. QED
        BY <1>4, <2>1, <3>2
    <2>3. QED
      BY <1>4, <1>7, <1>8, <2>1, <2>2 DEF Pipeline!Load
  <1>9. CASE Pipeline!Persist(p)
    <2> DEFINE id   == calls[p].id
               from == Pipeline!Transition[calls[p].command][1]
               to   == Pipeline!Transition[calls[p].command][2]
               row  == Pipeline!persist_state[to]
    <2>1. /\ calls[p].at = "persist" /\ rows' = [rows EXCEPT ![id] = row]
          /\ reached' = [reached EXCEPT ![id] = @ \cup {to}]
          /\ Pipeline!Goto(p, "show")
      BY <1>9 DEF Pipeline!Persist
    <2>2. id \in 1..Len(rows) /\ from \in reached[id] /\ calls[p].command \in Pipeline!Commands
      BY <2>1 DEF DeployCalls
    <2>3. /\ to \in StageNames /\ row \in DeployRow /\ row.status = to
          /\ <<from, to>> \in Pipeline!Machine \cup Reviews!Machine \cup Carts!Machine
      BY <2>2, DeployWrites
    <2> HIDE DEF id, from, to, row
    <2>4. /\ Table(DeployRow)' /\ Workflow!Move /\ Len(rows') = Len(rows)
          /\ \A k \in 1..Len(rows) : reached[k] \subseteq reached'[k]
      BY <2>1, <2>2, <2>3, Overwritten
    <2>5. DeployCalls'
      BY <2>1, <2>4 DEF Pipeline!Goto, DeployCalls
    <2>6. QED
      BY <2>4, <2>5 DEF Workflow!Next
  <1>10. CASE Pipeline!Show(p) \/ Pipeline!Crash(p)
    BY <1>4, <1>7, <1>10 DEF Pipeline!Show, Pipeline!Crash
  <1>11. QED
    BY <1>1, <1>5, <1>6, <1>8, <1>9, <1>10

-----------------------------------------------------------------------------
(***************************************************************************)
(* The review service.                                                     *)
(***************************************************************************)
\* A step of the service keeps its table and its calls, and is a step of the
\* workflow or leaves the table as it is.
LEMMA ReviewStep ==
    ASSUME Table(ReviewRow), ReviewCalls, Reviews!Next
    PROVE  /\ Table(ReviewRow)' /\ ReviewCalls'
           /\ Workflow!Next \/ UNCHANGED <<Stages, reached>>
  <1> USE DEF Reviews!Idle, Reviews!Asking, Reviews!None
  <1>1. PICK p \in Callers :
          \/ Reviews!create_document(p) \/ Reviews!Request(p)
          \/ Reviews!submit_document(p) \/ Reviews!approve_document(p)
          \/ Reviews!persist_in_review(p) \/ Reviews!persist_published(p)
          \/ Reviews!fetch_document_row(p) \/ Reviews!HangUp(p)
    BY DEF Reviews!Next
  <1>2. /\ Len(rows) \in Nat /\ DOMAIN rows = 1..Len(rows)
        /\ rows \in Seq(ReviewRow) /\ Len(reached) = Len(rows)
    BY DEF Table
  <1>3. ASSUME UNCHANGED <<rows, reached>>, ReviewCalls'
        PROVE  Table(ReviewRow)' /\ ReviewCalls' /\ UNCHANGED <<Stages, reached>>
    BY <1>3 DEF Table, Stages
  <1>4. ASSUME Reviews!End(p), UNCHANGED <<rows, reached>>
        PROVE  ReviewCalls'
    BY <1>4 DEF Reviews!End, ReviewCalls
  <1>5. CASE Reviews!create_document(p)
    <2> DEFINE row == Reviews!Document("draft", "none")
    <2>1. /\ row \in ReviewRow /\ row.status = "draft"
          /\ row.status \in StageNames /\ row.status \in {"draft", "open"}
      BY DEF ReviewRow, Reviews!Document, StageNames
    <2>2. /\ rows' = Append(rows, row) /\ reached' = Append(reached, {row.status})
          /\ calls' = [calls EXCEPT ![p] = Reviews!Asking("fetch", Len(rows) + 1)]
      BY <1>5, <2>1 DEF Reviews!create_document
    <2> HIDE DEF row
    <2>3. /\ Table(ReviewRow)' /\ Workflow!Insert /\ Len(rows') = Len(rows) + 1
          /\ \A i \in 1..Len(rows) : reached'[i] = reached[i]
      BY <2>1, <2>2, Added
    <2>4. Len(rows) + 1 \in Nat
      BY <1>2
    <2>5. ReviewCalls'
      BY <1>2, <2>2, <2>3, <2>4 DEF ReviewCalls
    <2>6. QED
      BY <2>3, <2>5 DEF Workflow!Next
  <1>6. CASE Reviews!Request(p)
    <2>1. UNCHANGED <<rows, reached>>
      BY <1>6 DEF Reviews!Request
    <2>2. PICK id \in 1..MaxRows :
            \/ calls' = [calls EXCEPT ![p] = Reviews!Asking("fetch", id)]
            \/ calls' = [calls EXCEPT ![p] = Reviews!Asking("approve", id)]
            \/ \E r \in Reviewers :
                 calls' = [calls EXCEPT ![p] = [at |-> "submit", id |-> id, reviewer |-> r]]
      BY <1>6 DEF Reviews!Request
    <2>3. ReviewCalls'
      BY <2>1, <2>2 DEF ReviewCalls
    <2>4. QED
      BY <1>3, <2>1, <2>3
  <1>7. ASSUME Reviews!submit_document(p) \/ Reviews!approve_document(p)
        PROVE  ReviewCalls' /\ UNCHANGED <<rows, reached>>
    <2>1. UNCHANGED <<rows, reached>>
      BY <1>7 DEF Reviews!submit_document, Reviews!approve_document, Reviews!load_document_state
    <2>2. CASE Reviews!End(p)
      BY <1>4, <2>1, <2>2
    <2>3. ASSUME calls[p].at = "submit", calls[p].id \in DOMAIN rows,
                 rows[calls[p].id].status \in {"draft"},
                 calls' = [calls EXCEPT ![p].at = "persist_in_review"]
          PROVE  ReviewCalls'
      <3>1. calls[p].id \in 1..Len(rows) /\ "draft" \in reached[calls[p].id]
        BY <1>2, <2>3 DEF Table
      <3>2. QED
        BY <2>1, <2>3, <3>1 DEF ReviewCalls
    <2>4. ASSUME calls[p].at = "approve", calls[p].id \in DOMAIN rows,
                 rows[calls[p].id].status \in {"in_review"},
                 calls' = [calls EXCEPT ![p].at = "persist_published"]
          PROVE  ReviewCalls'
      <3>1. calls[p].id \in 1..Len(rows) /\ "in_review" \in reached[calls[p].id]
        BY <1>2, <2>4 DEF Table
      <3>2. QED
        BY <2>1, <2>4, <3>1 DEF ReviewCalls
    <2>5. QED
      BY <1>7, <2>1, <2>2, <2>3, <2>4
         DEF Reviews!submit_document, Reviews!approve_document, Reviews!load_document_state
  <1>8. ASSUME NEW row \in ReviewRow, NEW from, NEW to \in StageNames, row.status = to,
               <<from, to>> \in Reviews!Machine, Reviews!Write(p, row),
               calls[p].id \in 1..Len(rows), from \in reached[calls[p].id]
        PROVE  Table(ReviewRow)' /\ ReviewCalls' /\ Workflow!Next
    <2> DEFINE id == calls[p].id
    <2>1. /\ rows' = [rows EXCEPT ![id] = row] /\ reached' = [reached EXCEPT ![id] = @ \cup {to}]
          /\ calls' = [calls EXCEPT ![p].at = "fetch"]
          /\ id \in 1..Len(rows) /\ from \in reached[id]
          /\ <<from, to>> \in Pipeline!Machine \cup Reviews!Machine \cup Carts!Machine
      BY <1>8 DEF Reviews!Write
    <2> HIDE DEF id
    <2>2. /\ Table(ReviewRow)' /\ Workflow!Move /\ Len(rows') = Len(rows)
          /\ \A k \in 1..Len(rows) : reached[k] \subseteq reached'[k]
      BY <1>8, <2>1, Overwritten
    <2>3. ReviewCalls'
      BY <2>1, <2>2 DEF ReviewCalls
    <2>4. QED
      BY <2>2, <2>3 DEF Workflow!Next
  <1>9. CASE Reviews!persist_in_review(p)
    <2>1. /\ Reviews!Write(p, Reviews!Document("in_review", calls[p].reviewer))
          /\ calls[p].reviewer \in Reviewers /\ calls[p].id \in 1..Len(rows)
          /\ "draft" \in reached[calls[p].id]
      BY <1>9 DEF Reviews!persist_in_review, Reviews!submit, ReviewCalls
    <2>2. /\ Reviews!Document("in_review", calls[p].reviewer) \in ReviewRow
          /\ Reviews!Document("in_review", calls[p].reviewer).status = "in_review"
      BY <2>1 DEF ReviewRow, Reviews!Document
    <2>3. <<"draft", "in_review">> \in Reviews!Machine /\ "in_review" \in StageNames
      BY DEF Reviews!Machine, StageNames
    <2>4. QED
      BY <1>8, <2>1, <2>2, <2>3, Zenon
  <1>10. CASE Reviews!persist_published(p)
    <2>1. /\ Reviews!Write(p, Reviews!Document("published", "none"))
          /\ calls[p].id \in 1..Len(rows) /\ "in_review" \in reached[calls[p].id]
      BY <1>10 DEF Reviews!persist_published, Reviews!approve, ReviewCalls
    <2>2. /\ Reviews!Document("published", "none") \in ReviewRow
          /\ Reviews!Document("published", "none").status = "published"
      BY <2>1 DEF ReviewRow, Reviews!Document
    <2>3. <<"in_review", "published">> \in Reviews!Machine /\ "published" \in StageNames
      BY DEF Reviews!Machine, StageNames
    <2>4. QED
      BY <1>8, <2>1, <2>2, <2>3, Zenon
  <1>11. CASE Reviews!fetch_document_row(p) \/ Reviews!HangUp(p)
    BY <1>3, <1>4, <1>11 DEF Reviews!fetch_document_row, Reviews!HangUp
  <1>12. QED
    BY <1>1, <1>3, <1>5, <1>6, <1>7, <1>9, <1>10, <1>11

-----------------------------------------------------------------------------
(***************************************************************************)
(* The cart store.                                                         *)
(***************************************************************************)
\* A step of the store keeps its table and is a step of the workflow.
LEMMA CartStep ==
    ASSUME Table(CartRow), Carts!Next
    PROVE  Table(CartRow)' /\ Workflow!Next
  <1>1. CASE Carts!create_cart
    <2> DEFINE row == Carts!Snapshot("open", FALSE)
    <2>1. /\ row \in CartRow /\ row.status = "open"
          /\ row.status \in StageNames /\ row.status \in {"draft", "open"}
      BY DEF CartRow, Carts!Snapshot, StageNames
    <2>2. rows' = Append(rows, row) /\ reached' = Append(reached, {row.status})
      BY <1>1, <2>1 DEF Carts!create_cart
    <2> HIDE DEF row
    <2>3. QED
      BY <2>1, <2>2, Added DEF Workflow!Next
  <1>2. CASE \E i \in DOMAIN rows : Carts!checkout(i)
    <2> DEFINE row == Carts!from_checked_out
    <2>0. DOMAIN rows = 1..Len(rows)
      BY DEF Table
    <2>1. PICK i \in 1..Len(rows) :
            /\ Carts!is_open(rows[i]) /\ rows' = [rows EXCEPT ![i] = row]
            /\ reached' = [reached EXCEPT ![i] = @ \cup {row.status}]
      BY <1>2, <2>0 DEF Carts!checkout
    <2>2. row \in CartRow /\ row.status = "checked_out"
      BY DEF CartRow, Carts!Snapshot, Carts!from_checked_out
    <2>3. "open" \in reached[i]
      BY <2>1 DEF Table, Carts!is_open, Carts!Snapshot
    <2>4. "checked_out" \in StageNames /\ <<"open", "checked_out">> \in Carts!Machine
      BY DEF StageNames, Carts!Machine
    <2> HIDE DEF row
    <2>5. QED
      BY <2>1, <2>2, <2>3, <2>4, Overwritten DEF Workflow!Next
  <1>3. QED
    BY <1>1, <1>2 DEF Carts!Next

-----------------------------------------------------------------------------
(***************************************************************************)
(* The stores side by side.                                                *)
(***************************************************************************)
\* The initial states satisfy the invariant.
LEMMA InitKept == Init => ShowcaseInv /\ Workflow!Init
  <1> SUFFICES ASSUME Init PROVE ShowcaseInv /\ Workflow!Init
    OBVIOUS
  <1>1. rows = <<>> /\ reached = <<>> /\ app \in {"deploy", "review", "cart", "orders"}
    BY DEF Init, Pipeline!Init, Reviews!Init, Carts!Init
  <1>2. Stages = <<>> /\ Workflow!Init
    BY <1>1 DEF Stages, Workflow!Init
  <1>3. Table(DeployRow) /\ Table(ReviewRow) /\ Table(CartRow)
    BY <1>1 DEF Table
  <1>4. ASSUME app = "deploy" PROVE DeployCalls
    <2>1. calls = [p \in Callers |-> Pipeline!Idle]
      BY <1>4 DEF Init, Pipeline!Init
    <2>2. 0 \in Nat
      OBVIOUS
    <2>3. Pipeline!Idle \in [at : {"idle", "load", "persist", "show"},
                             command : Pipeline!Commands \cup {"show"}, id : Nat, well_formed : BOOLEAN]
      BY <2>2, Zenon DEF Pipeline!Idle
    <2>4. Pipeline!Idle.at = "idle"
      BY DEF Pipeline!Idle
    <2>5. QED
      BY <2>1, <2>3, <2>4 DEF DeployCalls
  <1>5. app = "review" => ReviewCalls
    BY DEF Init, Reviews!Init, Reviews!Idle, Reviews!None, ReviewCalls
  <1>6. QED
    BY <1>1, <1>2, <1>3, <1>4, <1>5 DEF ShowcaseInv

\* A step of whichever store runs keeps the invariant and is one of the workflow.
LEMMA StepKeeps ==
    ASSUME ShowcaseInv, [Next]_vars
    PROVE  ShowcaseInv' /\ (Workflow!Next \/ UNCHANGED <<Stages, reached>>)
  <1>1. CASE UNCHANGED vars
    BY <1>1 DEF vars, ShowcaseInv, Table, DeployCalls, ReviewCalls, Stages
  <1>2. CASE Next /\ app = "deploy"
    BY <1>2, DeployStep DEF Next, ShowcaseInv
  <1>3. CASE Next /\ app = "review"
    BY <1>3, ReviewStep DEF Next, ShowcaseInv
  <1>4. CASE Next /\ app = "cart"
    BY <1>4, CartStep DEF Next, ShowcaseInv
  <1>5. CASE Next /\ app = "orders"
    BY <1>5 DEF Next, ShowcaseInv, Stages
  <1>6. QED
    BY <1>1, <1>2, <1>3, <1>4, <1>5 DEF ShowcaseInv

\* The tables hold only rows that rebuild, each row has had the stage it shows,
\* and a call that is about to write has seen the stage it starts from.
THEOREM Invariance == Spec => []ShowcaseInv
  BY InitKept, StepKeeps, PTL DEF Spec

\* Every row of every store rebuilds at every moment, for any number of callers,
\* reviewers and rows.  (persist_state, persist_*, from_checked_out, is_*.)
THEOREM RowsAlwaysRebuildHolds == Spec => []RowsAlwaysRebuild
  <1>1. ShowcaseInv => RowsAlwaysRebuild
    <2> SUFFICES ASSUME ShowcaseInv PROVE RowsAlwaysRebuild
      OBVIOUS
    <2>1. ASSUME app = "deploy" PROVE Pipeline!RowsAlwaysRebuild
      <3>1. \A row \in DeployRow : Pipeline!Rebuilds(row)
        BY DEF DeployRow, Pipeline!Rebuilds, Pipeline!is_draft, Pipeline!is_planned,
               Pipeline!is_awaiting_approval, Pipeline!is_applying, Pipeline!is_applied,
               Pipeline!is_rolled_back, Pipeline!is_failed
      <3>2. QED
        BY <2>1, <3>1 DEF ShowcaseInv, Table, Pipeline!RowsAlwaysRebuild
    <2>2. ASSUME app = "review" PROVE Reviews!RowsAlwaysRebuild
      <3>1. \A row \in ReviewRow : Reviews!Rebuilds(row)
        BY ShowcaseAssumption DEF ReviewRow, Reviews!Rebuilds, Reviews!is_draft,
           Reviews!is_in_review, Reviews!is_published, Reviews!Document, Reviews!None
      <3>2. QED
        BY <2>2, <3>1 DEF ShowcaseInv, Table, Reviews!RowsAlwaysRebuild
    <2>3. ASSUME app = "cart" PROVE Carts!RowsAlwaysRebuild
      <3>1. \A row \in CartRow : Carts!Rebuilds(row)
        BY DEF CartRow, Carts!Rebuilds, Carts!is_open, Carts!is_checked_out
      <3>2. QED
        BY <2>3, <3>1 DEF ShowcaseInv, Table, Carts!RowsAlwaysRebuild
    <2>4. QED
      BY <2>1, <2>2, <2>3 DEF ShowcaseInv, RowsAlwaysRebuild
  <1>2. QED
    BY Invariance, <1>1, PTL

\* The stores keep the promise of a stored workflow.  (execute, submit_document,
\* approve_document, checkout.)
THEOREM KeepThePromiseHolds == Spec => KeepThePromise
  <1>1. ShowcaseInv /\ [Next]_vars => [Workflow!Next]_<<Stages, reached>>
    BY StepKeeps
  <1>2. QED
    BY Invariance, InitKept, <1>1, PTL DEF Spec, KeepThePromise, Workflow!Spec

\* No stage is skipped, whoever overtakes whom.  (StoredWorkflow.)
THEOREM NoStageIsSkippedHolds == Spec => []NoStageIsSkipped
  <1> DEFINE Ends == Pipeline!Machine \cup Reviews!Machine \cup Carts!Machine
             Led(S) == \A s \in S : s \in {"draft", "open"} \/ \E r \in S : <<r, s>> \in Ends
             Sequence == reached \in Seq(StageSets)
  <1>1. ASSUME ShowcaseInv PROVE Sequence
    <2>1. CASE app = "orders"
      BY <1>1, <2>1 DEF ShowcaseInv
    <2>2. CASE app \in {"deploy", "review", "cart"}
      BY <1>1, <2>2 DEF ShowcaseInv, Table
    <2>3. QED
      BY <1>1, <2>1, <2>2 DEF ShowcaseInv
  <1>2. Workflow!Init => NoStageIsSkipped
    BY DEF Workflow!Init, NoStageIsSkipped, Workflow!NoStageIsSkipped
  <1>3. ASSUME Sequence, NoStageIsSkipped, Workflow!Insert
        PROVE  NoStageIsSkipped'
    <2>1. PICK s \in {"draft", "open"} : reached' = Append(reached, {s})
      BY <1>3 DEF Workflow!Insert
    <2>2. \A i \in DOMAIN reached' : (i \in DOMAIN reached /\ reached'[i] = reached[i]) \/ reached'[i] = {s}
      BY <1>3, <2>1
    <2>3. QED
      BY <1>3, <2>2 DEF NoStageIsSkipped, Workflow!NoStageIsSkipped
  <1>4. ASSUME Sequence, NoStageIsSkipped, Workflow!Move
        PROVE  NoStageIsSkipped'
    <2>1. PICK i \in DOMAIN Stages, edge \in Ends :
            edge[1] \in reached[i] /\ reached' = [reached EXCEPT ![i] = @ \cup {edge[2]}]
      BY <1>4 DEF Workflow!Move
    <2>2. <<edge[1], edge[2]>> \in Ends
      BY <2>1 DEF Pipeline!Machine, Pipeline!Commands, Pipeline!Transition, Reviews!Machine, Carts!Machine
    <2>3. \A k \in DOMAIN reached' : k \in DOMAIN reached /\
            reached'[k] = IF k = i THEN reached[i] \cup {edge[2]} ELSE reached[k]
      BY <1>4, <2>1
    <2>4. QED
      BY <1>4, <2>1, <2>2, <2>3 DEF NoStageIsSkipped, Workflow!NoStageIsSkipped
  <1>5. Sequence /\ NoStageIsSkipped /\ [Workflow!Next]_<<Stages, reached>> => NoStageIsSkipped'
    BY <1>3, <1>4 DEF Workflow!Next, NoStageIsSkipped, Workflow!NoStageIsSkipped
  <1>6. QED
    BY Invariance, KeepThePromiseHolds, <1>1, <1>2, <1>5, PTL DEF KeepThePromise, Workflow!Spec

-----------------------------------------------------------------------------
(***************************************************************************)
(* The event log.  What is recursive over a sequence of events is a        *)
(* function over its places; first, that there is one and that its values  *)
(* depend on the places before only.                                       *)
(***************************************************************************)
LEMMA Least ==
    ASSUME NEW S \in SUBSET Nat, S # {}
    PROVE  \E m \in S : \A k \in S : m <= k
  <1>1. IsWellFoundedOn(OpToRel(<, Nat), Nat)
    BY NatLessThanWellFounded
  <1>2. PICK m \in S : \A k \in S : ~(<<k, m>> \in OpToRel(<, Nat))
    BY <1>1, WFMin
  <1>3. \A k \in S : ~(k < m)
    BY <1>2 DEF OpToRel
  <1> QED BY <1>3

\* f starts with b and takes n steps, each as step says of a value in V.
Runs(f, n, V, b, step) ==
    /\ f[0] = b
    /\ \A i \in 1 .. n : f[i - 1] \in V => f[i] = step[i][f[i - 1]]

LEMMA RunExists ==
    ASSUME NEW V, NEW b \in V, NEW n \in Nat, NEW step \in [1 .. n -> [V -> V]]
    PROVE  \E f \in [0 .. n -> V] : Runs(f, n, V, b, step)
  <1> DEFINE Has(k) == \E f \in [0 .. k -> V] : Runs(f, k, V, b, step)
             S == {k \in 0 .. n : ~Has(k)}
  <1>1. SUFFICES S = {}
    BY <1>1
  <1>2. SUFFICES ASSUME S # {} PROVE FALSE
    OBVIOUS
  <1>3. PICK k \in S : \A j \in S : k <= j
    <2>1. S \in SUBSET Nat
      OBVIOUS
    <2> HIDE DEF S
    <2> QED BY <1>2, <2>1, Least
  <1>4. k \in 0 .. n /\ ~Has(k)
    OBVIOUS
  <1>5. CASE k = 0
    <2>1. Runs([i \in 0 .. 0 |-> b], 0, V, b, step)
      BY DEF Runs
    <2> QED BY <1>4, <1>5, <2>1
  <1>6. CASE k # 0
    <2>1. k - 1 \in 0 .. n /\ ~(k <= k - 1)
      BY <1>4, <1>6
    <2>2. Has(k - 1)
      BY <1>3, <2>1
    <2>3. PICK f \in [0 .. (k - 1) -> V] : Runs(f, k - 1, V, b, step)
      BY <2>2
    <2> DEFINE g == [i \in 0 .. k |-> IF i < k THEN f[i] ELSE step[k][f[k - 1]]]
    <2>4. step[k] \in [V -> V] /\ f[k - 1] \in V
      BY <1>4, <1>6
    <2>5. g \in [0 .. k -> V]
      BY <1>4, <2>4
    <2>6. \A i \in 0 .. (k - 1) : g[i] = f[i]
      BY <1>4
    <2>7. g[k] = step[k][f[k - 1]]
      BY <1>4
    <2> HIDE DEF g
    <2>8. \A i \in 1 .. k : g[i] = step[i][g[i - 1]]
      <3> TAKE i \in 1 .. k
      <3>1. CASE i = k
        BY <1>4, <1>6, <2>6, <2>7, <3>1
      <3>2. CASE i # k
        <4>1. i \in 1 .. (k - 1) /\ i \in 0 .. (k - 1) /\ i - 1 \in 0 .. (k - 1)
          BY <1>4, <3>2
        <4> QED BY <2>3, <2>6, <4>1 DEF Runs
      <3> QED BY <3>1, <3>2
    <2>9. g[0] = b
      BY <1>4, <1>6, <2>3, <2>6 DEF Runs
    <2>10. Runs(g, k, V, b, step)
      BY <2>8, <2>9 DEF Runs
    <2> QED BY <1>4, <2>5, <2>10
  <1> QED BY <1>5, <1>6

LEMMA RunsAgree ==
    ASSUME NEW V, NEW b \in V, NEW n \in Nat, NEW step \in [1 .. n -> [V -> V]],
           NEW f, NEW g, Runs(f, n, V, b, step), Runs(g, n, V, b, step)
    PROVE  \A i \in 0 .. n : f[i] = g[i] /\ f[i] \in V
  <1> DEFINE Good(i) == f[i] = g[i] /\ f[i] \in V
             S == {i \in 0 .. n : ~Good(i)}
  <1>1. SUFFICES S = {}
    BY <1>1
  <1>2. SUFFICES ASSUME S # {} PROVE FALSE
    OBVIOUS
  <1>3. PICK k \in S : \A j \in S : k <= j
    <2>1. S \in SUBSET Nat
      OBVIOUS
    <2> HIDE DEF S
    <2> QED BY <1>2, <2>1, Least
  <1>4. k \in 0 .. n /\ ~Good(k)
    OBVIOUS
  <1>5. k # 0
    BY <1>4 DEF Runs
  <1>6. k - 1 \in 0 .. n /\ ~(k <= k - 1) /\ k \in 1 .. n
    BY <1>4, <1>5
  <1>7. Good(k - 1)
    BY <1>3, <1>6
  <1>8. f[k] = step[k][f[k - 1]] /\ g[k] = step[k][f[k - 1]]
    BY <1>6, <1>7 DEF Runs
  <1>9. step[k][f[k - 1]] \in V
    BY <1>6, <1>7
  <1> QED BY <1>4, <1>8, <1>9

\* An event goes behind those before it, also of the run that leads to them.
LEMMA Appended ==
    ASSUME NEW T, NEW s \in Seq(T), NEW e \in T, NEW t, t = Append(s, e)
    PROVE  /\ t \in Seq(T) /\ Len(t) = Len(s) + 1 /\ Len(s) \in Nat /\ t # <<>>
           /\ DOMAIN s = 1 .. Len(s) /\ DOMAIN t = 1 .. (Len(s) + 1)
           /\ t[Len(s) + 1] = e
           /\ \A i \in 1 .. Len(s) : t[i] = s[i] /\ s[i] \in T
  OBVIOUS

KindSet  == {"created", "paid", "packed", "shipped", "delivered"}
EventSet == [order : Nat, kind : KindSet]
RowSet   == [status : KindSet \cup {"corrupt"},
             documents : SUBSET {"payment_receipt", "pick_ticket", "tracking_number"}]

\* The events of an order.
Chosen(f, s, o) ==
    f = [n \in 0 .. Len(s) |->
           IF n = 0 THEN <<>>
           ELSE IF s[n].order = o THEN Append(f[n - 1], s[n]) ELSE f[n - 1]]
EventsOf(s, o) == (CHOOSE f : Chosen(f, s, o))[Len(s)]
ChoiceStep(s, o) ==
    [i \in 1 .. Len(s) |->
       [w \in Seq(EventSet) |-> IF s[i].order = o THEN Append(w, s[i]) ELSE w]]

LEMMA EventsAre ==
    \A o : Log!events_for(o) = EventsOf(log, o) /\ Log!events_for(o)' = EventsOf(log', o)
  BY DEF Log!events_for, EventsOf, Chosen

LEMMA ChosenRuns ==
    ASSUME NEW s \in Seq(EventSet), NEW o
    PROVE  /\ ChoiceStep(s, o) \in [1 .. Len(s) -> [Seq(EventSet) -> Seq(EventSet)]]
           /\ \A f : Chosen(f, s, o) => Runs(f, Len(s), Seq(EventSet), <<>>, ChoiceStep(s, o))
           /\ Chosen(CHOOSE f : Chosen(f, s, o), s, o)
  <1> DEFINE V == Seq(EventSet)
             N == Len(s)
             step == ChoiceStep(s, o)
  <1>1. N \in Nat /\ <<>> \in V /\ \A i \in 1 .. N : s[i] \in EventSet
    OBVIOUS
  <1>2. \A i \in 1 .. N, w \in V : Append(w, s[i]) \in V
    BY <1>1
  <1> HIDE DEF V, N
  <1>3. step = [i \in 1 .. N |-> [w \in V |-> IF s[i].order = o THEN Append(w, s[i]) ELSE w]]
    BY DEF ChoiceStep, V, N
  <1>4. step \in [1 .. N -> [V -> V]]
    BY <1>2, <1>3
  <1>5. \A i \in 1 .. N, w \in V : step[i][w] = IF s[i].order = o THEN Append(w, s[i]) ELSE w
    BY <1>3
  <1> HIDE DEF step
  <1>6. ASSUME NEW f, Chosen(f, s, o) PROVE Runs(f, N, V, <<>>, step)
    <2> DEFINE Value(n) == IF n = 0 THEN <<>>
                           ELSE IF s[n].order = o THEN Append(f[n - 1], s[n]) ELSE f[n - 1]
    <2>1. f = [n \in 0 .. N |-> Value(n)]
      BY <1>6 DEF Chosen, N
    <2> HIDE DEF Value
    <2>2. \A n \in 0 .. N : f[n] = Value(n)
      BY <2>1
    <2>3. f[0] = <<>>
      BY <1>1, <2>2 DEF Value
    <2>4. \A i \in 1 .. N : f[i] = IF s[i].order = o THEN Append(f[i - 1], s[i]) ELSE f[i - 1]
      BY <1>1, <2>2 DEF Value
    <2> QED BY <1>5, <2>3, <2>4 DEF Runs
  <1>7. PICK f \in [0 .. N -> V] : Runs(f, N, V, <<>>, step)
    BY <1>1, <1>4, RunExists
  <1>8. Chosen(f, s, o)
    <2>1. \A i \in 1 .. N : f[i - 1] \in V
      BY <1>1, <1>7
    <2>2. \A i \in 1 .. N : f[i] = IF s[i].order = o THEN Append(f[i - 1], s[i]) ELSE f[i - 1]
      BY <1>5, <1>7, <2>1 DEF Runs
    <2>3. f[0] = <<>>
      BY <1>7 DEF Runs
    <2>4. \A n \in 0 .. N : n = 0 \/ n \in 1 .. N
      BY <1>1
    <2>5. \A n \in 0 .. N :
            f[n] = IF n = 0 THEN <<>>
                   ELSE IF s[n].order = o THEN Append(f[n - 1], s[n]) ELSE f[n - 1]
      BY <2>2, <2>3, <2>4
    <2> QED BY <1>7, <2>5 DEF Chosen, N
  <1>9. Chosen(CHOOSE g : Chosen(g, s, o), s, o)
    BY <1>8
  <1> QED BY <1>4, <1>6, <1>9 DEF V, N, step

LEMMA EventsOfGrows ==
    ASSUME NEW s \in Seq(EventSet), NEW e \in EventSet, NEW o
    PROVE  /\ EventsOf(s, o) \in Seq(EventSet)
           /\ EventsOf(Append(s, e), o) =
                IF e.order = o THEN Append(EventsOf(s, o), e) ELSE EventsOf(s, o)
  <1> DEFINE t == Append(s, e)
             N == Len(s)
             f == CHOOSE f : Chosen(f, s, o)
             g == CHOOSE g : Chosen(g, t, o)
  <1>1. /\ t \in Seq(EventSet) /\ Len(t) = N + 1 /\ N \in Nat /\ t[N + 1] = e
        /\ \A i \in 1 .. N : t[i] = s[i]
    BY Appended
  <1> HIDE DEF t
  <1>2. Chosen(f, s, o) /\ Chosen(g, t, o)
    BY <1>1, ChosenRuns
  <1>3. /\ ChoiceStep(s, o) \in [1 .. N -> [Seq(EventSet) -> Seq(EventSet)]]
        /\ Runs(f, N, Seq(EventSet), <<>>, ChoiceStep(s, o))
    BY <1>2, ChosenRuns
  <1>4. Runs(g, N + 1, Seq(EventSet), <<>>, ChoiceStep(t, o))
    BY <1>1, <1>2, ChosenRuns
  <1>5. EventsOf(s, o) = f[N] /\ EventsOf(t, o) = g[N + 1]
    BY <1>1 DEF EventsOf
  <1> HIDE DEF f, g
  <1>6. Runs(g, N, Seq(EventSet), <<>>, ChoiceStep(s, o))
    <2>1. ASSUME NEW i \in 1 .. N
          PROVE  i \in 1 .. (N + 1) /\ ChoiceStep(t, o)[i] = ChoiceStep(s, o)[i]
      <3> DEFINE Step(x) ==
            [w \in Seq(EventSet) |-> IF x.order = o THEN Append(w, x) ELSE w]
      <3>1. i \in 1 .. (N + 1) /\ t[i] = s[i]
        BY <1>1
      <3>2. ChoiceStep(t, o) = [j \in 1 .. (N + 1) |-> Step(t[j])]
        BY <1>1 DEF ChoiceStep
      <3>3. ChoiceStep(s, o) = [j \in 1 .. N |-> Step(s[j])]
        BY DEF ChoiceStep
      <3> HIDE DEF Step
      <3> QED BY <3>1, <3>2, <3>3
    <2> QED BY <1>4, <2>1 DEF Runs
  <1>7. \A i \in 0 .. N : f[i] = g[i] /\ f[i] \in Seq(EventSet)
    <2>1. <<>> \in Seq(EventSet)
      OBVIOUS
    <2> QED BY <1>1, <1>3, <1>6, <2>1, RunsAgree
  <1>8. g[N + 1] = IF e.order = o THEN Append(g[N], e) ELSE g[N]
    <2>1. N + 1 \in 1 .. (N + 1) /\ N + 1 \in 0 .. Len(t) /\ N + 1 # 0 /\ (N + 1) - 1 = N
      BY <1>1
    <2> QED BY <1>1, <1>2, <2>1 DEF Chosen
  <1>9. f[N] = g[N] /\ f[N] \in Seq(EventSet)
    BY <1>1, <1>7
  <1> QED BY <1>5, <1>8, <1>9 DEF t

LEMMA NoEvents == \A o : EventsOf(<<>>, o) = <<>>
  <1> TAKE o
  <1>1. <<>> \in Seq(EventSet) /\ Len(<<>>) = 0
    OBVIOUS
  <1>2. Chosen(CHOOSE f : Chosen(f, <<>>, o), <<>>, o)
    BY <1>1, ChosenRuns
  <1>3. Runs(CHOOSE f : Chosen(f, <<>>, o), 0, Seq(EventSet), <<>>, ChoiceStep(<<>>, o))
    BY <1>1, <1>2, ChosenRuns
  <1> QED BY <1>1, <1>3 DEF EventsOf, Runs

\* One order's projection, of at least one event.
Projected(f, s) ==
    f = [n \in DOMAIN s |->
           IF n = 1 THEN Log!seed(s[1].kind) ELSE Log!apply(f[n - 1], s[n].kind)]
Projection(s) == (CHOOSE f : Projected(f, s))[Len(s)]
ProjectionStep(s) ==
    [i \in 1 .. (Len(s) - 1) |-> [row \in RowSet |-> Log!apply(row, s[i + 1].kind)]]

LEMMA ProjectionIs == \A s : Log!reduce_one(s) = Projection(s)
  BY DEF Log!reduce_one, Projected, Projection

LEMMA RowTypes ==
    /\ \A kind \in KindSet : Log!seed(kind) \in RowSet
    /\ \A row \in RowSet, kind \in KindSet : Log!apply(row, kind) \in RowSet
  <1>1. \A kind \in KindSet : Log!seed(kind) \in RowSet
    BY DEF Log!seed, Log!Corrupt, RowSet, KindSet
  <1>2. Log!Corrupt \in RowSet
    BY DEF Log!Corrupt, RowSet
  <1>3. \A kind \in KindSet \ {"created"} :
          Log!Document[kind] \in SUBSET {"payment_receipt", "pick_ticket", "tracking_number"}
    BY DEF Log!Document, KindSet
  <1>4. \A row \in RowSet, kind \in KindSet \ {"created"} :
          [status |-> kind, documents |-> row.documents \cup Log!Document[kind]] \in RowSet
    BY <1>3 DEF RowSet
  <1> QED BY <1>1, <1>2, <1>4 DEF Log!apply

\* The run over the events behind the first.
Shifted(f, s) == [i \in 0 .. (Len(s) - 1) |-> f[i + 1]]

LEMMA ProjectedRuns ==
    ASSUME NEW s \in Seq(EventSet), s # <<>>
    PROVE  /\ Log!seed(s[1].kind) \in RowSet /\ Len(s) - 1 \in Nat
           /\ ProjectionStep(s) \in [1 .. (Len(s) - 1) -> [RowSet -> RowSet]]
           /\ \A f : Projected(f, s) =>
                Runs(Shifted(f, s), Len(s) - 1, RowSet, Log!seed(s[1].kind), ProjectionStep(s))
           /\ Projected(CHOOSE f : Projected(f, s), s)
  <1> DEFINE N == Len(s) - 1
             b == Log!seed(s[1].kind)
             step == ProjectionStep(s)
  <1>1. N \in Nat /\ DOMAIN s = 1 .. (N + 1) /\ \A i \in 1 .. (N + 1) : s[i].kind \in KindSet
    <2>1. Len(s) \in Nat /\ Len(s) # 0 /\ DOMAIN s = 1 .. Len(s)
      OBVIOUS
    <2>2. \A i \in 1 .. Len(s) : s[i] \in EventSet
      OBVIOUS
    <2>3. N \in Nat /\ N + 1 = Len(s)
      BY <2>1
    <2> QED BY <2>1, <2>2, <2>3 DEF EventSet
  <1>2. b \in RowSet
    BY <1>1, RowTypes
  <1>3. \A i \in 1 .. N : i + 1 \in 1 .. (N + 1)
    BY <1>1
  <1>4. step = [i \in 1 .. N |-> [row \in RowSet |-> Log!apply(row, s[i + 1].kind)]]
    BY DEF ProjectionStep
  <1> HIDE DEF N, step, b
  <1>5. step \in [1 .. N -> [RowSet -> RowSet]]
    BY <1>1, <1>3, <1>4, RowTypes
  <1>6. \A i \in 1 .. N, row \in RowSet : step[i][row] = Log!apply(row, s[i + 1].kind)
    BY <1>4
  <1>7. ASSUME NEW f, Projected(f, s) PROVE Runs(Shifted(f, s), N, RowSet, b, step)
    <2> DEFINE Value(n) == IF n = 1 THEN b ELSE Log!apply(f[n - 1], s[n].kind)
               g == Shifted(f, s)
    <2>1. f = [n \in 1 .. (N + 1) |-> Value(n)]
      BY <1>1, <1>7 DEF Projected, b
    <2>2. \A n \in 0 .. N : g[n] = f[n + 1]
      BY DEF Shifted, N
    <2> HIDE DEF Value, g
    <2>3. \A n \in 1 .. (N + 1) : f[n] = Value(n)
      BY <2>1
    <2>4. g[0] = b
      BY <1>1, <2>2, <2>3 DEF Value
    <2>5. ASSUME NEW i \in 1 .. N PROVE g[i] = Log!apply(g[i - 1], s[i + 1].kind)
      <3>1. /\ i \in 0 .. N /\ i - 1 \in 0 .. N /\ i + 1 \in 1 .. (N + 1) /\ i + 1 # 1
            /\ (i + 1) - 1 = i /\ (i - 1) + 1 = i
        BY <1>1
      <3>2. g[i] = Value(i + 1) /\ g[i - 1] = f[i]
        BY <2>2, <2>3, <3>1
      <3> QED BY <3>1, <3>2 DEF Value
    <2>6. Runs(g, N, RowSet, b, step)
      BY <1>6, <2>4, <2>5 DEF Runs
    <2> QED BY <2>6 DEF g
  <1>8. PICK f \in [0 .. N -> RowSet] : Runs(f, N, RowSet, b, step)
    BY <1>1, <1>2, <1>5, RunExists
  <1> DEFINE h == [n \in 1 .. (N + 1) |-> f[n - 1]]
  <1>9. Projected(h, s)
    <2>1. \A n \in 1 .. (N + 1) : h[n] = f[n - 1]
      OBVIOUS
    <2>2. DOMAIN h = 1 .. (N + 1) /\ h = [n \in 1 .. (N + 1) |-> h[n]]
      OBVIOUS
    <2> HIDE DEF h
    <2>3. \A n \in 1 .. (N + 1) :
            h[n] = IF n = 1 THEN b ELSE Log!apply(h[n - 1], s[n].kind)
      <3> TAKE n \in 1 .. (N + 1)
      <3>1. CASE n = 1
        BY <1>1, <1>8, <2>1, <3>1 DEF Runs
      <3>2. CASE n # 1
        <4>1. /\ n - 1 \in 1 .. N /\ n - 1 \in 1 .. (N + 1) /\ (n - 1) + 1 = n
              /\ (n - 1) - 1 \in 0 .. N
          BY <1>1, <3>2
        <4>2. f[(n - 1) - 1] \in RowSet
          BY <1>8, <4>1
        <4>3. f[n - 1] = Log!apply(f[(n - 1) - 1], s[n].kind)
          BY <1>6, <1>8, <4>1, <4>2 DEF Runs
        <4> QED BY <2>1, <3>2, <4>1, <4>3
      <3> QED BY <3>1, <3>2
    <2> DEFINE Value(n) == IF n = 1 THEN b ELSE Log!apply(h[n - 1], s[n].kind)
    <2>4. \A n \in 1 .. (N + 1) : h[n] = Value(n)
      BY <2>3
    <2> HIDE DEF Value
    <2>5. h = [n \in 1 .. (N + 1) |-> Value(n)]
      BY <2>2, <2>4
    <2> QED BY <1>1, <2>5 DEF Value, Projected, b
  <1>10. Projected(CHOOSE g : Projected(g, s), s)
    BY <1>9
  <1> QED BY <1>1, <1>2, <1>5, <1>7, <1>10 DEF N, step, b

\* Events behind the first are applied to what those before them give.
LEMMA ProjectionGrows ==
    ASSUME NEW s \in Seq(EventSet), s # <<>>, NEW e \in EventSet
    PROVE  /\ Projection(s) \in RowSet
           /\ Projection(Append(s, e)) = Log!apply(Projection(s), e.kind)
  <1> DEFINE t == Append(s, e)
             N == Len(s) - 1
             b == Log!seed(s[1].kind)
             f == CHOOSE f : Projected(f, s)
             g == CHOOSE g : Projected(g, t)
  <1>1. /\ t \in Seq(EventSet) /\ t # <<>> /\ Len(t) = Len(s) + 1 /\ Len(s) \in Nat
        /\ DOMAIN t = 1 .. (Len(s) + 1) /\ t[Len(s) + 1] = e
        /\ \A i \in 1 .. Len(s) : t[i] = s[i]
    BY Appended
  <1> HIDE DEF t
  <1>2. N \in Nat /\ N + 1 = Len(s) /\ Len(t) - 1 = N + 1 /\ b \in RowSet
    <2>1. b \in RowSet /\ N \in Nat
      BY ProjectedRuns
    <2> QED BY <1>1, <2>1
  <1>3. t[1] = s[1]
    BY <1>1, <1>2
  <1>4. Projected(f, s) /\ Projected(g, t)
    BY <1>1, ProjectedRuns
  <1>5. Projection(s) = f[N + 1] /\ Projection(t) = g[N + 2]
    BY <1>1, <1>2 DEF Projection
  <1> HIDE DEF f, g
  <1>6. /\ ProjectionStep(s) \in [1 .. N -> [RowSet -> RowSet]]
        /\ Runs(Shifted(f, s), N, RowSet, b, ProjectionStep(s))
    BY <1>4, ProjectedRuns
  <1>7. Runs(Shifted(g, t), Len(t) - 1, RowSet, Log!seed(t[1].kind), ProjectionStep(t))
    BY <1>1, <1>4, ProjectedRuns
  <1> HIDE DEF N
  <1>8. ASSUME NEW i \in 1 .. N
        PROVE  i \in 1 .. (N + 1) /\ ProjectionStep(t)[i] = ProjectionStep(s)[i]
    <2> DEFINE Step(x) == [row \in RowSet |-> Log!apply(row, x.kind)]
    <2>1. i \in 1 .. (N + 1) /\ i + 1 \in 1 .. Len(s) /\ t[i + 1] = s[i + 1]
      BY <1>1, <1>2
    <2>2. ProjectionStep(t) = [j \in 1 .. (N + 1) |-> Step(t[j + 1])]
      BY <1>2 DEF ProjectionStep
    <2>3. ProjectionStep(s) = [j \in 1 .. N |-> Step(s[j + 1])]
      BY DEF ProjectionStep, N
    <2> HIDE DEF Step
    <2> QED BY <2>1, <2>2, <2>3
  <1>9. Runs(Shifted(g, t), N, RowSet, b, ProjectionStep(s))
    BY <1>2, <1>3, <1>7, <1>8 DEF Runs
  <1>10. Shifted(f, s)[N] = Shifted(g, t)[N] /\ Shifted(f, s)[N] \in RowSet
    BY <1>2, <1>6, <1>9, RunsAgree
  <1>11. Shifted(f, s)[N] = f[N + 1] /\ Shifted(g, t)[N] = g[N + 1]
    <2>1. N \in 0 .. (Len(s) - 1) /\ N \in 0 .. (Len(t) - 1)
      BY <1>2
    <2> QED BY <2>1 DEF Shifted
  <1>12. g[N + 2] = Log!apply(g[N + 1], e.kind)
    <2> DEFINE Value(n) == IF n = 1 THEN Log!seed(t[1].kind) ELSE Log!apply(g[n - 1], t[n].kind)
    <2>1. g = [n \in DOMAIN t |-> Value(n)]
      BY <1>4 DEF Projected
    <2> HIDE DEF Value
    <2>2. N + 2 \in DOMAIN t /\ N + 2 # 1 /\ (N + 2) - 1 = N + 1 /\ t[N + 2] = e
      BY <1>1, <1>2
    <2>3. g[N + 2] = Value(N + 2)
      BY <2>1, <2>2
    <2> QED BY <2>2, <2>3 DEF Value
  <1> QED BY <1>5, <1>10, <1>11, <1>12 DEF t

LEMMA FirstProjection ==
    ASSUME NEW e \in EventSet, NEW t, t = Append(<<>>, e)
    PROVE  Projection(t) = Log!seed(e.kind)
  <1>1. t \in Seq(EventSet) /\ t # <<>> /\ Len(t) = 1 /\ t[1] = e /\ 1 \in DOMAIN t
    OBVIOUS
  <1> DEFINE f == CHOOSE f : Projected(f, t)
             Value(n) == IF n = 1 THEN Log!seed(t[1].kind) ELSE Log!apply(f[n - 1], t[n].kind)
  <1>2. Projected(f, t)
    BY <1>1, ProjectedRuns
  <1>3. Projection(t) = f[1]
    BY <1>1 DEF Projection
  <1> HIDE DEF f
  <1>4. f = [n \in DOMAIN t |-> Value(n)]
    BY <1>2 DEF Projected
  <1> HIDE DEF Value
  <1>5. f[1] = Value(1)
    BY <1>1, <1>4
  <1> QED BY <1>1, <1>3, <1>5 DEF Value

-----------------------------------------------------------------------------
\* All orders' projections.
Grouped(f, s) ==
    f = [n \in 0 .. Len(s) |-> IF n = 0 THEN <<>> ELSE Log!Reduce(f[n - 1], s[n])]
Projections(s) == (CHOOSE f : Grouped(f, s))[Len(s)]
Tables == UNION {[S -> RowSet] : S \in SUBSET Nat}
GroupStep(s) == [i \in 1 .. Len(s) |-> [m \in Tables |-> Log!Reduce(m, s[i])]]

LEMMA ProjectionsAre ==
    Log!reduce_grouped = Projections(log) /\ Log!reduce_grouped' = Projections(log')
  BY DEF Log!reduce_grouped, Grouped, Projections

LEMMA Reduced ==
    ASSUME NEW m \in Tables, NEW e \in EventSet
    PROVE  /\ Log!Reduce(m, e) \in Tables
           /\ DOMAIN Log!Reduce(m, e) = DOMAIN m \cup {e.order}
           /\ \A o \in DOMAIN m \ {e.order} : Log!Reduce(m, e)[o] = m[o]
           /\ Log!Reduce(m, e)[e.order] = IF e.order \in DOMAIN m
                                          THEN Log!apply(m[e.order], e.kind)
                                          ELSE Log!seed(e.kind)
  <1> DEFINE o == e.order
             new == Log!Reduce(m, e)
             row == IF o \in DOMAIN m THEN Log!apply(m[o], e.kind) ELSE Log!seed(e.kind)
  <1>1. PICK S \in SUBSET Nat : m \in [S -> RowSet]
    BY DEF Tables
  <1>2. o \in Nat /\ e.kind \in KindSet /\ DOMAIN m = S
    BY <1>1 DEF EventSet
  <1>3. row \in RowSet
    BY <1>1, <1>2, RowTypes
  <1>4. new = [x \in S \cup {o} |-> IF x = o THEN row ELSE m[x]]
    <2>1. CASE o \in DOMAIN m
      <3>1. new = [m EXCEPT ![o] = row]
        BY <2>1 DEF Log!Reduce
      <3>2. S \cup {o} = S
        BY <1>2, <2>1
      <3> HIDE DEF new, row, o
      <3> QED BY <1>1, <3>1, <3>2
    <2>2. CASE o \notin DOMAIN m
      BY <1>2, <2>2 DEF Log!Reduce
    <2> QED BY <2>1, <2>2
  <1> HIDE DEF new, row
  <1>5. S \cup {o} \in SUBSET Nat
    BY <1>2
  <1> HIDE DEF o
  <1>6. new \in [S \cup {o} -> RowSet]
    BY <1>1, <1>3, <1>4
  <1>7. new \in Tables
    BY <1>5, <1>6 DEF Tables
  <1> QED BY <1>2, <1>4, <1>7 DEF new, row, o

LEMMA GroupedRuns ==
    ASSUME NEW s \in Seq(EventSet)
    PROVE  /\ <<>> \in Tables
           /\ GroupStep(s) \in [1 .. Len(s) -> [Tables -> Tables]]
           /\ \A f : Grouped(f, s) => Runs(f, Len(s), Tables, <<>>, GroupStep(s))
           /\ Grouped(CHOOSE f : Grouped(f, s), s)
  <1> DEFINE N == Len(s)
             step == GroupStep(s)
             Value(f, n) == IF n = 0 THEN <<>> ELSE Log!Reduce(f[n - 1], s[n])
  <1>1. N \in Nat /\ \A i \in 1 .. N : s[i] \in EventSet
    OBVIOUS
  <1>2. <<>> \in Tables
    <2>1. <<>> \in [{} -> RowSet]
      OBVIOUS
    <2>2. {} \in SUBSET Nat
      OBVIOUS
    <2> QED BY <2>1, <2>2 DEF Tables
  <1> HIDE DEF N
  <1>3. step = [i \in 1 .. N |-> [m \in Tables |-> Log!Reduce(m, s[i])]]
    BY DEF GroupStep, N
  <1>4. step \in [1 .. N -> [Tables -> Tables]]
    <2>1. \A i \in 1 .. N, m \in Tables : Log!Reduce(m, s[i]) \in Tables
      BY <1>1, Reduced
    <2> QED BY <1>3, <2>1
  <1>5. \A i \in 1 .. N, m \in Tables : step[i][m] = Log!Reduce(m, s[i])
    BY <1>3
  <1>6. \A f : Grouped(f, s) <=> f = [n \in 0 .. N |-> Value(f, n)]
    BY DEF Grouped, N
  <1> HIDE DEF step, Value
  <1>7. ASSUME NEW f, Grouped(f, s) PROVE Runs(f, N, Tables, <<>>, step)
    <2>1. \A n \in 0 .. N : f[n] = Value(f, n)
      BY <1>6, <1>7
    <2>2. f[0] = <<>> /\ \A i \in 1 .. N : f[i] = Log!Reduce(f[i - 1], s[i])
      BY <1>1, <2>1 DEF Value
    <2> QED BY <1>5, <2>2 DEF Runs
  <1>8. PICK f \in [0 .. N -> Tables] : Runs(f, N, Tables, <<>>, step)
    BY <1>1, <1>2, <1>4, RunExists
  <1>9. Grouped(f, s)
    <2>1. \A i \in 1 .. N : f[i - 1] \in Tables
      BY <1>1, <1>8
    <2>2. \A i \in 1 .. N : f[i] = Log!Reduce(f[i - 1], s[i])
      BY <1>5, <1>8, <2>1 DEF Runs
    <2>3. \A n \in 0 .. N : f[n] = Value(f, n)
      BY <1>1, <1>8, <2>2 DEF Value, Runs
    <2>4. f = [n \in 0 .. N |-> Value(f, n)]
      BY <1>8, <2>3
    <2> QED BY <1>6, <2>4
  <1>10. Grouped(CHOOSE g : Grouped(g, s), s)
    BY <1>9
  <1> QED BY <1>2, <1>4, <1>7, <1>10 DEF N, step

LEMMA ProjectionsGrow ==
    ASSUME NEW s \in Seq(EventSet), NEW e \in EventSet
    PROVE  /\ Projections(s) \in Tables
           /\ Projections(Append(s, e)) = Log!Reduce(Projections(s), e)
  <1> DEFINE t == Append(s, e)
             N == Len(s)
             f == CHOOSE f : Grouped(f, s)
             g == CHOOSE g : Grouped(g, t)
             Value(n) == IF n = 0 THEN <<>> ELSE Log!Reduce(g[n - 1], t[n])
  <1>1. /\ t \in Seq(EventSet) /\ Len(t) = N + 1 /\ N \in Nat /\ t[N + 1] = e
        /\ \A i \in 1 .. N : t[i] = s[i]
    BY Appended
  <1> HIDE DEF t
  <1>2. Grouped(f, s) /\ Grouped(g, t)
    BY <1>1, GroupedRuns
  <1>3. Projections(s) = f[N] /\ Projections(t) = g[N + 1]
    BY <1>1 DEF Projections
  <1> HIDE DEF f, g
  <1>4. /\ GroupStep(s) \in [1 .. N -> [Tables -> Tables]] /\ <<>> \in Tables
        /\ Runs(f, N, Tables, <<>>, GroupStep(s))
    BY <1>2, GroupedRuns
  <1>5. Runs(g, N + 1, Tables, <<>>, GroupStep(t))
    BY <1>1, <1>2, GroupedRuns
  <1>6. ASSUME NEW i \in 1 .. N
        PROVE  i \in 1 .. (N + 1) /\ GroupStep(t)[i] = GroupStep(s)[i]
    <2> DEFINE Step(x) == [m \in Tables |-> Log!Reduce(m, x)]
    <2>1. i \in 1 .. (N + 1) /\ t[i] = s[i]
      BY <1>1
    <2>2. GroupStep(t) = [j \in 1 .. (N + 1) |-> Step(t[j])]
      BY <1>1 DEF GroupStep
    <2>3. GroupStep(s) = [j \in 1 .. N |-> Step(s[j])]
      BY DEF GroupStep
    <2> HIDE DEF Step
    <2> QED BY <2>1, <2>2, <2>3
  <1>7. Runs(g, N, Tables, <<>>, GroupStep(s))
    BY <1>5, <1>6 DEF Runs
  <1> HIDE DEF N
  <1>8. f[N] = g[N] /\ f[N] \in Tables
    <2>1. \A i \in 0 .. N : f[i] = g[i] /\ f[i] \in Tables
      BY <1>1, <1>4, <1>7, RunsAgree
    <2> QED BY <1>1, <2>1
  <1>9. g[N + 1] = Log!Reduce(g[N], e)
    <2>1. g = [n \in 0 .. (N + 1) |-> Value(n)]
      BY <1>1, <1>2 DEF Grouped
    <2> HIDE DEF Value
    <2>2. N + 1 \in 0 .. (N + 1) /\ N + 1 # 0 /\ (N + 1) - 1 = N
      BY <1>1
    <2>3. g[N + 1] = Value(N + 1)
      BY <2>1, <2>2
    <2> QED BY <1>1, <2>2, <2>3 DEF Value
  <1> QED BY <1>3, <1>8, <1>9 DEF t

LEMMA NoProjections == Projections(<<>>) = <<>>
  <1>1. <<>> \in Seq(EventSet) /\ Len(<<>>) = 0
    OBVIOUS
  <1>2. Grouped(CHOOSE f : Grouped(f, <<>>), <<>>)
    BY <1>1, GroupedRuns
  <1>3. Runs(CHOOSE f : Grouped(f, <<>>), 0, Tables, <<>>, GroupStep(<<>>))
    BY <1>1, <1>2, GroupedRuns
  <1> QED BY <1>1, <1>3 DEF Projections, Runs

-----------------------------------------------------------------------------
\* What holds of every log whose orders begin with a created event.
OrdersIn(s) == {s[i].order : i \in DOMAIN s}
StateOf(s, o) ==
    IF EventsOf(s, o) = <<>> THEN "not_found" ELSE Log!SomeState(Projection(EventsOf(s, o)))

LogKept(s) ==
    /\ s \in Seq(EventSet)
    /\ \A o : EventsOf(s, o) # <<>> <=> o \in OrdersIn(s)
    /\ OrdersIn(s) # {} => \E o \in OrdersIn(s) : \A p \in OrdersIn(s) : p <= o
    /\ DOMAIN Projections(s) = OrdersIn(s)
    /\ \A o \in OrdersIn(s) : Projections(s)[o] = Projection(EventsOf(s, o))
    /\ \A o \in OrdersIn(s) : EventsOf(s, o)[1].kind = "created"

LEMMA NoLogKept == LogKept(<<>>)
  <1>1. <<>> \in Seq(EventSet) /\ DOMAIN <<>> = {}
    OBVIOUS
  <1>2. OrdersIn(<<>>) = {}
    BY <1>1 DEF OrdersIn
  <1> QED BY <1>1, <1>2, NoEvents, NoProjections DEF LogKept

LEMMA LogGrows ==
    ASSUME NEW s, LogKept(s), NEW e \in EventSet,
           e.order \notin OrdersIn(s) => e.kind = "created"
    PROVE  LogKept(Append(s, e)) /\ OrdersIn(Append(s, e)) = OrdersIn(s) \cup {e.order}
  <1> DEFINE t == Append(s, e)
             o == e.order
  <1>1. s \in Seq(EventSet)
    BY DEF LogKept
  <1>2. /\ t \in Seq(EventSet) /\ Len(s) \in Nat /\ DOMAIN s = 1 .. Len(s)
        /\ DOMAIN t = 1 .. (Len(s) + 1) /\ t[Len(s) + 1] = e
        /\ \A i \in 1 .. Len(s) : t[i] = s[i]
    BY <1>1, Appended
  <1>3. /\ \A x : EventsOf(s, x) \in Seq(EventSet)
        /\ \A x : EventsOf(t, x) = IF o = x THEN Append(EventsOf(s, x), e) ELSE EventsOf(s, x)
        /\ Projections(s) \in Tables /\ Projections(t) = Log!Reduce(Projections(s), e)
    BY <1>1, EventsOfGrows, ProjectionsGrow
  <1> HIDE DEF t
  <1>4. OrdersIn(t) = OrdersIn(s) \cup {o}
    <2>1. \A i : i \in DOMAIN t <=> i \in DOMAIN s \/ i = Len(s) + 1
      BY <1>2
    <2> QED BY <1>2, <2>1 DEF OrdersIn
  <1>5. o \in Nat /\ e.kind \in KindSet /\ OrdersIn(s) \subseteq Nat
    <2>1. o \in Nat /\ e.kind \in KindSet
      BY DEF EventSet
    <2>2. \A i \in DOMAIN s : s[i] \in EventSet
      BY <1>1
    <2>3. \A i \in DOMAIN s : s[i].order \in Nat
      BY <2>2 DEF EventSet
    <2> QED BY <2>1, <2>3 DEF OrdersIn
  <1> HIDE DEF o
  <1>6. \A x : EventsOf(t, x) # <<>> <=> x \in OrdersIn(t)
    <2>1. Append(EventsOf(s, o), e) # <<>>
      BY <1>3
    <2> QED BY <1>3, <1>4, <2>1 DEF LogKept
  <1>7. \E x \in OrdersIn(t) : \A y \in OrdersIn(t) : y <= x
    <2>1. CASE OrdersIn(s) = {}
      BY <1>4, <1>5, <2>1
    <2>2. CASE OrdersIn(s) # {}
      <3>1. PICK x \in OrdersIn(s) : \A y \in OrdersIn(s) : y <= x
        BY <2>2 DEF LogKept
      <3>2. CASE o <= x
        BY <1>4, <3>1, <3>2
      <3>3. CASE ~(o <= x)
        <4>1. \A y \in OrdersIn(t) : y <= o
          BY <1>4, <1>5, <3>1, <3>3
        <4> QED BY <1>4, <4>1
      <3> QED BY <3>2, <3>3
    <2> QED BY <2>1, <2>2
  <1>8. /\ DOMAIN Projections(t) = OrdersIn(t)
        /\ \A x \in OrdersIn(s) \ {o} : Projections(t)[x] = Projections(s)[x]
        /\ Projections(t)[o] = IF o \in OrdersIn(s)
                               THEN Log!apply(Projections(s)[o], e.kind) ELSE Log!seed(e.kind)
    <2>1. DOMAIN Projections(s) = OrdersIn(s)
      BY DEF LogKept
    <2> DEFINE m == Projections(s)
    <2>2. m \in Tables /\ Projections(t) = Log!Reduce(m, e)
      BY <1>3
    <2> HIDE DEF m
    <2>3. /\ DOMAIN Log!Reduce(m, e) = DOMAIN m \cup {e.order}
          /\ \A x \in DOMAIN m \ {e.order} : Log!Reduce(m, e)[x] = m[x]
          /\ Log!Reduce(m, e)[e.order] = IF e.order \in DOMAIN m
                                         THEN Log!apply(m[e.order], e.kind)
                                         ELSE Log!seed(e.kind)
      BY <2>2, Reduced
    <2> QED BY <1>4, <2>1, <2>2, <2>3 DEF o, m
  <1>9. CASE o \in OrdersIn(s)
    <2>1. EventsOf(s, o) # <<>> /\ EventsOf(s, o) \in Seq(EventSet)
      BY <1>3, <1>9 DEF LogKept
    <2>2. Projection(EventsOf(t, o)) = Log!apply(Projection(EventsOf(s, o)), e.kind)
      BY <1>3, <2>1, ProjectionGrows
    <2>3. Projections(t)[o] = Projection(EventsOf(t, o))
      BY <1>8, <1>9, <2>2 DEF LogKept
    <2>4. EventsOf(t, o)[1] = EventsOf(s, o)[1]
      BY <1>3, <2>1
    <2>5. \A x \in OrdersIn(t) : Projections(t)[x] = Projection(EventsOf(t, x))
      BY <1>3, <1>4, <1>8, <2>3 DEF LogKept
    <2>6. \A x \in OrdersIn(t) : EventsOf(t, x)[1].kind = "created"
      BY <1>3, <1>4, <1>9, <2>4 DEF LogKept
    <2> QED BY <1>2, <1>4, <1>6, <1>7, <1>8, <2>5, <2>6 DEF LogKept, t, o
  <1>10. CASE o \notin OrdersIn(s)
    <2>1. EventsOf(s, o) = <<>> /\ e.kind = "created"
      BY <1>10 DEF LogKept, o
    <2>2. EventsOf(t, o) = Append(<<>>, e)
      BY <1>3, <2>1
    <2>3. Projection(EventsOf(t, o)) = Log!seed(e.kind)
      BY <2>2, FirstProjection
    <2>4. EventsOf(t, o)[1] = e
      BY <2>2
    <2>5. \A x \in OrdersIn(t) : Projections(t)[x] = Projection(EventsOf(t, x))
      BY <1>3, <1>4, <1>8, <1>10, <2>3 DEF LogKept
    <2>6. \A x \in OrdersIn(t) : EventsOf(t, x)[1].kind = "created"
      BY <1>3, <1>4, <2>1, <2>4 DEF LogKept
    <2> QED BY <1>2, <1>4, <1>6, <1>7, <1>8, <2>5, <2>6 DEF LogKept, t, o
  <1> QED BY <1>9, <1>10

-----------------------------------------------------------------------------
\* What a caller is about to append, and what it has seen of the order.
Calls == [at : {"idle", "append"}, order : Nat, event : KindSet \cup {"none"}, seen : Nat]

Follows(state, kind) ==
    \E op \in DOMAIN Log!Operation :
      state = Log!Operation[op][1] /\ kind = Log!Operation[op][2]

CallKept(call, s) ==
    call.at = "append" =>
      /\ call.event \in KindSet
      /\ call.event # "created" => call.order \in OrdersIn(s)
      /\ call.seen <= Len(EventsOf(s, call.order))
      /\ call.seen = Len(EventsOf(s, call.order)) =>
           IF call.event = "created" THEN call.seen = 0
           ELSE Follows(StateOf(s, call.order), call.event)

\* The order has had its first stages, each once, and loads as the last of them.
Straight(s, o) ==
    /\ Len(EventsOf(s, o)) \in 1 .. 5
    /\ \A i \in 1 .. Len(EventsOf(s, o)) : EventsOf(s, o)[i].kind = Log!Kinds[i]
    /\ StateOf(s, o) = Log!Kinds[Len(EventsOf(s, o))]

OrdersInv ==
    /\ LogKept(log)
    /\ calls \in [Callers -> Calls]
    /\ \A p \in Callers : CallKept(calls[p], log)
    /\ \A o \in OrdersIn(log) \ overlapped : Straight(log, o)

LEMMA ReadingTheLog ==
    /\ Log!Orders = OrdersIn(log)
    /\ \A o : Log!load_state(o) = StateOf(log, o)
  BY EventsAre, ProjectionIs DEF Log!Orders, OrdersIn, Log!load_state, StateOf

\* What a transition appends leads from the state it requires to the next.
LEMMA TransitionsLead ==
    ASSUME NEW row \in RowSet, NEW kind, Follows(Log!SomeState(row), kind)
    PROVE  /\ kind \in KindSet \ {"created"}
           /\ Log!SomeState(Log!apply(row, kind)) = kind
           /\ \A k \in 1 .. 5 : Log!SomeState(row) = Log!Kinds[k] =>
                k + 1 \in 1 .. 5 /\ kind = Log!Kinds[k + 1]
  <1> DEFINE state == Log!SomeState(row)
  <1> USE DEF Log!SomeState, Log!is_created, Log!is_paid, Log!is_packed, Log!is_shipped,
              Log!is_delivered, Log!Fulfilled
  <1>1. \/ state = "created" /\ kind = "paid"
        \/ state = "paid" /\ kind = "packed"
        \/ state = "packed" /\ kind = "shipped"
        \/ state = "shipped" /\ kind = "delivered"
    <2>1. PICK op \in DOMAIN Log!Operation :
            state = Log!Operation[op][1] /\ kind = Log!Operation[op][2]
      BY DEF Follows
    <2>2. op \in {"pay", "pack", "ship", "deliver"}
      BY DEF Log!Operation
    <2> HIDE DEF state
    <2>3. /\ Log!Operation["pay"] = <<"created", "paid">>
          /\ Log!Operation["pack"] = <<"paid", "packed">>
          /\ Log!Operation["ship"] = <<"packed", "shipped">>
          /\ Log!Operation["deliver"] = <<"shipped", "delivered">>
      BY DEF Log!Operation
    <2> QED BY <2>1, <2>2, <2>3
  <1>2. kind \in KindSet \ {"created"}
    BY <1>1 DEF KindSet
  <1>3. /\ row = [status |-> row.status, documents |-> row.documents]
        /\ row.documents \in SUBSET {"payment_receipt", "pick_ticket", "tracking_number"}
    BY DEF RowSet
  <1>4. state # "corrupt" /\ row # Log!Corrupt /\ state = row.status
    BY <1>1, <1>3 DEF Log!Corrupt
  <1>5. Log!apply(row, kind) = [status |-> kind, documents |-> row.documents \cup Log!Document[kind]]
    BY <1>2, <1>4 DEF Log!apply
  <1>6. /\ Log!Document["paid"] = {"payment_receipt"} /\ Log!Document["packed"] = {"pick_ticket"}
        /\ Log!Document["shipped"] = {"tracking_number"} /\ Log!Document["delivered"] = {}
    BY DEF Log!Document
  <1>7. Log!SomeState(Log!apply(row, kind)) = kind
    <2>1. CASE state = "created" /\ kind = "paid"
      <3>1. row.documents = {}
        BY <2>1, <1>4
      <3> QED BY <2>1, <3>1, <1>5, <1>6
    <2>2. CASE state = "paid" /\ kind = "packed"
      <3>1. row.documents = {"payment_receipt"}
        BY <2>2, <1>4
      <3> QED BY <2>2, <3>1, <1>5, <1>6
    <2>3. CASE state = "packed" /\ kind = "shipped"
      <3>1. row.documents = {"payment_receipt", "pick_ticket"}
        BY <2>3, <1>4
      <3> QED BY <2>3, <3>1, <1>5, <1>6
    <2>4. CASE state = "shipped" /\ kind = "delivered"
      <3>1. row.documents = {"payment_receipt", "pick_ticket", "tracking_number"}
        BY <2>4, <1>4
      <3> QED BY <2>4, <3>1, <1>5, <1>6
    <2> QED BY <1>1, <2>1, <2>2, <2>3, <2>4
  <1>8. /\ Log!Kinds[1] = "created" /\ Log!Kinds[2] = "paid" /\ Log!Kinds[3] = "packed"
        /\ Log!Kinds[4] = "shipped" /\ Log!Kinds[5] = "delivered"
    BY DEF Log!Kinds
  <1> HIDE DEF state
  <1>9. ASSUME NEW k \in 1 .. 5, state = Log!Kinds[k]
        PROVE  k + 1 \in 1 .. 5 /\ kind = Log!Kinds[k + 1]
    <2>1. k \in {1, 2, 3, 4, 5}
      OBVIOUS
    <2> QED BY <1>1, <1>8, <1>9, <2>1
  <1> QED BY <1>2, <1>7, <1>9 DEF state

\* A call keeps what it rests on, whoever appends what.
LEMMA CallSurvives ==
    ASSUME NEW s, LogKept(s), NEW e \in EventSet, OrdersIn(Append(s, e)) = OrdersIn(s) \cup {e.order},
           NEW call \in Calls, CallKept(call, s)
    PROVE  CallKept(call, Append(s, e))
  <1> DEFINE t == Append(s, e)
             o == call.order
  <1>1. /\ EventsOf(s, o) \in Seq(EventSet)
        /\ EventsOf(t, o) = IF e.order = o THEN Append(EventsOf(s, o), e) ELSE EventsOf(s, o)
    <2>1. s \in Seq(EventSet)
      BY DEF LogKept
    <2> HIDE DEF o
    <2> QED BY <2>1, EventsOfGrows
  <1> HIDE DEF t
  <1>2. Len(EventsOf(s, o)) \in Nat /\ call.seen \in Nat
    BY <1>1 DEF Calls
  <1>3. CASE e.order # o
    BY <1>1, <1>3 DEF CallKept, StateOf, t
  <1>4. CASE e.order = o
    <2>1. Len(EventsOf(t, o)) = Len(EventsOf(s, o)) + 1
      BY <1>1, <1>4
    <2> QED BY <1>2, <2>1 DEF CallKept, t
  <1> QED BY <1>3, <1>4

\* An order that its last event followed stays straight.
LEMMA StraightGrows ==
    ASSUME NEW s, LogKept(s), NEW e \in EventSet, NEW o, e.order = o,
           \/ o \notin OrdersIn(s) /\ e.kind = "created"
           \/ o \in OrdersIn(s) /\ Straight(s, o) /\ Follows(StateOf(s, o), e.kind)
    PROVE  Straight(Append(s, e), o)
  <1> DEFINE t == Append(s, e)
             before == EventsOf(s, o)
             after == EventsOf(t, o)
             n == Len(before)
  <1>1. before \in Seq(EventSet) /\ after = Append(before, e)
    BY EventsOfGrows DEF LogKept
  <1> HIDE DEF t, before, after, n
  <1>2. /\ after \in Seq(EventSet) /\ Len(after) = n + 1 /\ n \in Nat /\ after # <<>>
        /\ after[n + 1] = e /\ \A i \in 1 .. n : after[i] = before[i]
    BY <1>1, Appended DEF n
  <1>3. StateOf(t, o) = Log!SomeState(Projection(after))
    BY <1>2 DEF StateOf, after
  <1>4. CASE o \notin OrdersIn(s) /\ e.kind = "created"
    <2>1. before = <<>> /\ n = 0
      BY <1>4 DEF LogKept, before, n
    <2>2. Projection(after) = Log!seed("created")
      BY <1>1, <1>4, <2>1, FirstProjection
    <2>3. StateOf(t, o) = "created"
      BY <1>3, <2>2 DEF Log!seed, Log!SomeState, Log!is_created
    <2>4. Log!Kinds[1] = "created"
      BY DEF Log!Kinds
    <2> QED BY <1>2, <1>4, <2>1, <2>3, <2>4 DEF Straight, after, t
  <1>5. CASE o \in OrdersIn(s) /\ Straight(s, o) /\ Follows(StateOf(s, o), e.kind)
    <2>1. before # <<>>
      BY <1>5 DEF LogKept, before
    <2>2. /\ Projection(before) \in RowSet
          /\ Projection(after) = Log!apply(Projection(before), e.kind)
      BY <1>1, <2>1, ProjectionGrows
    <2>3. /\ StateOf(s, o) = Log!SomeState(Projection(before))
          /\ Log!SomeState(Projection(before)) = Log!Kinds[n] /\ n \in 1 .. 5
          /\ \A i \in 1 .. n : before[i].kind = Log!Kinds[i]
      BY <1>5, <2>1 DEF StateOf, Straight, before, n
    <2>4. /\ Log!SomeState(Projection(after)) = e.kind
          /\ n + 1 \in 1 .. 5 /\ e.kind = Log!Kinds[n + 1]
      BY <1>5, <2>2, <2>3, TransitionsLead
    <2>5. \A i \in 1 .. (n + 1) : after[i].kind = Log!Kinds[i]
      BY <1>2, <2>3, <2>4
    <2> QED BY <1>2, <1>3, <2>4, <2>5 DEF Straight, after, t
  <1> QED BY <1>4, <1>5

LEMMA OrdersStep ==
    ASSUME OrdersInv, Log!Next
    PROVE  OrdersInv'
  <1> USE DEF Log!Idle
  <1>1. PICK p \in Callers :
          Log!create_order(p) \/ Log!Advance(p) \/ Log!append_event(p) \/ Log!Drop(p)
    BY DEF Log!Next
  <1>2. /\ LogKept(log) /\ calls \in [Callers -> Calls] /\ log \in Seq(EventSet)
        /\ \A q \in Callers : CallKept(calls[q], log)
    BY DEF OrdersInv, LogKept
  <1>3. \A o : EventsOf(log, o) \in Seq(EventSet) /\ Len(EventsOf(log, o)) \in Nat
    <2>1. \A o : EventsOf(log, o) \in Seq(EventSet)
      <3>1. [order |-> 0, kind |-> "created"] \in EventSet
        BY DEF EventSet, KindSet
      <3> QED BY <1>2, <3>1, EventsOfGrows
    <2> QED BY <2>1
  <1>4. ASSUME UNCHANGED <<log, overlapped>>, NEW call \in Calls, CallKept(call, log),
               calls' = [calls EXCEPT ![p] = call]
        PROVE  OrdersInv'
    BY <1>2, <1>4 DEF OrdersInv
  <1>5. ASSUME NEW o \in Nat, NEW event \in KindSet, Log!Decide(p, o, event),
               UNCHANGED <<log, overlapped>>,
               \/ event = "created" /\ o \notin OrdersIn(log)
               \/ event # "created" /\ o \in OrdersIn(log) /\ Follows(StateOf(log, o), event)
        PROVE  OrdersInv'
    <2> DEFINE call == [at |-> "append", order |-> o, event |-> event,
                        seen |-> Len(EventsOf(log, o))]
    <2>1. calls' = [calls EXCEPT ![p] = call]
      BY <1>5, EventsAre DEF Log!Decide
    <2>2. call \in Calls
      BY <1>3 DEF Calls
    <2>3. event = "created" => Len(EventsOf(log, o)) = 0
      BY <1>2, <1>5 DEF LogKept
    <2>4. CallKept(call, log)
      BY <1>3, <1>5, <2>3 DEF CallKept
    <2> HIDE DEF call
    <2> QED BY <1>4, <1>5, <2>1, <2>2, <2>4
  <1>6. OrdersIn(log) \subseteq Nat
    <2>1. \A i \in DOMAIN log : log[i] \in EventSet
      BY <1>2
    <2> QED BY <2>1 DEF EventSet, OrdersIn
  <1>7. CASE Log!create_order(p)
    <2>1. Log!next_order_id \in Nat /\ Log!next_order_id \notin OrdersIn(log)
      <3>1. CASE OrdersIn(log) = {}
        BY <3>1, ReadingTheLog DEF Log!next_order_id
      <3>2. CASE OrdersIn(log) # {}
        <4> DEFINE m == CHOOSE o \in OrdersIn(log) : \A q \in OrdersIn(log) : q <= o
        <4>1. m \in OrdersIn(log) /\ \A q \in OrdersIn(log) : q <= m
          BY <1>2, <3>2 DEF LogKept
        <4>2. Log!next_order_id = m + 1
          BY <3>2, ReadingTheLog DEF Log!next_order_id
        <4> HIDE DEF m
        <4> QED BY <1>6, <4>1, <4>2
      <3> QED BY <3>1, <3>2
    <2>2. Log!Decide(p, Log!next_order_id, "created") /\ UNCHANGED <<log, overlapped>>
      BY <1>7 DEF Log!create_order
    <2> QED BY <1>5, <2>1, <2>2 DEF KindSet
  <1>8. CASE Log!Advance(p)
    <2>1. PICK o \in OrdersIn(log), op \in DOMAIN Log!Operation :
            /\ StateOf(log, o) = Log!Operation[op][1]
            /\ Log!Decide(p, o, Log!Operation[op][2])
      BY <1>8, ReadingTheLog DEF Log!Advance
    <2>2. Follows(StateOf(log, o), Log!Operation[op][2])
      BY <2>1 DEF Follows
    <2>3. Log!Operation[op][2] \in KindSet \ {"created"}
      <3>1. op \in {"pay", "pack", "ship", "deliver"}
        BY DEF Log!Operation
      <3>2. /\ Log!Operation["pay"] = <<"created", "paid">>
            /\ Log!Operation["pack"] = <<"paid", "packed">>
            /\ Log!Operation["ship"] = <<"packed", "shipped">>
            /\ Log!Operation["deliver"] = <<"shipped", "delivered">>
        BY DEF Log!Operation
      <3> QED BY <3>1, <3>2 DEF KindSet
    <2>4. UNCHANGED <<log, overlapped>>
      BY <1>8 DEF Log!Advance
    <2> QED BY <1>5, <1>6, <2>1, <2>2, <2>3, <2>4
  <1>9. CASE Log!append_event(p)
    <2> DEFINE o == calls[p].order
               e == [order |-> o, kind |-> calls[p].event]
               call == [at |-> "idle", order |-> 0, event |-> "none", seen |-> 0]
    <2>1. /\ calls[p].at = "append" /\ log' = Append(log, e)
          /\ overlapped' = IF Len(EventsOf(log, o)) = calls[p].seen
                           THEN overlapped ELSE overlapped \cup {o}
          /\ calls' = [calls EXCEPT ![p] = call]
      BY <1>9, EventsAre DEF Log!append_event
    <2>2. calls[p] \in Calls /\ CallKept(calls[p], log)
      BY <1>2
    <2>3. calls[p].event \in KindSet /\ o \in Nat
      BY <2>1, <2>2 DEF CallKept, Calls
    <2>4. e \in EventSet /\ e.order = o /\ e.kind = calls[p].event
      BY <2>3 DEF EventSet
    <2>5. call \in Calls /\ call.at = "idle"
      BY DEF Calls
    <2>6. o \notin OrdersIn(log) => e.kind = "created"
      BY <2>1, <2>2, <2>4 DEF CallKept
    <2> HIDE DEF e, call
    <2>7. LogKept(log') /\ OrdersIn(log') = OrdersIn(log) \cup {o}
      BY <1>2, <2>1, <2>4, <2>6, LogGrows
    <2>8. \A q \in Callers : calls'[q] \in Calls /\ CallKept(calls'[q], log')
      <3> TAKE q \in Callers
      <3>1. CASE q = p
        BY <1>2, <2>1, <2>5, <3>1 DEF CallKept
      <3>2. CASE q # p
        <4>1. calls'[q] = calls[q] /\ calls[q] \in Calls /\ CallKept(calls[q], log)
          BY <1>2, <2>1, <3>2
        <4> QED BY <1>2, <2>1, <2>4, <2>7, <4>1, CallSurvives
      <3> QED BY <3>1, <3>2
    <2>9. calls' \in [Callers -> Calls]
      BY <1>2, <2>1, <2>5
    <2>10. ASSUME NEW x \in OrdersIn(log') \ overlapped' PROVE Straight(log', x)
      <3>1. CASE x # o
        <4>1. x \in OrdersIn(log) \ overlapped
          BY <2>1, <2>7, <2>10, <3>1
        <4>2. EventsOf(log', x) = EventsOf(log, x)
          BY <1>2, <2>1, <2>4, <3>1, EventsOfGrows
        <4>3. Straight(log, x)
          BY <4>1 DEF OrdersInv
        <4> QED BY <4>2, <4>3 DEF Straight, StateOf
      <3>2. CASE x = o
        <4>1. Len(EventsOf(log, o)) = calls[p].seen /\ o \notin overlapped
          BY <2>1, <2>10, <3>2
        <4>2. IF e.kind = "created" THEN calls[p].seen = 0
              ELSE Follows(StateOf(log, o), e.kind)
          BY <2>1, <2>2, <2>4, <4>1 DEF CallKept
        <4>3. CASE o \in OrdersIn(log)
          <5>1. EventsOf(log, o) # <<>> /\ Len(EventsOf(log, o)) # 0
            BY <1>2, <1>3, <4>3 DEF LogKept
          <5>2. Straight(log, o)
            BY <4>1, <4>3 DEF OrdersInv
          <5> QED BY <1>2, <2>1, <2>4, <3>2, <4>1, <4>2, <4>3, <5>1, <5>2, StraightGrows
        <4>4. CASE o \notin OrdersIn(log)
          BY <1>2, <2>1, <2>4, <2>6, <3>2, <4>4, StraightGrows
        <4> QED BY <4>3, <4>4
      <3> QED BY <3>1, <3>2
    <2> QED BY <2>7, <2>8, <2>9, <2>10 DEF OrdersInv
  <1>10. CASE Log!Drop(p)
    <2> DEFINE call == [at |-> "idle", order |-> 0, event |-> "none", seen |-> 0]
    <2>1. call \in Calls /\ CallKept(call, log)
      BY DEF Calls, CallKept
    <2>2. calls' = [calls EXCEPT ![p] = call] /\ UNCHANGED <<log, overlapped>>
      BY <1>10 DEF Log!Drop
    <2> HIDE DEF call
    <2> QED BY <1>4, <2>1, <2>2
  <1> QED BY <1>1, <1>7, <1>8, <1>9, <1>10

\* The alternative of the instance that is the event log.
LogInv == app = "orders" => OrdersInv

LEMMA InitLogInv == Init => LogInv
  <1> SUFFICES ASSUME Init, app = "orders" PROVE OrdersInv
    BY DEF LogInv
  <1>1. Log!Init
    BY DEF Init
  <1>2. LogKept(log)
    BY <1>1, NoLogKept DEF Log!Init
  <1>3. calls \in [Callers -> Calls] /\ \A p \in Callers : CallKept(calls[p], log)
    BY <1>1 DEF Log!Init, Log!Idle, Calls, CallKept
  <1>4. OrdersIn(log) = {}
    BY <1>1 DEF Log!Init, OrdersIn
  <1> QED BY <1>2, <1>3, <1>4 DEF OrdersInv

LEMMA LogInvStep == LogInv /\ [Next]_vars => LogInv'
  <1> SUFFICES ASSUME LogInv, [Next]_vars, app' = "orders" PROVE OrdersInv'
    BY DEF LogInv
  <1>1. app = "orders" /\ OrdersInv
    BY DEF LogInv, Next, vars
  <1>2. CASE Log!Next
    BY <1>1, <1>2, OrdersStep
  <1>3. CASE UNCHANGED vars
    BY <1>1, <1>3 DEF OrdersInv, vars
  <1> QED BY <1>1, <1>2, <1>3 DEF Next

\* The invariant of the event log, for any number of callers and events: what the
\* log says of each order, and what a call that has read it rests on
\* (sqlite_event_log_rebuild.rs:349-510).
THEOREM LogInvariance == Spec => []LogInv
  BY InitLogInv, LogInvStep, PTL DEF Spec

\* An order on which no two calls overlapped has had its first stages, each once,
\* and loads as the last of them, however many events there are
\* (sqlite_event_log_rebuild.rs:349-451).
THEOREM OnlyOverlapsCorruptHolds == Spec => []OnlyOverlapsCorrupt
  <1>1. LogInv => OnlyOverlapsCorrupt
    <2> SUFFICES ASSUME OrdersInv, NEW o \in OrdersIn(log) \ overlapped
        PROVE  /\ Log!KindsOf(o) = SubSeq(Log!Kinds, 1, Len(Log!KindsOf(o)))
               /\ Log!load_state(o) = Log!KindsOf(o)[Len(Log!KindsOf(o))]
      BY ReadingTheLog DEF LogInv, OnlyOverlapsCorrupt, Log!OnlyOverlapsCorrupt
    <2> DEFINE events == EventsOf(log, o)
               n == Len(events)
               kinds == [i \in DOMAIN events |-> events[i].kind]
    <2>1. Straight(log, o)
      BY DEF OrdersInv
    <2>2. n \in 1 .. 5 /\ \A i \in 1 .. n : events[i].kind = Log!Kinds[i]
      BY <2>1 DEF Straight
    <2>3. events \in Seq(EventSet)
      <3>1. [order |-> 0, kind |-> "created"] \in EventSet
        BY DEF EventSet, KindSet
      <3> QED BY <3>1, EventsOfGrows DEF OrdersInv, LogKept
    <2>4. DOMAIN events = 1 .. n
      BY <2>3
    <2>5. Log!KindsOf(o) = kinds /\ StateOf(log, o) = Log!Kinds[n]
      BY <2>1, EventsAre DEF Log!KindsOf, Straight
    <2> HIDE DEF events, n
    <2>6. /\ kinds = [i \in 1 .. n |-> Log!Kinds[i]] /\ Len(kinds) = n
      BY <2>2, <2>4
    <2>7. Log!Kinds \in Seq(KindSet) /\ Len(Log!Kinds) = 5
      BY DEF Log!Kinds, KindSet
    <2>8. SubSeq(Log!Kinds, 1, n) = [i \in 1 .. n |-> Log!Kinds[i]]
      BY <2>2, <2>7
    <2> HIDE DEF kinds
    <2>9. kinds[n] = Log!Kinds[n]
      BY <2>2, <2>6
    <2> QED BY <2>5, <2>6, <2>8, <2>9, ReadingTheLog
  <1> QED BY <1>1, LogInvariance, PTL

\* Whatever overlaps, loading all orders in one pass yields for each what loading it
\* alone yields, fails when one does, and meets no order without its created event
\* (sqlite_event_log_rebuild.rs:453-462, 512-524).
THEOREM BatchAgreesWithSinglesHolds == Spec => []BatchAgreesWithSingles
  <1>1. LogInv => BatchAgreesWithSingles
    <2> SUFFICES ASSUME OrdersInv PROVE Log!BatchAgreesWithSingles
      BY DEF LogInv, BatchAgreesWithSingles
    <2> DEFINE states == [o \in DOMAIN Log!reduce_grouped |-> Log!SomeState(Log!reduce_grouped[o])]
               O == OrdersIn(log)
    <2>1. LogKept(log)
      BY DEF OrdersInv
    <2>2. /\ DOMAIN Log!reduce_grouped = O
          /\ \A o \in O : Log!reduce_grouped[o] = Projection(EventsOf(log, o))
      BY <2>1, ProjectionsAre DEF LogKept
    <2>3. \A o \in O : Log!load_state(o) = Log!SomeState(Projection(EventsOf(log, o)))
      BY <2>1, ReadingTheLog DEF LogKept, StateOf
    <2>4. \A o \in O : Log!events_for(o)[1].kind = "created"
      BY <2>1, EventsAre DEF LogKept
    <2>5. states = [o \in O |-> Log!load_state(o)]
      BY <2>2, <2>3
    <2>6. Log!load_all_states = IF \E o \in DOMAIN states : states[o] = "corrupt"
                                THEN [ok |-> FALSE, states |-> <<>>]
                                ELSE [ok |-> TRUE, states |-> states]
      BY DEF Log!load_all_states
    <2> HIDE DEF states, O
    <2>7. /\ DOMAIN states = O /\ \A o \in O : states[o] = Log!load_state(o)
      BY <2>5
    <2>8. Log!load_all_states.ok = (\A o \in O : Log!load_state(o) # "corrupt")
      BY <2>6, <2>7
    <2>9. Log!load_all_states.ok => Log!load_all_states.states = states
      BY <2>6
    <2>10. O = Log!Orders
      BY ReadingTheLog DEF O
    <2> QED BY <2>4, <2>5, <2>8, <2>9, <2>10 DEF Log!BatchAgreesWithSingles
  <1> QED BY <1>1, LogInvariance, PTL
=============================================================================
