----------------------------- MODULE TokioProofs -----------------------------
(***************************************************************************)
(* Proofs about the two programs that run on tokio.  The job runner, for   *)
(* any number of jobs, budgets, delays and abandoned calls: the rows carry *)
(* the argument, RowKept says what a row of each status looks like,        *)
(* HolderKept who may change it next.  The websocket session follows.      *)
(***************************************************************************)
EXTENDS MCTokio, SequenceTheorems, WellFoundedInduction, TLAPS

\* A row of each status, with the attempt its payload allows there.
RowKept(row) ==
    /\ row.max_attempts > 0 /\ row.attempts <= row.max_attempts
    /\ row.status = "queued" => is_queued(row)
    /\ row.status = "running" => is_running(row) /\ (row.payload = "other" => row.attempts = 1)
    /\ row.status = "retrying" =>
         /\ row.attempts > 0
         /\ row.lease_token = 0 /\ row.last_error /\ ~row.result_text
         /\ \/ row.payload = "flaky" /\ row.attempts = 1
            \/ row.payload = "always-fail" /\ row.attempts < row.max_attempts
    /\ row.status = "succeeded" => is_succeeded(row)
    /\ row.status = "failed" =>
         /\ row.attempts > 0 /\ row.available_at_ms = 0
         /\ row.lease_token = 0 /\ row.last_error /\ ~row.result_text
         /\ \/ row.payload = "always-fail" /\ row.attempts = row.max_attempts
            \/ row.payload = "other" /\ row.attempts = 1

RowsKept == \A i \in DOMAIN jobs : RowKept(jobs[i])

\* A call that has its machine and not yet written it holds the newest lease,
\* which no row shows, for a row that is still to be started.
HolderKept ==
    /\ pc \in {"start", "process"} => machine.id \in DOMAIN jobs
    /\ pc = "start" =>
         /\ is_queued(jobs[machine.id]) \/ is_retrying(jobs[machine.id])
         /\ machine.attempts = jobs[machine.id].attempts + 1
         /\ machine.lease_token = lease_sequence
         /\ \A i \in DOMAIN jobs : jobs[i].lease_token < machine.lease_token
    /\ pc = "process" => machine.id \notin abandoned

\* Before the clock is moved nothing can be run.
NothingToRun == pc = "retry_at" => \A i \in DOMAIN jobs : ~Runnable(i)

IInv == TypeOK /\ RowsKept /\ HolderKept /\ LeasesHaveOneHolder /\ NothingToRun

-----------------------------------------------------------------------------
\* What the columns of the table hold.
LEMMA Columns ==
    ASSUME TypeOK, NEW i \in DOMAIN jobs
    PROVE  /\ jobs[i] \in JobRow /\ jobs[i].payload \in Payloads /\ jobs[i].status \in Statuses
           /\ jobs[i].attempts \in Nat /\ jobs[i].max_attempts \in Int
           /\ jobs[i].available_at_ms \in Int /\ jobs[i].lease_token \in Nat
  <1>1. jobs[i] \in JobRow
    BY DEF TypeOK
  <1>2. QED
    BY <1>1 DEF JobRow

\* The one row an update is about takes the columns it names, and keeps its
\* payload and its budget; the others are as they were.
LEMMA UpdateOne ==
    ASSUME TypeOK, machine.id \in DOMAIN jobs,
           NEW status \in Statuses, NEW available_at \in Int, NEW lease \in Nat,
           NEW error \in BOOLEAN, NEW result \in BOOLEAN,
           Update(status, available_at, lease, error, result)
    PROVE  /\ jobs' \in Seq(JobRow) /\ DOMAIN jobs' = DOMAIN jobs
           /\ \A i \in DOMAIN jobs : i # machine.id => jobs'[i] = jobs[i]
           /\ jobs'[machine.id] =
                [payload |-> jobs[machine.id].payload, attempts |-> machine.attempts,
                 max_attempts |-> jobs[machine.id].max_attempts, status |-> status,
                 available_at_ms |-> available_at, lease_token |-> lease,
                 last_error |-> error, result_text |-> result]
  <1> DEFINE row == [payload |-> jobs[machine.id].payload, attempts |-> machine.attempts,
                     max_attempts |-> jobs[machine.id].max_attempts, status |-> status,
                     available_at_ms |-> available_at, lease_token |-> lease,
                     last_error |-> error, result_text |-> result]
  <1>1. jobs[machine.id] \in JobRow /\ machine.attempts \in Nat
    BY DEF TypeOK, Machine
  <1>3. jobs' = [jobs EXCEPT ![machine.id] = row]
    BY DEF Update
  <1>4. row \in JobRow
    BY <1>1 DEF JobRow
  <1> HIDE DEF row
  <1>5. QED
    BY <1>3, <1>4 DEF TypeOK, row

\* The initial states satisfy the invariant.
LEMMA InitKept == Init => IInv
  BY DEF Init, IInv, TypeOK, RowsKept, HolderKept, LeasesHaveOneHolder, NothingToRun,
         NoMachine, Machine, Operations

\* enqueue adds a row that is_queued accepts.
LEMMA EnqueueKeeps ==
    ASSUME IInv, NEW payload \in Payloads, NEW max_attempts \in Budgets,
           enqueue(payload, max_attempts)
    PROVE  IInv'
  <1> DEFINE row == [payload |-> payload, attempts |-> 0, max_attempts |-> max_attempts,
                     status |-> "queued", available_at_ms |-> 0, lease_token |-> 0,
                     last_error |-> FALSE, result_text |-> FALSE]
  <1>1. row \in JobRow /\ RowKept(row)
    BY JobAssumption DEF JobRow, Statuses, enqueue, RowKept, is_queued
  <1>2. /\ jobs' = Append(jobs, row) /\ pc = "idle" /\ jobs \in Seq(JobRow)
        /\ UNCHANGED <<now_ms, lease_sequence, pc, operation, machine, answer, abandons, abandoned>>
    BY DEF enqueue, IInv, TypeOK
  <1>3. row.status = "queued" /\ row.lease_token = 0
    OBVIOUS
  <1> HIDE DEF row
  <1>4. /\ DOMAIN jobs = 1..Len(jobs) /\ DOMAIN jobs' = 1..(Len(jobs) + 1) /\ Len(jobs) \in Nat
        /\ jobs' \in Seq(JobRow)
        /\ \A i \in 1..Len(jobs) : jobs'[i] = jobs[i]
        /\ jobs'[Len(jobs) + 1] = row
    BY <1>1, <1>2
  <1>5. TypeOK'
    BY <1>2, <1>4 DEF IInv, TypeOK
  <1>6. RowsKept'
    BY <1>1, <1>4 DEF IInv, RowsKept
  <1>7. LeasesHaveOneHolder'
    <2>1. \A i \in DOMAIN jobs' : i \in DOMAIN jobs \/ (i = Len(jobs) + 1 /\ i \notin abandoned)
      BY <1>4 DEF IInv, TypeOK
    <2>2. \A i \in DOMAIN jobs' :
            /\ jobs'[i].status = "running" <=> i \in abandoned
            /\ jobs'[i].status = "running" <=> jobs'[i].lease_token # 0
            /\ jobs'[i].lease_token <= lease_sequence
      BY <1>2, <1>3, <1>4, <2>1 DEF IInv, TypeOK, LeasesHaveOneHolder
    <2>3. \A i, j \in DOMAIN jobs' :
            jobs'[i].lease_token = jobs'[j].lease_token /\ jobs'[i].lease_token # 0 => i = j
      BY <1>3, <1>4, <2>1 DEF IInv, LeasesHaveOneHolder
    <2>4. QED
      BY <1>2, <2>2, <2>3 DEF LeasesHaveOneHolder
  <1>8. HolderKept' /\ NothingToRun'
    BY <1>2 DEF HolderKept, NothingToRun
  <1>9. QED
    BY <1>5, <1>6, <1>7, <1>8 DEF IInv

\* What touches neither the table nor the call in progress.
LEMMA QuietKeeps ==
    ASSUME IInv, pc = "idle", pc' \in {"idle", "select"},
           UNCHANGED <<jobs, lease_sequence, machine, abandoned>>, TypeOK'
    PROVE  IInv'
  BY DEF IInv, RowsKept, HolderKept, LeasesHaveOneHolder, NothingToRun

\* advance_time and the start of a call.
LEMMA CallKeeps ==
    ASSUME IInv,
           \/ \E delta_ms \in -RETRY_DELAY_MS..RETRY_DELAY_MS : advance_time(delta_ms)
           \/ \E op \in Operations : Call(op)
    PROVE  IInv'
  <1>1. pc = "idle" /\ pc' \in {"idle", "select"}
        /\ UNCHANGED <<jobs, lease_sequence, machine, abandoned>>
    BY DEF advance_time, Call
  <1>2. TypeOK'
    BY JobAssumption DEF IInv, TypeOK, advance_time, Call
  <1>3. QED
    BY <1>1, <1>2, QuietKeeps

\* A row is only selected to be started when a validator takes it.
LEMMA SelectKeeps ==
    ASSUME IInv, Select
    PROVE  IInv'
  <1>1. ASSUME NEW i \in DOMAIN jobs, next_runnable_row(i), rehydrate_row(i),
               is_queued(jobs[i]) \/ is_retrying(jobs[i])
        PROVE  IInv'
    <2>1. /\ lease_sequence' = lease_sequence + 1 /\ pc' = "start"
          /\ machine' = [id |-> i, attempts |-> jobs[i].attempts + 1,
                         lease_token |-> lease_sequence + 1]
          /\ UNCHANGED <<jobs, now_ms, operation, answer, abandons, abandoned>>
      BY <1>1 DEF Select, rehydrate_row
    <2>2. jobs[i].attempts \in Nat /\ i \in Nat /\ lease_sequence \in Nat
      BY Columns DEF IInv, TypeOK
    <2>3. TypeOK'
      <3>1. machine' \in Machine /\ lease_sequence' \in Nat
        BY <2>1, <2>2 DEF Machine
      <3>2. QED
        BY <2>1, <3>1 DEF IInv, TypeOK
    <2>4. \A j \in DOMAIN jobs : jobs[j].lease_token \in Nat /\ jobs[j].lease_token <= lease_sequence
      BY Columns DEF IInv, LeasesHaveOneHolder
    <2>5. HolderKept'
      BY <1>1, <2>1, <2>4 DEF HolderKept, IInv, TypeOK
    <2>6. LeasesHaveOneHolder'
      BY <2>1, <2>4 DEF IInv, TypeOK, LeasesHaveOneHolder, Select
    <2>7. RowsKept' /\ NothingToRun'
      BY <2>1 DEF IInv, RowsKept, NothingToRun
    <2>8. QED
      BY <2>3, <2>5, <2>6, <2>7 DEF IInv
  <1>2. ASSUME pc' \in {"idle", "retry_at"}, UNCHANGED <<jobs, lease_sequence, abandoned>>, TypeOK',
               pc' = "retry_at" => UNCHANGED now_ms /\ \A i \in DOMAIN jobs : ~Runnable(i)
        PROVE  IInv'
    BY <1>2 DEF IInv, Select, RowsKept, HolderKept, LeasesHaveOneHolder, NothingToRun, Runnable
  <1>3. ASSUME Return("corrupt") \/ Return("nothing"),
               UNCHANGED <<jobs, now_ms, operation, abandons, abandoned, lease_sequence>>
        PROVE  IInv'
    <2>1. TypeOK'
      BY <1>3 DEF IInv, TypeOK, Return, NoMachine, Machine
    <2>2. QED
      BY <1>2, <1>3, <2>1 DEF Return
  <1>4. ASSUME pc' = "retry_at", \A i \in DOMAIN jobs : ~Runnable(i),
               UNCHANGED <<jobs, now_ms, operation, abandons, abandoned,
                           lease_sequence, machine, answer>>
        PROVE  IInv'
    <2>1. TypeOK'
      BY <1>4 DEF IInv, TypeOK
    <2>2. QED
      BY <1>2, <1>4, <2>1
  <1>5. QED
    BY <1>1, <1>3, <1>4 DEF Select, rehydrate_row

\* Starting puts the newest lease into the row of the call.
LEMMA StartKeeps ==
    ASSUME IInv, Start
    PROVE  IInv'
  <1> DEFINE old == jobs[machine.id]
             new == [payload |-> old.payload, attempts |-> machine.attempts,
                     max_attempts |-> old.max_attempts, status |-> "running",
                     available_at_ms |-> 0, lease_token |-> machine.lease_token,
                     last_error |-> FALSE, result_text |-> FALSE]
  <1>1. /\ pc = "start" /\ pc' = "process" /\ machine.id \in DOMAIN jobs
        /\ UNCHANGED <<now_ms, lease_sequence, operation, machine, answer, abandons, abandoned>>
    BY DEF Start, IInv, HolderKept
  <1>2. /\ jobs' \in Seq(JobRow) /\ DOMAIN jobs' = DOMAIN jobs
        /\ \A i \in DOMAIN jobs : i # machine.id => jobs'[i] = jobs[i]
        /\ jobs'[machine.id] = new
    <2>1. Update("running", 0, machine.lease_token, FALSE, FALSE)
      BY DEF Start, persist_running
    <2>2. TypeOK /\ machine.lease_token \in Nat
      BY DEF IInv, TypeOK, Machine
    <2>3. "running" \in Statuses /\ 0 \in Int /\ FALSE \in BOOLEAN
      BY DEF Statuses
    <2>4. QED
      BY <1>1, <2>1, <2>2, <2>3, UpdateOne, Zenon
  <1>3. /\ old \in JobRow /\ machine \in Machine
        /\ RowKept(old) /\ (is_queued(old) \/ is_retrying(old))
        /\ machine.attempts = old.attempts + 1
        /\ machine.lease_token = lease_sequence
        /\ \A i \in DOMAIN jobs : jobs[i].lease_token < machine.lease_token
    BY <1>1 DEF IInv, TypeOK, RowsKept, HolderKept
  <1>4. old.lease_token \in Nat /\ machine.lease_token \in Nat \ {0}
    BY <1>1, <1>3 DEF JobRow, Machine
  <1>5. RowKept(new)
    BY <1>3, <1>4 DEF RowKept, is_queued, is_retrying, is_running, JobRow, Payloads, Machine
  <1>6. /\ old.status # "running" /\ machine.id \notin abandoned
    BY <1>1, <1>3 DEF is_queued, is_retrying, IInv, LeasesHaveOneHolder
  <1>7. /\ new.status = "running" /\ new.lease_token = machine.lease_token
        /\ new.attempts = machine.attempts
    OBVIOUS
  <1> HIDE DEF new, old
  <1>8. TypeOK'
    BY <1>1, <1>2 DEF IInv, TypeOK
  <1>9. RowsKept'
    BY <1>1, <1>2, <1>5 DEF IInv, RowsKept
  <1>10. HolderKept' /\ NothingToRun'
    BY <1>1, <1>2, <1>6 DEF HolderKept, NothingToRun
  <1>11. LeasesHaveOneHolder'
    <2>1. \A i \in DOMAIN jobs :
            /\ jobs'[i].status = "running" <=> i \in abandoned \/ i = machine.id
            /\ jobs'[i].status = "running" <=> jobs'[i].lease_token # 0
            /\ jobs'[i].lease_token <= lease_sequence
      BY <1>1, <1>2, <1>3, <1>4, <1>7 DEF IInv, TypeOK, LeasesHaveOneHolder
    <2>2. \A i, j \in DOMAIN jobs :
            jobs'[i].lease_token = jobs'[j].lease_token /\ jobs'[i].lease_token # 0 => i = j
      <3> SUFFICES ASSUME NEW i \in DOMAIN jobs, NEW j \in DOMAIN jobs, i # j,
                          jobs'[i].lease_token = jobs'[j].lease_token, jobs'[i].lease_token # 0
                   PROVE  FALSE
        OBVIOUS
      <3>1. \A k \in DOMAIN jobs : jobs[k].lease_token \in Nat
        BY Columns DEF IInv
      <3>2. CASE i # machine.id /\ j # machine.id
        BY <1>2, <3>2 DEF IInv, LeasesHaveOneHolder
      <3>3. CASE i = machine.id \/ j = machine.id
        BY <1>2, <1>3, <1>4, <1>7, <3>1, <3>3
      <3>4. QED
        BY <3>2, <3>3
    <2>3. QED
      BY <1>1, <1>2, <1>7, <2>1, <2>2 DEF LeasesHaveOneHolder
  <1>12. QED
    BY <1>8, <1>9, <1>10, <1>11 DEF IInv

\* The outcome that process_running_job stores is a row of its status.
LEMMA OutcomeKept ==
    ASSUME IInv, pc = "process", process_running_job
    PROVE  /\ jobs' \in Seq(JobRow) /\ DOMAIN jobs' = DOMAIN jobs
           /\ \A i \in DOMAIN jobs : i # machine.id => jobs'[i] = jobs[i]
           /\ RowKept(jobs'[machine.id])
           /\ jobs'[machine.id].status # "running" /\ jobs'[machine.id].lease_token = 0
  <1> DEFINE job == jobs[machine.id]
             Written(status, at, error, result) ==
               [payload |-> job.payload, attempts |-> machine.attempts,
                max_attempts |-> job.max_attempts, status |-> status,
                available_at_ms |-> at, lease_token |-> 0,
                last_error |-> error, result_text |-> result]
  <1>1. /\ TypeOK /\ machine.id \in DOMAIN jobs /\ job \in JobRow /\ RowKept(job)
        /\ machine.attempts = job.attempts /\ job.status = "running"
    BY DEF IInv, TypeOK, HolderKept, RowsKept, LeasesHaveOneHolder
  <1>2. /\ is_running(job) /\ job.attempts \in Nat /\ job.max_attempts \in Int
        /\ (job.payload = "other" => job.attempts = 1) /\ job.payload \in Payloads
        /\ job.attempts <= job.max_attempts /\ job.max_attempts > 0
    BY <1>1 DEF RowKept, JobRow
  <1>0. 0 \in Int /\ 0 \in Nat /\ TRUE \in BOOLEAN /\ FALSE \in BOOLEAN
    OBVIOUS
  <1>3. CASE persist_succeeded
    <2>1. "succeeded" \in Statuses /\ Update("succeeded", 0, 0, FALSE, TRUE)
      BY <1>3 DEF Statuses, persist_succeeded
    <2>2. /\ jobs' \in Seq(JobRow) /\ DOMAIN jobs' = DOMAIN jobs
          /\ \A i \in DOMAIN jobs : i # machine.id => jobs'[i] = jobs[i]
          /\ jobs'[machine.id] = Written("succeeded", 0, FALSE, TRUE)
      BY <1>1, <1>0, <2>1, UpdateOne, Zenon
    <2>3. RowKept(Written("succeeded", 0, FALSE, TRUE))
      BY <1>1, <1>2 DEF RowKept, is_succeeded, is_running
    <2>4. QED
      BY <2>2, <2>3
  <1>4. CASE /\ \/ job.payload = "flaky" /\ machine.attempts = 1
                \/ job.payload = "always-fail" /\ machine.attempts < job.max_attempts
             /\ persist_retrying(now_ms + RETRY_DELAY_MS)
    <2>1. /\ "retrying" \in Statuses /\ now_ms + RETRY_DELAY_MS \in Int
          /\ Update("retrying", now_ms + RETRY_DELAY_MS, 0, TRUE, FALSE)
      <3>1. now_ms \in Int
        BY <1>1 DEF TypeOK
      <3>2. "retrying" \in Statuses /\ Update("retrying", now_ms + RETRY_DELAY_MS, 0, TRUE, FALSE)
        BY <1>4 DEF Statuses, persist_retrying
      <3>3. now_ms + RETRY_DELAY_MS \in Int
        BY <3>1, JobAssumption
      <3>4. QED
        BY <3>2, <3>3, Zenon
    <2>2. /\ jobs' \in Seq(JobRow) /\ DOMAIN jobs' = DOMAIN jobs
          /\ \A i \in DOMAIN jobs : i # machine.id => jobs'[i] = jobs[i]
          /\ jobs'[machine.id] = Written("retrying", now_ms + RETRY_DELAY_MS, TRUE, FALSE)
      BY <1>1, <1>0, <2>1, UpdateOne, Zenon
    <2>3. RowKept(Written("retrying", now_ms + RETRY_DELAY_MS, TRUE, FALSE))
      BY <1>1, <1>2, <1>4, <2>1 DEF RowKept, is_running
    <2>4. QED
      BY <2>2, <2>3
  <1>5. CASE /\ \/ job.payload = "always-fail" /\ machine.attempts >= job.max_attempts
                \/ job.payload = "other"
             /\ persist_failed
    <2>1. "failed" \in Statuses /\ Update("failed", 0, 0, TRUE, FALSE)
      BY <1>5 DEF Statuses, persist_failed
    <2>2. /\ jobs' \in Seq(JobRow) /\ DOMAIN jobs' = DOMAIN jobs
          /\ \A i \in DOMAIN jobs : i # machine.id => jobs'[i] = jobs[i]
          /\ jobs'[machine.id] = Written("failed", 0, TRUE, FALSE)
      BY <1>1, <1>0, <2>1, UpdateOne, Zenon
    <2>3. RowKept(Written("failed", 0, TRUE, FALSE))
      BY <1>1, <1>2, <1>5 DEF RowKept, is_running
    <2>4. QED
      BY <2>2, <2>3
  <1>6. QED
    BY <1>3, <1>4, <1>5 DEF process_running_job

\* The call that has stored an outcome gives its lease up.
LEMMA ProcessKeeps ==
    ASSUME IInv, Process
    PROVE  IInv'
  <1>1. pc = "process" /\ process_running_job /\ pc' \in {"idle", "select"}
        /\ machine' = NoMachine /\ UNCHANGED <<now_ms, lease_sequence, operation, abandons, abandoned>>
    BY DEF Process, Return
  <1>2. /\ jobs' \in Seq(JobRow) /\ DOMAIN jobs' = DOMAIN jobs
        /\ \A i \in DOMAIN jobs : i # machine.id => jobs'[i] = jobs[i]
        /\ RowKept(jobs'[machine.id])
        /\ jobs'[machine.id].status # "running" /\ jobs'[machine.id].lease_token = 0
    BY <1>1, OutcomeKept
  <1>3. TypeOK'
    BY <1>1, <1>2 DEF IInv, TypeOK, Process, Return, NoMachine, Machine
  <1>4. RowsKept'
    BY <1>2 DEF IInv, RowsKept
  <1>5. LeasesHaveOneHolder'
    <2>1. machine.id \in DOMAIN jobs /\ machine.id \notin abandoned
      BY <1>1 DEF IInv, HolderKept
    <2>2. \A i \in DOMAIN jobs :
            /\ jobs'[i].status = "running" <=> i \in abandoned
            /\ jobs'[i].status = "running" <=> jobs'[i].lease_token # 0
            /\ jobs'[i].lease_token <= lease_sequence
      BY <1>1, <1>2, <2>1 DEF IInv, TypeOK, LeasesHaveOneHolder
    <2>3. \A i, j \in DOMAIN jobs :
            jobs'[i].lease_token = jobs'[j].lease_token /\ jobs'[i].lease_token # 0 => i = j
      BY <1>2 DEF IInv, LeasesHaveOneHolder
    <2>4. QED
      BY <1>1, <1>2, <2>2, <2>3 DEF LeasesHaveOneHolder
  <1>6. HolderKept' /\ NothingToRun'
    BY <1>1 DEF HolderKept, NothingToRun
  <1>7. QED
    BY <1>3, <1>4, <1>5, <1>6 DEF IInv

\* Moving the clock, or coming to the end, touches no row.
LEMMA SkipKeeps ==
    ASSUME IInv, Skip
    PROVE  IInv'
  <1>1. /\ pc = "retry_at" /\ pc' \in {"idle", "select"}
        /\ UNCHANGED <<jobs, lease_sequence, operation, abandons, abandoned>>
    BY DEF Skip, Return
  <1>2. TypeOK'
    <2>1. \A i \in DOMAIN jobs : jobs[i].available_at_ms \in Int
      BY Columns DEF IInv
    <2>2. now_ms' \in Int /\ machine' \in Machine
          /\ answer' \in {"none", "nothing", "ran", "idle", "corrupt", "abandoned"}
      BY <2>1 DEF Skip, Return, IInv, TypeOK, NoMachine, Machine
    <2>3. QED
      BY <1>1, <2>2 DEF IInv, TypeOK
  <1>3. QED
    BY <1>1, <1>2 DEF IInv, RowsKept, HolderKept, LeasesHaveOneHolder, NothingToRun

\* A call given up while its job runs leaves the job to nobody.
LEMMA AbandonKeeps ==
    ASSUME IInv, Abandon
    PROVE  IInv'
  <1>1. /\ pc # "idle" /\ pc' = "idle" /\ machine' = NoMachine /\ answer' = "abandoned"
        /\ abandons' = abandons + 1
        /\ abandoned' = IF pc = "process" THEN abandoned \cup {machine.id} ELSE abandoned
        /\ UNCHANGED <<jobs, now_ms, lease_sequence, operation>>
    BY DEF Abandon, Return
  <1>2. TypeOK'
    BY <1>1 DEF IInv, TypeOK, HolderKept, NoMachine, Machine
  <1>3. LeasesHaveOneHolder'
    BY <1>1 DEF IInv, LeasesHaveOneHolder
  <1>4. RowsKept' /\ HolderKept' /\ NothingToRun'
    BY <1>1 DEF IInv, RowsKept, HolderKept, NothingToRun
  <1>5. QED
    BY <1>2, <1>3, <1>4 DEF IInv

\* A step in which nothing changes.
LEMMA StutterKeeps ==
    ASSUME IInv, UNCHANGED vars
    PROVE  IInv'
  BY DEF vars, IInv, TypeOK, RowsKept, HolderKept, LeasesHaveOneHolder, NothingToRun, Runnable

-----------------------------------------------------------------------------
\* The invariant holds for any table, budgets, delay and number of calls given
\* up, wherever they are.  (JobRunner.)
THEOREM Invariance == Spec => []IInv
  <1>1. IInv /\ [Next]_vars => IInv'
    BY EnqueueKeeps, CallKeeps, SelectKeeps, StartKeeps, ProcessKeeps, SkipKeeps, AbandonKeeps,
       StutterKeeps DEF Next, Step
  <1>2. QED
    BY InitKept, <1>1, PTL DEF Spec

\* The table, the clock, the leases and the call in progress have their types.
THEOREM TypeCorrect == Spec => []TypeOK
  BY Invariance, PTL DEF IInv

\* A lease has one holder.  (start, restart, persist_* and next_lease_token.)
THEOREM LeasesHaveOneHolderHolds == Spec => []LeasesHaveOneHolder
  BY Invariance, PTL DEF IInv

\* Retries keep to the budget, and the rows that no validator accepts are just
\* the two endings that come too early and the retries not due after time 0, for
\* a clock that is moved forward and back.  (process_running_job, advance_time, is_*.)
THEOREM OnlyEarlyEndingsAreRefusedHolds == Spec => []OnlyEarlyEndingsAreRefused
  <1>1. ASSUME TypeOK, NEW i \in DOMAIN jobs, RowKept(jobs[i])
        PROVE  /\ jobs[i].attempts <= jobs[i].max_attempts
               /\ ~Rebuilds(jobs[i]) <=>
                    \/ /\ jobs[i].payload = "flaky" /\ jobs[i].max_attempts = 1
                       /\ jobs[i].status = "retrying"
                    \/ /\ jobs[i].payload = "other" /\ jobs[i].max_attempts > 1
                       /\ jobs[i].status = "failed"
                    \/ jobs[i].status = "retrying" /\ jobs[i].available_at_ms <= 0
    <2> DEFINE row == jobs[i]
    <2>1. row \in JobRow
      BY <1>1 DEF TypeOK
    <2>2. /\ row.attempts \in Nat /\ row.max_attempts \in Int /\ row.status \in Statuses
          /\ row.available_at_ms \in Int
      BY <2>1 DEF JobRow
    <2> HIDE DEF row
    <2>3. CASE row.status = "queued"
      BY <1>1, <2>3 DEF row, RowKept, Rebuilds
    <2>4. CASE row.status = "running"
      BY <1>1, <2>4 DEF row, RowKept, Rebuilds
    <2>5. CASE row.status = "succeeded"
      BY <1>1, <2>5 DEF row, RowKept, Rebuilds
    <2>6. CASE row.status = "retrying"
      BY <1>1, <2>2, <2>6 DEF row, RowKept, Rebuilds, is_queued, is_running, is_retrying,
                              is_succeeded, is_failed
    <2>7. CASE row.status = "failed"
      BY <1>1, <2>2, <2>7 DEF row, RowKept, Rebuilds, is_queued, is_running, is_retrying,
                              is_succeeded, is_failed
    <2>8. QED
      BY <2>2, <2>3, <2>4, <2>5, <2>6, <2>7 DEF Statuses, row
  <1>2. IInv => OnlyEarlyEndingsAreRefused
    BY <1>1 DEF IInv, RowsKept, OnlyEarlyEndingsAreRefused
  <1>3. QED
    BY Invariance, <1>2, PTL

\* run_until_idle returns without an error only when nothing is left to run.
\* (run_until_idle, next_runnable_row, next_retry_at.)
THEOREM IdleMeansSettledHolds == Spec => IdleMeansSettled
  <1> DEFINE Settled ==
        answer' = "idle" /\ pc = "retry_at" /\ pc' = "idle" =>
          \A i \in DOMAIN jobs' :
            jobs'[i].status \in {"succeeded", "failed"} \/ i \in abandoned'
  <1>1. ASSUME IInv, Next, answer' = "idle", pc = "retry_at", pc' = "idle"
        PROVE  \A i \in DOMAIN jobs' :
                 jobs'[i].status \in {"succeeded", "failed"} \/ i \in abandoned'
    <2>1. Skip
      BY <1>1 DEF Next, Step, enqueue, advance_time, Call, Select, Start, Process, Abandon, Return
    <2>2. PICK at : next_retry_at(at) /\ ~(at > now_ms)
      BY <1>1, <2>1 DEF Skip
    <2>3. UNCHANGED <<jobs, abandoned>>
      BY <2>1 DEF Skip
    <2>4. \A i \in DOMAIN jobs : /\ ~Runnable(i) /\ jobs[i].status \in Statuses
                                 /\ jobs[i].available_at_ms \in Int
      BY <1>1, Columns DEF IInv, NothingToRun
    <2>5. Retrying = {}
      <3> SUFFICES ASSUME Retrying # {} PROVE FALSE
        OBVIOUS
      <3>1. PICK i \in Retrying : at = jobs[i].available_at_ms
        BY <2>2 DEF next_retry_at
      <3>2. i \in DOMAIN jobs /\ jobs[i].status = "retrying" /\ jobs[i].available_at_ms <= now_ms
        BY <1>1, <2>2, <2>4, <3>1 DEF Retrying, IInv, TypeOK
      <3>3. QED
        BY <2>4, <3>2 DEF Runnable
    <2>6. \A i \in DOMAIN jobs : jobs[i].status \in {"running", "succeeded", "failed"}
      BY <2>4, <2>5 DEF Retrying, Runnable, Statuses
    <2>7. \A i \in DOMAIN jobs : jobs[i].status = "running" => i \in abandoned
      BY <1>1 DEF IInv, LeasesHaveOneHolder
    <2>8. QED
      BY <2>3, <2>6, <2>7
  <1>2. IInv /\ [Next]_vars => [Settled]_vars
    BY <1>1
  <1>3. QED
    BY Invariance, <1>2, PTL DEF Spec, IdleMeansSettled

-----------------------------------------------------------------------------
(***************************************************************************)
(* The websocket session, for any frames, any number of them and channels  *)
(* of any capacity.  The machine is told from the frames that were read,   *)
(* and the frame about to be sent is the answer to the last of them.       *)
(***************************************************************************)
Users  == {""} \cup {frame.user : frame \in ClientFrames}
Topics == {""} \cup {frame.topic : frame \in ClientFrames}
ServerFrames ==
    {Session!Hello, Session!Error, Session!Bye}
      \cup {Session!Authenticated(user) : user \in Users}
      \cup {Session!Subscribed(topic) : topic \in Topics}
      \cup {Session!Delivered(user, topic) : user \in Users, topic \in Topics}

SessionTypeOK ==
    /\ {client_q, handled} \subseteq Seq(ClientFrames)
    /\ {server_q, received} \subseteq Seq(ServerFrames) /\ reply \in ServerFrames
    /\ session \in [phase : Session!Phases, user : Users, topic : Topics]
    /\ task \in {"send", "recv", "ok", "disconnected", "channel_closed"}
    /\ handle \in {"open", "finishing", "dropped"}

\* The machine's phase and data are those the frames call for.
SessionFollows ==
    /\ session.phase = "Connected" => Session!AuthenticatedBy = 0
    /\ session.phase \in {"Authenticated", "Subscribed"} =>
         /\ Session!AuthenticatedBy # 0
         /\ session.user = handled[Session!AuthenticatedBy].user
    /\ session.phase = "Authenticated" => Session!SubscribedBy = 0
    /\ session.phase = "Subscribed" =>
         /\ Session!SubscribedBy # 0
         /\ session.topic = handled[Session!SubscribedBy].topic

\* What is about to be sent, and that nothing is read after the end.
OwesTheLast ==
    /\ task = "send" =>
         reply = IF Len(handled) = 0 THEN Session!Hello ELSE Session!Answer(Len(handled))
    /\ task = "recv" => session.phase # "Closed"

SessionInv ==
    SessionTypeOK /\ SessionFollows /\ OwesTheLast /\ Session!AnswersFollowTheFrames

LEMMA Least ==
  ASSUME NEW S \in SUBSET Nat, S # {}
  PROVE  \E m \in S : \A k \in S : m <= k
  <1>1. IsWellFoundedOn(OpToRel(<, Nat), Nat)
    BY NatLessThanWellFounded
  <1>2. PICK m \in S : \A k \in S : ~(<<k, m>> \in OpToRel(<, Nat))
    BY <1>1, WFMin
  <1>3. \A k \in S : ~(k < m)
    BY <1>2 DEF OpToRel
  <1> QED BY <1>3

LEMMA FirstOf ==
  ASSUME NEW ks \in SUBSET (Nat \ {0})
  PROVE  \/ ks = {} /\ Session!First(ks) = 0
         \/ /\ Session!First(ks) \in ks
            /\ \A k \in ks : Session!First(ks) <= k
  BY Least DEF Session!First

\* The two frames that matter in any sequence of them.
UserAt(frames) == Session!First({k \in DOMAIN frames : Session!NamesAUser(frames[k])})
TopicAt(frames) ==
    Session!First({k \in DOMAIN frames :
                     UserAt(frames) # 0 /\ k > UserAt(frames) /\ Session!NamesATopic(frames[k])})

LEMMA ByTheFrames ==
  /\ Session!AuthenticatedBy = UserAt(handled) /\ Session!SubscribedBy = TopicAt(handled)
  /\ Session!AuthenticatedBy' = UserAt(handled') /\ Session!SubscribedBy' = TopicAt(handled')
  BY DEF Session!AuthenticatedBy, Session!SubscribedBy, UserAt, TopicAt

LEMMA WhoAndWhat ==
  ASSUME NEW Frames, NEW frames \in Seq(Frames)
  PROVE  /\ UserAt(frames) \in 0 .. Len(frames)
         /\ UserAt(frames) # 0 => Session!NamesAUser(frames[UserAt(frames)])
         /\ \A k \in 1 .. Len(frames) : Session!NamesAUser(frames[k]) =>
              UserAt(frames) # 0 /\ UserAt(frames) <= k
         /\ TopicAt(frames) \in 0 .. Len(frames)
         /\ TopicAt(frames) # 0 => /\ UserAt(frames) # 0 /\ UserAt(frames) < TopicAt(frames)
                                   /\ Session!NamesATopic(frames[TopicAt(frames)])
         /\ \A k \in 1 .. Len(frames) :
              UserAt(frames) # 0 /\ k > UserAt(frames) /\ Session!NamesATopic(frames[k]) =>
                TopicAt(frames) # 0 /\ TopicAt(frames) <= k
  <1> DEFINE users == {k \in DOMAIN frames : Session!NamesAUser(frames[k])}
             topics == {k \in DOMAIN frames :
                          UserAt(frames) # 0 /\ k > UserAt(frames) /\ Session!NamesATopic(frames[k])}
             user == UserAt(frames)
             topic == TopicAt(frames)
  <1>1. DOMAIN frames = 1 .. Len(frames) /\ Len(frames) \in Nat
    OBVIOUS
  <1>2. users \in SUBSET (Nat \ {0}) /\ topics \in SUBSET (Nat \ {0})
    BY <1>1
  <1>3. user = Session!First(users) /\ topic = Session!First(topics)
    BY DEF UserAt, TopicAt
  <1>4. \A k : /\ k \in users <=> k \in 1 .. Len(frames) /\ Session!NamesAUser(frames[k])
               /\ k \in topics <=> /\ k \in 1 .. Len(frames)
                                   /\ user # 0 /\ k > user /\ Session!NamesATopic(frames[k])
    BY <1>1
  <1> HIDE DEF users, topics, user, topic
  <1>5. /\ user = 0 \/ user \in users
        /\ \A k \in users : user # 0 /\ user <= k
    BY <1>2, <1>3, FirstOf
  <1>6. /\ topic = 0 \/ topic \in topics
        /\ \A k \in topics : topic # 0 /\ topic <= k
    BY <1>2, <1>3, FirstOf
  <1>7. /\ user \in 0 .. Len(frames)
        /\ user # 0 => Session!NamesAUser(frames[user])
        /\ \A k \in 1 .. Len(frames) : Session!NamesAUser(frames[k]) => user # 0 /\ user <= k
    BY <1>1, <1>4, <1>5
  <1>8. /\ topic \in 0 .. Len(frames)
        /\ topic # 0 => user # 0 /\ user < topic /\ Session!NamesATopic(frames[topic])
        /\ \A k \in 1 .. Len(frames) :
             user # 0 /\ k > user /\ Session!NamesATopic(frames[k]) => topic # 0 /\ topic <= k
    BY <1>1, <1>4, <1>6, <1>7
  <1> QED BY <1>7, <1>8 DEF user, topic

\* The same when one more frame is read.
LEMMA OneMore ==
  ASSUME NEW Frames, NEW frames \in Seq(Frames), NEW frame \in Frames
  PROVE  LET more == Append(frames, frame)
             n == Len(frames) + 1
         IN  /\ UserAt(more) = IF UserAt(frames) # 0 THEN UserAt(frames)
                               ELSE IF Session!NamesAUser(frame) THEN n ELSE 0
             /\ TopicAt(more) = IF TopicAt(frames) # 0 THEN TopicAt(frames)
                                ELSE IF UserAt(frames) # 0 /\ Session!NamesATopic(frame) THEN n ELSE 0
  <1> DEFINE more == Append(frames, frame)
             n == Len(frames) + 1
             user == UserAt(frames)
             topic == TopicAt(frames)
             user2 == UserAt(more)
             topic2 == TopicAt(more)
  <1>1. /\ more \in Seq(Frames) /\ Len(more) = n /\ n \in Nat /\ more[n] = frame
        /\ \A k \in 1 .. n : k < n => more[k] = frames[k] /\ k \in 1 .. Len(frames)
        /\ Len(frames) = n - 1
    OBVIOUS
  <1>2. /\ user \in 0 .. (n - 1)
        /\ user # 0 => Session!NamesAUser(frames[user])
        /\ \A k \in 1 .. (n - 1) : Session!NamesAUser(frames[k]) => user # 0 /\ user <= k
        /\ topic \in 0 .. (n - 1)
        /\ topic # 0 => user # 0 /\ user < topic /\ Session!NamesATopic(frames[topic])
        /\ \A k \in 1 .. (n - 1) :
             user # 0 /\ k > user /\ Session!NamesATopic(frames[k]) => topic # 0 /\ topic <= k
    BY <1>1, WhoAndWhat
  <1>3. /\ user2 \in 0 .. n
        /\ user2 # 0 => Session!NamesAUser(more[user2])
        /\ \A k \in 1 .. n : Session!NamesAUser(more[k]) => user2 # 0 /\ user2 <= k
        /\ topic2 \in 0 .. n
        /\ topic2 # 0 => user2 # 0 /\ user2 < topic2 /\ Session!NamesATopic(more[topic2])
        /\ \A k \in 1 .. n :
             user2 # 0 /\ k > user2 /\ Session!NamesATopic(more[k]) => topic2 # 0 /\ topic2 <= k
    BY <1>1, WhoAndWhat
  <1> HIDE DEF more, n, user, topic, user2, topic2
  <1>4. user2 = IF user # 0 THEN user ELSE IF Session!NamesAUser(frame) THEN n ELSE 0
    BY <1>1, <1>2, <1>3
  <1>5. topic2 = IF topic # 0 THEN topic
                 ELSE IF user # 0 /\ Session!NamesATopic(frame) THEN n ELSE 0
    BY <1>1, <1>2, <1>3, <1>4
  <1> QED BY <1>4, <1>5 DEF more, n, user, topic, user2, topic2

\* An answer does not depend on the frames after it.
LEMMA AnswersStay ==
  ASSUME handled \in Seq(ClientFrames), NEW frame \in ClientFrames,
         handled' = Append(handled, frame), NEW k \in 1 .. Len(handled)
  PROVE  Session!Answer(k)' = Session!Answer(k)
  <1> DEFINE user == Session!AuthenticatedBy
             topic == Session!SubscribedBy
             f == handled[k]
  <1>1. handled'[k] = f /\ k # Len(handled) + 1 /\ k \in Nat /\ Len(handled) \in Nat
    OBVIOUS
  <1>2. /\ user \in 0 .. Len(handled) /\ topic \in 0 .. Len(handled)
        /\ topic # 0 => user # 0
    BY WhoAndWhat, ByTheFrames
  <1>3. /\ user' = user \/ (user = 0 /\ user' = Len(handled) + 1)
        /\ topic' = topic \/ (topic = 0 /\ topic' = Len(handled) + 1)
        /\ user # 0 => user' = user
        /\ topic # 0 => topic' = topic
    BY OneMore, ByTheFrames
  <1>4. /\ k = user' <=> k = user
        /\ k = topic' <=> k = topic
        /\ topic' # 0 /\ topic' < k <=> topic # 0 /\ topic < k
    BY <1>1, <1>2, <1>3
  <1>5. topic # 0 => handled'[topic'] = handled[topic] /\ handled'[user'] = handled[user]
    BY <1>2, <1>3
  <1>6. Session!Answer(k) =
          CASE f.kind = "Close" -> Session!Bye
            [] k = user -> Session!Authenticated(f.user)
            [] k = topic -> Session!Subscribed(f.topic)
            [] /\ f.kind = "Publish" /\ f.body
               /\ topic # 0 /\ topic < k
               /\ f.topic = handled[topic].topic
               -> Session!Delivered(handled[user].user, f.topic)
            [] OTHER -> Session!Error
    BY DEF Session!Answer
  <1>7. Session!Answer(k)' =
          CASE f.kind = "Close" -> Session!Bye
            [] k = user' -> Session!Authenticated(f.user)
            [] k = topic' -> Session!Subscribed(f.topic)
            [] /\ f.kind = "Publish" /\ f.body
               /\ topic' # 0 /\ topic' < k
               /\ f.topic = handled'[topic'].topic
               -> Session!Delivered(handled'[user'].user, f.topic)
            [] OTHER -> Session!Error
    BY <1>1 DEF Session!Answer
  <1> HIDE DEF user, topic, f
  <1> QED BY <1>4, <1>5, <1>6, <1>7

\* The machine's answer to a frame is the one the frames call for, and so is
\* the phase it goes to.
LEMMA HandledAsCalledFor ==
  ASSUME SessionInv, task = "recv", NEW frame \in ClientFrames, Session!Handle(frame),
         handled' = Append(handled, frame), NEW n \in Nat, n = Len(handled) + 1
  PROVE  /\ reply' = Session!Answer(n)'
         /\ reply' \in ServerFrames
         /\ session' \in [phase : Session!Phases, user : Users, topic : Topics]
         /\ SessionFollows'
  <1> DEFINE user == Session!AuthenticatedBy
             topic == Session!SubscribedBy
             phase == session.phase
  <1>1. /\ handled \in Seq(ClientFrames) /\ n \in Nat /\ n > 0
        /\ handled' \in Seq(ClientFrames) /\ handled'[n] = frame
        /\ \A k \in 1 .. n : k # n => handled'[k] = handled[k]
    BY DEF SessionInv, SessionTypeOK
  <1>2. /\ user \in 0 .. (n - 1) /\ topic \in 0 .. (n - 1)
        /\ topic # 0 => user # 0 /\ user < topic
        /\ user # 0 => Session!NamesAUser(handled[user])
        /\ topic # 0 => Session!NamesATopic(handled[topic])
    BY <1>1, WhoAndWhat, ByTheFrames
  <1>3. /\ user' = IF user # 0 THEN user ELSE IF Session!NamesAUser(frame) THEN n ELSE 0
        /\ topic' = IF topic # 0 THEN topic
                    ELSE IF user # 0 /\ Session!NamesATopic(frame) THEN n ELSE 0
    BY <1>1, OneMore, ByTheFrames
  <1>4. Session!Answer(n)' =
          CASE frame.kind = "Close" -> Session!Bye
            [] n = user' -> Session!Authenticated(frame.user)
            [] n = topic' -> Session!Subscribed(frame.topic)
            [] /\ frame.kind = "Publish" /\ frame.body
               /\ topic' # 0 /\ topic' < n
               /\ frame.topic = handled'[topic'].topic
               -> Session!Delivered(handled'[user'].user, frame.topic)
            [] OTHER -> Session!Error
    BY <1>1 DEF Session!Answer
  <1>5. /\ phase \in {"Connected", "Authenticated", "Subscribed"}
        /\ session \in [phase : Session!Phases, user : Users, topic : Topics]
        /\ phase = "Connected" => user = 0
        /\ phase \in {"Authenticated", "Subscribed"} => user # 0 /\ session.user = handled[user].user
        /\ phase = "Authenticated" => topic = 0
        /\ phase = "Subscribed" => topic # 0 /\ session.topic = handled[topic].topic
    BY DEF SessionInv, SessionTypeOK, SessionFollows, OwesTheLast, Session!Phases
  <1>6. frame.user \in Users /\ frame.topic \in Topics
    BY DEF Users, Topics
  <1>7. /\ user # 0 => handled'[user] = handled[user]
        /\ topic # 0 => handled'[topic] = handled[topic]
    BY <1>1, <1>2
  <1>8. SessionFollows' <=>
          /\ session'.phase = "Connected" => user' = 0
          /\ session'.phase \in {"Authenticated", "Subscribed"} =>
               user' # 0 /\ session'.user = handled'[user'].user
          /\ session'.phase = "Authenticated" => topic' = 0
          /\ session'.phase = "Subscribed" => topic' # 0 /\ session'.topic = handled'[topic'].topic
    BY DEF SessionFollows
  <1> HIDE DEF user, topic
  <1>9. CASE Session!authenticate(frame)
    <2>1. /\ phase = "Connected" /\ Session!NamesAUser(frame) /\ ~Session!NamesATopic(frame)
          /\ session' = [session EXCEPT !.phase = "Authenticated", !.user = frame.user]
          /\ reply' = Session!Authenticated(frame.user) /\ frame.kind = "Authenticate"
      BY <1>9 DEF Session!authenticate, Session!NamesAUser, Session!NamesATopic
    <2>2. user' = n /\ topic' = 0
      BY <1>2, <1>3, <1>5, <2>1
    <2>3. reply' = Session!Answer(n)'
      <3>1. n = user' /\ n # topic' /\ frame.kind # "Close" /\ frame.kind # "Publish"
        BY <1>1, <2>1, <2>2
      <3> QED BY <1>4, <2>1, <3>1
    <2>4. reply' \in ServerFrames
      BY <1>6, <2>1 DEF ServerFrames
    <2>5. session' \in [phase : Session!Phases, user : Users, topic : Topics]
      BY <1>5, <1>6, <2>1 DEF Session!Phases
    <2> QED BY <1>1, <1>5, <1>8, <2>1, <2>2, <2>3, <2>4, <2>5
  <1>10. CASE Session!subscribe(frame)
    <2>1. /\ phase = "Authenticated" /\ Session!NamesATopic(frame) /\ ~Session!NamesAUser(frame)
          /\ session' = [session EXCEPT !.phase = "Subscribed", !.topic = frame.topic]
          /\ reply' = Session!Subscribed(frame.topic) /\ frame.kind = "Subscribe"
      BY <1>10 DEF Session!subscribe, Session!NamesAUser, Session!NamesATopic
    <2>2. topic' = n /\ user' = user /\ user # 0 /\ user # n
      BY <1>2, <1>3, <1>5, <2>1
    <2>3. reply' = Session!Answer(n)'
      BY <1>1, <1>4, <2>1, <2>2
    <2>4. reply' \in ServerFrames
      BY <1>6, <2>1 DEF ServerFrames
    <2>5. session' \in [phase : Session!Phases, user : Users, topic : Topics]
      BY <1>5, <1>6, <2>1 DEF Session!Phases
    <2>6. /\ session'.phase = "Subscribed"
          /\ session'.user = session.user /\ session'.topic = frame.topic
      BY <1>5, <2>1
    <2>7. session'.user = handled'[user'].user /\ session'.topic = handled'[topic'].topic
      BY <1>1, <1>5, <1>7, <2>1, <2>2, <2>6
    <2>8. SessionFollows'
      BY <1>1, <1>8, <2>2, <2>6, <2>7
    <2> QED BY <2>3, <2>4, <2>5, <2>8
  <1>11. CASE Session!publish(frame)
    <2>1. /\ phase = "Subscribed" /\ frame.kind = "Publish" /\ frame.body
          /\ frame.topic = session.topic /\ session' = session
          /\ reply' = Session!Delivered(session.user, frame.topic)
          /\ ~Session!NamesAUser(frame) /\ ~Session!NamesATopic(frame)
      BY <1>11 DEF Session!publish, Session!Stay, Session!NamesAUser, Session!NamesATopic
    <2>2. topic' = topic /\ user' = user /\ user # 0 /\ topic # 0 /\ user # n /\ topic < n
      BY <1>1, <1>2, <1>3, <1>5, <2>1
    <2>3. reply' = Session!Answer(n)'
      BY <1>1, <1>2, <1>4, <1>5, <1>7, <2>1, <2>2
    <2>4. reply' \in ServerFrames
      BY <1>5, <1>6, <2>1 DEF ServerFrames
    <2> QED BY <1>5, <1>7, <1>8, <2>1, <2>2, <2>3, <2>4
  <1>12. CASE Session!close(frame)
    <2>1. /\ frame.kind = "Close" /\ reply' = Session!Bye
          /\ session' = [session EXCEPT !.phase = "Closed"]
          /\ ~Session!NamesAUser(frame) /\ ~Session!NamesATopic(frame)
      BY <1>12 DEF Session!close, Session!NamesAUser, Session!NamesATopic
    <2>2. n # user' /\ n # topic'
      BY <1>1, <1>2, <1>3, <2>1
    <2>3. reply' = Session!Answer(n)'
      BY <1>4, <2>1, <2>2
    <2>4. reply' \in ServerFrames
      BY <2>1 DEF ServerFrames
    <2>5. session'.phase = "Closed" /\ session' \in [phase : Session!Phases, user : Users, topic : Topics]
      BY <1>5, <2>1 DEF Session!Phases
    <2> QED BY <1>8, <2>3, <2>4, <2>5
  <1>13. CASE Session!Refused(frame) /\ Session!Stay(Session!Error)
    <2>1. /\ session' = session /\ reply' = Session!Error /\ frame.kind # "Close"
      BY <1>13 DEF Session!Stay, Session!Refused
    <2>2. /\ Session!NamesAUser(frame) => user # 0
          /\ Session!NamesATopic(frame) => user = 0 \/ topic # 0
      BY <1>5, <1>13 DEF Session!Refused, Session!NamesAUser, Session!NamesATopic
    <2>3. user' = user /\ topic' = topic /\ n # user /\ n # topic
      BY <1>1, <1>2, <1>3, <2>2
    <2>4. ~(/\ frame.kind = "Publish" /\ frame.body
            /\ topic' # 0 /\ topic' < n
            /\ frame.topic = handled'[topic'].topic)
      <3>1. frame.kind = "Publish" =>
              phase # "Subscribed" \/ ~frame.body \/ frame.topic # session.topic
        BY <1>13 DEF Session!Refused
      <3>2. frame.kind = "Publish" /\ topic' # 0 /\ phase = "Subscribed" =>
              handled'[topic'].topic = session.topic
        BY <1>5, <1>7, <2>3
      <3>3. topic # 0 => phase = "Subscribed"
        BY <1>5, <1>2
      <3> QED BY <2>3, <3>1, <3>2, <3>3
    <2>5. reply' = Session!Answer(n)'
      BY <1>4, <2>1, <2>3, <2>4
    <2>6. reply' \in ServerFrames
      BY <2>1 DEF ServerFrames
    <2> QED BY <1>5, <1>7, <1>8, <2>1, <2>3, <2>5, <2>6
  <1> QED BY <1>9, <1>10, <1>11, <1>12, <1>13 DEF Session!Handle

LEMMA InitSession == Session!Init => SessionInv
  <1> SUFFICES ASSUME Session!Init PROVE SessionInv
    OBVIOUS
  <1>1. \A S : <<>> \in Seq(S) /\ Len(<<>>) = 0 /\ <<>> \o <<>> = <<>>
    BY EmptySeq, ConcatEmptySeq
  <1>2. Len(handled) = 0 /\ Len(Session!Answers) = 0
    BY <1>1 DEF Session!Init, Session!Answers
  <1>3. SessionTypeOK
    <2>1. "" \in Users /\ "" \in Topics /\ Session!Hello \in ServerFrames
      BY DEF Users, Topics, ServerFrames
    <2> QED BY <1>1, <2>1 DEF Session!Init, SessionTypeOK, Session!Phases
  <1>4. Session!AuthenticatedBy = 0
    <2>1. handled \in Seq(ClientFrames)
      BY <1>1 DEF Session!Init
    <2>2. UserAt(handled) \in 0 .. Len(handled)
      BY <2>1, WhoAndWhat
    <2> QED BY <1>2, <2>2, ByTheFrames
  <1>5. SessionFollows /\ OwesTheLast /\ Session!AnswersFollowTheFrames
    <2>1. session.phase = "Connected" /\ task = "send" /\ reply = Session!Hello
      BY DEF Session!Init
    <2>2. SessionFollows
      BY <1>4, <2>1 DEF SessionFollows
    <2>3. OwesTheLast
      BY <1>2, <2>1 DEF OwesTheLast
    <2>4. Session!AnswersFollowTheFrames
      BY <1>2, <2>1 DEF Session!AnswersFollowTheFrames
    <2> QED BY <2>2, <2>3, <2>4
  <1> QED BY <1>3, <1>5 DEF SessionInv

LEMMA recv_client_Keeps == ASSUME SessionInv, Session!recv_client PROVE SessionInv'
  <1>1. /\ task = "recv" /\ UNCHANGED <<server_q, handle, received>> /\ SessionTypeOK
        /\ Session!Answers' = Session!Answers
    BY DEF Session!recv_client, SessionInv, Session!Answers
  <1>2. CASE /\ client_q # <<>> /\ Session!Handle(Head(client_q))
             /\ client_q' = Tail(client_q) /\ handled' = Append(handled, Head(client_q))
             /\ task' = "send"
    <2> DEFINE frame == Head(client_q)
    <2>1. /\ client_q \in Seq(ClientFrames) /\ handled \in Seq(ClientFrames)
          /\ frame \in ClientFrames /\ client_q' \in Seq(ClientFrames)
          /\ handled' \in Seq(ClientFrames) /\ Len(handled) \in Nat
          /\ Len(handled') = Len(handled) + 1
      BY <1>1, <1>2 DEF SessionTypeOK
    <2>2. PICK n \in Nat : n = Len(handled) + 1
      BY <2>1
    <2>3. Session!Handle(frame) /\ handled' = Append(handled, frame) /\ task = "recv"
      BY <1>1, <1>2
    <2> HIDE DEF frame
    <2>4. /\ reply' = Session!Answer(n)' /\ reply' \in ServerFrames
          /\ session' \in [phase : Session!Phases, user : Users, topic : Topics]
          /\ SessionFollows'
      BY <2>1, <2>2, <2>3, HandledAsCalledFor
    <2>5. SessionTypeOK'
      BY <1>1, <1>2, <2>1, <2>4 DEF SessionTypeOK
    <2>6. OwesTheLast'
      <3>1. n # 0 /\ n = Len(handled')
        BY <2>1, <2>2
      <3>2. reply' = Session!Answer(Len(handled))'
        BY <2>4, <3>1 DEF Session!Answer
      <3> QED BY <1>2, <3>1, <3>2 DEF OwesTheLast
    <2>7. Session!AnswersFollowTheFrames'
      <3>1. Len(Session!Answers) = n
        BY <1>1, <2>2 DEF SessionInv, Session!AnswersFollowTheFrames
      <3>2. \A k \in 1 .. n : Session!Answers[k] = IF k = 1 THEN Session!Hello ELSE Session!Answer(k - 1)
        BY <3>1 DEF SessionInv, Session!AnswersFollowTheFrames
      <3>3. ASSUME NEW k \in 1 .. n, k # 1 PROVE Session!Answer(k - 1)' = Session!Answer(k - 1)
        <4>1. k - 1 \in 1 .. Len(handled)
          BY <2>1, <2>2, <3>3
        <4> QED BY <2>1, <2>3, <4>1, AnswersStay
      <3>4. \A k \in 1 .. n :
              Session!Answers'[k] = IF k = 1 THEN Session!Hello ELSE Session!Answer(k - 1)'
        BY <1>1, <3>2, <3>3
      <3>5. Len(Session!Answers') = Len(handled') + 0 /\ Len(Session!Answers') = n
        BY <1>1, <2>1, <2>2, <3>1
      <3> QED BY <1>2, <3>4, <3>5 DEF Session!AnswersFollowTheFrames
    <2> QED BY <2>4, <2>5, <2>6, <2>7 DEF SessionInv
  <1>3. CASE task' = "disconnected" /\ UNCHANGED <<client_q, handled, session, reply>>
    <2>1. SessionTypeOK'
      BY <1>1, <1>3 DEF SessionTypeOK
    <2>2. SessionFollows' /\ OwesTheLast'
      BY <1>3, ByTheFrames DEF SessionInv, SessionFollows, OwesTheLast
    <2>3. \A k \in Int : Session!Answer(k)' = Session!Answer(k)
      BY <1>3, ByTheFrames DEF Session!Answer
    <2>4. Session!AnswersFollowTheFrames'
      BY <1>1, <1>3, <2>3 DEF SessionInv, Session!AnswersFollowTheFrames
    <2> QED BY <2>1, <2>2, <2>4 DEF SessionInv
  <1> QED BY <1>2, <1>3 DEF Session!recv_client

\* Nothing is read, and the answers are the same: the frames the client gets
\* only move on.
LEMMA SameAnswersKeep ==
  ASSUME SessionInv, UNCHANGED <<handled, session>>, SessionTypeOK', OwesTheLast',
         Session!Answers' = Session!Answers,
         task' = task \/ (task = "send" /\ task' = "channel_closed")
  PROVE  SessionInv'
  <1>1. SessionFollows'
    BY ByTheFrames DEF SessionInv, SessionFollows
  <1>2. \A k \in Int : Session!Answer(k)' = Session!Answer(k)
    BY ByTheFrames DEF Session!Answer
  <1>3. Session!AnswersFollowTheFrames'
    BY <1>2 DEF SessionInv, Session!AnswersFollowTheFrames
  <1> QED BY <1>1, <1>3 DEF SessionInv

LEMMA send_server_Keeps == ASSUME SessionInv, Session!send_server PROVE SessionInv'
  <1>1. /\ task = "send" /\ UNCHANGED <<client_q, session, reply, handle, handled, received>>
        /\ SessionTypeOK
    BY DEF Session!send_server, SessionInv
  <1>2. CASE task' = "channel_closed" /\ UNCHANGED server_q
    BY <1>1, <1>2, SameAnswersKeep DEF SessionTypeOK, OwesTheLast, Session!Answers
  <1>3. CASE /\ server_q' = Append(server_q, reply)
             /\ task' = IF session.phase = "Closed" THEN "ok" ELSE "recv"
    <2>1. /\ server_q \in Seq(ServerFrames) /\ received \in Seq(ServerFrames) /\ reply \in ServerFrames
          /\ handled \in Seq(ClientFrames) /\ Len(handled) \in Nat
      BY <1>1 DEF SessionTypeOK
    <2>2. SessionTypeOK'
      BY <1>1, <1>3, <2>1 DEF SessionTypeOK
    <2>3. SessionFollows' /\ OwesTheLast'
      BY <1>1, <1>3, ByTheFrames DEF SessionInv, SessionFollows, OwesTheLast
    <2> DEFINE n == Len(handled)
    <2>4. /\ Len(Session!Answers) = n
          /\ \A k \in 1 .. n : Session!Answers[k] = IF k = 1 THEN Session!Hello ELSE Session!Answer(k - 1)
      BY <1>1 DEF SessionInv, Session!AnswersFollowTheFrames
    <2>5. /\ Len(Session!Answers') = n + 1
          /\ \A k \in 1 .. n : Session!Answers'[k] = Session!Answers[k]
          /\ Session!Answers'[n + 1] = reply
      <3>1. Session!Answers' = received \o Append(server_q, reply)
        BY <1>1, <1>3 DEF Session!Answers
      <3>2. Session!Answers = received \o server_q
        BY DEF Session!Answers
      <3> QED BY <2>1, <2>4, <3>1, <3>2
    <2>6. \A k \in Int : Session!Answer(k)' = Session!Answer(k)
      BY <1>1, ByTheFrames DEF Session!Answer
    <2>7. \A k \in 1 .. (n + 1) :
            Session!Answers'[k] = IF k = 1 THEN Session!Hello ELSE Session!Answer(k - 1)
      <3>1. reply = IF n = 0 THEN Session!Hello ELSE Session!Answer(n)
        BY <1>1 DEF SessionInv, OwesTheLast
      <3> QED BY <2>1, <2>4, <2>5, <3>1
    <2>8. Session!AnswersFollowTheFrames'
      <3>1. /\ Len(Session!Answers') = Len(handled') + 1
            /\ ~(task' = "send" \/ task' = "channel_closed")
        BY <1>1, <1>3, <2>5
      <3>2. \A k \in 1 .. Len(Session!Answers') :
              Session!Answers'[k] = IF k = 1 THEN Session!Hello ELSE Session!Answer(k - 1)'
        BY <2>1, <2>5, <2>6, <2>7
      <3> QED BY <3>1, <3>2 DEF Session!AnswersFollowTheFrames
    <2> QED BY <2>2, <2>3, <2>8 DEF SessionInv
  <1> QED BY <1>2, <1>3 DEF Session!send_server

LEMMA SessionStep == SessionInv /\ [Session!Next]_(Session!vars) => SessionInv'
  <1> SUFFICES ASSUME SessionInv, [Session!Next]_(Session!vars) PROVE SessionInv'
    OBVIOUS
  <1>1. CASE Session!run_session
    BY <1>1, recv_client_Keeps, send_server_Keeps DEF Session!run_session
  <1>2. ASSUME NEW frame \in ClientFrames, Session!send(frame) PROVE SessionInv'
    BY <1>2, SameAnswersKeep DEF Session!send, SessionInv, SessionTypeOK, OwesTheLast,
       Session!Answers, Session!Answer, Session!AuthenticatedBy, Session!SubscribedBy
  <1>3. CASE Session!recv
    <2>1. /\ server_q \in Seq(ServerFrames) /\ received \in Seq(ServerFrames) /\ server_q # <<>>
          /\ received' = Append(received, Head(server_q)) /\ server_q' = Tail(server_q)
          /\ UNCHANGED <<client_q, session, task, reply, handle, handled>>
      BY <1>3 DEF Session!recv, SessionInv, SessionTypeOK
    <2>2. Head(server_q) \in ServerFrames /\ Tail(server_q) \in Seq(ServerFrames)
      BY <2>1
    <2>3. Append(received, Head(server_q)) \o Tail(server_q) = received \o server_q
      <3>1. Append(received, Head(server_q)) \in Seq(ServerFrames)
        BY <2>1, <2>2
      <3> DEFINE a == Append(received, Head(server_q)) \o Tail(server_q)
                 b == received \o server_q
      <3>2. a \in Seq(ServerFrames) /\ b \in Seq(ServerFrames) /\ Len(a) = Len(b)
        BY <2>1, <2>2, <3>1
      <3>3. \A i \in 1 .. Len(a) : a[i] = b[i]
        BY <2>1, <2>2, <3>1
      <3> QED BY <3>2, <3>3, SeqEqual
    <2>4. Session!Answers' = Session!Answers
      BY <2>1, <2>3 DEF Session!Answers
    <2>5. SessionTypeOK'
      BY <2>1, <2>2 DEF SessionInv, SessionTypeOK
    <2>6. OwesTheLast'
      BY <2>1 DEF SessionInv, OwesTheLast, Session!Answer, Session!AuthenticatedBy, Session!SubscribedBy
    <2> QED BY <2>1, <2>4, <2>5, <2>6, SameAnswersKeep
  <1>4. CASE Session!finish \/ Session!Drop \/ UNCHANGED Session!vars
    BY <1>4, SameAnswersKeep DEF Session!finish, Session!Drop, Session!vars, SessionInv,
       SessionTypeOK, OwesTheLast, Session!Answers, Session!Answer, Session!AuthenticatedBy,
       Session!SubscribedBy
  <1> QED BY <1>1, <1>2, <1>3, <1>4 DEF Session!Next

\* The types of a session's state, that the machine follows the frames, and that
\* what it is about to send is the answer to the last frame read (run_session).
THEOREM SessionInvariance == Session!Spec => []SessionInv
  BY InitSession, SessionStep, PTL DEF Session!Spec

\* A client gets one answer to each frame, in order, which is the one that the
\* frames before it call for: for any frames, any number of them and channels of
\* any capacity, drained at any pace (run_session).
THEOREM AnswersFollowTheFramesHolds == Session!Spec => []AnswersFollowTheFrames
  <1>1. SessionInv => AnswersFollowTheFrames
    BY DEF SessionInv, AnswersFollowTheFrames
  <1> QED BY <1>1, SessionInvariance, PTL
=============================================================================
