------------------------------ MODULE JobRunner ------------------------------
(***************************************************************************)
(* The job runner of the showcases: jobs are rows of a table, a runner     *)
(* picks one, rebuilds it into a typed machine, writes it back as running, *)
(* works on it and writes the outcome.  The runner is borrowed for the     *)
(* length of a call, so no two calls overlap; but every call awaits        *)
(* between its statements, and whoever polls it may drop it there, or a    *)
(* statement may fail.                                                     *)
(***************************************************************************)
EXTENDS Integers, Sequences

CONSTANTS
    MaxJobs,         \* bound: how many jobs are enqueued
    Budgets,         \* the max_attempts that callers ask for
    RETRY_DELAY_MS,  \* how long a failed attempt waits
    MaxTime,         \* bound: how far a caller advances the clock
    MaxBack,         \* bound: how far back of its start a caller sets it
    MaxAbandons      \* bound: how many calls are dropped or fail

ASSUME JobAssumption ==
    /\ Budgets \subseteq Int
    /\ RETRY_DELAY_MS \in Nat \ {0}
    /\ MaxTime \in Nat /\ MaxBack \in Nat

VARIABLES
    jobs,            \* the table, in the order of its ids
    now_ms,          \* the runner's clock
    lease_sequence,  \* how many leases it has given out
    pc,              \* where the call in progress awaits
    operation,       \* which call it is
    machine,         \* the running machine the call holds
    answer,          \* what the last call returned
    abandons,        \* how many calls were given up
    abandoned        \* the jobs that were running when their call was given up

vars == <<jobs, now_ms, lease_sequence, pc, operation, machine, answer, abandons, abandoned>>

Payloads   == {"ok", "flaky", "always-fail", "other"}
Statuses   == {"queued", "running", "retrying", "succeeded", "failed"}
Operations == {"run_next", "run_until_idle"}

\* Texts are kept as far as the validators look at them: whether they are
\* there.  A lease is its sequence number, 0 stands for none.
JobRow == [payload: Payloads, attempts: Nat, max_attempts: Int, status: Statuses,
           available_at_ms: Int, lease_token: Nat, last_error: BOOLEAN, result_text: BOOLEAN]

\* What a machine carries besides its row: which row, and the lease.
Machine == [id: Nat, attempts: Nat, lease_token: Nat]
NoMachine == [id |-> 0, attempts |-> 0, lease_token |-> 0]

(***************************************************************************)
(* The validators.                                                         *)
(***************************************************************************)
is_queued(row) ==
    /\ row.attempts = 0 /\ row.max_attempts > 0
    /\ row.status = "queued" /\ row.available_at_ms = 0
    /\ row.lease_token = 0 /\ ~row.last_error /\ ~row.result_text

is_running(row) ==
    /\ row.attempts > 0 /\ row.attempts <= row.max_attempts
    /\ row.status = "running" /\ row.available_at_ms = 0
    /\ ~row.last_error /\ ~row.result_text
    /\ row.lease_token # 0

\* The lease is not looked at here.
is_retrying(row) ==
    /\ row.attempts > 0 /\ row.attempts < row.max_attempts
    /\ row.status = "retrying" /\ row.available_at_ms > 0
    /\ ~row.result_text /\ row.last_error

is_succeeded(row) ==
    /\ row.attempts > 0 /\ row.attempts <= row.max_attempts
    /\ row.status = "succeeded" /\ row.available_at_ms = 0
    /\ row.lease_token = 0 /\ ~row.last_error
    /\ row.result_text

is_failed(row) ==
    /\ row.attempts > 0 /\ row.attempts = row.max_attempts
    /\ row.status = "failed" /\ row.available_at_ms = 0
    /\ row.lease_token = 0 /\ ~row.result_text
    /\ row.last_error

Rebuilds(row) ==
    is_queued(row) \/ is_running(row) \/ is_retrying(row) \/ is_succeeded(row) \/ is_failed(row)

(***************************************************************************)
(* The statements.                                                         *)
(***************************************************************************)
\* Mutant: a retry is taken only after its time.
Runnable_Late(i) ==
    \/ jobs[i].status = "queued"
    \/ jobs[i].status = "retrying" /\ jobs[i].available_at_ms < now_ms

Runnable(i) ==
    \/ jobs[i].status = "queued"
    \/ jobs[i].status = "retrying" /\ jobs[i].available_at_ms <= now_ms

Before(i, j) ==
    \/ jobs[i].available_at_ms < jobs[j].available_at_ms
    \/ jobs[i].available_at_ms = jobs[j].available_at_ms /\ i <= j

next_runnable_row(i) ==
    /\ Runnable(i)
    /\ \A j \in DOMAIN jobs : Runnable(j) => Before(i, j)

Retrying == {i \in DOMAIN jobs : jobs[i].status = "retrying"}

\* MIN over no row is NULL, which is read as 0.
next_retry_at(at) ==
    \/ Retrying = {} /\ at = 0
    \/ /\ \E i \in Retrying : at = jobs[i].available_at_ms
       /\ \A i \in Retrying : at <= jobs[i].available_at_ms

\* Every update sets all the columns below, for the row of the machine.
Update(status, available_at, lease, error, result) ==
    jobs' = [jobs EXCEPT ![machine.id] =
               [payload |-> @.payload, attempts |-> machine.attempts,
                max_attempts |-> @.max_attempts, status |-> status,
                available_at_ms |-> available_at, lease_token |-> lease,
                last_error |-> error, result_text |-> result]]

persist_running == Update("running", 0, machine.lease_token, FALSE, FALSE)
\* Mutant: a waiting row keeps its lease.
persist_retrying_KeepLease(at) == Update("retrying", at, machine.lease_token, TRUE, FALSE)

persist_retrying(at) == Update("retrying", at, 0, TRUE, FALSE)
persist_succeeded == Update("succeeded", 0, 0, FALSE, TRUE)
persist_failed    == Update("failed", 0, 0, TRUE, FALSE)

(***************************************************************************)
(* The operations.                                                         *)
(***************************************************************************)
Init ==
    /\ jobs = <<>>
    /\ now_ms = 0
    /\ lease_sequence = 0
    /\ pc = "idle"
    /\ operation = "run_next"
    /\ machine = NoMachine
    /\ answer = "none"
    /\ abandons = 0
    /\ abandoned = {}

enqueue(payload, max_attempts) ==
    /\ pc = "idle" /\ Len(jobs) < MaxJobs
    /\ max_attempts > 0
    /\ jobs' = Append(jobs, [payload |-> payload, attempts |-> 0, max_attempts |-> max_attempts,
                             status |-> "queued", available_at_ms |-> 0, lease_token |-> 0,
                             last_error |-> FALSE, result_text |-> FALSE])
    /\ UNCHANGED <<now_ms, lease_sequence, pc, operation, machine, answer, abandons, abandoned>>

\* The amount is any number, a negative one too.
advance_time(delta_ms) ==
    /\ pc = "idle" /\ now_ms + delta_ms \in -MaxBack..MaxTime
    /\ now_ms' = now_ms + delta_ms
    /\ UNCHANGED <<jobs, lease_sequence, pc, operation, machine, answer, abandons, abandoned>>

Call(op) ==
    /\ pc = "idle"
    /\ pc' = "select" /\ operation' = op
    /\ UNCHANGED <<jobs, now_ms, lease_sequence, machine, answer, abandons, abandoned>>

Return(result) ==
    /\ pc' = "idle" /\ answer' = result /\ machine' = NoMachine

\* A row that no validator accepts ends the call: CorruptState.
rehydrate_row(i) ==
    IF is_queued(jobs[i]) \/ is_retrying(jobs[i])
    THEN /\ lease_sequence' = lease_sequence + 1
         /\ machine' = [id |-> i, attempts |-> jobs[i].attempts + 1,
                        lease_token |-> lease_sequence + 1]
         /\ pc' = "start"
         /\ UNCHANGED answer
    ELSE /\ Return("corrupt") /\ UNCHANGED lease_sequence

Select ==
    /\ pc = "select"
    /\ \/ \E i \in DOMAIN jobs : next_runnable_row(i) /\ rehydrate_row(i)
       \/ /\ \A i \in DOMAIN jobs : ~Runnable(i)
          /\ operation = "run_next"
          /\ Return("nothing") /\ UNCHANGED lease_sequence
       \/ /\ \A i \in DOMAIN jobs : ~Runnable(i)
          /\ operation = "run_until_idle"
          /\ pc' = "retry_at" /\ UNCHANGED <<lease_sequence, machine, answer>>
    /\ UNCHANGED <<jobs, now_ms, operation, abandons, abandoned>>

Start ==
    /\ pc = "start"
    /\ persist_running
    /\ pc' = "process"
    /\ UNCHANGED <<now_ms, lease_sequence, operation, machine, answer, abandons, abandoned>>

\* Mutant: the last attempt is retried as well.
process_running_job_OneMore ==
    LET job == jobs[machine.id]
    IN  \/ /\ job.payload = "ok" \/ (job.payload = "flaky" /\ machine.attempts # 1)
           /\ persist_succeeded
        \/ /\ \/ job.payload = "flaky" /\ machine.attempts = 1
              \/ job.payload = "always-fail" /\ machine.attempts <= job.max_attempts
           /\ persist_retrying(now_ms + RETRY_DELAY_MS)
        \/ /\ job.payload = "other"
           /\ persist_failed

\* The work on the payload and the statement that stores its outcome.
process_running_job ==
    LET job == jobs[machine.id]
    IN  \/ /\ job.payload = "ok" \/ (job.payload = "flaky" /\ machine.attempts # 1)
           /\ persist_succeeded
        \/ /\ \/ job.payload = "flaky" /\ machine.attempts = 1
              \/ job.payload = "always-fail" /\ machine.attempts < job.max_attempts
           /\ persist_retrying(now_ms + RETRY_DELAY_MS)
        \/ /\ \/ job.payload = "always-fail" /\ machine.attempts >= job.max_attempts
              \/ job.payload = "other"
           /\ persist_failed

Process ==
    /\ pc = "process"
    /\ process_running_job
    /\ IF operation = "run_next"
       THEN Return("ran")
       ELSE pc' = "select" /\ machine' = NoMachine /\ UNCHANGED answer
    /\ UNCHANGED <<now_ms, lease_sequence, operation, abandons, abandoned>>

\* Mutant: the loop goes round when the next retry is due now; no retry at all
\* is read as 0.
Skip_OrNow ==
    /\ pc = "retry_at"
    /\ \E at \in {0} \cup {jobs[i].available_at_ms : i \in DOMAIN jobs} :
         /\ next_retry_at(at)
         /\ IF at >= now_ms
            THEN now_ms' = at /\ pc' = "select" /\ UNCHANGED <<machine, answer>>
            ELSE Return("idle") /\ UNCHANGED now_ms
    /\ UNCHANGED <<jobs, lease_sequence, operation, abandons, abandoned>>

\* run_until_idle moves the clock to the next retry, or ends.
Skip ==
    /\ pc = "retry_at"
    /\ \E at \in {0} \cup {jobs[i].available_at_ms : i \in DOMAIN jobs} :
         /\ next_retry_at(at)
         /\ IF at > now_ms
            THEN now_ms' = at /\ pc' = "select" /\ UNCHANGED <<machine, answer>>
            ELSE Return("idle") /\ UNCHANGED now_ms
    /\ UNCHANGED <<jobs, lease_sequence, operation, abandons, abandoned>>

\* The call is dropped where it awaits, or its next statement fails.
Abandon ==
    /\ pc # "idle" /\ abandons < MaxAbandons
    /\ abandons' = abandons + 1
    /\ abandoned' = IF pc = "process" THEN abandoned \cup {machine.id} ELSE abandoned
    /\ Return("abandoned")
    /\ UNCHANGED <<jobs, now_ms, lease_sequence, operation>>

Step == Select \/ Start \/ Process \/ Skip

Next ==
    \/ \E payload \in Payloads, max_attempts \in Budgets : enqueue(payload, max_attempts)
    \/ \E delta_ms \in -RETRY_DELAY_MS..RETRY_DELAY_MS : advance_time(delta_ms)
    \/ \E op \in Operations : Call(op)
    \/ Step
    \/ Abandon

Spec == Init /\ [][Next]_vars

\* A call that is polled goes on: its statements return.
FairSpec == Spec /\ WF_vars(Step)

-----------------------------------------------------------------------------
(***************************************************************************)
(* Correctness.                                                            *)
(***************************************************************************)
\* What every variable holds.
TypeOK ==
    /\ jobs \in Seq(JobRow)
    /\ now_ms \in Int /\ lease_sequence \in Nat /\ abandons \in Nat
    /\ pc \in {"idle", "select", "start", "process", "retry_at"}
    /\ operation \in Operations
    /\ machine \in Machine
    /\ answer \in {"none", "nothing", "ran", "idle", "corrupt", "abandoned"}
    /\ abandoned \subseteq DOMAIN jobs

\* A lease has one holder: the rows that are running are the one whose call is
\* working on it, which shows that call's lease and attempt, and those whose
\* call was given up, which nothing ever picks up again; no two show the same
\* lease, and no other row shows any.  (start, restart, persist_running,
\* persist_* and next_lease_token, with a call dropped at any await.)
LeasesHaveOneHolder ==
    /\ \A i \in DOMAIN jobs :
         /\ jobs[i].status = "running" <=> i \in abandoned \/ (pc = "process" /\ i = machine.id)
         /\ jobs[i].status = "running" <=> jobs[i].lease_token # 0
         /\ jobs[i].lease_token <= lease_sequence
    /\ \A i, j \in DOMAIN jobs :
         jobs[i].lease_token = jobs[j].lease_token /\ jobs[i].lease_token # 0 => i = j
    /\ pc = "process" => /\ jobs[machine.id].lease_token = machine.lease_token
                         /\ jobs[machine.id].attempts = machine.attempts

\* Retries keep to the budget, and every row the runner stores is one that its
\* validators accept, but for the two endings that come before the budget is
\* used up: a first failure of a flaky job that has no second attempt, which
\* waits for ever as retrying, and a payload nobody understands, which fails at
\* once; and for a retry that is not due after time 0, the clock having been
\* set that far back.  (process_running_job and advance_time against is_retrying
\* and is_failed.)
OnlyEarlyEndingsAreRefused ==
    \A i \in DOMAIN jobs :
      LET row == jobs[i]
      IN  /\ row.attempts <= row.max_attempts
          /\ ~Rebuilds(row) <=>
               \/ row.payload = "flaky" /\ row.max_attempts = 1 /\ row.status = "retrying"
               \/ row.payload = "other" /\ row.max_attempts > 1 /\ row.status = "failed"
               \/ row.status = "retrying" /\ row.available_at_ms <= 0

\* When run_until_idle returns without an error nothing is left to run: each
\* job has ended, or its call was given up while it ran.  (The loop of
\* run_until_idle, next_runnable_row and next_retry_at, which read the table
\* and the clock at different moments.)
IdleMeansSettled ==
    [][answer' = "idle" /\ pc = "retry_at" /\ pc' = "idle" =>
         \A i \in DOMAIN jobs' :
           jobs'[i].status \in {"succeeded", "failed"} \/ i \in abandoned']_vars

\* A call that is polled returns: the retries of run_until_idle come to an end.
CallsReturn == pc # "idle" ~> pc = "idle"
=============================================================================
