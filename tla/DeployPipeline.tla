--------------------------- MODULE DeployPipeline ---------------------------
(***************************************************************************)
(* The deploy pipeline of the showcases: every command is a process of its *)
(* own that opens the database file, reads a deployment, rebuilds it into  *)
(* a typed machine, takes one transition, writes the row and shows it.     *)
(* Several processes may run at once, and any may be killed.               *)
(***************************************************************************)
EXTENDS Integers, Sequences

CONSTANTS
    Callers,  \* the processes
    MaxRows   \* bound: how many deployments are created

VARIABLES
    rows,     \* the table, in the order of its ids
    calls,    \* the command each process is at
    reached   \* history: the stages each deployment has had

vars == <<rows, calls, reached>>

(***************************************************************************)
(* Rows: the status, and which of the nullable columns are filled.         *)
(***************************************************************************)
Phase(status, filled) == [status |-> status, filled |-> filled]

is_draft(row)             == row = Phase("draft", {})
is_planned(row)           == row = Phase("planned", {"plan_digest"})
is_awaiting_approval(row) == row = Phase("awaiting_approval", {"approval_ticket"})
is_applying(row)          == row = Phase("applying", {"approved_by", "operation_id"})
is_applied(row)           == row = Phase("applied", {"receipt_id"})
is_rolled_back(row)       == row = Phase("rolled_back", {"rollback_reason"})
is_failed(row)            == row = Phase("failed", {"failure_reason"})

Rebuilds(row) ==
    \/ is_draft(row) \/ is_planned(row) \/ is_awaiting_approval(row) \/ is_applying(row)
    \/ is_applied(row) \/ is_rolled_back(row) \/ is_failed(row)

(***************************************************************************)
(* The machine, as the stage each command requires and the one it yields.  *)
(***************************************************************************)
Transition ==
    [plan             |-> <<"draft", "planned">>,
     request_approval |-> <<"planned", "awaiting_approval">>,
     approve          |-> <<"awaiting_approval", "applying">>,
     finish_success   |-> <<"applying", "applied">>,
     finish_failure   |-> <<"applying", "failed">>,
     rollback         |-> <<"applied", "rolled_back">>]

Commands == DOMAIN Transition

\* Mutant: approving forgets to clear the ticket.
persist_state_KeepTicket ==
    [planned           |-> Phase("planned", {"plan_digest"}),
     awaiting_approval |-> Phase("awaiting_approval", {"approval_ticket"}),
     applying          |-> Phase("applying", {"approval_ticket", "approved_by", "operation_id"}),
     applied           |-> Phase("applied", {"receipt_id"}),
     failed            |-> Phase("failed", {"failure_reason"}),
     rolled_back       |-> Phase("rolled_back", {"rollback_reason"})]

\* The row that the persist function of a stage writes: the update sets the
\* status and all seven columns.
persist_state ==
    [planned           |-> Phase("planned", {"plan_digest"}),
     awaiting_approval |-> Phase("awaiting_approval", {"approval_ticket"}),
     applying          |-> Phase("applying", {"approved_by", "operation_id"}),
     applied           |-> Phase("applied", {"receipt_id"}),
     failed            |-> Phase("failed", {"failure_reason"}),
     rolled_back       |-> Phase("rolled_back", {"rollback_reason"})]

(***************************************************************************)
(* The commands.  What is wrong with the arguments of approve and rollback *)
(* is seen before anything is read and needs no step; the reason given to  *)
(* finish-apply is looked at only when the row has been read.              *)
(***************************************************************************)
Idle       == [at |-> "idle", command |-> "show", id |-> 0, well_formed |-> TRUE]
Showing(i) == [at |-> "show", command |-> "show", id |-> i, well_formed |-> TRUE]

Init ==
    /\ rows = <<>>
    /\ calls = [p \in Callers |-> Idle]
    /\ reached = <<>>

Goto(p, at) == calls' = [calls EXCEPT ![p].at = at]
End(p)      == calls' = [calls EXCEPT ![p] = Idle]

Create(p) ==
    /\ calls[p].at = "idle" /\ Len(rows) < MaxRows
    /\ rows' = Append(rows, Phase("draft", {}))
    /\ reached' = Append(reached, {"draft"})
    /\ calls' = [calls EXCEPT ![p] = Showing(Len(rows) + 1)]

Invoke(p) ==
    /\ calls[p].at = "idle"
    /\ \/ \E id \in 1..MaxRows :
            calls' = [calls EXCEPT ![p] = Showing(id)]
       \/ \E command \in Commands, id \in 1..MaxRows, well_formed \in BOOLEAN :
            /\ well_formed \/ command \in {"finish_success", "finish_failure"}
            /\ calls' = [calls EXCEPT ![p] = [at |-> "load", command |-> command, id |-> id,
                                              well_formed |-> well_formed]]
    /\ UNCHANGED <<rows, reached>>

\* Mutant: a command takes any row that rebuilds.
Loaded_AnyState(call) ==
    /\ call.id \in DOMAIN rows
    /\ Rebuilds(rows[call.id])

\* The state that load_state yields is the one the command requires.
Loaded(call) ==
    /\ call.id \in DOMAIN rows
    /\ Rebuilds(rows[call.id])
    /\ rows[call.id].status = Transition[call.command][1]

Load(p) ==
    /\ calls[p].at = "load"
    /\ \/ /\ Loaded(calls[p]) /\ calls[p].well_formed
          /\ Goto(p, "persist")
       \/ /\ ~Loaded(calls[p]) \/ ~calls[p].well_formed
          /\ End(p)
    /\ UNCHANGED <<rows, reached>>

Persist(p) ==
    LET id == calls[p].id
        next == Transition[calls[p].command][2]
    IN  /\ calls[p].at = "persist"
        /\ rows' = [rows EXCEPT ![id] = persist_state[next]]
        /\ reached' = [reached EXCEPT ![id] = @ \cup {next}]
        /\ Goto(p, "show")

Show(p) ==
    /\ calls[p].at = "show"
    /\ End(p)
    /\ UNCHANGED <<rows, reached>>

\* The process is killed, or the database refuses its next statement.
Crash(p) ==
    /\ calls[p].at # "idle"
    /\ End(p)
    /\ UNCHANGED <<rows, reached>>

Next ==
    \E p \in Callers :
      Create(p) \/ Invoke(p) \/ Load(p) \/ Persist(p) \/ Show(p) \/ Crash(p)

Spec == Init /\ [][Next]_vars

-----------------------------------------------------------------------------
(***************************************************************************)
(* Correctness.                                                            *)
(***************************************************************************)
\* Whoever reads a deployment, at whatever moment and after whatever races and
\* crashes, gets a typed machine and never CorruptState.  (persist_state
\* against the seven validators.)
RowsAlwaysRebuild == \A i \in DOMAIN rows : Rebuilds(rows[i])

\* The pipeline keeps the promise of a stored workflow with the transitions of
\* DeploymentMachine.  (execute, load_state, persist_state.)
Stages == [i \in DOMAIN rows |-> rows[i].status]
Machine == {Transition[command] : command \in Commands}
Workflow == INSTANCE StoredWorkflow WITH Initial <- {"draft"}, Edges <- Machine, stage <- Stages
=============================================================================
