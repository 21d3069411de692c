---------------------------- MODULE MCShowcases ----------------------------
(***************************************************************************)
(* The stores of the showcases side by side: each behaviour is one of one  *)
(* of them, with two callers where it can have more than one.              *)
(***************************************************************************)
EXTENDS Integers, Sequences, TLC

CONSTANTS Callers, Reviewers, MaxRows, MaxEvents

ASSUME ShowcaseAssumption == "none" \notin Reviewers

VARIABLES app, rows, calls, reached, log, overlapped

Pipeline == INSTANCE DeployPipeline
Reviews  == INSTANCE ReviewService
Carts    == INSTANCE CartStore
Log      == INSTANCE OrderEvents

vars == <<app, rows, calls, reached, log, overlapped>>

Init ==
    \/ app = "deploy" /\ Pipeline!Init /\ log = <<>> /\ overlapped = {}
    \/ app = "review" /\ Reviews!Init /\ log = <<>> /\ overlapped = {}
    \/ app = "cart" /\ Carts!Init /\ calls = <<>> /\ log = <<>> /\ overlapped = {}
    \/ app = "orders" /\ Log!Init /\ rows = <<>> /\ reached = <<>>

Next ==
    /\ app' = app
    /\ \/ app = "deploy" /\ Pipeline!Next /\ UNCHANGED <<log, overlapped>>
       \/ app = "review" /\ Reviews!Next /\ UNCHANGED <<log, overlapped>>
       \/ app = "cart" /\ Carts!Next /\ UNCHANGED <<calls, log, overlapped>>
       \/ app = "orders" /\ Log!Next /\ UNCHANGED <<rows, reached>>

Spec == Init /\ [][Next]_vars

\* The callers are alike, and so are the reviewers.
Alike == Permutations(Callers) \cup Permutations(Reviewers)

\* Every row of every store rebuilds, at every moment.  (The statements that
\* write a row, against the validators that read it.)
RowsAlwaysRebuild ==
    CASE app = "deploy" -> Pipeline!RowsAlwaysRebuild
      [] app = "review" -> Reviews!RowsAlwaysRebuild
      [] app = "cart"   -> Carts!RowsAlwaysRebuild
      [] app = "orders" -> TRUE

\* The three tables keep the promise of a stored workflow, each with the
\* transitions of its own machine; no stage of one is a stage of another, but
\* for draft, which both machines leave to a stage of their own.
Stages == [i \in DOMAIN rows |-> rows[i].status]
Workflow ==
    INSTANCE StoredWorkflow WITH
      Initial <- {"draft", "open"},
      Edges <- Pipeline!Machine \cup Reviews!Machine \cup Carts!Machine,
      stage <- Stages
KeepThePromise == Workflow!Spec

\* What the abstract table guarantees, of the stages that the rows have had.
NoStageIsSkipped == Workflow!NoStageIsSkipped

\* Of the event log: only overlapping calls on one order corrupt it.
OnlyOverlapsCorrupt == app = "orders" => Log!OnlyOverlapsCorrupt

\* Of the event log: the batch agrees with the single loads.
BatchAgreesWithSingles == app = "orders" => Log!BatchAgreesWithSingles
=============================================================================
