----------------------------- MODULE RowVerdicts -----------------------------
(***************************************************************************)
(* What rebuilding a machine from a persisted row promises, whatever order *)
(* the validators run in: the verdict on a row is the one its operation    *)
(* gives for some set of accepting validators that contains those that     *)
(* accepted all along and only those that accepted at some moment.  When   *)
(* nothing moves during the call, that set is the one that accepts now.    *)
(***************************************************************************)
EXTENDS RebuildCalls

VARIABLES
  accepts,   \* the states whose validator would accept each row now
  asked,     \* the row each call is working on
  ever,      \* the states accepted at some moment since it started on the row
  always,    \* the states accepted ever since
  verdicts   \* the verdicts of each call so far, one per row

verdictVars == <<accepts, asked, ever, always, verdicts>>

\* Operation op, when exactly the validators of M accept, gives verdict v.
Verdict(op, M, v) ==
  \/ /\ op # "explain"
     /\ \E i \in DOMAIN Plan : /\ Plan[i] = v
                               /\ v \in M
                               /\ \A j \in 1 .. (i - 1) : Plan[j] \notin M
  \/ /\ op = "explain"
     /\ M = {v}
  \/ /\ v = InvalidState
     /\ IF op = "explain" THEN \A s \in States : M # {s} ELSE M = {}

\* Validators read more than the row (other tables, clocks, services).
Change(r, S) ==
  /\ accepts' = [accepts EXCEPT ![r] = S]
  /\ ever' = [t \in Tasks |-> IF asked[t] = r THEN ever[t] \cup S ELSE ever[t]]
  /\ always' = [t \in Tasks |-> IF asked[t] = r THEN always[t] \cap S ELSE always[t]]
  /\ UNCHANGED <<asked, verdicts>>

Ask(t) ==
  /\ asked[t] = NoRow
  /\ Len(verdicts[t]) < Len(RowsOf[t])
  /\ LET r == RowsOf[t][Len(verdicts[t]) + 1]
     IN  /\ asked' = [asked EXCEPT ![t] = r]
         /\ ever' = [ever EXCEPT ![t] = accepts[r]]
         /\ always' = [always EXCEPT ![t] = accepts[r]]
  /\ UNCHANGED <<accepts, verdicts>>

Answer(t, M, v) ==
  /\ asked[t] # NoRow
  /\ always[t] \subseteq M
  /\ M \subseteq ever[t]
  /\ Verdict(OpOf[t], M, v)
  /\ verdicts' = [verdicts EXCEPT ![t] = Append(@, v)]
  /\ asked' = [asked EXCEPT ![t] = NoRow]
  /\ UNCHANGED <<accepts, ever, always>>

Init ==
  /\ accepts \in [Rows -> SUBSET States]
  /\ asked = [t \in Tasks |-> NoRow]
  /\ ever = [t \in Tasks |-> {}]
  /\ always = [t \in Tasks |-> {}]
  /\ verdicts = [t \in Tasks |-> <<>>]

Next ==
  \/ \E r \in Rows, S \in SUBSET States : Change(r, S)
  \/ \E t \in Tasks : Ask(t)
  \/ \E t \in Tasks, M \in SUBSET States, v \in States \cup {InvalidState} :
       Answer(t, M, v)

Spec == Init /\ [][Next]_verdictVars

=============================================================================
