--------------------------- MODULE StoredWorkflow ---------------------------
(***************************************************************************)
(* What a table of workflow rows promises when several callers work on it  *)
(* at once.  A caller reads a row, takes one transition of the typed       *)
(* machine, and writes the row without looking again: so a row always      *)
(* shows a stage that a transition leads to from a stage it has had, and   *)
(* not necessarily from the one it showed last.                            *)
(***************************************************************************)
EXTENDS Naturals, Sequences

CONSTANTS
    Initial,  \* the stages a new row may have
    Edges     \* pairs of stages: the machine's transitions

VARIABLES
    stage,    \* the stage each row shows
    reached   \* the stages each row has had

Init == stage = <<>> /\ reached = <<>>

Insert ==
    \E s \in Initial :
      /\ stage' = Append(stage, s)
      /\ reached' = Append(reached, {s})

Move ==
    \E i \in DOMAIN stage, edge \in Edges :
      /\ edge[1] \in reached[i]
      /\ stage' = [stage EXCEPT ![i] = edge[2]]
      /\ reached' = [reached EXCEPT ![i] = @ \cup {edge[2]}]

Next == Insert \/ Move

Spec == Init /\ [][Next]_<<stage, reached>>

-----------------------------------------------------------------------------
\* No stage is skipped: a row that has had a stage has had one from which a
\* transition leads to it, whatever overtook whom.
NoStageIsSkipped ==
    \A i \in DOMAIN reached :
      \A s \in reached[i] : s \in Initial \/ \E r \in reached[i] : <<r, s>> \in Edges
=============================================================================
