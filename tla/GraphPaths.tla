------------------------------ MODULE GraphPaths ------------------------------
(***************************************************************************)
(* graph_has_path (statum-core/src/testing/graph.rs), the search behind    *)
(* assert_path and assert_no_path: depth first, over a stack that may hold *)
(* a state more than once and states visited since they were pushed.       *)
(***************************************************************************)
EXTENDS MachineGraph

CONSTANT Graphs   \* the graphs asked about

VARIABLES
  graph, from, target,   \* the arguments
  visited, pending,      \* the two vectors
  site, left,            \* the nested loops: a site, and how many of its targets
                         \* are still to be pushed; no site between two pops
  verdict

arguments == <<graph, from, target>>
vars == <<arguments, visited, pending, site, left, verdict>>

NoSite == 0

ASSUME GraphsAssumption == Graphs \subseteq MachineGraphs

Contains(seq, s) == \E i \in DOMAIN seq : seq[i] = s
Sites == graph.transitions

\* The state being expanded, in the loops.
current == visited[Len(visited)]

\* Go to site i of the filtered iteration of state s, or out of it.
Goto(i, s) ==
  \/ /\ i \in DOMAIN Sites
     /\ site' = i
     /\ left' = IF Sites[i].from = s THEN Len(Sites[i].to) ELSE 0
  \/ /\ i \notin DOMAIN Sites
     /\ site' = NoSite
     /\ left' = 0

-----------------------------------------------------------------------------
AtPop == verdict = "searching" /\ site = NoSite /\ pending # <<>>
Popped == pending[Len(pending)]
Pop == pending' = SubSeq(pending, 1, Len(pending) - 1)

\* Mutant: the state is looked at and left on the stack.
Skip_Peek ==
  /\ AtPop
  /\ Contains(visited, Popped)
  /\ UNCHANGED vars

Skip ==
  /\ AtPop
  /\ Contains(visited, Popped)
  /\ Pop
  /\ UNCHANGED <<arguments, visited, site, left, verdict>>

Found ==
  /\ AtPop
  /\ ~Contains(visited, Popped)
  /\ Popped = target
  /\ Pop
  /\ verdict' = "path"
  /\ UNCHANGED <<arguments, visited, site, left>>

Visit ==
  /\ AtPop
  /\ ~Contains(visited, Popped)
  /\ Popped # target
  /\ Pop
  /\ visited' = Append(visited, Popped)
  /\ Goto(1, Popped)
  /\ UNCHANGED <<arguments, verdict>>

\* The targets of a site are pushed from the last to the first.
Push ==
  LET candidate == Sites[site].to[left]
  IN  /\ site # NoSite
      /\ left > 0
      /\ left' = left - 1
      /\ pending' = IF Contains(visited, candidate) THEN pending ELSE Append(pending, candidate)
      /\ UNCHANGED <<arguments, visited, site, verdict>>

\* Mutant: only the first site of a state is followed.
NextSite_FirstOnly ==
  /\ site # NoSite
  /\ left = 0
  /\ IF Sites[site].from = current THEN site' = NoSite /\ left' = 0
                                   ELSE Goto(site + 1, current)
  /\ UNCHANGED <<arguments, visited, pending, verdict>>

NextSite ==
  /\ site # NoSite
  /\ left = 0
  /\ Goto(site + 1, current)
  /\ UNCHANGED <<arguments, visited, pending, verdict>>

Exhausted ==
  /\ verdict = "searching" /\ site = NoSite /\ pending = <<>>
  /\ verdict' = "no path"
  /\ UNCHANGED <<arguments, visited, pending, site, left>>

-----------------------------------------------------------------------------
Init ==
  /\ graph \in Graphs
  /\ from \in StateIds
  /\ target \in StateIds
  /\ visited = <<>>
  /\ pending = <<from>>
  /\ site = NoSite
  /\ left = 0
  /\ verdict = IF {from, target} \subseteq graph.states THEN "searching" ELSE "no path"

Next == Skip \/ Found \/ Visit \/ Push \/ NextSite \/ Exhausted

Spec == Init /\ [][Next]_vars

\* The loop of a function that was called runs on.
FairSpec == Spec /\ WF_vars(Next)

-----------------------------------------------------------------------------
TypeOK ==
  /\ graph \in Graphs
  /\ {from, target} \subseteq StateIds
  /\ visited \in Seq(StateIds)
  /\ pending \in Seq(StateIds)
  /\ \/ site = NoSite /\ left = 0
     \/ site \in DOMAIN Sites /\ left \in 0 .. Len(Sites[site].to)
  /\ verdict \in {"searching", "path", "no path"}

\* The search answers "path" exactly when both states are declared and some
\* path, of any length and zero too, leads from one to the other, whatever
\* cycles, branches, repeated targets and undeclared states the graph has
\* (testing/graph.rs:285-318).
VerdictIsReachability ==
  verdict # "searching" =>
    (verdict = "path" <=> {from, target} \subseteq graph.states /\ Reaches(graph, from, target))

\* The search ends on every graph, cyclic ones too.
SearchEnds == <>(verdict # "searching")

=============================================================================
