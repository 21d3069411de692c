------------------------------ MODULE GraphWalks ------------------------------
(***************************************************************************)
(* legal_walks_from (statum-core/src/testing/walks.rs): a recursive search *)
(* that lists every walk through the graph's metadata, up to a depth and   *)
(* not beyond terminal states.  The call stack is the vector of steps: the *)
(* loops of a frame resume after the choice its callee was made for.       *)
(***************************************************************************)
EXTENDS MachineGraph, FiniteSets

CONSTANTS
  Graphs,     \* the graphs walked on
  MaxDepth    \* bound: the greatest max_depth asked for

VARIABLES
  graph, start, max_depth, terminal_states, include_empty,   \* the Generator
  steps,    \* the choices made, [site, pick] each
  cursor,   \* the loops of the innermost frame
  phase,    \* of the innermost frame
  walks     \* the walks listed so far, by their choices

generator == <<graph, start, max_depth, terminal_states, include_empty>>
vars == <<generator, steps, cursor, phase, walks>>

Choice(site, pick) == [site |-> site, pick |-> pick]

\* Where a walk of these choices ends.
EndOf(choices) ==
  IF choices = <<>> THEN start
  ELSE LET last == choices[Len(choices)] IN graph.transitions[last.site].to[last.pick]

current == EndOf(steps)
Sites == graph.transitions

-----------------------------------------------------------------------------
\* Mutant: the depth is checked as if the walk were already one step longer.
Enter_OneShort ==
  /\ phase = "enter"
  /\ walks' = IF include_empty \/ steps # <<>> THEN Append(walks, steps) ELSE walks
  /\ phase' = IF Len(steps) + 1 >= max_depth \/ current \in terminal_states
              THEN "return" ELSE "loop"
  /\ cursor' = Choice(1, 1)
  /\ UNCHANGED <<generator, steps>>

\* The walk so far is listed, and extended unless it has to stop here.
Enter ==
  /\ phase = "enter"
  /\ walks' = IF include_empty \/ steps # <<>> THEN Append(walks, steps) ELSE walks
  /\ phase' = IF Len(steps) >= max_depth \/ current \in terminal_states
              THEN "return" ELSE "loop"
  /\ cursor' = Choice(1, 1)
  /\ UNCHANGED <<generator, steps>>

\* The next target of a site that starts here: the recursive call.
Descend ==
  /\ phase = "loop"
  /\ cursor.site \in DOMAIN Sites
  /\ Sites[cursor.site].from = current
  /\ cursor.pick \in DOMAIN Sites[cursor.site].to
  /\ steps' = Append(steps, cursor)
  /\ phase' = "enter"
  /\ UNCHANGED <<generator, cursor, walks>>

\* Mutant: the site is not gone past.
NextSite_Same ==
  /\ phase = "loop"
  /\ cursor.site \in DOMAIN Sites
  /\ Sites[cursor.site].from = current => cursor.pick \notin DOMAIN Sites[cursor.site].to
  /\ UNCHANGED vars

\* The site starts elsewhere or has no target left.
NextSite ==
  /\ phase = "loop"
  /\ cursor.site \in DOMAIN Sites
  /\ Sites[cursor.site].from = current => cursor.pick \notin DOMAIN Sites[cursor.site].to
  /\ cursor' = Choice(cursor.site + 1, 1)
  /\ UNCHANGED <<generator, steps, phase, walks>>

NoSiteLeft ==
  /\ phase = "loop"
  /\ cursor.site \notin DOMAIN Sites
  /\ phase' = "return"
  /\ UNCHANGED <<generator, steps, cursor, walks>>

\* Mutant: the caller goes on with its next site instead of its next target.
Return_NextSite ==
  /\ phase = "return"
  /\ \/ /\ steps = <<>>
        /\ phase' = "done"
        /\ UNCHANGED <<steps, cursor>>
     \/ /\ steps # <<>>
        /\ cursor' = Choice(steps[Len(steps)].site + 1, 1)
        /\ steps' = SubSeq(steps, 1, Len(steps) - 1)
        /\ phase' = "loop"
  /\ UNCHANGED <<generator, walks>>

\* Mutant: the caller makes the same choice again.
Return_SameTarget ==
  /\ phase = "return"
  /\ \/ /\ steps = <<>>
        /\ phase' = "done"
        /\ UNCHANGED <<steps, cursor>>
     \/ /\ steps # <<>>
        /\ cursor' = steps[Len(steps)]
        /\ steps' = SubSeq(steps, 1, Len(steps) - 1)
        /\ phase' = "loop"
  /\ UNCHANGED <<generator, walks>>

\* The pop after the recursive call, in the caller's loop.
Return ==
  /\ phase = "return"
  /\ \/ /\ steps = <<>>
        /\ phase' = "done"
        /\ UNCHANGED <<steps, cursor>>
     \/ /\ steps # <<>>
        /\ cursor' = Choice(steps[Len(steps)].site, steps[Len(steps)].pick + 1)
        /\ steps' = SubSeq(steps, 1, Len(steps) - 1)
        /\ phase' = "loop"
  /\ UNCHANGED <<generator, walks>>

-----------------------------------------------------------------------------
DefaultDepth(g) == IF g.states = {} THEN 0 ELSE Cardinality(g.states) - 1

\* Any legal_walks_from(graph, start) and any setting of its builder.
Init ==
  /\ graph \in Graphs
  /\ start \in StateIds
  /\ max_depth \in {DefaultDepth(graph)} \cup 0 .. MaxDepth
  /\ terminal_states \in SUBSET StateIds
  /\ include_empty \in BOOLEAN
  /\ steps = <<>>
  /\ cursor = Choice(1, 1)
  /\ phase = IF start \in graph.states THEN "enter" ELSE "done"
  /\ walks = <<>>

Next == Enter \/ Descend \/ NextSite \/ NoSiteLeft \/ Return

Spec == Init /\ [][Next]_vars

\* into_iter runs until it returns.
FairSpec == Spec /\ WF_vars(Next)

-----------------------------------------------------------------------------
Choices == [site : DOMAIN Sites, pick : UNION {DOMAIN Sites[i].to : i \in DOMAIN Sites}]

\* A walk as its documentation describes it: each step starts where the walk
\* has come to, at a state that is not a stop, and takes one of its targets.
LegalWalk(w) ==
  /\ Len(w) <= max_depth
  /\ \A i \in DOMAIN w :
       LET at == EndOf(SubSeq(w, 1, i - 1))
       IN  /\ at \notin terminal_states
           /\ Sites[w[i].site].from = at
           /\ w[i].pick \in DOMAIN Sites[w[i].site].to

\* v is listed before w: w extends it, or it takes the earlier choice where they part.
Precedes(v, w) ==
  \/ Len(v) < Len(w) /\ v = SubSeq(w, 1, Len(v))
  \/ \E i \in DOMAIN v \cap DOMAIN w :
       /\ SubSeq(v, 1, i - 1) = SubSeq(w, 1, i - 1)
       /\ \/ v[i].site < w[i].site
          \/ v[i].site = w[i].site /\ v[i].pick < w[i].pick

Listed == {walks[i] : i \in DOMAIN walks}

TypeOK ==
  /\ graph \in Graphs
  /\ start \in StateIds
  /\ steps \in Seq(Choices)
  /\ Len(steps) <= max_depth
  /\ cursor \in [site : Nat \ {0}, pick : Nat \ {0}]
  /\ phase \in {"enter", "loop", "return", "done"}
  /\ walks \in Seq(Seq(Choices))

AllLegalWalksAreListed ==
  phase = "done" =>
    Listed = IF start \notin graph.states THEN {}
             ELSE {w \in UNION {[1 .. n -> Choices] : n \in 0 .. max_depth} :
                     LegalWalk(w) /\ (include_empty \/ w # <<>>)}

ListedInOrder ==
  \A i, j \in DOMAIN walks : i < j => Precedes(walks[i], walks[j])

\* Every legal walk is listed and no other: the generator "branches over every
\* declared legal target for each transition site and stops at max_depth or a
\* caller-declared terminal state" (walks.rs:49-52).  None is listed twice, and
\* each comes after the walks it extends and before those that choose later
\* sites or targets: the stack of steps is popped to exactly what it was
\* (walks.rs:96-124).
EachLegalWalkIsListedOnce == AllLegalWalksAreListed /\ ListedInOrder

\* The default depth misses nothing: when all targets are declared, the walks
\* from a state end in every state that assert_path can reach from it.
DefaultDepthReachesAll ==
  /\ phase = "done"
  /\ start \in graph.states
  /\ \A s \in StateIds : legal(graph, s) \subseteq graph.states
  /\ max_depth = DefaultDepth(graph)
  /\ terminal_states = {} /\ include_empty
  => {EndOf(w) : w \in Listed} = {s \in StateIds : Reaches(graph, start, s)}

\* Cycles do not keep the search going.
GenerationEnds == <>(phase = "done")

=============================================================================
