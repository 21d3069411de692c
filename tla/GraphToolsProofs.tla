--------------------------- MODULE GraphToolsProofs ---------------------------
(***************************************************************************)
(* The two searches of the graph testing tools are right on every graph,   *)
(* and every view of a graph tells it.                                     *)
(*                                                                         *)
(* graph_has_path: the set of the visited states grows towards a closed    *)
(* one.  Whatever is legal from a state that has been expanded is visited  *)
(* or pending, so that a search that runs out of pending states leaves a   *)
(* closed set behind, with the source in it and the target not.            *)
(*                                                                         *)
(* legal_walks_from: the walks that exist are ordered, a walk before those *)
(* that extend it and an earlier choice before a later one.  The steps and *)
(* the cursor are a place in that order, and the legal walks before it are *)
(* the ones listed.                                                        *)
(*                                                                         *)
(* The views: each is a recursion over the sites, the edges or the states  *)
(* of one document, and each is measured by the graph itself.  The lint's  *)
(* list of reachable states has no repetition, so that the cursor has gone *)
(* past all of it after as many steps as there are states: it is closed.   *)
(***************************************************************************)
EXTENDS MCGraphTools, FiniteSetTheorems, TLAPS

\* A state the search will not forget.
Kept(s) == Contains(visited, s) \/ Contains(pending, s)

\* Whatever is visited or pending is reached by every path's closure.
OnlyReached ==
  \A C \in SUBSET StateIds : from \in C /\ Closed(graph, C) => \A s \in StateIds : Kept(s) => s \in C

\* The states whose expansion is over.
Expanded(s) == Contains(visited, s) /\ (site = NoSite \/ s # current)
ExpandedKept == \A s \in StateIds : Expanded(s) => \A t \in legal(graph, s) : Kept(t)

\* The target at place n of site i has been gone past.
Passed(i, n) == i < site \/ (i = site /\ n > left)
PassedKept ==
  site # NoSite =>
    /\ visited # <<>>
    /\ left > 0 => Sites[site].from = current
    /\ \A i \in transitions_from(graph, current) : \A n \in DOMAIN Sites[i].to :
         Passed(i, n) => Kept(Sites[i].to[n])

Search ==
  /\ {from, target} \subseteq graph.states
  /\ ~Contains(visited, target)
  /\ Kept(from)
  /\ OnlyReached
  /\ ExpandedKept
  /\ PassedKept

IInv ==
  /\ TypeOK
  /\ verdict = "searching" => Search
  /\ verdict # "searching" => site = NoSite
  /\ VerdictIsReachability

-----------------------------------------------------------------------------
LEMMA GraphShape ==
  ASSUME NEW g \in Graphs
  PROVE  /\ g \in MachineGraphs
         /\ g.transitions \in Seq(TransitionDescriptors)
         /\ \A i \in DOMAIN g.transitions :
              /\ g.transitions[i].from \in StateIds
              /\ g.transitions[i].to \in Seq(StateIds)
  <1>1. g \in MachineGraphs
    BY GraphsAssumption
  <1>2. g.transitions \in Seq(TransitionDescriptors)
    BY <1>1 DEF MachineGraphs
  <1>3. \A i \in DOMAIN g.transitions : g.transitions[i] \in TransitionDescriptors
    BY <1>2
  <1> QED BY <1>1, <1>2, <1>3 DEF TransitionDescriptors

LEMMA LegalStates ==
  ASSUME NEW g \in Graphs, NEW s, NEW t \in legal(g, s)
  PROVE  /\ t \in StateIds
         /\ \E i \in transitions_from(g, s) : \E n \in DOMAIN g.transitions[i].to : t = g.transitions[i].to[n]
  <1>1. PICK i \in transitions_from(g, s) : \E n \in DOMAIN g.transitions[i].to : t = g.transitions[i].to[n]
    BY DEF legal
  <1>2. i \in DOMAIN g.transitions /\ g.transitions[i].to \in Seq(StateIds)
    BY GraphShape DEF transitions_from
  <1> QED BY <1>1, <1>2

\* The stack and the list of the visited, as sets.
LEMMA AppendContains ==
  ASSUME NEW S, NEW seq \in Seq(S), NEW x \in S, NEW s
  PROVE  Contains(Append(seq, x), s) <=> Contains(seq, s) \/ s = x
  <1>1. /\ Len(Append(seq, x)) = Len(seq) + 1 /\ Len(seq) \in Nat
        /\ \A i \in 1 .. Len(seq) : Append(seq, x)[i] = seq[i]
        /\ Append(seq, x)[Len(seq) + 1] = x
        /\ DOMAIN Append(seq, x) = 1 .. (Len(seq) + 1)
        /\ DOMAIN seq = 1 .. Len(seq)
    OBVIOUS
  <1> QED BY <1>1 DEF Contains

LEMMA PopContains ==
  ASSUME TypeOK, AtPop, Pop
  PROVE  /\ Popped \in StateIds
         /\ pending' \in Seq(StateIds)
         /\ \A s : Contains(pending, s) <=> Contains(pending', s) \/ s = Popped
  <1>1. pending \in Seq(StateIds) /\ pending # <<>>
    BY DEF TypeOK, AtPop
  <1>2. Len(pending) \in Nat /\ Len(pending) > 0 /\ DOMAIN pending = 1 .. Len(pending)
    BY <1>1
  <1>3. /\ pending' \in Seq(StateIds)
        /\ DOMAIN pending' = 1 .. (Len(pending) - 1)
        /\ \A i \in 1 .. (Len(pending) - 1) : pending'[i] = pending[i]
    BY <1>1, <1>2 DEF Pop
  <1>4. Popped \in StateIds
    BY <1>1, <1>2 DEF Popped
  <1>5. ASSUME NEW s PROVE Contains(pending, s) <=> Contains(pending', s) \/ s = Popped
    BY <1>2, <1>3 DEF Contains, Popped
  <1> QED BY <1>3, <1>4, <1>5

\* The iteration goes to the next site or is over.
LEMMA GotoSite ==
  ASSUME graph \in Graphs, NEW i \in Nat \ {0}, NEW s, Goto(i, s)
  PROVE  \/ /\ site' = i /\ i \in DOMAIN Sites
            /\ left' \in 0 .. Len(Sites[i].to)
            /\ left' > 0 => Sites[i].from = s
            /\ Sites[i].from = s => left' = Len(Sites[i].to)
         \/ site' = NoSite /\ left' = 0 /\ i \notin DOMAIN Sites
  <1>1. \A j \in DOMAIN Sites : Len(Sites[j].to) \in Nat
    BY GraphShape DEF Sites
  <1> QED BY <1>1 DEF Goto

LEMMA ShortSequences ==
  ASSUME NEW S, NEW x \in S
  PROVE  /\ <<>> \in Seq(S) /\ Len(<<>>) = 0
         /\ <<x>> \in Seq(S) /\ Len(<<x>>) = 1 /\ <<x>>[1] = x
  OBVIOUS

LEMMA InitInv == Init => IInv
  <1> SUFFICES ASSUME Init PROVE IInv
    OBVIOUS
  <1>0. /\ visited = <<>> /\ pending = <<from>> /\ from \in StateIds /\ target \in StateIds
        /\ site = NoSite /\ left = 0 /\ graph \in Graphs
        /\ verdict \in {"searching", "no path"}
    BY DEF Init
  <1>a. /\ visited \in Seq(StateIds) /\ Len(visited) = 0 /\ DOMAIN visited = {}
        /\ pending \in Seq(StateIds) /\ Len(pending) = 1 /\ pending[1] = from
    <2>1. visited \in Seq(StateIds) /\ Len(visited) = 0
      BY <1>0, ShortSequences
    <2>2. pending \in Seq(StateIds) /\ Len(pending) = 1 /\ pending[1] = from
      BY <1>0, ShortSequences
    <2>3. DOMAIN visited = {}
      BY <2>1
    <2> QED BY <2>1, <2>2, <2>3
  <1>1. TypeOK
    BY <1>0, <1>a DEF TypeOK
  <1>3. \A s : ~Contains(visited, s)
    BY <1>a DEF Contains
  <1>2. \A s : Kept(s) <=> s = from
    <2>1. DOMAIN pending = {1}
      BY <1>a
    <2> QED BY <1>3, <1>a, <2>1 DEF Kept, Contains
  <1>4. verdict = "searching" => Search
    <2>1. OnlyReached
      BY <1>2 DEF OnlyReached
    <2>2. ExpandedKept
      BY <1>3 DEF ExpandedKept, Expanded
    <2>3. PassedKept
      BY DEF Init, PassedKept
    <2> QED BY <1>2, <1>3, <2>1, <2>2, <2>3 DEF Init, Search
  <1>5. site = NoSite
    BY DEF Init
  <1>6. VerdictIsReachability
    BY DEF Init, VerdictIsReachability
  <1> QED BY <1>1, <1>4, <1>5, <1>6 DEF IInv

-----------------------------------------------------------------------------
\* A state that is visited already leaves the stack.
LEMMA SkipInv == ASSUME IInv, Skip PROVE IInv'
  <1>0. TypeOK /\ AtPop /\ Pop /\ Search
    BY DEF IInv, Skip, AtPop
  <1>1. UNCHANGED <<graph, from, target, visited, site, left, verdict>>
    BY DEF Skip, arguments
  <1>2. \A s : Kept(s) <=> Kept(s)'
    <2>1. \A s : Contains(visited, s)' <=> Contains(visited, s)
      BY <1>1 DEF Contains
    <2>2. \A s : Contains(pending, s) <=> Contains(pending, s)' \/ s = Popped
      BY <1>0, PopContains DEF Contains
    <2>3. Contains(visited, Popped)
      BY DEF Skip
    <2> QED BY <2>1, <2>2, <2>3 DEF Kept
  <1>3. TypeOK'
    BY <1>0, <1>1, PopContains DEF TypeOK, Sites
  <1>4. Search'
    <2>1. Kept(from)' /\ OnlyReached'
      BY <1>0, <1>1, <1>2 DEF Search, OnlyReached
    <2>2. ExpandedKept'
      BY <1>0, <1>1, <1>2 DEF Search, ExpandedKept, Expanded, Contains, current
    <2>3. PassedKept'
      BY <1>0, <1>1 DEF AtPop, PassedKept
    <2>4. ~Contains(visited, target)'
      BY <1>0, <1>1 DEF Search, Contains
    <2> QED BY <1>0, <1>1, <2>1, <2>2, <2>3, <2>4 DEF Search
  <1> QED BY <1>0, <1>1, <1>3, <1>4 DEF IInv, AtPop, VerdictIsReachability

\* The target was popped: it is in every closed set the source is in.
LEMMA FoundInv == ASSUME IInv, Found PROVE IInv'
  <1>0. TypeOK /\ AtPop /\ Pop /\ Search
    BY DEF IInv, Found, AtPop
  <1>1. UNCHANGED <<graph, from, target, visited, site, left>> /\ verdict' = "path"
    BY DEF Found, arguments
  <1>2. TypeOK'
    BY <1>0, <1>1, PopContains DEF TypeOK, Sites
  <1>3. Kept(target) /\ target \in StateIds
    BY <1>0, PopContains DEF Found, Kept
  <1>4. Reaches(graph, from, target)
    BY <1>0, <1>3 DEF Search, OnlyReached, Reaches
  <1>5. VerdictIsReachability'
    BY <1>0, <1>1, <1>4 DEF VerdictIsReachability, Search
  <1> QED BY <1>0, <1>1, <1>2, <1>5 DEF IInv, AtPop

\* A new state moves from the stack to the visited.
LEMMA VisitInv == ASSUME IInv, Visit PROVE IInv'
  <1>0. /\ TypeOK /\ AtPop /\ Pop /\ Search
        /\ ~Contains(visited, Popped) /\ Popped # target
    BY DEF IInv, Visit, AtPop
  <1>1. UNCHANGED <<graph, from, target, verdict>> /\ visited' = Append(visited, Popped)
    BY DEF Visit, arguments
  <1>2. /\ \A s : Contains(visited, s)' <=> Contains(visited, s) \/ s = Popped
        /\ \A s : Kept(s) <=> Kept(s)'
    <2>1. Popped \in StateIds /\ visited \in Seq(StateIds)
      BY <1>0, PopContains DEF TypeOK
    <2>2. \A s : Contains(visited, s)' <=> Contains(visited, s) \/ s = Popped
      BY <1>1, <2>1, AppendContains DEF Contains
    <2>3. \A s : Contains(pending, s) <=> Contains(pending, s)' \/ s = Popped
      BY <1>0, PopContains DEF Contains
    <2> QED BY <2>2, <2>3 DEF Kept
  <1>3. current' = Popped /\ visited' # <<>> /\ visited' \in Seq(StateIds)
    <2>1. visited \in Seq(StateIds) /\ Popped \in StateIds
      BY <1>0, PopContains DEF TypeOK
    <2>2. Len(visited') = Len(visited) + 1 /\ visited'[Len(visited) + 1] = Popped
      BY <1>1, <2>1
    <2> QED BY <1>1, <2>1, <2>2 DEF current
  <1>4. \/ /\ site' = 1 /\ 1 \in DOMAIN Sites
           /\ left' \in 0 .. Len(Sites[1].to)
           /\ left' > 0 => Sites[1].from = Popped
           /\ Sites[1].from = Popped => left' = Len(Sites[1].to)
        \/ site' = NoSite /\ left' = 0 /\ 1 \notin DOMAIN Sites
    <2>1. graph \in Graphs
      BY <1>0 DEF TypeOK
    <2>2. Goto(1, Popped)
      BY DEF Visit
    <2>3. 1 \in Nat \ {0}
      OBVIOUS
    <2> QED BY <2>1, <2>2, <2>3, GotoSite
  <1>5. TypeOK'
    BY <1>0, <1>1, <1>3, <1>4, PopContains DEF TypeOK, Sites
  <1>6. Search'
    <2>1. Kept(from)' /\ OnlyReached'
      BY <1>0, <1>1, <1>2 DEF Search, OnlyReached
    <2>2. ExpandedKept'
      <3> SUFFICES ASSUME NEW s \in StateIds, Expanded(s)', NEW t \in legal(graph, s)
                   PROVE  Kept(t)'
        BY <1>1 DEF ExpandedKept
      <3>1. CASE s = Popped
        <4>1. 1 \notin DOMAIN Sites
          BY <1>3, <1>4, <3>1 DEF Expanded, NoSite
        <4>2. Sites \in Seq(TransitionDescriptors)
          BY <1>0, GraphShape DEF TypeOK, Sites
        <4>3. DOMAIN Sites = {}
          BY <4>1, <4>2
        <4>4. legal(graph, s) = {}
          BY <4>3 DEF legal, transitions_from, Sites
        <4> QED BY <4>4
      <3>2. CASE s # Popped
        <4>1. Contains(visited, s)
          BY <1>2, <3>2 DEF Expanded, Contains
        <4>2. Kept(t)
          BY <1>0, <4>1 DEF Search, ExpandedKept, Expanded, AtPop
        <4> QED BY <1>2, <4>2
      <3> QED BY <3>1, <3>2
    <2>3. PassedKept'
      <3> SUFFICES ASSUME site' # NoSite PROVE PassedKept'
        BY DEF PassedKept
      <3>1. /\ site' = 1
            /\ left' > 0 => Sites[1].from = Popped
            /\ Sites[1].from = Popped => left' = Len(Sites[1].to)
        BY <1>4
      <3>2. \A i \in transitions_from(graph, Popped) : \A n \in DOMAIN Sites[i].to : ~Passed(i, n)'
        <4> SUFFICES ASSUME NEW i \in transitions_from(graph, Popped), NEW n \in DOMAIN Sites[i].to,
                            Passed(i, n)'
                     PROVE  FALSE
          OBVIOUS
        <4>1. Sites \in Seq(TransitionDescriptors) /\ i \in DOMAIN Sites /\ Sites[i].from = Popped
          BY <1>0, GraphShape DEF TypeOK, Sites, transitions_from
        <4>2. i \in Nat /\ i >= 1
          BY <4>1
        <4>3. i = 1 /\ n > left'
          BY <3>1, <4>2 DEF Passed
        <4>4. Sites[i].to \in Seq(StateIds)
          BY <1>0, <4>1, GraphShape DEF TypeOK, Sites
        <4> QED BY <3>1, <4>1, <4>3, <4>4
      <3>3. Sites' = Sites
        BY <1>1 DEF Sites
      <3> QED BY <1>1, <1>3, <3>1, <3>2, <3>3 DEF PassedKept
    <2>4. ~Contains(visited, target)'
      BY <1>0, <1>1, <1>2 DEF Search, Contains
    <2> QED BY <1>0, <1>1, <2>1, <2>2, <2>3, <2>4 DEF Search
  <1> QED BY <1>0, <1>1, <1>5, <1>6 DEF IInv, AtPop, VerdictIsReachability

\* A target of the state being expanded is pushed, or is visited already.
LEMMA PushInv == ASSUME IInv, Push PROVE IInv'
  <1> DEFINE candidate == Sites[site].to[left]
  <1>0. TypeOK /\ site # NoSite /\ left > 0 /\ verdict = "searching" /\ Search
    BY DEF IInv, Push
  <1>1. /\ UNCHANGED <<graph, from, target, visited, site, verdict>>
        /\ left' = left - 1
        /\ pending' = IF Contains(visited, candidate) THEN pending ELSE Append(pending, candidate)
    BY DEF Push, arguments
  <1>2. /\ site \in DOMAIN Sites /\ left \in 1 .. Len(Sites[site].to)
        /\ Sites[site].to \in Seq(StateIds) /\ candidate \in StateIds
        /\ Sites[site].from = current
    <2>1. site \in DOMAIN Sites /\ left \in 1 .. Len(Sites[site].to)
      BY <1>0 DEF TypeOK
    <2>2. Sites[site].to \in Seq(StateIds)
      BY <1>0, <2>1, GraphShape DEF TypeOK, Sites
    <2> QED BY <1>0, <2>1, <2>2 DEF Search, PassedKept
  <1>3. \A s : Kept(s)' <=> Kept(s) \/ s = candidate
    <2>1. \A s : Contains(visited, s)' <=> Contains(visited, s)
      BY <1>1 DEF Contains
    <2>2. pending \in Seq(StateIds)
      BY <1>0 DEF TypeOK
    <2>3. CASE Contains(visited, candidate)
      BY <1>1, <2>1, <2>3 DEF Kept, Contains
    <2>4. CASE ~Contains(visited, candidate)
      <3>1. \A s : Contains(pending, s)' <=> Contains(pending, s) \/ s = candidate
        BY <1>1, <1>2, <2>2, <2>4, AppendContains DEF Contains
      <3> QED BY <2>1, <3>1 DEF Kept
    <2> QED BY <2>3, <2>4
  <1>4. TypeOK'
    <2>1. pending' \in Seq(StateIds)
      BY <1>0, <1>1, <1>2 DEF TypeOK
    <2>2. left' \in 0 .. Len(Sites[site].to)
      BY <1>1, <1>2
    <2> QED BY <1>0, <1>1, <1>2, <2>1, <2>2 DEF TypeOK, Sites
  <1>5. Search'
    <2>1. current \in StateIds /\ Contains(visited, current) /\ site \in transitions_from(graph, current)
      <3>1. visited \in Seq(StateIds) /\ visited # <<>>
        BY <1>0 DEF TypeOK, Search, PassedKept
      <3>2. Len(visited) \in DOMAIN visited
        BY <3>1
      <3> QED BY <1>2, <3>1, <3>2 DEF current, Contains, transitions_from, Sites
    <2>2. candidate \in legal(graph, current)
      <3>1. left \in DOMAIN graph.transitions[site].to
        BY <1>2 DEF Sites
      <3> QED BY <2>1, <3>1 DEF legal, Sites
    <2>3. OnlyReached'
      <3> SUFFICES ASSUME NEW C \in SUBSET StateIds, from \in C, Closed(graph, C),
                          NEW s \in StateIds, Kept(s) \/ s = candidate
                   PROVE  s \in C
        BY <1>1, <1>3 DEF OnlyReached
      <3>1. current \in C
        BY <1>0, <2>1 DEF Search, OnlyReached, Kept
      <3>2. candidate \in C
        BY <2>2, <3>1 DEF Closed
      <3> QED BY <1>0, <3>2 DEF Search, OnlyReached
    <2>4. ExpandedKept'
      BY <1>0, <1>1, <1>3 DEF Search, ExpandedKept, Expanded, Contains, current
    <2>5. PassedKept'
      <3>1. Sites' = Sites /\ current' = current /\ visited # <<>>
        BY <1>0, <1>1 DEF Sites, current, Search, PassedKept
      <3>2. ASSUME NEW i \in transitions_from(graph, current), NEW n \in DOMAIN Sites[i].to, Passed(i, n)'
            PROVE  Kept(Sites[i].to[n])'
        <4>1. n \in Nat
          <5>1. i \in DOMAIN graph.transitions
            BY <3>2 DEF transitions_from
          <5>2. Sites[i].to \in Seq(StateIds)
            BY <1>0, <5>1, GraphShape DEF TypeOK, Sites
          <5> QED BY <5>2
        <4>2. Passed(i, n) \/ (i = site /\ n = left)
          BY <1>1, <1>2, <3>2, <4>1 DEF Passed
        <4>3. Passed(i, n) => Kept(Sites[i].to[n])
          BY <1>0 DEF Search, PassedKept
        <4> QED BY <1>3, <3>1, <4>2, <4>3
      <3> QED BY <1>0, <1>1, <1>2, <3>1, <3>2 DEF PassedKept
    <2>6. Kept(from)' /\ ~Contains(visited, target)'
      BY <1>0, <1>1, <1>3 DEF Search, Contains
    <2> QED BY <1>0, <1>1, <2>3, <2>4, <2>5, <2>6 DEF Search
  <1> QED BY <1>0, <1>1, <1>4, <1>5 DEF IInv, VerdictIsReachability

\* A site is done; with the last one, the state is.
LEMMA NextSiteInv == ASSUME IInv, NextSite PROVE IInv'
  <1>0. TypeOK /\ site # NoSite /\ left = 0 /\ verdict = "searching" /\ Search
    BY DEF IInv, NextSite
  <1>1. UNCHANGED <<graph, from, target, visited, pending, verdict>>
    BY DEF NextSite, arguments
  <1>2. Sites \in Seq(TransitionDescriptors) /\ site \in DOMAIN Sites /\ site \in Nat \ {0}
    BY <1>0, GraphShape DEF TypeOK, Sites
  <1>3. \/ /\ site' = site + 1 /\ site + 1 \in DOMAIN Sites
           /\ left' \in 0 .. Len(Sites[site + 1].to)
           /\ left' > 0 => Sites[site + 1].from = current
           /\ Sites[site + 1].from = current => left' = Len(Sites[site + 1].to)
        \/ site' = NoSite /\ left' = 0 /\ site + 1 \notin DOMAIN Sites
    BY <1>0, <1>2, GotoSite DEF NextSite, TypeOK
  <1>4. \A s : Kept(s)' <=> Kept(s)
    BY <1>1 DEF Kept, Contains
  <1>5. TypeOK'
    BY <1>0, <1>1, <1>3 DEF TypeOK, Sites
  <1>6. \A i \in transitions_from(graph, current) : \A n \in DOMAIN Sites[i].to :
          i <= site => Kept(Sites[i].to[n])
    <2> SUFFICES ASSUME NEW i \in transitions_from(graph, current), NEW n \in DOMAIN Sites[i].to, i <= site
                 PROVE  Kept(Sites[i].to[n])
      OBVIOUS
    <2>1. i \in DOMAIN Sites /\ i \in Nat
      BY <1>2 DEF transitions_from, Sites
    <2>2. Sites[i].to \in Seq(StateIds)
      BY <1>0, <2>1, GraphShape DEF TypeOK, Sites
    <2>3. Passed(i, n)
      BY <1>0, <1>2, <2>1, <2>2 DEF Passed
    <2> QED BY <1>0, <2>3 DEF Search, PassedKept
  <1>7. Search'
    <2>1. ExpandedKept'
      <3> SUFFICES ASSUME NEW s \in StateIds, Expanded(s)', NEW t \in legal(graph, s)
                   PROVE  Kept(t)
        BY <1>1, <1>4 DEF ExpandedKept
      <3>1. Contains(visited, s) /\ (site' = NoSite \/ s # current)
        BY <1>1 DEF Expanded, Contains, current
      <3>2. CASE s # current
        BY <1>0, <3>1, <3>2 DEF Search, ExpandedKept, Expanded
      <3>3. CASE s = current /\ site' = NoSite
        <4>1. PICK i \in transitions_from(graph, s) : \E n \in DOMAIN graph.transitions[i].to :
                      t = graph.transitions[i].to[n]
          BY <1>0, LegalStates DEF TypeOK
        <4>2. i \in DOMAIN Sites
          BY <4>1 DEF transitions_from, Sites
        <4>3. i <= site
          BY <1>2, <1>3, <3>3, <4>2 DEF NoSite
        <4> QED BY <1>6, <3>3, <4>1, <4>3 DEF Sites
      <3> QED BY <3>1, <3>2, <3>3
    <2>2. PassedKept'
      <3> SUFFICES ASSUME site' # NoSite PROVE PassedKept'
        BY DEF PassedKept
      <3>1. /\ site' = site + 1
            /\ left' > 0 => Sites[site + 1].from = current
            /\ Sites[site + 1].from = current => left' = Len(Sites[site + 1].to)
        BY <1>3
      <3>2. Sites' = Sites /\ current' = current /\ visited # <<>>
        BY <1>0, <1>1 DEF Sites, current, Search, PassedKept
      <3>3. ASSUME NEW i \in transitions_from(graph, current), NEW n \in DOMAIN Sites[i].to, Passed(i, n)'
            PROVE  Kept(Sites[i].to[n])
        <4>1. i \in DOMAIN Sites /\ i \in Nat /\ Sites[i].from = current
          BY <1>2, <3>3 DEF transitions_from, Sites
        <4>2. Sites[i].to \in Seq(StateIds)
          BY <1>0, <4>1, GraphShape DEF TypeOK, Sites
        <4>3. i <= site \/ (i = site + 1 /\ n > left')
          BY <1>2, <3>1, <3>3, <4>1 DEF Passed
        <4>4. i # site + 1
          BY <3>1, <4>1, <4>2, <4>3, <1>2
        <4> QED BY <1>6, <4>3, <4>4
      <3> QED BY <1>1, <1>4, <3>1, <3>2, <3>3 DEF PassedKept
    <2>3. OnlyReached' /\ Kept(from)' /\ ~Contains(visited, target)'
      BY <1>0, <1>1, <1>4 DEF Search, OnlyReached, Contains
    <2> QED BY <1>0, <1>1, <2>1, <2>2, <2>3 DEF Search
  <1> QED BY <1>0, <1>1, <1>5, <1>7 DEF IInv, VerdictIsReachability

\* Nothing is pending: the visited states are closed.
LEMMA ExhaustedInv == ASSUME IInv, Exhausted PROVE IInv'
  <1>0. TypeOK /\ verdict = "searching" /\ site = NoSite /\ pending = <<>> /\ Search
    BY DEF IInv, Exhausted
  <1>1. UNCHANGED <<graph, from, target, visited, pending, site, left>> /\ verdict' = "no path"
    BY DEF Exhausted, arguments
  <1>2. TypeOK'
    BY <1>0, <1>1 DEF TypeOK, Sites
  <1> DEFINE C == {s \in StateIds : Contains(visited, s)}
  <1>3. \A s : Kept(s) <=> Contains(visited, s)
    BY <1>0 DEF Kept, Contains
  <1>4. Closed(graph, C)
    <2> SUFFICES ASSUME NEW s \in C, NEW t \in legal(graph, s) PROVE t \in C
      BY DEF Closed
    <2>1. t \in StateIds
      BY <1>0, LegalStates DEF TypeOK
    <2>2. Kept(t)
      BY <1>0 DEF Search, ExpandedKept, Expanded
    <2> QED BY <1>3, <2>1, <2>2
  <1>5. from \in C /\ target \notin C
    BY <1>0, <1>3 DEF Search, TypeOK
  <1>6. ~Reaches(graph, from, target)
    BY <1>4, <1>5 DEF Reaches
  <1>7. VerdictIsReachability'
    BY <1>1, <1>6 DEF VerdictIsReachability
  <1> QED BY <1>0, <1>1, <1>2, <1>7 DEF IInv

LEMMA StepInv == IInv /\ [Next]_vars => IInv'
  <1>1. ASSUME IInv, UNCHANGED vars PROVE IInv'
    <2>1. UNCHANGED <<graph, from, target, visited, pending, site, left, verdict>>
      BY <1>1 DEF vars, arguments
    <2>2. UNCHANGED <<Sites, current>> /\ \A s : /\ Contains(visited, s)' <=> Contains(visited, s)
                                              /\ Kept(s)' <=> Kept(s)
      BY <2>1 DEF Sites, current, Kept, Contains
    <2>3. \A i, n : Passed(i, n)' <=> Passed(i, n)
      BY <2>1 DEF Passed
    <2>4. TypeOK' /\ VerdictIsReachability'
      BY <1>1, <2>1, <2>2 DEF IInv, TypeOK, VerdictIsReachability
    <2>5. OnlyReached => OnlyReached'
      BY <2>1, <2>2 DEF OnlyReached
    <2>6. ExpandedKept => ExpandedKept'
      BY <2>1, <2>2 DEF ExpandedKept, Expanded
    <2>7. PassedKept => PassedKept'
      BY <2>1, <2>2, <2>3 DEF PassedKept
    <2> QED BY <1>1, <2>1, <2>2, <2>4, <2>5, <2>6, <2>7 DEF IInv, Search
  <1> QED BY <1>1, SkipInv, FoundInv, VisitInv, PushInv, NextSiteInv, ExhaustedInv DEF Next

-----------------------------------------------------------------------------
THEOREM Invariance == Spec => []IInv
  <1> QED BY InitInv, StepInv, PTL DEF Spec

\* On every finite or infinite graph, an answer of graph_has_path is right
\* (testing/graph.rs:285-318).
THEOREM VerdictIsReachabilityHolds == Spec => []VerdictIsReachability
  <1>1. IInv => VerdictIsReachability
    BY DEF IInv
  <1> QED BY <1>1, Invariance, PTL

-----------------------------------------------------------------------------
(* The walks.                                                              *)
(*                                                                         *)
(* The stack of steps and the cursor name a place in the order of all the  *)
(* walks; the legal ones before that place are listed, the others are not. *)

Places == [site : Nat \ {0}, pick : Nat \ {0}]

\* v and w make the same first k choices.
Agree(v, w, k) == \A j \in 1 .. k : v[j] = w[j]

Earlier(p, q) == p.site < q.site \/ (p.site = q.site /\ p.pick < q.pick)

\* v is before w in the order of the walks.
Before(v, w) ==
  \/ Len(v) < Len(w) /\ Agree(v, w, Len(v))
  \/ \E i \in 1 .. Len(v) : i <= Len(w) /\ Agree(v, w, i - 1) /\ Earlier(v[i], w[i])

GoesOn(w, s) == Len(s) < Len(w) /\ Agree(w, s, Len(s))

LEMMA SamePrefix ==
  ASSUME NEW T, NEW v \in Seq(T), NEW w \in Seq(T),
         NEW k \in Nat, k <= Len(v), k <= Len(w)
  PROVE  SubSeq(v, 1, k) = SubSeq(w, 1, k) <=> Agree(v, w, k)
  <1>1. /\ SubSeq(v, 1, k) \in Seq(T) /\ SubSeq(w, 1, k) \in Seq(T)
        /\ Len(SubSeq(v, 1, k)) = k /\ Len(SubSeq(w, 1, k)) = k
        /\ \A j \in 1 .. k : SubSeq(v, 1, k)[j] = v[j] /\ SubSeq(w, 1, k)[j] = w[j]
    OBVIOUS
  <1>2. SubSeq(v, 1, k) = SubSeq(w, 1, k) <=>
          \A j \in 1 .. k : SubSeq(v, 1, k)[j] = SubSeq(w, 1, k)[j]
    BY <1>1
  <1> QED BY <1>1, <1>2 DEF Agree

LEMMA PrecedesIsBefore ==
  ASSUME NEW v \in Seq(Places), NEW w \in Seq(Places)
  PROVE  Walks!Precedes(v, w) <=> Before(v, w)
  <1>1. Len(v) \in Nat /\ Len(w) \in Nat /\ DOMAIN v = 1 .. Len(v) /\ DOMAIN w = 1 .. Len(w)
    OBVIOUS
  <1>2. Len(v) < Len(w) => (v = SubSeq(w, 1, Len(v)) <=> Agree(v, w, Len(v)))
    <2>1. v = SubSeq(v, 1, Len(v))
      OBVIOUS
    <2> QED BY <1>1, <2>1, SamePrefix
  <1>3. \A i \in DOMAIN v \cap DOMAIN w :
          SubSeq(v, 1, i - 1) = SubSeq(w, 1, i - 1) <=> Agree(v, w, i - 1)
    <2> TAKE i \in DOMAIN v \cap DOMAIN w
    <2>1. i - 1 \in Nat /\ i - 1 <= Len(v) /\ i - 1 <= Len(w)
      BY <1>1
    <2> QED BY <2>1, SamePrefix
  <1>4. \A i : i \in DOMAIN v \cap DOMAIN w <=> i \in 1 .. Len(v) /\ i <= Len(w)
    BY <1>1
  <1> QED BY <1>2, <1>3, <1>4 DEF Walks!Precedes, Before, Earlier

\* What is before a walk that goes on with p.
LEMMA BeforeNext ==
  ASSUME NEW v \in Seq(Places), NEW s \in Seq(Places), NEW p \in Places
  PROVE  Before(v, Append(s, p)) <=>
           \/ Before(v, s)
           \/ v = s
           \/ GoesOn(v, s) /\ Earlier(v[Len(s) + 1], p)
  <1> DEFINE w == Append(s, p)
             n == Len(s)
  <1>1. /\ Len(w) = n + 1 /\ n \in Nat /\ Len(v) \in Nat
        /\ \A j \in 1 .. n : w[j] = s[j]
        /\ w[n + 1] = p
    OBVIOUS
  <1>2. \A k \in 0 .. n : Agree(v, w, k) <=> Agree(v, s, k)
    BY <1>1 DEF Agree
  <1>3. Len(v) = n => (Agree(v, s, n) <=> v = s)
    BY DEF Agree
  <1> HIDE DEF w, n
  <1>4. (Len(v) < Len(w) /\ Agree(v, w, Len(v))) <=>
          (Len(v) < n /\ Agree(v, s, Len(v))) \/ v = s
    <2>1. v = s => Len(v) = n
      BY DEF n
    <2> QED BY <1>1, <1>2, <1>3, <2>1
  <1>5. (\E i \in 1 .. Len(v) : i <= Len(w) /\ Agree(v, w, i - 1) /\ Earlier(v[i], w[i])) <=>
          \/ \E i \in 1 .. Len(v) : i <= n /\ Agree(v, s, i - 1) /\ Earlier(v[i], s[i])
          \/ n < Len(v) /\ Agree(v, s, n) /\ Earlier(v[n + 1], p)
    <2>1. \A i \in 1 .. Len(v) : i <= n =>
            (Agree(v, w, i - 1) <=> Agree(v, s, i - 1)) /\ w[i] = s[i]
      BY <1>1, <1>2
    <2>2. Agree(v, w, (n + 1) - 1) <=> Agree(v, s, n)
      <3>1. (n + 1) - 1 = n
        BY <1>1
      <3> QED BY <1>1, <1>2, <3>1
    <2>3. \A i \in 1 .. Len(v) : i <= Len(w) <=> i <= n \/ i = n + 1
      BY <1>1
    <2>4. n < Len(v) <=> n + 1 \in 1 .. Len(v)
      BY <1>1
    <2> QED BY <1>1, <2>1, <2>2, <2>3, <2>4
  <1> QED BY <1>4, <1>5 DEF Before, GoesOn, w, n

-----------------------------------------------------------------------------
(* Legal walks, step by step, of any generator.                            *)

Generator ==
  [graph |-> graph, start |-> start, max_depth |-> max_depth, terminal_states |-> terminal_states]

SitesOf(G) == G.graph.transitions
ChoicesOf(G) ==
  [site : DOMAIN SitesOf(G), pick : UNION {DOMAIN SitesOf(G)[i].to : i \in DOMAIN SitesOf(G)}]

\* Where step i of w starts.
At(G, w, i) == IF i = 1 THEN G.start ELSE SitesOf(G)[w[i - 1].site].to[w[i - 1].pick]
End(G, w) == At(G, w, Len(w) + 1)

\* The choice p is open to a walk that has come to a state.
Open(G, p, at) ==
  /\ at \notin G.terminal_states
  /\ SitesOf(G)[p.site].from = at
  /\ p.pick \in DOMAIN SitesOf(G)[p.site].to

Legal(G, w) == Len(w) <= G.max_depth /\ \A i \in 1 .. Len(w) : Open(G, w[i], At(G, w, i))

LEMMA EndIsAt ==
  ASSUME NEW T, NEW w \in Seq(T)
  PROVE  /\ Walks!EndOf(w) = End(Generator, w)
         /\ \A i \in 1 .. Len(w) : Walks!EndOf(SubSeq(w, 1, i - 1)) = At(Generator, w, i)
  <1>1. Walks!EndOf(w) = End(Generator, w)
    <2>1. w = <<>> <=> Len(w) + 1 = 1
      OBVIOUS
    <2>2. (Len(w) + 1) - 1 = Len(w)
      OBVIOUS
    <2> QED BY <2>1, <2>2 DEF Walks!EndOf, End, At, SitesOf, Generator
  <1>2. ASSUME NEW i \in 1 .. Len(w)
        PROVE  Walks!EndOf(SubSeq(w, 1, i - 1)) = At(Generator, w, i)
    <2>1. i = 1 => SubSeq(w, 1, i - 1) = <<>>
      OBVIOUS
    <2>2. i # 1 => /\ SubSeq(w, 1, i - 1) # <<>>
                   /\ Len(SubSeq(w, 1, i - 1)) = i - 1
                   /\ SubSeq(w, 1, i - 1)[i - 1] = w[i - 1]
      OBVIOUS
    <2> QED BY <2>1, <2>2 DEF Walks!EndOf, At, SitesOf, Generator
  <1> QED BY <1>1, <1>2

LEMMA LegalSteps ==
  ASSUME NEW T, NEW w \in Seq(T)
  PROVE  Walks!LegalWalk(w) <=> Legal(Generator, w)
  <1>1. DOMAIN w = 1 .. Len(w)
    OBVIOUS
  <1>2. \A i \in 1 .. Len(w) : Walks!EndOf(SubSeq(w, 1, i - 1)) = At(Generator, w, i)
    BY EndIsAt
  <1> QED BY <1>1, <1>2 DEF Walks!LegalWalk, Legal, Open, Walks!Sites, SitesOf, Generator

\* Steps depend on the choices made so far.
LEMMA AgreedSteps ==
  ASSUME NEW G, NEW v, NEW w, NEW k \in Nat, Agree(v, w, k)
  PROVE  /\ \A i \in 1 .. (k + 1) : At(G, v, i) = At(G, w, i)
         /\ \A i \in 1 .. k : v[i] = w[i]
  BY DEF At, Agree

LEMMA LegalNext ==
  ASSUME NEW G, G.max_depth \in Nat, NEW T, NEW s \in Seq(T), NEW p \in T, Legal(G, s),
         Len(s) < G.max_depth, Open(G, p, End(G, s))
  PROVE  Legal(G, Append(s, p)) /\ End(G, Append(s, p)) = SitesOf(G)[p.site].to[p.pick]
  <1> DEFINE w == Append(s, p)
  <1>1. /\ w \in Seq(T) /\ Len(w) = Len(s) + 1 /\ w[Len(s) + 1] = p /\ Agree(w, s, Len(s))
        /\ Len(s) \in Nat
    BY DEF Agree
  <1> HIDE DEF w
  <1>2. At(G, w, Len(s) + 1) = End(G, s)
    BY <1>1, AgreedSteps DEF End
  <1>3. \A i \in 1 .. Len(s) : Open(G, w[i], At(G, w, i))
    BY <1>1, AgreedSteps DEF Legal
  <1>4. Legal(G, w)
    BY <1>1, <1>2, <1>3 DEF Legal
  <1>5. End(G, w) = SitesOf(G)[p.site].to[p.pick]
    BY <1>1 DEF End, At
  <1> QED BY <1>4, <1>5 DEF w

LEMMA LegalPrefix ==
  ASSUME NEW G, G.max_depth \in Nat, NEW T, NEW s \in Seq(T), Legal(G, s), s # <<>>
  PROVE  /\ SubSeq(s, 1, Len(s) - 1) \in Seq(T)
         /\ Len(SubSeq(s, 1, Len(s) - 1)) = Len(s) - 1
         /\ s[Len(s)] \in T
         /\ s = Append(SubSeq(s, 1, Len(s) - 1), s[Len(s)])
         /\ Legal(G, SubSeq(s, 1, Len(s) - 1))
         /\ End(G, SubSeq(s, 1, Len(s) - 1)) \notin G.terminal_states
         /\ Len(s) <= G.max_depth
  <1> DEFINE w == SubSeq(s, 1, Len(s) - 1)
  <1>1. Len(s) \in Nat /\ Len(s) > 0 /\ s[Len(s)] \in T
    OBVIOUS
  <1>2. /\ w \in Seq(T) /\ Len(w) = Len(s) - 1
        /\ \A j \in 1 .. (Len(s) - 1) : w[j] = s[j]
    <2>1. Len(s) - 1 \in 0 .. Len(s) /\ 1 .. (Len(s) - 1) \subseteq 1 .. Len(s)
      BY <1>1
    <2>2. w \in Seq(T)
      BY <1>1, <2>1
    <2>3. \A j \in 1 .. (Len(s) - 1) : w[j] = s[j]
      BY <1>1, <2>1
    <2>4. Len(w) = Len(s) - 1
      <3>1. DOMAIN w = 1 .. (Len(s) - 1) /\ Len(s) - 1 \in Nat
        BY <1>1, <2>1
      <3> HIDE DEF w
      <3> QED BY <2>2, <3>1
    <2> QED BY <2>2, <2>3, <2>4
  <1>3. s = Append(w, s[Len(s)])
    <2>1. /\ Append(w, s[Len(s)]) \in Seq(T) /\ Len(Append(w, s[Len(s)])) = Len(s)
          /\ \A j \in 1 .. (Len(s) - 1) : Append(w, s[Len(s)])[j] = s[j]
          /\ Append(w, s[Len(s)])[Len(s)] = s[Len(s)]
      BY <1>1, <1>2
    <2>2. \A j \in 1 .. Len(s) : Append(w, s[Len(s)])[j] = s[j]
      BY <1>1, <2>1
    <2> QED BY <2>1, <2>2
  <1> HIDE DEF w
  <1>4. Agree(w, s, Len(w)) /\ Len(w) \in Nat
    BY <1>1, <1>2 DEF Agree
  <1>5. Len(s) <= G.max_depth /\ \A i \in 1 .. Len(s) : Open(G, s[i], At(G, s, i))
    BY DEF Legal
  <1>6. Legal(G, w)
    BY <1>1, <1>2, <1>4, <1>5, AgreedSteps DEF Legal
  <1>7. End(G, w) \notin G.terminal_states
    <2>1. At(G, w, Len(w) + 1) = At(G, s, Len(w) + 1)
      <3>1. Len(w) + 1 \in 1 .. (Len(w) + 1)
        BY <1>4
      <3> QED BY <1>4, <3>1, AgreedSteps
    <2>2. Open(G, s[Len(w) + 1], At(G, s, Len(w) + 1))
      BY <1>1, <1>2, <1>5
    <2> QED BY <2>1, <2>2 DEF Open, End
  <1> QED BY <1>1, <1>2, <1>3, <1>5, <1>6, <1>7 DEF w

\* The next choice of a legal walk that goes on from s.
LEMMA LegalGoesOn ==
  ASSUME NEW G, G.max_depth \in Nat, NEW T, NEW s \in Seq(T), NEW w \in Seq(T), Legal(G, w),
         GoesOn(w, s)
  PROVE  /\ Len(s) < G.max_depth
         /\ w[Len(s) + 1] \in T
         /\ Open(G, w[Len(s) + 1], End(G, s))
  <1>1. /\ Len(s) \in Nat /\ Len(w) \in Nat /\ Len(s) < Len(w) /\ Len(s) + 1 \in 1 .. Len(w)
        /\ Agree(w, s, Len(s)) /\ w[Len(s) + 1] \in T
    BY DEF GoesOn
  <1>2. Len(w) <= G.max_depth /\ Open(G, w[Len(s) + 1], At(G, w, Len(s) + 1))
    BY <1>1 DEF Legal
  <1>3. At(G, w, Len(s) + 1) = End(G, s)
    BY <1>1, AgreedSteps DEF End
  <1> QED BY <1>1, <1>2, <1>3

\* The sites of a graph.
LEMMA WalkSites ==
  ASSUME NEW G, G.graph \in WalkGraphs
  PROVE  /\ DOMAIN SitesOf(G) = 1 .. Len(SitesOf(G)) /\ Len(SitesOf(G)) \in Nat
         /\ \A i \in DOMAIN SitesOf(G) :
              /\ SitesOf(G)[i].from \in StateIds
              /\ SitesOf(G)[i].to \in Seq(StateIds)
              /\ DOMAIN SitesOf(G)[i].to = 1 .. Len(SitesOf(G)[i].to)
              /\ Len(SitesOf(G)[i].to) \in Nat
  <1>1. G.graph \in MachineGraphs
    BY WalksAssumption
  <1>2. SitesOf(G) \in Seq(TransitionDescriptors)
    BY <1>1 DEF MachineGraphs, SitesOf
  <1>3. \A i \in DOMAIN SitesOf(G) : SitesOf(G)[i] \in TransitionDescriptors
    BY <1>2
  <1>4. \A i \in DOMAIN SitesOf(G) : SitesOf(G)[i].from \in StateIds /\ SitesOf(G)[i].to \in Seq(StateIds)
    BY <1>3 DEF TransitionDescriptors
  <1> QED BY <1>2, <1>4

\* The choices of a graph.
LEMMA ChoiceShape ==
  ASSUME NEW G, G.graph \in WalkGraphs, NEW p \in ChoicesOf(G)
  PROVE  /\ p \in Places
         /\ p.site \in DOMAIN SitesOf(G)
         /\ \A at : Open(G, p, at) => p.pick \in 1 .. Len(SitesOf(G)[p.site].to)
  <1>1. \A i \in DOMAIN SitesOf(G) : i \in Nat \ {0}
    BY WalkSites
  <1>2. \A i \in DOMAIN SitesOf(G) : DOMAIN SitesOf(G)[i].to = 1 .. Len(SitesOf(G)[i].to)
    BY WalkSites
  <1> QED BY <1>1, <1>2 DEF ChoicesOf, Places, Open

LEMMA WalkPlaces ==
  ASSUME NEW G, G.graph \in WalkGraphs, NEW w \in Seq(ChoicesOf(G))
  PROVE  w \in Seq(Places)
  <1>1. ChoicesOf(G) \subseteq Places
    BY ChoiceShape
  <1>2. \A i \in 1 .. Len(w) : w[i] \in Places
    BY <1>1
  <1>3. w \in [1 .. Len(w) -> Places] /\ Len(w) \in Nat
    BY <1>2
  <1> QED BY <1>3

-----------------------------------------------------------------------------
(* What is listed at each place of the search.                             *)

\* The walks before the place of phase ph, steps s and cursor p.
Past(ph, s, p, w) ==
  \/ ph = "enter" /\ Before(w, s)
  \/ ph = "loop" /\ Before(w, Append(s, p))
  \/ ph = "return" /\ (Before(w, s) \/ w = s \/ GoesOn(w, s))
  \/ ph = "done"

PastWalks(G, empty, ph, s, p) ==
  {w \in Seq(ChoicesOf(G)) : Legal(G, w) /\ (empty \/ w # <<>>) /\ Past(ph, s, p, w)}

\* The walk s itself, if it is one to list.
ThisWalk(empty, s) == {w \in {s} : empty \/ w # <<>>}

First == [site |-> 1, pick |-> 1]

LEMMA PastEnter ==
  ASSUME NEW G, G.graph \in WalkGraphs, NEW empty, NEW s \in Seq(ChoicesOf(G)), Legal(G, s),
         NEW p, G.max_depth \in Nat,
         NEW ph \in {"loop", "return"},
         ph = "return" => Len(s) >= G.max_depth \/ End(G, s) \in G.terminal_states
  PROVE  PastWalks(G, empty, ph, s, First)
           = PastWalks(G, empty, "enter", s, p) \cup ThisWalk(empty, s)
  <1>1. ASSUME NEW w \in Seq(ChoicesOf(G))
        PROVE  Before(w, Append(s, First)) <=> Before(w, s) \/ w = s
    <2>1. s \in Seq(Places) /\ w \in Seq(Places) /\ First \in Places
      BY WalkPlaces DEF First, Places
    <2>2. GoesOn(w, s) => ~Earlier(w[Len(s) + 1], First)
      <3>1. GoesOn(w, s) => w[Len(s) + 1] \in Places
        BY <2>1 DEF GoesOn
      <3> QED BY <3>1 DEF Earlier, First, Places
    <2> QED BY <2>1, <2>2, BeforeNext
  <1>2. ASSUME NEW w \in Seq(ChoicesOf(G)), Legal(G, w),
               Len(s) >= G.max_depth \/ End(G, s) \in G.terminal_states
        PROVE  ~GoesOn(w, s)
    <2>1. Len(s) \in Nat
      OBVIOUS
    <2> QED BY <1>2, <2>1, LegalGoesOn DEF Open
  <1> QED BY <1>1, <1>2 DEF PastWalks, ThisWalk, Past

LEMMA PastNextSite ==
  ASSUME NEW G, G.graph \in WalkGraphs, NEW empty, NEW s \in Seq(ChoicesOf(G)), NEW p \in Places,
         G.max_depth \in Nat, p.site \in DOMAIN SitesOf(G),
         SitesOf(G)[p.site].from = End(G, s) => p.pick \notin DOMAIN SitesOf(G)[p.site].to
  PROVE  PastWalks(G, empty, "loop", s, [site |-> p.site + 1, pick |-> 1])
           = PastWalks(G, empty, "loop", s, p)
  <1> DEFINE q == [site |-> p.site + 1, pick |-> 1]
  <1>1. ASSUME NEW w \in Seq(ChoicesOf(G)), Legal(G, w)
        PROVE  Before(w, Append(s, q)) <=> Before(w, Append(s, p))
    <2>1. s \in Seq(Places) /\ w \in Seq(Places) /\ q \in Places
      BY WalkPlaces DEF Places
    <2>2. GoesOn(w, s) => (Earlier(w[Len(s) + 1], q) <=> Earlier(w[Len(s) + 1], p))
      <3> SUFFICES ASSUME GoesOn(w, s)
          PROVE  Earlier(w[Len(s) + 1], q) <=> Earlier(w[Len(s) + 1], p)
        OBVIOUS
      <3> DEFINE x == w[Len(s) + 1]
      <3>1. x \in ChoicesOf(G) /\ Open(G, x, End(G, s))
        BY <1>1, LegalGoesOn
      <3>2. x \in Places /\ x.pick \in 1 .. Len(SitesOf(G)[x.site].to)
        BY <3>1, ChoiceShape
      <3>3. x.site = p.site => x.pick < p.pick
        <4>1. x.site = p.site => p.pick \notin DOMAIN SitesOf(G)[p.site].to
          BY <3>1 DEF Open
        <4>2. DOMAIN SitesOf(G)[p.site].to = 1 .. Len(SitesOf(G)[p.site].to)
              /\ Len(SitesOf(G)[p.site].to) \in Nat
          BY WalkSites
        <4> QED BY <3>2, <4>1, <4>2 DEF Places
      <3> HIDE DEF x
      <3>4. Earlier(x, q) <=> Earlier(x, p)
        BY <3>2, <3>3 DEF Earlier, Places
      <3> QED BY <3>4 DEF x
    <2> HIDE DEF q
    <2> QED BY <2>1, <2>2, BeforeNext
  <1> HIDE DEF q
  <1>2. PastWalks(G, empty, "loop", s, q) = PastWalks(G, empty, "loop", s, p)
    BY <1>1 DEF PastWalks, Past
  <1> QED BY <1>2 DEF q

LEMMA PastNoSiteLeft ==
  ASSUME NEW G, G.graph \in WalkGraphs, NEW empty, NEW s \in Seq(ChoicesOf(G)), NEW p \in Places,
         G.max_depth \in Nat, p.site \notin DOMAIN SitesOf(G)
  PROVE  PastWalks(G, empty, "return", s, p) = PastWalks(G, empty, "loop", s, p)
  <1>1. ASSUME NEW w \in Seq(ChoicesOf(G))
        PROVE  Before(w, Append(s, p)) <=> Before(w, s) \/ w = s \/ GoesOn(w, s)
    <2>1. s \in Seq(Places) /\ w \in Seq(Places)
      BY WalkPlaces
    <2>2. GoesOn(w, s) => Earlier(w[Len(s) + 1], p)
      <3>1. GoesOn(w, s) => w[Len(s) + 1] \in ChoicesOf(G)
        BY DEF GoesOn
      <3>2. \A x \in ChoicesOf(G) : x.site \in DOMAIN SitesOf(G)
        BY ChoiceShape
      <3>3. DOMAIN SitesOf(G) = 1 .. Len(SitesOf(G)) /\ Len(SitesOf(G)) \in Nat
        BY WalkSites
      <3> QED BY <3>1, <3>2, <3>3 DEF Earlier, Places
    <2> QED BY <2>1, <2>2, BeforeNext
  <1> QED BY <1>1 DEF PastWalks, Past

\* Going on from s with the choice p, and where to go on from there.
LEMMA GoesOnWith ==
  ASSUME NEW w \in Seq(Places), NEW s \in Seq(Places), NEW p \in Places
  PROVE  w = Append(s, p) \/ GoesOn(w, Append(s, p)) <=> GoesOn(w, s) /\ w[Len(s) + 1] = p
  <1> DEFINE t == Append(s, p)
             n == Len(s)
  <1>1. /\ t \in Seq(Places) /\ Len(t) = n + 1 /\ n \in Nat /\ Len(w) \in Nat /\ t[n + 1] = p
        /\ \A j \in 1 .. n : t[j] = s[j]
    OBVIOUS
  <1>2. w = t <=> Len(w) = n + 1 /\ Agree(w, t, n + 1)
    BY <1>1 DEF Agree
  <1> HIDE DEF t, n
  <1>3. Agree(w, t, n + 1) <=> Agree(w, s, n) /\ w[n + 1] = p
    <2>1. \A j : j \in 1 .. (n + 1) <=> j \in 1 .. n \/ j = n + 1
      BY <1>1
    <2> QED BY <1>1, <2>1 DEF Agree
  <1> QED BY <1>1, <1>2, <1>3 DEF GoesOn, t, n

LEMMA PastReturn ==
  ASSUME NEW G, G.graph \in WalkGraphs, NEW empty, NEW s \in Seq(ChoicesOf(G)),
         NEW p \in ChoicesOf(G), NEW q
  PROVE  PastWalks(G, empty, "loop", s, [site |-> p.site, pick |-> p.pick + 1])
           = PastWalks(G, empty, "return", Append(s, p), q)
  <1> DEFINE next == [site |-> p.site, pick |-> p.pick + 1]
  <1>1. ASSUME NEW w \in Seq(ChoicesOf(G))
        PROVE  Before(w, Append(s, next)) <=>
                 Before(w, Append(s, p)) \/ w = Append(s, p) \/ GoesOn(w, Append(s, p))
    <2>1. s \in Seq(Places) /\ w \in Seq(Places) /\ p \in Places /\ next \in Places
      BY WalkPlaces, ChoiceShape DEF Places
    <2>2. GoesOn(w, s) =>
            (Earlier(w[Len(s) + 1], next) <=> Earlier(w[Len(s) + 1], p) \/ w[Len(s) + 1] = p)
      <3>1. GoesOn(w, s) => w[Len(s) + 1] \in Places
        BY <2>1 DEF GoesOn
      <3> QED BY <2>1, <3>1 DEF Earlier, Places
    <2> HIDE DEF next
    <2>3. Before(w, Append(s, next)) <=>
            Before(w, s) \/ w = s \/ (GoesOn(w, s) /\ Earlier(w[Len(s) + 1], next))
      BY <2>1, BeforeNext
    <2>4. Before(w, Append(s, p)) <=>
            Before(w, s) \/ w = s \/ (GoesOn(w, s) /\ Earlier(w[Len(s) + 1], p))
      BY <2>1, BeforeNext
    <2>5. w = Append(s, p) \/ GoesOn(w, Append(s, p)) <=> GoesOn(w, s) /\ w[Len(s) + 1] = p
      BY <2>1, GoesOnWith
    <2> QED BY <2>2, <2>3, <2>4, <2>5
  <1> HIDE DEF next
  <1>2. PastWalks(G, empty, "loop", s, next) = PastWalks(G, empty, "return", Append(s, p), q)
    BY <1>1 DEF PastWalks, Past
  <1> QED BY <1>2 DEF next

LEMMA PastAll ==
  ASSUME NEW G, NEW empty, NEW p, NEW s, NEW q
  PROVE  PastWalks(G, empty, "done", s, q) = PastWalks(G, empty, "return", <<>>, p)
  <1>1. \A w \in Seq(ChoicesOf(G)) : w = <<>> \/ GoesOn(w, <<>>)
    BY DEF GoesOn, Agree
  <1> QED BY <1>1 DEF PastWalks, Past

\* The list holds the walks of S, each once and in order.
Lists(list, S) ==
  /\ {list[i] : i \in DOMAIN list} = S
  /\ \A i, j \in DOMAIN list : i < j => Before(list[i], list[j])

\* A walk that comes after all the others is listed.
LEMMA ListsOneMore ==
  ASSUME NEW T, NEW list \in Seq(T), NEW S, Lists(list, S), NEW s \in T, NEW empty,
         \A w \in S : Before(w, s)
  PROVE  Lists(IF empty \/ s # <<>> THEN Append(list, s) ELSE list, S \cup ThisWalk(empty, s))
  <1> DEFINE more == Append(list, s)
  <1>1. /\ Len(list) \in Nat /\ DOMAIN list = 1 .. Len(list)
        /\ DOMAIN more = 1 .. (Len(list) + 1)
        /\ \A i \in 1 .. Len(list) : more[i] = list[i]
        /\ more[Len(list) + 1] = s
    OBVIOUS
  <1>2. \A i : i \in 1 .. (Len(list) + 1) <=> i \in 1 .. Len(list) \/ i = Len(list) + 1
    BY <1>1
  <1> HIDE DEF more
  <1>3. {more[i] : i \in DOMAIN more} = S \cup {s}
    BY <1>1, <1>2 DEF Lists
  <1>4. \A i, j \in DOMAIN more : i < j => Before(more[i], more[j])
    <2>1. \A i \in 1 .. Len(list) : list[i] \in S
      BY <1>1 DEF Lists
    <2>2. \A i, j \in 1 .. Len(list) : i < j => Before(more[i], more[j])
      BY <1>1 DEF Lists
    <2>3. \A i \in 1 .. Len(list) : Before(more[i], more[Len(list) + 1])
      BY <1>1, <2>1
    <2> QED BY <1>1, <1>2, <2>2, <2>3
  <1>5. Lists(more, S \cup {s})
    BY <1>3, <1>4 DEF Lists
  <1>6. ThisWalk(empty, s) = IF empty \/ s # <<>> THEN {s} ELSE {}
    BY DEF ThisWalk
  <1> QED BY <1>5, <1>6 DEF more

-----------------------------------------------------------------------------
(* The inductive invariant of the walks.                                   *)

WalksTypeOK ==
  /\ graph \in WalkGraphs
  /\ start \in StateIds
  /\ max_depth \in Nat
  /\ include_empty \in BOOLEAN
  /\ steps \in Seq(ChoicesOf(Generator))
  /\ cursor \in Places
  /\ phase \in {"enter", "loop", "return", "done"}
  /\ walks \in Seq(Seq(ChoicesOf(Generator)))

\* The steps are a walk, which may go on while its choices are tried.
OnAWalk ==
  /\ Legal(Generator, steps)
  /\ phase = "loop" => Len(steps) < max_depth /\ End(Generator, steps) \notin terminal_states

WalksInv ==
  /\ WalksTypeOK
  /\ start \in graph.states =>
       /\ OnAWalk
       /\ Lists(walks, PastWalks(Generator, include_empty, phase, steps, cursor))
  /\ start \notin graph.states => phase = "done" /\ walks = <<>>

\* An instance has a Cardinality of its own.
LEMMA SameCardinality == \A S : Walks!Cardinality(S) = Cardinality(S)
  BY DEF Walks!Cardinality, Cardinality

LEMMA InitWalks == Walks!Init => WalksInv
  <1> SUFFICES ASSUME Walks!Init PROVE WalksInv
    OBVIOUS
  <1> USE DEF Walks!Init
  <1>1. max_depth \in Nat
    <2>1. IsFiniteSet(graph.states)
      BY WalksAssumption
    <2>2. Cardinality(graph.states) \in Nat
      BY <2>1, FS_CardinalityType
    <2>3. graph.states # {} => Cardinality(graph.states) - 1 \in Nat
      <3>1. Cardinality(graph.states) = 0 <=> graph.states = {}
        BY <2>1, FS_EmptySet
      <3> QED BY <2>2, <3>1
    <2>4. Walks!DefaultDepth(graph) \in Nat
      BY <2>3, SameCardinality DEF Walks!DefaultDepth
    <2>5. max_depth = Walks!DefaultDepth(graph) \/ max_depth \in 0 .. MaxDepth
      OBVIOUS
    <2> QED BY <2>4, <2>5, WalksAssumption
  <1>2. /\ <<>> \in Seq(ChoicesOf(Generator)) /\ <<>> \in Seq(Seq(ChoicesOf(Generator)))
        /\ Len(<<>>) = 0 /\ DOMAIN <<>> = {}
    OBVIOUS
  <1>3. WalksTypeOK
    <2>1. cursor \in Places
      BY DEF Places, Walks!Choice
    <2> QED BY <1>1, <1>2, <2>1 DEF WalksTypeOK
  <1>4. ASSUME start \in graph.states
        PROVE  /\ OnAWalk
               /\ Lists(walks, PastWalks(Generator, include_empty, phase, steps, cursor))
    <2>1. Legal(Generator, <<>>)
      BY <1>1, <1>2 DEF Legal, Generator
    <2>2. \A w \in Seq(ChoicesOf(Generator)) : ~Before(w, <<>>)
      BY <1>2 DEF Before
    <2>3. PastWalks(Generator, include_empty, "enter", <<>>, cursor) = {}
      BY <2>2 DEF PastWalks, Past
    <2> QED BY <1>2, <1>4, <2>1, <2>3 DEF OnAWalk, Lists
  <1> QED BY <1>2, <1>3, <1>4 DEF WalksInv

\* The graph, the start, the depth, the stops do not change.
LEMMA SameGenerator ==
  ASSUME UNCHANGED Walks!generator
  PROVE  /\ UNCHANGED <<graph, start, max_depth, terminal_states, include_empty>>
         /\ Generator' = Generator
  BY DEF Walks!generator, Generator

LEMMA EnterKeeps == ASSUME WalksInv, Walks!Enter PROVE WalksInv'
  <1> DEFINE G == Generator
  <1>0. /\ phase = "enter" /\ cursor' = First
        /\ walks' = IF include_empty \/ steps # <<>> THEN Append(walks, steps) ELSE walks
        /\ phase' = IF Len(steps) >= max_depth \/ End(G, steps) \in terminal_states
                    THEN "return" ELSE "loop"
        /\ steps' = steps
        /\ UNCHANGED <<graph, start, max_depth, terminal_states, include_empty>> /\ G' = G
    BY EndIsAt, SameGenerator DEF Walks!Enter, Walks!current, Walks!Choice, First, WalksInv, WalksTypeOK
  <1>1. WalksTypeOK /\ start \in graph.states
    BY <1>0 DEF WalksInv
  <1>2. /\ G.graph = graph /\ G.max_depth = max_depth /\ G.terminal_states = terminal_states
        /\ G.graph \in WalkGraphs /\ G.max_depth \in Nat
        /\ steps \in Seq(ChoicesOf(G)) /\ Legal(G, steps)
        /\ walks \in Seq(Seq(ChoicesOf(G)))
        /\ Lists(walks, PastWalks(G, include_empty, "enter", steps, cursor))
    BY <1>0, <1>1 DEF WalksInv, WalksTypeOK, OnAWalk, Generator
  <1> HIDE DEF G
  <1>3. WalksTypeOK'
    <2>1. walks' \in Seq(Seq(ChoicesOf(G)))
      BY <1>0, <1>2
    <2>2. First \in Places
      BY DEF First, Places
    <2> QED BY <1>0, <1>1, <2>1, <2>2 DEF WalksTypeOK, G
  <1>4. Lists(walks', PastWalks(G, include_empty, "enter", steps, cursor)
                        \cup ThisWalk(include_empty, steps))
    <2>1. \A w \in PastWalks(G, include_empty, "enter", steps, cursor) : Before(w, steps)
      BY DEF PastWalks, Past
    <2> QED BY <1>0, <1>2, <2>1, ListsOneMore
  <1>5. Lists(walks', PastWalks(G, include_empty, phase', steps, First))
    <2>1. /\ phase' \in {"loop", "return"}
          /\ phase' = "return" => Len(steps) >= G.max_depth \/ End(G, steps) \in G.terminal_states
      BY <1>0, <1>2
    <2>2. PastWalks(G, include_empty, phase', steps, First)
            = PastWalks(G, include_empty, "enter", steps, cursor) \cup ThisWalk(include_empty, steps)
      BY <1>2, <2>1, PastEnter
    <2> QED BY <1>4, <2>2
  <1>6. OnAWalk'
    <2>1. Len(steps) \in Nat
      BY <1>2
    <2> QED BY <1>0, <1>2, <2>1 DEF OnAWalk, G
  <1> QED BY <1>0, <1>1, <1>3, <1>5, <1>6 DEF WalksInv, G

\* A step that lists nothing.
LEMMA QuietKeeps ==
  ASSUME WalksInv, phase # "done", UNCHANGED walks, UNCHANGED Walks!generator, WalksTypeOK', OnAWalk',
         PastWalks(Generator, include_empty, phase', steps', cursor')
           = PastWalks(Generator, include_empty, phase, steps, cursor)
  PROVE  WalksInv'
  <1>1. /\ UNCHANGED <<graph, start, max_depth, terminal_states, include_empty>>
        /\ Generator' = Generator
    BY SameGenerator
  <1> QED BY <1>1 DEF WalksInv

\* What the steps of the search work on.
LEMMA Searching ==
  ASSUME WalksInv, phase # "done", UNCHANGED Walks!generator
  PROVE  /\ Generator.graph \in WalkGraphs /\ Generator.max_depth \in Nat
         /\ steps \in Seq(ChoicesOf(Generator)) /\ cursor \in Places
         /\ Legal(Generator, steps)
         /\ Walks!current = End(Generator, steps) /\ Walks!Sites = SitesOf(Generator)
         /\ Generator.max_depth = max_depth /\ Generator.terminal_states = terminal_states
         /\ UNCHANGED <<graph, start, max_depth, terminal_states, include_empty>>
         /\ Generator' = Generator
  <1>1. WalksTypeOK /\ OnAWalk
    BY DEF WalksInv
  <1>2. Walks!current = End(Generator, steps)
    BY <1>1, EndIsAt DEF Walks!current, WalksTypeOK
  <1> QED BY <1>1, <1>2, SameGenerator DEF WalksTypeOK, OnAWalk, Generator, Walks!Sites, SitesOf

LEMMA DescendKeeps == ASSUME WalksInv, Walks!Descend PROVE WalksInv'
  <1> DEFINE G == Generator
  <1>0. /\ phase = "loop" /\ phase' = "enter" /\ steps' = Append(steps, cursor)
        /\ cursor' = cursor /\ UNCHANGED walks /\ UNCHANGED Walks!generator
        /\ cursor.site \in DOMAIN Walks!Sites
        /\ Walks!Sites[cursor.site].from = Walks!current
        /\ cursor.pick \in DOMAIN Walks!Sites[cursor.site].to
    BY DEF Walks!Descend
  <1>1. /\ G.graph \in WalkGraphs /\ G.max_depth \in Nat
        /\ steps \in Seq(ChoicesOf(G)) /\ cursor \in Places /\ Legal(G, steps)
        /\ cursor.site \in DOMAIN SitesOf(G)
        /\ SitesOf(G)[cursor.site].from = End(G, steps)
        /\ cursor.pick \in DOMAIN SitesOf(G)[cursor.site].to
        /\ G.max_depth = max_depth /\ G.terminal_states = terminal_states
        /\ UNCHANGED <<graph, start, max_depth, terminal_states, include_empty>> /\ G' = G
    BY <1>0, Searching
  <1>2. /\ WalksTypeOK /\ Len(steps) < max_depth /\ End(G, steps) \notin terminal_states
    BY <1>0 DEF WalksInv, OnAWalk
  <1> HIDE DEF G
  <1>3. cursor \in ChoicesOf(G)
    BY <1>1 DEF ChoicesOf, Places
  <1>4. Legal(G, Append(steps, cursor))
    <2>1. Open(G, cursor, End(G, steps)) /\ Len(steps) < G.max_depth
      BY <1>1, <1>2 DEF Open
    <2> QED BY <1>1, <1>3, <2>1, LegalNext
  <1>5. WalksTypeOK'
    <2>1. Append(steps, cursor) \in Seq(ChoicesOf(G))
      BY <1>1, <1>3
    <2> QED BY <1>0, <1>1, <1>2, <2>1 DEF WalksTypeOK, G
  <1>6. OnAWalk'
    BY <1>0, <1>1, <1>4 DEF OnAWalk, G
  <1>7. PastWalks(G, include_empty, "enter", Append(steps, cursor), cursor)
          = PastWalks(G, include_empty, "loop", steps, cursor)
    BY DEF PastWalks, Past
  <1> QED BY <1>0, <1>5, <1>6, <1>7, QuietKeeps DEF G

LEMMA NextSiteKeeps == ASSUME WalksInv, Walks!NextSite PROVE WalksInv'
  <1> DEFINE G == Generator
             q == [site |-> cursor.site + 1, pick |-> 1]
  <1>0. /\ phase = "loop" /\ phase' = "loop" /\ steps' = steps
        /\ cursor' = q /\ UNCHANGED walks /\ UNCHANGED Walks!generator
        /\ cursor.site \in DOMAIN Walks!Sites
        /\ Walks!Sites[cursor.site].from = Walks!current =>
             cursor.pick \notin DOMAIN Walks!Sites[cursor.site].to
    BY DEF Walks!NextSite, Walks!Choice
  <1>1. /\ G.graph \in WalkGraphs /\ G.max_depth \in Nat
        /\ steps \in Seq(ChoicesOf(G)) /\ cursor \in Places
        /\ cursor.site \in DOMAIN SitesOf(G)
        /\ SitesOf(G)[cursor.site].from = End(G, steps) =>
             cursor.pick \notin DOMAIN SitesOf(G)[cursor.site].to
        /\ UNCHANGED <<graph, start, max_depth, terminal_states, include_empty>> /\ G' = G
    BY <1>0, Searching
  <1>2. WalksTypeOK /\ OnAWalk
    BY <1>0 DEF WalksInv
  <1>3. WalksTypeOK'
    <2>1. q \in Places
      BY <1>1 DEF Places
    <2> HIDE DEF q
    <2> QED BY <1>0, <1>1, <1>2, <2>1 DEF WalksTypeOK
  <1>4. OnAWalk'
    BY <1>0, <1>1, <1>2 DEF OnAWalk
  <1>5. PastWalks(G, include_empty, "loop", steps, q)
          = PastWalks(G, include_empty, "loop", steps, cursor)
    <2> HIDE DEF G
    <2> QED BY <1>1, PastNextSite
  <1> HIDE DEF q
  <1> QED BY <1>0, <1>3, <1>4, <1>5, QuietKeeps

LEMMA NoSiteLeftKeeps == ASSUME WalksInv, Walks!NoSiteLeft PROVE WalksInv'
  <1> DEFINE G == Generator
  <1>0. /\ phase = "loop" /\ phase' = "return" /\ steps' = steps /\ cursor' = cursor
        /\ UNCHANGED walks /\ UNCHANGED Walks!generator
        /\ cursor.site \notin DOMAIN Walks!Sites
    BY DEF Walks!NoSiteLeft
  <1>1. /\ G.graph \in WalkGraphs /\ G.max_depth \in Nat
        /\ steps \in Seq(ChoicesOf(G)) /\ cursor \in Places
        /\ cursor.site \notin DOMAIN SitesOf(G)
        /\ UNCHANGED <<graph, start, max_depth, terminal_states, include_empty>> /\ G' = G
    BY <1>0, Searching
  <1>2. WalksTypeOK /\ OnAWalk
    BY <1>0 DEF WalksInv
  <1>3. WalksTypeOK' /\ OnAWalk'
    BY <1>0, <1>1, <1>2 DEF WalksTypeOK, OnAWalk
  <1>4. PastWalks(G, include_empty, "return", steps, cursor)
          = PastWalks(G, include_empty, "loop", steps, cursor)
    <2> HIDE DEF G
    <2> QED BY <1>1, PastNoSiteLeft
  <1> QED BY <1>0, <1>3, <1>4, QuietKeeps

LEMMA ReturnKeeps == ASSUME WalksInv, Walks!Return PROVE WalksInv'
  <1> DEFINE G == Generator
  <1>0. phase = "return" /\ UNCHANGED walks /\ UNCHANGED Walks!generator
    BY DEF Walks!Return
  <1>1. /\ G.graph \in WalkGraphs /\ G.max_depth \in Nat
        /\ steps \in Seq(ChoicesOf(G)) /\ Legal(G, steps)
        /\ G.max_depth = max_depth /\ G.terminal_states = terminal_states
        /\ UNCHANGED <<graph, start, max_depth, terminal_states, include_empty>> /\ G' = G
    BY <1>0, Searching
  <1>2. WalksTypeOK /\ OnAWalk
    BY <1>0 DEF WalksInv
  <1>3. ASSUME steps = <<>>, phase' = "done", steps' = steps, cursor' = cursor
        PROVE  WalksInv'
    <2>1. WalksTypeOK' /\ OnAWalk'
      BY <1>0, <1>1, <1>2, <1>3 DEF WalksTypeOK, OnAWalk
    <2>2. PastWalks(G, include_empty, "done", steps, cursor)
            = PastWalks(G, include_empty, "return", steps, cursor)
      BY <1>3, PastAll
    <2> QED BY <1>0, <1>3, <2>1, <2>2, QuietKeeps
  <1>4. ASSUME steps # <<>>, phase' = "loop", steps' = SubSeq(steps, 1, Len(steps) - 1),
               cursor' = [site |-> steps[Len(steps)].site, pick |-> steps[Len(steps)].pick + 1]
        PROVE  WalksInv'
    <2> DEFINE p == steps[Len(steps)]
               s == SubSeq(steps, 1, Len(steps) - 1)
               next == [site |-> p.site, pick |-> p.pick + 1]
    <2>1. /\ s \in Seq(ChoicesOf(G)) /\ p \in ChoicesOf(G) /\ steps = Append(s, p)
          /\ Len(s) = Len(steps) - 1 /\ Len(steps) <= G.max_depth
          /\ Legal(G, s) /\ End(G, s) \notin G.terminal_states
      <3> HIDE DEF G
      <3> QED BY <1>1, <1>4, LegalPrefix
    <2>2. steps' = s /\ cursor' = next /\ phase' = "loop"
      BY <1>4
    <2>3. next \in Places
      <3>1. p \in Places
        BY <1>1, <2>1, ChoiceShape
      <3> HIDE DEF p
      <3> QED BY <3>1 DEF Places
    <2>4. Len(steps) \in Nat
      BY <1>1
    <2> HIDE DEF p, s, next
    <2>5. WalksTypeOK'
      BY <1>0, <1>1, <1>2, <2>1, <2>2, <2>3 DEF WalksTypeOK
    <2>6. OnAWalk'
      BY <1>1, <2>1, <2>2, <2>4 DEF OnAWalk
    <2>7. PastWalks(G, include_empty, "loop", s, next)
            = PastWalks(G, include_empty, "return", steps, cursor)
      <3> HIDE DEF G
      <3>1. PastWalks(G, include_empty, "loop", s, next)
              = PastWalks(G, include_empty, "return", Append(s, p), cursor)
        BY <1>1, <2>1, PastReturn DEF next
      <3> QED BY <2>1, <3>1
    <2> QED BY <1>0, <2>2, <2>5, <2>6, <2>7, QuietKeeps
  <1> QED BY <1>3, <1>4 DEF Walks!Return, Walks!Choice

LEMMA WalksStep == WalksInv /\ [Walks!Next]_(Walks!vars) => WalksInv'
  <1> SUFFICES ASSUME WalksInv, [Walks!Next]_(Walks!vars) PROVE WalksInv'
    OBVIOUS
  <1>1. CASE UNCHANGED Walks!vars
    <2>1. UNCHANGED <<steps, cursor, phase, walks>> /\ UNCHANGED Walks!generator
      BY <1>1 DEF Walks!vars
    <2>2. /\ UNCHANGED <<graph, start, max_depth, terminal_states, include_empty>>
          /\ Generator' = Generator
      BY <2>1, SameGenerator
    <2> QED BY <2>1, <2>2 DEF WalksInv, WalksTypeOK, OnAWalk
  <1> QED
    BY <1>1, EnterKeeps, DescendKeeps, NextSiteKeeps, NoSiteLeftKeeps, ReturnKeeps DEF Walks!Next

\* On any graphs with finitely many states: the generator lists the legal walks
\* before its place in their order, and no other (walks.rs:94-125).
THEOREM WalksInvariance == Walks!Spec => []WalksInv
  <1> QED BY InitWalks, WalksStep, PTL DEF Walks!Spec

\* When the search is over, every legal walk up to max_depth and up to the stops
\* is listed once, the shorter and the earlier choice first, whatever the graph,
\* its cycles and its branches (walks.rs:49-52, 94-125).
THEOREM EachLegalWalkIsListedOnceHolds == Walks!Spec => []EachLegalWalkIsListedOnce
  <1>1. ASSUME WalksInv PROVE EachLegalWalkIsListedOnce
    <2> DEFINE G == Generator
               C == ChoicesOf(G)
    <2>1. /\ WalksTypeOK /\ G.graph \in WalkGraphs /\ walks \in Seq(Seq(C)) /\ max_depth \in Nat
      BY <1>1 DEF WalksInv, WalksTypeOK, Generator
    <2>2. C = Walks!Choices
      BY DEF ChoicesOf, Walks!Choices, Walks!Sites, SitesOf, Generator
    <2>3. {w \in UNION {[1 .. n -> C] : n \in 0 .. max_depth} :
             Walks!LegalWalk(w) /\ (include_empty \/ w # <<>>)}
            = {w \in Seq(C) : Legal(G, w) /\ (include_empty \/ w # <<>>)}
      <3> HIDE DEF C
      <3>1. \A w \in UNION {[1 .. n -> C] : n \in 0 .. max_depth} : w \in Seq(C)
        OBVIOUS
      <3>2. ASSUME NEW w \in Seq(C), Walks!LegalWalk(w)
            PROVE  w \in UNION {[1 .. n -> C] : n \in 0 .. max_depth}
        <4>1. Len(w) \in 0 .. max_depth
          BY <2>1, <3>2, LegalSteps DEF Legal, Generator
        <4>2. w \in [1 .. Len(w) -> C]
          OBVIOUS
        <4> QED BY <4>1, <4>2
      <3>3. \A w \in Seq(C) : Walks!LegalWalk(w) <=> Legal(G, w)
        BY LegalSteps
      <3> QED BY <3>1, <3>2, <3>3
    <2>4. Walks!AllLegalWalksAreListed
      <3> SUFFICES ASSUME phase = "done"
          PROVE  Walks!Listed = IF start \notin graph.states THEN {}
                                ELSE {w \in Seq(C) : Legal(G, w) /\ (include_empty \/ w # <<>>)}
        BY <2>2, <2>3 DEF Walks!AllLegalWalksAreListed
      <3>1. CASE start \in graph.states
        <4>1. Walks!Listed = PastWalks(G, include_empty, "done", steps, cursor)
          BY <1>1, <3>1 DEF WalksInv, Lists, Walks!Listed
        <4> QED BY <3>1, <4>1 DEF PastWalks, Past
      <3>2. CASE start \notin graph.states
        <4>1. walks = <<>>
          BY <1>1, <3>2 DEF WalksInv
        <4> QED BY <3>2, <4>1 DEF Walks!Listed
      <3> QED BY <3>1, <3>2
    <2>5. Walks!ListedInOrder
      <3>1. \A i, j \in DOMAIN walks : i < j => Before(walks[i], walks[j])
        <4>1. CASE start \in graph.states
          BY <1>1, <4>1 DEF WalksInv, Lists
        <4>2. CASE start \notin graph.states
          <5>1. walks = <<>>
            BY <1>1, <4>2 DEF WalksInv
          <5> QED BY <5>1
        <4> QED BY <4>1, <4>2
      <3>2. \A i \in DOMAIN walks : walks[i] \in Seq(Places)
        <4>1. \A i \in DOMAIN walks : walks[i] \in Seq(C)
          BY <2>1
        <4> QED BY <2>1, <4>1, WalkPlaces
      <3> QED BY <3>1, <3>2, PrecedesIsBefore DEF Walks!ListedInOrder
    <2> QED BY <2>4, <2>5 DEF EachLegalWalkIsListedOnce, Walks!EachLegalWalkIsListedOnce
  <1> QED BY <1>1, WalksInvariance, PTL

-----------------------------------------------------------------------------
(* The default depth.                                                      *)
(*                                                                         *)
(* A walk as long as there are states comes to one of them twice, and the  *)
(* choices between can be left out: the shortest walk to a state is short  *)
(* enough to be listed.                                                    *)

\* A walk of any length.
Free(G, w) ==
  /\ w \in Seq(ChoicesOf(G))
  /\ \A i \in 1 .. Len(w) : Open(G, w[i], At(G, w, i))

LEMMA Least ==
  ASSUME NEW S \in SUBSET Nat, S # {}
  PROVE  \E m \in S : \A k \in S : m <= k
  <1>1. IsWellFoundedOn(OpToRel(<, Nat), Nat)
    BY NatLessThanWellFounded
  <1>2. PICK m \in S : \A k \in S : ~(<<k, m>> \in OpToRel(<, Nat))
    BY <1>1, WFMin
  <1>3. \A k \in S : ~(k < m)
    BY <1>2 DEF OpToRel
  <1> QED BY <1>3

\* The choices that are open at a state lead to its legal targets.
LEMMA OpenIsLegal ==
  ASSUME NEW G, G.graph \in WalkGraphs, NEW at, at \notin G.terminal_states
  PROVE  /\ \A p \in ChoicesOf(G) :
              Open(G, p, at) => /\ SitesOf(G)[p.site].to[p.pick] \in legal(G.graph, at)
                                /\ SitesOf(G)[p.site].to[p.pick] \in StateIds
                                /\ at \in StateIds
         /\ \A t \in legal(G.graph, at) :
              \E p \in ChoicesOf(G) : Open(G, p, at) /\ SitesOf(G)[p.site].to[p.pick] = t
  <1>1. ASSUME NEW p \in ChoicesOf(G), Open(G, p, at)
        PROVE  /\ SitesOf(G)[p.site].to[p.pick] \in legal(G.graph, at)
               /\ SitesOf(G)[p.site].to[p.pick] \in StateIds
               /\ at \in StateIds
    <2>1. /\ p.site \in DOMAIN SitesOf(G) /\ SitesOf(G)[p.site].from = at
          /\ p.pick \in DOMAIN SitesOf(G)[p.site].to
      BY <1>1 DEF Open, ChoicesOf
    <2>2. SitesOf(G)[p.site].from \in StateIds /\ SitesOf(G)[p.site].to \in Seq(StateIds)
      BY <2>1, WalkSites
    <2>3. p.site \in transitions_from(G.graph, at)
      BY <2>1 DEF transitions_from, SitesOf
    <2>4. SitesOf(G)[p.site].to[p.pick] \in legal(G.graph, at)
      BY <2>1, <2>3 DEF legal, SitesOf
    <2> QED BY <2>1, <2>2, <2>4
  <1>2. ASSUME NEW t \in legal(G.graph, at)
        PROVE  \E p \in ChoicesOf(G) : Open(G, p, at) /\ SitesOf(G)[p.site].to[p.pick] = t
    <2>1. PICK i \in transitions_from(G.graph, at) :
            \E n \in DOMAIN G.graph.transitions[i].to : t = G.graph.transitions[i].to[n]
      BY DEF legal
    <2>2. PICK n \in DOMAIN SitesOf(G)[i].to : t = SitesOf(G)[i].to[n]
      BY <2>1 DEF SitesOf
    <2>3. i \in DOMAIN SitesOf(G) /\ SitesOf(G)[i].from = at
      BY DEF transitions_from, SitesOf
    <2> DEFINE p == [site |-> i, pick |-> n]
    <2>4. p.site = i /\ p.pick = n
      OBVIOUS
    <2>5. p \in ChoicesOf(G)
      BY <2>2, <2>3 DEF ChoicesOf
    <2> HIDE DEF p
    <2> QED BY <2>2, <2>3, <2>4, <2>5 DEF Open
  <1> QED BY <1>1, <1>2

\* The states a free walk comes to.
LEMMA FreeStates ==
  ASSUME NEW G, G.graph \in WalkGraphs, G.start \in StateIds, NEW w, Free(G, w)
  PROVE  /\ Len(w) \in Nat
         /\ At(G, w, 1) = G.start
         /\ \A i \in 1 .. (Len(w) + 1) : At(G, w, i) \in StateIds
         /\ \A i \in 2 .. (Len(w) + 1) : At(G, w, i) \in legal(G.graph, At(G, w, i - 1))
  <1>1. Len(w) \in Nat /\ At(G, w, 1) = G.start
    BY DEF Free, At
  <1>2. ASSUME NEW i \in 2 .. (Len(w) + 1)
        PROVE  At(G, w, i) \in legal(G.graph, At(G, w, i - 1)) /\ At(G, w, i) \in StateIds
    <2>1. i - 1 \in 1 .. Len(w) /\ i # 1
      BY <1>1
    <2>2. w[i - 1] \in ChoicesOf(G) /\ Open(G, w[i - 1], At(G, w, i - 1))
      BY <2>1 DEF Free
    <2>3. At(G, w, i - 1) \notin G.terminal_states
      BY <2>2 DEF Open
    <2>4. At(G, w, i) = SitesOf(G)[w[i - 1].site].to[w[i - 1].pick]
      BY <2>1 DEF At
    <2> QED BY <2>2, <2>3, <2>4, OpenIsLegal
  <1>3. \A i \in 1 .. (Len(w) + 1) : i = 1 \/ i \in 2 .. (Len(w) + 1)
    BY <1>1
  <1> QED BY <1>1, <1>2, <1>3

\* A free walk stays in every closed set that has its start.
LEMMA FreeStaysInside ==
  ASSUME NEW G, G.graph \in WalkGraphs, G.start \in StateIds, NEW w, Free(G, w),
         NEW C, G.start \in C, Closed(G.graph, C)
  PROVE  End(G, w) \in C
  <1>1. /\ Len(w) \in Nat
        /\ At(G, w, 1) = G.start
        /\ \A i \in 2 .. (Len(w) + 1) : At(G, w, i) \in legal(G.graph, At(G, w, i - 1))
    BY FreeStates
  <1> DEFINE Out == {i \in 1 .. (Len(w) + 1) : At(G, w, i) \notin C}
  <1>2. Out = {}
    <2> SUFFICES ASSUME Out # {} PROVE FALSE
      OBVIOUS
    <2>1. Out \in SUBSET Nat
      OBVIOUS
    <2>2. PICK m \in Out : \A k \in Out : m <= k
      <3> HIDE DEF Out
      <3> QED BY <2>1, Least
    <2>3. m \in 2 .. (Len(w) + 1) /\ m - 1 \in 1 .. (Len(w) + 1) /\ ~(m <= m - 1)
      BY <1>1
    <2>4. At(G, w, m - 1) \in C
      BY <2>2, <2>3
    <2> QED BY <1>1, <2>3, <2>4 DEF Closed
  <1>3. Len(w) + 1 \in 1 .. (Len(w) + 1)
    BY <1>1
  <1> QED BY <1>2, <1>3 DEF End

\* What lies between two visits to a state is left out.
LEMMA FreeCut ==
  ASSUME NEW G, NEW w, Free(G, w),
         NEW i \in 1 .. (Len(w) + 1), NEW j \in 1 .. (Len(w) + 1), i < j,
         At(G, w, i) = At(G, w, j)
  PROVE  \E v : Free(G, v) /\ End(G, v) = End(G, w) /\ Len(v) < Len(w)
  <1> DEFINE d == j - i
             n == Len(w) - d
             v == [k \in 1 .. n |-> IF k < i THEN w[k] ELSE w[k + d]]
  <1>1. w \in Seq(ChoicesOf(G)) /\ Len(w) \in Nat
    BY DEF Free
  <1>2. d \in Nat /\ d > 0 /\ n \in Nat /\ n < Len(w) /\ i <= n + 1 /\ i + d = j /\ n + d = Len(w)
    BY <1>1
  <1>3. /\ \A k \in 1 .. n : k < i => k \in 1 .. Len(w) /\ v[k] = w[k]
        /\ \A k \in 1 .. n : k >= i => k + d \in 1 .. Len(w) /\ v[k] = w[k + d]
    <2> HIDE DEF d, n
    <2> QED BY <1>1, <1>2
  <1>4. v \in Seq(ChoicesOf(G)) /\ Len(v) = n
    <2>1. \A k \in 1 .. n : v[k] \in ChoicesOf(G)
      <3>1. \A l \in 1 .. Len(w) : w[l] \in ChoicesOf(G)
        BY <1>1
      <3>2. \A k \in 1 .. n : k \in Nat
        OBVIOUS
      <3>3. \A k \in 1 .. n : k < i \/ k >= i
        BY <1>2, <3>2
      <3> HIDE DEF v, d, n
      <3> QED BY <1>3, <3>1, <3>3
    <2>2. v \in [1 .. n -> ChoicesOf(G)]
      <3> HIDE DEF d, n
      <3>1. v = [k \in 1 .. n |-> v[k]]
        OBVIOUS
      <3> HIDE DEF v
      <3> QED BY <2>1, <3>1
    <2> HIDE DEF v, d, n
    <2> QED BY <1>2, <2>2
  <1> HIDE DEF v, d, n
  <1>5. \A k \in 1 .. (n + 1) : k <= i => At(G, v, k) = At(G, w, k)
    BY <1>2, <1>3 DEF At
  <1>6. \A k \in 1 .. (n + 1) : k > i => At(G, v, k) = At(G, w, k + d)
    <2> SUFFICES ASSUME NEW k \in 1 .. (n + 1), k > i PROVE At(G, v, k) = At(G, w, k + d)
      OBVIOUS
    <2>1. k - 1 \in 1 .. n /\ k - 1 >= i /\ k # 1 /\ k + d # 1 /\ (k + d) - 1 = (k - 1) + d
      BY <1>2
    <2>2. v[k - 1] = w[(k + d) - 1]
      BY <1>3, <2>1
    <2> QED BY <2>1, <2>2 DEF At
  <1>7. At(G, v, i) = At(G, w, i + d)
    BY <1>2, <1>5
  <1>8. \A k \in 1 .. n : Open(G, v[k], At(G, v, k))
    <2> TAKE k \in 1 .. n
    <2>1. \A l \in 1 .. Len(w) : Open(G, w[l], At(G, w, l))
      BY DEF Free
    <2>2. CASE k < i
      BY <1>2, <1>3, <1>5, <2>1, <2>2
    <2>3. CASE k >= i
      <3>1. At(G, v, k) = At(G, w, k + d)
        BY <1>2, <1>6, <1>7, <2>3
      <3> QED BY <1>3, <2>1, <2>3, <3>1
    <2> QED BY <1>2, <2>2, <2>3
  <1>9. End(G, v) = End(G, w)
    <2>1. n + 1 \in 1 .. (n + 1) /\ (n + 1) + d = Len(w) + 1
      BY <1>2
    <2>2. At(G, v, n + 1) = At(G, w, (n + 1) + d)
      BY <1>2, <1>6, <1>7, <2>1
    <2> QED BY <1>4, <2>1, <2>2 DEF End
  <1> QED BY <1>2, <1>4, <1>8, <1>9 DEF Free

\* When all targets are declared, some walk to a state is shorter than there
\* are states.
LEMMA ShortWalk ==
  ASSUME NEW G, G.graph \in WalkGraphs, G.start \in G.graph.states, G.start \in StateIds,
         \A s \in StateIds : legal(G.graph, s) \subseteq G.graph.states,
         NEW w, Free(G, w)
  PROVE  \E v : Free(G, v) /\ End(G, v) = End(G, w) /\ Len(v) < Cardinality(G.graph.states)
  <1> DEFINE lengths == {n \in Nat : \E v : Free(G, v) /\ End(G, v) = End(G, w) /\ Len(v) = n}
             S == G.graph.states
  <1>1. IsFiniteSet(S) /\ Cardinality(S) \in Nat
    <2>1. IsFiniteSet(S)
      BY WalksAssumption
    <2> QED BY <2>1, FS_CardinalityType
  <1>2. Len(w) \in lengths
    <2>1. Len(w) \in Nat
      BY FreeStates
    <2> QED BY <2>1
  <1>3. PICK n \in lengths : \A k \in lengths : n <= k
    <2>1. lengths \in SUBSET Nat
      OBVIOUS
    <2> HIDE DEF lengths
    <2> QED BY <1>2, <2>1, Least
  <1>4. PICK v : Free(G, v) /\ End(G, v) = End(G, w) /\ Len(v) = n
    OBVIOUS
  <1>5. n < Cardinality(S)
    <2> SUFFICES ASSUME ~(n < Cardinality(S)) PROVE FALSE
      OBVIOUS
    <2> DEFINE places == 1 .. (n + 1)
               f == [k \in places |-> At(G, v, k)]
    <2>1. n \in Nat
      OBVIOUS
    <2>2. \A k \in places : At(G, v, k) \in S
      <3>1. /\ At(G, v, 1) = G.start
            /\ \A k \in 1 .. (n + 1) : At(G, v, k) \in StateIds
            /\ \A k \in 2 .. (n + 1) : At(G, v, k) \in legal(G.graph, At(G, v, k - 1))
        BY <1>4, FreeStates
      <3>2. \A k \in places : k = 1 \/ (k \in 2 .. (n + 1) /\ k - 1 \in 1 .. (n + 1))
        BY <2>1
      <3> QED BY <3>1, <3>2
    <2>3. f \in [places -> S]
      BY <2>2
    <2>4. IsFiniteSet(places) /\ Cardinality(S) < Cardinality(places)
      <3>1. IsFiniteSet(places) /\ Cardinality(places) = n + 1
        <4>1. 1 \in Int /\ n + 1 \in Int /\ ~(1 > n + 1) /\ (n + 1) - 1 + 1 = n + 1
          BY <2>1
        <4> QED BY <4>1, FS_Interval
      <3> QED BY <1>1, <2>1, <3>1
    <2>5. PICK x, y \in places : x # y /\ f[x] = f[y]
      <3> HIDE DEF places, f, S
      <3> QED BY <1>1, <2>3, <2>4, FS_PigeonHole
    <2>6. At(G, v, x) = At(G, v, y) /\ (x < y \/ y < x)
      BY <2>1, <2>5
    <2>7. \E u : Free(G, u) /\ End(G, u) = End(G, v) /\ Len(u) < Len(v)
      BY <1>4, <2>6, FreeCut
    <2>8. PICK u : Free(G, u) /\ End(G, u) = End(G, w) /\ Len(u) < n
      BY <1>4, <2>7
    <2>9. Len(u) \in lengths
      <3>1. Len(u) \in Nat
        BY <2>8, FreeStates
      <3> QED BY <2>8, <3>1
    <2> QED BY <1>3, <2>1, <2>8, <2>9
  <1> QED BY <1>4, <1>5

LEMMA FreeNext ==
  ASSUME NEW G, NEW s, Free(G, s), NEW p \in ChoicesOf(G), Open(G, p, End(G, s))
  PROVE  Free(G, Append(s, p)) /\ End(G, Append(s, p)) = SitesOf(G)[p.site].to[p.pick]
  <1> DEFINE w == Append(s, p)
  <1>1. /\ w \in Seq(ChoicesOf(G)) /\ Len(w) = Len(s) + 1 /\ w[Len(s) + 1] = p
        /\ Agree(w, s, Len(s)) /\ Len(s) \in Nat
    BY DEF Agree, Free
  <1> HIDE DEF w
  <1>2. At(G, w, Len(s) + 1) = End(G, s)
    BY <1>1, AgreedSteps DEF End
  <1>3. \A i \in 1 .. Len(s) : Open(G, w[i], At(G, w, i))
    BY <1>1, AgreedSteps DEF Free
  <1>4. Free(G, w)
    BY <1>1, <1>2, <1>3 DEF Free
  <1>5. End(G, w) = SitesOf(G)[p.site].to[p.pick]
    BY <1>1 DEF End, At
  <1> QED BY <1>4, <1>5 DEF w

\* Without stops, free walks come to every state that can be reached.
LEMMA FreeReaches ==
  ASSUME NEW G, G.graph \in WalkGraphs, G.start \in StateIds, G.terminal_states = {},
         NEW s \in StateIds, Reaches(G.graph, G.start, s)
  PROVE  \E w : Free(G, w) /\ End(G, w) = s
  <1> DEFINE R == {t \in StateIds : \E w : Free(G, w) /\ End(G, w) = t}
  <1>1. G.start \in R
    <2>1. Free(G, <<>>) /\ End(G, <<>>) = G.start
      <3>1. <<>> \in Seq(ChoicesOf(G)) /\ Len(<<>>) = 0
        OBVIOUS
      <3> QED BY <3>1 DEF Free, End, At
    <2> QED BY <2>1
  <1>2. Closed(G.graph, R)
    <2> SUFFICES ASSUME NEW r \in R, NEW t \in legal(G.graph, r) PROVE t \in R
      BY DEF Closed
    <2>1. PICK w : Free(G, w) /\ End(G, w) = r
      OBVIOUS
    <2>2. PICK p \in ChoicesOf(G) : Open(G, p, r) /\ SitesOf(G)[p.site].to[p.pick] = t
      BY OpenIsLegal
    <2>3. t \in StateIds
      BY <2>2, OpenIsLegal
    <2>4. Free(G, Append(w, p)) /\ End(G, Append(w, p)) = t
      BY <2>1, <2>2, FreeNext
    <2> QED BY <2>3, <2>4
  <1>3. R \in SUBSET StateIds
    OBVIOUS
  <1> HIDE DEF R
  <1>4. s \in R
    BY <1>1, <1>2, <1>3 DEF Reaches
  <1> QED BY <1>4 DEF R

\* All targets declared and no stops: the walks listed with the default depth
\* end in every state that assert_path can reach from their start, on any graph
\* (walks.rs:62).
THEOREM DefaultDepthReachesAllHolds == Walks!Spec => []DefaultDepthReachesAll
  <1>1. ASSUME WalksInv PROVE DefaultDepthReachesAll
    <2> SUFFICES ASSUME phase = "done", start \in graph.states,
                        \A s \in StateIds : legal(graph, s) \subseteq graph.states,
                        max_depth = Walks!DefaultDepth(graph),
                        terminal_states = {}, include_empty
        PROVE  {Walks!EndOf(w) : w \in Walks!Listed} = {s \in StateIds : Reaches(graph, start, s)}
      BY DEF DefaultDepthReachesAll, Walks!DefaultDepthReachesAll, Walks!legal, legal,
             Walks!transitions_from, transitions_from, Walks!Reaches, Reaches, Walks!Closed, Closed
    <2> DEFINE G == Generator
    <2>1. /\ G.graph = graph /\ G.start = start /\ G.max_depth = max_depth
          /\ G.terminal_states = terminal_states
          /\ graph \in WalkGraphs /\ start \in StateIds /\ max_depth \in Nat
      BY <1>1 DEF WalksInv, WalksTypeOK, Generator
    <2>2. Walks!Listed = {w \in Seq(ChoicesOf(G)) : Legal(G, w)}
      <3>1. Walks!Listed = PastWalks(G, include_empty, "done", steps, cursor)
        BY <1>1 DEF WalksInv, Lists, Walks!Listed
      <3> QED BY <3>1 DEF PastWalks, Past
    <2>3. \A w \in Seq(ChoicesOf(G)) : Walks!EndOf(w) = End(G, w)
      BY EndIsAt
    <2>4. max_depth = Cardinality(graph.states) - 1 /\ Cardinality(graph.states) \in Nat
      <3>1. IsFiniteSet(graph.states)
        BY <2>1, WalksAssumption
      <3> QED BY <3>1, FS_CardinalityType, SameCardinality DEF Walks!DefaultDepth
    <2> HIDE DEF G
    <2>5. ASSUME NEW w \in Seq(ChoicesOf(G)), Legal(G, w)
          PROVE  End(G, w) \in {s \in StateIds : Reaches(graph, start, s)}
      <3>1. Free(G, w)
        BY <2>5 DEF Free, Legal
      <3>2. End(G, w) \in StateIds
        <4>1. Len(w) + 1 \in 1 .. (Len(w) + 1)
          OBVIOUS
        <4> QED BY <2>1, <3>1, <4>1, FreeStates DEF End
      <3>3. Reaches(graph, start, End(G, w))
        BY <2>1, <3>1, FreeStaysInside DEF Reaches
      <3> QED BY <3>2, <3>3
    <2>6. ASSUME NEW s \in StateIds, Reaches(graph, start, s)
          PROVE  \E w \in Seq(ChoicesOf(G)) : Legal(G, w) /\ End(G, w) = s
      <3>1. PICK w : Free(G, w) /\ End(G, w) = s
        BY <2>1, <2>6, FreeReaches
      <3>2. PICK v : Free(G, v) /\ End(G, v) = s /\ Len(v) < Cardinality(graph.states)
        BY <2>1, <3>1, ShortWalk
      <3>3. v \in Seq(ChoicesOf(G)) /\ Len(v) \in Nat
        BY <3>2 DEF Free
      <3>4. Legal(G, v)
        BY <2>1, <2>4, <3>2, <3>3 DEF Free, Legal
      <3> QED BY <3>2, <3>3, <3>4
    <2> QED BY <2>2, <2>3, <2>5, <2>6
  <1> QED BY <1>1, WalksInvariance, PTL

-----------------------------------------------------------------------------
(* The views.                                                              *)
(*                                                                         *)
(* A recursion over a sequence is a function that agrees with itself; such *)
(* a function exists, is what CHOOSE picks, and is known up to each place. *)
(* The views are such recursions over one list of edges, which has the     *)
(* moves of the sites and nothing else.                                    *)

\* What holds at 0 and is kept holds up to n.
LEMMA UpTo ==
  ASSUME NEW n \in Nat, NEW S, 0 \in S, \A k \in 1 .. n : k - 1 \in S => k \in S
  PROVE  \A k \in 0 .. n : k \in S
  <1> DEFINE Out == {k \in 0 .. n : k \notin S}
  <1>1. SUFFICES Out = {}
    BY <1>1
  <1>2. SUFFICES ASSUME Out # {} PROVE FALSE
    OBVIOUS
  <1>3. PICK k \in Out : \A j \in Out : k <= j
    <2>1. Out \in SUBSET Nat
      OBVIOUS
    <2> HIDE DEF Out
    <2> QED BY <1>2, <2>1, Least
  <1>4. k \in 1 .. n /\ k - 1 \in 0 .. n /\ ~(k <= k - 1)
    OBVIOUS
  <1>5. k - 1 \in S
    BY <1>3, <1>4
  <1> QED BY <1>4, <1>5

\* f starts with x and takes n steps, each as step says.
Runs(f, n, x, step) == f[0] = x /\ \A k \in 1 .. n : f[k] = step[k][f[k - 1]]

LEMMA RunExists ==
  ASSUME NEW V, NEW x \in V, NEW n \in Nat, NEW step \in [1 .. n -> [V -> V]]
  PROVE  \E f \in [0 .. n -> V] : Runs(f, n, x, step)
  <1> DEFINE Has(k) == \E f \in [0 .. k -> V] : Runs(f, k, x, step)
             S == {k \in 0 .. n : Has(k)}
  <1>1. 0 \in S
    <2>1. [i \in 0 .. 0 |-> x] \in [0 .. 0 -> V] /\ Runs([i \in 0 .. 0 |-> x], 0, x, step)
      BY DEF Runs
    <2>2. Has(0)
      BY <2>1
    <2> HIDE DEF Has
    <2> QED BY <2>2
  <1>2. ASSUME NEW k \in 1 .. n, k - 1 \in S PROVE k \in S
    <2>1. PICK f \in [0 .. (k - 1) -> V] : Runs(f, k - 1, x, step)
      BY <1>2
    <2> DEFINE g == [i \in 0 .. k |-> IF i < k THEN f[i] ELSE step[k][f[k - 1]]]
    <2>2. step[k] \in [V -> V] /\ f[k - 1] \in V
      OBVIOUS
    <2>3. step[k][f[k - 1]] \in V
      BY <2>2
    <2>4. g \in [0 .. k -> V]
      BY <2>3
    <2>5. (\A i \in 0 .. (k - 1) : g[i] = f[i]) /\ g[k] = step[k][f[k - 1]]
      OBVIOUS
    <2> HIDE DEF g
    <2>6. ASSUME NEW i \in 1 .. k PROVE g[i] = step[i][g[i - 1]]
      <3>1. CASE i = k
        BY <2>5, <3>1
      <3>2. CASE i # k
        <4>1. i \in 1 .. (k - 1) /\ i \in 0 .. (k - 1) /\ i - 1 \in 0 .. (k - 1)
          BY <3>2
        <4> QED BY <2>1, <2>5, <4>1 DEF Runs
      <3> QED BY <3>1, <3>2
    <2>7. Runs(g, k, x, step)
      BY <2>1, <2>5, <2>6 DEF Runs
    <2>8. Has(k)
      BY <2>4, <2>7
    <2> HIDE DEF Has
    <2> QED BY <2>8
  <1>3. n \in S
    <2> HIDE DEF S
    <2>1. \A k \in 0 .. n : k \in S
      BY <1>1, <1>2, UpTo
    <2> QED BY <2>1
  <1> QED BY <1>3

LEMMA RangeOfAppend ==
  ASSUME NEW T, NEW s \in Seq(T), NEW e \in T
  PROVE  \A x : x \in Range(Append(s, e)) <=> x \in Range(s) \/ x = e
  <1> DEFINE t == Append(s, e)
  <1>1. /\ DOMAIN s = 1 .. Len(s) /\ DOMAIN t = 1 .. (Len(s) + 1) /\ Len(s) \in Nat
        /\ t[Len(s) + 1] = e /\ \A i \in 1 .. Len(s) : t[i] = s[i]
    OBVIOUS
  <1>2. \A i : i \in 1 .. (Len(s) + 1) <=> i \in 1 .. Len(s) \/ i = Len(s) + 1
    BY <1>1
  <1> HIDE DEF t
  <1>3. \A x : x \in Range(t) <=> x \in Range(s) \/ x = e
    BY <1>1, <1>2 DEF Range
  <1> USE DEF t
  <1> QED BY <1>3

LEMMA RangeOfConcat ==
  ASSUME NEW T, NEW s \in Seq(T), NEW t \in Seq(T)
  PROVE  \A x : x \in Range(s \o t) <=> x \in Range(s) \/ x \in Range(t)
  <1> DEFINE u == s \o t
  <1>1. /\ DOMAIN s = 1 .. Len(s) /\ DOMAIN t = 1 .. Len(t) /\ Len(s) \in Nat /\ Len(t) \in Nat
        /\ DOMAIN u = 1 .. (Len(s) + Len(t))
        /\ \A i \in 1 .. Len(s) : u[i] = s[i]
        /\ \A i \in 1 .. Len(t) : u[Len(s) + i] = t[i]
    OBVIOUS
  <1> HIDE DEF u
  <1>2. ASSUME NEW x, x \in Range(u) PROVE x \in Range(s) \/ x \in Range(t)
    <2>1. PICK i \in 1 .. (Len(s) + Len(t)) : x = u[i]
      BY <1>1, <1>2 DEF Range
    <2>2. CASE i <= Len(s)
      <3>1. i \in 1 .. Len(s)
        BY <1>1, <2>2
      <3> QED BY <1>1, <2>1, <3>1 DEF Range
    <2>3. CASE ~(i <= Len(s))
      <3>1. i - Len(s) \in 1 .. Len(t) /\ Len(s) + (i - Len(s)) = i
        BY <1>1, <2>3
      <3>2. u[i] = t[i - Len(s)]
        BY <1>1, <3>1
      <3> QED BY <1>1, <2>1, <3>1, <3>2 DEF Range
    <2> QED BY <2>2, <2>3
  <1>3. ASSUME NEW i \in 1 .. Len(s) PROVE s[i] \in Range(u)
    <2>1. i \in DOMAIN u
      BY <1>1
    <2> QED BY <1>1, <2>1 DEF Range
  <1>4. ASSUME NEW i \in 1 .. Len(t) PROVE t[i] \in Range(u)
    <2>1. Len(s) + i \in DOMAIN u
      BY <1>1
    <2> QED BY <1>1, <2>1 DEF Range
  <1>5. \A x : x \in Range(u) <=> x \in Range(s) \/ x \in Range(t)
    BY <1>1, <1>2, <1>3, <1>4 DEF Range
  <1> USE DEF u
  <1> QED BY <1>5

LEMMA AppendStaysInjective ==
  ASSUME NEW T, NEW s \in Seq(T), NEW e \in T, e \notin Range(s), IsInjective(s)
  PROVE  IsInjective(Append(s, e))
  <1> DEFINE t == Append(s, e)
  <1>1. /\ DOMAIN s = 1 .. Len(s) /\ DOMAIN t = 1 .. (Len(s) + 1) /\ Len(s) \in Nat
        /\ t[Len(s) + 1] = e /\ \A i \in 1 .. Len(s) : t[i] = s[i]
    OBVIOUS
  <1>2. \A i \in 1 .. (Len(s) + 1) : i \in 1 .. Len(s) \/ i = Len(s) + 1
    BY <1>1
  <1> HIDE DEF t
  <1>3. \A i \in 1 .. Len(s) : s[i] # e
    BY <1>1 DEF Range
  <1>4. IsInjective(t)
    BY <1>1, <1>2, <1>3 DEF IsInjective
  <1> USE DEF t
  <1> QED BY <1>4

LEMMA Single == ASSUME NEW T, NEW x \in T PROVE <<x>> \in Seq(T)
  OBVIOUS

LEMMA EmptyRange ==
  ASSUME NEW T, NEW s \in Seq(T)
  PROVE  s = <<>> <=> \A x : x \notin Range(s)
  <1>1. s # <<>> => 1 \in DOMAIN s
    OBVIOUS
  <1>2. s = <<>> => DOMAIN s = {}
    OBVIOUS
  <1> QED BY <1>1, <1>2 DEF Range

\* The recursions over a sequence, each a function that agrees with itself.
Flattening(f, rows) == f = [k \in 0 .. Len(rows) |-> IF k = 0 THEN <<>> ELSE f[k - 1] \o rows[k]]

Choosing(f, seq, places) ==
  f = [k \in 0 .. Len(seq) |->
         IF k = 0 THEN <<>> ELSE IF k \in places THEN Append(f[k - 1], seq[k]) ELSE f[k - 1]]

Sighting(f, names, seen) ==
  f = [k \in 0 .. Len(seen) |->
         IF k = 0 THEN names
         ELSE IF seen[k] \in Range(f[k - 1]) THEN f[k - 1] ELSE Append(f[k - 1], seen[k])]

LEMMA FlattenedIs ==
  ASSUME NEW T, NEW rows \in Seq(Seq(T))
  PROVE  \E f : Flattening(f, rows) /\ Flattened(rows) = f[Len(rows)]
  <1> DEFINE V == Seq(T)
             step == [k \in 1 .. Len(rows) |-> [w \in V |-> w \o rows[k]]]
  <1>1. step \in [1 .. Len(rows) -> [V -> V]] /\ <<>> \in V /\ Len(rows) \in Nat
    OBVIOUS
  <1>2. PICK f \in [0 .. Len(rows) -> V] : Runs(f, Len(rows), <<>>, step)
    <2> HIDE DEF V, step
    <2> QED BY <1>1, RunExists
  <1>3. Flattening(f, rows)
    <2>1. ASSUME NEW k \in 1 .. Len(rows) PROVE f[k] = f[k - 1] \o rows[k]
      <3>1. f[k - 1] \in V
        OBVIOUS
      <3>2. step[k] = [w \in V |-> w \o rows[k]]
        OBVIOUS
      <3>3. f[k] = step[k][f[k - 1]]
        BY <1>2 DEF Runs
      <3> HIDE DEF step, V
      <3> QED BY <3>1, <3>2, <3>3
    <2>2. f[0] = <<>>
      BY <1>2 DEF Runs
    <2> HIDE DEF step, V
    <2> DEFINE h == [k \in 0 .. Len(rows) |-> IF k = 0 THEN <<>> ELSE f[k - 1] \o rows[k]]
    <2>3. \A k \in 0 .. Len(rows) : f[k] = h[k]
      <3> TAKE k \in 0 .. Len(rows)
      <3>1. CASE k = 0
        BY <2>2, <3>1
      <3>2. CASE k # 0
        <4>1. k \in 1 .. Len(rows)
          BY <1>1, <3>2
        <4>2. h[k] = IF k = 0 THEN <<>> ELSE f[k - 1] \o rows[k]
          OBVIOUS
        <4> HIDE DEF h
        <4> QED BY <2>1, <3>2, <4>1, <4>2
      <3> QED BY <3>1, <3>2
    <2>4. f = h
      BY <2>3
    <2> QED BY <2>4 DEF Flattening
  <1>4. Flattening(CHOOSE g : Flattening(g, rows), rows)
    BY <1>3
  <1>5. Flattened(rows) = (CHOOSE g : Flattening(g, rows))[Len(rows)]
    BY DEF Flattened, Flattening
  <1> QED BY <1>4, <1>5

LEMMA ChosenIs ==
  ASSUME NEW T, NEW seq \in Seq(T), NEW places
  PROVE  \E f : Choosing(f, seq, places) /\ Chosen(seq, places) = f[Len(seq)]
  <1> DEFINE V == Seq(T)
             step == [k \in 1 .. Len(seq) |->
                        [w \in V |-> IF k \in places THEN Append(w, seq[k]) ELSE w]]
  <1>1. step \in [1 .. Len(seq) -> [V -> V]] /\ <<>> \in V /\ Len(seq) \in Nat
    OBVIOUS
  <1>2. PICK f \in [0 .. Len(seq) -> V] : Runs(f, Len(seq), <<>>, step)
    <2> HIDE DEF V, step
    <2> QED BY <1>1, RunExists
  <1>3. Choosing(f, seq, places)
    <2>1. ASSUME NEW k \in 1 .. Len(seq)
          PROVE  f[k] = IF k \in places THEN Append(f[k - 1], seq[k]) ELSE f[k - 1]
      <3>1. f[k - 1] \in V
        OBVIOUS
      <3>2. step[k] = [w \in V |-> IF k \in places THEN Append(w, seq[k]) ELSE w]
        OBVIOUS
      <3>3. f[k] = step[k][f[k - 1]]
        BY <1>2 DEF Runs
      <3> HIDE DEF step, V
      <3> QED BY <3>1, <3>2, <3>3
    <2>2. f[0] = <<>>
      BY <1>2 DEF Runs
    <2> HIDE DEF step, V
    <2> DEFINE h == [k \in 0 .. Len(seq) |->
                       IF k = 0 THEN <<>>
                       ELSE IF k \in places THEN Append(f[k - 1], seq[k]) ELSE f[k - 1]]
    <2>3. \A k \in 0 .. Len(seq) : f[k] = h[k]
      <3> TAKE k \in 0 .. Len(seq)
      <3>1. CASE k = 0
        BY <2>2, <3>1
      <3>2. CASE k # 0
        <4>1. k \in 1 .. Len(seq)
          BY <1>1, <3>2
        <4>2. h[k] = IF k = 0 THEN <<>> ELSE IF k \in places THEN Append(f[k - 1], seq[k]) ELSE f[k - 1]
          OBVIOUS
        <4> HIDE DEF h
        <4> QED BY <2>1, <3>2, <4>1, <4>2
      <3> QED BY <3>1, <3>2
    <2>4. f = h
      BY <2>3
    <2> QED BY <2>4 DEF Choosing
  <1>4. Choosing(CHOOSE g : Choosing(g, seq, places), seq, places)
    BY <1>3
  <1>5. Chosen(seq, places) = (CHOOSE g : Choosing(g, seq, places))[Len(seq)]
    BY DEF Chosen, Choosing
  <1> QED BY <1>4, <1>5

LEMMA SightedIs ==
  ASSUME NEW T, NEW names \in Seq(T), NEW seen \in Seq(T)
  PROVE  \E f : Sighting(f, names, seen) /\ Sighted(names, seen) = f[Len(seen)]
  <1> DEFINE V == Seq(T)
             step == [k \in 1 .. Len(seen) |->
                        [w \in V |-> IF seen[k] \in Range(w) THEN w ELSE Append(w, seen[k])]]
  <1>1. step \in [1 .. Len(seen) -> [V -> V]] /\ names \in V /\ Len(seen) \in Nat
    OBVIOUS
  <1>2. PICK f \in [0 .. Len(seen) -> V] : Runs(f, Len(seen), names, step)
    <2> HIDE DEF V, step
    <2> QED BY <1>1, RunExists
  <1>3. Sighting(f, names, seen)
    <2>1. ASSUME NEW k \in 1 .. Len(seen)
          PROVE  f[k] = IF seen[k] \in Range(f[k - 1]) THEN f[k - 1] ELSE Append(f[k - 1], seen[k])
      <3>1. f[k - 1] \in V
        OBVIOUS
      <3>2. step[k] = [w \in V |-> IF seen[k] \in Range(w) THEN w ELSE Append(w, seen[k])]
        OBVIOUS
      <3>3. f[k] = step[k][f[k - 1]]
        BY <1>2 DEF Runs
      <3> HIDE DEF step, V
      <3> QED BY <3>1, <3>2, <3>3
    <2>2. f[0] = names
      BY <1>2 DEF Runs
    <2> HIDE DEF step, V
    <2> DEFINE h == [k \in 0 .. Len(seen) |->
                       IF k = 0 THEN names
                       ELSE IF seen[k] \in Range(f[k - 1]) THEN f[k - 1] ELSE Append(f[k - 1], seen[k])]
    <2>3. \A k \in 0 .. Len(seen) : f[k] = h[k]
      <3> TAKE k \in 0 .. Len(seen)
      <3>1. CASE k = 0
        BY <2>2, <3>1
      <3>2. CASE k # 0
        <4>1. k \in 1 .. Len(seen)
          BY <1>1, <3>2
        <4>2. h[k] = IF k = 0 THEN names
                     ELSE IF seen[k] \in Range(f[k - 1]) THEN f[k - 1] ELSE Append(f[k - 1], seen[k])
          OBVIOUS
        <4> HIDE DEF h
        <4> QED BY <2>1, <3>2, <4>1, <4>2
      <3> QED BY <3>1, <3>2
    <2>4. f = h
      BY <2>3
    <2> QED BY <2>4 DEF Sighting
  <1>4. Sighting(CHOOSE g : Sighting(g, names, seen), names, seen)
    BY <1>3
  <1>5. Sighted(names, seen) = (CHOOSE g : Sighting(g, names, seen))[Len(seen)]
    BY DEF Sighted, Sighting
  <1> QED BY <1>4, <1>5

LEMMA FlattenedHas ==
  ASSUME NEW T, NEW rows \in Seq(Seq(T))
  PROVE  /\ Flattened(rows) \in Seq(T)
         /\ \A x : x \in Range(Flattened(rows)) <=> \E i \in DOMAIN rows : x \in Range(rows[i])
  <1>1. PICK f : Flattening(f, rows) /\ Flattened(rows) = f[Len(rows)]
    BY FlattenedIs
  <1> DEFINE n == Len(rows)
             Right(k) == /\ f[k] \in Seq(T)
                         /\ \A x : x \in Range(f[k]) <=> \E i \in 1 .. k : x \in Range(rows[i])
             S == {k \in 0 .. n : Right(k)}
  <1>2. n \in Nat /\ DOMAIN rows = 1 .. n
    OBVIOUS
  <1>3. f[0] = <<>> /\ \A k \in 1 .. n : f[k] = f[k - 1] \o rows[k]
    <2>1. 0 \in 0 .. n /\ \A k \in 1 .. n : k \in 0 .. n /\ k # 0
      BY <1>2
    <2> HIDE DEF n
    <2>2. f = [k \in 0 .. n |-> IF k = 0 THEN <<>> ELSE f[k - 1] \o rows[k]]
      BY <1>1 DEF Flattening, n
    <2> QED BY <2>1, <2>2
  <1>4. Right(0)
    BY <1>3 DEF Range
  <1>5. ASSUME NEW k \in 1 .. n, Right(k - 1) PROVE Right(k)
    <2>1. f[k - 1] \in Seq(T) /\ rows[k] \in Seq(T)
      BY <1>2, <1>5
    <2>2. f[k - 1] \o rows[k] \in Seq(T)
      BY <2>1
    <2>3. \A x : x \in Range(f[k - 1] \o rows[k])
                    <=> x \in Range(f[k - 1]) \/ x \in Range(rows[k])
      BY <2>1, RangeOfConcat
    <2>5. f[k] = f[k - 1] \o rows[k]
      BY <1>3
    <2>4. \A i : i \in 1 .. k <=> i \in 1 .. (k - 1) \/ i = k
      BY <1>2
    <2> QED BY <1>5, <2>2, <2>3, <2>4, <2>5
  <1>6. Right(n)
    <2> HIDE DEF Right
    <2>1. 0 \in S /\ \A k \in 1 .. n : k - 1 \in S => k \in S
      BY <1>2, <1>4, <1>5
    <2> HIDE DEF S
    <2>2. \A k \in 0 .. n : k \in S
      BY <1>2, <2>1, UpTo
    <2>3. n \in S
      BY <1>2, <2>2
    <2> USE DEF S
    <2> QED BY <2>3
  <1> QED BY <1>1, <1>2, <1>6

LEMMA ChosenHas ==
  ASSUME NEW T, NEW seq \in Seq(T), NEW places
  PROVE  /\ Chosen(seq, places) \in Seq(T)
         /\ \A x : x \in Range(Chosen(seq, places))
                     <=> \E i \in DOMAIN seq : i \in places /\ x = seq[i]
         /\ Chosen(seq, places) = <<>> <=> \A i \in DOMAIN seq : i \notin places
  <1>1. PICK f : Choosing(f, seq, places) /\ Chosen(seq, places) = f[Len(seq)]
    BY ChosenIs
  <1> DEFINE n == Len(seq)
             Right(k) == /\ f[k] \in Seq(T)
                         /\ \A x : x \in Range(f[k]) <=> \E i \in 1 .. k : i \in places /\ x = seq[i]
             S == {k \in 0 .. n : Right(k)}
  <1>2. n \in Nat /\ DOMAIN seq = 1 .. n
    OBVIOUS
  <1>3. /\ f[0] = <<>>
        /\ \A k \in 1 .. n : f[k] = IF k \in places THEN Append(f[k - 1], seq[k]) ELSE f[k - 1]
    <2>1. 0 \in 0 .. n /\ \A k \in 1 .. n : k \in 0 .. n /\ k # 0
      BY <1>2
    <2> HIDE DEF n
    <2>2. f = [k \in 0 .. n |-> IF k = 0 THEN <<>>
                                ELSE IF k \in places THEN Append(f[k - 1], seq[k]) ELSE f[k - 1]]
      BY <1>1 DEF Choosing, n
    <2> QED BY <2>1, <2>2
  <1>4. Right(0)
    BY <1>3 DEF Range
  <1>5. ASSUME NEW k \in 1 .. n, Right(k - 1) PROVE Right(k)
    <2>1. f[k - 1] \in Seq(T) /\ seq[k] \in T
      BY <1>2, <1>5
    <2>2. \A x : x \in Range(Append(f[k - 1], seq[k])) <=> x \in Range(f[k - 1]) \/ x = seq[k]
      BY <2>1, RangeOfAppend
    <2>3. \A i : i \in 1 .. k <=> i \in 1 .. (k - 1) \/ i = k
      BY <1>2
    <2>4. CASE k \in places
      <3>1. f[k] = Append(f[k - 1], seq[k])
        BY <1>3, <2>4
      <3>2. f[k] \in Seq(T)
        BY <2>1, <3>1
      <3> QED BY <1>5, <2>2, <2>3, <2>4, <3>1, <3>2
    <2>5. CASE k \notin places
      <3>1. f[k] = f[k - 1]
        BY <1>3, <2>5
      <3> QED BY <1>5, <2>3, <2>5, <3>1
    <2> QED BY <2>4, <2>5
  <1>6. Right(n)
    <2> HIDE DEF Right
    <2>1. 0 \in S /\ \A k \in 1 .. n : k - 1 \in S => k \in S
      BY <1>2, <1>4, <1>5
    <2> HIDE DEF S
    <2>2. \A k \in 0 .. n : k \in S
      BY <1>2, <2>1, UpTo
    <2>3. n \in S
      BY <1>2, <2>2
    <2> USE DEF S
    <2> QED BY <2>3
  <1>7. Chosen(seq, places) = <<>> <=> \A x : x \notin Range(Chosen(seq, places))
    BY <1>1, <1>6, EmptyRange
  <1> QED BY <1>1, <1>2, <1>6, <1>7

LEMMA SightedHas ==
  ASSUME NEW T, NEW names \in Seq(T), NEW seen \in Seq(T)
  PROVE  /\ Sighted(names, seen) \in Seq(T)
         /\ \A x : x \in Range(Sighted(names, seen)) <=> x \in Range(names) \/ x \in Range(seen)
         /\ Len(names) <= Len(Sighted(names, seen))
         /\ \A i \in 1 .. Len(names) : Sighted(names, seen)[i] = names[i]
         /\ IsInjective(names) => IsInjective(Sighted(names, seen))
  <1>1. PICK f : Sighting(f, names, seen) /\ Sighted(names, seen) = f[Len(seen)]
    BY SightedIs
  <1> DEFINE n == Len(seen)
             Right(k) == /\ f[k] \in Seq(T)
                         /\ \A x : x \in Range(f[k])
                                     <=> x \in Range(names) \/ \E i \in 1 .. k : x = seen[i]
                         /\ Len(names) <= Len(f[k])
                         /\ \A i \in 1 .. Len(names) : f[k][i] = names[i]
                         /\ IsInjective(names) => IsInjective(f[k])
             S == {k \in 0 .. n : Right(k)}
  <1>2. n \in Nat /\ DOMAIN seen = 1 .. n /\ Len(names) \in Nat
    OBVIOUS
  <1>3. /\ f[0] = names
        /\ \A k \in 1 .. n : f[k] = IF seen[k] \in Range(f[k - 1]) THEN f[k - 1]
                                                                   ELSE Append(f[k - 1], seen[k])
    <2>1. 0 \in 0 .. n /\ \A k \in 1 .. n : k \in 0 .. n /\ k # 0
      BY <1>2
    <2> HIDE DEF n
    <2>2. f = [k \in 0 .. n |-> IF k = 0 THEN names
                                ELSE IF seen[k] \in Range(f[k - 1]) THEN f[k - 1]
                                     ELSE Append(f[k - 1], seen[k])]
      BY <1>1 DEF Sighting, n
    <2> QED BY <2>1, <2>2
  <1>4. Right(0)
    BY <1>2, <1>3
  <1>5. ASSUME NEW k \in 1 .. n, Right(k - 1) PROVE Right(k)
    <2>1. f[k - 1] \in Seq(T) /\ seen[k] \in T
      BY <1>2, <1>5
    <2>2. \A x : x \in Range(Append(f[k - 1], seen[k])) <=> x \in Range(f[k - 1]) \/ x = seen[k]
      BY <2>1, RangeOfAppend
    <2>3. \A i : i \in 1 .. k <=> i \in 1 .. (k - 1) \/ i = k
      BY <1>2
    <2>4. CASE seen[k] \notin Range(f[k - 1])
      <3>1. f[k] = Append(f[k - 1], seen[k])
        BY <1>3, <2>4
      <3>2. /\ f[k] \in Seq(T)
            /\ Len(names) <= Len(f[k])
            /\ \A i \in 1 .. Len(names) : f[k][i] = names[i]
        BY <1>2, <1>5, <2>1, <3>1
      <3>3. IsInjective(f[k - 1]) => IsInjective(f[k])
        BY <2>1, <2>4, <3>1, AppendStaysInjective
      <3>4. \A x : x \in Range(f[k]) <=> x \in Range(f[k - 1]) \/ x = seen[k]
        BY <2>2, <3>1
      <3> QED BY <1>5, <2>3, <3>2, <3>3, <3>4
    <2>5. CASE seen[k] \in Range(f[k - 1])
      <3>1. f[k] = f[k - 1]
        BY <1>3, <2>5
      <3> QED BY <1>5, <2>3, <2>5, <3>1
    <2> QED BY <2>4, <2>5
  <1>6. Right(n)
    <2> HIDE DEF Right
    <2>1. 0 \in S /\ \A k \in 1 .. n : k - 1 \in S => k \in S
      BY <1>2, <1>4, <1>5
    <2> HIDE DEF S
    <2>2. \A k \in 0 .. n : k \in S
      BY <1>2, <2>1, UpTo
    <2>3. n \in S
      BY <1>2, <2>2
    <2> USE DEF S
    <2> QED BY <2>3
  <1>7. \A x : x \in Range(seen) <=> \E i \in 1 .. n : x = seen[i]
    BY <1>2 DEF Range
  <1> QED BY <1>1, <1>2, <1>6, <1>7

-----------------------------------------------------------------------------
\* A graph whose sites start at its states, and an order of these.
Told(g, first, order) ==
  /\ g \in Graphs
  /\ \A i \in DOMAIN g.transitions : g.transitions[i].from \in g.states
  /\ first \in g.states
  /\ order \in Orders(g.states, first)

Names == StateIds \cup {Unknown}
NameIn(g, s) == IF s \in g.states THEN s ELSE Unknown
EdgeSet == [from : Names, to : Names, label : Methods]

LEMMA OrderShape ==
  ASSUME NEW g, NEW first, NEW order, Told(g, first, order)
  PROVE  /\ g.states \subseteq StateIds /\ IsFiniteSet(g.states) /\ Unknown \notin g.states
         /\ Cardinality(g.states) \in Nat
         /\ order \in Seq(g.states) /\ Len(order) = Cardinality(g.states)
         /\ DOMAIN order = 1 .. Len(order)
         /\ 1 \in DOMAIN order /\ order[1] = first
         /\ \A i, j \in DOMAIN order : order[i] = order[j] => i = j
         /\ \A s \in g.states : \E i \in DOMAIN order : order[i] = s
         /\ \A i \in DOMAIN order : order[i] \in g.states
  <1> DEFINE n == Cardinality(g.states)
  <1>1. g \in MachineGraphs /\ IsFiniteSet(g.states)
    BY GraphsAssumption, SlicesAssumption DEF Told
  <1>2. g.states \subseteq StateIds /\ Unknown \notin g.states
    BY <1>1, ViewsAssumption DEF MachineGraphs
  <1>3. n \in Nat
    BY <1>1, FS_CardinalityType
  <1>4. order \in Bijection(1 .. n, g.states) /\ order[1] = first /\ first \in g.states
    BY DEF Told, Orders
  <1>5. /\ order \in [1 .. n -> g.states]
        /\ \A i, j \in 1 .. n : order[i] = order[j] => i = j
        /\ \A s \in g.states : \E i \in 1 .. n : order[i] = s
    BY <1>4 DEF Bijection, Injection, Surjection, IsInjective
  <1>6. order \in Seq(g.states) /\ Len(order) = n /\ DOMAIN order = 1 .. n
    BY <1>3, <1>5
  <1>7. 1 \in 1 .. n
    <2>1. PICK i \in 1 .. n : order[i] = first
      BY <1>4, <1>5
    <2> QED BY <1>3
  <1> QED BY <1>1, <1>2, <1>3, <1>4, <1>5, <1>6, <1>7

DocTransitions == [method_name : Methods, from_state : Names, to_states : Seq(Names)]

LEMMA DocShape ==
  ASSUME NEW g, NEW first, NEW order, Told(g, first, order)
  PROVE  LET doc == from_graph(g, order)
         IN  /\ doc.states = order
             /\ DOMAIN doc.transitions = DOMAIN g.transitions
             /\ g.transitions \in Seq(TransitionDescriptors)
             /\ doc.transitions \in Seq(DocTransitions)
             /\ \A i \in DOMAIN g.transitions :
                  /\ doc.transitions[i].method_name = g.transitions[i].method_name
                  /\ doc.transitions[i].from_state = g.transitions[i].from
                  /\ g.transitions[i].from \in g.states
                  /\ g.transitions[i].method_name \in Methods
                  /\ DOMAIN doc.transitions[i].to_states = DOMAIN g.transitions[i].to
                  /\ \A n \in DOMAIN g.transitions[i].to :
                       doc.transitions[i].to_states[n] = NameIn(g, g.transitions[i].to[n])
  <1> DEFINE doc == from_graph(g, order)
             ts == g.transitions
             row(i) == [method_name |-> ts[i].method_name,
                        from_state |-> NameIn(g, ts[i].from),
                        to_states |-> [n \in DOMAIN ts[i].to |-> NameIn(g, ts[i].to[n])]]
  <1>1. g \in MachineGraphs
    BY GraphsAssumption DEF Told
  <1>2. ts \in Seq(TransitionDescriptors) /\ g.states \subseteq StateIds
    BY <1>1 DEF MachineGraphs
  <1>3. doc.states = order /\ doc.transitions = [i \in DOMAIN ts |-> row(i)]
    BY DEF from_graph, NameIn
  <1>4. \A i \in DOMAIN ts : ts[i] \in TransitionDescriptors /\ ts[i].from \in g.states
    BY <1>2 DEF Told
  <1>5. ASSUME NEW i \in DOMAIN ts
        PROVE  row(i) \in DocTransitions
    <2>1. ts[i].method_name \in Methods /\ ts[i].to \in Seq(StateIds) /\ ts[i].from \in StateIds
      BY <1>2, <1>4 DEF TransitionDescriptors
    <2>2. \A s : s \in StateIds => NameIn(g, s) \in Names
      BY DEF NameIn, Names
    <2>3. [n \in DOMAIN ts[i].to |-> NameIn(g, ts[i].to[n])] \in Seq(Names)
      <3>1. Len(ts[i].to) \in Nat /\ DOMAIN ts[i].to = 1 .. Len(ts[i].to)
        BY <2>1
      <3>2. \A n \in DOMAIN ts[i].to : NameIn(g, ts[i].to[n]) \in Names
        BY <2>1, <2>2
      <3> HIDE DEF ts
      <3> QED BY <3>1, <3>2
    <2> QED BY <2>1, <2>2, <2>3 DEF DocTransitions
  <1>6. doc.transitions \in Seq(DocTransitions)
    <2>1. Len(ts) \in Nat /\ DOMAIN ts = 1 .. Len(ts)
      BY <1>2
    <2> HIDE DEF doc, row, ts
    <2> QED BY <1>3, <1>5, <2>1
  <1>7. ASSUME NEW i \in DOMAIN ts
        PROVE  /\ doc.transitions[i].method_name = ts[i].method_name
               /\ doc.transitions[i].from_state = ts[i].from
               /\ ts[i].method_name \in Methods
               /\ DOMAIN doc.transitions[i].to_states = DOMAIN ts[i].to
               /\ \A n \in DOMAIN ts[i].to : doc.transitions[i].to_states[n] = NameIn(g, ts[i].to[n])
    <2>1. doc.transitions[i] = row(i)
      BY <1>3
    <2>2. NameIn(g, ts[i].from) = ts[i].from
      BY <1>4 DEF NameIn
    <2>3. ts[i].method_name \in Methods
      BY <1>4 DEF TransitionDescriptors
    <2> HIDE DEF doc
    <2> QED BY <2>1, <2>2, <2>3
  <1>8. DOMAIN doc.transitions = DOMAIN ts
    BY <1>3
  <1> HIDE DEF doc
  <1>9. QED BY <1>2, <1>3, <1>4, <1>6, <1>7, <1>8 DEF doc

\* A name has its place in the document exactly if it is a state's.
LEMMA StateIndex ==
  ASSUME NEW g, NEW first, NEW order, Told(g, first, order), NEW doc, doc.states = order
  PROVE  /\ \A name : Declared(doc, name) <=> name \in g.states
         /\ \A i \in DOMAIN order : state_index(doc, order[i]) = i
         /\ \A name : name \in g.states => /\ state_index(doc, name) \in DOMAIN order
                                           /\ order[state_index(doc, name)] = name
  <1>1. /\ DOMAIN order = 1 .. Len(order) /\ Len(order) \in Nat
        /\ \A i, j \in DOMAIN order : order[i] = order[j] => i = j
        /\ \A s \in g.states : \E i \in DOMAIN order : order[i] = s
        /\ \A i \in DOMAIN order : order[i] \in g.states
    BY OrderShape
  <1>2. ASSUME NEW i \in DOMAIN order PROVE state_index(doc, order[i]) = i
    <2>1. order[i] \in Range(order)
      BY DEF Range
    <2> DEFINE FirstAt(k) == order[k] = order[i] /\ \A j \in 1 .. k - 1 : order[j] # order[i]
    <2>2. \A j \in 1 .. i - 1 : j \in DOMAIN order /\ j # i
      BY <1>1
    <2>3. FirstAt(i)
      BY <1>1, <2>2
    <2>4. \A k \in DOMAIN order : FirstAt(k) => k = i
      BY <1>1
    <2>5. (CHOOSE k \in DOMAIN order : FirstAt(k)) = i
      <3> HIDE DEF FirstAt
      <3> QED BY <2>3, <2>4
    <2> QED BY <2>1, <2>5 DEF state_index, Place
  <1>3. ASSUME NEW name, name \notin g.states PROVE state_index(doc, name) = 0
    <2>1. name \notin Range(order)
      BY <1>1, <1>3 DEF Range
    <2> QED BY <2>1 DEF state_index, Place
  <1>4. \A name : name \in g.states => /\ state_index(doc, name) \in DOMAIN order
                                       /\ order[state_index(doc, name)] = name
    BY <1>1, <1>2
  <1>5. \A i \in DOMAIN order : i # 0
    BY <1>1
  <1> QED BY <1>2, <1>3, <1>4, <1>5 DEF Declared

\* The edges of a document are the moves of the sites.
LEMMA EdgesHas ==
  ASSUME NEW g, NEW first, NEW order, Told(g, first, order), NEW doc, doc = from_graph(g, order)
  PROVE  /\ Edges(doc) \in Seq(EdgeSet)
         /\ \A e : e \in Range(Edges(doc)) <=>
              \E i \in DOMAIN g.transitions : \E n \in DOMAIN g.transitions[i].to :
                e = [from |-> g.transitions[i].from, to |-> NameIn(g, g.transitions[i].to[n]),
                     label |-> g.transitions[i].method_name]
  <1> DEFINE ts == g.transitions
             edge(i, n) == [from |-> ts[i].from, to |-> NameIn(g, ts[i].to[n]),
                            label |-> ts[i].method_name]
             row(i) == [n \in DOMAIN ts[i].to |-> edge(i, n)]
             rows == [i \in DOMAIN ts |-> row(i)]
  <1>1. /\ DOMAIN doc.transitions = DOMAIN ts /\ ts \in Seq(TransitionDescriptors)
        /\ doc.states = order
        /\ \A i \in DOMAIN ts :
             /\ doc.transitions[i].method_name = ts[i].method_name
             /\ doc.transitions[i].from_state = ts[i].from
             /\ ts[i].from \in g.states
             /\ ts[i].method_name \in Methods
             /\ DOMAIN doc.transitions[i].to_states = DOMAIN ts[i].to
             /\ \A n \in DOMAIN ts[i].to :
                  doc.transitions[i].to_states[n] = NameIn(g, ts[i].to[n])
    BY DocShape
  <1>2. \A i \in DOMAIN ts : Declared(doc, ts[i].from)
    BY <1>1, StateIndex
  <1>3. Edges(doc) = Flattened(rows)
    <2> DEFINE listed(i) == LET t == doc.transitions[i]
                            IN  IF Declared(doc, t.from_state)
                                THEN [n \in DOMAIN t.to_states |->
                                        [from |-> t.from_state, to |-> t.to_states[n],
                                         label |-> t.method_name]]
                                ELSE <<>>
    <2>1. ASSUME NEW i \in DOMAIN ts PROVE listed(i) = row(i)
      BY <1>1, <1>2
    <2>2. Edges(doc) = Flattened([i \in DOMAIN doc.transitions |-> listed(i)])
      BY DEF Edges
    <2> HIDE DEF listed, row
    <2>3. [i \in DOMAIN doc.transitions |-> listed(i)] = rows
      BY <1>1, <2>1
    <2> HIDE DEF rows
    <2> QED BY <2>2, <2>3
  <1>4. ASSUME NEW i \in DOMAIN ts PROVE row(i) \in Seq(EdgeSet)
    <2>1. ts[i] \in TransitionDescriptors
      BY <1>1
    <2>2. ts[i].to \in Seq(StateIds) /\ ts[i].from \in StateIds /\ ts[i].method_name \in Methods
      BY <2>1 DEF TransitionDescriptors
    <2>3. Len(ts[i].to) \in Nat /\ DOMAIN ts[i].to = 1 .. Len(ts[i].to)
      BY <2>2
    <2>4. \A n \in DOMAIN ts[i].to : edge(i, n) \in EdgeSet
      BY <2>2 DEF EdgeSet, Names, NameIn
    <2> HIDE DEF edge, ts
    <2> QED BY <2>3, <2>4
  <1>5. rows \in Seq(Seq(EdgeSet))
    <2>1. Len(ts) \in Nat /\ DOMAIN ts = 1 .. Len(ts)
      BY <1>1
    <2> HIDE DEF row, ts
    <2> QED BY <1>4, <2>1
  <1>6. /\ Flattened(rows) \in Seq(EdgeSet)
        /\ \A e : e \in Range(Flattened(rows)) <=> \E i \in DOMAIN rows : e \in Range(rows[i])
    <2> HIDE DEF rows
    <2> QED BY <1>5, FlattenedHas
  <1>7. \A e : \A i \in DOMAIN ts : e \in Range(row(i)) <=> \E n \in DOMAIN ts[i].to : e = edge(i, n)
    BY DEF Range
  <1>8. DOMAIN rows = DOMAIN ts /\ \A i \in DOMAIN ts : rows[i] = row(i)
    OBVIOUS
  <1> HIDE DEF rows, row
  <1> QED BY <1>3, <1>6, <1>7, <1>8

-----------------------------------------------------------------------------
\* The edges between two states, by their places.
Between(doc, a1, b1) ==
  {k \in DOMAIN Edges(doc) : Edges(doc)[k].from = a1 /\ Edges(doc)[k].to = b1}

Labels(doc) == [k \in DOMAIN Edges(doc) |-> Edges(doc)[k].label]

\* The matrix and the diagram have the same edges between two states, and there are
\* some exactly if a site of the one lists the other.
LEMMA CellsTell ==
  ASSUME NEW g, NEW first, NEW order, Told(g, first, order), NEW i \in DOMAIN order, NEW j \in DOMAIN order
  PROVE  LET docs == render_generated_protocol_docs(from_graph(g, order))
             leading == {k \in transitions_from(g, order[i]) : order[j] \in Range(g.transitions[k].to)}
             cell == docs.matrix[i][j]
         IN  /\ Range(cell) = {g.transitions[k].method_name : k \in leading}
             /\ cell = <<>> <=> order[j] \notin legal(g, order[i])
             /\ cell = Drawn(docs.diagram, i, j)
  <1> DEFINE doc == from_graph(g, order)
             docs == render_generated_protocol_docs(doc)
             leading == {k \in transitions_from(g, order[i]) : order[j] \in Range(g.transitions[k].to)}
             edges == Edges(doc)
             edge(k, n) == [from |-> g.transitions[k].from, to |-> NameIn(g, g.transitions[k].to[n]),
                            label |-> g.transitions[k].method_name]
             places == Between(doc, order[i], order[j])
             cell == Chosen(Labels(doc), places)
  <1>1. /\ edges \in Seq(EdgeSet)
        /\ \A e : e \in Range(edges) <=>
             \E k \in DOMAIN g.transitions : \E n \in DOMAIN g.transitions[k].to : e = edge(k, n)
    BY EdgesHas
  <1>2. doc.states = order
    BY DEF from_graph
  <1>3. /\ \A name : Declared(doc, name) <=> name \in g.states
        /\ \A m \in DOMAIN order : state_index(doc, order[m]) = m
        /\ \A name : name \in g.states => /\ state_index(doc, name) \in DOMAIN order
                                          /\ order[state_index(doc, name)] = name
    BY <1>2, StateIndex
  <1>4. /\ order[i] \in g.states /\ order[j] \in g.states /\ Unknown \notin g.states
        /\ 0 \notin DOMAIN order
    BY OrderShape
  <1>5. /\ \A name : state_index(doc, name) = i <=> name = order[i]
        /\ \A name : state_index(doc, name) = j <=> name = order[j]
    BY <1>3, <1>4 DEF Declared
  <1>6. docs.matrix[i][j] = cell
    <2>1. docs.matrix = to_transition_matrix_table(doc)
      BY DEF render_generated_protocol_docs
    <2>2. to_transition_matrix_table(doc)[i][j]
            = Chosen([k \in DOMAIN edges |-> edges[k].label],
                     {k \in DOMAIN edges : /\ state_index(doc, edges[k].from) = i
                                           /\ state_index(doc, edges[k].to) = j})
      <3> HIDE DEF doc
      <3> QED BY <1>2 DEF to_transition_matrix_table
    <2>3. {k \in DOMAIN edges : /\ state_index(doc, edges[k].from) = i
                                /\ state_index(doc, edges[k].to) = j} = places
      <3> HIDE DEF doc
      <3> QED BY <1>5 DEF Between
    <2> QED BY <2>1, <2>2, <2>3 DEF Labels
  <1>7. Drawn(docs.diagram, i, j) = cell
    <2> DEFINE unknown == unknown_states(doc)
               Node(name) == IF Declared(doc, name) THEN <<"s", state_index(doc, name)>>
                                                    ELSE <<"unknown", Place(unknown, name)>>
               drawn == [k \in DOMAIN edges |->
                           [from |-> Node(edges[k].from), to |-> Node(edges[k].to),
                            label |-> edges[k].label]]
    <2>1. docs.diagram.edges = drawn
      BY DEF render_generated_protocol_docs, Diagram
    <2>2. ASSUME NEW name, NEW m \in DOMAIN order PROVE Node(name) = <<"s", m>> <=> name = order[m]
      <3>1. CASE Declared(doc, name)
        <4>1. Node(name) = <<"s", state_index(doc, name)>>
          BY <3>1
        <4>2. name \in g.states
          BY <1>3, <3>1
        <4> HIDE DEF Node, doc
        <4>3. Node(name) = <<"s", m>> <=> state_index(doc, name) = m
          BY <4>1
        <4> QED BY <1>3, <4>2, <4>3
      <3>2. CASE ~Declared(doc, name)
        <4>1. Node(name) = <<"unknown", Place(unknown, name)>>
          BY <3>2
        <4>2. name \notin g.states /\ order[m] \in g.states
          BY <1>3, <3>2, OrderShape
        <4> HIDE DEF Node, doc, unknown
        <4>3. Node(name)[1] = "unknown"
          BY <4>1
        <4>4. Node(name) # <<"s", m>>
          BY <4>3
        <4> QED BY <4>2, <4>4
      <3> QED BY <3>1, <3>2
    <2> HIDE DEF Node
    <2>3. DOMAIN drawn = DOMAIN edges /\ \A k \in DOMAIN edges :
            /\ drawn[k].from = Node(edges[k].from) /\ drawn[k].to = Node(edges[k].to)
            /\ drawn[k].label = edges[k].label
      OBVIOUS
    <2> HIDE DEF drawn, edges
    <2>4. {k \in DOMAIN drawn : drawn[k].from = <<"s", i>> /\ drawn[k].to = <<"s", j>>}
            = {k \in DOMAIN edges : edges[k].from = order[i] /\ edges[k].to = order[j]}
      BY <2>2, <2>3
    <2>5. [k \in DOMAIN drawn |-> drawn[k].label] = [k \in DOMAIN edges |-> edges[k].label]
      BY <2>3
    <2>6. Drawn(docs.diagram, i, j)
            = Chosen([k \in DOMAIN drawn |-> drawn[k].label],
                     {k \in DOMAIN drawn : drawn[k].from = <<"s", i>> /\ drawn[k].to = <<"s", j>>})
      <3> HIDE DEF docs
      <3> QED BY <2>1 DEF Drawn
    <2> QED BY <2>4, <2>5, <2>6 DEF Between, Labels, edges
  <1>8. Labels(doc) \in Seq(Methods) /\ DOMAIN Labels(doc) = DOMAIN edges
        /\ \A k \in DOMAIN edges : Labels(doc)[k] = edges[k].label
    <2>1. DOMAIN edges = 1 .. Len(edges) /\ Len(edges) \in Nat
          /\ \A k \in DOMAIN edges : edges[k].label \in Methods
      <3> HIDE DEF edges
      <3>1. edges \in Seq(EdgeSet)
        BY <1>1
      <3>2. \A k \in DOMAIN edges : edges[k] \in EdgeSet
        BY <3>1
      <3> QED BY <3>1, <3>2 DEF EdgeSet
    <2>2. Labels(doc) = [k \in 1 .. Len(edges) |-> edges[k].label]
      BY <2>1 DEF Labels
    <2> HIDE DEF edges
    <2> QED BY <2>1, <2>2
  <1>9. /\ \A x : x \in Range(cell) <=>
                     \E k \in DOMAIN edges : k \in places /\ x = edges[k].label
        /\ cell = <<>> <=> \A k \in DOMAIN edges : k \notin places
    <2> HIDE DEF edges, places
    <2>1. /\ \A x : x \in Range(cell) <=>
                       \E k \in DOMAIN Labels(doc) : k \in places /\ x = Labels(doc)[k]
          /\ cell = <<>> <=> \A k \in DOMAIN Labels(doc) : k \notin places
      BY <1>8, ChosenHas
    <2> HIDE DEF cell, doc
    <2> QED BY <1>8, <2>1
  <1>10. ASSUME NEW x
         PROVE  (\E k \in DOMAIN edges : k \in places /\ x = edges[k].label)
                  <=> \E k \in leading : x = g.transitions[k].method_name
    <2>1. ASSUME NEW k \in DOMAIN edges, k \in places, x = edges[k].label
          PROVE  \E l \in leading : x = g.transitions[l].method_name
      <3>1. edges[k] \in Range(edges) /\ edges[k].from = order[i] /\ edges[k].to = order[j]
        BY <2>1 DEF Range, Between
      <3>2. PICK l \in DOMAIN g.transitions : \E n \in DOMAIN g.transitions[l].to : edges[k] = edge(l, n)
        BY <1>1, <3>1
      <3>3. PICK n \in DOMAIN g.transitions[l].to : edges[k] = edge(l, n)
        BY <3>2
      <3>4. /\ g.transitions[l].from = order[i] /\ NameIn(g, g.transitions[l].to[n]) = order[j]
            /\ x = g.transitions[l].method_name
        BY <2>1, <3>1, <3>3
      <3>5. g.transitions[l].to[n] = order[j]
        BY <1>4, <3>4 DEF NameIn
      <3>6. l \in leading
        BY <3>4, <3>5 DEF transitions_from, Range
      <3> QED BY <3>4, <3>6
    <2>2. ASSUME NEW l \in leading, x = g.transitions[l].method_name
          PROVE  \E k \in DOMAIN edges : k \in places /\ x = edges[k].label
      <3>1. l \in DOMAIN g.transitions /\ g.transitions[l].from = order[i]
        BY DEF transitions_from
      <3>2. PICK n \in DOMAIN g.transitions[l].to : g.transitions[l].to[n] = order[j]
        BY DEF Range
      <3>3. NameIn(g, g.transitions[l].to[n]) = order[j]
        BY <1>4, <3>2 DEF NameIn
      <3>4. edge(l, n) \in Range(edges)
        BY <1>1, <3>1, <3>2
      <3>5. PICK k \in DOMAIN edges : edges[k] = edge(l, n)
        BY <3>4 DEF Range
      <3>6. edges[k].from = order[i] /\ edges[k].to = order[j] /\ edges[k].label = x
        BY <2>2, <3>1, <3>3, <3>5
      <3> QED BY <3>6 DEF Between
    <2> HIDE DEF leading, places, edges
    <2> QED BY <2>1, <2>2
  <1>11. leading # {} <=> order[j] \in legal(g, order[i])
    BY DEF legal, Range
  <1>12. Range(cell) = {g.transitions[k].method_name : k \in leading}
    <2> HIDE DEF leading, places, edges, cell
    <2>1. \A x : x \in Range(cell) <=> \E k \in leading : x = g.transitions[k].method_name
      BY <1>9, <1>10
    <2> QED BY <2>1
  <1>13. cell = <<>> <=> order[j] \notin legal(g, order[i])
    <2> HIDE DEF leading, places, edges, cell
    <2>1. (\E k \in DOMAIN edges : k \in places) <=> \E k \in leading : TRUE
      BY <1>10
    <2> QED BY <1>9, <1>11, <2>1
  <1> QED BY <1>6, <1>7, <1>12, <1>13

-----------------------------------------------------------------------------
Moves(doc, name) == {k \in DOMAIN doc.transitions : doc.transitions[k].from_state = name}

LineSet == [state : StateIds, calling : Methods \cup {NoCalls}, to : Seq(Names)]

LineRow(doc, name) ==
  LET leaving == transitions_by_source(doc, name)
  IN  IF leaving = <<>>
      THEN <<[state |-> name, calling |-> NoCalls, to |-> <<>>]>>
      ELSE [k \in DOMAIN leaving |->
              [state |-> name, calling |-> leaving[k].method_name, to |-> leaving[k].to_states]]

\* What the explanation has for a state: its moves, or the note.
LEMMA LinesOf ==
  ASSUME NEW g, NEW first, NEW order, Told(g, first, order), NEW doc, doc = from_graph(g, order),
         NEW i \in DOMAIN order
  PROVE  /\ LineRow(doc, order[i]) \in Seq(LineSet)
         /\ \A line \in Range(LineRow(doc, order[i])) : line.state = order[i]
         /\ \A x : (\E line \in Range(LineRow(doc, order[i])) : line.calling = x) <=>
                     \/ \E k \in transitions_from(g, order[i]) : x = g.transitions[k].method_name
                     \/ x = NoCalls /\ transitions_from(g, order[i]) = {}
  <1> DEFINE leaving == transitions_by_source(doc, order[i])
             note == [state |-> order[i], calling |-> NoCalls, to |-> <<>>]
             line(k) == [state |-> order[i], calling |-> leaving[k].method_name,
                         to |-> leaving[k].to_states]
             row == IF leaving = <<>> THEN <<note>> ELSE [k \in DOMAIN leaving |-> line(k)]
             from_here == transitions_from(g, order[i])
  <1>1. /\ DOMAIN doc.transitions = DOMAIN g.transitions
        /\ doc.transitions \in Seq(DocTransitions)
        /\ \A k \in DOMAIN g.transitions :
             /\ doc.transitions[k].method_name = g.transitions[k].method_name
             /\ doc.transitions[k].from_state = g.transitions[k].from
    BY DocShape
  <1>2. Moves(doc, order[i]) = from_here
    BY <1>1 DEF Moves, transitions_from
  <1>3. /\ leaving \in Seq(DocTransitions)
        /\ \A x : x \in Range(leaving)
                    <=> \E k \in DOMAIN doc.transitions : k \in from_here /\ x = doc.transitions[k]
        /\ leaving = <<>> <=> \A k \in DOMAIN doc.transitions : k \notin from_here
    <2>1. leaving = Chosen(doc.transitions, from_here)
      BY <1>2 DEF transitions_by_source, Moves
    <2> HIDE DEF leaving, from_here
    <2> QED BY <1>1, <2>1, ChosenHas
  <1>4. leaving = <<>> <=> from_here = {}
    BY <1>1, <1>3 DEF transitions_from
  <1>5. DOMAIN leaving = 1 .. Len(leaving) /\ Len(leaving) \in Nat
        /\ \A k \in DOMAIN leaving : leaving[k] \in DocTransitions
    <2> HIDE DEF leaving
    <2> QED BY <1>3
  <1>6. order[i] \in StateIds
    BY OrderShape
  <1>7. CASE leaving = <<>>
    <2>1. row = <<note>>
      BY <1>7
    <2>2. note \in LineSet /\ note.state = order[i] /\ note.calling = NoCalls
      BY <1>6 DEF LineSet
    <2> HIDE DEF row, note, leaving
    <2>3. row \in Seq(LineSet) /\ \A x : x \in Range(row) <=> x = note
      BY <2>1, <2>2 DEF Range
    <2>4. from_here = {}
      BY <1>4, <1>7
    <2>5. /\ row \in Seq(LineSet)
          /\ \A l \in Range(row) : l.state = order[i]
          /\ \A x : (\E l \in Range(row) : l.calling = x) <=>
                      \/ \E k \in from_here : x = g.transitions[k].method_name
                      \/ x = NoCalls /\ from_here = {}
      <3> HIDE DEF from_here
      <3> QED BY <2>2, <2>3, <2>4
    <2> QED BY <2>5 DEF row, leaving, from_here, line, note, LineRow
  <1>8. CASE leaving # <<>>
    <2>1. row = [k \in DOMAIN leaving |-> line(k)]
      BY <1>8
    <2>2. \A k \in DOMAIN leaving : /\ line(k) \in LineSet
                                    /\ line(k).state = order[i]
                                    /\ line(k).calling = leaving[k].method_name
      BY <1>5, <1>6 DEF LineSet, DocTransitions
    <2> HIDE DEF line, row, leaving
    <2>3. row \in Seq(LineSet)
      BY <1>5, <2>1, <2>2
    <2>4. \A x : x \in Range(row) <=> \E k \in DOMAIN leaving : x = line(k)
      BY <2>1 DEF Range
    <2>5. ASSUME NEW x
          PROVE  (\E l \in Range(row) : l.calling = x) <=> \E k \in from_here : x = g.transitions[k].method_name
      <3>1. (\E l \in Range(row) : l.calling = x) <=> \E k \in DOMAIN leaving : leaving[k].method_name = x
        BY <2>2, <2>4
      <3>2. (\E k \in DOMAIN leaving : leaving[k].method_name = x)
              <=> \E t \in Range(leaving) : t.method_name = x
        BY DEF Range
      <3>3. from_here \subseteq DOMAIN g.transitions
        BY DEF transitions_from
      <3> HIDE DEF from_here
      <3>4. (\E t \in Range(leaving) : t.method_name = x)
              <=> \E k \in from_here : x = g.transitions[k].method_name
        BY <1>1, <1>3, <3>3
      <3> QED BY <3>1, <3>2, <3>4
    <2>6. from_here # {}
      BY <1>4, <1>8
    <2> HIDE DEF from_here
    <2>7. /\ row \in Seq(LineSet)
          /\ \A l \in Range(row) : l.state = order[i]
          /\ \A x : (\E l \in Range(row) : l.calling = x) <=>
                      \/ \E k \in from_here : x = g.transitions[k].method_name
                      \/ x = NoCalls /\ from_here = {}
      <3>1. \A l \in Range(row) : l.state = order[i]
        BY <2>2, <2>4
      <3> QED BY <2>3, <2>5, <2>6, <3>1
    <2> QED BY <2>7 DEF row, leaving, from_here, line, note, LineRow
  <1> QED BY <1>7, <1>8

\* The explanation offers a state's moves, and the agent is told of the others.
LEMMA OffersTell ==
  ASSUME NEW g, NEW first, NEW order, Told(g, first, order), NEW i \in DOMAIN order
  PROVE  LET doc == from_graph(g, order)
             docs == render_generated_protocol_docs(doc)
             agent == render_agent_context_markdown(doc)
             offers == {docs.explanation[k].calling :
                          k \in {n \in DOMAIN docs.explanation : docs.explanation[n].state = order[i]}}
         IN  /\ offers \ {NoCalls} = all_transition_methods(doc) \ agent.forbidden_calls[i]
             /\ NoCalls \in offers <=> transitions_from(g, order[i]) = {}
  <1> DEFINE doc == from_graph(g, order)
             docs == render_generated_protocol_docs(doc)
             agent == render_agent_context_markdown(doc)
             lines == docs.explanation
             offers == {lines[k].calling : k \in {n \in DOMAIN lines : lines[n].state = order[i]}}
             row(j) == LineRow(doc, order[j])
             rows == [j \in DOMAIN order |-> row(j)]
             from_here == transitions_from(g, order[i])
  <1>1. /\ doc.states = order
        /\ DOMAIN doc.transitions = DOMAIN g.transitions
        /\ \A k \in DOMAIN g.transitions :
             /\ doc.transitions[k].method_name = g.transitions[k].method_name
             /\ doc.transitions[k].from_state = g.transitions[k].from
             /\ g.transitions[k].method_name \in Methods
    BY DocShape
  <1>2. /\ DOMAIN order = 1 .. Len(order) /\ Len(order) \in Nat
        /\ \A j, k \in DOMAIN order : order[j] = order[k] => j = k
    BY OrderShape
  <1>3. ASSUME NEW j \in DOMAIN order
        PROVE  /\ row(j) \in Seq(LineSet)
               /\ \A line \in Range(row(j)) : line.state = order[j]
               /\ \A x : (\E line \in Range(row(j)) : line.calling = x) <=>
                           \/ \E k \in transitions_from(g, order[j]) : x = g.transitions[k].method_name
                           \/ x = NoCalls /\ transitions_from(g, order[j]) = {}
    <2>1. doc = from_graph(g, order)
      OBVIOUS
    <2>2. row(j) = LineRow(doc, order[j])
      OBVIOUS
    <2> HIDE DEF doc, row
    <2>3. /\ LineRow(doc, order[j]) \in Seq(LineSet)
          /\ \A line \in Range(LineRow(doc, order[j])) : line.state = order[j]
          /\ \A x : (\E line \in Range(LineRow(doc, order[j])) : line.calling = x) <=>
                      \/ \E k \in transitions_from(g, order[j]) : x = g.transitions[k].method_name
                      \/ x = NoCalls /\ transitions_from(g, order[j]) = {}
      <3>1. LineRow(doc, order[j]) \in Seq(LineSet)
        BY <2>1, LinesOf
      <3>2. \A line \in Range(LineRow(doc, order[j])) : line.state = order[j]
        BY <2>1, LinesOf
      <3>3. ASSUME NEW x PROVE (\E line \in Range(LineRow(doc, order[j])) : line.calling = x) <=>
                      \/ \E k \in transitions_from(g, order[j]) : x = g.transitions[k].method_name
                      \/ x = NoCalls /\ transitions_from(g, order[j]) = {}
        BY <2>1, LinesOf
      <3> QED BY <3>1, <3>2, <3>3
    <2> QED BY <2>2, <2>3
  <1>4. lines = Flattened(rows)
    <2>1. lines = render_workflow_explanation_sections(doc)
      BY DEF render_generated_protocol_docs
    <2> HIDE DEF lines, docs, doc
    <2>2. render_workflow_explanation_sections(doc) = Flattened(rows)
      BY <1>1 DEF render_workflow_explanation_sections, LineRow
    <2> QED BY <2>1, <2>2
  <1> HIDE DEF row
  <1>5. rows \in Seq(Seq(LineSet)) /\ DOMAIN rows = DOMAIN order /\ \A j \in DOMAIN order : rows[j] = row(j)
    BY <1>2, <1>3
  <1> HIDE DEF rows
  <1>6. /\ lines \in Seq(LineSet)
        /\ \A x : x \in Range(lines) <=> \E j \in DOMAIN order : x \in Range(row(j))
    BY <1>4, <1>5, FlattenedHas
  <1> HIDE DEF lines
  <1>7. \A x : x \in offers <=> \E line \in Range(row(i)) : line.calling = x
    <2>1. \A x : x \in offers <=> \E line \in Range(lines) : line.state = order[i] /\ line.calling = x
      BY DEF Range
    <2>2. \A line : line \in Range(lines) /\ line.state = order[i] <=> line \in Range(row(i))
      BY <1>2, <1>3, <1>6
    <2> QED BY <2>1, <2>2
  <1>8. \A x : x \in offers <=> \/ \E k \in from_here : x = g.transitions[k].method_name
                                \/ x = NoCalls /\ from_here = {}
    BY <1>3, <1>7
  <1> HIDE DEF offers
  <1>9. from_here \subseteq DOMAIN g.transitions
        /\ \A k \in DOMAIN g.transitions : k \in from_here <=> g.transitions[k].from = order[i]
    BY DEF transitions_from
  <1>10. NoCalls \in offers <=> from_here = {}
    BY <1>1, <1>8, <1>9, ViewsAssumption
  <1>11. agent.forbidden_calls[i] =
           {m \in all_transition_methods(doc) :
              \A k \in DOMAIN doc.transitions :
                doc.transitions[k].from_state = order[i] => doc.transitions[k].method_name # m}
    <2> HIDE DEF doc
    <2> QED BY <1>1 DEF render_agent_context_markdown
  <1> HIDE DEF agent
  <1>12. \A x : x \in all_transition_methods(doc) \ agent.forbidden_calls[i]
                  <=> \E k \in from_here : x = g.transitions[k].method_name
    <2>1. \A x : x \in all_transition_methods(doc)
                   <=> \E k \in DOMAIN g.transitions : x = g.transitions[k].method_name
      BY <1>1 DEF all_transition_methods
    <2> HIDE DEF doc, from_here
    <2> QED BY <1>1, <1>9, <1>11, <2>1
  <1>13. \A x : x \in offers \ {NoCalls} <=> \E k \in from_here : x = g.transitions[k].method_name
    BY <1>1, <1>8, <1>9, ViewsAssumption
  <1>14. offers \ {NoCalls} = all_transition_methods(doc) \ agent.forbidden_calls[i]
    <2> HIDE DEF doc, from_here
    <2> QED BY <1>12, <1>13
  <1> QED BY <1>10, <1>14 DEF offers, agent, lines

\* An undeclared name is a name.
LEMMA UnknownNames ==
  ASSUME NEW doc, Edges(doc) \in Seq(EdgeSet)
  PROVE  unknown_states(doc) \in Seq(Names)
  <1> DEFINE edges == Edges(doc)
             Outside == {k \in DOMAIN edges : ~Declared(doc, edges[k].to)}
             names == [k \in DOMAIN edges |-> edges[k].to]
             seen == Chosen(names, Outside)
  <1>1. unknown_states(doc) = Sighted(<<>>, seen)
    BY DEF unknown_states, Targets
  <1>2. names \in Seq(Names)
    <2>1. edges \in Seq(EdgeSet)
      OBVIOUS
    <2> HIDE DEF edges
    <2>2. DOMAIN edges = 1 .. Len(edges) /\ Len(edges) \in Nat
      BY <2>1
    <2>3. \A k \in DOMAIN edges : edges[k] \in EdgeSet
      BY <2>1
    <2>4. \A k \in DOMAIN edges : edges[k].to \in Names
      BY <2>3 DEF EdgeSet
    <2> QED BY <2>2, <2>4
  <1> HIDE DEF names, Outside, edges
  <1>3. seen \in Seq(Names)
    BY <1>2, ChosenHas
  <1> HIDE DEF seen
  <1>4. <<>> \in Seq(Names)
    OBVIOUS
  <1> QED BY <1>1, <1>3, <1>4, SightedHas

\* What leads out of the declared states is drawn to a node of its own.
LEMMA UnknownIsDrawn ==
  ASSUME NEW g, NEW first, NEW order, Told(g, first, order), NEW i \in DOMAIN order
  PROVE  LET diagram == render_generated_protocol_docs(from_graph(g, order)).diagram
         IN  (\E e \in Range(diagram.edges) : /\ e.from = <<"s", i>>
                                              /\ e.to[1] = "unknown"
                                              /\ e.to[2] \in DOMAIN diagram.unknown)
               <=> ~(legal(g, order[i]) \subseteq g.states)
  <1> DEFINE doc == from_graph(g, order)
             diagram == render_generated_protocol_docs(doc).diagram
             edges == Edges(doc)
             unknown == unknown_states(doc)
             edge(k, n) == [from |-> g.transitions[k].from, to |-> NameIn(g, g.transitions[k].to[n]),
                            label |-> g.transitions[k].method_name]
             Node(name) == IF Declared(doc, name) THEN <<"s", state_index(doc, name)>>
                                                  ELSE <<"unknown", Place(unknown, name)>>
             drawn == [k \in DOMAIN edges |->
                         [from |-> Node(edges[k].from), to |-> Node(edges[k].to),
                          label |-> edges[k].label]]
             Outside == {k \in DOMAIN edges : ~Declared(doc, edges[k].to)}
  <1>1. /\ edges \in Seq(EdgeSet)
        /\ \A e : e \in Range(edges) <=>
             \E k \in DOMAIN g.transitions : \E n \in DOMAIN g.transitions[k].to : e = edge(k, n)
    BY EdgesHas
  <1>2. diagram.edges = drawn /\ diagram.unknown = unknown
    BY DEF render_generated_protocol_docs, Diagram
  <1>3. doc.states = order
    BY DEF from_graph
  <1>4. /\ \A name : Declared(doc, name) <=> name \in g.states
        /\ \A m \in DOMAIN order : state_index(doc, order[m]) = m
        /\ \A name : name \in g.states => /\ state_index(doc, name) \in DOMAIN order
                                          /\ order[state_index(doc, name)] = name
    BY <1>3, StateIndex
  <1>5. order[i] \in g.states /\ Unknown \notin g.states
    BY OrderShape
  <1>6. \A k \in Outside : edges[k].to \in Range(unknown)
    <2> DEFINE names == [k \in DOMAIN edges |-> edges[k].to]
               seen == Chosen(names, Outside)
    <2>1. names \in Seq(Names) /\ DOMAIN names = DOMAIN edges
      <3> HIDE DEF edges
      <3>1. DOMAIN edges = 1 .. Len(edges) /\ Len(edges) \in Nat
        BY <1>1
      <3>2. \A k \in DOMAIN edges : edges[k] \in EdgeSet
        BY <1>1
      <3>3. \A k \in DOMAIN edges : edges[k].to \in Names
        BY <3>2 DEF EdgeSet
      <3> QED BY <3>1, <3>3
    <2>2. unknown = Sighted(<<>>, seen)
      BY DEF unknown_states, Targets
    <2>3. \A k \in DOMAIN edges : names[k] = edges[k].to
      OBVIOUS
    <2> HIDE DEF names, Outside, edges
    <2>4. /\ seen \in Seq(Names)
          /\ \A x : x \in Range(seen) <=> \E k \in DOMAIN names : k \in Outside /\ x = names[k]
      BY <2>1, ChosenHas
    <2> HIDE DEF seen
    <2>5. <<>> \in Seq(Names)
      OBVIOUS
    <2>6. \A x : x \in Range(Sighted(<<>>, seen)) <=> x \in Range(<<>>) \/ x \in Range(seen)
      BY <2>4, <2>5, SightedHas
    <2>7. Outside \subseteq DOMAIN edges
      BY DEF Outside
    <2> HIDE DEF unknown
    <2> QED BY <2>1, <2>2, <2>3, <2>4, <2>6, <2>7
  <1>7. \A name : name \in Range(unknown) => Place(unknown, name) \in DOMAIN unknown
    <2> TAKE name
    <2> HAVE name \in Range(unknown)
    <2> DEFINE FirstAt(k) == unknown[k] = name /\ \A j \in 1 .. k - 1 : unknown[j] # name
               S == {k \in DOMAIN unknown : unknown[k] = name}
    <2>1. DOMAIN unknown \subseteq Nat /\ DOMAIN unknown = 1 .. Len(unknown) /\ Len(unknown) \in Nat
      <3>1. unknown \in Seq(Names)
        BY <1>1, UnknownNames DEF unknown
      <3> HIDE DEF unknown
      <3> QED BY <3>1
    <2> HIDE DEF unknown
    <2>2. S # {} /\ S \in SUBSET Nat
      BY <2>1 DEF Range
    <2>3. PICK m \in S : \A k \in S : m <= k
      <3> HIDE DEF S
      <3> QED BY <2>2, Least
    <2>4. m \in DOMAIN unknown /\ FirstAt(m)
      <3>1. \A j \in 1 .. m - 1 : j \in DOMAIN unknown /\ ~(m <= j)
        BY <2>1, <2>3
      <3> QED BY <2>3, <3>1
    <2>5. (CHOOSE k \in DOMAIN unknown : FirstAt(k)) \in DOMAIN unknown
      <3> HIDE DEF FirstAt
      <3> QED BY <2>4
    <2> QED BY <2>5 DEF Place
  <1>8. ASSUME NEW k \in DOMAIN edges
        PROVE  /\ drawn[k].from = <<"s", i>> <=> edges[k].from = order[i]
               /\ drawn[k].to[1] = "unknown" <=> edges[k].to \notin g.states
               /\ edges[k].to \notin g.states => drawn[k].to[2] \in DOMAIN unknown
    <2>1. drawn[k].from = Node(edges[k].from) /\ drawn[k].to = Node(edges[k].to)
      OBVIOUS
    <2> HIDE DEF drawn
    <2>2. edges[k].from \in g.states
      <3>1. edges[k] \in Range(edges)
        BY DEF Range
      <3>2. PICK l \in DOMAIN g.transitions : \E n \in DOMAIN g.transitions[l].to : edges[k] = edge(l, n)
        BY <1>1, <3>1
      <3> QED BY <3>2 DEF Told
    <2>3. Node(edges[k].from) = <<"s", state_index(doc, edges[k].from)>>
      BY <1>4, <2>2
    <2>4. edges[k].to \in g.states => Node(edges[k].to) = <<"s", state_index(doc, edges[k].to)>>
      BY <1>4
    <2>5. edges[k].to \notin g.states => Node(edges[k].to) = <<"unknown", Place(unknown, edges[k].to)>>
      BY <1>4
    <2>6. edges[k].to \notin g.states => Place(unknown, edges[k].to) \in DOMAIN unknown
      BY <1>4, <1>6, <1>7
    <2> HIDE DEF Node, edges, unknown, doc
    <2>7. drawn[k].from = <<"s", i>> <=> state_index(doc, edges[k].from) = i
      BY <2>1, <2>3
    <2>8. drawn[k].from = <<"s", i>> <=> edges[k].from = order[i]
      BY <1>4, <2>2, <2>7
    <2>9. edges[k].to \in g.states => drawn[k].to[1] = "s"
      BY <2>1, <2>4
    <2>10. edges[k].to \notin g.states => drawn[k].to[1] = "unknown" /\ drawn[k].to[2] \in DOMAIN unknown
      BY <2>1, <2>5, <2>6
    <2> QED BY <2>8, <2>9, <2>10
  <1>9. (\E e \in Range(drawn) : e.from = <<"s", i>> /\ e.to[1] = "unknown" /\ e.to[2] \in DOMAIN unknown)
          <=> \E k \in DOMAIN edges : edges[k].from = order[i] /\ edges[k].to \notin g.states
    <2>1. DOMAIN drawn = DOMAIN edges
      OBVIOUS
    <2> HIDE DEF drawn, edges, unknown
    <2> QED BY <1>8, <2>1 DEF Range
  <1>10. (\E k \in DOMAIN edges : edges[k].from = order[i] /\ edges[k].to \notin g.states)
           <=> \E e \in Range(edges) : e.from = order[i] /\ e.to \notin g.states
    BY DEF Range
  <1>11. (\E e \in Range(edges) : e.from = order[i] /\ e.to \notin g.states)
           <=> \E s \in legal(g, order[i]) : s \notin g.states
    <2>1. ASSUME NEW e \in Range(edges), e.from = order[i], e.to \notin g.states
          PROVE  \E s \in legal(g, order[i]) : s \notin g.states
      <3>1. PICK l \in DOMAIN g.transitions : \E n \in DOMAIN g.transitions[l].to : e = edge(l, n)
        BY <1>1
      <3>2. PICK n \in DOMAIN g.transitions[l].to : e = edge(l, n)
        BY <3>1
      <3>3. g.transitions[l].from = order[i] /\ g.transitions[l].to[n] \notin g.states
        BY <1>5, <2>1, <3>2 DEF NameIn
      <3> QED BY <3>3 DEF legal, transitions_from
    <2>2. ASSUME NEW s \in legal(g, order[i]), s \notin g.states
          PROVE  \E e \in Range(edges) : e.from = order[i] /\ e.to \notin g.states
      <3>1. PICK l \in transitions_from(g, order[i]) : \E n \in DOMAIN g.transitions[l].to : s = g.transitions[l].to[n]
        BY DEF legal
      <3>2. PICK n \in DOMAIN g.transitions[l].to : s = g.transitions[l].to[n]
        BY <3>1
      <3>3. l \in DOMAIN g.transitions /\ g.transitions[l].from = order[i]
        BY DEF transitions_from
      <3>4. edge(l, n) \in Range(edges)
        BY <1>1, <3>2, <3>3
      <3>5. edge(l, n).from = order[i] /\ edge(l, n).to \notin g.states
        BY <1>5, <2>2, <3>2, <3>3 DEF NameIn
      <3> HIDE DEF edge
      <3> QED BY <3>4, <3>5
    <2> QED BY <2>1, <2>2
  <1> HIDE DEF edges, drawn, unknown, diagram
  <1>12. (\E e \in Range(diagram.edges) : /\ e.from = <<"s", i>>
                                          /\ e.to[1] = "unknown"
                                          /\ e.to[2] \in DOMAIN diagram.unknown)
           <=> ~(legal(g, order[i]) \subseteq g.states)
    BY <1>2, <1>9, <1>10, <1>11
  <1> QED BY <1>12 DEF diagram

\* All the views of a graph, at once.
LEMMA TellTheGraphHolds ==
  ASSUME NEW g, NEW first, NEW order, Told(g, first, order)
  PROVE  TellTheGraph(g, order)
  <1> DEFINE doc == from_graph(g, order)
             docs == render_generated_protocol_docs(doc)
             agent == render_agent_context_markdown(doc)
             offers(i) == {docs.explanation[k].calling :
                             k \in {n \in DOMAIN docs.explanation : docs.explanation[n].state = order[i]}}
             leading(i, j) == {k \in transitions_from(g, order[i]) : order[j] \in Range(g.transitions[k].to)}
             CellTells(i, j) ==
               /\ Range(docs.matrix[i][j]) = {g.transitions[k].method_name : k \in leading(i, j)}
               /\ docs.matrix[i][j] = <<>> <=> order[j] \notin legal(g, order[i])
               /\ docs.matrix[i][j] = Drawn(docs.diagram, i, j)
             StateTells(i) ==
               /\ offers(i) \ {NoCalls} = all_transition_methods(doc) \ agent.forbidden_calls[i]
               /\ NoCalls \in offers(i) <=> transitions_from(g, order[i]) = {}
               /\ (\E e \in Range(docs.diagram.edges) : /\ e.from = <<"s", i>>
                                                        /\ e.to[1] = "unknown"
                                                        /\ e.to[2] \in DOMAIN docs.diagram.unknown)
                    <=> ~(legal(g, order[i]) \subseteq g.states)
  <1>1. ASSUME NEW i \in DOMAIN order, NEW j \in DOMAIN order PROVE CellTells(i, j)
    BY CellsTell
  <1>2. ASSUME NEW i \in DOMAIN order PROVE StateTells(i)
    <2>1. /\ offers(i) \ {NoCalls} = all_transition_methods(doc) \ agent.forbidden_calls[i]
          /\ NoCalls \in offers(i) <=> transitions_from(g, order[i]) = {}
      BY OffersTell
    <2>2. (\E e \in Range(docs.diagram.edges) : /\ e.from = <<"s", i>>
                                                /\ e.to[1] = "unknown"
                                                /\ e.to[2] \in DOMAIN docs.diagram.unknown)
            <=> ~(legal(g, order[i]) \subseteq g.states)
      BY UnknownIsDrawn
    <2> QED BY <2>1, <2>2
  <1>3. TellTheGraph(g, order) <=> /\ \A i, j \in DOMAIN order : CellTells(i, j)
                                   /\ \A i \in DOMAIN order : StateTells(i)
    BY DEF TellTheGraph
  <1> HIDE DEF CellTells, StateTells
  <1> QED BY <1>1, <1>2, <1>3

-----------------------------------------------------------------------------
\* more starts as listed does.
Prolongs(more, listed) ==
  Len(listed) <= Len(more) /\ \A i \in 1 .. Len(listed) : more[i] = listed[i]

\* What a state adds to the list that is walked: its legal targets that are declared.
LEMMA ReachedHas ==
  ASSUME NEW g, NEW first, NEW order, Told(g, first, order), NEW doc, doc = from_graph(g, order),
         NEW listed \in Seq(g.states), NEW source \in g.states
  PROVE  /\ Reached(doc, listed, source) \in Seq(g.states)
         /\ \A x : x \in Range(Reached(doc, listed, source))
                     <=> x \in Range(listed) \/ (x \in legal(g, source) /\ x \in g.states)
         /\ Prolongs(Reached(doc, listed, source), listed)
         /\ IsInjective(listed) => IsInjective(Reached(doc, listed, source))
  <1> DEFINE edges == Edges(doc)
             edge(k, n) == [from |-> g.transitions[k].from, to |-> NameIn(g, g.transitions[k].to[n]),
                            label |-> g.transitions[k].method_name]
             places == {k \in DOMAIN edges : edges[k].from = source /\ Declared(doc, edges[k].to)}
             names == [k \in DOMAIN edges |-> edges[k].to]
             seen == Chosen(names, places)
  <1>1. /\ edges \in Seq(EdgeSet)
        /\ \A e : e \in Range(edges) <=>
             \E k \in DOMAIN g.transitions : \E n \in DOMAIN g.transitions[k].to : e = edge(k, n)
    BY EdgesHas
  <1>2. Reached(doc, listed, source) = Sighted(listed, seen)
    BY DEF Reached, Targets
  <1>3. doc.states = order
    BY DEF from_graph
  <1>4. \A name : Declared(doc, name) <=> name \in g.states
    BY <1>3, StateIndex
  <1>5. g.states \subseteq StateIds /\ Unknown \notin g.states
    BY OrderShape
  <1>6. \A k : k \in places <=> k \in DOMAIN edges /\ edges[k].from = source /\ edges[k].to \in g.states
    BY <1>4
  <1>7. names \in Seq(Names) /\ DOMAIN names = DOMAIN edges /\ \A k \in DOMAIN edges : names[k] = edges[k].to
    <2> HIDE DEF edges
    <2>1. DOMAIN edges = 1 .. Len(edges) /\ Len(edges) \in Nat /\ \A k \in DOMAIN edges : edges[k] \in EdgeSet
      BY <1>1
    <2>2. \A k \in DOMAIN edges : edges[k].to \in Names
      BY <2>1 DEF EdgeSet
    <2> QED BY <2>1, <2>2
  <1> HIDE DEF names, places, edges
  <1>8. /\ seen \in Seq(Names)
        /\ \A x : x \in Range(seen) <=> \E k \in DOMAIN names : k \in places /\ x = names[k]
    BY <1>7, ChosenHas
  <1> HIDE DEF seen
  <1>9. \A x : x \in Range(seen) <=> \E e \in Range(edges) : e.from = source /\ e.to = x /\ x \in g.states
    <2>1. \A x : x \in Range(seen) <=> \E k \in DOMAIN edges : /\ edges[k].from = source
                                                              /\ edges[k].to = x /\ x \in g.states
      BY <1>6, <1>7, <1>8
    <2> QED BY <2>1 DEF Range
  <1>10. \A x : x \in Range(seen) <=> x \in legal(g, source) /\ x \in g.states
    <2>1. ASSUME NEW e \in Range(edges), e.from = source, e.to \in g.states PROVE e.to \in legal(g, source)
      <3>1. PICK l \in DOMAIN g.transitions : \E n \in DOMAIN g.transitions[l].to : e = edge(l, n)
        BY <1>1
      <3>2. PICK n \in DOMAIN g.transitions[l].to : e = edge(l, n)
        BY <3>1
      <3>3. g.transitions[l].from = source /\ e.to = g.transitions[l].to[n]
        BY <1>5, <2>1, <3>2 DEF NameIn
      <3> QED BY <3>3 DEF legal, transitions_from
    <2>2. ASSUME NEW s \in legal(g, source), s \in g.states
          PROVE  \E e \in Range(edges) : e.from = source /\ e.to = s
      <3>1. PICK l \in transitions_from(g, source) : \E n \in DOMAIN g.transitions[l].to : s = g.transitions[l].to[n]
        BY DEF legal
      <3>2. PICK n \in DOMAIN g.transitions[l].to : s = g.transitions[l].to[n]
        BY <3>1
      <3>3. l \in DOMAIN g.transitions /\ g.transitions[l].from = source
        BY DEF transitions_from
      <3>4. edge(l, n) \in Range(edges)
        BY <1>1, <3>2, <3>3
      <3>5. edge(l, n).from = source /\ edge(l, n).to = s
        BY <1>5, <2>2, <3>2, <3>3 DEF NameIn
      <3> HIDE DEF edge
      <3> QED BY <3>4, <3>5
    <2> QED BY <1>9, <2>1, <2>2
  <1>11. seen \in Seq(g.states)
    <2>1. DOMAIN seen = 1 .. Len(seen) /\ Len(seen) \in Nat
      BY <1>8
    <2>2. \A k \in DOMAIN seen : seen[k] \in g.states
      BY <1>10 DEF Range
    <2> QED BY <2>1, <2>2, <1>8
  <1>12. /\ Sighted(listed, seen) \in Seq(g.states)
         /\ \A x : x \in Range(Sighted(listed, seen)) <=> x \in Range(listed) \/ x \in Range(seen)
         /\ Len(listed) <= Len(Sighted(listed, seen))
         /\ \A i \in 1 .. Len(listed) : Sighted(listed, seen)[i] = listed[i]
         /\ IsInjective(listed) => IsInjective(Sighted(listed, seen))
    BY <1>11, SightedHas
  <1> QED BY <1>2, <1>10, <1>12 DEF Prolongs

\* The list that grows while it is walked, cursor by cursor.
Walking(f, doc) ==
  f = [k \in 0 .. Len(doc.states) |->
         IF k = 0 THEN <<doc.states[1]>>
         ELSE IF k > Len(f[k - 1]) THEN f[k - 1]
              ELSE Reached(doc, f[k - 1], f[k - 1][k])]

LEMMA WalkingIs ==
  ASSUME NEW g, NEW first, NEW order, Told(g, first, order), NEW doc, doc = from_graph(g, order)
  PROVE  \E f : Walking(f, doc) /\ reachable_state_names_from_first_state(doc) = f[Len(order)]
  <1> DEFINE n == Len(order)
             V == Seq(g.states)
             More(w, k) == IF k > Len(w) THEN w ELSE Reached(doc, w, w[k])
             step == [k \in 1 .. n |-> [w \in V |-> More(w, k)]]
  <1>1. doc.states = order
    BY DEF from_graph
  <1>2. n \in Nat /\ 1 \in 1 .. n /\ order # <<>> /\ <<order[1]>> \in V
    <2>1. order \in Seq(g.states) /\ DOMAIN order = 1 .. Len(order) /\ 1 \in DOMAIN order /\ order[1] \in g.states
      BY OrderShape
    <2>2. n \in Nat /\ 1 \in 1 .. n
      BY <2>1
    <2>3. order # <<>>
      BY <2>2
    <2>4. <<order[1]>> \in V
      BY <2>1, Single
    <2> QED BY <2>2, <2>3, <2>4
  <1>3. ASSUME NEW w \in V, NEW k \in 1 .. n PROVE More(w, k) \in V
    <2>1. CASE k > Len(w)
      BY <2>1
    <2>2. CASE ~(k > Len(w))
      <3>1. w[k] \in g.states
        BY <1>2, <2>2
      <3>2. Reached(doc, w, w[k]) \in V
        BY <3>1, ReachedHas
      <3> QED BY <2>2, <3>2
    <2> QED BY <2>1, <2>2
  <1> HIDE DEF More, V
  <1>4. step \in [1 .. n -> [V -> V]]
    BY <1>3
  <1>5. PICK f \in [0 .. n -> V] : Runs(f, n, <<order[1]>>, step)
    <2> HIDE DEF step, n
    <2> QED BY <1>2, <1>4, RunExists
  <1>6. ASSUME NEW k \in 1 .. n PROVE f[k] = More(f[k - 1], k)
    <2>1. f[k - 1] \in V
      BY <1>2
    <2>2. step[k] = [w \in V |-> More(w, k)]
      OBVIOUS
    <2>3. f[k] = step[k][f[k - 1]]
      BY <1>5 DEF Runs
    <2> HIDE DEF step
    <2> QED BY <2>1, <2>2, <2>3
  <1>7. f[0] = <<order[1]>>
    BY <1>5 DEF Runs
  <1> DEFINE h == [k \in 0 .. n |-> IF k = 0 THEN <<order[1]>> ELSE More(f[k - 1], k)]
  <1>8. f = h
    <2>1. \A k \in 0 .. n : f[k] = h[k]
      <3> TAKE k \in 0 .. n
      <3>1. h[k] = IF k = 0 THEN <<order[1]>> ELSE More(f[k - 1], k)
        OBVIOUS
      <3> HIDE DEF h
      <3>2. k # 0 => k \in 1 .. n
        BY <1>2
      <3> QED BY <1>6, <1>7, <3>1, <3>2
    <2> QED BY <2>1
  <1>9. Walking(f, doc)
    BY <1>1, <1>8 DEF Walking, More
  <1>10. Walking(CHOOSE w : Walking(w, doc), doc)
    BY <1>9
  <1>11. reachable_state_names_from_first_state(doc) = (CHOOSE w : Walking(w, doc))[n]
    BY <1>1, <1>2 DEF reachable_state_names_from_first_state, Walking
  <1> QED BY <1>10, <1>11

\* A declared state is listed exactly if some path leads to it from the first.
LEMMA ReachableIs ==
  ASSUME NEW g, NEW first, NEW order, Told(g, first, order), NEW doc, doc = from_graph(g, order),
         NEW t \in g.states
  PROVE  t \in Range(reachable_state_names_from_first_state(doc)) <=> Reaches(g, first, t)
  <1>1. PICK f : Walking(f, doc) /\ reachable_state_names_from_first_state(doc) = f[Len(order)]
    BY WalkingIs
  <1> DEFINE n == Len(order)
             Right(k) == /\ f[k] \in Seq(g.states)
                         /\ IsInjective(f[k])
                         /\ first \in Range(f[k])
                         /\ \A x \in Range(f[k]) : Reaches(g, first, x)
                         /\ \A p \in 1 .. Len(f[k]) : p <= k =>
                              \A x \in legal(g, f[k][p]) : x \in g.states => x \in Range(f[k])
             S == {k \in 0 .. n : Right(k)}
  <1>2. doc.states = order
    BY DEF from_graph
  <1>3. /\ n \in Nat /\ n = Cardinality(g.states) /\ IsFiniteSet(g.states) /\ g.states \subseteq StateIds
        /\ order[1] = first /\ first \in g.states
    <2>1. first \in g.states
      BY DEF Told
    <2>2. /\ Cardinality(g.states) \in Nat /\ Len(order) = Cardinality(g.states)
          /\ IsFiniteSet(g.states) /\ g.states \subseteq StateIds /\ order[1] = first
      BY OrderShape
    <2> QED BY <2>1, <2>2
  <1>4. /\ f[0] = <<first>>
        /\ \A k \in 1 .. n : f[k] = IF k > Len(f[k - 1]) THEN f[k - 1]
                                    ELSE Reached(doc, f[k - 1], f[k - 1][k])
    <2>1. 0 \in 0 .. n /\ \A k \in 1 .. n : k \in 0 .. n /\ k # 0
      BY <1>3
    <2> HIDE DEF n
    <2>2. f = [k \in 0 .. n |-> IF k = 0 THEN <<first>>
                                ELSE IF k > Len(f[k - 1]) THEN f[k - 1]
                                     ELSE Reached(doc, f[k - 1], f[k - 1][k])]
      BY <1>1, <1>2, <1>3 DEF Walking, n
    <2> QED BY <2>1, <2>2
  <1>5. Right(0)
    <2>1. f[0] \in Seq(g.states) /\ \A x : x \in Range(f[0]) <=> x = first
      <3>1. <<first>> \in Seq(g.states)
        BY <1>3, Single
      <3>2. \A x : x \in Range(<<first>>) <=> x = first
        BY DEF Range
      <3> QED BY <1>4, <3>1, <3>2
    <2>2. IsInjective(f[0])
      BY <1>4 DEF IsInjective
    <2>3. Reaches(g, first, first)
      BY DEF Reaches
    <2>4. \A p \in 1 .. Len(f[0]) : ~(p <= 0)
      BY <2>1
    <2> QED BY <2>1, <2>2, <2>3, <2>4
  <1>6. ASSUME NEW k \in 1 .. n, Right(k - 1) PROVE Right(k)
    <2> DEFINE listed == f[k - 1]
               more == f[k]
    <2>0. /\ listed \in Seq(g.states) /\ IsInjective(listed) /\ first \in Range(listed)
          /\ \A x \in Range(listed) : Reaches(g, first, x)
          /\ \A p \in 1 .. Len(listed) : p <= k - 1 =>
               \A x \in legal(g, listed[p]) : x \in g.states => x \in Range(listed)
      BY <1>6
    <2>1. CASE k > Len(listed)
      <3>1. more = listed
        BY <1>4, <2>1
      <3>2. \A p \in 1 .. Len(listed) : p <= k - 1
        BY <2>0, <2>1
      <3> QED BY <2>0, <3>1, <3>2
    <2>2. CASE ~(k > Len(listed))
      <3>1. k \in 1 .. Len(listed) /\ k \in DOMAIN listed /\ listed[k] \in g.states
        BY <1>3, <2>0, <2>2
      <3>2. more = Reached(doc, listed, listed[k])
        BY <1>4, <2>2
      <3> HIDE DEF listed, more
      <3>3. /\ more \in Seq(g.states)
            /\ \A x : x \in Range(more)
                        <=> x \in Range(listed) \/ (x \in legal(g, listed[k]) /\ x \in g.states)
            /\ Len(listed) <= Len(more)
            /\ \A i \in 1 .. Len(listed) : more[i] = listed[i]
            /\ IsInjective(listed) => IsInjective(more)
        <4>1. Reached(doc, listed, listed[k]) \in Seq(g.states)
          BY <2>0, <3>1, ReachedHas
        <4>2. \A x : x \in Range(Reached(doc, listed, listed[k]))
                      <=> x \in Range(listed) \/ (x \in legal(g, listed[k]) /\ x \in g.states)
          BY <2>0, <3>1, ReachedHas
        <4>3. Prolongs(Reached(doc, listed, listed[k]), listed)
          BY <2>0, <3>1, ReachedHas
        <4>4. IsInjective(listed) => IsInjective(Reached(doc, listed, listed[k]))
          BY <2>0, <3>1, ReachedHas
        <4> QED BY <3>2, <4>1, <4>2, <4>3, <4>4 DEF Prolongs
      <3>4. listed[k] \in Range(listed)
        BY <3>1 DEF Range
      <3>5. \A x \in legal(g, listed[k]) : x \in g.states => Reaches(g, first, x)
        BY <2>0, <3>4 DEF Reaches, Closed
      <3>6. ASSUME NEW p \in 1 .. Len(more), p <= k, NEW x \in legal(g, more[p]), x \in g.states
            PROVE  x \in Range(more)
        <4>1. p \in 1 .. Len(listed) /\ (p <= k - 1 \/ p = k)
          BY <2>0, <3>1, <3>6
        <4>2. more[p] = listed[p]
          BY <3>3, <4>1
        <4> QED BY <2>0, <3>3, <3>6, <4>1, <4>2
      <3>7. /\ more \in Seq(g.states) /\ IsInjective(more) /\ first \in Range(more)
            /\ \A x \in Range(more) : Reaches(g, first, x)
        BY <2>0, <3>3, <3>5
      <3> QED BY <3>6, <3>7 DEF more
    <2> QED BY <2>1, <2>2
  <1>7. Right(n)
    <2> HIDE DEF Right
    <2>1. 0 \in S /\ \A k \in 1 .. n : k - 1 \in S => k \in S
      BY <1>3, <1>5, <1>6
    <2> HIDE DEF S
    <2>2. \A k \in 0 .. n : k \in S
      BY <1>3, <2>1, UpTo
    <2>3. n \in S
      BY <1>3, <2>2
    <2> USE DEF S
    <2> QED BY <2>3
  <1> DEFINE L == f[n]
  <1>8. /\ L \in Seq(g.states) /\ IsInjective(L) /\ first \in Range(L)
        /\ \A x \in Range(L) : Reaches(g, first, x)
        /\ \A p \in 1 .. Len(L) : p <= n => \A x \in legal(g, L[p]) : x \in g.states => x \in Range(L)
    BY <1>7
  <1> HIDE DEF L, Right, S
  <1>9. Len(L) \in Nat /\ Len(L) <= n /\ DOMAIN L = 1 .. Len(L)
    <2>1. L \in Injection(1 .. Len(L), g.states) /\ Len(L) \in Nat /\ DOMAIN L = 1 .. Len(L)
      BY <1>8 DEF Injection
    <2>2. Cardinality(1 .. Len(L)) <= Cardinality(g.states)
      BY <1>3, <2>1, FS_Injection
    <2>3. Cardinality(1 .. Len(L)) = Len(L)
      <3>1. 1 \in Int /\ Len(L) \in Int /\ (1 > Len(L) => Len(L) = 0)
        BY <2>1
      <3>2. Cardinality(1 .. Len(L)) = IF 1 > Len(L) THEN 0 ELSE Len(L) - 1 + 1
        BY <3>1, FS_Interval
      <3> QED BY <2>1, <3>1, <3>2
    <2> QED BY <1>3, <2>1, <2>2, <2>3
  <1>10. \A s \in Range(L) : \A x \in legal(g, s) : x \in g.states => x \in Range(L)
    <2>1. \A p \in 1 .. Len(L) : p <= n
      BY <1>3, <1>9
    <2> QED BY <1>8, <1>9, <2>1 DEF Range
  <1> DEFINE C == Range(L) \cup (StateIds \ g.states)
  <1>11. C \in SUBSET StateIds /\ first \in C
    BY <1>3, <1>8 DEF Range
  <1>12. Closed(g, C)
    <2> SUFFICES ASSUME NEW s \in C, NEW x \in legal(g, s) PROVE x \in C
      BY DEF Closed
    <2>1. x \in StateIds
      <3>1. g \in Graphs
        BY DEF Told
      <3>2. PICK l \in transitions_from(g, s) : \E m \in DOMAIN g.transitions[l].to : x = g.transitions[l].to[m]
        BY DEF legal
      <3>3. l \in DOMAIN g.transitions
        BY DEF transitions_from
      <3>4. g.transitions[l].to \in Seq(StateIds)
        BY <3>1, <3>3, GraphShape
      <3> QED BY <3>2, <3>4
    <2>2. CASE s \in Range(L)
      BY <1>10, <2>1, <2>2
    <2>3. CASE s \notin g.states
      <3>1. PICK l \in transitions_from(g, s) : TRUE
        BY DEF legal
      <3>2. l \in DOMAIN g.transitions /\ g.transitions[l].from = s
        BY DEF transitions_from
      <3> QED BY <2>3, <3>2 DEF Told
    <2> QED BY <2>2, <2>3
  <1>13. Reaches(g, first, t) => t \in Range(L)
    <2>1. Reaches(g, first, t) => t \in C
      BY <1>11, <1>12 DEF Reaches
    <2> QED BY <2>1
  <1> QED BY <1>1, <1>8, <1>13 DEF L

\* The lint names exactly the states that no path leads to.
LEMMA UnreachableIs ==
  ASSUME NEW g, NEW first, NEW order, Told(g, first, order), NEW t \in g.states, t # first
  PROVE  Unreachable(from_graph(g, order), t) <=> ~Reaches(g, first, t)
  <1> DEFINE doc == from_graph(g, order)
             others == {doc.states[i] : i \in DOMAIN doc.states \ {1}}
             listed == Range(reachable_state_names_from_first_state(doc))
  <1>1. doc.states = order
    BY DEF from_graph
  <1>2. order # <<>> /\ t \in others
    <2>1. /\ 1 \in DOMAIN order /\ order[1] = first
          /\ \E i \in DOMAIN order : order[i] = t
      BY OrderShape
    <2> QED BY <1>1, <2>1
  <1>3. t \in listed <=> Reaches(g, first, t)
    BY ReachableIs
  <1> HIDE DEF doc, others, listed
  <1>4. Finding("unreachable_state", t) \in lint_graph_invariants(doc) <=> t \in others \ listed
    BY DEF lint_graph_invariants, Finding, others, listed
  <1>5. Unreachable(doc, t) <=> t \in others \ listed
    BY <1>1, <1>2, <1>4 DEF Unreachable, to_graph_lint_report
  <1> QED BY <1>2, <1>3, <1>5 DEF doc

\* Of a graph whose sites start at its states, the diagram, the matrix, the
\* explanation and the agent context tell the legal moves, each and no other, and
\* the lints the states that assert_no_path clears, whichever state is the first and
\* in whatever order the others are declared (stable_metadata.rs, main.rs,
\* testing/graph.rs).
THEOREM ViewsTellTheGraphHolds == Spec => []ViewsTellTheGraph
  <1>1. IInv => ViewsTellTheGraph
    <2> SUFFICES ASSUME IInv, verdict # "searching", {from, target} \subseteq graph.states,
                        \A i \in DOMAIN graph.transitions : graph.transitions[i].from \in graph.states,
                        NEW order \in Orders(graph.states, from)
                 PROVE  IF target = from THEN TellTheGraph(graph, order)
                        ELSE verdict = "no path" <=> Unreachable(from_graph(graph, order), target)
      BY DEF ViewsTellTheGraph
    <2>1. Told(graph, from, order)
      BY DEF Told, IInv, TypeOK
    <2>2. CASE target = from
      BY <2>1, <2>2, TellTheGraphHolds
    <2>3. CASE target # from
      <3>1. Unreachable(from_graph(graph, order), target) <=> ~Reaches(graph, from, target)
        BY <2>1, <2>3, UnreachableIs
      <3>2. verdict = "path" <=> Reaches(graph, from, target)
        BY DEF IInv, VerdictIsReachability
      <3>3. verdict \in {"path", "no path"}
        BY DEF IInv, TypeOK
      <3> QED BY <2>3, <3>1, <3>2, <3>3
    <2> QED BY <2>2, <2>3
  <1> QED BY <1>1, Invariance, PTL
=============================================================================
