----------------------------- MODULE MCGraphTools -----------------------------
(* The two searches of the graph testing tools, one or the other in each      *)
(* behaviour.  Paths: every graph over three declared states and an           *)
(* undeclared one with up to two sites that branch to two targets, or up to   *)
(* three that do not.  Walks: a cycle, a self loop, a diamond, two sites of   *)
(* one state, a site with a target twice, a site without targets, a target    *)
(* that is not declared, no states at all.                                    *)
EXTENDS GraphPaths, GraphViews

CONSTANTS
  a, b, c, ghost, go, choose,
  WalkGraphs,   \* the graphs walked on
  MaxDepth

\* The states of a graph are a slice.
ASSUME SlicesAssumption == \A g \in Graphs : IsFiniteSet(g.states)

ASSUME WalksAssumption ==
  /\ WalkGraphs \subseteq {g \in MachineGraphs : IsFiniteSet(g.states)}
  /\ MaxDepth \in Nat

VARIABLES start, max_depth, terminal_states, include_empty, steps, cursor, phase, walks

SitesTo(method, targets) ==
  {[method_name |-> method, from |-> s, to |-> t] : s \in {a, b, c}, t \in targets}
Straight == SitesTo(go, {<<s>> : s \in StateIds})
Branching == SitesTo(choose, {<<s, t>> : s, t \in {a, b, c}})

PathGraphs ==
  [states : {{a, b, c}},
   transitions : {<<>>} \cup [1 .. 2 -> Straight \cup Branching] \cup [1 .. 3 -> Straight]]

Site(s, targets) == [method_name |-> go, from |-> s, to |-> targets]
Graph(states, sites) == [states |-> states, transitions |-> sites]

SmallGraphs ==
  {Graph({a, b, c}, <<Site(a, <<b, c>>), Site(b, <<c>>), Site(c, <<a>>)>>),
   Graph({a, b, c}, <<Site(b, <<c, a>>), Site(a, <<b>>), Site(a, <<a, c>>)>>),
   Graph({a, b, c}, <<Site(a, <<b>>), Site(c, <<>>), Site(b, <<a, c>>)>>),
   Graph({a, b}, <<Site(a, <<b, b>>), Site(b, <<b>>)>>),
   Graph({a, b}, <<Site(a, <<ghost>>), Site(ghost, <<b>>)>>),
   Graph({a, b}, <<>>),
   Graph({}, <<>>)}

Walks == INSTANCE GraphWalks WITH Graphs <- WalkGraphs

searchVars == <<from, target, visited, pending, site, left, verdict>>
walkVars == <<start, max_depth, terminal_states, include_empty, steps, cursor, phase, walks>>

NoWalks ==
  /\ start = from /\ max_depth = 0 /\ terminal_states = {} /\ include_empty = FALSE
  /\ steps = <<>> /\ cursor = Walks!Choice(1, 1) /\ phase = "done" /\ walks = <<>>

\* The path of no steps, asked for and answered.
NoSearch ==
  /\ from = start /\ target = start
  /\ visited = <<>> /\ pending = <<>> /\ site = NoSite /\ left = 0
  /\ verdict = IF start \in graph.states THEN "path" ELSE "no path"

ToolsInit == (Init /\ NoWalks) \/ (Walks!Init /\ NoSearch)

ToolsNext == (Next /\ UNCHANGED walkVars) \/ (Walks!Next /\ UNCHANGED searchVars)

ToolsSpec == ToolsInit /\ [][ToolsNext]_<<vars, walkVars>> /\ WF_<<vars, walkVars>>(ToolsNext)

-----------------------------------------------------------------------------
\* Every legal walk is listed once, in order, and no other (walks.rs:94-125).
EachLegalWalkIsListedOnce == Walks!EachLegalWalkIsListedOnce

\* The default depth reaches what assert_path reaches (walks.rs:62).
DefaultDepthReachesAll == Walks!DefaultDepthReachesAll

\* Cycles do not keep the generator going (walks.rs:94-125).
GenerationEnds == Walks!GenerationEnds

\* Of a graph whose sites start at its states, as the macros emit them, the
\* diagram, the matrix, the explanation and the agent context tell the legal moves,
\* and the lints the states that assert_no_path clears, whichever state is the
\* first (stable_metadata.rs, main.rs, testing/graph.rs).
ViewsTellTheGraph ==
  /\ verdict # "searching"
  /\ {from, target} \subseteq graph.states
  /\ \A i \in DOMAIN graph.transitions : graph.transitions[i].from \in graph.states
  => \A order \in Orders(graph.states, from) :
       IF target = from THEN TellTheGraph(graph, order)
       ELSE verdict = "no path" <=> Unreachable(from_graph(graph, order), target)
=============================================================================
