------------------------------ MODULE GraphViews ------------------------------
(***************************************************************************)
(* What a reader is shown of a machine: the stable metadata document that  *)
(* is lowered from its graph (statum-core/src/introspection/               *)
(* stable_metadata.rs), and the views cargo statum renders from it         *)
(* (cargo-statum/src/main.rs): diagram, matrix, lints, explanation and     *)
(* agent context.  Each walks the document for itself.  A name stands for  *)
(* its label; wording, escapes and state data are left out.                *)
(***************************************************************************)
EXTENDS MachineGraph, FiniteSets, Functions

CONSTANT TerminalNames   \* the names that look like a final state's

Unknown == "<unknown>"
NoCalls == "nothing"

\* Neither is a Rust name.
ASSUME ViewsAssumption == Unknown \notin StateIds /\ NoCalls \notin Methods

\* The states of a graph are in the order of the enum.
from_graph(g, order) ==
  LET Name(s) == IF s \in g.states THEN s ELSE Unknown
  IN  [states |-> order,
       transitions |-> [i \in DOMAIN g.transitions |->
                          [method_name |-> g.transitions[i].method_name,
                           from_state |-> Name(g.transitions[i].from),
                           to_states |-> [n \in DOMAIN g.transitions[i].to |->
                                            Name(g.transitions[i].to[n])]]]]

-----------------------------------------------------------------------------
\* The elements of the rows, one row after the other.
Flattened(rows) ==
  LET upto[k \in 0 .. Len(rows)] == IF k = 0 THEN <<>> ELSE upto[k - 1] \o rows[k]
  IN  upto[Len(rows)]

\* The elements at the places, in order.
Chosen(seq, places) ==
  LET upto[k \in 0 .. Len(seq)] ==
        IF k = 0 THEN <<>>
        ELSE IF k \in places THEN Append(upto[k - 1], seq[k]) ELSE upto[k - 1]
  IN  upto[Len(seq)]

\* The names and, behind them, each that is seen and not listed yet.
Sighted(names, seen) ==
  LET upto[k \in 0 .. Len(seen)] ==
        IF k = 0 THEN names
        ELSE LET listed == upto[k - 1]
             IN  IF seen[k] \in Range(listed) THEN listed ELSE Append(listed, seen[k])
  IN  upto[Len(seen)]

\* The first place of a name, or 0.
Place(names, name) ==
  IF name \in Range(names)
  THEN CHOOSE i \in DOMAIN names : names[i] = name /\ \A j \in 1 .. i - 1 : names[j] # name
  ELSE 0

-----------------------------------------------------------------------------
state_index(doc, name) == Place(doc.states, name)
Declared(doc, name) == state_index(doc, name) # 0

\* The edges of the transitions that leave a declared state, in order.
Edges(doc) ==
  Flattened([i \in DOMAIN doc.transitions |->
    LET t == doc.transitions[i]
    IN  IF Declared(doc, t.from_state)
        THEN [n \in DOMAIN t.to_states |->
                [from |-> t.from_state, to |-> t.to_states[n], label |-> t.method_name]]
        ELSE <<>>])

Targets(edges, places) == Chosen([k \in DOMAIN edges |-> edges[k].to], places)

\* Undeclared targets, in the order of first sight.
unknown_states(doc) ==
  LET edges == Edges(doc)
  IN  Sighted(<<>>, Targets(edges, {k \in DOMAIN edges : ~Declared(doc, edges[k].to)}))

\* The Mermaid and the Graphviz diagram: nodes are numbered, edges name their ends
\* by number.
Diagram(doc) ==
  LET unknown == unknown_states(doc)
      edges == Edges(doc)
      Node(name) == IF Declared(doc, name) THEN <<"s", state_index(doc, name)>>
                                           ELSE <<"unknown", Place(unknown, name)>>
  IN  [nodes |-> doc.states,
       edges |-> [k \in DOMAIN edges |->
                    [from |-> Node(edges[k].from), to |-> Node(edges[k].to), label |-> edges[k].label]],
       unknown |-> unknown]

\* A cell without transitions reads `forbidden`.
to_transition_matrix_table(doc) ==
  LET edges == Edges(doc)
  IN  [i \in DOMAIN doc.states |-> [j \in DOMAIN doc.states |->
         Chosen([k \in DOMAIN edges |-> edges[k].label],
                {k \in DOMAIN edges : /\ state_index(doc, edges[k].from) = i
                                      /\ state_index(doc, edges[k].to) = j})]]

-----------------------------------------------------------------------------
\* What a state adds to the list that is being walked: its targets that are
\* declared and not listed yet.
Reached(doc, reachable, source) ==
  LET edges == Edges(doc)
  IN  Sighted(reachable, Targets(edges, {k \in DOMAIN edges : /\ edges[k].from = source
                                                              /\ Declared(doc, edges[k].to)}))

\* Mutant: the list is not walked on as it grows.
reachable_state_names_from_first_state_Direct(doc) ==
  IF doc.states = <<>> THEN <<>> ELSE Reached(doc, <<doc.states[1]>>, doc.states[1])

\* The list grows while the cursor walks it; a name is listed once, so there are
\* no more steps than states.
reachable_state_names_from_first_state(doc) ==
  LET reachable[cursor \in 0 .. Len(doc.states)] ==
        IF cursor = 0 THEN <<doc.states[1]>>
        ELSE LET listed == reachable[cursor - 1]
             IN  IF cursor > Len(listed) THEN listed ELSE Reached(doc, listed, listed[cursor])
  IN  IF doc.states = <<>> THEN <<>> ELSE reachable[Len(doc.states)]

Finding(code, state) == [code |-> code, state |-> state]

\* Each finding once; its message names a transition as well.
lint_graph_invariants(doc) ==
  LET sources == {doc.transitions[i].from_state : i \in DOMAIN doc.transitions}
      targets == UNION {Range(doc.transitions[i].to_states) : i \in DOMAIN doc.transitions}
      returns == {i \in DOMAIN doc.transitions :
                    doc.transitions[i].from_state \in Range(doc.transitions[i].to_states)}
      others  == {doc.states[i] : i \in DOMAIN doc.states \ {1}}
  IN  {Finding("terminal_state_has_outgoing_transition", s) : s \in sources \cap TerminalNames}
      \cup {Finding("suspicious_self_transition", doc.transitions[i].from_state) : i \in returns}
      \cup {Finding("missing_incoming_path", s) : s \in others \ targets}
      \cup {Finding("unreachable_state", s) :
              s \in others \ Range(reachable_state_names_from_first_state(doc))}

to_graph_lint_report(doc) == IF doc.states = <<>> THEN {} ELSE lint_graph_invariants(doc)

-----------------------------------------------------------------------------
transitions_by_source(doc, name) ==
  Chosen(doc.transitions, {i \in DOMAIN doc.transitions : doc.transitions[i].from_state = name})

\* The numbered moves out of each state, or the note that there are none.
render_workflow_explanation_sections(doc) ==
  Flattened([i \in DOMAIN doc.states |->
    LET leaving == transitions_by_source(doc, doc.states[i])
    IN  IF leaving = <<>>
        THEN <<[state |-> doc.states[i], calling |-> NoCalls, to |-> <<>>]>>
        ELSE [k \in DOMAIN leaving |->
                [state |-> doc.states[i], calling |-> leaving[k].method_name,
                 to |-> leaving[k].to_states]]])

all_transition_methods(doc) == {doc.transitions[i].method_name : i \in DOMAIN doc.transitions}

render_agent_context_markdown(doc) ==
  [states |-> doc.states,
   legal_transitions |-> doc.transitions,
   forbidden_calls |->
     [i \in DOMAIN doc.states |->
        {m \in all_transition_methods(doc) :
           \A k \in DOMAIN doc.transitions :
             doc.transitions[k].from_state = doc.states[i] => doc.transitions[k].method_name # m}]]

render_generated_protocol_docs(doc) ==
  [diagram |-> Diagram(doc), matrix |-> to_transition_matrix_table(doc),
   explanation |-> render_workflow_explanation_sections(doc)]

-----------------------------------------------------------------------------
\* The orders of the states that begin with the given one.
Orders(states, first) == {order \in Bijection(1 .. Cardinality(states), states) : order[1] = first}

Unreachable(doc, s) == Finding("unreachable_state", s) \in to_graph_lint_report(doc)

\* The labels of the edges that a diagram draws between two states, in order.
Drawn(diagram, i, j) ==
  LET edges == diagram.edges
  IN  Chosen([k \in DOMAIN edges |-> edges[k].label],
             {k \in DOMAIN edges : edges[k].from = <<"s", i>> /\ edges[k].to = <<"s", j>>})

\* Every view of a graph tells the moves that are legal in it, and tells them
\* alike: a cell of the matrix has the edges that the diagram draws, each as often
\* as a site lists it, and is forbidden exactly if the move is not legal; the agent
\* is told to leave alone exactly the methods that no line of the explanation
\* offers; and what leads to an undeclared state is drawn to a node of its own.
TellTheGraph(g, order) ==
  LET doc    == from_graph(g, order)
      docs   == render_generated_protocol_docs(doc)
      agent  == render_agent_context_markdown(doc)
      Offers(i) == {docs.explanation[k].calling :
                      k \in {n \in DOMAIN docs.explanation : docs.explanation[n].state = order[i]}}
  IN  /\ \A i, j \in DOMAIN order :
           LET leading == {k \in transitions_from(g, order[i]) : order[j] \in Range(g.transitions[k].to)}
               cell    == docs.matrix[i][j]
           IN  /\ Range(cell) = {g.transitions[k].method_name : k \in leading}
               /\ cell = <<>> <=> order[j] \notin legal(g, order[i])
               /\ cell = Drawn(docs.diagram, i, j)
      /\ \A i \in DOMAIN order :
           /\ Offers(i) \ {NoCalls} = all_transition_methods(doc) \ agent.forbidden_calls[i]
           /\ NoCalls \in Offers(i) <=> transitions_from(g, order[i]) = {}
           /\ (\E e \in Range(docs.diagram.edges) : /\ e.from = <<"s", i>>
                                                    /\ e.to[1] = "unknown"
                                                    /\ e.to[2] \in DOMAIN docs.diagram.unknown)
                <=> ~(legal(g, order[i]) \subseteq g.states)

=============================================================================
