----------------------------- MODULE MachineGraph -----------------------------
(***************************************************************************)
(* MachineGraph (statum-core/src/introspection/graph.rs): what the macros  *)
(* emit about a machine, the states it declares and its transition sites.  *)
(* Its states are a set where their order does not matter; the ids and     *)
(* labels of sites are left out, a site is known by its index.             *)
(***************************************************************************)
EXTENDS Naturals, Sequences

CONSTANTS StateIds, Methods

\* `to`: the legal targets of a site, in the order of its return type.
TransitionDescriptors == [method_name : Methods, from : StateIds, to : Seq(StateIds)]

MachineGraphs == [states : SUBSET StateIds, transitions : Seq(TransitionDescriptors)]

\* The sites transitions_from iterates over, by their index.
transitions_from(g, s) == {i \in DOMAIN g.transitions : g.transitions[i].from = s}

legal(g, s) == UNION {{g.transitions[i].to[n] : n \in DOMAIN g.transitions[i].to} :
                        i \in transitions_from(g, s)}

-----------------------------------------------------------------------------
\* No transition leads out of C.
Closed(g, C) == \A s \in C : legal(g, s) \subseteq C

\* Every closed set with a in it has b in it: some path leads from a to b.
Reaches(g, a, b) == \A C \in SUBSET StateIds : a \in C /\ Closed(g, C) => b \in C

=============================================================================
