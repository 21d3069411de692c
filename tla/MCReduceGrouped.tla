--------------------------- MODULE MCReduceGrouped ---------------------------
(* An instance of ReduceGrouped whose projections are the events reduced so   *)
(* far, so that no two histories look alike.  Two streams have an event that *)
(* cannot be a first one and an event that cannot be a later one.            *)
EXTENDS ReduceGrouped

CONSTANTS x, y, z, error

MCEvents == {"x1", "x2", "y1", "y2", "z1"}
MCKeyOf == [e \in MCEvents |-> CASE e \in {"x1", "x2"} -> x [] e = "z1" -> z [] OTHER -> y]
MCProjections == UNION {[1 .. n -> MCEvents] : n \in 1 .. 4}
MCSeed == [e \in MCEvents |-> IF e = "x2" THEN error ELSE <<e>>]
MCApply == [p \in MCProjections |-> [e \in MCEvents |->
              IF e = "y1" \/ Len(p) = 4 THEN error ELSE Append(p, e)]]

=============================================================================
