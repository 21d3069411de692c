----------------------------- MODULE CartStore -----------------------------
(***************************************************************************)
(* The cart store of the showcases: snapshots of carts in a map, rebuilt   *)
(* and written back by operations that borrow the whole store, so that     *)
(* each is one step.                                                       *)
(***************************************************************************)
EXTENDS Integers, Sequences

CONSTANT MaxRows  \* bound: how many carts are created

VARIABLES
    rows,     \* the snapshots by id; ids are given out in order
    reached   \* history: the stages each cart has had

Snapshot(status, receipt) == [status |-> status, receipt |-> receipt]

is_open(row)        == row = Snapshot("open", FALSE)
is_checked_out(row) == row = Snapshot("checked_out", TRUE)
Rebuilds(row)       == is_open(row) \/ is_checked_out(row)

from_checked_out == Snapshot("checked_out", TRUE)

Init == rows = <<>> /\ reached = <<>>

create_cart ==
    /\ Len(rows) < MaxRows
    /\ rows' = Append(rows, Snapshot("open", FALSE))
    /\ reached' = Append(reached, {"open"})

checkout(i) ==
    /\ is_open(rows[i])
    /\ rows' = [rows EXCEPT ![i] = from_checked_out]
    /\ reached' = [reached EXCEPT ![i] = @ \cup {from_checked_out.status}]

Next == create_cart \/ \E i \in DOMAIN rows : checkout(i)

Spec == Init /\ [][Next]_<<rows, reached>>

-----------------------------------------------------------------------------
\* Every snapshot in the store rebuilds.  (create_cart and checkout against the
\* validators.)
RowsAlwaysRebuild == \A i \in DOMAIN rows : Rebuilds(rows[i])

Stages == [i \in DOMAIN rows |-> rows[i].status]
Machine == {<<"open", "checked_out">>}
=============================================================================
