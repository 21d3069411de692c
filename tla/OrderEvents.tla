---------------------------- MODULE OrderEvents ----------------------------
(***************************************************************************)
(* The event log of the showcases: orders are rebuilt from the events that *)
(* are appended for them.  The store is shared by reference, so calls run  *)
(* interleaved; each reads the log, takes a transition, and appends an     *)
(* event without looking again.                                            *)
(***************************************************************************)
EXTENDS Integers, Sequences

CONSTANTS
    Callers,    \* the calls that can be in progress at once
    MaxEvents   \* bound: the length of the log

VARIABLES
    log,        \* the events in the order of their event_id
    calls,      \* what each caller is at
    overlapped  \* history: orders that grew between a call's read and its append

vars == <<log, calls, overlapped>>

(***************************************************************************)
(* Projection.  Of a row only the status and which of the three documents  *)
(* are there matter; the events carry what their kind requires, since      *)
(* every operation refuses blank input.                                    *)
(***************************************************************************)
Kinds == <<"created", "paid", "packed", "shipped", "delivered">>

Corrupt == [status |-> "corrupt", documents |-> {}]

seed(kind) ==
    IF kind = "created" THEN [status |-> kind, documents |-> {}] ELSE Corrupt

Document == [paid |-> {"payment_receipt"}, packed |-> {"pick_ticket"},
             shipped |-> {"tracking_number"}, delivered |-> {}]

\* Mutant: an event replaces what the earlier ones recorded.
apply_Replace(row, kind) ==
    IF row = Corrupt \/ kind = "created"
    THEN Corrupt
    ELSE [status |-> kind, documents |-> Document[kind]]

\* The first error ends the reduction.
apply(row, kind) ==
    IF row = Corrupt \/ kind = "created"
    THEN Corrupt
    ELSE [status |-> kind, documents |-> row.documents \cup Document[kind]]

(***************************************************************************)
(* Validators.                                                             *)
(***************************************************************************)
is_created(row)   == row = [status |-> "created", documents |-> {}]
is_paid(row)      == row = [status |-> "paid", documents |-> {"payment_receipt"}]
is_packed(row)    == row = [status |-> "packed", documents |-> {"payment_receipt", "pick_ticket"}]
Fulfilled(row)    == row.documents = {"payment_receipt", "pick_ticket", "tracking_number"}
is_shipped(row)   == row.status = "shipped" /\ Fulfilled(row)
is_delivered(row) == row.status = "delivered" /\ Fulfilled(row)

SomeState(row) ==
    IF is_created(row) \/ is_paid(row) \/ is_packed(row) \/ is_shipped(row) \/ is_delivered(row)
    THEN row.status ELSE "corrupt"

(***************************************************************************)
(* Reading the log.                                                        *)
(***************************************************************************)
\* The order's events, in the order of the log.
events_for(order) ==
    LET chosen[n \in 0 .. Len(log)] ==
          IF n = 0 THEN <<>>
          ELSE IF log[n].order = order THEN Append(chosen[n - 1], log[n]) ELSE chosen[n - 1]
    IN  chosen[Len(log)]

reduce_one(events) ==
    LET projection[n \in DOMAIN events] ==
          IF n = 1 THEN seed(events[1].kind) ELSE apply(projection[n - 1], events[n].kind)
    IN  projection[Len(events)]

load_state(order) ==
    IF events_for(order) = <<>> THEN "not_found" ELSE SomeState(reduce_one(events_for(order)))

Orders == {log[i].order : i \in DOMAIN log}

\* Mutant: a created event starts the projection anew.
Reduce_Reseed(projections, event) ==
    [o \in DOMAIN projections \cup {event.order} |->
       IF o # event.order THEN projections[o]
       ELSE IF event.order \in DOMAIN projections /\ event.kind # "created"
            THEN apply(projections[o], event.kind) ELSE seed(event.kind)]

\* What one event does to the projections so far.
Reduce(projections, event) ==
    IF event.order \in DOMAIN projections
    THEN [projections EXCEPT ![event.order] = apply(@, event.kind)]
    ELSE [o \in DOMAIN projections \cup {event.order} |->
            IF o = event.order THEN seed(event.kind) ELSE projections[o]]

\* The whole log in one pass: every event goes to the projection of its order.
reduce_grouped ==
    LET projections[n \in 0 .. Len(log)] ==
          IF n = 0 THEN <<>> ELSE Reduce(projections[n - 1], log[n])
    IN  projections[Len(log)]

\* One order that does not rebuild fails them all.
load_all_states ==
    LET states == [o \in DOMAIN reduce_grouped |-> SomeState(reduce_grouped[o])]
    IN  IF \E o \in DOMAIN states : states[o] = "corrupt"
        THEN [ok |-> FALSE, states |-> <<>>]
        ELSE [ok |-> TRUE, states |-> states]

next_order_id ==
    IF Orders = {} THEN 1 ELSE (CHOOSE o \in Orders : \A p \in Orders : p <= o) + 1

(***************************************************************************)
(* The operations.                                                         *)
(***************************************************************************)
\* What each operation requires of the order and appends to it.
Operation == [pay |-> <<"created", "paid">>, pack |-> <<"paid", "packed">>,
              ship |-> <<"packed", "shipped">>, deliver |-> <<"shipped", "delivered">>]

Idle == [at |-> "idle", order |-> 0, event |-> "none", seen |-> 0]

Init ==
    /\ log = <<>>
    /\ calls = [p \in Callers |-> Idle]
    /\ overlapped = {}

\* What the caller will append, and how much of the order it has seen.
Decide(p, order, event) ==
    calls' = [calls EXCEPT ![p] = [at |-> "append", order |-> order, event |-> event,
                                   seen |-> Len(events_for(order))]]

create_order(p) ==
    /\ calls[p].at = "idle"
    /\ Decide(p, next_order_id, "created")
    /\ UNCHANGED <<log, overlapped>>

\* pay, pack, ship and deliver; an order in another state ends the call.
Advance(p) ==
    /\ calls[p].at = "idle"
    /\ \E order \in Orders, operation \in DOMAIN Operation :
         /\ load_state(order) = Operation[operation][1]
         /\ Decide(p, order, Operation[operation][2])
    /\ UNCHANGED <<log, overlapped>>

append_event(p) ==
    /\ calls[p].at = "append" /\ Len(log) < MaxEvents
    /\ log' = Append(log, [order |-> calls[p].order, kind |-> calls[p].event])
    /\ overlapped' = IF Len(events_for(calls[p].order)) = calls[p].seen
                     THEN overlapped ELSE overlapped \cup {calls[p].order}
    /\ calls' = [calls EXCEPT ![p] = Idle]

\* The call is dropped before it appends.
Drop(p) ==
    /\ calls[p].at = "append"
    /\ calls' = [calls EXCEPT ![p] = Idle]
    /\ UNCHANGED <<log, overlapped>>

Next == \E p \in Callers : create_order(p) \/ Advance(p) \/ append_event(p) \/ Drop(p)

Spec == Init /\ [][Next]_vars

-----------------------------------------------------------------------------
(***************************************************************************)
(* Correctness.                                                            *)
(***************************************************************************)
KindsOf(order) == [i \in DOMAIN events_for(order) |-> events_for(order)[i].kind]

\* An order is what its events say, one after the other, unless two calls on it
\* overlapped: only then can a stage be repeated, a stage return to an earlier
\* one, or the order become unreadable.  (load_state followed by append_event
\* in every operation, next_order_id followed by append_event in create_order.)
OnlyOverlapsCorrupt ==
    \A order \in Orders \ overlapped :
      /\ KindsOf(order) = SubSeq(Kinds, 1, Len(KindsOf(order)))
      /\ load_state(order) = KindsOf(order)[Len(KindsOf(order))]

\* Reading all orders in one pass yields for each what loading it alone yields,
\* and fails exactly when one of them does; and the error is never that of a
\* stream without its created event, even when calls overlap.  (load_all_states
\* and project_all_orders against load_state.)
BatchAgreesWithSingles ==
    /\ \A order \in Orders : events_for(order)[1].kind = "created"
    /\ load_all_states.ok = (\A order \in Orders : load_state(order) # "corrupt")
    /\ load_all_states.ok =>
         load_all_states.states = [order \in Orders |-> load_state(order)]
=============================================================================
