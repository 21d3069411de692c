---------------------------- MODULE ReduceGrouped ----------------------------
(***************************************************************************)
(* reduce_grouped (statum-core/src/projection.rs): the events of many      *)
(* streams arrive in one iterator, in any interleaving, and each stream is *)
(* reduced under its key in a HashMap; `order` remembers the keys as they  *)
(* are first seen, for the output.                                         *)
(***************************************************************************)
EXTENDS Naturals, Sequences

CONSTANTS
  Events, Projections, Errors, seed, apply, NoProjection, EmptyInput,
  Keys,
  KeyOf,       \* the key_fn
  MaxEvents    \* bound: the events of one input

VARIABLES
  log,          \* history: the events taken from the iterator
  seen,         \* history: those of each key
  order,
  projections,
  result        \* Ok of the list of projections, or the first error

vars == <<log, seen, order, projections, result>>

Running == [kind |-> "running", value |-> NoProjection]
Ok(results) == [kind |-> "ok", value |-> results]
Err(e) == [kind |-> "err", value |-> e]

\* The fold of key k alone: its part of the list, or its own error.
Place(k) == CHOOSE i \in DOMAIN order : order[i] = k
ResultOf(k) ==
  CASE result.kind = "ok" /\ seen[k] # <<>> -> Ok(result.value[Place(k)])
    [] result.kind = "err" /\ KeyOf[log[Len(log)]] = k -> result
    [] OTHER -> Running

Fold(k) == <<seen[k], projections[k], ResultOf(k)>>

Stream(k) == INSTANCE ReduceOne WITH
  seen <- seen[k], projection <- projections[k], result <- ResultOf(k)

ASSUME GroupedAssumption ==
  /\ seed \in [Events -> Projections \cup Errors]
  /\ apply \in [Projections -> [Events -> Projections \cup Errors]]
  /\ NoProjection \notin Projections
  /\ Projections \cap Errors = {}
  /\ KeyOf \in [Events -> Keys]
  /\ MaxEvents \in Nat

Next_event(e) ==
  /\ result = Running
  /\ Len(log) < MaxEvents
  /\ log' = Append(log, e)
  /\ seen' = [seen EXCEPT ![KeyOf[e]] = Append(@, e)]

\* The `?` after seed and after apply; an entry is written only on Ok.
Store(k, reduced) ==
  \/ /\ reduced \in Projections
     /\ projections' = [projections EXCEPT ![k] = reduced]
     /\ UNCHANGED result
  \/ /\ reduced \in Errors
     /\ result' = Err(reduced)
     /\ UNCHANGED projections

Occupied(e) ==
  LET k == KeyOf[e]
  IN  /\ projections[k] # NoProjection
      /\ Next_event(e)
      /\ Store(k, apply[projections[k]][e])
      /\ UNCHANGED order

\* Mutant: the first event is seeded and then applied too.
Vacant_ThenApply(e) ==
  LET k == KeyOf[e]
  IN  /\ projections[k] = NoProjection
      /\ Next_event(e)
      /\ order' = Append(order, k)
      /\ Store(k, IF seed[e] \in Errors THEN seed[e] ELSE apply[seed[e]][e])

\* The key is pushed before seed is called.
Vacant(e) ==
  LET k == KeyOf[e]
  IN  /\ projections[k] = NoProjection
      /\ Next_event(e)
      /\ order' = Append(order, k)
      /\ Store(k, seed[e])

\* Mutant: the map is drained in whatever order it has.
Drain_Unordered ==
  /\ result = Running
  /\ \E keys \in [DOMAIN order -> Keys] :
       /\ \A k \in Keys : projections[k] # NoProjection => \E i \in DOMAIN keys : keys[i] = k
       /\ result' = Ok([i \in DOMAIN order |-> projections[keys[i]]])
  /\ UNCHANGED <<log, seen, order, projections>>

\* The `if let Some` misses nothing: `order` has the keys of the map, once each.
Drain ==
  /\ result = Running
  /\ result' = Ok([i \in DOMAIN order |-> projections[order[i]]])
  /\ UNCHANGED <<log, seen, order, projections>>

Init ==
  /\ log = <<>>
  /\ seen = [k \in Keys |-> <<>>]
  /\ order = <<>>
  /\ projections = [k \in Keys |-> NoProjection]
  /\ result = Running

Next == Drain \/ \E e \in Events : Occupied(e) \/ Vacant(e)

Spec == Init /\ [][Next]_vars

-----------------------------------------------------------------------------
TypeOK ==
  /\ log \in Seq(Events)
  /\ seen \in [Keys -> Seq(Events)]
  /\ order \in Seq(Keys)
  /\ projections \in [Keys -> Projections \cup {NoProjection}]
  /\ \/ result = Running
     \/ result.kind = "ok" /\ result.value \in Seq(Projections)
     \/ result.kind = "err" /\ result.value \in Errors

\* Each key is reduced as if its events were the only ones: whatever the other
\* keys' events in between, and whatever becomes of them, its projection is the
\* one reduce_one builds from its own events in their order, and the place it
\* gets in the output is its own; an input fails with the error of the first
\* key that fails, and no event is taken after it (projection.rs:126-164).
EachKeyFoldsAlone ==
  /\ \A k \in Keys : Stream(k)!Init
  /\ [][\A k \in Keys : Stream(k)!Next \/ UNCHANGED Fold(k)]_vars

\* The positions of the events whose key has not been seen before.
Firsts == {i \in DOMAIN log : \A j \in 1 .. (i - 1) : KeyOf[log[j]] # KeyOf[log[i]]}

\* All of them, from the earliest to the latest.
ListsFirsts(firsts) ==
  /\ \A i \in Firsts : \E p \in DOMAIN firsts : firsts[p] = i
  /\ \A p, q \in DOMAIN firsts : p < q => firsts[p] < firsts[q]

\* The output has one projection per key of the input, "the output preserves
\* the first-seen order of keys in the input stream" (projection.rs:124-125).
FirstSeenOrder ==
  result.kind = "ok" =>
    \E firsts \in [DOMAIN result.value -> Firsts] :
      /\ ListsFirsts(firsts)
      /\ \A p \in DOMAIN firsts : result.value[p] = projections[KeyOf[log[firsts[p]]]]

=============================================================================
