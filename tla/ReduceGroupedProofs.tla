------------------------- MODULE ReduceGroupedProofs -------------------------
(***************************************************************************)
(* What interleaving the streams does not change, for every reducer, every *)
(* set of keys and events and every length of the input.                   *)
(***************************************************************************)
EXTENDS ReduceGrouped, TLAPS

(* While no stream has failed, the keys of `order`, of the map and of the  *)
(* events seen are the same ones.                                          *)
SameKeys ==
  result = Running =>
    \A k \in Keys : /\ projections[k] # NoProjection <=> seen[k] # <<>>
                    /\ projections[k] # NoProjection => \E i \in DOMAIN order : order[i] = k
PushedKeysAreSeen ==
  result = Running => \A i \in DOMAIN order : projections[order[i]] # NoProjection

IInv == TypeOK /\ SameKeys /\ PushedKeysAreSeen

-----------------------------------------------------------------------------
\* A running reduction is neither an output nor an error.
LEMMA RunningIs == Running.kind = "running"
  BY DEF Running

\* What the reducer answers is one of the two arms of Store.
LEMMA Answers ==
  /\ \A e \in Events : /\ seed[e] \in Projections \cup Errors
                       /\ \A p \in Projections : apply[p][e] \in Projections \cup Errors
  /\ \A e \in Events : KeyOf[e] \in Keys
  BY GroupedAssumption

LEMMA InitInv == Init => IInv
  BY SMT DEF Init, IInv, TypeOK, SameKeys, PushedKeysAreSeen, Running

\* Appending to a sequence leaves no empty one.
LEMMA Longer ==
  ASSUME NEW S, NEW s \in Seq(S), NEW x \in S
  PROVE  Append(s, x) \in Seq(S) /\ Append(s, x) # <<>>
  <1>1. Append(s, x) \in Seq(S) /\ Len(Append(s, x)) = Len(s) + 1 /\ Len(s) \in Nat
    OBVIOUS
  <1>2. Len(<<>>) = 0
    OBVIOUS
  <1> QED BY <1>1, <1>2

\* Taking an event keeps the histories typed.
LEMMA EventTypes ==
  ASSUME TypeOK, NEW e \in Events, Next_event(e)
  PROVE  /\ log' \in Seq(Events)
         /\ seen' \in [Keys -> Seq(Events)]
         /\ seen'[KeyOf[e]] # <<>>
  <1>1. KeyOf[e] \in Keys /\ seen[KeyOf[e]] \in Seq(Events)
    BY Answers DEF TypeOK
  <1> QED BY <1>1, Longer DEF TypeOK, Next_event

\* Either arm of Store keeps the map and the result typed.
LEMMA StoreTypes ==
  ASSUME TypeOK, result = Running, NEW k \in Keys, NEW r, Store(k, r)
  PROVE  /\ projections' \in [Keys -> Projections \cup {NoProjection}]
         /\ \/ result' = Running
            \/ result'.kind = "err" /\ result'.value \in Errors
  <1>1. CASE r \in Projections /\ projections' = [projections EXCEPT ![k] = r] /\ UNCHANGED result
    BY <1>1 DEF TypeOK
  <1>2. CASE r \in Errors /\ result' = Err(r) /\ UNCHANGED projections
    BY <1>2 DEF TypeOK, Err
  <1> QED BY <1>1, <1>2 DEF Store

\* The invariant survives the first event of a key.
LEMMA VacantInv == ASSUME IInv, NEW e \in Events, Vacant(e) PROVE IInv'
  <1> DEFINE k == KeyOf[e]
  <1>0. k \in Keys /\ result = Running /\ projections[k] = NoProjection
    BY Answers DEF Vacant, Next_event
  <1>1. TypeOK'
    <2>1. order' \in Seq(Keys)
      BY <1>0, Longer DEF Vacant, IInv, TypeOK
    <2> QED BY <1>0, <2>1, EventTypes, StoreTypes DEF Vacant, IInv, TypeOK
  <1>2. SameKeys' /\ PushedKeysAreSeen'
    <2> SUFFICES ASSUME result' = Running PROVE SameKeys' /\ PushedKeysAreSeen'
      BY DEF SameKeys, PushedKeysAreSeen
    <2>1. projections' = [projections EXCEPT ![k] = seed[e]] /\ seed[e] # NoProjection
      BY GroupedAssumption DEF Vacant, Store, Running, Err
    <2>2. order' = Append(order, k) /\ seen' = [seen EXCEPT ![k] = Append(@, e)]
      BY DEF Vacant, Next_event
    <2>3. PushedKeysAreSeen'
      BY <1>0, <2>1, <2>2, SMTT(30) DEF IInv, TypeOK, PushedKeysAreSeen
    <2>4. SameKeys'
      <3> SUFFICES ASSUME NEW j \in Keys
                   PROVE /\ projections'[j] # NoProjection <=> seen'[j] # <<>>
                         /\ projections'[j] # NoProjection => \E i \in DOMAIN order' : order'[i] = j
        BY DEF SameKeys
      <3>1. CASE j = k
        <4>1. projections'[j] # NoProjection /\ seen'[j] # <<>>
          BY <1>0, <2>1, <3>1, EventTypes DEF Vacant, IInv, TypeOK
        <4>2. Len(order) + 1 \in DOMAIN order' /\ order'[Len(order) + 1] = j
          BY <1>0, <2>2, <3>1 DEF IInv, TypeOK
        <4> QED BY <4>1, <4>2
      <3>2. CASE j # k
        <4>1. projections'[j] = projections[j] /\ seen'[j] = seen[j]
          BY <1>0, <2>1, <2>2, <3>2 DEF IInv, TypeOK
        <4>2. \A i \in DOMAIN order : i \in DOMAIN order' /\ order'[i] = order[i]
          BY <1>0, <2>2 DEF IInv, TypeOK
        <4> QED BY <4>1, <4>2, <1>0 DEF IInv, SameKeys
      <3> QED BY <3>1, <3>2
    <2> QED BY <2>3, <2>4
  <1> QED BY <1>1, <1>2 DEF IInv

\* The invariant survives a later event of a key.
LEMMA OccupiedInv == ASSUME IInv, NEW e \in Events, Occupied(e) PROVE IInv'
  <1> DEFINE k == KeyOf[e]
  <1>0. /\ k \in Keys /\ result = Running /\ projections[k] \in Projections
        /\ apply[projections[k]][e] \in Projections \cup Errors
    BY Answers DEF Occupied, Next_event, IInv, TypeOK
  <1>1. TypeOK'
    <2>1. order' \in Seq(Keys)
      BY DEF Occupied, IInv, TypeOK
    <2> QED BY <1>0, <2>1, EventTypes, StoreTypes DEF Occupied, IInv, TypeOK
  <1>2. SameKeys' /\ PushedKeysAreSeen'
    <2> SUFFICES ASSUME result' = Running PROVE SameKeys' /\ PushedKeysAreSeen'
      BY DEF SameKeys, PushedKeysAreSeen
    <2>1. /\ projections' = [projections EXCEPT ![k] = apply[projections[k]][e]]
          /\ apply[projections[k]][e] # NoProjection
      BY <1>0, GroupedAssumption DEF Occupied, Store, Running, Err
    <2>2. order' = order /\ seen' = [seen EXCEPT ![k] = Append(@, e)]
      BY DEF Occupied, Next_event
    <2>3. \A j \in Keys : projections'[j] # NoProjection <=> projections[j] # NoProjection
      BY <1>0, <2>1, GroupedAssumption DEF IInv, TypeOK
    <2>4. \A j \in Keys : seen'[j] # <<>> <=> projections[j] # NoProjection
      <3> SUFFICES ASSUME NEW j \in Keys PROVE seen'[j] # <<>> <=> projections[j] # NoProjection
        OBVIOUS
      <3>1. CASE j = k
        BY <1>0, <3>1, EventTypes, GroupedAssumption DEF Occupied, IInv
      <3>2. CASE j # k
        BY <1>0, <2>2, <3>2 DEF IInv, TypeOK, SameKeys
      <3> QED BY <3>1, <3>2
    <2>5. SameKeys'
      BY <1>0, <2>2, <2>3, <2>4 DEF IInv, SameKeys
    <2>6. PushedKeysAreSeen'
      BY <1>0, <2>2, <2>3 DEF IInv, TypeOK, PushedKeysAreSeen
    <2> QED BY <2>5, <2>6
  <1> QED BY <1>1, <1>2 DEF IInv

\* The invariant survives the output.
LEMMA DrainInv == ASSUME IInv, Drain PROVE IInv'
  <1>1. result = Running /\ result'.kind = "ok"
    BY DEF Drain, Ok
  <1>2. \A i \in DOMAIN order : projections[order[i]] \in Projections
    BY <1>1 DEF IInv, TypeOK, PushedKeysAreSeen
  <1>3. result'.value \in Seq(Projections)
    <2>1. order \in Seq(Keys)
      BY DEF IInv, TypeOK
    <2>2. [i \in 1 .. Len(order) |-> projections[order[i]]] \in Seq(Projections)
      BY <1>2, <2>1
    <2>3. result'.value = [i \in 1 .. Len(order) |-> projections[order[i]]]
      BY <2>1 DEF Drain, Ok
    <2> QED BY <2>2, <2>3
  <1>4. result' # Running
    BY <1>1 DEF Running
  <1> QED BY <1>1, <1>3, <1>4 DEF IInv, TypeOK, SameKeys, PushedKeysAreSeen, Drain

LEMMA StepInv == IInv /\ [Next]_vars => IInv'
  <1>1. IInv /\ UNCHANGED vars => IInv'
    BY DEF IInv, TypeOK, SameKeys, PushedKeysAreSeen, vars
  <1> QED BY <1>1, VacantInv, OccupiedInv, DrainInv DEF Next

-----------------------------------------------------------------------------
\* A running reduction is a running fold of each key.
LEMMA AllRun == ASSUME result = Running, NEW k \in Keys PROVE ResultOf(k) = Running
  BY RunningIs DEF ResultOf

LEMMA InitFolds == ASSUME Init, NEW k \in Keys PROVE Stream(k)!Init
  BY AllRun DEF Init, Running, Stream!Init, Stream!Running

\* An event of key k is a step of the fold of k, ...
LEMMA OwnEvent ==
  ASSUME IInv, NEW e \in Events, Vacant(e) \/ Occupied(e)
  PROVE  Stream(KeyOf[e])!Take(e)
  <1> DEFINE k == KeyOf[e]
             reduced == IF projections[k] = NoProjection THEN seed[e] ELSE apply[projections[k]][e]
  <1>0. k \in Keys /\ result = Running /\ ResultOf(k) = Running
    BY Answers, AllRun DEF Vacant, Occupied, Next_event
  <1>1. seen'[k] = Append(seen[k], e) /\ log' = Append(log, e)
    BY <1>0 DEF Vacant, Occupied, Next_event, IInv, TypeOK
  <1>2. Store(k, reduced)
    BY DEF Vacant, Occupied
  <1>3. KeyOf[log'[Len(log')]] = k
    BY <1>1 DEF IInv, TypeOK
  <1>4. CASE reduced \in Projections /\ projections' = [projections EXCEPT ![k] = reduced] /\ UNCHANGED result
    <2>1. ResultOf(k)' = Running
      BY <1>0, <1>4, RunningIs DEF ResultOf
    <2>2. projections'[k] = reduced
      BY <1>0, <1>4 DEF IInv, TypeOK
    <2> QED BY <1>0, <1>1, <1>4, <2>1, <2>2 DEF Stream!Take, Stream!Reduced, Stream!Running, Running
  <1>5. CASE reduced \in Errors /\ result' = Err(reduced) /\ UNCHANGED projections
    <2>1. ResultOf(k)' = Err(reduced)
      BY <1>5, <1>3 DEF ResultOf, Err
    <2> QED BY <1>0, <1>1, <1>5, <2>1 DEF Stream!Take, Stream!Reduced, Stream!Running, Running, Stream!Err, Err
  <1> QED BY <1>2, <1>4, <1>5 DEF Store

\* ... and is not seen by the fold of another key.
LEMMA OtherEvent ==
  ASSUME IInv, NEW e \in Events, Vacant(e) \/ Occupied(e), NEW k \in Keys, k # KeyOf[e]
  PROVE  UNCHANGED Fold(k)
  <1>0. KeyOf[e] \in Keys /\ result = Running /\ ResultOf(k) = Running
    BY Answers, AllRun DEF Vacant, Occupied, Next_event
  <1>1. seen'[k] = seen[k] /\ log' = Append(log, e) /\ projections'[k] = projections[k]
    BY <1>0 DEF Vacant, Occupied, Next_event, Store, IInv, TypeOK
  <1>2. KeyOf[log'[Len(log')]] # k
    BY <1>1 DEF IInv, TypeOK
  <1>3. result' = Running \/ result'.kind = "err"
    BY <1>0 DEF Vacant, Occupied, Store, Err
  <1>4. ResultOf(k)' = Running
    BY <1>2, <1>3, RunningIs DEF ResultOf
  <1> QED BY <1>0, <1>1, <1>4 DEF Fold

\* The output ends the fold of every key that was seen.
LEMMA Output ==
  ASSUME IInv, Drain, NEW k \in Keys
  PROVE  Stream(k)!Next \/ UNCHANGED Fold(k)
  <1>0. result = Running /\ ResultOf(k) = Running
    BY AllRun DEF Drain
  <1>1. UNCHANGED <<log, seen, order, projections>> /\ result'.kind = "ok"
    BY DEF Drain, Ok
  <1>2. CASE seen[k] = <<>>
    <2>1. ResultOf(k)' = Running
      BY <1>1, <1>2 DEF ResultOf
    <2> QED BY <1>0, <1>1, <2>1 DEF Fold
  <1>3. CASE seen[k] # <<>>
    <2>1. projections[k] # NoProjection /\ \E i \in DOMAIN order : order[i] = k
      BY <1>0, <1>3 DEF IInv, SameKeys
    <2>2. Place(k)' \in DOMAIN order /\ order[Place(k)'] = k
      BY <1>1, <2>1 DEF Place
    <2>3. result'.value[Place(k)'] = projections[k]
      BY <2>2 DEF Drain, Ok
    <2>4. ResultOf(k)' = Ok(projections[k])
      BY <1>1, <1>3, <2>3 DEF ResultOf
    <2>5. Stream(k)!End
      BY <1>0, <1>1, <2>1, <2>4 DEF Stream!End, Stream!Running, Running, Stream!Ok, Ok
    <2> QED BY <2>5 DEF Stream!Next
  <1> QED BY <1>2, <1>3

-----------------------------------------------------------------------------
\* The types hold, and `order`, the map and the events agree on the keys.
THEOREM Inductive == Spec => []IInv
  <1> QED BY InitInv, StepInv, PTL DEF Spec

\* Each key is reduced as reduce_one reduces its events alone, whatever the
\* other streams do in between (projection.rs:126-164).
THEOREM StreamsDoNotMeet == Spec => EachKeyFoldsAlone
  <1> DEFINE Starts == \A k \in Keys : Stream(k)!Init
             Folds == \A k \in Keys : Stream(k)!Next \/ UNCHANGED Fold(k)
  <1>1. Init => Starts
    BY InitFolds
  <1>2. IInv /\ [Next]_vars => [Folds]_vars
    <2> SUFFICES ASSUME IInv, Next, NEW k \in Keys
                 PROVE  Stream(k)!Next \/ UNCHANGED Fold(k)
      OBVIOUS
    <2>1. ASSUME NEW e \in Events, Vacant(e) \/ Occupied(e)
          PROVE  Stream(k)!Next \/ UNCHANGED Fold(k)
      <3>1. CASE k = KeyOf[e]
        BY <2>1, <3>1, OwnEvent DEF Stream!Next
      <3>2. CASE k # KeyOf[e]
        BY <2>1, <3>2, OtherEvent
      <3> QED BY <3>1, <3>2
    <2> QED BY <2>1, Output DEF Next
  <1>3. Spec => Starts
    BY <1>1 DEF Spec
  <1>4. Spec => [][Folds]_vars
    BY <1>2, Inductive, PTL DEF Spec
  <1> QED BY <1>3, <1>4, PTL DEF EachKeyFoldsAlone

-----------------------------------------------------------------------------
(* While the reduction runs, every event taken has left an entry, and       *)
(* `order` lists the keys of the first events.                              *)
Logged == result = Running => \A i \in DOMAIN log : projections[KeyOf[log[i]]] # NoProjection
Ordered ==
  result = Running =>
    \E firsts \in [DOMAIN order -> Firsts] :
      /\ ListsFirsts(firsts)
      /\ \A p \in DOMAIN firsts : order[p] = KeyOf[log[firsts[p]]]

OrderInv == Logged /\ Ordered /\ FirstSeenOrder

\* No event, no first event.
LEMMA InitOrder == Init => OrderInv
  <1> SUFFICES ASSUME Init PROVE OrderInv
    OBVIOUS
  <1>1. log = <<>> /\ order = <<>> /\ result = Running /\ DOMAIN log = {} /\ DOMAIN order = {}
    BY DEF Init
  <1>2. Firsts = {}
    BY <1>1 DEF Firsts
  <1>3. Ordered
    <2> DEFINE none == [p \in DOMAIN order |-> 0]
    <2>1. none \in [DOMAIN order -> Firsts] /\ DOMAIN none = {}
      BY <1>1
    <2> QED BY <1>2, <2>1 DEF Ordered, ListsFirsts
  <1> QED BY <1>1, <1>3, RunningIs DEF OrderInv, Logged, FirstSeenOrder

\* Taking an event adds a place to the log and leaves the places before it.
LEMMA LogGrows ==
  ASSUME TypeOK, NEW e \in Events, Next_event(e)
  PROVE  /\ Len(log) \in Nat /\ DOMAIN log = 1 .. Len(log)
         /\ DOMAIN log' = DOMAIN log \cup {Len(log) + 1}
         /\ log'[Len(log) + 1] = e
         /\ \A i \in DOMAIN log : log'[i] = log[i]
  BY DEF TypeOK, Next_event

\* Whether an earlier event is a first one does not change; whether the new
\* one is depends on its key.
LEMMA FirstsGrow ==
  ASSUME TypeOK, NEW e \in Events, Next_event(e)
  PROVE  Firsts' = IF \E j \in DOMAIN log : KeyOf[log[j]] = KeyOf[e]
                   THEN Firsts ELSE Firsts \cup {Len(log) + 1}
  <1> DEFINE n == Len(log) + 1
             Earlier(i) == \A j \in 1 .. (i - 1) : KeyOf[log[j]] # KeyOf[log[i]]
  <1>0. /\ Len(log) \in Nat /\ DOMAIN log = 1 .. Len(log) /\ DOMAIN log' = DOMAIN log \cup {n}
        /\ log'[n] = e /\ \A i \in DOMAIN log : log'[i] = log[i]
    BY LogGrows
  <1>1. \A i \in DOMAIN log : (\A j \in 1 .. (i - 1) : KeyOf[log'[j]] # KeyOf[log'[i]]) <=> Earlier(i)
    <2> TAKE i \in DOMAIN log
    <2>1. 1 .. (i - 1) \subseteq DOMAIN log
      BY <1>0
    <2> QED BY <1>0, <2>1
  <1>2. (\A j \in 1 .. (n - 1) : KeyOf[log'[j]] # KeyOf[log'[n]])
          <=> ~ \E j \in DOMAIN log : KeyOf[log[j]] = KeyOf[e]
    <2>1. 1 .. (n - 1) = DOMAIN log
      BY <1>0
    <2> QED BY <1>0, <2>1
  <1>3. n \notin DOMAIN log
    BY <1>0
  <1> QED BY <1>0, <1>1, <1>2, <1>3 DEF Firsts

\* The first event of a key is listed last.
LEMMA VacantOrder ==
  ASSUME IInv, OrderInv, NEW e \in Events, Vacant(e), result' = Running
  PROVE  Logged' /\ Ordered'
  <1> DEFINE k == KeyOf[e]
             n == Len(log) + 1
             m == Len(order) + 1
  <1>0. /\ TypeOK /\ Next_event(e) /\ result = Running /\ k \in Keys
        /\ projections[k] = NoProjection /\ order' = Append(order, k)
    BY Answers DEF IInv, Vacant, Next_event
  <1>1. projections' = [projections EXCEPT ![k] = seed[e]] /\ seed[e] # NoProjection
    BY GroupedAssumption DEF Vacant, Store, Running, Err
  <1>2. /\ Len(log) \in Nat /\ DOMAIN log = 1 .. Len(log) /\ DOMAIN log' = DOMAIN log \cup {n}
        /\ log'[n] = e /\ \A i \in DOMAIN log : log'[i] = log[i]
    BY <1>0, LogGrows
  <1>3. \A i \in DOMAIN log : projections[KeyOf[log[i]]] # NoProjection /\ KeyOf[log[i]] # k
    BY <1>0 DEF OrderInv, Logged
  <1>4. \A i \in DOMAIN log : KeyOf[log[i]] \in Keys
    BY <1>0, Answers DEF TypeOK
  <1>5. Logged'
    <2> SUFFICES ASSUME NEW i \in DOMAIN log' PROVE projections'[KeyOf[log'[i]]] # NoProjection
      BY DEF Logged
    <2>1. CASE i = n
      BY <1>0, <1>1, <1>2, <2>1 DEF TypeOK
    <2>2. CASE i \in DOMAIN log
      BY <1>0, <1>1, <1>2, <1>3, <1>4, <2>2 DEF TypeOK
    <2> QED BY <1>2, <2>1, <2>2
  <1>6. Firsts' = Firsts \cup {n}
    BY <1>0, <1>3, FirstsGrow
  <1>7. PICK firsts \in [DOMAIN order -> Firsts] :
          ListsFirsts(firsts) /\ \A p \in DOMAIN firsts : order[p] = KeyOf[log[firsts[p]]]
    BY <1>0 DEF OrderInv, Ordered
  <1>8. /\ DOMAIN order' = DOMAIN order \cup {m} /\ order'[m] = k /\ m \notin DOMAIN order
        /\ \A p \in DOMAIN order : order'[p] = order[p] /\ p < m /\ p \in Nat
        /\ m \in Nat
    BY <1>0 DEF TypeOK
  <1>9. PICK longer \in [DOMAIN order' -> Firsts'] :
          /\ DOMAIN longer = DOMAIN order \cup {m} /\ longer[m] = n
          /\ \A p \in DOMAIN order : longer[p] = firsts[p]
    <2> DEFINE new == [p \in DOMAIN order' |-> IF p = m THEN n ELSE firsts[p]]
    <2>1. /\ new \in [DOMAIN order' -> Firsts'] /\ DOMAIN new = DOMAIN order \cup {m}
          /\ new[m] = n /\ \A p \in DOMAIN order : new[p] = firsts[p]
      BY <1>6, <1>7, <1>8
    <2> QED BY <2>1
  <1>10. \A i \in Firsts : i \in DOMAIN log /\ i < n /\ i \in Nat
    BY <1>2 DEF Firsts
  <1>11. ListsFirsts(longer)'
    <2>1. \A i \in Firsts' : \E p \in DOMAIN longer : longer[p] = i
      BY <1>6, <1>7, <1>9 DEF ListsFirsts
    <2>2. ASSUME NEW p \in DOMAIN longer, NEW q \in DOMAIN longer, p < q
          PROVE  longer[p] < longer[q]
      <3>1. p \in DOMAIN order
        BY <1>8, <1>9, <2>2
      <3>2. CASE q = m
        BY <1>7, <1>9, <1>10, <3>1, <3>2
      <3>3. CASE q \in DOMAIN order
        BY <1>7, <1>9, <2>2, <3>1, <3>3 DEF ListsFirsts
      <3> QED BY <1>9, <3>2, <3>3
    <2> QED BY <2>1, <2>2 DEF ListsFirsts
  <1>12. \A p \in DOMAIN longer : order'[p] = KeyOf[log'[longer[p]]]
    <2> TAKE p \in DOMAIN longer
    <2>1. CASE p = m
      BY <1>2, <1>8, <1>9, <2>1
    <2>2. CASE p \in DOMAIN order
      <3>1. firsts[p] \in DOMAIN log
        BY <1>7, <1>10, <2>2
      <3> QED BY <1>2, <1>7, <1>8, <1>9, <2>2, <3>1
    <2> QED BY <1>9, <2>1, <2>2
  <1>13. Ordered'
    BY <1>9, <1>11, <1>12 DEF Ordered
  <1> QED BY <1>5, <1>13

\* A later event of a key is no first one.
LEMMA OccupiedOrder ==
  ASSUME IInv, OrderInv, NEW e \in Events, Occupied(e), result' = Running
  PROVE  Logged' /\ Ordered'
  <1> DEFINE k == KeyOf[e]
             n == Len(log) + 1
  <1>0. /\ TypeOK /\ Next_event(e) /\ result = Running /\ k \in Keys
        /\ projections[k] # NoProjection /\ order' = order
        /\ apply[projections[k]][e] \in Projections \cup Errors
    BY Answers DEF IInv, TypeOK, Occupied, Next_event
  <1>1. projections' = [projections EXCEPT ![k] = apply[projections[k]][e]]
        /\ apply[projections[k]][e] # NoProjection
    BY <1>0, GroupedAssumption DEF Occupied, Store, Running, Err
  <1>2. /\ Len(log) \in Nat /\ DOMAIN log = 1 .. Len(log) /\ DOMAIN log' = DOMAIN log \cup {n}
        /\ log'[n] = e /\ \A i \in DOMAIN log : log'[i] = log[i]
    BY <1>0, LogGrows
  <1>3. \A i \in DOMAIN log : projections[KeyOf[log[i]]] # NoProjection /\ KeyOf[log[i]] \in Keys
    BY <1>0, Answers DEF OrderInv, Logged, TypeOK
  <1>4. Logged'
    <2> SUFFICES ASSUME NEW i \in DOMAIN log' PROVE projections'[KeyOf[log'[i]]] # NoProjection
      BY DEF Logged
    <2>1. CASE i = n
      BY <1>0, <1>1, <1>2, <2>1 DEF TypeOK
    <2>2. CASE i \in DOMAIN log
      BY <1>0, <1>1, <1>2, <1>3, <2>2 DEF TypeOK
    <2> QED BY <1>2, <2>1, <2>2
  <1>5. PICK firsts \in [DOMAIN order -> Firsts] :
          ListsFirsts(firsts) /\ \A p \in DOMAIN firsts : order[p] = KeyOf[log[firsts[p]]]
    BY <1>0 DEF OrderInv, Ordered
  <1>6. \A i \in Firsts : i \in DOMAIN log
    BY DEF Firsts
  <1>7. \E j \in DOMAIN log : KeyOf[log[j]] = k
    <2>1. \E p \in DOMAIN order : order[p] = k
      BY <1>0 DEF IInv, SameKeys
    <2> QED BY <1>5, <1>6, <2>1
  <1>8. Firsts' = Firsts
    BY <1>0, <1>7, FirstsGrow
  <1>9. ListsFirsts(firsts)'
    BY <1>5, <1>8 DEF ListsFirsts
  <1>10. \A p \in DOMAIN firsts : order'[p] = KeyOf[log'[firsts[p]]]
    BY <1>0, <1>2, <1>5, <1>6
  <1>11. Ordered'
    BY <1>0, <1>5, <1>8, <1>9, <1>10 DEF Ordered
  <1> QED BY <1>4, <1>11

\* What is drained is what `order` lists.
LEMMA DrainOrder == ASSUME IInv, OrderInv, Drain PROVE FirstSeenOrder'
  <1>1. /\ result = Running /\ DOMAIN result'.value = DOMAIN order
        /\ \A i \in DOMAIN order : result'.value[i] = projections[order[i]]
        /\ UNCHANGED <<log, projections>>
    BY DEF Drain, Ok
  <1>2. Firsts' = Firsts
    BY <1>1 DEF Firsts
  <1>3. PICK firsts \in [DOMAIN order -> Firsts] :
          ListsFirsts(firsts) /\ \A p \in DOMAIN firsts : order[p] = KeyOf[log[firsts[p]]]
    BY <1>1 DEF OrderInv, Ordered
  <1>4. ListsFirsts(firsts)'
    BY <1>2, <1>3 DEF ListsFirsts
  <1> QED BY <1>1, <1>2, <1>3, <1>4 DEF FirstSeenOrder

LEMMA StepOrder == IInv /\ OrderInv /\ [Next]_vars => OrderInv'
  <1> SUFFICES ASSUME IInv, OrderInv, [Next]_vars PROVE OrderInv'
    OBVIOUS
  <1>1. ASSUME NEW e \in Events, Vacant(e) \/ Occupied(e) PROVE OrderInv'
    <2>1. result'.kind # "ok"
      BY <1>1, RunningIs DEF Vacant, Occupied, Next_event, Store, Err
    <2>2. CASE result' = Running
      BY <1>1, <2>1, <2>2, VacantOrder, OccupiedOrder DEF OrderInv, FirstSeenOrder
    <2>3. CASE result' # Running
      BY <2>1, <2>3 DEF OrderInv, Logged, Ordered, FirstSeenOrder, Running
    <2> QED BY <2>2, <2>3
  <1>2. CASE Drain
    <2>1. result' # Running
      BY <1>2 DEF Drain, Ok, Running
    <2> QED BY <1>2, <2>1, DrainOrder DEF OrderInv, Logged, Ordered, Running
  <1>3. CASE UNCHANGED vars
    BY <1>3 DEF vars, OrderInv, Logged, Ordered, FirstSeenOrder, Firsts, ListsFirsts, Running
  <1> QED BY <1>1, <1>2, <1>3 DEF Next

\* The output preserves the first-seen order of the keys (projection.rs:124-125).
THEOREM FirstSeenOrderHolds == Spec => []FirstSeenOrder
  <1>1. Init => IInv /\ OrderInv
    BY InitInv, InitOrder
  <1>2. (IInv /\ OrderInv) /\ [Next]_vars => (IInv /\ OrderInv)'
    BY StepInv, StepOrder
  <1>3. IInv /\ OrderInv => FirstSeenOrder
    BY DEF OrderInv
  <1> QED BY <1>1, <1>2, <1>3, PTL DEF Spec

=============================================================================
