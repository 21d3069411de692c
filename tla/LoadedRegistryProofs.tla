------------------------ MODULE LoadedRegistryProofs ------------------------
(***************************************************************************)
(* For any crates, texts, edits and any number of expansions: the types of *)
(* LoadedRegistry, and that what an expansion finds in the registries is   *)
(* what the text says.                                                     *)
(*                                                                         *)
(* The properties speak of outcomes only.  The inductive invariant adds    *)
(* what the registries hold: no item has two entries; no stamp is ahead of *)
(* the file; unless its last edit came under an expansion, a current entry *)
(* describes the item of its line; and in the first undisturbed expansion  *)
(* of a text the current entries are exactly those its lines so far        *)
(* declare.  For the later ones AgainInv adds which of these an item finds *)
(* again, with those of the lines below.                                   *)
(***************************************************************************)
EXTENDS LoadedRegistry, TLAPS

-----------------------------------------------------------------------------
(* The registries as sets.                                                 *)

Entries(R) == {R[i] : i \in DOMAIN R}

\* No item has two entries.
OncePerItem(R) == \A i, j \in DOMAIN R : same_loaded(R[i], R[j]) => i = j

CurrentIn(R, c) == {e \in Entries(R) : is_current(e, c)}

EntriesAt(R, found) == {R[i] : i \in found}
Named(S, name) == {e \in S : e.name = name}
InModule(S, mod) == {e \in S : e.module = mod}

\* The element of S, if it is the only one.
Only(S) == {e \in S : S = {e}}

\* A registration keeps the type of a registry.
LEMMA UpsertType ==
  ASSUME NEW T, NEW R \in Seq(T), NEW e \in T
  PROVE  upsert(R, e) \in Seq(T)
<1> DEFINE same == {i \in DOMAIN R : same_loaded(R[i], e)}
<1>1. CASE same = {}
  BY <1>1 DEF upsert
<1>2. CASE same # {}
  <2>1. upsert(R, e) = [i \in DOMAIN R |->
                          IF i \in same /\ \A j \in 1 .. (i - 1) : j \notin same
                          THEN e ELSE R[i]]
    BY <1>2 DEF upsert
  <2>2. DOMAIN R = 1 .. Len(R) /\ Len(R) \in Nat /\ \A i \in DOMAIN R : R[i] \in T
    OBVIOUS
  <2> HIDE DEF same
  <2>3. upsert(R, e) \in [1 .. Len(R) -> T]
    BY <2>1, <2>2
  <2> QED
    BY <2>2, <2>3
<1> QED
  BY <1>1, <1>2

\* What a registration adds and replaces.
LEMMA UpsertEntries ==
  ASSUME NEW T, NEW R \in Seq(T), NEW e \in T, OncePerItem(R)
  PROVE  /\ Entries(upsert(R, e)) = {x \in Entries(R) : ~same_loaded(x, e)} \cup {e}
         /\ OncePerItem(upsert(R, e))
<1> DEFINE same == {i \in DOMAIN R : same_loaded(R[i], e)}
<1>0. DOMAIN R = 1 .. Len(R) /\ Len(R) \in Nat
  OBVIOUS
<1>1. CASE same = {}
  <2>1. upsert(R, e) = Append(R, e)
    BY <1>1 DEF upsert
  <2>2. /\ DOMAIN Append(R, e) = 1 .. (Len(R) + 1)
        /\ \A i \in 1 .. Len(R) : Append(R, e)[i] = R[i]
        /\ Append(R, e)[Len(R) + 1] = e
    BY <1>0
  <2>3. \A i \in 1 .. Len(R) : ~same_loaded(R[i], e) /\ ~same_loaded(e, R[i])
    BY <1>0, <1>1 DEF same_loaded
  <2>4. \A i \in 1 .. (Len(R) + 1) : i \in 1 .. Len(R) \/ i = Len(R) + 1
    BY <1>0
  <2>5. 1 .. Len(R) \subseteq 1 .. (Len(R) + 1) /\ Len(R) + 1 \in 1 .. (Len(R) + 1)
    BY <1>0
  <2> HIDE DEF same
  <2>6. Entries(Append(R, e)) = {x \in Entries(R) : ~same_loaded(x, e)} \cup {e}
    BY <1>0, <2>2, <2>3, <2>4, <2>5 DEF Entries
  <2>7. OncePerItem(Append(R, e))
    BY <1>0, <2>2, <2>3, <2>4 DEF OncePerItem
  <2> QED
    BY <2>1, <2>6, <2>7
<1>2. CASE same # {}
  <2>1. PICK k \in DOMAIN R : same_loaded(R[k], e)
    BY <1>2
  <2>2. same = {k}
    BY <2>1 DEF OncePerItem, same_loaded
  <2>3. upsert(R, e) = [i \in DOMAIN R |->
                          IF i \in same /\ \A j \in 1 .. (i - 1) : j \notin same
                          THEN e ELSE R[i]]
    BY <1>2 DEF upsert
  <2>4. \A i \in DOMAIN R :
          (i \in same /\ \A j \in 1 .. (i - 1) : j \notin same) <=> i = k
    BY <2>2, <1>0
  <2>5. upsert(R, e) = [i \in DOMAIN R |-> IF i = k THEN e ELSE R[i]]
    <3> HIDE DEF same
    <3> QED BY <2>3, <2>4
  <2>6. \A i \in DOMAIN R : i # k => ~same_loaded(R[i], e) /\ ~same_loaded(e, R[i])
    BY <2>1 DEF OncePerItem, same_loaded
  <2> HIDE DEF same
  <2>7. Entries(upsert(R, e)) = {x \in Entries(R) : ~same_loaded(x, e)} \cup {e}
    BY <2>1, <2>5, <2>6 DEF Entries
  <2>8. OncePerItem(upsert(R, e))
    BY <2>5, <2>6 DEF OncePerItem
  <2> QED
    BY <2>7, <2>8
<1> QED
  BY <1>1, <1>2

\* With one entry per item, the unique index is the unique entry.
LEMMA UniqueEntry ==
  ASSUME NEW R, OncePerItem(R), NEW found \in SUBSET DOMAIN R
  PROVE  unique(R, found) = Only(EntriesAt(R, found))
<1>1. \A i, j \in found : R[i] = R[j] => i = j
  BY DEF OncePerItem, same_loaded
<1>2. ASSUME NEW k \in found
      PROVE  found = {k} <=> {R[i] : i \in found} = {R[k]}
  <2>1. CASE found = {k}
    BY <2>1
  <2>2. ASSUME {R[i] : i \in found} = {R[k]} PROVE found = {k}
    <3>1. \A i \in found : R[i] = R[k]
      BY <2>2
    <3> QED BY <1>1, <3>1
  <2> QED BY <2>1, <2>2
<1> DEFINE S == EntriesAt(R, found)
<1>3. ASSUME NEW x \in unique(R, found) PROVE x \in Only(S)
  <2>1. PICK k \in found : found = {k} /\ x = R[k]
    BY DEF unique
  <2>2. S = {R[k]} /\ x \in S
    BY <1>2, <2>1 DEF EntriesAt
  <2> QED BY <2>1, <2>2 DEF Only
<1>4. ASSUME NEW x \in Only(S) PROVE x \in unique(R, found)
  <2>1. x \in S /\ S = {x}
    BY DEF Only
  <2>2. PICK k \in found : x = R[k]
    BY <2>1 DEF EntriesAt
  <2>3. found = {k}
    BY <1>2, <2>1, <2>2 DEF EntriesAt
  <2> QED BY <2>2, <2>3 DEF unique
<1> QED
  BY <1>3, <1>4

\* What the lookups return, in terms of the current entries.
LEMMA UniqueFound ==
  ASSUME NEW R, OncePerItem(R), NEW c, NEW mod, NEW name
  PROVE  /\ unique(R, candidates(R, c, mod, name))
              = Only(InModule(Named(CurrentIn(R, c), name), mod))
         /\ unique(R, candidates_by_name(R, c, name)) = Only(Named(CurrentIn(R, c), name))
         /\ candidates(R, c, mod, name) = {} <=> InModule(Named(CurrentIn(R, c), name), mod) = {}
<1> DEFINE own == candidates(R, c, mod, name)
           named == candidates_by_name(R, c, name)
<1>1. /\ own \in SUBSET DOMAIN R
      /\ named \in SUBSET DOMAIN R
      /\ EntriesAt(R, named) = Named(CurrentIn(R, c), name)
      /\ EntriesAt(R, own) = InModule(Named(CurrentIn(R, c), name), mod)
  BY DEF candidates, candidates_by_name, CurrentIn, Entries, EntriesAt, Named, InModule
<1>2. own = {} <=> EntriesAt(R, own) = {}
  BY DEF EntriesAt
<1> HIDE DEF own, named
<1>3. unique(R, own) = Only(EntriesAt(R, own)) /\ unique(R, named) = Only(EntriesAt(R, named))
  BY <1>1, UniqueEntry
<1> QED
  BY <1>1, <1>2, <1>3 DEF own, named

-----------------------------------------------------------------------------
(* Types.                                                                  *)

\* The line being expanded is an item of the text.
LEMMA ExpandedItem ==
  ASSUME TypeOK, NEW c \in Crates, NEW kind, Expands(c, kind)
  PROVE  /\ Item(c) \in Items
         /\ Line(c) \in Nat \ {0}
         /\ Line(c) = Len(outcomes[c]) + 1
         /\ Item(c).kind = kind
         /\ Item(c).name \in Names /\ Item(c).of \in Names
         /\ Item(c).module \in Modules
         /\ Item(c).variants \in SUBSET Variants /\ Item(c).derives \in SUBSET Derives
         /\ module_path(c, Line(c)) \in Modules
<1> USE RegistryAssumption
<1>1. pass[c] \in Seq(Items) /\ Line(c) \in DOMAIN pass[c] /\ Item(c).kind = kind
  BY DEF TypeOK, Expands
<1>2. Item(c) \in Items
  BY <1>1 DEF Item
<1>3. Line(c) = Len(outcomes[c]) + 1 /\ Line(c) \in Nat \ {0}
  BY DEF Line, TypeOK
<1>4. module_path(c, Line(c)) \in Modules
  <2>1. text[c] \in Seq(Items)
    BY DEF TypeOK
  <2>2. \A i \in DOMAIN text[c] : text[c][i] \in Items
    BY <2>1
  <2> QED BY <2>2 DEF module_path, Items
<1> QED
  BY <1>1, <1>2, <1>3, <1>4 DEF Items

LEMMA YieldType ==
  ASSUME TypeOK, NEW c \in Crates, NEW o \in Outcomes, Yield(c, o)
  PROVE  /\ outcomes' \in [Crates -> Seq(Outcomes)]
         /\ UNCHANGED <<text, version, pass, clean, quiet, tainted>>
         /\ outcomes'[c] = Append(outcomes[c], o)
         /\ \A d \in Crates \ {c} : outcomes'[d] = outcomes[d]
  BY DEF TypeOK, Yield, files

\* A lookup finds entries of the registry that are current.
LEMMA UniqueIsCurrent ==
  ASSUME NEW R, NEW c, NEW mod, NEW name
  PROVE  /\ unique(R, candidates_by_name(R, c, name)) \subseteq CurrentIn(R, c)
         /\ unique(R, candidates(R, c, mod, name)) \subseteq CurrentIn(R, c)
  BY DEF unique, candidates, candidates_by_name, CurrentIn, Entries

\* An impl is bound to a current entry of LOADED_MACHINES, or refused.
LEMMA Bindings ==
  ASSUME NEW c \in Crates, expand_transition(c) \/ expand_validators(c)
  PROVE  /\ UNCHANGED <<states, machines>>
         /\ \/ Yield(c, Error)
            \/ \E m \in CurrentIn(machines, c) : Yield(c, Bound(m))
<1>1. CASE expand_transition(c)
  BY <1>1, UniqueIsCurrent DEF expand_transition, Resolve, registries
<1>2. CASE expand_validators(c)
  BY <1>2, UniqueIsCurrent DEF expand_validators, Resolve, registries
<1> QED
  BY <1>1, <1>2

LEMMA NothingYet ==
  /\ <<>> \in Seq(EnumInfo) /\ <<>> \in Seq(MachineInfo)
  /\ [c \in Crates |-> <<>>] \in [Crates -> Seq(Outcomes)]
  /\ [c \in Crates |-> NoPass] \in [Crates -> Texts \cup {NoPass}]
<1>1. \A T : <<>> \in Seq(T)
  OBVIOUS
<1>2. <<>> \in Seq(EnumInfo) /\ <<>> \in Seq(MachineInfo) /\ <<>> \in Seq(Outcomes)
  BY <1>1
<1> QED
  BY <1>2

LEMMA InitTypeOK == Init => TypeOK
<1> SUFFICES ASSUME Init PROVE TypeOK
  OBVIOUS
<1>1. version \in [Crates -> 0 .. MaxVersion]
  BY RegistryAssumption DEF Init
<1>2. clean \in [Crates -> BOOLEAN] /\ quiet \in [Crates -> BOOLEAN]
  BY DEF Init
<1> QED
  BY <1>1, <1>2, NothingYet DEF Init, TypeOK

LEMMA NextTypeOK == TypeOK /\ [Next]_vars => TypeOK'
<1> SUFFICES ASSUME TypeOK, [Next]_vars PROVE TypeOK'
  OBVIOUS
<1> USE RegistryAssumption
<1>0. Registered \in Outcomes /\ Error \in Outcomes /\ \A m \in MachineInfo : Bound(m) \in Outcomes
  BY DEF Registered, Error, Bound, Outcomes
<1>1. ASSUME NEW c \in Crates, Edit(c) PROVE TypeOK'
  BY <1>1 DEF Edit, TypeOK, registries
<1>2. ASSUME NEW c \in Crates, StartPass(c) PROVE TypeOK'
  <2>1. NothingCurrent(c) \in BOOLEAN
    BY DEF NothingCurrent
  <2> HIDE DEF NothingCurrent
  <2> QED BY <1>2, <2>1 DEF StartPass, TypeOK, registries, files
<1>3. ASSUME NEW c \in Crates, EndPass(c) PROVE TypeOK'
  BY <1>3 DEF EndPass, TypeOK, registries, files
<1>4. ASSUME NEW c \in Crates, expand_state(c) PROVE TypeOK'
  <2> DEFINE e == EnumAt(Item(c), c, module_path(c, Line(c)), Line(c), version[c])
  <2>1. e \in EnumInfo
    BY <1>4, ExpandedItem DEF expand_state, EnumAt, EnumInfo, TypeOK
  <2>2. states' = upsert(states, e) /\ machines' = machines /\ Yield(c, Registered)
    BY <1>4 DEF expand_state
  <2> HIDE DEF e
  <2>3. states' \in Seq(EnumInfo)
    BY <2>1, <2>2, UpsertType DEF TypeOK
  <2> QED BY <1>0, <2>2, <2>3, YieldType DEF TypeOK
<1>5. ASSUME NEW c \in Crates, expand_machine(c) PROVE TypeOK'
  <2> DEFINE e == MachineAt(Item(c), c, module_path(c, Line(c)), Line(c), version[c])
  <2>1. e \in MachineInfo
    BY <1>5, ExpandedItem DEF expand_machine, MachineAt, MachineInfo, TypeOK
  <2>2. /\ states' = states
        /\ \/ machines' = upsert(machines, e) /\ Yield(c, Registered)
           \/ machines' = machines /\ Yield(c, Error)
    BY <1>5 DEF expand_machine
  <2> HIDE DEF e
  <2>3. machines' \in Seq(MachineInfo)
    BY <2>1, <2>2, UpsertType DEF TypeOK
  <2> QED BY <1>0, <2>2, <2>3, YieldType DEF TypeOK
<1>6. ASSUME NEW c \in Crates, expand_transition(c) \/ expand_validators(c) PROVE TypeOK'
  <2>1. CurrentIn(machines, c) \subseteq MachineInfo
    BY DEF CurrentIn, Entries, TypeOK
  <2> QED BY <1>0, <1>6, <2>1, Bindings, YieldType DEF TypeOK
<1>7. CASE Restart
  BY <1>7, NothingYet DEF Restart, TypeOK, files
<1>8. CASE UNCHANGED vars
  BY <1>8 DEF vars, TypeOK
<1> QED
  BY <1>1, <1>2, <1>3, <1>4, <1>5, <1>6, <1>7, <1>8 DEF Next, Expand

\* Every variable keeps its type, for any crates and texts: a registration
\* never leaves a hole in a registry, and an impl is bound to a registered
\* machine or refused (pipeline.rs:54-128, lookup.rs:16-30).
THEOREM TypeCorrect == Spec => []TypeOK
  BY InitTypeOK, NextTypeOK, PTL DEF Spec

-----------------------------------------------------------------------------
(* The inductive invariant.                                                *)

StampsPast ==
  /\ \A e \in Entries(states) : e.stamp <= version[e.crate]
  /\ \A m \in Entries(machines) : m.stamp <= version[m.crate]

CurrentMachinesTrue == \A c \in Crates : ~tainted[c] =>
  \A m \in CurrentIn(machines, c) : Describes(m, text[c], c, version[c])

PassIsText == \A c \in Crates : pass[c] # NoPass =>
  /\ Len(outcomes[c]) <= Len(pass[c])
  /\ quiet[c] => pass[c] = text[c]
  /\ ~tainted[c] => quiet[c]

OnceEach == OncePerItem(states) /\ OncePerItem(machines)

FirstPassEntries == \A c \in Crates : Undisturbed(c) /\ clean[c] =>
  /\ CurrentIn(states, c) = DeclaredEnums(text[c], c, version[c], Len(outcomes[c]))
  /\ CurrentIn(machines, c) = DeclaredMachines(text[c], c, version[c], Len(outcomes[c]))

IInv ==
  /\ TypeOK
  /\ StampsPast
  /\ CurrentMachinesTrue
  /\ PassIsText
  /\ OnceEach
  /\ FirstPassEntries
  /\ NoStaleBinding
  /\ FirstPassFollowsTheText

LEMMA InitIInv == Init => IInv
<1> SUFFICES ASSUME Init PROVE IInv
  OBVIOUS
<1>1. Entries(states) = {} /\ Entries(machines) = {}
  BY DEF Init, Entries
<1>2. \A c \in Crates : pass[c] = NoPass
  BY DEF Init
<1> QED
  BY <1>1, <1>2, InitTypeOK
     DEF Init, IInv, StampsPast, CurrentMachinesTrue, PassIsText, OnceEach, OncePerItem,
         FirstPassEntries, NoStaleBinding, FirstPassFollowsTheText, Undisturbed, CurrentIn

-----------------------------------------------------------------------------
(* The steps that expand nothing.                                          *)

\* Whatever was said of a crate that a step leaves alone stays true.
LEMMA CrateUntouched ==
  ASSUME IInv, NEW c \in Crates,
         text'[c] = text[c], version'[c] = version[c], pass'[c] = pass[c],
         outcomes'[c] = outcomes[c], clean'[c] = clean[c], quiet'[c] = quiet[c],
         tainted'[c] = tainted[c],
         CurrentIn(states, c)' = CurrentIn(states, c),
         CurrentIn(machines, c)' = CurrentIn(machines, c)
  PROVE  /\ Undisturbed(c)' /\ clean'[c] =>
              /\ CurrentIn(states, c)' = DeclaredEnums(text'[c], c, version'[c], Len(outcomes'[c]))
              /\ CurrentIn(machines, c)' = DeclaredMachines(text'[c], c, version'[c], Len(outcomes'[c]))
              /\ \A i \in DOMAIN outcomes'[c] :
                   outcomes'[c][i] \in Expected(text'[c], c, version'[c], i)
         /\ Undisturbed(c)' /\ ~tainted'[c] =>
              \A i \in DOMAIN outcomes'[c] : outcomes'[c][i].result = "bound" =>
                Describes(outcomes'[c][i].machine, text'[c], c, version'[c])
         /\ pass'[c] # NoPass =>
              /\ Len(outcomes'[c]) <= Len(pass'[c])
              /\ quiet'[c] => pass'[c] = text'[c]
              /\ ~tainted'[c] => quiet'[c]
<1>1. Undisturbed(c)' <=> Undisturbed(c)
  BY DEF Undisturbed
<1> QED
  BY <1>1 DEF IInv, FirstPassEntries, FirstPassFollowsTheText, NoStaleBinding, PassIsText

\* An edit outdates the entries of its crate and of no other.
LEMMA EditOutdates ==
  ASSUME IInv, NEW c \in Crates, Edit(c)
  PROVE  /\ CurrentIn(states, c)' = {} /\ CurrentIn(machines, c)' = {}
         /\ quiet'[c] = FALSE /\ UNCHANGED <<pass, outcomes>>
         /\ \A d \in Crates \ {c} :
              /\ CurrentIn(states, d)' = CurrentIn(states, d)
              /\ CurrentIn(machines, d)' = CurrentIn(machines, d)
              /\ version'[d] = version[d] /\ text'[d] = text[d] /\ quiet'[d] = quiet[d]
              /\ tainted'[d] = tainted[d]
<1> USE DEF IInv
<1>0. TypeOK /\ TypeOK'
  BY NextTypeOK DEF Next
<1>1. /\ states' = states /\ machines' = machines /\ pass' = pass /\ outcomes' = outcomes
      /\ clean' = clean
      /\ version'[c] = version[c] + 1 /\ quiet'[c] = FALSE
      /\ \A d \in Crates \ {c} :
           /\ version'[d] = version[d] /\ text'[d] = text[d]
           /\ quiet'[d] = quiet[d] /\ tainted'[d] = tainted[d]
      /\ ~tainted'[c] => pass[c] = NoPass
  BY <1>0 DEF Edit, TypeOK, registries
<1>2. ASSUME NEW d \in Crates
      PROVE  version[d] \in Nat /\ version'[d] \in Nat /\ version[d] <= version'[d]
  <2>1. version[d] \in Nat
    BY <1>0, RegistryAssumption DEF TypeOK
  <2> QED BY <1>1, <2>1
<1>3. /\ Entries(states)' = Entries(states) /\ Entries(machines)' = Entries(machines)
      /\ Entries(states) \subseteq EnumInfo /\ Entries(machines) \subseteq MachineInfo
  BY <1>0, <1>1 DEF Entries, TypeOK
<1>4. CurrentIn(states, c)' = {} /\ CurrentIn(machines, c)' = {}
  <2>1. \A e \in Entries(states) \cup Entries(machines) :
          e.crate = c => e.stamp \in Nat /\ e.stamp <= version[c]
    BY <1>3, RegistryAssumption DEF StampsPast, EnumInfo, MachineInfo
  <2>2. \A e \in Entries(states) \cup Entries(machines) : ~is_current(e, c)'
    BY <1>1, <1>2, <2>1 DEF is_current
  <2> QED BY <1>3, <2>2 DEF CurrentIn
<1>5. \A d \in Crates \ {c} :
        CurrentIn(states, d)' = CurrentIn(states, d) /\ CurrentIn(machines, d)' = CurrentIn(machines, d)
  <2>1. \A d \in Crates \ {c} : \A e : is_current(e, d)' <=> is_current(e, d)
    BY <1>1 DEF is_current
  <2> QED BY <1>3, <2>1 DEF CurrentIn
<1> QED BY <1>1, <1>4, <1>5

LEMMA EditKeeps ==
  ASSUME IInv, NEW c \in Crates, Edit(c)
  PROVE  IInv'
<1> USE DEF IInv
<1>0. TypeOK /\ TypeOK'
  BY NextTypeOK DEF Next
<1>1. /\ states' = states /\ machines' = machines /\ pass' = pass /\ outcomes' = outcomes
      /\ clean' = clean
      /\ version'[c] = version[c] + 1 /\ quiet'[c] = FALSE
      /\ \A d \in Crates \ {c} :
           /\ version'[d] = version[d] /\ text'[d] = text[d]
           /\ quiet'[d] = quiet[d] /\ tainted'[d] = tainted[d]
      /\ ~tainted'[c] => pass[c] = NoPass
  BY <1>0 DEF Edit, TypeOK, registries
<1>2. ASSUME NEW d \in Crates
      PROVE  version[d] \in Nat /\ version'[d] \in Nat /\ version[d] <= version'[d]
  <2>1. version[d] \in Nat
    BY <1>0, RegistryAssumption DEF TypeOK
  <2> QED BY <1>1, <2>1
<1>3. /\ Entries(states)' = Entries(states) /\ Entries(machines)' = Entries(machines)
      /\ Entries(states) \subseteq EnumInfo /\ Entries(machines) \subseteq MachineInfo
  BY <1>0, <1>1 DEF Entries, TypeOK
<1>4. StampsPast'
  <2>1. \A e \in EnumInfo \cup MachineInfo : e.crate \in Crates /\ e.stamp \in Nat
    BY RegistryAssumption DEF EnumInfo, MachineInfo
  <2> QED BY <1>2, <1>3, <2>1 DEF StampsPast
<1>5. CurrentIn(states, c)' = {} /\ CurrentIn(machines, c)' = {}
  BY EditOutdates
<1>6. \A d \in Crates \ {c} :
        CurrentIn(states, d)' = CurrentIn(states, d) /\ CurrentIn(machines, d)' = CurrentIn(machines, d)
  BY EditOutdates
<1>7. CurrentMachinesTrue'
  BY <1>1, <1>5, <1>6 DEF CurrentMachinesTrue
<1>8. OnceEach'
  BY <1>1 DEF OnceEach
<1>9. ~Undisturbed(c)'
  BY <1>1 DEF Undisturbed
<1>10. PassIsText'
  BY <1>1, <1>6, CrateUntouched DEF PassIsText
<1>11. FirstPassEntries'
  BY <1>1, <1>6, <1>9, CrateUntouched DEF FirstPassEntries
<1>12. FirstPassFollowsTheText'
  BY <1>1, <1>6, <1>9, CrateUntouched DEF FirstPassFollowsTheText
<1>13. NoStaleBinding'
  BY <1>1, <1>6, <1>9, CrateUntouched DEF NoStaleBinding
<1> QED
  BY <1>0, <1>4, <1>7, <1>8, <1>10, <1>11, <1>12, <1>13

\* The registries and the files are as they were.
LEMMA SameCurrent ==
  ASSUME UNCHANGED <<states, machines, version>>, NEW c
  PROVE  /\ CurrentIn(states, c)' = CurrentIn(states, c)
         /\ CurrentIn(machines, c)' = CurrentIn(machines, c)
  BY DEF CurrentIn, Entries, is_current

LEMMA StartPassKeeps ==
  ASSUME IInv, NEW c \in Crates, StartPass(c)
  PROVE  IInv'
<1> USE DEF IInv
<1>0. TypeOK /\ TypeOK'
  BY NextTypeOK DEF Next
<1>1. /\ UNCHANGED <<text, version, states, machines, tainted>>
      /\ pass'[c] = text[c] /\ outcomes'[c] = <<>> /\ quiet'[c] = TRUE
      /\ clean'[c] = NothingCurrent(c)
      /\ \A d \in Crates \ {c} : /\ pass'[d] = pass[d] /\ outcomes'[d] = outcomes[d]
                                 /\ clean'[d] = clean[d] /\ quiet'[d] = quiet[d]
  BY <1>0 DEF StartPass, TypeOK, registries, files
<1>2. \A d \in Crates : /\ CurrentIn(states, d)' = CurrentIn(states, d)
                        /\ CurrentIn(machines, d)' = CurrentIn(machines, d)
  BY <1>1, SameCurrent
<1>3. Len(outcomes'[c]) = 0 /\ DOMAIN outcomes'[c] = {}
  BY <1>1
<1>4. clean'[c] => CurrentIn(states, c) = {} /\ CurrentIn(machines, c) = {}
  BY <1>1 DEF NothingCurrent, CurrentIn, Entries
<1>5. \A t, v : DeclaredEnums(t, c, v, 0) = {} /\ DeclaredMachines(t, c, v, 0) = {}
  BY DEF DeclaredEnums, DeclaredMachines
<1>6. StampsPast' /\ OnceEach'
  BY <1>1 DEF StampsPast, OnceEach, Entries
<1>7. CurrentMachinesTrue'
  BY <1>1, <1>2 DEF CurrentMachinesTrue
<1>8. PassIsText'
  <2>1. Len(pass'[c]) \in Nat
    BY <1>0, <1>1, RegistryAssumption DEF TypeOK
  <2> QED BY <1>1, <1>2, <1>3, <2>1, CrateUntouched DEF PassIsText
<1>9. FirstPassEntries'
  BY <1>1, <1>2, <1>3, <1>4, <1>5, CrateUntouched DEF FirstPassEntries
<1>10. FirstPassFollowsTheText'
  BY <1>1, <1>2, <1>3, CrateUntouched DEF FirstPassFollowsTheText
<1>11. NoStaleBinding'
  BY <1>1, <1>2, <1>3, CrateUntouched DEF NoStaleBinding
<1> QED
  BY <1>0, <1>6, <1>7, <1>8, <1>9, <1>10, <1>11

LEMMA EndPassKeeps ==
  ASSUME IInv, NEW c \in Crates, EndPass(c)
  PROVE  IInv'
<1> USE DEF IInv
<1>0. TypeOK /\ TypeOK'
  BY NextTypeOK DEF Next
<1>1. /\ UNCHANGED <<text, version, states, machines, clean, quiet, tainted>>
      /\ pass'[c] = NoPass
      /\ \A d \in Crates \ {c} : pass'[d] = pass[d] /\ outcomes'[d] = outcomes[d]
  BY <1>0 DEF EndPass, TypeOK, registries, files
<1>2. \A d \in Crates : /\ CurrentIn(states, d)' = CurrentIn(states, d)
                        /\ CurrentIn(machines, d)' = CurrentIn(machines, d)
  BY <1>1, SameCurrent
<1>3. ~Undisturbed(c)'
  BY <1>1 DEF Undisturbed
<1>4. StampsPast' /\ OnceEach'
  BY <1>1 DEF StampsPast, OnceEach, Entries
<1>5. CurrentMachinesTrue'
  BY <1>1, <1>2 DEF CurrentMachinesTrue
<1>6. PassIsText'
  BY <1>1, <1>2, CrateUntouched DEF PassIsText
<1>7. FirstPassEntries'
  BY <1>1, <1>2, <1>3, CrateUntouched DEF FirstPassEntries
<1>8. FirstPassFollowsTheText'
  BY <1>1, <1>2, <1>3, CrateUntouched DEF FirstPassFollowsTheText
<1>9. NoStaleBinding'
  BY <1>1, <1>2, <1>3, CrateUntouched DEF NoStaleBinding
<1> QED
  BY <1>0, <1>4, <1>5, <1>6, <1>7, <1>8, <1>9

LEMMA RestartKeeps ==
  ASSUME IInv, Restart
  PROVE  IInv'
<1>1. TypeOK'
  BY NextTypeOK DEF Next, IInv
<1>2. states' = <<>> /\ machines' = <<>> /\ Entries(states)' = {} /\ Entries(machines)' = {}
  BY DEF Restart, Entries
<1>3. \A c \in Crates : pass'[c] = NoPass /\ ~Undisturbed(c)'
  BY DEF Restart, Undisturbed
<1> QED
  BY <1>1, <1>2, <1>3
     DEF IInv, StampsPast, CurrentMachinesTrue, PassIsText, OnceEach, OncePerItem,
         FirstPassEntries, NoStaleBinding, FirstPassFollowsTheText, CurrentIn

-----------------------------------------------------------------------------
(* The steps that expand an item.                                          *)

\* What one more line declares.
LEMMA DeclaredNext ==
  ASSUME NEW t, NEW c, NEW v, NEW n \in Nat
  PROVE  /\ t[n + 1].kind = "state" =>
              DeclaredEnums(t, c, v, n + 1) = DeclaredEnums(t, c, v, n) \cup
                {EnumAt(t[n + 1], c, t[n + 1].module, n + 1, v)}
         /\ t[n + 1].kind # "state" =>
              DeclaredEnums(t, c, v, n + 1) = DeclaredEnums(t, c, v, n)
         /\ t[n + 1].kind = "machine" /\ FitsIn(t[n + 1], DeclaredEnums(t, c, v, n)) =>
              DeclaredMachines(t, c, v, n + 1) = DeclaredMachines(t, c, v, n) \cup
                {MachineAt(t[n + 1], c, t[n + 1].module, n + 1, v)}
         /\ ~(t[n + 1].kind = "machine" /\ FitsIn(t[n + 1], DeclaredEnums(t, c, v, n))) =>
              DeclaredMachines(t, c, v, n + 1) = DeclaredMachines(t, c, v, n)
         /\ \A e \in DeclaredEnums(t, c, v, n) : e.line # n + 1
         /\ \A m \in DeclaredMachines(t, c, v, n) : m.line # n + 1
<1>1. 1 .. (n + 1) = (1 .. n) \cup {n + 1} /\ n + 1 \notin 1 .. n /\ (n + 1) - 1 = n
  OBVIOUS
<1>2. \A e \in DeclaredEnums(t, c, v, n) : e.line \in 1 .. n
  BY DEF DeclaredEnums, EnumAt
<1>3. \A m \in DeclaredMachines(t, c, v, n) : m.line \in 1 .. n
  BY DEF DeclaredMachines, MachineAt
<1> DEFINE enum == {j \in 1 .. n : t[j].kind = "state"}
           machine == {j \in 1 .. n : /\ t[j].kind = "machine"
                                      /\ FitsIn(t[j], DeclaredEnums(t, c, v, j - 1))}
<1>4. {j \in 1 .. (n + 1) : t[j].kind = "state"}
        = IF t[n + 1].kind = "state" THEN enum \cup {n + 1} ELSE enum
  BY <1>1
<1>5. {j \in 1 .. (n + 1) : /\ t[j].kind = "machine"
                            /\ FitsIn(t[j], DeclaredEnums(t, c, v, j - 1))}
        = IF t[n + 1].kind = "machine" /\ FitsIn(t[n + 1], DeclaredEnums(t, c, v, n))
          THEN machine \cup {n + 1} ELSE machine
  BY <1>1
<1>6. /\ DeclaredEnums(t, c, v, n) = {EnumAt(t[i], c, t[i].module, i, v) : i \in enum}
      /\ DeclaredMachines(t, c, v, n) = {MachineAt(t[i], c, t[i].module, i, v) : i \in machine}
  BY DEF DeclaredEnums, DeclaredMachines
<1> HIDE DEF enum, machine
<1>7. /\ t[n + 1].kind = "state" =>
           DeclaredEnums(t, c, v, n + 1) = DeclaredEnums(t, c, v, n) \cup
             {EnumAt(t[n + 1], c, t[n + 1].module, n + 1, v)}
      /\ t[n + 1].kind # "state" => DeclaredEnums(t, c, v, n + 1) = DeclaredEnums(t, c, v, n)
  BY <1>4, <1>6 DEF DeclaredEnums
<1>8. /\ t[n + 1].kind = "machine" /\ FitsIn(t[n + 1], DeclaredEnums(t, c, v, n)) =>
           DeclaredMachines(t, c, v, n + 1) = DeclaredMachines(t, c, v, n) \cup
             {MachineAt(t[n + 1], c, t[n + 1].module, n + 1, v)}
      /\ ~(t[n + 1].kind = "machine" /\ FitsIn(t[n + 1], DeclaredEnums(t, c, v, n))) =>
           DeclaredMachines(t, c, v, n + 1) = DeclaredMachines(t, c, v, n)
  BY <1>5, <1>6 DEF DeclaredMachines
<1> QED
  BY <1>1, <1>2, <1>3, <1>7, <1>8

\* What a registration does to the entries a lookup sees.
LEMMA RegisterCurrent ==
  ASSUME NEW T, NEW R \in Seq(T), OncePerItem(R), NEW c, NEW e \in T,
         e.crate = c, e.stamp = version[c]
  PROVE  /\ OncePerItem(upsert(R, e))
         /\ Entries(upsert(R, e)) \subseteq Entries(R) \cup {e}
         /\ CurrentIn(upsert(R, e), c) = {x \in CurrentIn(R, c) : ~same_loaded(x, e)} \cup {e}
         /\ \A d : d # c => CurrentIn(upsert(R, e), d) = CurrentIn(R, d)
<1>1. /\ OncePerItem(upsert(R, e))
      /\ Entries(upsert(R, e)) = {x \in Entries(R) : ~same_loaded(x, e)} \cup {e}
  BY UpsertEntries
<1>2. is_current(e, c)
  BY DEF is_current
<1>3. CurrentIn(upsert(R, e), c) = {x \in CurrentIn(R, c) : ~same_loaded(x, e)} \cup {e}
  BY <1>1, <1>2 DEF CurrentIn
<1>4. ASSUME NEW d, d # c PROVE CurrentIn(upsert(R, e), d) = CurrentIn(R, d)
  <2>1. \A x : is_current(x, d) => ~same_loaded(x, e) /\ x # e
    BY <1>4 DEF is_current, same_loaded
  <2> QED BY <1>1, <2>1 DEF CurrentIn
<1> QED
  BY <1>1, <1>3, <1>4

\* An expansion step that is right about its own line keeps everything.
LEMMA ExpandKeeps ==
  ASSUME IInv, TypeOK', NEW c \in Crates, NEW o \in Outcomes, Yield(c, o),
         pass[c] # NoPass, Line(c) \in DOMAIN pass[c],
         StampsPast', OnceEach', CurrentMachinesTrue',
         \A d \in Crates \ {c} : /\ CurrentIn(states, d)' = CurrentIn(states, d)
                                 /\ CurrentIn(machines, d)' = CurrentIn(machines, d),
         Undisturbed(c) /\ clean[c] =>
           /\ CurrentIn(states, c)' = DeclaredEnums(text[c], c, version[c], Line(c))
           /\ CurrentIn(machines, c)' = DeclaredMachines(text[c], c, version[c], Line(c))
           /\ o \in Expected(text[c], c, version[c], Line(c)),
         Undisturbed(c) /\ ~tainted[c] /\ o.result = "bound" =>
           Describes(o.machine, text[c], c, version[c])
  PROVE  IInv'
<1> USE DEF IInv
<1>1. /\ UNCHANGED <<text, version, pass, clean, quiet, tainted>>
      /\ outcomes'[c] = Append(outcomes[c], o)
      /\ \A d \in Crates \ {c} : outcomes'[d] = outcomes[d]
  BY YieldType
<1>2. outcomes[c] \in Seq(Outcomes) /\ Line(c) = Len(outcomes[c]) + 1
  BY DEF TypeOK, Line
<1>3. /\ Len(outcomes'[c]) = Line(c)
      /\ DOMAIN outcomes'[c] = DOMAIN outcomes[c] \cup {Line(c)}
      /\ \A i \in DOMAIN outcomes[c] : outcomes'[c][i] = outcomes[c][i]
      /\ outcomes'[c][Line(c)] = o
  BY <1>1, <1>2
<1>4. Line(c) <= Len(pass[c])
  BY RegistryAssumption DEF TypeOK
<1>5. Undisturbed(c)' <=> Undisturbed(c)
  BY <1>1 DEF Undisturbed
<1>6. PassIsText'
  BY <1>1, <1>3, <1>4, CrateUntouched DEF PassIsText
<1>7. FirstPassEntries'
  BY <1>1, <1>3, <1>5, CrateUntouched DEF FirstPassEntries
<1>8. FirstPassFollowsTheText'
  BY <1>1, <1>3, <1>5, CrateUntouched DEF FirstPassFollowsTheText
<1>9. NoStaleBinding'
  BY <1>1, <1>3, <1>5, CrateUntouched DEF NoStaleBinding
<1> QED
  BY <1>6, <1>7, <1>8, <1>9

\* In an undisturbed expansion the item and its module are the text's.
LEMMA ItemOfText ==
  ASSUME IInv, NEW c \in Crates, NEW kind, Expands(c, kind)
  PROVE  /\ pass[c] # NoPass /\ Line(c) \in DOMAIN pass[c]
         /\ Undisturbed(c) =>
              /\ Line(c) \in DOMAIN text[c]
              /\ Item(c) = text[c][Line(c)]
              /\ text[c][Line(c)].kind = kind
              /\ module_path(c, Line(c)) = text[c][Line(c)].module
  BY DEF IInv, PassIsText, Undisturbed, Expands, Item, module_path

LEMMA expand_state_Keeps ==
  ASSUME IInv, NEW c \in Crates, expand_state(c)
  PROVE  IInv'
<1> USE DEF IInv
<1>0. TypeOK /\ TypeOK'
  BY NextTypeOK DEF Next, Expand
<1> DEFINE e == EnumAt(Item(c), c, module_path(c, Line(c)), Line(c), version[c])
           n == Len(outcomes[c])
<1>1. e \in EnumInfo /\ e.crate = c /\ e.stamp = version[c] /\ e.line = Line(c)
  BY <1>0, ExpandedItem DEF expand_state, EnumAt, EnumInfo, TypeOK
<1>2. /\ states' = upsert(states, e) /\ machines' = machines /\ Yield(c, Registered)
      /\ Expands(c, "state")
  BY DEF expand_state
<1>3. UNCHANGED <<text, version, tainted>>
  BY <1>2 DEF Yield, files
<1>4. Line(c) = n + 1 /\ n \in Nat
  BY <1>0 DEF Line, TypeOK
<1>5. Undisturbed(c) => e = EnumAt(text[c][n + 1], c, text[c][n + 1].module, n + 1, version[c])
                        /\ text[c][n + 1].kind = "state"
  BY <1>2, <1>4, ItemOfText
<1> HIDE DEF e, n
<1>6. /\ OncePerItem(states')
      /\ Entries(states') \subseteq Entries(states) \cup {e}
      /\ CurrentIn(states', c) = {x \in CurrentIn(states, c) : ~same_loaded(x, e)} \cup {e}
      /\ \A d \in Crates \ {c} : CurrentIn(states', d) = CurrentIn(states, d)
  <2>1. states \in Seq(EnumInfo) /\ OncePerItem(states)
    BY <1>0 DEF TypeOK, OnceEach
  <2>2. /\ OncePerItem(upsert(states, e))
        /\ Entries(upsert(states, e)) \subseteq Entries(states) \cup {e}
        /\ CurrentIn(upsert(states, e), c)
             = {x \in CurrentIn(states, c) : ~same_loaded(x, e)} \cup {e}
        /\ \A d : d # c => CurrentIn(upsert(states, e), d) = CurrentIn(states, d)
    <3> HIDE DEF IInv
    <3> QED BY <1>1, <2>1, RegisterCurrent
  <2> QED BY <1>2, <2>2
<1>7. \A d : /\ CurrentIn(states, d)' = CurrentIn(states', d)
             /\ CurrentIn(machines, d)' = CurrentIn(machines, d)
  BY <1>2, <1>3 DEF CurrentIn, Entries, is_current
<1>8. StampsPast'
  <2>1. version[c] \in Nat
    BY <1>0, RegistryAssumption DEF TypeOK
  <2> QED BY <1>1, <1>2, <1>3, <1>6, <2>1 DEF StampsPast, Entries
<1>9. OnceEach'
  BY <1>2, <1>6 DEF OnceEach
<1>10. CurrentMachinesTrue'
  BY <1>3, <1>7 DEF CurrentMachinesTrue
<1>11. ASSUME Undisturbed(c), clean[c]
       PROVE  /\ CurrentIn(states, c)' = DeclaredEnums(text[c], c, version[c], Line(c))
              /\ CurrentIn(machines, c)' = DeclaredMachines(text[c], c, version[c], Line(c))
              /\ Registered \in Expected(text[c], c, version[c], Line(c))
  <2>1. /\ CurrentIn(states, c) = DeclaredEnums(text[c], c, version[c], n)
        /\ CurrentIn(machines, c) = DeclaredMachines(text[c], c, version[c], n)
    BY <1>11 DEF FirstPassEntries, n
  <2>2. /\ DeclaredEnums(text[c], c, version[c], n + 1)
             = DeclaredEnums(text[c], c, version[c], n) \cup {e}
        /\ DeclaredMachines(text[c], c, version[c], n + 1)
             = DeclaredMachines(text[c], c, version[c], n)
        /\ \A x \in DeclaredEnums(text[c], c, version[c], n) : x.line # n + 1
    <3> DEFINE t == text[c]
               v == version[c]
    <3>1. t[n + 1].kind = "state" /\ e = EnumAt(t[n + 1], c, t[n + 1].module, n + 1, v)
      BY <1>5, <1>11
    <3> HIDE DEF IInv, t, v
    <3>2. /\ DeclaredEnums(t, c, v, n + 1) = DeclaredEnums(t, c, v, n) \cup {e}
          /\ DeclaredMachines(t, c, v, n + 1) = DeclaredMachines(t, c, v, n)
          /\ \A x \in DeclaredEnums(t, c, v, n) : x.line # n + 1
      BY <1>4, <3>1, DeclaredNext
    <3> QED BY <3>2 DEF t, v
  <2>3. \A x \in CurrentIn(states, c) : ~same_loaded(x, e)
    BY <1>1, <1>4, <2>1, <2>2 DEF same_loaded
  <2>4. Registered \in Expected(text[c], c, version[c], Line(c))
    BY <1>4, <1>5, <1>11 DEF Expected
  <2> QED BY <1>4, <1>6, <1>7, <2>1, <2>2, <2>3, <2>4
<1>12. Registered \in Outcomes /\ Registered.result # "bound"
  BY DEF Registered, Outcomes
<1> QED
  BY <1>0, <1>2, <1>6, <1>7, <1>8, <1>9, <1>10, <1>11, <1>12, ItemOfText, ExpandKeeps

\* A machine is registered when it fits the enums on record.
LEMMA MachineFits ==
  ASSUME NEW R, OncePerItem(R), NEW c, NEW item, NEW mod, item.module = mod
  PROVE  {e \in unique(R, candidates(R, c, mod, item.of)) : item.derives \subseteq e.derives} # {}
           <=> FitsIn(item, CurrentIn(R, c))
<1> DEFINE S == InModule(Named(CurrentIn(R, c), item.of), mod)
<1>1. unique(R, candidates(R, c, mod, item.of)) = Only(S)
  BY UniqueFound
<1>2. {x \in CurrentIn(R, c) : x.module = item.module /\ x.name = item.of} = S
  BY DEF InModule, Named
<1>3. FitsIn(item, CurrentIn(R, c)) <=>
        \E e \in CurrentIn(R, c) : S = {e} /\ item.derives \subseteq e.derives
  BY <1>2 DEF FitsIn
<1>4. S \subseteq CurrentIn(R, c)
  BY DEF InModule, Named
<1> HIDE DEF S
<1> QED
  BY <1>1, <1>3, <1>4 DEF Only

LEMMA expand_machine_Keeps ==
  ASSUME IInv, NEW c \in Crates, expand_machine(c)
  PROVE  IInv'
<1> USE DEF IInv
<1>0. TypeOK /\ TypeOK'
  BY NextTypeOK DEF Next, Expand
<1> DEFINE mod == module_path(c, Line(c))
           e == MachineAt(Item(c), c, mod, Line(c), version[c])
           enums == {x \in unique(states, candidates(states, c, mod, Item(c).of)) :
                       Item(c).derives \subseteq x.derives}
           n == Len(outcomes[c])
           fits == FitsIn(text[c][n + 1], DeclaredEnums(text[c], c, version[c], n))
<1>1. e \in MachineInfo /\ e.crate = c /\ e.stamp = version[c] /\ e.line = Line(c)
  BY <1>0, ExpandedItem DEF expand_machine, MachineAt, MachineInfo, TypeOK
<1>2. /\ Expands(c, "machine")
      /\ states' = states
      /\ \/ enums # {} /\ machines' = upsert(machines, e) /\ Yield(c, Registered)
         \/ enums = {} /\ machines' = machines /\ Yield(c, Error)
  BY DEF expand_machine
<1>3. UNCHANGED <<text, version, tainted>>
  BY <1>2 DEF Yield, files
<1>4. Line(c) = n + 1 /\ n \in Nat
  BY <1>0 DEF Line, TypeOK
<1>5. Undisturbed(c) =>
        /\ e = MachineAt(text[c][n + 1], c, text[c][n + 1].module, n + 1, version[c])
        /\ text[c][n + 1].kind = "machine"
        /\ n + 1 \in DOMAIN text[c]
  BY <1>2, <1>4, ItemOfText
<1>6. ~tainted[c] => Undisturbed(c)
  BY <1>2, ItemOfText DEF PassIsText, Undisturbed
<1>7. Undisturbed(c) /\ clean[c] =>
        /\ CurrentIn(states, c) = DeclaredEnums(text[c], c, version[c], n)
        /\ CurrentIn(machines, c) = DeclaredMachines(text[c], c, version[c], n)
        /\ enums # {} <=> fits
  <2>1. OncePerItem(states)
    BY DEF OnceEach
  <2>2. Undisturbed(c) => (enums # {} <=> FitsIn(text[c][n + 1], CurrentIn(states, c)))
    <3>1. Undisturbed(c) => text[c][n + 1].module = mod /\ text[c][n + 1] = Item(c)
      BY <1>2, <1>4, ItemOfText
    <3> HIDE DEF IInv, mod, n
    <3>2. Item(c).module = mod => (enums # {} <=> FitsIn(Item(c), CurrentIn(states, c)))
      BY <2>1, MachineFits
    <3> HIDE DEF enums
    <3> QED BY <3>1, <3>2
  <2> HIDE DEF enums
  <2> QED BY <2>2 DEF FirstPassEntries
<1> HIDE DEF enums, fits
<1>8. Undisturbed(c) /\ clean[c] =>
        /\ DeclaredEnums(text[c], c, version[c], n + 1) = DeclaredEnums(text[c], c, version[c], n)
        /\ fits => DeclaredMachines(text[c], c, version[c], n + 1)
                     = DeclaredMachines(text[c], c, version[c], n) \cup {e}
        /\ ~fits => DeclaredMachines(text[c], c, version[c], n + 1)
                      = DeclaredMachines(text[c], c, version[c], n)
        /\ \A x \in DeclaredMachines(text[c], c, version[c], n) : x.line # n + 1
        /\ (IF fits THEN Registered ELSE Error) \in Expected(text[c], c, version[c], n + 1)
  <2> SUFFICES ASSUME Undisturbed(c)
      PROVE  /\ DeclaredEnums(text[c], c, version[c], n + 1)
                  = DeclaredEnums(text[c], c, version[c], n)
             /\ fits => DeclaredMachines(text[c], c, version[c], n + 1)
                          = DeclaredMachines(text[c], c, version[c], n) \cup {e}
             /\ ~fits => DeclaredMachines(text[c], c, version[c], n + 1)
                           = DeclaredMachines(text[c], c, version[c], n)
             /\ \A x \in DeclaredMachines(text[c], c, version[c], n) : x.line # n + 1
             /\ (IF fits THEN Registered ELSE Error) \in Expected(text[c], c, version[c], n + 1)
    OBVIOUS
  <2> DEFINE t == text[c]
             v == version[c]
  <2>1. t[n + 1].kind = "machine" /\ e = MachineAt(t[n + 1], c, t[n + 1].module, n + 1, v)
    BY <1>5
  <2>2. fits <=> FitsIn(t[n + 1], DeclaredEnums(t, c, v, n))
    BY DEF fits
  <2> HIDE DEF IInv, t, v, e, n
  <2>3. /\ DeclaredEnums(t, c, v, n + 1) = DeclaredEnums(t, c, v, n)
        /\ fits => DeclaredMachines(t, c, v, n + 1) = DeclaredMachines(t, c, v, n) \cup {e}
        /\ ~fits => DeclaredMachines(t, c, v, n + 1) = DeclaredMachines(t, c, v, n)
        /\ \A x \in DeclaredMachines(t, c, v, n) : x.line # n + 1
    BY <1>4, <2>1, <2>2, DeclaredNext
  <2>4. (IF fits THEN Registered ELSE Error) \in Expected(t, c, v, n + 1)
    <3>1. (n + 1) - 1 = n
      BY <1>4
    <3> QED BY <2>1, <2>2, <3>1 DEF Expected
  <2> QED BY <2>3, <2>4 DEF t, v
<1>9. \A d : /\ CurrentIn(states, d)' = CurrentIn(states, d)
             /\ CurrentIn(machines, d)' = CurrentIn(machines', d)
  BY <1>2, <1>3 DEF CurrentIn, Entries, is_current
<1>10. Registered \in Outcomes /\ Error \in Outcomes
       /\ Registered.result # "bound" /\ Error.result # "bound"
  BY DEF Registered, Error, Outcomes
<1>11. CASE enums = {}
  <2>1. machines' = machines /\ Yield(c, Error)
    BY <1>2, <1>11
  <2>2. StampsPast' /\ OnceEach' /\ CurrentMachinesTrue'
    BY <1>2, <1>3, <1>9, <2>1 DEF StampsPast, OnceEach, Entries, CurrentMachinesTrue
  <2>3. Undisturbed(c) /\ clean[c] =>
          /\ CurrentIn(states, c)' = DeclaredEnums(text[c], c, version[c], Line(c))
          /\ CurrentIn(machines, c)' = DeclaredMachines(text[c], c, version[c], Line(c))
          /\ Error \in Expected(text[c], c, version[c], Line(c))
    BY <1>4, <1>7, <1>8, <1>9, <1>11, <2>1
  <2> QED
    BY <1>0, <1>2, <1>9, <1>10, <2>1, <2>2, <2>3, ItemOfText, ExpandKeeps
<1>12. CASE enums # {}
  <2>1. machines' = upsert(machines, e) /\ Yield(c, Registered)
    BY <1>2, <1>12
  <2>2. /\ OncePerItem(machines')
        /\ Entries(machines') \subseteq Entries(machines) \cup {e}
        /\ CurrentIn(machines', c) = {x \in CurrentIn(machines, c) : ~same_loaded(x, e)} \cup {e}
        /\ \A d : d # c => CurrentIn(machines', d) = CurrentIn(machines, d)
    <3>1. machines \in Seq(MachineInfo) /\ OncePerItem(machines)
      BY <1>0 DEF TypeOK, OnceEach
    <3> HIDE DEF IInv, e
    <3>2. /\ OncePerItem(upsert(machines, e))
          /\ Entries(upsert(machines, e)) \subseteq Entries(machines) \cup {e}
          /\ CurrentIn(upsert(machines, e), c)
               = {x \in CurrentIn(machines, c) : ~same_loaded(x, e)} \cup {e}
          /\ \A d : d # c => CurrentIn(upsert(machines, e), d) = CurrentIn(machines, d)
      BY <1>1, <3>1, RegisterCurrent
    <3> QED BY <2>1, <3>2
  <2>3. StampsPast'
    <3>1. version[c] \in Nat
      BY <1>0, RegistryAssumption DEF TypeOK
    <3> HIDE DEF e
    <3> QED BY <1>1, <1>2, <1>3, <2>2, <3>1 DEF StampsPast, Entries
  <2>4. OnceEach'
    BY <1>2, <2>2 DEF OnceEach
  <2>5. CurrentMachinesTrue'
    <3>1. ~tainted[c] => Describes(e, text[c], c, version[c])
      BY <1>1, <1>4, <1>5, <1>6 DEF Describes
    <3> HIDE DEF e
    <3> QED BY <1>3, <1>9, <2>2, <3>1 DEF CurrentMachinesTrue
  <2>6. Undisturbed(c) /\ clean[c] =>
          /\ CurrentIn(states, c)' = DeclaredEnums(text[c], c, version[c], Line(c))
          /\ CurrentIn(machines, c)' = DeclaredMachines(text[c], c, version[c], Line(c))
          /\ Registered \in Expected(text[c], c, version[c], Line(c))
    <3> SUFFICES ASSUME Undisturbed(c), clean[c]
        PROVE  /\ CurrentIn(states, c)' = DeclaredEnums(text[c], c, version[c], Line(c))
               /\ CurrentIn(machines, c)' = DeclaredMachines(text[c], c, version[c], Line(c))
               /\ Registered \in Expected(text[c], c, version[c], Line(c))
      OBVIOUS
    <3> HIDE DEF e, IInv, n
    <3>1. \A x \in CurrentIn(machines, c) : ~same_loaded(x, e)
      BY <1>1, <1>4, <1>7, <1>8 DEF same_loaded
    <3> QED BY <1>4, <1>7, <1>8, <1>9, <1>12, <2>2, <3>1
  <2> HIDE DEF e
  <2> QED
    BY <1>0, <1>2, <1>9, <1>10, <2>1, <2>2, <2>3, <2>4, <2>5, <2>6, ItemOfText, ExpandKeeps
<1> QED
  BY <1>11, <1>12

\* An impl that is bound or refused, as the rules would have it.
LEMMA ImplKeeps ==
  ASSUME IInv, NEW c \in Crates, NEW kind \in {"transition", "validators"}, Expands(c, kind),
         expand_transition(c) \/ expand_validators(c),
         NEW bound, Resolve(c, bound), bound \subseteq CurrentIn(machines, c),
         Undisturbed(c) /\ clean[c] => bound = Meant(text[c], c, version[c], Line(c))
  PROVE  IInv'
<1> USE DEF IInv
<1>0. TypeOK /\ TypeOK'
  BY NextTypeOK DEF Next, Expand
<1>1. PICK o : /\ Yield(c, o)
               /\ \/ \E m \in bound : o = Bound(m)
                  \/ bound = {} /\ o = Error
  BY DEF Resolve
<1>2. UNCHANGED <<states, machines, text, version, tainted>>
  BY <1>1 DEF Resolve, registries, Yield, files
<1>3. \A d : /\ CurrentIn(states, d)' = CurrentIn(states, d)
             /\ CurrentIn(machines, d)' = CurrentIn(machines, d)
  BY <1>2, SameCurrent
<1>4. o \in Outcomes
  <2>1. bound \subseteq MachineInfo
    BY <1>0 DEF CurrentIn, Entries, TypeOK
  <2> QED BY <1>1, <2>1 DEF Bound, Error, Outcomes
<1>5. StampsPast' /\ OnceEach' /\ CurrentMachinesTrue'
  BY <1>2, <1>3 DEF StampsPast, OnceEach, Entries, CurrentMachinesTrue
<1>6. ASSUME Undisturbed(c), clean[c]
      PROVE  /\ CurrentIn(states, c)' = DeclaredEnums(text[c], c, version[c], Line(c))
             /\ CurrentIn(machines, c)' = DeclaredMachines(text[c], c, version[c], Line(c))
             /\ o \in Expected(text[c], c, version[c], Line(c))
  <2> DEFINE t == text[c]
             v == version[c]
             n == Len(outcomes[c])
  <2>1. Line(c) = n + 1 /\ n \in Nat /\ t[n + 1].kind = kind
    BY <1>0, <1>6, ItemOfText DEF Line, TypeOK
  <2>2. /\ CurrentIn(states, c) = DeclaredEnums(t, c, v, n)
        /\ CurrentIn(machines, c) = DeclaredMachines(t, c, v, n)
    BY <1>6 DEF FirstPassEntries
  <2>3. bound = Meant(t, c, v, n + 1)
    BY <1>6, <2>1
  <2> HIDE DEF IInv, t, v, n
  <2>4. /\ DeclaredEnums(t, c, v, n + 1) = DeclaredEnums(t, c, v, n)
        /\ DeclaredMachines(t, c, v, n + 1) = DeclaredMachines(t, c, v, n)
    BY <2>1, DeclaredNext
  <2>5. o \in Expected(t, c, v, n + 1)
    BY <1>1, <2>1, <2>3 DEF Expected
  <2> QED BY <1>3, <2>1, <2>2, <2>4, <2>5 DEF t, v
<1>7. Undisturbed(c) /\ ~tainted[c] /\ o.result = "bound" =>
        Describes(o.machine, text[c], c, version[c])
  BY <1>1 DEF CurrentMachinesTrue, Bound, Error
<1> QED
  BY <1>0, <1>1, <1>3, <1>4, <1>5, <1>6, <1>7, ItemOfText, ExpandKeeps

LEMMA expand_transition_Keeps ==
  ASSUME IInv, NEW c \in Crates, expand_transition(c)
  PROVE  IInv'
<1> DEFINE own == candidates(machines, c, module_path(c, Line(c)), Item(c).name)
           named == candidates_by_name(machines, c, Item(c).name)
           found == IF own = {} THEN named ELSE own
           bound == {m \in unique(machines, found) :
                       \E e \in matching_state_enum(c, m) : Item(c).variants \subseteq e.variants}
<1>1. Expands(c, "transition") /\ Resolve(c, bound)
  BY DEF expand_transition
<1>2. bound \subseteq CurrentIn(machines, c)
  BY UniqueIsCurrent
<1>3. ASSUME Undisturbed(c), clean[c]
      PROVE  bound = Meant(text[c], c, version[c], Line(c))
  <2> DEFINE t == text[c]
             v == version[c]
             n == Len(outcomes[c])
             item == t[n + 1]
             Ms == Named(DeclaredMachines(t, c, v, n), item.name)
             Own == InModule(Ms, item.module)
             Found == IF Own = {} THEN Ms ELSE Own
             Enums(m) == InModule(Named(DeclaredEnums(t, c, v, n), m.of), m.module)
  <2>1. /\ Line(c) = n + 1 /\ n \in Nat /\ item = Item(c) /\ item.kind = "transition"
        /\ module_path(c, Line(c)) = item.module
    BY <1>1, <1>3, ItemOfText DEF Line, IInv, TypeOK
  <2>2. /\ CurrentIn(states, c) = DeclaredEnums(t, c, v, n)
        /\ CurrentIn(machines, c) = DeclaredMachines(t, c, v, n)
    BY <1>3 DEF IInv, FirstPassEntries
  <2>3. OncePerItem(states) /\ OncePerItem(machines)
    BY DEF IInv, OnceEach
  <2>4. unique(machines, found) = Only(Found)
    <3> DEFINE ms == CurrentIn(machines, c)
               name == Item(c).name
               mod == module_path(c, Line(c))
    <3>1. /\ unique(machines, own) = Only(InModule(Named(ms, name), mod))
          /\ unique(machines, named) = Only(Named(ms, name))
          /\ own = {} <=> InModule(Named(ms, name), mod) = {}
      BY <2>3, UniqueFound
    <3>2. InModule(Named(ms, name), mod) = Own /\ Named(ms, name) = Ms
      BY <2>1, <2>2
    <3> HIDE DEF own, named, Own, Ms, ms, name, mod
    <3> QED BY <3>1, <3>2
  <2>5. \A m : matching_state_enum(c, m) = Only(Enums(m))
    <3>1. \A mod, name : unique(states, candidates(states, c, mod, name))
                           = Only(InModule(Named(CurrentIn(states, c), name), mod))
      BY <2>3, UniqueFound
    <3> QED BY <2>2, <3>1 DEF matching_state_enum
  <2>8. Meant(t, c, v, n + 1) =
          {m \in Found : Found = {m} /\ \E e \in Enums(m) : /\ Enums(m) = {e}
                                                            /\ item.variants \subseteq e.variants}
    <3>1. (n + 1) - 1 = n
      BY <2>1
    <3> HIDE DEF t, v, n
    <3>2. Meant(t, c, v, n + 1) =
            LET alike == {m \in DeclaredMachines(t, c, v, n) : m.name = t[n + 1].name}
                near == {m \in alike : m.module = t[n + 1].module}
                seen == IF near = {} THEN alike ELSE near
                enums(m) == {e \in DeclaredEnums(t, c, v, n) : e.module = m.module /\ e.name = m.of}
            IN  {m \in seen : seen = {m} /\ \E e \in enums(m) : /\ enums(m) = {e}
                                                                  /\ item.variants \subseteq e.variants}
      BY <2>1, <3>1 DEF Meant
    <3> QED BY <3>2 DEF InModule, Named
  <2> HIDE DEF Found, Enums, found
  <2>9. bound = Meant(t, c, v, n + 1)
    BY <2>1, <2>4, <2>5, <2>8 DEF Only
  <2> QED BY <2>1, <2>9
<1> HIDE DEF bound
<1> QED
  BY <1>1, <1>2, <1>3, ImplKeeps

LEMMA expand_validators_Keeps ==
  ASSUME IInv, NEW c \in Crates, expand_validators(c)
  PROVE  IInv'
<1> DEFINE found == candidates(machines, c, Item(c).module, Item(c).name)
           bound == {m \in unique(machines, found) :
                       \E e \in matching_state_enum(c, m) : Item(c).variants = e.variants}
<1>1. Expands(c, "validators") /\ Resolve(c, bound)
  BY DEF expand_validators
<1>2. bound \subseteq CurrentIn(machines, c)
  BY UniqueIsCurrent
<1>3. ASSUME Undisturbed(c), clean[c]
      PROVE  bound = Meant(text[c], c, version[c], Line(c))
  <2> DEFINE t == text[c]
             v == version[c]
             n == Len(outcomes[c])
             item == t[n + 1]
             Own == InModule(Named(DeclaredMachines(t, c, v, n), item.name), item.module)
             Enums(m) == InModule(Named(DeclaredEnums(t, c, v, n), m.of), m.module)
  <2>1. /\ Line(c) = n + 1 /\ n \in Nat /\ item = Item(c) /\ item.kind = "validators"
    BY <1>1, <1>3, ItemOfText DEF Line, IInv, TypeOK
  <2>2. /\ CurrentIn(states, c) = DeclaredEnums(t, c, v, n)
        /\ CurrentIn(machines, c) = DeclaredMachines(t, c, v, n)
    BY <1>3 DEF IInv, FirstPassEntries
  <2>3. OncePerItem(states) /\ OncePerItem(machines)
    BY DEF IInv, OnceEach
  <2>4. unique(machines, found) = Only(Own)
    <3> DEFINE ms == CurrentIn(machines, c)
               name == Item(c).name
               mod == Item(c).module
    <3>1. unique(machines, found) = Only(InModule(Named(ms, name), mod))
      BY <2>3, UniqueFound
    <3>2. InModule(Named(ms, name), mod) = Own
      BY <2>1, <2>2
    <3> QED BY <3>1, <3>2
  <2>5. \A m : matching_state_enum(c, m) = Only(Enums(m))
    <3>1. \A mod, name : unique(states, candidates(states, c, mod, name))
                           = Only(InModule(Named(CurrentIn(states, c), name), mod))
      BY <2>3, UniqueFound
    <3> QED BY <2>2, <3>1 DEF matching_state_enum
  <2>6. Meant(t, c, v, n + 1) =
          {m \in Own : Own = {m} /\ \E e \in Enums(m) : /\ Enums(m) = {e}
                                                        /\ item.variants = e.variants}
    <3>1. (n + 1) - 1 = n
      BY <2>1
    <3> HIDE DEF t, v, n
    <3>2. Meant(t, c, v, n + 1) =
            LET named == {m \in DeclaredMachines(t, c, v, n) : m.name = t[n + 1].name}
                own == {m \in named : m.module = t[n + 1].module}
                enums(m) == {e \in DeclaredEnums(t, c, v, n) : e.module = m.module /\ e.name = m.of}
            IN  {m \in own : own = {m} /\ \E e \in enums(m) : /\ enums(m) = {e}
                                                              /\ item.variants = e.variants}
      BY <2>1, <3>1 DEF Meant
    <3> QED BY <3>2 DEF InModule, Named
  <2> HIDE DEF Own, Enums, found
  <2>7. bound = Meant(t, c, v, n + 1)
    BY <2>1, <2>4, <2>5, <2>6 DEF Only
  <2> QED BY <2>1, <2>7
<1> HIDE DEF bound
<1> QED
  BY <1>1, <1>2, <1>3, ImplKeeps

-----------------------------------------------------------------------------
LEMMA NextIInv == IInv /\ [Next]_vars => IInv'
<1> SUFFICES ASSUME IInv, [Next]_vars PROVE IInv'
  OBVIOUS
<1>1. ASSUME NEW c \in Crates, Edit(c) PROVE IInv'
  BY <1>1, EditKeeps
<1>2. ASSUME NEW c \in Crates, StartPass(c) PROVE IInv'
  BY <1>2, StartPassKeeps
<1>3. ASSUME NEW c \in Crates, Expand(c) PROVE IInv'
  BY <1>3, expand_state_Keeps, expand_machine_Keeps, expand_transition_Keeps,
     expand_validators_Keeps DEF Expand
<1>4. ASSUME NEW c \in Crates, EndPass(c) PROVE IInv'
  BY <1>4, EndPassKeeps
<1>5. CASE Restart
  BY <1>5, RestartKeeps
<1>6. CASE UNCHANGED vars
  BY <1>6, NextTypeOK
     DEF vars, IInv, StampsPast, CurrentMachinesTrue, PassIsText, OnceEach, FirstPassEntries,
         NoStaleBinding, FirstPassFollowsTheText, Undisturbed, CurrentIn, Entries, is_current
<1> QED
  BY <1>1, <1>2, <1>3, <1>4, <1>5, <1>6 DEF Next

THEOREM Inductive == Spec => []IInv
  BY InitIInv, NextIInv, PTL DEF Spec

\* Whatever a process has served before, and whatever other crates it serves,
\* the first expansion of an unchanging text resolves every item as the text
\* says: for all texts, of any length and any number of modules (pipeline.rs:54-128,
\* lookup.rs:16-30, machine/mod.rs:33-116).
THEOREM FirstPassFollowsTheTextHolds == Spec => []FirstPassFollowsTheText
<1>1. IInv => FirstPassFollowsTheText
  BY DEF IInv
<1> QED
  BY <1>1, Inductive, PTL

\* Unless the last edit of its file came under an expansion of it, an impl is
\* only ever bound to a machine its text still has, as the text has it,
\* whatever edits and other crates the process has seen (registry.rs:57-71).
THEOREM NoStaleBindingHolds == Spec => []NoStaleBinding
<1>1. IInv => NoStaleBinding
  BY DEF IInv
<1> QED
  BY <1>1, Inductive, PTL

-----------------------------------------------------------------------------
(* Expanding a text again.                                                 *)
(*                                                                         *)
(* What a process has registered before stays current as long as the text  *)
(* does: the entries a second expansion finds may be of lines it has not   *)
(* come to.  They all describe the text.  A machine whose enums all stand  *)
(* above it is on record, once the expansion has passed it, exactly when   *)
(* it fits them; and an item that is settled looks up no other entries.    *)

\* e is the enum at its line in the text.
DescribesEnum(e, t, c, v) ==
  /\ e.line \in DOMAIN t
  /\ t[e.line].kind = "state"
  /\ e = EnumAt(t[e.line], c, t[e.line].module, e.line, v)

EnumsOf(E, t, c, v) == \A e \in E : DescribesEnum(e, t, c, v)
MachinesOf(M, t, c, v) == \A m \in M : Describes(m, t, c, v)

\* A machine with its enums above it is on record only if it fits them.
FitOnes(M, t, c, v) ==
  \A m \in M : EnumsAbove(t, m.line) => FitsIn(t[m.line], DeclaredEnums(t, c, v, m.line - 1))

\* What the first n lines declare is there, as far as it can be told from them.
Behind(E, M, t, c, v, n) ==
  /\ DeclaredEnums(t, c, v, n) \subseteq E
  /\ \A m \in DeclaredMachines(t, c, v, n) : EnumsAbove(t, m.line) => m \in M

\* What AgainTheSame says of one outcome.
AsExpected(o, t, c, v, i) == Settled(t, c, v, i) => o \in Expected(t, c, v, i)

AgainIn(c) == ~tainted[c] =>
  /\ EnumsOf(CurrentIn(states, c), text[c], c, version[c])
  /\ FitOnes(CurrentIn(machines, c), text[c], c, version[c])
  /\ Undisturbed(c) =>
       /\ Behind(CurrentIn(states, c), CurrentIn(machines, c), text[c], c, version[c],
                 Len(outcomes[c]))
       /\ \A i \in DOMAIN outcomes[c] : AsExpected(outcomes[c][i], text[c], c, version[c], i)

AgainInv == \A c \in Crates : AgainIn(c)

\* A line declares an enum, or a machine, of its own number.
LEMMA DeclaredLines ==
  ASSUME NEW t, NEW c, NEW v, NEW n
  PROVE  /\ \A k \in 1 .. n : t[k].kind = "state" =>
              EnumAt(t[k], c, t[k].module, k, v) \in DeclaredEnums(t, c, v, n)
         /\ \A k \in 1 .. n :
              t[k].kind = "machine" /\ FitsIn(t[k], DeclaredEnums(t, c, v, k - 1)) =>
                MachineAt(t[k], c, t[k].module, k, v) \in DeclaredMachines(t, c, v, n)
         /\ \A m \in DeclaredMachines(t, c, v, n) :
              /\ m.line \in 1 .. n /\ t[m.line].kind = "machine"
              /\ m = MachineAt(t[m.line], c, t[m.line].module, m.line, v)
<1>1. \A k \in 1 .. n : t[k].kind = "state" =>
        EnumAt(t[k], c, t[k].module, k, v) \in DeclaredEnums(t, c, v, n)
  BY DEF DeclaredEnums
<1> DEFINE machine == {j \in 1 .. n : /\ t[j].kind = "machine"
                                      /\ FitsIn(t[j], DeclaredEnums(t, c, v, j - 1))}
<1>2. DeclaredMachines(t, c, v, n) = {MachineAt(t[i], c, t[i].module, i, v) : i \in machine}
  BY DEF DeclaredMachines
<1>3. \A k \in machine : k \in 1 .. n /\ t[k].kind = "machine"
  OBVIOUS
<1>4. \A k : MachineAt(t[k], c, t[k].module, k, v).line = k
  BY DEF MachineAt
<1>5. \A k \in 1 .. n : t[k].kind = "machine" /\ FitsIn(t[k], DeclaredEnums(t, c, v, k - 1)) =>
        k \in machine
  OBVIOUS
<1> HIDE DEF machine
<1> QED BY <1>1, <1>2, <1>3, <1>4, <1>5

\* When every enum a machine could name stands above it, the registry holds
\* those and no others.
LEMMA SameEnums ==
  ASSUME NEW t \in Seq(Items), NEW c, NEW v, NEW n \in Nat \ {0}, NEW E,
         EnumsOf(E, t, c, v), DeclaredEnums(t, c, v, n - 1) \subseteq E,
         NEW j \in 1 .. n, EnumsAbove(t, j)
  PROVE  InModule(Named(E, t[j].of), t[j].module)
           = InModule(Named(DeclaredEnums(t, c, v, n - 1), t[j].of), t[j].module)
<1>1. ASSUME NEW x \in InModule(Named(E, t[j].of), t[j].module)
      PROVE  x \in DeclaredEnums(t, c, v, n - 1)
  <2>1. /\ x.line \in DOMAIN t /\ t[x.line].kind = "state"
        /\ x = EnumAt(t[x.line], c, t[x.line].module, x.line, v)
        /\ x.name = t[j].of /\ x.module = t[j].module
    BY DEF InModule, Named, EnumsOf, DescribesEnum
  <2>2. t[x.line].name = t[j].of /\ t[x.line].module = t[j].module
    BY <2>1 DEF EnumAt
  <2>3. x.line < j
    BY <2>1, <2>2 DEF EnumsAbove
  <2>4. x.line \in 1 .. (n - 1)
    BY <2>1, <2>3
  <2> QED BY <2>1, <2>4, DeclaredLines
<1> QED BY <1>1 DEF InModule, Named

\* Such a machine fits the enums on record just when it fits those above it.
LEMMA SameFit ==
  ASSUME NEW t \in Seq(Items), NEW c, NEW v, NEW n \in Nat \ {0}, NEW E,
         EnumsOf(E, t, c, v), DeclaredEnums(t, c, v, n - 1) \subseteq E, EnumsAbove(t, n)
  PROVE  FitsIn(t[n], E) <=> FitsIn(t[n], DeclaredEnums(t, c, v, n - 1))
<1> DEFINE S == InModule(Named(E, t[n].of), t[n].module)
           D == DeclaredEnums(t, c, v, n - 1)
<1>1. S = InModule(Named(D, t[n].of), t[n].module)
  BY SameEnums
<1>2. /\ {x \in E : x.module = t[n].module /\ x.name = t[n].of} = S
      /\ {x \in D : x.module = t[n].module /\ x.name = t[n].of} = S
  BY <1>1 DEF InModule, Named
<1>3. S \subseteq E /\ S \subseteq D
  BY <1>2
<1> HIDE DEF S, D
<1>4. FitsIn(t[n], E) <=> \E e \in S : S = {e} /\ t[n].derives \subseteq e.derives
  BY <1>2, <1>3 DEF FitsIn
<1>5. FitsIn(t[n], D) <=> \E e \in S : S = {e} /\ t[n].derives \subseteq e.derives
  BY <1>2, <1>3 DEF FitsIn
<1> QED BY <1>4, <1>5 DEF D

\* The machines of these modules that the impl at line n names are settled.
SettledIn(t, n, mods) ==
  \A j \in DOMAIN t : t[j].kind = "machine" /\ t[j].name = t[n].name /\ t[j].module \in mods
                         => j < n /\ EnumsAbove(t, j)

\* The machines on record that a settled impl may choose from are those that
\* the lines above it declare.
LEMMA SameMachines ==
  ASSUME NEW t \in Seq(Items), NEW c, NEW v, NEW n \in DOMAIN t, NEW E, NEW M,
         MachinesOf(M, t, c, v), FitOnes(M, t, c, v), Behind(E, M, t, c, v, n - 1),
         NEW mods, SettledIn(t, n, mods),
         NEW m, m.name = t[n].name, m.module \in mods
  PROVE  /\ m \in M <=> m \in DeclaredMachines(t, c, v, n - 1)
         /\ m \in M => /\ m.line \in 1 .. n /\ EnumsAbove(t, m.line)
                       /\ t[m.line].of = m.of /\ t[m.line].module = m.module
<1> USE DEF SettledIn
<1>1. ASSUME m \in M
      PROVE  /\ m \in DeclaredMachines(t, c, v, n - 1)
             /\ m.line \in 1 .. n /\ EnumsAbove(t, m.line)
             /\ t[m.line].of = m.of /\ t[m.line].module = m.module
  <2>1. /\ m.line \in DOMAIN t /\ t[m.line].kind = "machine"
        /\ m = MachineAt(t[m.line], c, t[m.line].module, m.line, v)
    BY <1>1 DEF MachinesOf, Describes
  <2>2. t[m.line].name = m.name /\ t[m.line].of = m.of /\ t[m.line].module = m.module
    BY <2>1 DEF MachineAt
  <2>3. m.line < n /\ EnumsAbove(t, m.line)
    BY <2>1, <2>2
  <2>4. m.line \in 1 .. (n - 1) /\ m.line \in 1 .. n
    BY <2>1, <2>3
  <2>5. FitsIn(t[m.line], DeclaredEnums(t, c, v, m.line - 1))
    BY <1>1, <2>3 DEF FitOnes
  <2> QED BY <2>1, <2>2, <2>3, <2>4, <2>5, DeclaredLines
<1>2. ASSUME m \in DeclaredMachines(t, c, v, n - 1) PROVE m \in M
  <2>1. /\ m.line \in 1 .. (n - 1) /\ t[m.line].kind = "machine"
        /\ m = MachineAt(t[m.line], c, t[m.line].module, m.line, v)
    BY <1>2, DeclaredLines
  <2>2. t[m.line].name = m.name /\ t[m.line].module = m.module
    BY <2>1 DEF MachineAt
  <2>3. m.line \in DOMAIN t
    BY <2>1
  <2> QED BY <1>2, <2>1, <2>2, <2>3 DEF Behind
<1> QED BY <1>1, <1>2

\* The machines of a set that the impl at line i looks at, and the enums of a
\* set that the machine m names.
Seen(t, D, i) ==
  LET own == InModule(Named(D, t[i].name), t[i].module)
  IN  IF own = {} /\ t[i].kind = "transition" THEN Named(D, t[i].name) ELSE own
EnumsFor(D, m) == InModule(Named(D, m.of), m.module)
Agrees(item, e) == IF item.kind = "transition" THEN item.variants \subseteq e.variants
                                               ELSE item.variants = e.variants

LEMMA MeantIsSeen ==
  ASSUME NEW t, NEW c, NEW v, NEW i
  PROVE  Meant(t, c, v, i) =
           {m \in Only(Seen(t, DeclaredMachines(t, c, v, i - 1), i)) :
              \E e \in Only(EnumsFor(DeclaredEnums(t, c, v, i - 1), m)) : Agrees(t[i], e)}
<1> DEFINE Ms == DeclaredMachines(t, c, v, i - 1)
           Es == DeclaredEnums(t, c, v, i - 1)
           found == Seen(t, Ms, i)
           enums(m) == EnumsFor(Es, m)
<1>1. Meant(t, c, v, i) =
        {m \in found : found = {m} /\ \E e \in enums(m) : enums(m) = {e} /\ Agrees(t[i], e)}
  BY DEF Meant, Seen, EnumsFor, Agrees, Named, InModule
<1> HIDE DEF Ms, Es
<1> QED BY <1>1 DEF Only, Ms, Es

\* A settled impl sees the machines and the enums of the lines above it.
LEMMA SettledSees ==
  ASSUME NEW t \in Seq(Items), NEW c, NEW v, NEW n \in DOMAIN t, NEW E, NEW M,
         t[n].kind \in {"transition", "validators"},
         EnumsOf(E, t, c, v), MachinesOf(M, t, c, v), FitOnes(M, t, c, v),
         Behind(E, M, t, c, v, n - 1), Settled(t, c, v, n)
  PROVE  /\ Seen(t, M, n) = Seen(t, DeclaredMachines(t, c, v, n - 1), n)
         /\ \A m \in Seen(t, M, n) :
              EnumsFor(E, m) = EnumsFor(DeclaredEnums(t, c, v, n - 1), m)
<1> DEFINE Ms == DeclaredMachines(t, c, v, n - 1)
           own == InModule(Named(Ms, t[n].name), t[n].module)
           mods == IF own = {} /\ t[n].kind = "transition" THEN Modules ELSE {t[n].module}
<1>0. n \in Nat \ {0} /\ \A j \in DOMAIN t : t[j].module \in Modules
  <2>1. \A j \in DOMAIN t : t[j] \in Items
    OBVIOUS
  <2> QED BY <2>1 DEF Items
<1>1. SettledIn(t, n, mods)
  BY DEF Settled, Rivals, Named, InModule, SettledIn
<1>2. \A m : m.name = t[n].name /\ m.module \in mods =>
        /\ m \in M <=> m \in Ms
        /\ m \in M => /\ m.line \in 1 .. n /\ EnumsAbove(t, m.line)
                      /\ t[m.line].of = m.of /\ t[m.line].module = m.module
  <2> SUFFICES ASSUME NEW m, m.name = t[n].name, m.module \in mods
      PROVE  /\ m \in M <=> m \in Ms
             /\ m \in M => /\ m.line \in 1 .. n /\ EnumsAbove(t, m.line)
                           /\ t[m.line].of = m.of /\ t[m.line].module = m.module
    OBVIOUS
  <2> HIDE DEF mods
  <2> QED BY <1>1, SameMachines
<1>3. t[n].module \in mods
  BY <1>0
<1>4. /\ \A m \in M : m.module \in Modules
      /\ \A m \in Ms : m.module \in Modules
  <2>1. \A m \in M : m.line \in DOMAIN t /\ m.module = t[m.line].module
    BY DEF MachinesOf, Describes, MachineAt
  <2>2. \A m \in Ms : m.line \in 1 .. (n - 1) /\ m.module = t[m.line].module
    BY DeclaredLines DEF MachineAt
  <2>3. \A m \in Ms : m.line \in DOMAIN t
    BY <2>2
  <2> QED BY <1>0, <2>1, <2>2, <2>3
<1> HIDE DEF Ms
<1>5. InModule(Named(M, t[n].name), t[n].module) = own
  BY <1>2, <1>3 DEF InModule, Named
<1>6. Seen(t, M, n) = Seen(t, Ms, n)
  <2>1. CASE own = {} /\ t[n].kind = "transition"
    <3>1. Named(M, t[n].name) = Named(Ms, t[n].name)
      BY <1>2, <1>4, <2>1 DEF Named
    <3> QED BY <1>5, <2>1, <3>1 DEF Seen
  <2>2. CASE ~(own = {} /\ t[n].kind = "transition")
    BY <1>5, <2>2 DEF Seen
  <2> QED BY <2>1, <2>2
<1>7. ASSUME NEW m \in Seen(t, M, n)
      PROVE  EnumsFor(E, m) = EnumsFor(DeclaredEnums(t, c, v, n - 1), m)
  <2>1. m \in M /\ m.name = t[n].name /\ m.module \in mods
    BY <1>4, <1>5 DEF Seen, Named, InModule
  <2>2. /\ m.line \in 1 .. n /\ EnumsAbove(t, m.line)
        /\ t[m.line].of = m.of /\ t[m.line].module = m.module
    BY <1>2, <2>1
  <2>3. DeclaredEnums(t, c, v, n - 1) \subseteq E
    BY DEF Behind
  <2>4. InModule(Named(E, t[m.line].of), t[m.line].module)
          = InModule(Named(DeclaredEnums(t, c, v, n - 1), t[m.line].of), t[m.line].module)
    BY <1>0, <2>2, <2>3, SameEnums
  <2> QED BY <2>2, <2>4 DEF EnumsFor
<1> QED BY <1>6, <1>7 DEF Ms

\* A step that leaves a crate alone, or what is said of it without need.
LEMMA AgainUntouched ==
  ASSUME NEW c \in Crates, AgainIn(c),
         UNCHANGED <<text[c], version[c], tainted[c]>>,
         CurrentIn(states, c)' = CurrentIn(states, c),
         CurrentIn(machines, c)' = CurrentIn(machines, c),
         ~Undisturbed(c)' \/ UNCHANGED <<pass[c], outcomes[c], quiet[c]>>
  PROVE  AgainIn(c)'
BY DEF AgainIn, Undisturbed, Behind

LEMMA AgainQuietSteps ==
  ASSUME IInv, AgainInv,
         \/ \E c \in Crates : Edit(c) \/ StartPass(c) \/ EndPass(c)
         \/ Restart \/ UNCHANGED vars
  PROVE  AgainInv'
<1>1. ASSUME NEW c \in Crates, Edit(c) PROVE AgainInv'
  <2>1. /\ CurrentIn(states, c)' = {} /\ CurrentIn(machines, c)' = {} /\ quiet'[c] = FALSE
        /\ UNCHANGED <<pass, outcomes>>
        /\ \A d \in Crates \ {c} :
             /\ CurrentIn(states, d)' = CurrentIn(states, d)
             /\ CurrentIn(machines, d)' = CurrentIn(machines, d)
             /\ UNCHANGED <<text[d], version[d], quiet[d], tainted[d]>>
    BY <1>1, EditOutdates
  <2>2. AgainIn(c)'
    BY <2>1 DEF AgainIn, Undisturbed, EnumsOf, FitOnes
  <2>3. ASSUME NEW d \in Crates \ {c} PROVE AgainIn(d)'
    BY <2>1, AgainUntouched DEF AgainInv
  <2> QED BY <2>2, <2>3 DEF AgainInv
<1>2. ASSUME NEW c \in Crates, StartPass(c) PROVE AgainInv'
  <2>1. /\ UNCHANGED <<text, version, states, machines, tainted>> /\ outcomes'[c] = <<>>
        /\ \A d \in Crates \ {c} : UNCHANGED <<pass[d], outcomes[d], quiet[d]>>
    BY <1>2 DEF StartPass, IInv, TypeOK, registries, files
  <2>2. \A d \in Crates : /\ CurrentIn(states, d)' = CurrentIn(states, d)
                          /\ CurrentIn(machines, d)' = CurrentIn(machines, d)
    BY <2>1, SameCurrent
  <2>3. AgainIn(c)'
    <3>1. \A t, v : DeclaredEnums(t, c, v, 0) = {} /\ DeclaredMachines(t, c, v, 0) = {}
      BY DEF DeclaredEnums, DeclaredMachines
    <3>2. Behind(CurrentIn(states, c), CurrentIn(machines, c), text[c], c, version[c],
                 Len(outcomes[c]))'
      BY <2>1, <3>1 DEF Behind
    <3>3. DOMAIN outcomes'[c] = {}
      BY <2>1
    <3>4. AgainIn(c)
      BY DEF AgainInv
    <3> QED BY <2>1, <2>2, <3>2, <3>3, <3>4 DEF AgainIn
  <2>4. ASSUME NEW d \in Crates \ {c} PROVE AgainIn(d)'
    BY <2>1, <2>2, AgainUntouched DEF AgainInv
  <2> QED BY <2>3, <2>4 DEF AgainInv
<1>3. ASSUME NEW c \in Crates, EndPass(c) PROVE AgainInv'
  <2>1. /\ UNCHANGED <<text, version, states, machines, tainted, quiet>> /\ ~Undisturbed(c)'
        /\ \A d \in Crates \ {c} : UNCHANGED <<pass[d], outcomes[d]>>
    BY <1>3 DEF EndPass, IInv, TypeOK, registries, files, Undisturbed
  <2>2. \A d \in Crates : /\ CurrentIn(states, d)' = CurrentIn(states, d)
                          /\ CurrentIn(machines, d)' = CurrentIn(machines, d)
    BY <2>1, SameCurrent
  <2> QED BY <2>1, <2>2, AgainUntouched DEF AgainInv
<1>4. CASE Restart
  <2>1. \A c \in Crates : /\ CurrentIn(states, c)' = {} /\ CurrentIn(machines, c)' = {}
                          /\ ~Undisturbed(c)'
    BY <1>4 DEF Restart, CurrentIn, Entries, Undisturbed
  <2> QED BY <2>1 DEF AgainInv, AgainIn, EnumsOf, FitOnes
<1>5. CASE UNCHANGED vars
  <2>1. UNCHANGED <<text, version, states, machines, pass, outcomes, quiet, tainted>>
    BY <1>5 DEF vars, files, registries
  <2> QED BY <2>1, SameCurrent, AgainUntouched DEF AgainInv
<1> QED BY <1>1, <1>2, <1>3, <1>4, <1>5

\* An expansion whose outcome is as expected, with its declaration on record.
LEMMA AgainExpand ==
  ASSUME IInv, AgainInv, NEW c \in Crates, NEW o, Yield(c, o),
         \A d \in Crates \ {c} : /\ CurrentIn(states, d)' = CurrentIn(states, d)
                                 /\ CurrentIn(machines, d)' = CurrentIn(machines, d),
         ~tainted[c] =>
           /\ Undisturbed(c)
           /\ EnumsOf(CurrentIn(states, c)', text[c], c, version[c])
           /\ FitOnes(CurrentIn(machines, c)', text[c], c, version[c])
           /\ Behind(CurrentIn(states, c)', CurrentIn(machines, c)', text[c], c, version[c], Line(c))
           /\ AsExpected(o, text[c], c, version[c], Line(c))
  PROVE  AgainInv'
<1>1. /\ UNCHANGED <<text, version, pass, quiet, tainted>>
      /\ outcomes'[c] = Append(outcomes[c], o) /\ outcomes[c] \in Seq(Outcomes)
      /\ \A d \in Crates \ {c} : outcomes'[d] = outcomes[d]
  BY DEF Yield, IInv, TypeOK, files
<1>2. ASSUME NEW d \in Crates \ {c} PROVE AgainIn(d)'
  BY <1>1, AgainUntouched DEF AgainInv
<1>3. AgainIn(c)'
  <2> SUFFICES ASSUME ~tainted[c]
      PROVE  /\ Behind(CurrentIn(states, c), CurrentIn(machines, c), text[c], c, version[c],
                       Len(outcomes[c]))'
             /\ \A i \in DOMAIN outcomes'[c] :
                  AsExpected(outcomes'[c][i], text[c], c, version[c], i)
    BY <1>1 DEF AgainIn
  <2>1. /\ Len(outcomes'[c]) = Line(c) /\ DOMAIN outcomes'[c] = DOMAIN outcomes[c] \cup {Line(c)}
        /\ outcomes'[c][Line(c)] = o
        /\ \A i \in DOMAIN outcomes[c] : outcomes'[c][i] = outcomes[c][i]
    BY <1>1 DEF Line
  <2>2. \A i \in DOMAIN outcomes[c] : AsExpected(outcomes[c][i], text[c], c, version[c], i)
    BY DEF AgainInv, AgainIn
  <2> QED BY <1>1, <2>1, <2>2
<1> QED BY <1>2, <1>3 DEF AgainInv

\* What an expansion starts from, when no edit came under it.
LEMMA AgainStart ==
  ASSUME IInv, AgainInv, NEW c \in Crates, NEW kind, Expands(c, kind), ~tainted[c]
  PROVE  /\ Undisturbed(c)
         /\ EnumsOf(CurrentIn(states, c), text[c], c, version[c])
         /\ MachinesOf(CurrentIn(machines, c), text[c], c, version[c])
         /\ FitOnes(CurrentIn(machines, c), text[c], c, version[c])
         /\ Behind(CurrentIn(states, c), CurrentIn(machines, c), text[c], c, version[c], Line(c) - 1)
         /\ text[c] \in Seq(Items)
         /\ Line(c) \in Nat \ {0} /\ Line(c) \in DOMAIN text[c]
         /\ Item(c) = text[c][Line(c)] /\ text[c][Line(c)].kind = kind
         /\ module_path(c, Line(c)) = text[c][Line(c)].module
<1>1. Undisturbed(c)
  BY ItemOfText DEF IInv, PassIsText, Undisturbed
<1>2. Line(c) \in Nat \ {0} /\ Line(c) - 1 = Len(outcomes[c])
  BY DEF IInv, TypeOK, Line
<1>3. text[c] \in Seq(Items)
  BY RegistryAssumption DEF IInv, TypeOK
<1> QED
  BY <1>1, <1>2, <1>3, ItemOfText DEF AgainInv, AgainIn, IInv, CurrentMachinesTrue, MachinesOf

\* The entries behind a line, when it has been expanded.
LEMMA BehindNext ==
  ASSUME NEW t, NEW c, NEW v, NEW n \in Nat \ {0}, NEW E, NEW M, NEW E2, NEW M2,
         Behind(E, M, t, c, v, n - 1),
         \A x \in E : x.line # n => x \in E2, \A x \in M : x.line # n => x \in M2,
         t[n].kind = "state" => EnumAt(t[n], c, t[n].module, n, v) \in E2,
         /\ t[n].kind = "machine" /\ EnumsAbove(t, n)
         /\ FitsIn(t[n], DeclaredEnums(t, c, v, n - 1))
         => MachineAt(t[n], c, t[n].module, n, v) \in M2
  PROVE  Behind(E2, M2, t, c, v, n)
<1>1. PICK k \in Nat : n = k + 1
  BY n - 1 \in Nat
<1>2. k = n - 1
  BY <1>1
<1>3. /\ DeclaredEnums(t, c, v, k) \subseteq E2
      /\ \A m \in DeclaredMachines(t, c, v, k) : EnumsAbove(t, m.line) => m \in M2
  <2>1. /\ \A e \in DeclaredEnums(t, c, v, k) : e.line # k + 1
        /\ \A m \in DeclaredMachines(t, c, v, k) : m.line # k + 1
    BY DeclaredNext
  <2> QED BY <1>1, <1>2, <2>1 DEF Behind
<1>4. DeclaredEnums(t, c, v, k + 1) \subseteq E2
  BY <1>1, <1>3, DeclaredNext
<1>5. \A m \in DeclaredMachines(t, c, v, k + 1) : EnumsAbove(t, m.line) => m \in M2
  <2>1. MachineAt(t[n], c, t[n].module, n, v).line = n
    BY DEF MachineAt
  <2> QED BY <1>1, <1>2, <1>3, <2>1, DeclaredNext
<1> QED BY <1>1, <1>4, <1>5 DEF Behind

LEMMA AgainState ==
  ASSUME IInv, AgainInv, NEW c \in Crates, expand_state(c) PROVE AgainInv'
<1> DEFINE e == EnumAt(Item(c), c, module_path(c, Line(c)), Line(c), version[c])
<1>1. /\ Expands(c, "state") /\ states' = upsert(states, e) /\ machines' = machines
      /\ Yield(c, Registered) /\ UNCHANGED <<version, tainted>>
  BY DEF expand_state, Yield, files
<1>2. e \in EnumInfo /\ e.crate = c /\ e.stamp = version[c] /\ e.line = Line(c)
  BY <1>1, ExpandedItem DEF EnumAt, EnumInfo, IInv, TypeOK
<1>3. ~tainted[c] => e = EnumAt(text[c][Line(c)], c, text[c][Line(c)].module, Line(c), version[c])
  BY <1>1, AgainStart
<1> HIDE DEF e
<1>4. /\ CurrentIn(upsert(states, e), c)
           = {x \in CurrentIn(states, c) : ~same_loaded(x, e)} \cup {e}
      /\ \A d : d # c => CurrentIn(upsert(states, e), d) = CurrentIn(states, d)
  <2>1. states \in Seq(EnumInfo) /\ OncePerItem(states)
    BY DEF IInv, TypeOK, OnceEach
  <2> QED BY <1>2, <2>1, RegisterCurrent
<1>5. \A d : /\ CurrentIn(states, d)' = CurrentIn(upsert(states, e), d)
             /\ CurrentIn(machines, d)' = CurrentIn(machines, d)
  BY <1>1 DEF CurrentIn, Entries, is_current
<1>6. /\ e \in CurrentIn(states, c)'
      /\ CurrentIn(states, c)' \subseteq CurrentIn(states, c) \cup {e}
      /\ \A x \in CurrentIn(states, c) : x.line # Line(c) => x \in CurrentIn(states, c)'
  BY <1>2, <1>4, <1>5 DEF same_loaded
<1>7. ASSUME ~tainted[c]
      PROVE  /\ EnumsOf(CurrentIn(states, c)', text[c], c, version[c])
             /\ FitOnes(CurrentIn(machines, c)', text[c], c, version[c])
  <2>1. DescribesEnum(e, text[c], c, version[c])
    BY <1>1, <1>2, <1>3, <1>7, AgainStart DEF DescribesEnum
  <2> QED BY <1>1, <1>5, <1>6, <1>7, <2>1, AgainStart DEF EnumsOf
<1>8. ASSUME ~tainted[c]
      PROVE  Behind(CurrentIn(states, c)', CurrentIn(machines, c)', text[c], c, version[c], Line(c))
  <2> DEFINE E == CurrentIn(states, c)
             E2 == CurrentIn(states, c)'
             M == CurrentIn(machines, c)
             M2 == CurrentIn(machines, c)'
             t == text[c]
             v == version[c]
             n == Line(c)
  <2>1. Behind(E, M, t, c, v, n - 1) /\ n \in Nat \ {0} /\ t[n].kind = "state"
    BY <1>1, <1>8, AgainStart
  <2>2. /\ \A x \in E : x.line # n => x \in E2
        /\ \A x \in M : x.line # n => x \in M2
        /\ EnumAt(t[n], c, t[n].module, n, v) \in E2
    BY <1>3, <1>5, <1>6, <1>8
  <2> HIDE DEF E, E2, M, M2, t, v, n
  <2>3. Behind(E2, M2, t, c, v, n)
    BY <2>1, <2>2, BehindNext
  <2> QED BY <2>3 DEF E2, M2, t, v, n
<1>9. ~tainted[c] => AsExpected(Registered, text[c], c, version[c], Line(c))
  BY <1>1, AgainStart DEF AsExpected, Expected
<1> QED
  BY <1>1, <1>4, <1>5, <1>7, <1>8, <1>9, AgainStart, AgainExpand

LEMMA AgainMachine ==
  ASSUME IInv, AgainInv, NEW c \in Crates, expand_machine(c) PROVE AgainInv'
<1> DEFINE mod == module_path(c, Line(c))
           e == MachineAt(Item(c), c, mod, Line(c), version[c])
           enums == {x \in unique(states, candidates(states, c, mod, Item(c).of)) :
                       Item(c).derives \subseteq x.derives}
           E == CurrentIn(states, c)
           M == CurrentIn(machines, c)
           M2 == CurrentIn(machines, c)'
           t == text[c]
           v == version[c]
           n == Line(c)
<1>1. PICK o : /\ Expands(c, "machine") /\ states' = states /\ Yield(c, o)
               /\ \/ enums # {} /\ machines' = upsert(machines, e) /\ o = Registered
                  \/ enums = {} /\ machines' = machines /\ o = Error
               /\ UNCHANGED <<version, tainted>>
  BY DEF expand_machine, Yield, files
<1>2. e \in MachineInfo /\ e.crate = c /\ e.stamp = version[c] /\ e.line = n
  BY <1>1, ExpandedItem DEF MachineAt, MachineInfo, IInv, TypeOK
<1>3. ~tainted[c] => /\ e = MachineAt(t[n], c, t[n].module, n, v)
                     /\ (enums # {} <=> FitsIn(t[n], E))
  <2>1. ~tainted[c] => Item(c) = t[n] /\ Item(c).module = mod
    BY <1>1, AgainStart
  <2>2. OncePerItem(states)
    BY DEF IInv, OnceEach
  <2> HIDE DEF mod
  <2> QED BY <2>1, <2>2, MachineFits
<1> HIDE DEF e, enums
<1>4. /\ CurrentIn(upsert(machines, e), c)
           = {x \in CurrentIn(machines, c) : ~same_loaded(x, e)} \cup {e}
      /\ \A d : d # c => CurrentIn(upsert(machines, e), d) = CurrentIn(machines, d)
  <2>1. machines \in Seq(MachineInfo) /\ OncePerItem(machines)
    BY DEF IInv, TypeOK, OnceEach
  <2> QED BY <1>2, <2>1, RegisterCurrent
<1>5. \A d : /\ CurrentIn(states, d)' = CurrentIn(states, d)
             /\ CurrentIn(machines, d)' = CurrentIn(machines', d)
  BY <1>1 DEF CurrentIn, Entries, is_current
<1>6. /\ enums # {} => e \in M2 /\ M2 \subseteq M \cup {e}
      /\ enums = {} => M2 = M
      /\ \A x \in M : x.line # n => x \in M2
  BY <1>1, <1>2, <1>4, <1>5 DEF same_loaded
<1>7. ASSUME ~tainted[c]
      PROVE  /\ FitOnes(M2, t, c, v)
             /\ Behind(E, M2, t, c, v, n)
             /\ AsExpected(o, t, c, v, n)
  <2>1. /\ Behind(E, M, t, c, v, n - 1) /\ n \in Nat \ {0} /\ t[n].kind = "machine"
        /\ EnumsOf(E, t, c, v) /\ FitOnes(M, t, c, v) /\ t \in Seq(Items)
    BY <1>1, <1>7, AgainStart
  <2>2. /\ enums # {} <=> FitsIn(t[n], E)
        /\ e = MachineAt(t[n], c, t[n].module, n, v)
    BY <1>3, <1>7
  <2>3. \/ enums # {} /\ o = Registered
        \/ enums = {} /\ o = Error
    BY <1>1
  <2> HIDE DEF E, M, M2, t, v, n
  <2>4. EnumsAbove(t, n) => (enums # {} <=> FitsIn(t[n], DeclaredEnums(t, c, v, n - 1)))
    BY <2>1, <2>2, SameFit DEF Behind
  <2>5. FitOnes(M2, t, c, v)
    BY <1>2, <1>6, <2>1, <2>4 DEF FitOnes
  <2>6. Behind(E, M2, t, c, v, n)
    BY <1>6, <2>1, <2>2, <2>4, BehindNext
  <2>7. AsExpected(o, t, c, v, n)
    BY <2>1, <2>3, <2>4 DEF AsExpected, Settled, Expected
  <2> QED BY <2>5, <2>6, <2>7
<1>8. ~tainted[c] => Undisturbed(c) /\ EnumsOf(E, t, c, v)
  BY <1>1, AgainStart
<1>9. \A d \in Crates \ {c} : CurrentIn(machines, d)' = CurrentIn(machines, d)
  BY <1>1, <1>4, <1>5
<1> QED
  BY <1>1, <1>5, <1>7, <1>8, <1>9, AgainExpand

\* An impl that is bound or refused, as the rules would have it when settled.
LEMMA AgainImpl ==
  ASSUME IInv, AgainInv, NEW c \in Crates, NEW kind \in {"transition", "validators"},
         Expands(c, kind), NEW bound, Resolve(c, bound),
         ~tainted[c] /\ Settled(text[c], c, version[c], Line(c)) =>
           bound = Meant(text[c], c, version[c], Line(c))
  PROVE  AgainInv'
<1>1. PICK o : /\ Yield(c, o) /\ UNCHANGED <<states, machines, version, tainted>>
               /\ \/ \E m \in bound : o = Bound(m)
                  \/ bound = {} /\ o = Error
  BY DEF Resolve, registries, Yield, files
<1>2. \A d : /\ CurrentIn(states, d)' = CurrentIn(states, d)
             /\ CurrentIn(machines, d)' = CurrentIn(machines, d)
  BY <1>1, SameCurrent
<1>3. ASSUME ~tainted[c]
      PROVE  /\ Behind(CurrentIn(states, c)', CurrentIn(machines, c)', text[c], c, version[c], Line(c))
             /\ AsExpected(o, text[c], c, version[c], Line(c))
  <2>1. AsExpected(o, text[c], c, version[c], Line(c))
    <3>1. text[c][Line(c)].kind = kind
      BY <1>3, AgainStart
    <3> QED BY <1>1, <1>3, <3>1 DEF AsExpected, Expected
  <2>2. Behind(CurrentIn(states, c), CurrentIn(machines, c), text[c], c, version[c], Line(c))
    <3> DEFINE E == CurrentIn(states, c)
               M == CurrentIn(machines, c)
               t == text[c]
               v == version[c]
               n == Line(c)
    <3>1. Behind(E, M, t, c, v, n - 1) /\ n \in Nat \ {0} /\ t[n].kind = kind
      BY <1>3, AgainStart
    <3> HIDE DEF E, M, t, v, n
    <3>2. Behind(E, M, t, c, v, n)
      BY <3>1, BehindNext
    <3> QED BY <3>2 DEF E, M, t, v, n
  <2> QED BY <1>2, <2>1, <2>2
<1>4. ~tainted[c] => /\ Undisturbed(c)
                     /\ EnumsOf(CurrentIn(states, c)', text[c], c, version[c])
                     /\ FitOnes(CurrentIn(machines, c)', text[c], c, version[c])
  BY <1>2, AgainStart
<1> QED BY <1>1, <1>2, <1>3, <1>4, AgainExpand

\* What a settled impl finds is what it means.
LEMMA AgainFound ==
  ASSUME IInv, AgainInv, NEW c \in Crates, NEW kind \in {"transition", "validators"},
         Expands(c, kind), ~tainted[c], Settled(text[c], c, version[c], Line(c))
  PROVE  Meant(text[c], c, version[c], Line(c)) =
           {m \in Only(Seen(text[c], CurrentIn(machines, c), Line(c))) :
              \E e \in matching_state_enum(c, m) : Agrees(Item(c), e)}
<1> DEFINE E == CurrentIn(states, c)
           M == CurrentIn(machines, c)
           t == text[c]
           v == version[c]
           n == Line(c)
<1>1. /\ Behind(E, M, t, c, v, n - 1) /\ Item(c) = t[n] /\ t[n].kind = kind
      /\ EnumsOf(E, t, c, v) /\ MachinesOf(M, t, c, v) /\ FitOnes(M, t, c, v)
      /\ t \in Seq(Items) /\ n \in DOMAIN t /\ Settled(t, c, v, n)
  BY AgainStart
<1>2. \A m : matching_state_enum(c, m) = Only(EnumsFor(E, m))
  <2>1. OncePerItem(states)
    BY DEF IInv, OnceEach
  <2> QED BY <2>1, UniqueFound DEF matching_state_enum, EnumsFor
<1> HIDE DEF E, M, t, v, n
<1>3. /\ Seen(t, M, n) = Seen(t, DeclaredMachines(t, c, v, n - 1), n)
      /\ \A m \in Seen(t, M, n) : EnumsFor(E, m) = EnumsFor(DeclaredEnums(t, c, v, n - 1), m)
  BY <1>1, SettledSees
<1>4. Only(Seen(t, M, n)) \subseteq Seen(t, M, n)
  BY DEF Only
<1>5. Meant(t, c, v, n) = {m \in Only(Seen(t, M, n)) :
                             \E e \in matching_state_enum(c, m) : Agrees(Item(c), e)}
  <2>1. Meant(t, c, v, n) = {m \in Only(Seen(t, M, n)) :
           \E e \in Only(EnumsFor(DeclaredEnums(t, c, v, n - 1), m)) : Agrees(t[n], e)}
    BY <1>3, MeantIsSeen
  <2> QED BY <1>1, <1>2, <1>3, <1>4, <2>1
<1> QED BY <1>5 DEF M, t, v, n

LEMMA AgainTransition ==
  ASSUME IInv, AgainInv, NEW c \in Crates, expand_transition(c) PROVE AgainInv'
<1> DEFINE own == candidates(machines, c, module_path(c, Line(c)), Item(c).name)
           named == candidates_by_name(machines, c, Item(c).name)
           found == IF own = {} THEN named ELSE own
           bound == {m \in unique(machines, found) :
                       \E e \in matching_state_enum(c, m) : Item(c).variants \subseteq e.variants}
<1>1. Expands(c, "transition") /\ Resolve(c, bound)
  BY DEF expand_transition
<1>2. ASSUME ~tainted[c], Settled(text[c], c, version[c], Line(c))
      PROVE  bound = Meant(text[c], c, version[c], Line(c))
  <2> DEFINE t == text[c]
             n == Line(c)
             M == CurrentIn(machines, c)
  <2>1. /\ Item(c) = t[n] /\ t[n].kind = "transition"
        /\ module_path(c, n) = t[n].module
    BY <1>1, <1>2, AgainStart
  <2>2. OncePerItem(machines)
    BY DEF IInv, OnceEach
  <2>3. /\ unique(machines, own) = Only(InModule(Named(M, t[n].name), t[n].module))
        /\ unique(machines, named) = Only(Named(M, t[n].name))
        /\ own = {} <=> InModule(Named(M, t[n].name), t[n].module) = {}
    <3> DEFINE name == Item(c).name
               near == module_path(c, Line(c))
    <3>1. /\ unique(machines, own) = Only(InModule(Named(M, name), near))
          /\ unique(machines, named) = Only(Named(M, name))
          /\ own = {} <=> InModule(Named(M, name), near) = {}
      BY <2>2, UniqueFound
    <3>2. name = t[n].name /\ near = t[n].module
      BY <2>1
    <3> HIDE DEF own, named, M, name, near
    <3> QED BY <3>1, <3>2
  <2>4. unique(machines, found) = Only(Seen(t, M, n))
    <3> HIDE DEF own, named, t, n, M
    <3> QED BY <2>1, <2>3 DEF Seen
  <2>5. Meant(t, c, version[c], n) =
          {m \in Only(Seen(t, M, n)) : \E e \in matching_state_enum(c, m) : Agrees(Item(c), e)}
    BY <1>1, <1>2, AgainFound
  <2>6. \A e : Agrees(Item(c), e) <=> Item(c).variants \subseteq e.variants
    BY <2>1 DEF Agrees
  <2> HIDE DEF found, t, n, M
  <2> QED BY <2>4, <2>5, <2>6 DEF t, n
<1> HIDE DEF bound
<1> QED BY <1>1, <1>2, AgainImpl

LEMMA AgainValidators ==
  ASSUME IInv, AgainInv, NEW c \in Crates, expand_validators(c) PROVE AgainInv'
<1> DEFINE own == candidates(machines, c, Item(c).module, Item(c).name)
           bound == {m \in unique(machines, own) :
                       \E e \in matching_state_enum(c, m) : Item(c).variants = e.variants}
<1>1. Expands(c, "validators") /\ Resolve(c, bound)
  BY DEF expand_validators
<1>2. ASSUME ~tainted[c], Settled(text[c], c, version[c], Line(c))
      PROVE  bound = Meant(text[c], c, version[c], Line(c))
  <2> DEFINE t == text[c]
             n == Line(c)
             M == CurrentIn(machines, c)
  <2>1. Item(c) = t[n] /\ t[n].kind = "validators"
    BY <1>1, <1>2, AgainStart
  <2>2. OncePerItem(machines)
    BY DEF IInv, OnceEach
  <2>3. unique(machines, own) = Only(InModule(Named(M, t[n].name), t[n].module))
    BY <2>1, <2>2, UniqueFound
  <2>4. unique(machines, own) = Only(Seen(t, M, n))
    <3> HIDE DEF own, t, n, M
    <3> QED BY <2>1, <2>3 DEF Seen
  <2>5. Meant(t, c, version[c], n) =
          {m \in Only(Seen(t, M, n)) : \E e \in matching_state_enum(c, m) : Agrees(Item(c), e)}
    BY <1>1, <1>2, AgainFound
  <2>6. \A e : Agrees(Item(c), e) <=> Item(c).variants = e.variants
    BY <2>1 DEF Agrees
  <2> HIDE DEF own, t, n, M
  <2> QED BY <2>4, <2>5, <2>6 DEF t, n
<1> HIDE DEF bound
<1> QED BY <1>1, <1>2, AgainImpl

LEMMA InitAgainInv == Init => AgainInv
<1> SUFFICES ASSUME Init PROVE AgainInv
  OBVIOUS
<1>1. Entries(states) = {} /\ Entries(machines) = {} /\ \A c \in Crates : pass[c] = NoPass
  BY DEF Init, Entries
<1> QED
  BY <1>1 DEF AgainInv, AgainIn, EnumsOf, FitOnes, CurrentIn, Undisturbed

LEMMA NextAgainInv == IInv /\ AgainInv /\ [Next]_vars => AgainInv'
<1> SUFFICES ASSUME IInv, AgainInv, [Next]_vars PROVE AgainInv'
  OBVIOUS
<1>1. ASSUME NEW c \in Crates, Expand(c) PROVE AgainInv'
  BY <1>1, AgainState, AgainMachine, AgainTransition, AgainValidators DEF Expand
<1> QED
  BY <1>1, AgainQuietSteps DEF Next

\* An unchanged text that is expanded again, any number of times and between
\* expansions of other crates, gives each item that could not be about a
\* declaration below it what the rules give it, as the first expansion did:
\* a machine is registered or refused as before, an impl bound to the same
\* machine, found in its module or by the fallback, or refused again
\* (registry.rs, upsert_loaded_machine, upsert_loaded_state).
THEOREM AgainTheSameHolds == Spec => []AgainTheSame
<1>1. IInv /\ AgainInv => AgainTheSame
  BY DEF AgainInv, AgainIn, AgainTheSame, AsExpected
<1> QED
  BY <1>1, Inductive, InitAgainInv, InitIInv, NextIInv, NextAgainInv, PTL DEF Spec
=============================================================================
