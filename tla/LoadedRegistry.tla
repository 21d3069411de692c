--------------------------- MODULE LoadedRegistry ---------------------------
(***************************************************************************)
(* How the macros of one crate find one another: #[state] and #[machine]   *)
(* put what they saw into process-wide registries (state/registry.rs,      *)
(* machine/registry.rs), and #[machine], #[transition] and #[validators]   *)
(* look there for the items that expanded before them.  A process may      *)
(* serve several crates, expand a crate again and again, and see its file  *)
(* edited, even while it is expanding it.                                  *)
(*                                                                         *)
(* A crate is one file, a text is the sequence of its macro items, and the *)
(* line of an item is its index.  An item whose own shape is refused       *)
(* registers nothing and is left out.                                      *)
(***************************************************************************)
EXTENDS Naturals, Sequences

CONSTANTS
  Crates,
  Modules, Names, Variants, Derives,
  BaseModule,    \* the module of a line outside every `mod`
  Texts,         \* the texts a file may have
  MaxVersion,    \* bound: the edits of one file
  NoPass, NoMachine

VARIABLES
  text,       \* what the file of each crate says now
  version,    \* counts its edits: FileFingerprint
  states,     \* LOADED_STATE_ENUMS
  machines,   \* LOADED_MACHINES
  pass,       \* the tokens of the expansion under way
  outcomes,   \* what became of its items so far
  clean,      \* history: nothing current was registered when it began
  quiet,      \* history: its file has not been edited since
  tainted     \* history: its last edit came under an expansion of it

registries == <<states, machines>>
files == <<text, version>>
vars == <<text, version, states, machines, pass, outcomes, clean, quiet, tainted>>

Kinds == {"state", "machine", "transition", "validators"}

\* name: of the enum, the machine, the machine of the impl or of the attribute.
\* of: a machine's first generic.  variants: of the enum, or those the methods
\* of a transition or a validators impl name.  module: where the item stands,
\* or for validators the module its path leads to.
Items == [kind : Kinds, module : Modules, name : Names, of : Names,
          variants : SUBSET Variants, derives : SUBSET Derives]

EnumInfo == [crate : Crates, module : Modules, name : Names, line : Nat,
             stamp : 0 .. MaxVersion, variants : SUBSET Variants, derives : SUBSET Derives]

MachineInfo == [crate : Crates, module : Modules, name : Names, line : Nat,
                stamp : 0 .. MaxVersion, of : Names]

ASSUME RegistryAssumption ==
  /\ MaxVersion \in Nat
  /\ BaseModule \in Modules
  /\ Texts \subseteq Seq(Items)
  /\ NoPass \notin Seq(Items)
  /\ NoMachine \notin MachineInfo

Outcomes == [result : {"registered", "error"}, machine : {NoMachine}]
              \cup [result : {"bound"}, machine : MachineInfo]
Registered == [result |-> "registered", machine |-> NoMachine]
Error == [result |-> "error", machine |-> NoMachine]
Bound(m) == [result |-> "bound", machine |-> m]

-----------------------------------------------------------------------------
\* The item at a line of the expanded tokens, as the registries describe it.
EnumAt(item, c, mod, line, v) ==
  [crate |-> c, module |-> mod, name |-> item.name, line |-> line, stamp |-> v,
   variants |-> item.variants, derives |-> item.derives]

MachineAt(item, c, mod, line, v) ==
  [crate |-> c, module |-> mod, name |-> item.name, line |-> line, stamp |-> v,
   of |-> item.of]

same_loaded(left, right) ==
  /\ left.name = right.name
  /\ left.module = right.module
  /\ left.crate = right.crate
  /\ left.line = right.line

\* Mutant: every registration adds an entry.
upsert_Push(registry, entry) == Append(registry, entry)

\* The first entry of the same item is replaced, or there is one more.
upsert(registry, entry) ==
  LET same == {i \in DOMAIN registry : same_loaded(registry[i], entry)}
  IN  IF same = {}
      THEN Append(registry, entry)
      ELSE [i \in DOMAIN registry |->
              IF i \in same /\ \A j \in 1 .. (i - 1) : j \notin same
              THEN entry ELSE registry[i]]

\* Mutant: what was loaded once is current for good.
is_current_Forever(e, c) == e.crate = c

is_current(e, c) == e.crate = c /\ e.stamp = version[e.crate]

\* The lookups over a registry R, of the whole crate or of one module; they
\* return indices.
candidates_by_name(R, c, name) ==
  {i \in DOMAIN R : is_current(R[i], c) /\ R[i].name = name}
candidates(R, c, mod, name) == {i \in candidates_by_name(R, c, name) : R[i].module = mod}

\* lookup_loaded_*_candidates: Ok for a single candidate; the two failures,
\* NotFound and Ambiguous, differ in what is left to look up.
unique(R, found) == {R[i] : i \in {k \in found : found = {k}}}

-----------------------------------------------------------------------------
\* The module path of a line is read from the file as it is now.
module_path(c, line) ==
  IF line \in DOMAIN text[c] THEN text[c][line].module ELSE BaseModule

Line(c) == Len(outcomes[c]) + 1
Item(c) == pass[c][Line(c)]
Expands(c, kind) ==
  /\ pass[c] # NoPass
  /\ Line(c) \in DOMAIN pass[c]
  /\ Item(c).kind = kind
Yield(c, outcome) ==
  /\ outcomes' = [outcomes EXCEPT ![c] = Append(@, outcome)]
  /\ UNCHANGED <<files, pass, clean, quiet, tainted>>

expand_state(c) ==
  /\ Expands(c, "state")
  /\ states' = upsert(states, EnumAt(Item(c), c, module_path(c, Line(c)), Line(c), version[c]))
  /\ UNCHANGED machines
  /\ Yield(c, Registered)

\* Mutant: the machine is registered before it is validated.
expand_machine_RegisterFirst(c) ==
  /\ Expands(c, "machine")
  /\ machines' = upsert(machines, MachineAt(Item(c), c, module_path(c, Line(c)), Line(c), version[c]))
  /\ UNCHANGED states
  /\ Yield(c, Registered)

\* The enum is the one the first generic names, in the machine's own module.
expand_machine(c) ==
  LET mod == module_path(c, Line(c))
      enums == {e \in unique(states, candidates(states, c, mod, Item(c).of)) :
                  Item(c).derives \subseteq e.derives}
  IN  /\ Expands(c, "machine")
      /\ \/ /\ enums # {}
            /\ machines' = upsert(machines, MachineAt(Item(c), c, mod, Line(c), version[c]))
            /\ Yield(c, Registered)
         \/ /\ enums = {}
            /\ UNCHANGED machines
            /\ Yield(c, Error)
      /\ UNCHANGED states

\* get_matching_state_enum of a machine that was looked up.
matching_state_enum(c, m) == unique(states, candidates(states, c, m.module, m.of))

\* An impl has at most one machine to be bound to.
Resolve(c, bound) ==
  /\ \/ \E m \in bound : Yield(c, Bound(m))
     \/ bound = {} /\ Yield(c, Error)
  /\ UNCHANGED registries

\* The impl's own module first; the whole crate only when it has none.
expand_transition(c) ==
  LET own == candidates(machines, c, module_path(c, Line(c)), Item(c).name)
      found == IF own = {} THEN candidates_by_name(machines, c, Item(c).name) ELSE own
  IN  /\ Expands(c, "transition")
      /\ Resolve(c, {m \in unique(machines, found) :
                       \E e \in matching_state_enum(c, m) : Item(c).variants \subseteq e.variants})

\* The module of the attribute's path only, and a method for every variant.
expand_validators(c) ==
  LET found == candidates(machines, c, Item(c).module, Item(c).name)
  IN  /\ Expands(c, "validators")
      /\ Resolve(c, {m \in unique(machines, found) :
                       \E e \in matching_state_enum(c, m) : Item(c).variants = e.variants})

-----------------------------------------------------------------------------
\* An editor, or version control, writes the file.
Edit(c) ==
  /\ version[c] < MaxVersion
  /\ \E t \in Texts : text' = [text EXCEPT ![c] = t]
  /\ version' = [version EXCEPT ![c] = @ + 1]
  /\ quiet' = [quiet EXCEPT ![c] = FALSE]
  /\ tainted' = [tainted EXCEPT ![c] = pass[c] # NoPass]
  /\ UNCHANGED <<registries, pass, outcomes, clean>>

NothingCurrent(c) ==
  /\ \A i \in DOMAIN states : ~is_current(states[i], c)
  /\ \A i \in DOMAIN machines : ~is_current(machines[i], c)

\* The compiler, or the editor's server, reads the file and starts to expand.
StartPass(c) ==
  /\ pass[c] = NoPass
  /\ pass' = [pass EXCEPT ![c] = text[c]]
  /\ outcomes' = [outcomes EXCEPT ![c] = <<>>]
  /\ clean' = [clean EXCEPT ![c] = NothingCurrent(c)]
  /\ quiet' = [quiet EXCEPT ![c] = TRUE]
  /\ UNCHANGED <<files, registries, tainted>>

\* The pass is done, or given up.
EndPass(c) ==
  /\ pass[c] # NoPass
  /\ pass' = [pass EXCEPT ![c] = NoPass]
  /\ outcomes' = [outcomes EXCEPT ![c] = <<>>]
  /\ UNCHANGED <<files, registries, clean, quiet, tainted>>

\* A new process: the statics are empty.
Restart ==
  /\ states' = <<>>
  /\ machines' = <<>>
  /\ pass' = [c \in Crates |-> NoPass]
  /\ outcomes' = [c \in Crates |-> <<>>]
  /\ tainted' = [c \in Crates |-> FALSE]
  /\ UNCHANGED <<files, clean, quiet>>

Init ==
  /\ text \in [Crates -> Texts]
  /\ version = [c \in Crates |-> 0]
  /\ states = <<>>
  /\ machines = <<>>
  /\ pass = [c \in Crates |-> NoPass]
  /\ outcomes = [c \in Crates |-> <<>>]
  /\ clean = [c \in Crates |-> FALSE]
  /\ quiet = [c \in Crates |-> FALSE]
  /\ tainted = [c \in Crates |-> FALSE]

Expand(c) ==
  \/ expand_state(c)
  \/ expand_machine(c)
  \/ expand_transition(c)
  \/ expand_validators(c)

Next ==
  \/ \E c \in Crates : Edit(c)
  \/ \E c \in Crates : StartPass(c) \/ Expand(c) \/ EndPass(c)
  \/ Restart

Spec == Init /\ [][Next]_vars

-----------------------------------------------------------------------------
\* What the lines 1 .. n of a text declare, as entries of crate c at version v.
DeclaredEnums(t, c, v, n) ==
  {EnumAt(t[i], c, t[i].module, i, v) : i \in {j \in 1 .. n : t[j].kind = "state"}}

\* A machine fits the one enum its first generic names above it.
FitsIn(item, enums) ==
  \E e \in enums : /\ {x \in enums : x.module = item.module /\ x.name = item.of} = {e}
                   /\ item.derives \subseteq e.derives

DeclaredMachines(t, c, v, n) ==
  {MachineAt(t[i], c, t[i].module, i, v) :
     i \in {j \in 1 .. n : /\ t[j].kind = "machine"
                           /\ FitsIn(t[j], DeclaredEnums(t, c, v, j - 1))}}

\* The machines an impl at line i may mean: the only one declared above it, in
\* its own module, or for a transition whose module has none, in the crate.
Meant(t, c, v, i) ==
  LET named == {m \in DeclaredMachines(t, c, v, i - 1) : m.name = t[i].name}
      own == {m \in named : m.module = t[i].module}
      found == IF own = {} /\ t[i].kind = "transition" THEN named ELSE own
      enums(m) == {e \in DeclaredEnums(t, c, v, i - 1) : e.module = m.module /\ e.name = m.of}
      agrees(e) == IF t[i].kind = "transition" THEN t[i].variants \subseteq e.variants
                                               ELSE t[i].variants = e.variants
  IN  {m \in found : found = {m} /\ \E e \in enums(m) : enums(m) = {e} /\ agrees(e)}

\* What the rules make of the item at line i.
Expected(t, c, v, i) ==
  CASE t[i].kind = "state" -> {Registered}
    [] t[i].kind = "machine" ->
         IF FitsIn(t[i], DeclaredEnums(t, c, v, i - 1)) THEN {Registered} ELSE {Error}
    [] OTHER -> IF Meant(t, c, v, i) = {} THEN {Error}
                                          ELSE {Bound(m) : m \in Meant(t, c, v, i)}

Undisturbed(c) == pass[c] # NoPass /\ quiet[c]

TypeOK ==
  /\ text \in [Crates -> Texts]
  /\ version \in [Crates -> 0 .. MaxVersion]
  /\ states \in Seq(EnumInfo)
  /\ machines \in Seq(MachineInfo)
  /\ pass \in [Crates -> Texts \cup {NoPass}]
  /\ outcomes \in [Crates -> Seq(Outcomes)]
  /\ clean \in [Crates -> BOOLEAN]
  /\ quiet \in [Crates -> BOOLEAN]
  /\ tainted \in [Crates -> BOOLEAN]

\* The first expansion of a text that nobody edits meanwhile resolves as the
\* text says: a machine is registered exactly when its enum stands above it in
\* its module, an impl is bound to the machine the rules mean, whatever the
\* process has served before and whatever other crates it expands meanwhile
\* (registry.rs, pipeline.rs:54-105, lookup.rs:16-30).
FirstPassFollowsTheText ==
  \A c \in Crates : Undisturbed(c) /\ clean[c] =>
    \A i \in DOMAIN outcomes[c] : outcomes[c][i] \in Expected(text[c], c, version[c], i)

\* m is the machine at its line in the text.
Describes(m, t, c, v) ==
  /\ m.line \in DOMAIN t
  /\ t[m.line].kind = "machine"
  /\ m = MachineAt(t[m.line], c, t[m.line].module, m.line, v)

\* An impl is never bound to a machine, or to a description of one, that the
\* text no longer has, nor to another crate's: entries of earlier texts are
\* passed over (registry.rs:57-71 for machines, 51-62 for states).  What a save
\* under an expansion leaves behind looks current only until the next save of
\* that file, and to no other crate.
NoStaleBinding ==
  \A c \in Crates : Undisturbed(c) /\ ~tainted[c] =>
    \A i \in DOMAIN outcomes[c] :
      outcomes[c][i].result = "bound" => Describes(outcomes[c][i].machine, text[c], c, version[c])

\* Every enum that the machine at line j could name is declared above it.
EnumsAbove(t, j) ==
  \A k \in DOMAIN t :
    t[k].kind = "state" /\ t[k].module = t[j].module /\ t[k].name = t[j].of => k < j

\* The machines among which the impl at line i would choose, wherever in the
\* text they stand: its module's, or the crate's when none above it is usable.
Rivals(t, c, v, i) ==
  LET own == {m \in DeclaredMachines(t, c, v, i - 1) :
                m.name = t[i].name /\ m.module = t[i].module}
  IN  {j \in DOMAIN t : /\ t[j].kind = "machine"
                        /\ t[j].name = t[i].name
                        /\ \/ t[j].module = t[i].module
                           \/ t[i].kind = "transition" /\ own = {}}

\* Nothing below line i bears on the item there.
Settled(t, c, v, i) ==
  CASE t[i].kind = "state" -> TRUE
    [] t[i].kind = "machine" -> EnumsAbove(t, i)
    [] OTHER -> \A j \in Rivals(t, c, v, i) : j < i /\ EnumsAbove(t, j)

\* Expanding an unchanged text again in the same process gives an item the
\* answer of the first time, be it registered, bound or refused, unless it
\* could be about a declaration below it, which the first time had not come
\* yet: what was registered before is replaced and makes no name ambiguous
\* (upsert_loaded_machine, upsert_loaded_state).
AgainTheSame ==
  \A c \in Crates : Undisturbed(c) /\ ~tainted[c] =>
    \A i \in DOMAIN outcomes[c] : Settled(text[c], c, version[c], i) =>
      outcomes[c][i] \in Expected(text[c], c, version[c], i)

=============================================================================
