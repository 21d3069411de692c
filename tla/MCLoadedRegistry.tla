-------------------------- MODULE MCLoadedRegistry --------------------------
(* Instances of LoadedRegistry.  One crate with a small text: every way to    *)
(* arrange up to five items of two modules in one file.  One crate whose      *)
(* texts are edits of one another: items moved, inserted above, removed,      *)
(* changed.  And two crates served by one process, whose texts put the same   *)
(* items on the same lines of the same modules.                               *)
EXTENDS LoadedRegistry, FiniteSets

CONSTANTS One, Other, a, b, Flow, FlowState, On, Off, Clone

StateIn(mod, variants, derives) ==
  [kind |-> "state", module |-> mod, name |-> FlowState, of |-> FlowState,
   variants |-> variants, derives |-> derives]
MachineIn(mod, derives) ==
  [kind |-> "machine", module |-> mod, name |-> Flow, of |-> FlowState,
   variants |-> {}, derives |-> derives]
TransitionIn(mod, variants) ==
  [kind |-> "transition", module |-> mod, name |-> Flow, of |-> Flow,
   variants |-> variants, derives |-> {}]
ValidatorsFor(mod, variants) ==
  [kind |-> "validators", module |-> mod, name |-> Flow, of |-> Flow,
   variants |-> variants, derives |-> {}]

Pool == {StateIn(a, {On, Off}, {Clone}), StateIn(b, {On}, {}),
         MachineIn(a, {}), MachineIn(b, {}), MachineIn(b, {Clone}),
         TransitionIn(b, {On}), ValidatorsFor(b, {On})}

\* Every arrangement of at most 5 different items.
Arrangements ==
  UNION {{t \in [1 .. n -> Pool] : \A i, j \in 1 .. n : t[i] = t[j] => i = j} : n \in 1 .. 5}

sA == StateIn(a, {On, Off}, {Clone})
sB == StateIn(b, {On}, {})
mA == MachineIn(a, {Clone})
mB == MachineIn(b, {})
tB == TransitionIn(b, {On})
vA == ValidatorsFor(a, {On, Off})

\* Edits of one file: b's machine below its transition, above it, gone; a line
\* inserted above everything; the enum of a with other variants.
Edits == {<<sA, mA, sB, tB, mB, vA>>, <<sA, mA, sB, mB, tB, vA>>, <<sA, mA, tB, vA>>,
          <<sB, sA, mA, mB, tB>>, <<StateIn(a, {Off}, {Clone}), mA, tB, vA>>}

\* The same lines in two crates: a machine and its validators; the validators
\* of a machine that is refused; an enum with fewer variants, and a transition
\* that falls back to the crate.
Shared == {<<sA, mA, vA>>, <<sB, mA, vA>>, <<StateIn(a, {On}, {Clone}), mA, tB>>}

AllTexts == Arrangements \cup Edits \cup Shared \cup {<<>>}

\* An arrangement is not edited, the edits are edits of one another, and of two
\* crates each has one edit.
Quiet  == INSTANCE LoadedRegistry WITH MaxVersion <- 0
Edited == INSTANCE LoadedRegistry WITH Texts <- Edits
Both   == INSTANCE LoadedRegistry WITH Texts <- Shared, MaxVersion <- 1

\* The other crate has an empty file, and nobody compiles it.
Alone == text[Other] = <<>>
StaysAlone == text'[Other] = <<>> /\ pass'[Other] = NoPass

Starts ==
  {[c \in Crates |-> IF c = One THEN t ELSE <<>>] : t \in Arrangements \cup Edits}
    \cup [Crates -> Shared]

InstanceInit == text \in Starts /\ Init

InstanceNext ==
  IF ~Alone THEN Both!Next
  ELSE /\ IF text[One] \in Edits THEN Edited!Next ELSE Quiet!Next
       /\ StaysAlone

InstanceSpec == InstanceInit /\ [][InstanceNext]_vars

=============================================================================
