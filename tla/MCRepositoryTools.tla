------------------------- MODULE MCRepositoryTools -------------------------
(***************************************************************************)
(* The graph review and the release scripts, which share nothing: either   *)
(* one of them or the other runs.  Releases: two versions, two people    *)
(* who publish, crates that inherit the version or have one of their own.  *)
(***************************************************************************)
EXTENDS GraphReview

CONSTANTS Versions, Publishers, Layouts, VERSIONED_SNIPPET_FILES, MaxRuns

CONSTANTS A, B, m, plain, worded, one, other, few, many

State(name, label, has_data) == [rust_name |-> name, label |-> label, has_data |-> has_data]
To(label, targets) ==
  [method_name |-> m, label |-> label, from_state |-> A, to_states |-> targets]

StateLists == {<<State(A, plain, FALSE)>>,
               <<State(A, plain, FALSE), State(B, plain, FALSE)>>,
               <<State(B, plain, TRUE), State(A, plain, FALSE)>>,
               <<State(A, worded, FALSE), State(B, plain, FALSE)>>,
               <<State(A, plain, FALSE), State(A, plain, TRUE)>>}
TransitionLists == {<<>>,
                    <<To(plain, <<A>>)>>,
                    <<To(plain, <<A, B>>)>>,
                    <<To(worded, <<B, A>>)>>,
                    <<To(plain, <<A>>), To(plain, <<B>>)>>}

Snapshot(version, identity, cases, states, transitions) ==
  [snapshot_version |-> version, identity |-> identity, cases |-> cases,
   states |-> states, transitions |-> transitions]

\* Every list of states with every list of transitions, and one graph that
\* differs in each of the fields that identify or qualify a snapshot.
SnapshotsDef ==
  LET simple == <<State(A, plain, FALSE)>>
  IN  {Snapshot("v1", one, few, s, t) : s \in StateLists, t \in TransitionLists}
      \cup {Snapshot("v2", one, few, simple, <<>>), Snapshot("v1", other, few, simple, <<>>),
            Snapshot("v1", one, many, simple, <<>>)}

-----------------------------------------------------------------------------
VARIABLES tree, committed, own, bump, published, pc, version, runs, broken, moved

Scripts == INSTANCE Release

ASSUME LayoutAssumption == Layouts \subseteq [Scripts!Crates -> Versions \cup {0}]

LayoutsDef == [{"statum-core", "statum-macros", "statum"} -> {0, 1}]

releaseVars == <<tree, committed, own, bump, published, pc, version, runs, broken, moved>>

\* No script is ever run.
NoRelease ==
    /\ tree = Scripts!Tree(1) /\ committed = tree /\ own = [c \in Scripts!Crates |-> 0]
    /\ bump = {} /\ published = [c \in Scripts!Crates |-> {}]
    /\ pc = [p \in Publishers |-> [at |-> "idle", k |-> 0]]
    /\ version = [p \in Publishers |-> 1]
    /\ runs = MaxRuns /\ broken = FALSE /\ moved = {}

\* No graph is ever reviewed.
NoReview ==
    /\ fail_on = 0 /\ baseline = CHOOSE g \in Snapshots : Emitted(g) /\ g.states # <<>>
    /\ rows = <<>> /\ recorded = <<>> /\ reviews = <<>>

ToolsInit == (Init /\ NoRelease) \/ (Scripts!Init /\ NoReview)

ToolsNext ==
    \/ rows # <<>> /\ Next /\ UNCHANGED releaseVars
    \/ rows = <<>> /\ Scripts!Next /\ UNCHANGED vars

ToolsSpec == ToolsInit /\ [][ToolsNext]_<<vars, releaseVars>>

-----------------------------------------------------------------------------
\* No crate is on crates.io without those it depends on (publish.rs).
PublishedInOrder == Scripts!PublishedInOrder

\* A run that says so has published every crate at its version (publish.rs).
FinishedRunsPublishAll == Scripts!FinishedRunsPublishAll

\* No file of a published tree still names the version before (update_version.rs).
PublishedTreesAreWhole == Scripts!PublishedTreesAreWhole
=============================================================================
