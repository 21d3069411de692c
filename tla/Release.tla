------------------------------- MODULE Release -------------------------------
(***************************************************************************)
(* Releasing the workspace: scripts/update_version.rs moves it to another  *)
(* version, scripts/publish.rs puts its crates on crates.io.  Either may   *)
(* stop at any step; several people may publish, from one working tree.    *)
(***************************************************************************)
EXTENDS Integers, Sequences, FiniteSets

CONSTANTS
    Versions,        \* the versions x.y.z
    Publishers,      \* runs of publish.rs
    Layouts,         \* which version of its own, if any (0), each crate may have
    VERSIONED_SNIPPET_FILES,
    MaxRuns          \* bound: how often a script is run

PUBLISH_ORDER == <<"statum-core", "statum-macros", "statum">>
Crates == {PUBLISH_ORDER[k] : k \in DOMAIN PUBLISH_ORDER}

VARIABLES
    tree,       \* the working tree: the workspace's version, and the snippets'
    committed,  \* what of it is committed
    own,        \* crates that do not inherit the workspace's version
    bump,       \* update_version: the files it has still to write
    published,  \* crates.io: the versions of each crate
    pc,         \* where each run of publish.rs is
    version,    \* the version it announced
    runs,       \* how many scripts were started
    broken,     \* history: the tree is what a bump that broke off has left
    moved       \* history: who had the tree changed under a run of theirs

vars == <<tree, committed, own, bump, published, pc, version, runs, broken, moved>>

Steps == {[at |-> "idle", k |-> 0], [at |-> "align", k |-> 0], [at |-> "checks", k |-> 0],
          [at |-> "done", k |-> 0], [at |-> "failed", k |-> 0]}
           \cup [at : {"query", "publish"}, k : DOMAIN PUBLISH_ORDER]
At(p, at, k) == pc' = [pc EXCEPT ![p] = [at |-> at, k |-> k]]

Tree(v) == [workspace |-> v, snippets |-> [f \in VERSIONED_SNIPPET_FILES |-> v]]

Init ==
    /\ \E v \in Versions : tree = Tree(v) /\ committed = Tree(v)
    /\ own \in Layouts
    /\ bump = {}
    /\ published = [c \in Crates |-> {}]
    /\ pc = [p \in Publishers |-> [at |-> "idle", k |-> 0]]
    /\ version = [p \in Publishers |-> tree.workspace]
    /\ runs = 0 /\ broken = FALSE /\ moved = {}

Running == {p \in Publishers : pc[p].at \in {"align", "query", "checks", "publish"}}

\* What the files say changes, also for the runs in progress.
Moves == moved' = moved \cup Running

(***************************************************************************)
(* update_version.rs                                                       *)
(***************************************************************************)
update_version(new_version) ==
    /\ bump = {} /\ runs < MaxRuns /\ runs' = runs + 1
    /\ tree.workspace # new_version
    /\ tree' = [tree EXCEPT !.workspace = new_version]
    /\ bump' = VERSIONED_SNIPPET_FILES
    /\ Moves
    /\ UNCHANGED <<committed, own, published, pc, version, broken>>

\* The files come in an order that nothing depends on.
update_install_snippets(file_path) ==
    /\ file_path \in bump /\ bump' = bump \ {file_path}
    /\ tree' = [tree EXCEPT !.snippets[file_path] = tree.workspace]
    /\ broken' = (broken /\ bump' # {})
    /\ Moves
    /\ UNCHANGED <<committed, own, published, pc, version, runs>>

\* A file cannot be read or written, or the script is interrupted.
BreakOff ==
    /\ bump # {} /\ bump' = {} /\ broken' = TRUE
    /\ UNCHANGED <<tree, committed, own, published, pc, version, runs, moved>>

(***************************************************************************)
(* The maintainer, between the scripts.                                    *)
(***************************************************************************)
Commit ==
    /\ bump = {} /\ committed # tree /\ committed' = tree
    /\ UNCHANGED <<tree, own, bump, published, pc, version, runs, broken, moved>>

Restore ==
    /\ bump = {} /\ committed # tree /\ tree' = committed
    /\ broken' = (\E f \in VERSIONED_SNIPPET_FILES : committed.snippets[f] # committed.workspace)
    /\ Moves
    /\ UNCHANGED <<committed, own, bump, published, pc, version, runs>>

(***************************************************************************)
(* publish.rs                                                              *)
(***************************************************************************)
crate_version(crate_name) == IF own[crate_name] = 0 THEN tree.workspace ELSE own[crate_name]

\* Mutant: what git prints is not looked at.
ensure_clean_worktree_Unread == TRUE

ensure_clean_worktree == tree = committed

\* Mutant: only the first crate is looked at.
verify_versions_match_First(v) == crate_version(PUBLISH_ORDER[1]) = v

verify_versions_match(v) == \A c \in Crates : crate_version(c) = v

Start(p) ==
    /\ pc[p].at = "idle" /\ runs < MaxRuns /\ runs' = runs + 1
    /\ ensure_clean_worktree
    /\ At(p, "align", 0)
    /\ UNCHANGED <<tree, committed, own, bump, published, version, broken, moved>>

\* The one version of all crates is announced.
Align(p) ==
    /\ pc[p].at = "align"
    /\ \E v \in Versions :
         /\ verify_versions_match(v)
         /\ version' = [version EXCEPT ![p] = v]
    /\ At(p, "query", 1)
    /\ UNCHANGED <<tree, committed, own, bump, published, runs, broken, moved>>

\* The run stops at the first step that fails.
Fail(p) ==
    /\ p \in Running /\ At(p, "failed", 0)
    /\ UNCHANGED <<tree, committed, own, bump, published, version, runs, broken, moved>>

\* A crate that is there already ends the run, which is a Fail.
ensure_versions_are_unpublished(p) ==
    LET k == pc[p].k
    IN  /\ pc[p].at = "query"
        /\ version[p] \notin published[PUBLISH_ORDER[k]]
        /\ IF k < Len(PUBLISH_ORDER) THEN At(p, "query", k + 1) ELSE At(p, "checks", 0)
        /\ UNCHANGED <<tree, committed, own, bump, published, version, runs, broken, moved>>

\* Tests, lints and the dry run of the one crate that can be tried; they read
\* the tree as it is now and leave nothing behind.
Checks(p) ==
    /\ pc[p].at = "checks"
    /\ crate_version(PUBLISH_ORDER[1]) \notin published[PUBLISH_ORDER[1]]
    /\ At(p, "publish", 1)
    /\ UNCHANGED <<tree, committed, own, bump, published, version, runs, broken, moved>>

\* crates.io takes a version of a crate once, from a clean tree.
Upload(c) ==
    /\ tree = committed
    /\ crate_version(c) \notin published[c]
    /\ published' = [published EXCEPT ![c] = @ \cup {crate_version(c)}]

\* Mutant: a failed upload is reported, and the next crate is tried.
run_publish_GoOn(p) ==
    LET k == pc[p].k
    IN  /\ pc[p].at = "publish"
        /\ Upload(PUBLISH_ORDER[k]) \/ UNCHANGED published
        /\ IF k < Len(PUBLISH_ORDER) THEN At(p, "publish", k + 1) ELSE At(p, "done", 0)
        /\ UNCHANGED <<tree, committed, own, bump, version, runs, broken, moved>>

\* The upload is made, and the answer comes, or is lost and ends the run.
run_publish(p) ==
    LET k == pc[p].k
    IN  /\ pc[p].at = "publish"
        /\ Upload(PUBLISH_ORDER[k])
        /\ \/ IF k < Len(PUBLISH_ORDER) THEN At(p, "publish", k + 1) ELSE At(p, "done", 0)
           \/ At(p, "failed", 0)
        /\ UNCHANGED <<tree, committed, own, bump, version, runs, broken, moved>>

Again(p) ==
    /\ pc[p].at \in {"done", "failed"} /\ At(p, "idle", 0)
    /\ UNCHANGED <<tree, committed, own, bump, published, version, runs, broken, moved>>

Next ==
    \/ \E v \in Versions : update_version(v)
    \/ \E f \in VERSIONED_SNIPPET_FILES : update_install_snippets(f)
    \/ BreakOff \/ Commit \/ Restore
    \/ \E p \in Publishers :
         \/ Start(p) \/ Align(p) \/ Fail(p) \/ ensure_versions_are_unpublished(p) 
         \/ Checks(p) \/ run_publish(p) \/ Again(p)

Spec == Init /\ [][Next]_vars

-----------------------------------------------------------------------------
\* No crate is on crates.io without those it depends on, at its version, wherever
\* the runs stopped (publish.rs:370-390); only a tree that is changed under a run
\* can split a version.
PublishedInOrder ==
    moved = {} =>
        \A k \in DOMAIN PUBLISH_ORDER \ {1} :
            published[PUBLISH_ORDER[k]] \subseteq published[PUBLISH_ORDER[k - 1]]

\* A run that says it published every crate has published each at the version it
\* announced, also where a crate has a version of its own (publish.rs:200-213).
FinishedRunsPublishAll ==
    \A p \in Publishers \ moved :
        pc[p].at = "done" => \A c \in Crates : version[p] \in published[c]

\* What a run publishes is whole: every file names the version it announced, but
\* where a bump broke off or is under way and half of one is committed, which
\* neither script detects (update_version.rs:130-135, publish.rs:96-110).
PublishedTreesAreWhole ==
    \A p \in {q \in Running : pc[q].at # "align"} \ moved :
        /\ \E c \in Crates : own[c] = 0
        /\ (~broken /\ bump = {}) \/ committed = Tree(committed.workspace)
        => tree = Tree(version[p])
=============================================================================
