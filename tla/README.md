# Statum in TLA+

Statum is a Rust framework for typestate workflows. `#[state]` marks an enum as
the states of a workflow, `#[machine]` a struct generic over them,
`#[transition]` an impl whose methods are the legal edges, and `#[validators]` an
impl that rebuilds a typed machine from a persisted row. The macros
(`statum-macros`) run inside the compiler or the editor's macro server; what they
generate runs in the user's program on top of `statum-core`; `cargo statum graph`
works on a machine's exported graph; `statum-examples` shows six applications.

This directory models the parts whose correctness depends on order,
interleaving, repetition or a search: one module per component, TLC
configurations for small instances, and proofs, checked by TLAPS, of what holds
for every instance. Each definition is translated from the code;
`PROJECT.json` maps it to its lines. Paths below are relative to `src/`.

Model checking: `tlc -workers 2 -config X.cfg M`. Proofs: `tlapm XProofs.tla`.

## 1. Inventory

### Source scanner and declaration analysis: `statum-macros/src/source/{scan,query,...}.rs`, `parser`, `analysis`

A macro sees only its own tokens. What stands around them it reads from the file:
`tokenize_source` takes the identifiers and brackets, one scan finds the inline
modules, another the lines of the declarations, and queries combine both.

* State: none between calls; within a scan, a stack of blocks, the depth of
  opaque ones, and where the next module and opaque block will open.
* Hard: Rust's lexical rules (nested comments, raw strings, escapes, lifetimes
  that look like characters); two scanners that must agree with `syn`, which
  parses the same text for the items; modules that share lines.
* Correct when the tokens and declarations are Rust's and a query is told of the
  items of its module and of no others.

### Source cache: `statum-macros/src/source/{cache,module_path,callsite}.rs`

A macro knows the file and line of its call site and must learn the module it
stands in. `find_module_path` answers from two process-wide caches.

* State: `LINE_RESULT_CACHE` (file, line to fingerprint and path) and
  `FILE_MODULE_CACHE` (file to fingerprint and parsed modules), each behind an
  `RwLock` of its own; the files on disk.
* Operations: `file_fingerprint`, `cached_line_result`,
  `clear_line_cache_for_file`, the two locks of `get_or_parse_file_modules` with
  the read of the text between them, `store_line_result`.
* Hard: the fingerprint, each cache and the text are read in separate steps.
  Other expansions and edits come in between, and a file can be deleted or be
  unreadable at any of them.
* Correct when caching never shows: every answer is one the text gave at some
  moment of the call, and an entry that looks current is current.

### Loaded registries: `statum-macros/src/{state,machine}/registry.rs` and the four macros' pipelines

Macros of one crate find one another through process-wide registries.

* State: `LOADED_STATE_ENUMS`, `LOADED_MACHINES`.
* Operations: each expansion registers, replaces, looks up by module or by name,
  and is bound or refused.
* Hard: what is found depends on the order of expansion; an editor's server
  expands the same file again after edits; one process serves several crates
  whose modules and names coincide; an edit can come under an expansion.
* Correct when a first expansion resolves each item as the text says, nothing is
  bound to what an earlier text declared, and expanding again changes nothing.

### Transition contracts: `statum-macros/src/transition`, `source/aliases.rs`

`#[transition]` reads off each method's return type the states it may lead to:
through `Option`, `Result` and `Branch`, and, in the default mode, through the type
aliases the source declares. The graph lists what was read.

* State: the contracts validated so far; within a reading, the context and the
  set of aliases being expanded.
* Hard: two walks coded apart must agree; an alias is looked up in one module and
  goes on in another; cycles; two modes; a branch that cannot be read.
* Correct when the list is what the type means, or the method is refused.

### Validator signatures: `statum-macros/src/validators/{plan,signatures,contract}.rs`

`#[validators]` turns the methods of an impl into a plan: which state each
rebuilds, whether it keeps a reason, whether it is awaited.

* State: the methods planned so far, the names seen, whether one is async.
* Hard: states whose snake_case names fall together; aliases of the answer types,
  also ones named like the wrapper they hide; refusals at several places.
* Correct when the plan has one method per state, read as the compiler reads it,
  and no impl that rebuilds every state is refused.

### Rebuild surface: `statum-macros/src/validators/emission`, `statum-core/src/lib.rs`

`#[validators]` generates `build`, `build_report` and `explain` for one row, and
`build`, `build_reports` for a batch.

* State: per call, the attempts and matches of the current row and the results
  of the earlier ones.
* Operations: start a row, await the next validator, return early, finish.
* Hard: validators are awaited one after another while other calls run and what
  they consult changes; three generated bodies walk the same plan; one row of a
  batch may fail.
* Correct when each verdict is justified by what validators accepted during the
  row's turn, each report accounts for its result, and every row gets one.

### Event projection: `statum-core/src/projection.rs`

`reduce_one` folds one stream of events into a projection; `reduce_grouped`
folds many interleaved streams, keyed, into one projection each.

* State: the map of projections, the order of first sight, the key in hand.
* Hard: seeds and applications may fail; order and map must keep step.
* Correct when each stream is folded as if it were alone and the output follows
  first sight.

### Machine graph, its testing tools and its views: `statum-core/src/{introspection,testing}`, `cargo-statum/src/main.rs`

A machine exports its graph. `assert_path`/`assert_no_path` search it,
`legal_walks_from` lists its walks, `MachineTransitionRecorder` records the
transitions taken, `stable_metadata.rs` exports, draws, tabulates and lints it,
`cargo statum` explains it.

* State: a search's two vectors; a generator's shared vector of steps and its
  recursion; a record's machine, state, transition and target.
* Hard: cycles, states pushed several times, backtracking in a shared vector,
  the default depth; five views that each walk the exported document.
* Correct when a search answers reachability, a listing is exactly the legal
  walks, both end, and every view tells the same graph.

### `cargo statum graph diff`: `cargo-statum/src/main.rs`

Compares a baseline snapshot of a graph with the current one and fails a job at
a chosen severity.

* State: none beyond the two files; but the baseline is replaced by what passed,
  and persisted rows outlive many graphs.
* Correct when what passes, however often, strands no row.

### Showcases: `statum-examples/src/showcases`

| application | state | hard |
| --- | --- | --- |
| job runner (`tokio_sqlite_job_runner.rs`) | a table of jobs, a clock, a lease counter | a call awaits between its statements and may be dropped there; retries, leases, budgets |
| websocket session (`tokio_websocket_session.rs`) | two bounded channels, a typed session in a task, its handle | both channels fill up; the handle finishes or is dropped at any moment |
| deploy pipeline (`clap_sqlite_deploy_pipeline.rs`) | a database file | every command is a process; several run and any may be killed |
| review service (`axum_sqlite_review.rs`) | a table behind a pool | handlers await between reading and writing; clients hang up |
| event log (`sqlite_event_log_rebuild.rs`) | an append-only table | operations read, decide and append without looking again |
| cart store (`serde_json_snapshot.rs`) | a map of snapshots | rebuilt from what was written |

Correct when every row that was written rebuilds, no stage is skipped, a lease
has one holder, a call and a session end, and only what the applications do not
guard against (overlapping calls on one order) corrupts anything.

### Release scripts: `scripts/{update_version,publish}.rs`

Move the workspace to a version and put its crates on crates.io in order.

* State: the tree, what is committed, what is published.
* Hard: each stops at the first failure, at any step, and is run again; an upload
  whose answer is lost; two people on one tree.
* Correct when no crate is out before those it needs and a run that says it is
  done has published all of them.

### Others

| component | why not |
| --- | --- |
| machine and state emission | token templates; what they emit runs in the user's program and is modelled there; the slots of the typestate builder are enforced by rustc |
| facade, diagnostics, attribute parsing | no state, no order |
| benchmarks, toy demos | measurements and single-function examples |

How they interact: the scanner's result is cached by the source cache; the
registries ask the cache for the module of each item and stamp entries with the
same fingerprints; the transition and validator macros resolve through the
registries; the validators' plan is what the rebuild surface walks; what
validators accept decides the rebuilt machine; rows that validators see are often
event projections; the contracts of the transitions are the edges of the emitted
graph, which the testing tools, the recorder, the views and the diff read. The
showcases use the transitions, the rebuild surface and the projections.

`PROJECT.json` lists the hazards of each, at its line, with the properties that
cover it.

## 2. Modules

| module | what it is |
| --- | --- |
| `SourceScan` | `tokenize_source`, character by character |
| `ModuleRanges` | both scans over the tokens, the module of a line, the queries |
| `SourceReader` | a file written piece by piece with what Rust makes of it, then read by the macros |
| `SourceFiles` | versions of a file, their fingerprints, the module path of each line |
| `ModuleLookup` | abstract: a lookup without caches, answered from any version the file had during the call |
| `SourceCache` | `find_module_path` with both caches; refines `ModuleLookup` |
| `MacroProofs` | types, soundness of the cache, the refinement; the contracts of transitions |
| `LoadedRegistry` | registration and lookup by all four macros |
| `LoadedRegistryProofs` | types, resolution on a first expansion, no stale binding, repeated expansions |
| `ReturnTypes` | types, aliases, both readings of a return type |
| `TransitionContracts` | the validation of one impl of transitions, method by method |
| `ValidatorPlan` | the collection of a plan of validators, method by method |
| `RebuildCalls` | the plan of validators, the calls and their rows |
| `RowVerdicts` | abstract: per row, one verdict justified by the validators that accepted meanwhile |
| `Rehydrate` | the generated bodies, one await per step; refines `RowVerdicts` |
| `RehydrateProofs` | types, the refinement, the reports, their agreement |
| `ReduceOne` | abstract: one stream, folded alone |
| `ReduceGrouped` | the loop over many streams; refines `ReduceOne` once per key |
| `ReduceGroupedProofs` | types, the refinement for every key, the order of the output |
| `MachineGraph` | what the tools read of a graph |
| `GraphPaths` | `graph_has_path`, step by step |
| `GraphWalks` | `Generator::expand`, with its recursion as a stack of frames |
| `GraphToolsProofs` | the answer is reachability; the walks listed are the legal ones |
| `GraphViews` | the exported document and what diagram, matrix, lints, explanation and agent context tell of it |
| `GraphDiff` | the diff report as operators |
| `GraphReview` | a repository that reviews each graph against the last, and rows that move meanwhile |
| `JobRunner` | the job runner |
| `WebsocketSession` | the session's task, both channels, the handle |
| `TokioProofs` | the runner's types, leases and endings; the session's answers |
| `StoredWorkflow` | abstract: a table of rows, each moved along the machine from a stage it has had |
| `DeployPipeline`, `ReviewService`, `CartStore` | three stores; `MCShowcases` refines `StoredWorkflow` |
| `OrderEvents` | the event log |
| `ShowcasesProofs` | the three stores rebuild and keep the promise; what the log tells of an order |
| `Release` | both release scripts |
| `RepositoryToolsProofs` | what passes a review keeps, over any chain of reviews; what the scripts publish, over any number of runs |
| `MC*` | instances; one may hold several components as alternatives of its `Init`, of which each behaviour runs one (and the other's variables rest) |

### How state and actions correspond to code

**SourceScan, ModuleRanges, SourceReader.** A text is a string, walked as the
code walks its characters; `Lexeme` is one turn of the loop. `Scanning` is the
scanners' local state, `Push` and `Pop` their treatment of brackets. An `Option`
is a set of at most one element. `SourceReader` writes a file with one action per
kind of piece (`Open`, `Close`, `Declare`, `Fill`) and keeps in `rust` what Rust
makes of it; `Read` is what the macros do with the file. What `syn` finds
(`Parsed`) is taken to be what Rust finds.

**SourceCache.** `pc[t]` is the place of thread `t` in `find_module_path`: one
label per lock or file access. `disk` counts the writes of each file. `parsed` is
the local `parsed_file`, named by the version it was read from, since the parse
is a function of the text. A poisoned lock is left out: no code panics while it
holds one.

**LoadedRegistry.** A crate is one file and a text is the sequence of its macro
items; an item's line is its index. `Expand` takes the next item of the pass and
registers, binds or refuses it, in one step: the registries are touched by one
expansion at a time in a compiler thread. A save under an expansion stamps the
entries of old tokens with the new fingerprint; `tainted` remembers, per crate,
that the last save was of this kind. Until the next save of that file, or a
restart, its expansions may be misled and `NoStaleBinding` and `AgainTheSame` do
not speak of it; that it ends there, and that other crates never notice, is part
of both. The registries are shared by all crates. `AgainTheSame` speaks of every
item that is `Settled`: no declaration below it bears on it. An item that is not
may change its answer, as a transition does that fell back by name and whose own
module declares the machine further down. Left out: the mode of servers that give no source location,
files without a fingerprint, the checks of an item's own shape, reserved names,
snake_case aliases, lock poisoning.

**ReturnTypes, TransitionContracts, ValidatorPlan.** A type is a path, its last
name and its arguments; `aliases` holds the declarations of each module, several
of one name where `#[cfg]` gives several. Each walk over a return type is a
function of its call (`Calls`: the type, the context, the aliases being expanded)
and, for the walk that collects, of the targets so far; the function of one depth
is given by that of the depth below, so `inner` in
`collect_machine_targets_inner` is the recursive call. A walk goes at most
`MaxDepth` calls in; `Types` is what may be met on the way. `visited` holds just
the aliases that the call is in, since the code removes each when it returns.
`Meant` (in `MCMacroReading`) and `Denoted` are the
references: names are looked up where they are written, and a parameter keeps the
place of its argument. One action checks the impl, one a method, one ends. Left
out: imports (the code follows none), defaults of alias parameters, modules
nested deeper, the second context a span may give, and the wording of messages.
In a plan, `dyn` types and the like are "opaque": the code's comparison of types
has no case for them.

**Rehydrate.** `accepts` is what the validators would say now; `Change` is the
outside world. `asked`, `attempts`, `matched` and `results` are the locals of the
same names in the templates. A single-row call is a batch of one row. `ever` and
`always` are history: they bound what a verdict may rest on.

**ReduceGrouped.** One action per way through the loop body (`Occupied`,
`Vacant`), one for the drain. Seed and apply are any functions that answer a
projection or an error. `Stream(k)` is `ReduceOne` for key `k`.

**GraphPaths, GraphWalks, GraphViews.** One action per branch of the loops;
`site` and `left` are the loop variables. The stack of frames in `GraphWalks` is
the recursion of `expand`, `steps` the vector all frames share. The views are
functions of the document and are evaluated on the graph of a search, next to its
verdict; labels, escapes and state data are left out.

**GraphDiff, GraphReview.** `diff_snapshots` is the set of changes;
`Comparable` its error returns; `Passes` the exit status of
`graph diff --fail-on`. `GraphReview` is the job that
`docs/graph-diff-migrations.md` recommends: what passes is the next baseline and
the running graph. A row moves by `try_record_transition`, which allows exactly
the edges of the running graph. A label stands for label and description. The
order of the report, its text and the file reading are left out.

**Showcases.** A row keeps what its validators look at: the status, and which of
the nullable texts are there. A statement is one step, as SQLite has it, and
fails only by not happening; between two statements anything else may run. Calls
end early by `Abandon`, `Crash`, `HangUp` and `Drop`. In `JobRunner` a lease is its
sequence number; in `WebsocketSession` a frame keeps the user, the topic and
whether its body is blank, and each await of the task is one step. `overlapped`,
`reached` and `abandoned` are history.

**Release.** One action per step of a script that can fail; `Fail` and `BreakOff`
stop it there. cargo's refusal of a dirty tree and of a version that is already
there are external (`Upload`). The order in which snippets are rewritten, the
argument `expected_version` and errors of the query to crates.io are not told
apart from a failing step.


## 3. Runs

Bounds are in the `.cfg` files and the MC modules; each is small because of a
reason given below. `INVARIANT`s and `PROPERTY`s are those in the third column.

| run | instance (distinct states) | shows |
| --- | --- | --- |
| `source_cache` | 2 threads, 1 file, 2 lines, 4 versions of which one is deleted and one unreadable (187,475) | an entry that looks current is (`CurrentEntriesAreTrue`); the refinement (`AnswersFromACurrentText`); once edits end, lookups come from the cache (`CacheWarmsUp`) |
| `rehydrate` | a batch of reports that meets a row twice and an explain of that row, 3 states, 1 change (190,884) | `ReportsAccountForResults`; `OperationsAgreeInAQuietWorld`; the refinement `VerdictsAreJustified`; every row ends with a report (`EveryRowGetsAReport`) |
| `loaded_registry` | all arrangements of up to 5 of 7 items over two modules; 5 texts that are edits of one another, 2 edits; two crates with the same items on the same lines, 3 texts, an edit each (1,456,038) | `FirstPassFollowsTheText`; `NoStaleBinding`; `AgainTheSame` |
| `reduce_grouped` | all inputs of up to 4 events of 3 keys, two events refused (700) | `EachKeyFoldsAlone`; `FirstSeenOrder` |
| `graph_tools` | every graph over 3 declared states and 1 undeclared one, up to 3 straight or 2 branching sites, every pair; walks over 7 graphs, depth up to 3, every set of stops (216,428) | `VerdictIsReachability`; exactly the legal walks, each once (`EachLegalWalkIsListedOnce`); the default depth suffices (`DefaultDepthReachesAll`); diagram, matrix, lints and explanation tell the graph (`ViewsTellTheGraph`); `SearchEnds`, `GenerationEnds` |
| `repository_tools` | chains of 2 comparisons of 28 snapshots, a row of up to 2 transitions, each `--fail-on`; releases of 2 versions by 2 publishers, 4 runs of the scripts, every choice of crates with a version of their own (1,127,960) | `RowsSurviveReview`; `ReviewKeepsLegality`; `PublishedInOrder`; `FinishedRunsPublishAll`; `PublishedTreesAreWhole` |
| `macro_reading` | return types two wrappers or aliases deep, two modules, six sets of declarations, both modes; impls of validators with every form of answer under four sets of declarations; files of pieces of weight up to 5 and two file names (175,398) | the two walks agree (`PrimaryLeads`); the strict mode lists nothing the default mode does not (`StrictNeverInvents`); `PlainTypesAreExact`; `PlansAreTheImpl`; `ScansFollowRust`; `QueriesFindTheItems` |
| `tokio` | two jobs of any payload and budget 0 to 3, clock from -2 to 1 moved either way, retry delay 2, one call given up; channels of 2 frames and up to 4 of ten frames (1,072,634) | `LeasesHaveOneHolder`; `OnlyEarlyEndingsAreRefused`; `IdleMeansSettled`; `CallsReturn`; `AnswersFollowTheFrames`; `SessionsEnd` |
| `stored_workflows` | two callers, two reviewers, two rows, a log of 7 events (635,959) | `RowsAlwaysRebuild`; `NoStageIsSkipped`; `OnlyOverlapsCorrupt`; `BatchAgreesWithSingles`; the refinement `KeepThePromise` |
| `graph_review_presentation`, `transition_contracts_strict`, `source_reader_borrowing` | one comparison; the instance of `macro_reading`, the last with `Borrows` | violations, see Findings |

Why these are enough.

* *Threads and callers*: what is hurt is hurt by one actor between another's two
  steps, which needs two.
* *Versions*: four let a call begin before, run through and end after an edit,
  with a deletion and an unreadable text among them. *Edits* of a crate: two let
  a text come back changed over entries of two earlier texts.
* *Calls on rows*: they share only `accepts`, so a pair shows every interleaving.
  One change before, between or after any two awaits makes a verdict disputable;
  the batch meets one row on both sides of it with another in between.
* *Items*: the lookups distinguish same module, other module, same name twice,
  before and after, changed derives; five lines hold two complete workflows and
  an extra item. Two crates with the same items on the same lines differ by
  nothing but the crate; one edit of each puts entries of two versions beside them.
* *Events*: four interleave three streams with one applied; two can fail.
* *Graphs*: three states and an undeclared target give zero-length paths,
  cycles, diamonds, dead ends and a target outside. Walk depth: one past the
  number of states less one.
* *Reviews*: two are the shortest chain in which the baseline has moved since the
  row was written; the snapshots cover each kind of change, duplicates, and each
  refused comparison. *Scripts*: four runs are a bump that breaks off, its
  completion, a bump to another version that is under way, and the other person's
  publication in the middle of it. In the middle of a bump the tree is clean only if half
  of one was committed, which neither script notices and `PublishedTreesAreWhole`
  leaves out; that takes all four.
* *Types*: two levels put an alias inside a wrapper, a wrapper inside an alias
  and an alias inside an alias; the declarations chain three aliases over both
  modules, swap parameters, include a cycle and an ambiguous name. `MaxDepth` 12 cuts
  no reading short: from 8 on they no longer change. *Impls*: two
  states, one with data, two whose names fall together, and each refusal.
* *Texts*: the ends of blocks count too, and noise (a comment, a string, a raw
  string, a character, the input of a macro) counts twice. Five then hold a module or an
  opaque block with a noise and an item in it or behind it, and two blocks, one in
  the other or one after the other, with an item anywhere.
* *Jobs*: a budget of 3 and a clock that passes one retry delay give a job that
  fails, waits, is retried and runs out; set back by as much, it gives a retry that
  is due at time 0 and refused; one given-up call leaves a lease behind
  for the other job's calls to meet. *Frames*: four fill both channels
  (of two each) and still leave one to be sent.
* *Rows*: two with the same status are told apart by every query that orders them.
  Seven events are two orders with an overlapped pair of appends.

Deadlock is checked in `source_cache`; the others may stop: expansions, edits,
reviews, frames and calls are bounded, and a reduction, a search and a reading
return.

**Fairness.** `SourceCache`: a call that runs takes its next step (weak, per
thread); edits and new calls are not fair. `Rehydrate`: a future that is awaited
is polled and its validators return (weak, per call). `GraphPaths`, `GraphWalks`: a
called function runs on (weak). `JobRunner`: a call that is not given up has its
statements return (weak, of `Step`). `WebsocketSession`: the runtime polls the
spawned task (weak, of `run_session`); the client is not fair, and `SessionsEnd`
promises nothing of a client that calls `finish` while more answers are owed than
its channel holds and reads none: the task then waits for it, and it for
the task. The other modules have no liveness and no fairness.

Every property of a passing run has a mutant in `PROJECT.json`: a definition
changed the way a bug would change it (a dropped guard, a late stamp, a missing
reset, a swapped order), under which the same run finds the property violated.

## 4. Theorems

Each is proved for all values of the constants, from the assumptions named in the
modules.

| theorem | statement | inductive invariant |
| --- | --- | --- |
| `MacroProofs!TypeCorrect`, `CacheSoundness` | types; `CurrentEntriesAreTrue` | `Invariance`: every stamp and text a call holds dates from the call or later and not from the future, and an entry stamped with a version's fingerprint holds that version's text or a later one. The property alone says nothing of entries that are not current now but are about to look so |
| `MacroProofs!Refinement` | `SourceCache` implements `ModuleLookup` | the same: an entry that is served has a date between the call's start and now |
| `MacroProofs!ContractsTyped`, `PrimaryLeadsHolds` | contracts name variants; `PrimaryLeads` | `ContractsInv`: every contract kept was accepted for the method at its place. The rest is said of the readings (`PrimaryIsFirst`): at each depth, the walk that collects keeps the first target it has (`InnerKeepsFirst`), and where it has none and the other walk finds one, that becomes the first (`InnerFindsFirst`) |
| `MacroProofs!StrictNeverInventsHolds` | `StrictNeverInvents` | the same, and `PlainReadsLess`: at each depth, of two calls on one type of which one follows no aliases, that one finds nothing the other does not (`InnerFindsNoMore`, `InnerSearchesNoFurther`) |
| `RehydrateProofs!TypeCorrect`, `Refinement` | types; `Rehydrate` implements `RowVerdicts` | `IInv`: the attempts so far are the plan's prefix, each a match only if accepted at some moment and a rejection only if not accepted throughout; `matched` lists the matches |
| `RehydrateProofs!ReportsAccountHolds` | `ReportsAccountForResults` | with `IInv`, `ListOK`: the list of an explain in progress names the hits of its trail in order |
| `RehydrateProofs!OperationsAgreeHolds` | `OperationsAgreeInAQuietWorld` | with both, `QuietInv`: until something changes, every trail tells which states of the plan are accepted. Each report then gives the first of them (`IsVerdict`), and there is one |
| `LoadedRegistryProofs!TypeCorrect`, `FirstPassFollowsTheTextHolds`, `NoStaleBindingHolds` | types; resolution; no stale binding | `Inductive`: one entry per item, no stamp ahead of its file, the current machines of a crate described as its text has them unless it is tainted, the pass is the text while quiet, and in a first quiet pass the current entries are exactly those of the lines so far |
| `LoadedRegistryProofs!AgainTheSameHolds` | `AgainTheSame` | with `Inductive`, `AgainInv`: every current entry describes the text; a machine whose enums are all above it is on record only if it fits them, and once it is behind the expansion it is; each settled outcome so far is as expected. What distinguishes it from a first pass is that entries of lines ahead are there too: `Settled` says which items do not look them up |
| `ReduceGroupedProofs!StreamsDoNotMeet` | each step is, for each key, a step of `ReduceOne` or a stutter | `Inductive`: order, map and events taken have the same keys while no stream failed |
| `ReduceGroupedProofs!FirstSeenOrderHolds` | the output follows first sight | `OrderInv`: each event taken has a stream, and `order` lists the keys of the first events at increasing places |
| `GraphToolsProofs!VerdictIsReachabilityHolds` | the answer is reachability, on any graph | `Invariance`: what is legal from an expanded state is visited or pending, and nothing outside a closed set that holds the source is touched |
| `GraphToolsProofs!EachLegalWalkIsListedOnceHolds` | the listing is exactly the legal walks, in order, for any graph with finitely many states, any stops and depth | `WalksInvariance`: the shared steps and the cursor are a place in the order of all walks, and the list holds the legal walks before that place, in order |
| `GraphToolsProofs!DefaultDepthReachesAllHolds` | the default depth suffices | the same, and the pigeonhole: a walk of as many steps as there are states visits one twice, and what is between can be cut out |
| `GraphToolsProofs!ViewsTellTheGraphHolds` | diagram, matrix, explanation, agent context and lints tell a graph whose sites start at its states, in any order of these | `Invariance`, for the verdict the lint is compared with; of the lint's list, cursor by cursor (`ReachableIs`): no state twice, nothing a path does not lead to, and what is legal from the states before the cursor is listed |
| `RepositoryToolsProofs!TypeCorrect`, `RowsSurviveReviewHolds`, `ReviewKeepsLegalityHolds` | types; what any chain of reviews keeps | `RowsFit`: the row is in a state of the running graph, with its data, and what it took are its edges; `ReviewsLead`: the baseline has the legality the first review saw |
| `RepositoryToolsProofs!PublishedInOrderHolds`, `FinishedRunsPublishAllHolds`, `PublishedTreesAreWholeHolds` | the release scripts, for any versions, publishers, layouts, snippets and number of runs | `ReleaseInvariance`: while the tree is not changed under it, a run past its first check finds every crate at its version and has published those before the one it is at (`RunKept`); it is the committed one (`CleanUnderRuns`); outside the files a bump has still to write, the tree is at one version (`BumpWrites`) |
| `TokioProofs!TypeCorrect`, `LeasesHaveOneHolderHolds`, `OnlyEarlyEndingsAreRefusedHolds`, `IdleMeansSettledHolds` | types; leases, endings, what an idle answer means | `IInv`: a row of each status has what its validator wants (`RowKept`), a call that has a machine it has not written holds a lease newer than any row shows (`HolderKept`), and before the clock is moved nothing can run (`NothingToRun`) |
| `TokioProofs!AnswersFollowTheFramesHolds` | the answers are those the frames call for, in order, for any frames and channels of any capacity | `SessionInvariance`: the machine's phase and data are those the frames read so far call for (`SessionFollows`), and what is about to be sent answers the last of them (`OwesTheLast`). The property says nothing of the machine, and an answer not yet given depends on it |
| `ShowcasesProofs!RowsAlwaysRebuildHolds`, `NoStageIsSkippedHolds`, `KeepThePromiseHolds` | of the pipeline, the reviews and the carts: rows rebuild, no stage is skipped, each implements `StoredWorkflow` | `Invariance`: only rows that rebuild, each has had the stage it shows, and a call about to write has seen the stage its transition starts from; what a row has had stays had, whatever other callers do between |
| `ShowcasesProofs!OnlyOverlapsCorruptHolds`, `BatchAgreesWithSinglesHolds` | the event log, for any number of callers, orders and events | `LogInvariance`: a call that is about to append has either been overtaken on its order or has seen all of it and appends what follows its state (`CallKept`); the one pass agrees with the single loads and every order begins with its created event (`LogKept`); an order without overlaps has had its first stages (`Straight`) |

In `GraphPaths` reachability is stated by closed sets (`t` is reachable from `s`
iff it is in every set that holds `s` and all targets legal from its members).
That is the usual notion, needs no recursion, and lets the proof take the set
of expanded states as its witness. For the same reason `FirstSeenOrder` and
`ReportsAccountForResults` speak of an increasing map from places to places
and not of a filtered sequence. `OrderEvents` has recursive functions for the query
and the reductions, `GraphViews` for the document's walks; that such a function
exists and takes one step more with one element more is proved once in each of the
proof modules that need it, for any step (`RunExists`), by the least place at which it would
fail; the walks over return types, recursive in the depth, are taken through
their depths in the same way (`UpTo`). What the functions of `GraphViews` yield is then known element by element
(`FlattenedHas`, `ChosenHas`, `SightedHas`, `EdgesHas`).

Assumptions. `FingerprintsIdentifyVersions`: two versions with one fingerprint
have one text; the code rests on it, the file system decides it.
`PlanAssumption`: what the collection of validators guarantees, which
`PlansAreTheImpl` checks of `ValidatorPlan` on its instance.
`ContractsAssumption`, `TypesAssumption`: `Types` holds what instantiating an alias
makes of its members (it may be infinite: the set of all types is one), and the
module of an impl is among those whose declarations are known. `MaxDepth` is any
number: a walk that would go deeper is cut off there, both walks alike.
`WalksAssumption`, `SlicesAssumption`: a graph lists finitely many states (they are a
slice). `ViewsAssumption`: `<unknown>` is no state's name and the note of a state
without moves no method's.
`RegistryAssumption`, `GroupedAssumption`, `GraphsAssumption`, `ReviewAssumption`,
`LayoutAssumption`, `JobAssumption`, `ShowcaseAssumption`: the constants' types,
and that their distinguished values are apart.

Model-checked only: `PlainTypesAreExact` and `PlansAreTheImpl` (what a type means to
the compiler is defined by recursion over nested types), `ScansFollowRust` and
`QueriesFindTheItems` (the scanner walks characters), and all liveness (`CacheWarmsUp`,
`EveryRowGetsAReport`, `SearchEnds`, `GenerationEnds`, `CallsReturn`, `SessionsEnd`),
which this prover does not reach.

## 5. Findings

* `cargo-statum/src/main.rs:711`. `docs/graph-diff-migrations.md` (117-118,
  136-140, 211) has a transition's changed label or description reported as
  informational. The code compares them for states only. Run
  `graph_review_presentation`.
* `statum-macros/src/transition/resolve/strategy.rs:227`.
  `docs/introspection-authority.md` (31) says that the strict mode rejects
  wrapper aliases and differently qualified machine paths instead of
  approximating. It does so where the primary target is read; in a later branch
  they are skipped, and the method is accepted without that target:
  `Result<Flow<A>, crate::Flow<B>>` leads to `A` only. Run
  `transition_contracts_strict`.
* `statum-macros/src/source/scan.rs:238`. A quote starts a character literal when
  another quote follows in the same word, so the two lifetimes of
  `get<'a>(&'a self)` read as the literal `'a>(&'`. Its parenthesis is lost, the
  enclosing module is taken to end early, and the items behind are put into the
  module around it, while `source/query.rs` (27) promises the candidates of the
  module asked for. Run `source_reader_borrowing`.

In the default mode, which claims no exactness, a type can also lose targets: an
alias inside its own argument is met as a cycle (`aliases.rs:333`), and the
arguments of an alias are resolved in the alias's module (`aliases.rs:343`).
`PlainTypesAreExact` leaves both out, by `Plain`.

## 6. Not modelled

* *Emission, facade, diagnostics, attribute parsing, benchmarks, toy demos*: no
  state and no order, as said in section 1.
* *Scanner*: in the passing run no word has two lifetimes (the finding); what
  shares a line with the header or the end of a module is promised to nobody;
  `' '` is not known to the code as a character and holds nothing that could
  mislead it; finding the crate's root and fingerprints of items are taken as given.
* *Source cache*: two texts with one fingerprint (`cache.rs:92`), which the code
  cannot tell apart.
* *Registries*: an edit between the two lookups of one expansion
  (`machine/emission/mod.rs:20`), since an expansion is one step; lines left over
  in the cache under older fingerprints, which nothing reads again.
* *Transition contracts*: imports, which the code does not follow either; aliases
  with defaults or parameters other than types; the suggestions of the diagnostics.
* *Validator plan*: payloads that are aliases or that the comparison of types has
  no case for are left out where the answer is compared with the compiler's
  (`Comparable`); states whose names collide compile only as a refusal.
* *Views*: graphs with a site whose source is undeclared, since emission gives
  none; state data, labels and wording.
* *Graph diff*: order and text of the report, reading the files.
* *Showcases*: the contents of texts beyond presence, HTTP and argument parsing,
  SQL errors other than a statement that does not happen.
* *Release*: the shell scripts, the order of the snippets; a failing
  query to crates.io is a failing step.
