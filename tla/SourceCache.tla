----------------------------- MODULE SourceCache -----------------------------
(***************************************************************************)
(* find_module_path and the two process-wide caches behind it              *)
(* (source/module_path.rs, source/cache.rs).  Each cache has an RwLock of  *)
(* its own, taken and released once per access, so the steps of concurrent *)
(* expansions interleave with one another and with edits of the file: the  *)
(* metadata read, each cache access and the read of the text are separate  *)
(* steps.                                                                  *)
(***************************************************************************)
EXTENDS SourceFiles

CONSTANTS Threads, NoRequest, NoEntry, NoFingerprint

VARIABLES
  disk,       \* version of each file (the file system)
  lineCache,  \* LINE_RESULT_CACHE: (file, line) -> fingerprint and path
  fileCache,  \* FILE_MODULE_CACHE: file -> fingerprint and parsed modules
  pc,         \* where each thread is in find_module_path
  request,    \* the arguments of its call; `since` is history
  fp,         \* the local `fingerprint`
  parsed,     \* the local `parsed_file`: the version it was parsed from
  answer      \* the last value returned to the thread

cacheVars == <<lineCache, fileCache>>
localVars == <<fp, parsed>>
vars == <<disk, lineCache, fileCache, pc, request, fp, parsed, answer>>

Lookup == INSTANCE ModuleLookup

\* NoRequest is not the arguments of a call.
ASSUME NoRequestAssumption == NoRequest \notin Requests

CachedLineResult == [fingerprint : Fingerprints, module_path : Paths \cup {NoPath}]

\* The parsed text is a function of the version it was read from.
ParsedFileModules == [fingerprint : Fingerprints, text : Versions]

Labels == {"idle", "stat", "line", "clear", "file", "read", "insert", "store"}

Goto(t, label) == pc' = [pc EXCEPT ![t] = label]

Return(t, path) ==
  /\ Goto(t, "idle")
  /\ answer' = [answer EXCEPT ![t] = path]
  /\ request' = [request EXCEPT ![t] = NoRequest]
  /\ fp' = [fp EXCEPT ![t] = NoFingerprint]
  /\ parsed' = [parsed EXCEPT ![t] = 0]

-----------------------------------------------------------------------------
\* The editor, version control or a code generator writes the file.
Edit(f) ==
  /\ disk[f] < MaxVersion
  /\ disk' = [disk EXCEPT ![f] = @ + 1]
  /\ UNCHANGED <<cacheVars, localVars, pc, request, answer>>

Call(t, f, l) ==
  /\ pc[t] = "idle"
  /\ Goto(t, "stat")
  /\ request' = [request EXCEPT ![t] = [file |-> f, line |-> l, since |-> disk[f]]]
  /\ UNCHANGED <<disk, cacheVars, localVars, answer>>

\* Mutant: the fingerprint tells more than the text, as an access time would.
file_fingerprint_Unstable(t) ==
  /\ pc[t] = "stat"
  /\ \E fingerprint \in Fingerprints : fp' = [fp EXCEPT ![t] = fingerprint]
  /\ Goto(t, "line")
  /\ UNCHANGED <<disk, cacheVars, parsed, request, answer>>

\* file_fingerprint(..)?
file_fingerprint(t) ==
  LET v == disk[request[t].file]
  IN  /\ pc[t] = "stat"
      /\ \/ /\ v \in Present
            /\ fp' = [fp EXCEPT ![t] = FingerprintOf[v]]
            /\ Goto(t, "line")
            /\ UNCHANGED <<parsed, request, answer>>
         \/ /\ v \notin Present
            /\ Return(t, NoPath)
      /\ UNCHANGED <<disk, cacheVars>>

\* Mutant: whatever is cached is fresh.
cached_line_result_Unstamped(t) ==
  LET cached == lineCache[request[t].file][request[t].line]
  IN  /\ pc[t] = "line"
      /\ \/ /\ cached # NoEntry
            /\ Return(t, cached.module_path)
         \/ /\ cached = NoEntry
            /\ Goto(t, "file")
            /\ UNCHANGED <<localVars, request, answer>>
      /\ UNCHANGED <<disk, cacheVars>>

\* Fresh returns at once, Stale goes on to drop the lines, Missing does not.
cached_line_result(t) ==
  LET cached == lineCache[request[t].file][request[t].line]
  IN  /\ pc[t] = "line"
      /\ \/ /\ cached # NoEntry
            /\ cached.fingerprint = fp[t]
            /\ Return(t, cached.module_path)
         \/ /\ cached # NoEntry
            /\ cached.fingerprint # fp[t]
            /\ Goto(t, "clear")
            /\ UNCHANGED <<localVars, request, answer>>
         \/ /\ cached = NoEntry
            /\ Goto(t, "file")
            /\ UNCHANGED <<localVars, request, answer>>
      /\ UNCHANGED <<disk, cacheVars>>

clear_line_cache_for_file(t) ==
  /\ pc[t] = "clear"
  /\ lineCache' = [lineCache EXCEPT ![request[t].file] = [l \in Lines |-> NoEntry]]
  /\ Goto(t, "file")
  /\ UNCHANGED <<disk, fileCache, localVars, request, answer>>

\* The first lock of get_or_parse_file_modules.
cached_file_modules(t) ==
  LET cached == fileCache[request[t].file]
  IN  /\ pc[t] = "file"
      /\ IF cached # NoEntry /\ cached.fingerprint = fp[t]
         THEN /\ parsed' = [parsed EXCEPT ![t] = cached.text]
              /\ Goto(t, "store")
         ELSE /\ Goto(t, "read")
              /\ UNCHANGED parsed
      /\ UNCHANGED <<disk, cacheVars, fp, request, answer>>

\* The text is read now, whatever the fingerprint was taken from.
parse_file_modules(t) ==
  LET v == disk[request[t].file]
  IN  /\ pc[t] = "read"
      /\ \/ /\ v \in Readable
            /\ parsed' = [parsed EXCEPT ![t] = v]
            /\ Goto(t, "insert")
            /\ UNCHANGED <<fp, request, answer>>
         \/ /\ v \notin Readable
            /\ Return(t, NoPath)
      /\ UNCHANGED <<disk, cacheVars>>

\* Mutant: the text is stamped with the fingerprint the file has afterwards.
insert_file_modules_LateStamp(t) ==
  /\ pc[t] = "insert"
  /\ fileCache' = [fileCache EXCEPT ![request[t].file] =
                     [fingerprint |-> FingerprintOf[disk[request[t].file]], text |-> parsed[t]]]
  /\ Goto(t, "store")
  /\ UNCHANGED <<disk, lineCache, localVars, request, answer>>

\* The second lock of get_or_parse_file_modules.
insert_file_modules(t) ==
  /\ pc[t] = "insert"
  /\ fileCache' = [fileCache EXCEPT ![request[t].file] =
                     [fingerprint |-> fp[t], text |-> parsed[t]]]
  /\ Goto(t, "store")
  /\ UNCHANGED <<disk, lineCache, localVars, request, answer>>

store_line_result(t) ==
  LET resolved == PathAt[parsed[t]][request[t].line]
  IN  /\ pc[t] = "store"
      /\ lineCache' = [lineCache EXCEPT ![request[t].file][request[t].line] =
                         [fingerprint |-> fp[t], module_path |-> resolved]]
      /\ Return(t, resolved)
      /\ UNCHANGED <<disk, fileCache>>

-----------------------------------------------------------------------------
Init ==
  /\ disk = [f \in Files |-> 0]
  /\ lineCache = [f \in Files |-> [l \in Lines |-> NoEntry]]
  /\ fileCache = [f \in Files |-> NoEntry]
  /\ pc = [t \in Threads |-> "idle"]
  /\ request = [t \in Threads |-> NoRequest]
  /\ fp = [t \in Threads |-> NoFingerprint]
  /\ parsed = [t \in Threads |-> 0]
  /\ answer = [t \in Threads |-> NoPath]

\* The steps of a call in progress.
find_module_path(t) ==
  \/ file_fingerprint(t)
  \/ cached_line_result(t)
  \/ clear_line_cache_for_file(t)
  \/ cached_file_modules(t)
  \/ parse_file_modules(t)
  \/ insert_file_modules(t)
  \/ store_line_result(t)

Next ==
  \/ \E f \in Files : Edit(f)
  \/ \E t \in Threads, f \in Files, l \in Lines : Call(t, f, l)
  \/ \E t \in Threads : find_module_path(t)

Spec == Init /\ [][Next]_vars

\* A running expansion keeps running; nobody has to call or to edit.
FairSpec == Spec /\ \A t \in Threads : WF_vars(find_module_path(t))

-----------------------------------------------------------------------------
TypeOK ==
  /\ disk \in [Files -> Versions]
  /\ lineCache \in [Files -> [Lines -> CachedLineResult \cup {NoEntry}]]
  /\ fileCache \in [Files -> ParsedFileModules \cup {NoEntry}]
  /\ pc \in [Threads -> Labels]
  /\ request \in [Threads -> Requests \cup {NoRequest}]
  /\ fp \in [Threads -> Fingerprints \cup {NoFingerprint}]
  /\ parsed \in [Threads -> Versions]
  /\ answer \in [Threads -> Paths \cup {NoPath}]

\* An entry stamped with the fingerprint the file has now holds what the file
\* says now, although fingerprint and text are read at different moments and a
\* slow thread may overwrite a newer entry with an older one
\* (cache.rs:54-73 and 105-131 trust an entry whose fingerprint matches).
CurrentEntriesAreTrue ==
  \A f \in Files : disk[f] \in Present =>
    /\ \A l \in Lines :
         lineCache[f][l] # NoEntry /\ lineCache[f][l].fingerprint = FingerprintOf[disk[f]]
           => lineCache[f][l].module_path = PathIn(disk[f], l)
    /\ fileCache[f] # NoEntry /\ fileCache[f].fingerprint = FingerprintOf[disk[f]]
           => fileCache[f].text = disk[f]

\* Every answer of find_module_path, cached or not, comes from a version the
\* file had during the call: caching is invisible (module_path.rs:42-69).
AnswersFromACurrentText == Lookup!Spec

\* Once the file has settled on a readable text, the calls still in flight
\* drain and from then on nobody reads the text again: stragglers that put an
\* old fingerprint back do not keep the cache cold (cache.rs:105-131).
CacheWarmsUp ==
  (\A f \in Files : <>[](disk[f] \in Readable))
    => <>[](\A t \in Threads : pc[t] # "read")

=============================================================================
