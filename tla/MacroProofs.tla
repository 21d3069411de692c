----------------------------- MODULE MacroProofs -----------------------------
(***************************************************************************)
(* What the macros know of the source, for any number of threads, files,   *)
(* lines and versions: the types of SourceCache, the soundness of both     *)
(* caches, that SourceCache implements ModuleLookup; and for any impl and  *)
(* any aliases, what the contracts of TransitionContracts promise.         *)
(*                                                                         *)
(* CurrentEntriesAreTrue is not inductive: it says nothing of an entry     *)
(* whose fingerprint is an old one, nor of the entry a thread is about to  *)
(* store.  The inductive invariant dates every entry and every call: its   *)
(* fingerprint belongs to a version v, its text to a version w, and        *)
(* v <= w <= the version on disk, because the metadata is always read      *)
(* before the text and versions only grow.  When v is the version on disk, *)
(* w must be it too.                                                       *)
(*                                                                         *)
(* PrimaryLeads and StrictNeverInvents follow from ContractsInv, every     *)
(* contract kept was accepted for the method at its place, and from two    *)
(* facts about reading a return type, each by induction on the depth: the  *)
(* two walks find the same first target, and a walk that follows aliases   *)
(* finds what the walk without them finds.                                 *)
(***************************************************************************)
EXTENDS SourceCache, TransitionContracts, WellFoundedInduction, TLAPS

\* v is a version whose metadata is x.
StampedBy(x, v) == v \in Present /\ FingerprintOf[v] = x

LineEntrySound(e, f, l) ==
  \E v \in Versions, w \in Versions :
    /\ StampedBy(e.fingerprint, v)
    /\ w \in Readable
    /\ v <= w
    /\ w <= disk[f]
    /\ e.module_path = PathAt[w][l]

FileEntrySound(e, f) ==
  \E v \in Versions :
    /\ StampedBy(e.fingerprint, v)
    /\ e.text \in Readable
    /\ v <= e.text
    /\ e.text <= disk[f]

\* What is known of a call that is past its metadata read.
CallSound(t) ==
  /\ pc[t] = "idle" <=> request[t] = NoRequest
  /\ pc[t] # "idle" =>
       /\ request[t] \in Requests
       /\ request[t].since <= disk[request[t].file]
  /\ pc[t] \notin {"idle", "stat"} =>
       \E v \in Versions :
         /\ StampedBy(fp[t], v)
         /\ request[t].since <= v
         /\ v <= disk[request[t].file]
         /\ pc[t] \in {"insert", "store"} =>
              /\ parsed[t] \in Readable
              /\ v <= parsed[t]
              /\ parsed[t] <= disk[request[t].file]

LinesSound == \A f \in Files, l \in Lines :
  lineCache[f][l] # NoEntry => LineEntrySound(lineCache[f][l], f, l)

FilesSound == \A f \in Files :
  fileCache[f] # NoEntry => FileEntrySound(fileCache[f], f)

CallsSound == \A t \in Threads : CallSound(t)

IInv == TypeOK /\ LinesSound /\ FilesSound /\ CallsSound

USE VersionsAssumption DEF Versions

-----------------------------------------------------------------------------
LEMMA InitIInv == Init => IInv
  BY DEF Init, IInv, TypeOK, LinesSound, FilesSound, CallsSound, CallSound,
         Labels

\* Types are preserved by every step.
LEMMA NextTypeOK == TypeOK /\ CallsSound /\ [Next]_vars => TypeOK'
<1> SUFFICES ASSUME TypeOK, CallsSound, [Next]_vars PROVE TypeOK'
  OBVIOUS
<1> USE DEF TypeOK, Labels, Goto, Return, cacheVars, localVars, CachedLineResult,
            ParsedFileModules, Requests
<1>1. ASSUME NEW f \in Files, Edit(f) PROVE TypeOK'
  BY <1>1 DEF Edit
<1>2. ASSUME NEW t \in Threads, NEW f \in Files, NEW l \in Lines, Call(t, f, l)
      PROVE  TypeOK'
  BY <1>2 DEF Call
<1>3. ASSUME NEW t \in Threads, find_module_path(t) PROVE TypeOK'
  <2>0. pc[t] # "idle" /\ request[t] \in Requests
    BY <1>3 DEF CallsSound, CallSound, find_module_path, file_fingerprint,
       cached_line_result, clear_line_cache_for_file, cached_file_modules,
       parse_file_modules, insert_file_modules, store_line_result
  <2> DEFINE f == request[t].file
             l == request[t].line
             cached == lineCache[f][l]
  <2>a. f \in Files /\ l \in Lines /\ disk[f] \in 0 .. MaxVersion
    BY <2>0
  <2>b. FingerprintOf[disk[f]] \in Fingerprints
    BY <2>a
  <2>c. cached # NoEntry => cached.module_path \in Paths \cup {NoPath}
    BY <2>a
  <2> HIDE DEF f, l, cached
  <2>1. CASE file_fingerprint(t)
    <3>1. CASE fp' = [fp EXCEPT ![t] = FingerprintOf[disk[f]]] /\ Goto(t, "line")
               /\ UNCHANGED <<parsed, request, answer>>
      BY <2>1, <2>b, <3>1 DEF file_fingerprint
    <3>2. CASE Return(t, NoPath)
      BY <2>1, <3>2 DEF file_fingerprint
    <3> QED
      BY <2>1, <3>1, <3>2 DEF file_fingerprint, f
  <2>2. CASE cached_line_result(t)
    <3>1. CASE cached # NoEntry /\ Return(t, cached.module_path)
      BY <2>2, <2>c, <3>1 DEF cached_line_result
    <3>2. CASE UNCHANGED <<localVars, request, answer>>
      BY <2>2, <3>2 DEF cached_line_result
    <3> QED
      BY <2>2, <3>1, <3>2 DEF cached_line_result, f, l, cached
  <2>3. CASE clear_line_cache_for_file(t)
    BY <2>0, <2>3 DEF clear_line_cache_for_file
  <2>4. CASE cached_file_modules(t)
    BY <2>0, <2>4 DEF cached_file_modules
  <2>5. CASE parse_file_modules(t)
    <3>1. CASE parsed' = [parsed EXCEPT ![t] = disk[f]] /\ Goto(t, "insert")
               /\ UNCHANGED <<fp, request, answer>>
      BY <2>5, <2>a, <3>1 DEF parse_file_modules
    <3>2. CASE Return(t, NoPath)
      BY <2>5, <3>2 DEF parse_file_modules
    <3> QED
      BY <2>5, <3>1, <3>2 DEF parse_file_modules, f
  <2>6. CASE insert_file_modules(t)
    BY <2>0, <2>6 DEF insert_file_modules, CallsSound, CallSound, StampedBy
  <2>7. CASE store_line_result(t)
    <3> DEFINE resolved == PathAt[parsed[t]][l]
    <3>0. fp[t] \in Fingerprints /\ parsed[t] \in 0 .. MaxVersion
      BY <2>7 DEF store_line_result, CallsSound, CallSound, StampedBy
    <3>1. fp[t] \in Fingerprints /\ resolved \in Paths \cup {NoPath}
      BY <3>0, <2>a
    <3> HIDE DEF resolved
    <3>2. Return(t, resolved)
      BY <2>7 DEF store_line_result, resolved, l
    <3>3. lineCache' = [lineCache EXCEPT ![f][l] =
                          [fingerprint |-> fp[t], module_path |-> resolved]]
      BY <2>7 DEF store_line_result, resolved, f, l
    <3>4. lineCache' \in [Files -> [Lines -> CachedLineResult \cup {NoEntry}]]
      BY <3>1, <3>3, <2>a
    <3>5. answer' \in [Threads -> Paths \cup {NoPath}]
      BY <3>1, <3>2
    <3> QED
      BY <2>7, <3>2, <3>4, <3>5 DEF store_line_result
  <2> QED
    BY <1>3, <2>1, <2>2, <2>3, <2>4, <2>5, <2>6, <2>7 DEF find_module_path
<1>4. CASE UNCHANGED vars
  BY <1>4 DEF vars
<1> QED
  BY <1>1, <1>2, <1>3, <1>4 DEF Next

LEMMA TwoStamps ==
  ASSUME NEW x, NEW v, NEW w, StampedBy(x, v), StampedBy(x, w)
  PROVE  v = w
  BY FingerprintsIdentifyVersions DEF StampedBy

\* Files only move on: what was dated stays dated.
LEMMA EntriesStaySound ==
  ASSUME TypeOK, disk' \in [Files -> Versions],
         \A f \in Files : disk[f] <= disk'[f]
  PROVE  /\ LinesSound /\ UNCHANGED lineCache => LinesSound'
         /\ FilesSound /\ UNCHANGED fileCache => FilesSound'
<1>1. ASSUME LinesSound, UNCHANGED lineCache,
             NEW f \in Files, NEW l \in Lines, lineCache[f][l] # NoEntry
      PROVE  LineEntrySound(lineCache[f][l], f, l)'
  BY <1>1 DEF LinesSound, LineEntrySound, TypeOK, StampedBy
<1>2. ASSUME FilesSound, UNCHANGED fileCache,
             NEW f \in Files, fileCache[f] # NoEntry
      PROVE  FileEntrySound(fileCache[f], f)'
  <2> DEFINE w == fileCache[f].text
  <2>1. PICK v \in Versions : /\ StampedBy(fileCache[f].fingerprint, v)
                              /\ w \in Readable /\ v <= w /\ w <= disk[f]
    BY <1>2 DEF FilesSound, FileEntrySound
  <2> HIDE DEF w
  <2>2. w \in Versions /\ w <= disk'[f]
    BY <2>1 DEF TypeOK
  <2> QED
    BY <1>2, <2>1, <2>2 DEF FileEntrySound, StampedBy, w
<1> QED
  BY <1>1, <1>2 DEF LinesSound, FilesSound

\* A step of t leaves the calls of the other threads alone.
LEMMA OtherCallsStaySound ==
  ASSUME NEW t \in Threads, CallsSound, UNCHANGED disk, CallSound(t)',
         \A u \in Threads \ {t} : /\ pc'[u] = pc[u]
                                  /\ request'[u] = request[u]
                                  /\ fp'[u] = fp[u]
                                  /\ parsed'[u] = parsed[u]
  PROVE  CallsSound'
  BY DEF CallsSound, CallSound, StampedBy

-----------------------------------------------------------------------------
LEMMA EditIInv ==
  ASSUME IInv, NEW f \in Files, Edit(f), TypeOK'
  PROVE  IInv'
<1> USE DEF IInv, Edit, cacheVars, localVars
<1>1. \A g \in Files : disk[g] <= disk'[g]
  BY DEF TypeOK
<1>2. LinesSound' /\ FilesSound'
  BY <1>1, EntriesStaySound DEF TypeOK
<1>3. ASSUME NEW t \in Threads PROVE CallSound(t)'
  <2>1. CallSound(t)
    BY DEF CallsSound
  <2> QED
    BY <1>1, <2>1 DEF CallSound, StampedBy, TypeOK, Requests
<1> QED
  BY <1>2, <1>3 DEF CallsSound

LEMMA CallIInv ==
  ASSUME IInv, NEW t \in Threads, NEW f \in Files, NEW l \in Lines,
         Call(t, f, l), TypeOK'
  PROVE  IInv'
<1> USE DEF IInv, Call, cacheVars, localVars, Goto
<1>1. LinesSound' /\ FilesSound'
  BY EntriesStaySound DEF TypeOK
<1>2. CallSound(t)'
  <2>1. /\ pc'[t] = "stat"
        /\ request'[t] = [file |-> f, line |-> l, since |-> disk[f]]
        /\ request'[t] \in Requests
    BY DEF TypeOK, Requests
  <2> QED
    BY <2>1, NoRequestAssumption DEF CallSound, TypeOK
<1> QED
  BY <1>1, <1>2, OtherCallsStaySound DEF TypeOK

\* What every step of a call starts from.
LEMMA InCall ==
  ASSUME IInv, NEW t \in Threads, pc[t] # "idle"
  PROVE  /\ request[t] \in Requests
         /\ request[t].file \in Files
         /\ request[t].line \in Lines
         /\ request[t].since \in 0 .. MaxVersion
         /\ disk[request[t].file] \in 0 .. MaxVersion
         /\ request[t].since <= disk[request[t].file]
  BY DEF IInv, TypeOK, CallsSound, CallSound, Requests

\* A call that returns has nothing left to be sound about.
LEMMA ReturnSound ==
  ASSUME IInv, NEW t \in Threads, NEW path, Return(t, path), UNCHANGED disk
  PROVE  CallsSound'
<1>1. pc'[t] = "idle" /\ request'[t] = NoRequest
  BY DEF IInv, TypeOK, Return, Goto
<1>2. CallSound(t)'
  BY <1>1 DEF CallSound
<1> QED
  BY <1>2, OtherCallsStaySound DEF IInv, TypeOK, Return, Goto

LEMMA StatIInv ==
  ASSUME IInv, NEW t \in Threads, file_fingerprint(t), TypeOK'
  PROVE  IInv'
<1> USE DEF cacheVars, localVars
<1> DEFINE v == disk[request[t].file]
<1>0. pc[t] = "stat" /\ UNCHANGED <<disk, lineCache, fileCache>>
  BY DEF file_fingerprint
<1>1. LinesSound' /\ FilesSound'
  BY <1>0, EntriesStaySound DEF IInv, TypeOK
<1>2. CASE /\ v \in Present
           /\ fp' = [fp EXCEPT ![t] = FingerprintOf[v]]
           /\ Goto(t, "line")
           /\ UNCHANGED <<parsed, request, answer>>
  <2>1. CallSound(t)'
    <3>1. pc'[t] = "line" /\ StampedBy(fp'[t], v) /\ UNCHANGED <<disk, request>>
      BY <1>0, <1>2 DEF IInv, TypeOK, Goto, StampedBy
    <3>2. request[t] # NoRequest /\ request[t] \in Requests
          /\ request[t].since <= v /\ v \in Versions
      BY <1>0, InCall, NoRequestAssumption
    <3> HIDE DEF v
    <3>3. \E x \in Versions : StampedBy(fp'[t], x) /\ request[t].since <= x /\ x <= v
      BY <3>1, <3>2
    <3> QED
      BY <3>1, <3>2, <3>3 DEF CallSound, StampedBy, v
  <2> QED
    BY <1>0, <1>1, <1>2, <2>1, OtherCallsStaySound DEF IInv, TypeOK, Goto
<1>3. CASE Return(t, NoPath)
  BY <1>0, <1>1, <1>3, ReturnSound DEF IInv
<1> QED
  BY <1>2, <1>3 DEF file_fingerprint

\* A step that only moves the program counter past the metadata read and
\* before the parse.
LEMMA MoveSound ==
  ASSUME IInv, NEW t \in Threads, NEW label \in {"clear", "file", "read"},
         pc[t] \in {"line", "clear", "file"}, Goto(t, label),
         UNCHANGED <<disk, request, fp, parsed>>
  PROVE  CallsSound'
<1>1. pc'[t] = label
  BY DEF IInv, TypeOK, Goto
<1>2. CallSound(t)'
  BY <1>1 DEF IInv, CallsSound, CallSound, StampedBy
<1> QED
  BY <1>2, OtherCallsStaySound DEF IInv, TypeOK, Goto

LEMMA LineIInv ==
  ASSUME IInv, NEW t \in Threads, cached_line_result(t), TypeOK'
  PROVE  IInv'
<1> USE DEF cacheVars, localVars
<1> DEFINE cached == lineCache[request[t].file][request[t].line]
<1>0. pc[t] = "line" /\ UNCHANGED <<disk, lineCache, fileCache>>
  BY DEF cached_line_result
<1>1. LinesSound' /\ FilesSound'
  BY <1>0, EntriesStaySound DEF IInv, TypeOK
<1>2. CASE Return(t, cached.module_path)
  BY <1>0, <1>1, <1>2, ReturnSound DEF IInv
<1>3. CASE (Goto(t, "clear") \/ Goto(t, "file")) /\ UNCHANGED <<localVars, request>>
  BY <1>0, <1>1, <1>3, MoveSound DEF IInv
<1> QED
  BY <1>2, <1>3 DEF cached_line_result

LEMMA ClearIInv ==
  ASSUME IInv, NEW t \in Threads, clear_line_cache_for_file(t), TypeOK'
  PROVE  IInv'
<1> USE DEF clear_line_cache_for_file, localVars
<1>1. FilesSound'
  BY EntriesStaySound DEF IInv, TypeOK
<1>2. \A f \in Files, l \in Lines :
        lineCache'[f][l] = NoEntry \/ lineCache'[f][l] = lineCache[f][l]
  BY DEF IInv, TypeOK
<1>3. LinesSound'
  BY <1>2 DEF IInv, LinesSound, LineEntrySound, StampedBy
<1> QED
  BY <1>1, <1>3, MoveSound DEF IInv

LEMMA FileIInv ==
  ASSUME IInv, NEW t \in Threads, cached_file_modules(t), TypeOK'
  PROVE  IInv'
<1> USE DEF cacheVars
<1> DEFINE f == request[t].file
           cached == fileCache[f]
<1>0. pc[t] = "file" /\ UNCHANGED <<disk, lineCache, fileCache, fp, request, answer>>
  BY DEF cached_file_modules
<1>1. LinesSound' /\ FilesSound'
  BY <1>0, EntriesStaySound DEF IInv, TypeOK
<1>2. CASE /\ cached # NoEntry
           /\ cached.fingerprint = fp[t]
           /\ parsed' = [parsed EXCEPT ![t] = cached.text]
           /\ Goto(t, "store")
  <2>1. f \in Files /\ request[t] \in Requests /\ request[t].since <= disk[f]
    BY <1>0, InCall
  <2>2. PICK v \in Versions : /\ StampedBy(fp[t], v) /\ request[t].since <= v
                             /\ v <= disk[f]
    BY <1>0 DEF IInv, CallsSound, CallSound
  <2>3. PICK w \in Versions : /\ StampedBy(fp[t], w) /\ cached.text \in Readable
                             /\ w <= cached.text /\ cached.text <= disk[f]
    BY <1>2, <2>1 DEF IInv, FilesSound, FileEntrySound
  <2>4. v = w
    BY <2>2, <2>3, TwoStamps
  <2>5. pc'[t] = "store" /\ parsed'[t] = cached.text
    BY <1>2 DEF IInv, TypeOK, Goto
  <2>6. CallSound(t)'
    BY <1>0, <2>1, <2>2, <2>3, <2>4, <2>5, NoRequestAssumption
    DEF CallSound, StampedBy
  <2> QED
    BY <1>0, <1>1, <1>2, <2>6, OtherCallsStaySound DEF IInv, TypeOK, Goto
<1>3. CASE Goto(t, "read") /\ UNCHANGED parsed
  BY <1>0, <1>1, <1>3, MoveSound DEF IInv
<1> QED
  BY <1>2, <1>3 DEF cached_file_modules

LEMMA ReadIInv ==
  ASSUME IInv, NEW t \in Threads, parse_file_modules(t), TypeOK'
  PROVE  IInv'
<1> USE DEF cacheVars
<1> DEFINE d == disk[request[t].file]
<1>0. pc[t] = "read" /\ UNCHANGED <<disk, lineCache, fileCache>>
  BY DEF parse_file_modules
<1>1. LinesSound' /\ FilesSound'
  BY <1>0, EntriesStaySound DEF IInv, TypeOK
<1>2. CASE /\ d \in Readable
           /\ parsed' = [parsed EXCEPT ![t] = d]
           /\ Goto(t, "insert")
           /\ UNCHANGED <<fp, request, answer>>
  <2>1. request[t] \in Requests /\ request[t].since <= d /\ d \in Versions
    BY <1>0, InCall
  <2>2. PICK v \in Versions : /\ StampedBy(fp[t], v) /\ request[t].since <= v /\ v <= d
    BY <1>0 DEF IInv, CallsSound, CallSound
  <2>3. pc'[t] = "insert" /\ parsed'[t] = d
    BY <1>2 DEF IInv, TypeOK, Goto
  <2>4. CallSound(t)'
    BY <1>0, <1>2, <2>1, <2>2, <2>3, NoRequestAssumption DEF CallSound, StampedBy
  <2> QED
    BY <1>0, <1>1, <1>2, <2>4, OtherCallsStaySound DEF IInv, TypeOK, Goto
<1>3. CASE Return(t, NoPath)
  BY <1>0, <1>1, <1>3, ReturnSound DEF IInv
<1> QED
  BY <1>2, <1>3 DEF parse_file_modules

\* What a thread that is about to store knows of what it stores.
LEMMA StoredEntrySound ==
  ASSUME IInv, NEW t \in Threads, pc[t] \in {"insert", "store"}
  PROVE  \E v \in Versions :
           /\ StampedBy(fp[t], v)
           /\ request[t].since <= v
           /\ parsed[t] \in Readable
           /\ v <= parsed[t]
           /\ parsed[t] <= disk[request[t].file]
  BY DEF IInv, CallsSound, CallSound

LEMMA ParsedDuringCall ==
  ASSUME IInv, NEW t \in Threads, pc[t] \in {"insert", "store"}
  PROVE  request[t].since <= parsed[t]
<1> DEFINE since == request[t].since
           text == parsed[t]
<1>1. PICK v \in Versions : since <= v /\ text \in Readable /\ v <= text
  BY StoredEntrySound
<1>2. since \in Versions /\ text \in Versions
  BY <1>1, InCall
<1> HIDE DEF since, text
<1>3. since <= text
  BY <1>1, <1>2
<1> QED
  BY <1>3 DEF since, text

LEMMA InsertIInv ==
  ASSUME IInv, NEW t \in Threads, insert_file_modules(t), TypeOK'
  PROVE  IInv'
<1> USE DEF insert_file_modules, localVars
<1> DEFINE f == request[t].file
<1>1. LinesSound'
  BY EntriesStaySound DEF IInv, TypeOK
<1>2. f \in Files /\ request[t] \in Requests /\ request[t].since <= disk[f]
  BY InCall
<1>3. PICK v \in Versions : /\ StampedBy(fp[t], v) /\ request[t].since <= v
                           /\ parsed[t] \in Readable /\ v <= parsed[t]
                           /\ parsed[t] <= disk[f]
  BY StoredEntrySound
<1>4. \A g \in Files : fileCache'[g] =
        IF g = f THEN [fingerprint |-> fp[t], text |-> parsed[t]] ELSE fileCache[g]
  BY <1>2 DEF IInv, TypeOK
<1>5. FilesSound'
  <2> SUFFICES ASSUME NEW g \in Files, fileCache'[g] # NoEntry
               PROVE  FileEntrySound(fileCache[g], g)'
    BY DEF FilesSound
  <2>1. CASE g = f
    BY <1>3, <1>4, <2>1 DEF FileEntrySound, StampedBy
  <2>2. CASE g # f
    BY <1>4, <2>2 DEF IInv, FilesSound, FileEntrySound, StampedBy
  <2> QED
    BY <2>1, <2>2
<1>6. pc'[t] = "store"
  BY DEF IInv, TypeOK, Goto
<1>7. CallSound(t)'
  BY <1>2, <1>3, <1>6, NoRequestAssumption DEF CallSound, StampedBy, IInv, TypeOK
<1> QED
  BY <1>1, <1>5, <1>7, OtherCallsStaySound DEF IInv, TypeOK, Goto

LEMMA StoreIInv ==
  ASSUME IInv, NEW t \in Threads, store_line_result(t), TypeOK'
  PROVE  IInv'
<1> DEFINE f == request[t].file
           l == request[t].line
           entry == [fingerprint |-> fp[t], module_path |-> PathAt[parsed[t]][l]]
<1>0. /\ pc[t] = "store"
      /\ lineCache' = [lineCache EXCEPT ![f][l] = entry]
      /\ Return(t, PathAt[parsed[t]][l])
      /\ UNCHANGED <<disk, fileCache>>
  BY DEF store_line_result
<1>1. FilesSound'
  BY <1>0, EntriesStaySound DEF IInv, TypeOK
<1>2. f \in Files /\ l \in Lines
  BY <1>0, InCall
<1>3. PICK v \in Versions : /\ StampedBy(fp[t], v)
                           /\ parsed[t] \in Readable /\ v <= parsed[t]
                           /\ parsed[t] <= disk[f]
  BY <1>0, StoredEntrySound
<1>4. \A g \in Files, k \in Lines : lineCache'[g][k] =
        IF g = f /\ k = l THEN entry ELSE lineCache[g][k]
  BY <1>0, <1>2 DEF IInv, TypeOK
<1>5. LinesSound'
  <2> SUFFICES ASSUME NEW g \in Files, NEW k \in Lines, lineCache'[g][k] # NoEntry
               PROVE  LineEntrySound(lineCache[g][k], g, k)'
    BY DEF LinesSound
  <2>1. CASE g = f /\ k = l
    <3>1. /\ lineCache'[g][k].fingerprint = fp[t]
          /\ lineCache'[g][k].module_path = PathAt[parsed[t]][k]
          /\ disk'[g] = disk[f]
      BY <1>0, <1>4, <2>1
    <3> QED
      BY <1>3, <3>1 DEF LineEntrySound, StampedBy
  <2>2. CASE ~(g = f /\ k = l)
    BY <1>0, <1>4, <2>2 DEF IInv, LinesSound, LineEntrySound, StampedBy
  <2> QED
    BY <2>1, <2>2
<1> QED
  BY <1>0, <1>1, <1>5, ReturnSound DEF IInv

LEMMA NextIInv == IInv /\ [Next]_vars => IInv'
<1> SUFFICES ASSUME IInv, [Next]_vars PROVE IInv'
  OBVIOUS
<1>0. TypeOK'
  BY NextTypeOK DEF IInv
<1>1. ASSUME NEW f \in Files, Edit(f) PROVE IInv'
  BY <1>0, <1>1, EditIInv
<1>2. ASSUME NEW t \in Threads, NEW f \in Files, NEW l \in Lines, Call(t, f, l)
      PROVE  IInv'
  BY <1>0, <1>2, CallIInv
<1>3. ASSUME NEW t \in Threads, find_module_path(t) PROVE IInv'
  BY <1>0, <1>3, StatIInv, LineIInv, ClearIInv, FileIInv, ReadIInv, InsertIInv,
     StoreIInv DEF find_module_path
<1>4. CASE UNCHANGED vars
  BY <1>4 DEF vars, IInv, TypeOK, LinesSound, LineEntrySound, FilesSound,
     FileEntrySound, CallsSound, CallSound, StampedBy
<1> QED
  BY <1>1, <1>2, <1>3, <1>4 DEF Next

-----------------------------------------------------------------------------
\* The inductive invariant holds throughout (cache.rs, module_path.rs).
THEOREM Invariance == Spec => []IInv
<1>1. Init => IInv
  BY InitIInv
<1>2. IInv /\ [Next]_vars => IInv'
  BY NextIInv
<1> QED
  BY <1>1, <1>2, PTL DEF Spec

\* Every variable of find_module_path and of its caches keeps its type.
THEOREM TypeCorrect == Spec => []TypeOK
<1>1. IInv => TypeOK
  BY DEF IInv
<1> QED
  BY <1>1, Invariance, PTL

\* An entry of either cache whose fingerprint is the one the file has now holds
\* what the file says now (cache.rs:54-73, 105-131).
THEOREM CacheSoundness == Spec => []CurrentEntriesAreTrue
<1>1. IInv => CurrentEntriesAreTrue
  <2> SUFFICES ASSUME IInv, NEW f \in Files, disk[f] \in Present
               PROVE  /\ \A l \in Lines :
                           lineCache[f][l] # NoEntry
                           /\ lineCache[f][l].fingerprint = FingerprintOf[disk[f]]
                             => lineCache[f][l].module_path = PathIn(disk[f], l)
                      /\ fileCache[f] # NoEntry
                         /\ fileCache[f].fingerprint = FingerprintOf[disk[f]]
                           => fileCache[f].text = disk[f]
    BY DEF CurrentEntriesAreTrue
  <2> DEFINE d == disk[f]
  <2>0. d \in Versions /\ StampedBy(FingerprintOf[d], d)
    BY DEF IInv, TypeOK, StampedBy
  <2>1. ASSUME NEW l \in Lines, lineCache[f][l] # NoEntry,
               lineCache[f][l].fingerprint = FingerprintOf[d]
        PROVE  lineCache[f][l].module_path = PathIn(d, l)
    <3>1. PICK v \in Versions, w \in Versions :
            /\ StampedBy(FingerprintOf[d], v) /\ w \in Readable
            /\ v <= w /\ w <= d /\ lineCache[f][l].module_path = PathAt[w][l]
      BY <2>1 DEF IInv, LinesSound, LineEntrySound
    <3>2. v = d
      BY <2>0, <3>1, TwoStamps
    <3>3. w = d
      BY <2>0, <3>1, <3>2
    <3> QED
      BY <3>1, <3>3 DEF PathIn
  <2>2. ASSUME fileCache[f] # NoEntry,
               fileCache[f].fingerprint = FingerprintOf[d]
        PROVE  fileCache[f].text = d
    <3> DEFINE w == fileCache[f].text
    <3>1. PICK v \in Versions :
            /\ StampedBy(FingerprintOf[d], v) /\ w \in Readable
            /\ v <= w /\ w <= d
      BY <2>2 DEF IInv, FilesSound, FileEntrySound
    <3>2. v = d
      BY <2>0, <3>1, TwoStamps
    <3> HIDE DEF w, d
    <3>3. w \in Versions
      BY <3>1
    <3>4. w = d
      BY <2>0, <3>1, <3>2, <3>3
    <3> QED
      BY <3>4 DEF w
  <2> QED
    BY <2>1, <2>2
<1> QED
  BY <1>1, Invariance, PTL

\* A return is the answer of the abstract lookup, for the version it comes from.
LEMMA ReturnAnswers ==
  ASSUME IInv, NEW t \in Threads, pc[t] # "idle", NEW v \in Versions,
         request[t].since <= v, v <= disk[request[t].file],
         Return(t, PathIn(v, request[t].line)), UNCHANGED disk
  PROVE  Lookup!Answer(t, v)
<1>1. request[t] # NoRequest /\ v \in request[t].since .. disk[request[t].file]
  BY InCall, NoRequestAssumption
<1> QED
  BY <1>1 DEF Lookup!Answer, Return, PathIn, Lookup!PathIn

\* Every step of the cached lookup is a step of ModuleLookup or changes nothing
\* ModuleLookup can see.
LEMMA StepSimulation ==
  IInv /\ [Next]_vars => [Lookup!Next]_(Lookup!lookupVars)
<1> SUFFICES ASSUME IInv, [Next]_vars
             PROVE  Lookup!Next \/ UNCHANGED <<disk, request, answer>>
  BY DEF Lookup!lookupVars
<1> USE DEF cacheVars, localVars, Lookup!Next, Lookup!Versions
<1>1. ASSUME NEW f \in Files, Edit(f) PROVE Lookup!Next
  BY <1>1 DEF Edit, Lookup!Edit
<1>2. ASSUME NEW t \in Threads, NEW f \in Files, NEW l \in Lines, Call(t, f, l)
      PROVE  Lookup!Next
  BY <1>2 DEF Call, Lookup!Ask, IInv, CallsSound, CallSound
<1>3. ASSUME NEW t \in Threads, find_module_path(t)
      PROVE  Lookup!Next \/ UNCHANGED <<disk, request, answer>>
  <2> DEFINE d == disk[request[t].file]
             l == request[t].line
             cached == lineCache[request[t].file][l]
  <2>0. /\ pc[t] # "idle"
        /\ request[t].since <= d /\ d \in Versions /\ d <= d
        /\ request[t].file \in Files /\ l \in Lines
    <3>1. pc[t] # "idle"
      BY <1>3 DEF find_module_path, file_fingerprint, cached_line_result,
         clear_line_cache_for_file, cached_file_modules, parse_file_modules,
         insert_file_modules, store_line_result
    <3> QED
      BY <3>1, InCall
  <2>1. CASE file_fingerprint(t)
    <3>1. CASE d \notin Present /\ Return(t, NoPath)
      <4>1. PathIn(d, l) = NoPath
        BY <3>1 DEF PathIn
      <4> QED
        BY <2>0, <2>1, <3>1, <4>1, ReturnAnswers DEF file_fingerprint
    <3> QED
      BY <2>1, <3>1 DEF file_fingerprint
  <2>2. CASE cached_line_result(t)
    <3>1. CASE /\ cached # NoEntry
               /\ cached.fingerprint = fp[t]
               /\ Return(t, cached.module_path)
      <4>1. PICK v \in Versions : /\ StampedBy(fp[t], v) /\ request[t].since <= v
                                 /\ v <= d
        BY <2>2 DEF cached_line_result, IInv, CallsSound, CallSound
      <4>2. PICK x \in Versions, w \in Versions :
              /\ StampedBy(fp[t], x) /\ w \in Readable
              /\ x <= w /\ w <= d /\ cached.module_path = PathAt[w][l]
        BY <2>0, <3>1 DEF IInv, LinesSound, LineEntrySound
      <4>3. x = v
        BY <4>1, <4>2, TwoStamps
      <4>4. request[t].since <= w /\ cached.module_path = PathIn(w, l)
        BY <2>0, <4>1, <4>2, <4>3, InCall DEF PathIn
      <4> QED
        BY <2>0, <2>2, <3>1, <4>2, <4>4, ReturnAnswers DEF cached_line_result
    <3> QED
      BY <2>2, <3>1 DEF cached_line_result
  <2>3. CASE clear_line_cache_for_file(t)
    BY <2>3 DEF clear_line_cache_for_file
  <2>4. CASE cached_file_modules(t)
    BY <2>4 DEF cached_file_modules
  <2>5. CASE parse_file_modules(t)
    <3>1. CASE d \notin Readable /\ Return(t, NoPath)
      <4>1. PathIn(d, l) = NoPath
        BY <3>1 DEF PathIn
      <4> QED
        BY <2>0, <2>5, <3>1, <4>1, ReturnAnswers DEF parse_file_modules
    <3> QED
      BY <2>5, <3>1 DEF parse_file_modules
  <2>6. CASE insert_file_modules(t)
    BY <2>6 DEF insert_file_modules
  <2>7. CASE store_line_result(t)
    <3>1. PICK v \in Versions :
            /\ request[t].since <= v /\ parsed[t] \in Readable
            /\ v <= parsed[t] /\ parsed[t] <= d
      BY <2>7, StoredEntrySound DEF store_line_result
    <3>2. parsed[t] \in Versions /\ request[t].since <= parsed[t]
      BY <2>7, <3>1, ParsedDuringCall DEF store_line_result
    <3>3. PathIn(parsed[t], l) = PathAt[parsed[t]][l]
      BY <3>1 DEF PathIn
    <3> QED
      BY <2>0, <2>7, <3>1, <3>2, <3>3, ReturnAnswers DEF store_line_result
  <2> QED
    BY <1>3, <2>1, <2>2, <2>3, <2>4, <2>5, <2>6, <2>7 DEF find_module_path
<1>4. CASE UNCHANGED vars
  BY <1>4 DEF vars
<1> QED
  BY <1>1, <1>2, <1>3, <1>4 DEF Next

\* find_module_path with its caches implements the lookup without them: every
\* answer comes from a text the file had during the call (module_path.rs:42-69).
THEOREM Refinement == Spec => AnswersFromACurrentText
<1>1. Init => Lookup!Init
  BY DEF Init, Lookup!Init
<1>2. IInv /\ [Next]_vars => [Lookup!Next]_(Lookup!lookupVars)
  BY StepSimulation
<1> QED
  BY <1>1, <1>2, Invariance, PTL DEF Spec, Lookup!Spec, AnswersFromACurrentText

-----------------------------------------------------------------------------
(* The contracts of transitions.                                           *)
(*                                                                         *)
(* The walks over a return type are recursions over the depth; such a      *)
(* recursion is a run, a function that starts somewhere and takes steps.   *)

LEMMA Least ==
  ASSUME NEW S \in SUBSET Nat, S # {}
  PROVE  \E m \in S : \A k \in S : m <= k
<1>1. IsWellFoundedOn(OpToRel(<, Nat), Nat)
  BY NatLessThanWellFounded
<1>2. PICK m \in S : \A k \in S : ~(<<k, m>> \in OpToRel(<, Nat))
  BY <1>1, WFMin
<1>3. \A k \in S : ~(k < m)
  BY <1>2 DEF OpToRel
<1> QED BY <1>3

\* What holds at 0 and is kept holds up to n.
LEMMA UpTo ==
  ASSUME NEW n \in Nat, NEW S, 0 \in S, \A k \in 1 .. n : k - 1 \in S => k \in S
  PROVE  \A k \in 0 .. n : k \in S
<1> DEFINE Out == {k \in 0 .. n : k \notin S}
<1>1. SUFFICES Out = {}
  BY <1>1
<1>2. SUFFICES ASSUME Out # {} PROVE FALSE
  OBVIOUS
<1>3. PICK k \in Out : \A j \in Out : k <= j
  <2>1. Out \in SUBSET Nat
    OBVIOUS
  <2> HIDE DEF Out
  <2> QED BY <1>2, <2>1, Least
<1>4. k \in 1 .. n /\ k - 1 \in 0 .. n /\ ~(k <= k - 1)
  OBVIOUS
<1>5. k - 1 \in S
  BY <1>3, <1>4
<1> QED BY <1>4, <1>5

\* f starts with x and takes n steps, each as step says.
Runs(f, n, x, step) == f[0] = x /\ \A k \in 1 .. n : f[k] = step[k][f[k - 1]]

LEMMA RunExists ==
  ASSUME NEW V, NEW x \in V, NEW n \in Nat, NEW step \in [1 .. n -> [V -> V]]
  PROVE  \E f \in [0 .. n -> V] : Runs(f, n, x, step)
<1> DEFINE Has(k) == \E f \in [0 .. k -> V] : Runs(f, k, x, step)
           S == {k \in 0 .. n : Has(k)}
<1>1. 0 \in S
  <2>1. [i \in 0 .. 0 |-> x] \in [0 .. 0 -> V] /\ Runs([i \in 0 .. 0 |-> x], 0, x, step)
    BY DEF Runs
  <2>2. Has(0)
    BY <2>1
  <2> HIDE DEF Has
  <2> QED BY <2>2
<1>2. ASSUME NEW k \in 1 .. n, k - 1 \in S PROVE k \in S
  <2>1. PICK f \in [0 .. (k - 1) -> V] : Runs(f, k - 1, x, step)
    BY <1>2
  <2> DEFINE g == [i \in 0 .. k |-> IF i < k THEN f[i] ELSE step[k][f[k - 1]]]
  <2>2. step[k] \in [V -> V] /\ f[k - 1] \in V
    OBVIOUS
  <2>3. step[k][f[k - 1]] \in V
    BY <2>2
  <2>4. g \in [0 .. k -> V]
    BY <2>3
  <2>5. (\A i \in 0 .. (k - 1) : g[i] = f[i]) /\ g[k] = step[k][f[k - 1]]
    OBVIOUS
  <2> HIDE DEF g
  <2>6. ASSUME NEW i \in 1 .. k PROVE g[i] = step[i][g[i - 1]]
    <3>1. CASE i = k
      BY <2>5, <3>1
    <3>2. CASE i # k
      <4>1. i \in 1 .. (k - 1) /\ i \in 0 .. (k - 1) /\ i - 1 \in 0 .. (k - 1)
        BY <3>2
      <4> QED BY <2>1, <2>5, <4>1 DEF Runs
    <3> QED BY <3>1, <3>2
  <2>7. Runs(g, k, x, step)
    BY <2>1, <2>5, <2>6 DEF Runs
  <2>8. Has(k)
    BY <2>4, <2>7
  <2> HIDE DEF Has
  <2> QED BY <2>8
<1>3. n \in S
  <2> HIDE DEF S
  <2>1. \A k \in 0 .. n : k \in S
    BY <1>1, <1>2, UpTo
  <2> QED BY <2>1
<1> QED BY <1>3

-----------------------------------------------------------------------------
Targets == Seq(STRING)

\* The call for a branch of the type.
OnBranch(call, b) == [call EXCEPT !.type = b]

LEMMA OnBranchIsCall ==
  ASSUME NEW call \in Calls, NEW b \in Types
  PROVE  /\ OnBranch(call, b) \in Calls
         /\ OnBranch(call, b).type = b
         /\ OnBranch(call, b).context = call.context
         /\ OnBranch(call, b).visited = call.visited
BY DEF OnBranch, Calls

LEMMA BranchesType ==
  ASSUME NEW ty \in Types
  PROVE  Branches(ty) \in Seq(Types)
BY TypesAssumption DEF Branches

LEMMA ExpansionHas ==
  ASSUME NEW ty, NEW context, NEW visited, NEW e \in expand_source_type_alias(ty, context, visited)
  PROVE  \E m \in resolve_type_alias(ty, context) :
           \E t \in instantiate_type_alias(aliases[m][ty.id][1], ty) :
             e = [type |-> t, context |-> m, visited |-> visited \cup {<<m, ty.id>>}]
BY DEF expand_source_type_alias

\* The walk goes on with a call.
LEMMA ExpansionIsCall ==
  ASSUME aliases \in Environments, NEW call \in Calls,
         NEW e \in expand_source_type_alias(call.type, call.context, call.visited)
  PROVE  e \in Calls
<1> DEFINE ty == call.type
<1>0. ty \in Types /\ call.visited \in SUBSET ((DOMAIN aliases) \X STRING) /\ ty.id \in STRING
  BY TypesAssumption DEF Calls
<1>1. PICK m \in resolve_type_alias(ty, call.context) :
        \E t \in instantiate_type_alias(aliases[m][ty.id][1], ty) :
          e = [type |-> t, context |-> m, visited |-> call.visited \cup {<<m, ty.id>>}]
  BY ExpansionHas
<1>2. PICK t \in instantiate_type_alias(aliases[m][ty.id][1], ty) :
        e = [type |-> t, context |-> m, visited |-> call.visited \cup {<<m, ty.id>>}]
  BY <1>1
<1>3. m \in DOMAIN aliases /\ ty.id \in DOMAIN aliases[m] /\ Len(aliases[m][ty.id]) = 1
  BY DEF resolve_type_alias
<1> HIDE DEF ty
<1>4. t \in Types
  BY <1>0, <1>3, ContractsAssumption
<1>5. call.visited \cup {<<m, ty.id>>} \in SUBSET ((DOMAIN aliases) \X STRING)
  BY <1>0, <1>3
<1> QED BY <1>2, <1>3, <1>4, <1>5 DEF Calls

\* One alias at most is expanded.
LEMMA ExpandsOnce ==
  ASSUME NEW ty, NEW context, NEW visited,
         NEW d \in expand_source_type_alias(ty, context, visited),
         NEW e \in expand_source_type_alias(ty, context, visited)
  PROVE  d = e
<1>1. \A m, n \in resolve_type_alias(ty, context) : m = n
  BY DEF resolve_type_alias, alias_module_path
<1>2. PICK m \in resolve_type_alias(ty, context) :
        \E t \in instantiate_type_alias(aliases[m][ty.id][1], ty) :
          d = [type |-> t, context |-> m, visited |-> visited \cup {<<m, ty.id>>}]
  BY ExpansionHas
<1>3. PICK n \in resolve_type_alias(ty, context) :
        \E t \in instantiate_type_alias(aliases[n][ty.id][1], ty) :
          e = [type |-> t, context |-> n, visited |-> visited \cup {<<n, ty.id>>}]
  BY ExpansionHas
<1>4. m = n
  BY <1>1
<1>5. \A t, u \in instantiate_type_alias(aliases[m][ty.id][1], ty) : t = u
  BY DEF instantiate_type_alias
<1> QED BY <1>2, <1>3, <1>4, <1>5

\* Without a context no alias is expanded, and a wrapper never is one.
LEMMA NotExpanded ==
  ASSUME NEW ty, NEW context, NEW visited, context = NoContext \/ ty.qual = "abs"
  PROVE  expand_source_type_alias(ty, context, visited) = {}
<1>1. ty.qual = "abs" => resolve_type_alias(ty, context) = {}
  BY DEF resolve_type_alias, alias_module_path
<1> QED BY <1>1 DEF expand_source_type_alias


-----------------------------------------------------------------------------
\* T starts with s.
Leads(T, s) == T # <<>> /\ T[1] = s

LEMMA AppendIs ==
  ASSUME NEW V, NEW T \in Seq(V), NEW s \in V
  PROVE  /\ Append(T, s) \in Seq(V) /\ Append(T, s) # <<>>
         /\ Len(T) \in Nat /\ DOMAIN T = 1 .. Len(T) /\ DOMAIN Append(T, s) = 1 .. (Len(T) + 1)
         /\ Append(T, s)[Len(T) + 1] = s /\ \A i \in 1 .. Len(T) : Append(T, s)[i] = T[i]
         /\ T = <<>> => Len(T) + 1 = 1
         /\ T # <<>> => 1 \in 1 .. Len(T)
OBVIOUS

LEMMA PushHas ==
  ASSUME NEW V, NEW T \in Seq(V), NEW s \in V
  PROVE  /\ push_unique_target(T, s) \in Seq(V)
         /\ \A x : x \in ToSet(push_unique_target(T, s)) <=> x \in ToSet(T) \/ x = s
         /\ \A x : Leads(T, x) => Leads(push_unique_target(T, s), x)
         /\ T = <<>> => Leads(push_unique_target(T, s), s)
<1>1. CASE Contains(T, s)
  <2>1. push_unique_target(T, s) = T
    BY <1>1 DEF push_unique_target
  <2>2. PICK i \in 1 .. Len(T) : T[i] = s
    BY <1>1 DEF Contains
  <2>3. DOMAIN T = 1 .. Len(T) /\ T # <<>>
    BY <2>2
  <2>4. s \in ToSet(T)
    BY <2>2, <2>3 DEF ToSet
  <2> QED BY <2>1, <2>3, <2>4
<1>2. CASE ~Contains(T, s)
  <2> DEFINE U == Append(T, s)
  <2>1. push_unique_target(T, s) = U
    BY <1>2 DEF push_unique_target
  <2>8. U \in Seq(V) /\ U # <<>>
    BY AppendIs
  <2>2. /\ Len(T) \in Nat /\ DOMAIN T = 1 .. Len(T) /\ DOMAIN U = 1 .. (Len(T) + 1)
        /\ U[Len(T) + 1] = s /\ \A i \in 1 .. Len(T) : U[i] = T[i]
    BY AppendIs
  <2>3. (T = <<>> => Len(T) + 1 = 1) /\ (T # <<>> => 1 \in 1 .. Len(T))
    BY AppendIs
  <2> HIDE DEF U
  <2>4. \A i : i \in 1 .. (Len(T) + 1) <=> i \in 1 .. Len(T) \/ i = Len(T) + 1
    BY <2>2
  <2>5. \A x : x \in ToSet(U) <=> x \in ToSet(T) \/ x = s
    BY <2>2, <2>4 DEF ToSet
  <2>6. \A x : Leads(T, x) => Leads(U, x)
    BY <2>8, <2>2, <2>3 DEF Leads
  <2>7. T = <<>> => Leads(U, s)
    BY <2>8, <2>2, <2>3 DEF Leads
  <2> QED BY <2>1, <2>8, <2>5, <2>6, <2>7
<1> QED BY <1>1, <1>2

-----------------------------------------------------------------------------
\* What a walk at some depth is.
Walks == [Calls -> [Targets -> Targets]]

\* r is how the branches of a call are read.
ReadsBranches(r, F, call, T) ==
  LET n == Len(Branches(call.type))
  IN  /\ r \in [0 .. n -> Targets]
      /\ r[0] = T
      /\ \A i \in 1 .. n : r[i] = F[OnBranch(call, Branches(call.type)[i])][r[i - 1]]

LEMMA BranchesReadIs ==
  ASSUME NEW F \in Walks, NEW call \in Calls, NEW T \in Targets
  PROVE  ReadsBranches(BranchesRead(F, call, T), F, call, T)
<1> DEFINE branches == Branches(call.type)
           n == Len(branches)
           g(i) == F[OnBranch(call, branches[i])]
           step == [i \in 1 .. n |-> g(i)]
           IsRead(r) == r = [i \in 0 .. n |-> IF i = 0 THEN T ELSE F[[call EXCEPT !.type = branches[i]]][r[i - 1]]]
<1>1. branches \in Seq(Types)
  BY BranchesType DEF Calls
<1>2. n \in Nat /\ \A i \in 1 .. n : branches[i] \in Types
  BY <1>1
<1>3. \A i \in 1 .. n : OnBranch(call, branches[i]) \in Calls
  BY <1>2, OnBranchIsCall
<1> HIDE DEF branches, n
<1>4. step \in [1 .. n -> [Targets -> Targets]]
  BY <1>3 DEF Walks
<1>5. PICK f \in [0 .. n -> Targets] : Runs(f, n, T, step)
  BY <1>2, <1>4, RunExists
<1>6. \A i \in 1 .. n : f[i] = F[OnBranch(call, branches[i])][f[i - 1]]
  BY <1>5 DEF Runs
<1>7. IsRead(f)
  <2>1. f = [i \in 0 .. n |-> f[i]]
    BY <1>5
  <2>2. \A i \in 0 .. n : i # 0 => i \in 1 .. n
    BY <1>2
  <2>3. \A i \in 0 .. n : f[i] = IF i = 0 THEN T ELSE F[[call EXCEPT !.type = branches[i]]][f[i - 1]]
    BY <1>5, <1>6, <2>2 DEF Runs, OnBranch
  <2> QED BY <2>1, <2>3
<1>8. BranchesRead(F, call, T) = CHOOSE r : IsRead(r)
  BY DEF BranchesRead, n, branches
<1> DEFINE r == BranchesRead(F, call, T)
<1>9. IsRead(r)
  <2> HIDE DEF IsRead
  <2> QED BY <1>7, <1>8
<1> HIDE DEF r
<1>10. DOMAIN r = 0 .. n /\ r[0] = T /\ \A i \in 1 .. n : r[i] = F[OnBranch(call, branches[i])][r[i - 1]]
  <2>1. \A i \in 1 .. n : i \in 0 .. n /\ i # 0
    BY <1>2
  <2>2. 0 \in 0 .. n
    BY <1>2
  <2> QED BY <1>9, <2>1, <2>2 DEF OnBranch
<1>11. \A k \in 0 .. n : r[k] \in Targets
  <2> DEFINE S == {k \in 0 .. n : r[k] \in Targets}
  <2>1. 0 \in S
    BY <1>2, <1>10
  <2>2. ASSUME NEW k \in 1 .. n, k - 1 \in S PROVE k \in S
    BY <1>2, <1>3, <1>10, <2>2 DEF Walks
  <2> HIDE DEF S
  <2>3. \A k \in 0 .. n : k \in S
    BY <1>2, <2>1, <2>2, UpTo
  <2> USE DEF S
  <2> QED BY <2>3
<1>12. r \in [0 .. n -> Targets]
  <2>1. r = [i \in 0 .. n |-> r[i]]
    BY <1>9
  <2> QED BY <1>11, <2>1
<1> QED BY <1>10, <1>12 DEF ReadsBranches, r, n, branches


LEMMA MachineState ==
  ASSUME NEW call \in Calls, IsMachine(call.type)
  PROVE  call.type.args[1] \in Types /\ call.type.args[1].id \in STRING
<1>1. call.type.args \in Seq(Types) /\ Len(call.type.args) = 1
  BY TypesAssumption DEF Calls, IsMachine
<1>2. call.type.args[1] \in Types
  BY <1>1
<1> QED BY <1>2, TypesAssumption

\* A walk one deeper: the cases of a call.
LEMMA InnerCollects ==
  ASSUME aliases \in Environments, NEW F \in Walks, NEW call \in Calls, NEW T \in Targets
  PROVE  /\ IsMachine(call.type) =>
              collect_machine_targets_inner(F, call, T)
                = IF IsMarker(call.type.args[1]) THEN push_unique_target(T, call.type.args[1].id) ELSE T
         /\ \A e \in expand_source_type_alias(call.type, call.context, call.visited) :
              ~IsMachine(call.type) => collect_machine_targets_inner(F, call, T) = F[e][T]
         /\ ~IsMachine(call.type) /\ expand_source_type_alias(call.type, call.context, call.visited) = {}
              => collect_machine_targets_inner(F, call, T)
                   = BranchesRead(F, call, T)[Len(Branches(call.type))]
         /\ collect_machine_targets_inner(F, call, T) \in Targets
<1> DEFINE E == expand_source_type_alias(call.type, call.context, call.visited)
           result == collect_machine_targets_inner(F, call, T)
<1>1. IsMachine(call.type) =>
        result = IF IsMarker(call.type.args[1]) THEN push_unique_target(T, call.type.args[1].id) ELSE T
  BY DEF collect_machine_targets_inner
<1>2. ASSUME NEW e \in E, ~IsMachine(call.type) PROVE result = F[e][T]
  <2>1. (CHOOSE d \in E : TRUE) \in E
    BY <1>2
  <2>2. (CHOOSE d \in E : TRUE) = e
    BY <1>2, <2>1, ExpandsOnce
  <2> QED BY <1>2, <2>2 DEF collect_machine_targets_inner
<1>3. ~IsMachine(call.type) /\ E = {} => result = BranchesRead(F, call, T)[Len(Branches(call.type))]
  BY DEF collect_machine_targets_inner
<1>4. result \in Targets
  <2>1. CASE IsMachine(call.type)
    <3>1. call.type.args[1].id \in STRING
      BY <2>1, MachineState
    <3>2. push_unique_target(T, call.type.args[1].id) \in Targets
      BY <3>1, PushHas DEF Targets
    <3> QED BY <1>1, <2>1, <3>2
  <2>2. CASE ~IsMachine(call.type) /\ E # {}
    <3>1. PICK e \in E : TRUE
      BY <2>2
    <3>2. e \in Calls
      BY ExpansionIsCall
    <3> QED BY <1>2, <2>2, <3>2 DEF Walks
  <2>3. CASE ~IsMachine(call.type) /\ E = {}
    <3>1. ReadsBranches(BranchesRead(F, call, T), F, call, T)
      BY BranchesReadIs
    <3>2. Branches(call.type) \in Seq(Types)
      BY BranchesType DEF Calls
    <3>3. Len(Branches(call.type)) \in 0 .. Len(Branches(call.type))
      BY <3>2
    <3> QED BY <1>3, <2>3, <3>1, <3>3 DEF ReadsBranches
  <2> QED BY <2>1, <2>2, <2>3
<1> HIDE DEF result
<1> QED BY <1>1, <1>2, <1>3, <1>4 DEF result

\* The walk of every depth.
LEMMA CollectIs ==
  ASSUME aliases \in Environments
  PROVE  /\ collect_machine_targets \in [0 .. MaxDepth -> Walks]
         /\ \A call \in Calls, T \in Targets : collect_machine_targets[0][call][T] = T
         /\ \A k \in 1 .. MaxDepth, call \in Calls, T \in Targets :
              collect_machine_targets[k][call][T]
                = collect_machine_targets_inner(collect_machine_targets[k - 1], call, T)
<1> DEFINE once(F) == [call \in Calls |-> [T \in Targets |-> collect_machine_targets_inner(F, call, T)]]
           none == [call \in Calls |-> [T \in Targets |-> T]]
           step == [k \in 1 .. MaxDepth |-> [F \in Walks |-> once(F)]]
           Is(f) == f = [k \in 0 .. MaxDepth |-> [call \in Calls |-> [T \in Seq(STRING) |->
                           IF k = 0 THEN T ELSE collect_machine_targets_inner(f[k - 1], call, T)]]]
           c == collect_machine_targets
<1>1. MaxDepth \in Nat
  BY TypesAssumption
<1>2. none \in Walks
  BY DEF Walks
<1>3. ASSUME NEW F \in Walks PROVE once(F) \in Walks
  BY InnerCollects DEF Walks
<1> HIDE DEF once, none
<1>4. step \in [1 .. MaxDepth -> [Walks -> Walks]]
  BY <1>3
<1>5. PICK f \in [0 .. MaxDepth -> Walks] : Runs(f, MaxDepth, none, step)
  BY <1>1, <1>2, <1>4, RunExists
<1>6. f[0] = none /\ \A k \in 1 .. MaxDepth : f[k] = once(f[k - 1])
  <2>1. \A k \in 1 .. MaxDepth : f[k - 1] \in Walks
    BY <1>1
  <2> QED BY <1>5, <2>1 DEF Runs
<1>7. Is(f)
  <2>1. f = [k \in 0 .. MaxDepth |-> f[k]]
    BY <1>5
  <2>2. \A k \in 0 .. MaxDepth : k # 0 => k \in 1 .. MaxDepth
    BY <1>1
  <2>3. ASSUME NEW k \in 0 .. MaxDepth
        PROVE  f[k] = [call \in Calls |-> [T \in Seq(STRING) |->
                         IF k = 0 THEN T ELSE collect_machine_targets_inner(f[k - 1], call, T)]]
    <3>1. CASE k = 0
      BY <1>6, <3>1 DEF none, Targets
    <3>2. CASE k # 0
      <4>1. f[k] = once(f[k - 1])
        BY <1>6, <2>2, <3>2
      <4> QED BY <3>2, <4>1 DEF once, Targets
    <3> QED BY <3>1, <3>2
  <2> QED BY <2>1, <2>3
<1>8. c = CHOOSE g : Is(g)
  BY DEF collect_machine_targets
<1>9. Is(c)
  <2> HIDE DEF Is, c
  <2> QED BY <1>7, <1>8
<1> HIDE DEF c
<1>10. DOMAIN c = 0 .. MaxDepth /\ c[0] = none /\ \A k \in 1 .. MaxDepth : c[k] = once(c[k - 1])
  <2>1. 0 \in 0 .. MaxDepth /\ \A k \in 1 .. MaxDepth : k \in 0 .. MaxDepth /\ k # 0
    BY <1>1
  <2>2. DOMAIN c = 0 .. MaxDepth
    BY <1>9
  <2>3. c[0] = none
    BY <1>9, <2>1 DEF none, Targets
  <2>4. ASSUME NEW k \in 1 .. MaxDepth PROVE c[k] = once(c[k - 1])
    <3>1. k \in 0 .. MaxDepth /\ k # 0
      BY <2>1
    <3> QED BY <1>9, <3>1 DEF once, Targets
  <2> QED BY <2>2, <2>3, <2>4
<1>11. \A k \in 0 .. MaxDepth : c[k] \in Walks
  <2> DEFINE S == {k \in 0 .. MaxDepth : c[k] \in Walks}
  <2>1. 0 \in S
    BY <1>1, <1>2, <1>10
  <2>2. ASSUME NEW k \in 1 .. MaxDepth, k - 1 \in S PROVE k \in S
    BY <1>1, <1>3, <1>10, <2>2
  <2> HIDE DEF S
  <2>3. \A k \in 0 .. MaxDepth : k \in S
    BY <1>1, <2>1, <2>2, UpTo
  <2> USE DEF S
  <2> QED BY <2>3
<1>12. c \in [0 .. MaxDepth -> Walks]
  <2>1. c = [k \in 0 .. MaxDepth |-> c[k]]
    BY <1>9
  <2> QED BY <1>11, <2>1
<1>13. \A call \in Calls, T \in Targets : c[0][call][T] = T
  BY <1>10 DEF none
<1>14. \A k \in 1 .. MaxDepth, call \in Calls, T \in Targets :
         c[k][call][T] = collect_machine_targets_inner(c[k - 1], call, T)
  <2> SUFFICES ASSUME NEW k \in 1 .. MaxDepth, NEW call \in Calls, NEW T \in Targets
               PROVE  c[k][call][T] = collect_machine_targets_inner(c[k - 1], call, T)
    OBVIOUS
  <2>1. c[k] = once(c[k - 1])
    BY <1>10
  <2> QED BY <2>1 DEF once
<1> QED BY <1>12, <1>13, <1>14 DEF c


\* What the search for the primary target is at some depth.
Searches == [Calls -> SUBSET STRING]

LEMMA InnerSearches ==
  ASSUME aliases \in Environments, NEW F \in Searches, NEW call \in Calls
  PROVE  parse_primary_machine_and_state_inner(F, call) \in SUBSET STRING
<1> DEFINE E == expand_source_type_alias(call.type, call.context, call.visited)
           found == parse_primary_machine_and_state_inner(F, call)
<1>1. CASE IsMachine(call.type)
  BY <1>1, MachineState DEF parse_primary_machine_and_state_inner
<1>2. CASE ~IsMachine(call.type) /\ E # {}
  <2>1. found = UNION {F[e] : e \in E}
    BY <1>2 DEF parse_primary_machine_and_state_inner
  <2>2. \A e \in E : F[e] \in SUBSET STRING
    BY ExpansionIsCall DEF Searches
  <2> HIDE DEF E, found
  <2> QED BY <2>1, <2>2 DEF found
<1>3. CASE ~IsMachine(call.type) /\ E = {}
  <2>1. found = UNION {F[OnBranch(call, b)] : b \in First(Branches(call.type))}
    BY <1>3 DEF parse_primary_machine_and_state_inner, OnBranch
  <2>2. \A b \in First(Branches(call.type)) : b \in Types
    BY BranchesType DEF First, Calls
  <2>3. \A b \in First(Branches(call.type)) : F[OnBranch(call, b)] \in SUBSET STRING
    BY <2>2, OnBranchIsCall DEF Searches
  <2> HIDE DEF found
  <2> QED BY <2>1, <2>3 DEF found
<1> QED BY <1>1, <1>2, <1>3

LEMMA ParseIs ==
  ASSUME aliases \in Environments
  PROVE  /\ parse_primary_machine_and_state \in [0 .. MaxDepth -> Searches]
         /\ \A call \in Calls : parse_primary_machine_and_state[0][call] = {}
         /\ \A k \in 1 .. MaxDepth, call \in Calls :
              parse_primary_machine_and_state[k][call]
                = parse_primary_machine_and_state_inner(parse_primary_machine_and_state[k - 1], call)
<1> DEFINE once(F) == [call \in Calls |-> parse_primary_machine_and_state_inner(F, call)]
           none == [call \in Calls |-> {}]
           step == [k \in 1 .. MaxDepth |-> [F \in Searches |-> once(F)]]
           Is(f) == f = [k \in 0 .. MaxDepth |-> [call \in Calls |->
                           IF k = 0 THEN {} ELSE parse_primary_machine_and_state_inner(f[k - 1], call)]]
           p == parse_primary_machine_and_state
<1>1. MaxDepth \in Nat
  BY TypesAssumption
<1>2. none \in Searches
  BY DEF Searches
<1>3. ASSUME NEW F \in Searches PROVE once(F) \in Searches
  <2>1. \A call \in Calls : parse_primary_machine_and_state_inner(F, call) \in SUBSET STRING
    BY InnerSearches
  <2> QED BY <2>1 DEF Searches
<1> HIDE DEF once, none
<1>4. step \in [1 .. MaxDepth -> [Searches -> Searches]]
  BY <1>3
<1>5. PICK f \in [0 .. MaxDepth -> Searches] : Runs(f, MaxDepth, none, step)
  BY <1>1, <1>2, <1>4, RunExists
<1>6. f[0] = none /\ \A k \in 1 .. MaxDepth : f[k] = once(f[k - 1])
  <2>1. \A k \in 1 .. MaxDepth : f[k - 1] \in Searches
    BY <1>1
  <2> QED BY <1>5, <2>1 DEF Runs
<1>7. Is(f)
  <2>1. f = [k \in 0 .. MaxDepth |-> f[k]]
    BY <1>5
  <2>2. \A k \in 0 .. MaxDepth : k # 0 => k \in 1 .. MaxDepth
    BY <1>1
  <2>3. ASSUME NEW k \in 0 .. MaxDepth
        PROVE  f[k] = [call \in Calls |->
                         IF k = 0 THEN {} ELSE parse_primary_machine_and_state_inner(f[k - 1], call)]
    <3>1. CASE k = 0
      BY <1>6, <3>1 DEF none
    <3>2. CASE k # 0
      <4>1. f[k] = once(f[k - 1])
        BY <1>6, <2>2, <3>2
      <4> QED BY <3>2, <4>1 DEF once
    <3> QED BY <3>1, <3>2
  <2> QED BY <2>1, <2>3
<1>8. p = CHOOSE g : Is(g)
  BY DEF parse_primary_machine_and_state
<1>9. Is(p)
  <2> HIDE DEF Is, p
  <2> QED BY <1>7, <1>8
<1> HIDE DEF p
<1>10. DOMAIN p = 0 .. MaxDepth /\ p[0] = none /\ \A k \in 1 .. MaxDepth : p[k] = once(p[k - 1])
  <2>1. 0 \in 0 .. MaxDepth /\ \A k \in 1 .. MaxDepth : k \in 0 .. MaxDepth /\ k # 0
    BY <1>1
  <2>2. DOMAIN p = 0 .. MaxDepth
    BY <1>9
  <2>3. p[0] = none
    BY <1>9, <2>1 DEF none
  <2>4. ASSUME NEW k \in 1 .. MaxDepth PROVE p[k] = once(p[k - 1])
    <3>1. k \in 0 .. MaxDepth /\ k # 0
      BY <2>1
    <3> QED BY <1>9, <3>1 DEF once
  <2> QED BY <2>2, <2>3, <2>4
<1>11. \A k \in 0 .. MaxDepth : p[k] \in Searches
  <2> DEFINE S == {k \in 0 .. MaxDepth : p[k] \in Searches}
  <2>1. 0 \in S
    BY <1>1, <1>2, <1>10
  <2>2. ASSUME NEW k \in 1 .. MaxDepth, k - 1 \in S PROVE k \in S
    BY <1>1, <1>3, <1>10, <2>2
  <2> HIDE DEF S
  <2>3. \A k \in 0 .. MaxDepth : k \in S
    BY <1>1, <2>1, <2>2, UpTo
  <2> USE DEF S
  <2> QED BY <2>3
<1>12. p \in [0 .. MaxDepth -> Searches]
  <2>1. p = [k \in 0 .. MaxDepth |-> p[k]]
    BY <1>9
  <2> QED BY <1>11, <2>1
<1>13. \A call \in Calls : p[0][call] = {}
  BY <1>10 DEF none
<1>14. \A k \in 1 .. MaxDepth, call \in Calls :
         p[k][call] = parse_primary_machine_and_state_inner(p[k - 1], call)
  <2> SUFFICES ASSUME NEW k \in 1 .. MaxDepth, NEW call \in Calls
               PROVE  p[k][call] = parse_primary_machine_and_state_inner(p[k - 1], call)
    OBVIOUS
  <2>1. p[k] = once(p[k - 1])
    BY <1>10
  <2> QED BY <2>1 DEF once
<1> QED BY <1>12, <1>13, <1>14 DEF p


-----------------------------------------------------------------------------
\* What a walk does to the targets: it keeps the first, and finds the primary one
\* first; it loses none, and without aliases it finds no more than with them.
KeepsFirst(F) == \A call \in Calls, T \in Targets : \A x : Leads(T, x) => Leads(F[call][T], x)

FindsFirst(P, F) == \A call \in Calls : \A x : x \in P[call] => Leads(F[call][<<>>], x)

KeepsAll(F) == \A call \in Calls, T \in Targets : ToSet(T) \subseteq ToSet(F[call][T])

\* The same type, read without aliases and in any way.
Plainer(d, e) == d.type = e.type /\ d.context = NoContext

FindsNoMore(F) ==
  \A d, e \in Calls, T, U \in Targets :
    Plainer(d, e) /\ ToSet(T) \subseteq ToSet(U) => ToSet(F[d][T]) \subseteq ToSet(F[e][U])

SearchesNoFurther(P) == \A d, e \in Calls : Plainer(d, e) => P[d] \subseteq P[e]

LEMMA BranchesKeepFirst ==
  ASSUME NEW F \in Walks, NEW call \in Calls, NEW T \in Targets, NEW r, NEW x,
         KeepsFirst(F), ReadsBranches(r, F, call, T),
         NEW m \in 0 .. Len(Branches(call.type)), Leads(r[m], x)
  PROVE  Leads(r[Len(Branches(call.type))], x)
<1> DEFINE n == Len(Branches(call.type))
           S == {k \in 0 .. n : m <= k => Leads(r[k], x)}
<1>1. Branches(call.type) \in Seq(Types)
  BY BranchesType DEF Calls
<1>2. /\ n \in Nat /\ m \in 0 .. n
      /\ \A i \in 1 .. n : OnBranch(call, Branches(call.type)[i]) \in Calls
  BY <1>1, OnBranchIsCall
<1>3. /\ \A i \in 0 .. n : r[i] \in Targets
      /\ \A i \in 1 .. n : r[i] = F[OnBranch(call, Branches(call.type)[i])][r[i - 1]]
  BY DEF ReadsBranches
<1> HIDE DEF n
<1>4. 0 \in S
  <2>1. m <= 0 => m = 0
    BY <1>2
  <2> QED BY <1>2, <2>1
<1>5. ASSUME NEW k \in 1 .. n, k - 1 \in S PROVE k \in S
  <2>1. CASE m <= k - 1
    <3>1. k \in 0 .. n /\ k - 1 \in 0 .. n
      BY <1>2
    <3>2. Leads(r[k - 1], x)
      BY <1>5, <2>1
    <3>3. Leads(F[OnBranch(call, Branches(call.type)[k])][r[k - 1]], x)
      BY <1>2, <1>3, <3>1, <3>2 DEF KeepsFirst
    <3> QED BY <1>3, <3>1, <3>3
  <2>2. CASE ~(m <= k - 1)
    <3>1. k \in 0 .. n /\ (m <= k => m = k)
      BY <1>2, <2>2
    <3> QED BY <3>1
  <2> QED BY <2>1, <2>2
<1>6. n \in S
  <2> HIDE DEF S
  <2>1. \A k \in 0 .. n : k \in S
    BY <1>2, <1>4, <1>5, UpTo
  <2> QED BY <1>2, <2>1
<1>7. m <= n
  BY <1>2
<1> QED BY <1>6, <1>7 DEF n

\* One deeper, the first target is kept.
LEMMA InnerKeepsFirst ==
  ASSUME aliases \in Environments, NEW F \in Walks, KeepsFirst(F),
         NEW call \in Calls, NEW T \in Targets, NEW x, Leads(T, x)
  PROVE  Leads(collect_machine_targets_inner(F, call, T), x)
<1> DEFINE E == expand_source_type_alias(call.type, call.context, call.visited)
           result == collect_machine_targets_inner(F, call, T)
<1>1. CASE IsMachine(call.type)
  <2>1. result = IF IsMarker(call.type.args[1]) THEN push_unique_target(T, call.type.args[1].id) ELSE T
    BY <1>1, InnerCollects
  <2>2. call.type.args[1].id \in STRING
    BY <1>1, MachineState
  <2> HIDE DEF result
  <2>3. Leads(push_unique_target(T, call.type.args[1].id), x)
    BY <2>2, PushHas DEF Targets
  <2> QED BY <2>1, <2>3 DEF result
<1>2. CASE ~IsMachine(call.type) /\ E # {}
  <2>1. PICK e \in E : TRUE
    BY <1>2
  <2>2. e \in Calls /\ result = F[e][T]
    BY <1>2, <2>1, ExpansionIsCall, InnerCollects
  <2> QED BY <2>2 DEF KeepsFirst
<1>3. CASE ~IsMachine(call.type) /\ E = {}
  <2> DEFINE r == BranchesRead(F, call, T)
             n == Len(Branches(call.type))
  <2>1. result = r[n]
    BY <1>3, InnerCollects
  <2>2. ReadsBranches(r, F, call, T)
    BY BranchesReadIs
  <2> HIDE DEF r
  <2>3. Branches(call.type) \in Seq(Types)
    BY BranchesType DEF Calls
  <2>4. 0 \in 0 .. n
    BY <2>3
  <2>5. Leads(r[0], x)
    BY <2>2 DEF ReadsBranches
  <2>6. Leads(r[n], x)
    BY <2>2, <2>4, <2>5, BranchesKeepFirst
  <2> QED BY <2>1, <2>6
<1> QED BY <1>1, <1>2, <1>3

\* One deeper, the primary target is found first.
LEMMA InnerFindsFirst ==
  ASSUME aliases \in Environments, NEW F \in Walks, NEW P \in Searches, KeepsFirst(F),
         FindsFirst(P, F), NEW call \in Calls,
         NEW x \in parse_primary_machine_and_state_inner(P, call)
  PROVE  Leads(collect_machine_targets_inner(F, call, <<>>), x)
<1> DEFINE E == expand_source_type_alias(call.type, call.context, call.visited)
           result == collect_machine_targets_inner(F, call, <<>>)
<1>0. <<>> \in Targets
  BY DEF Targets
<1>1. CASE IsMachine(call.type)
  <2>1. IsMarker(call.type.args[1]) /\ x = call.type.args[1].id
    BY <1>1 DEF parse_primary_machine_and_state_inner
  <2>2. result = push_unique_target(<<>>, x)
    BY <1>0, <1>1, <2>1, InnerCollects
  <2>3. x \in STRING
    BY <1>1, <2>1, MachineState
  <2> HIDE DEF result
  <2>4. Leads(push_unique_target(<<>>, x), x)
    BY <1>0, <2>3, PushHas DEF Targets
  <2> QED BY <2>2, <2>4 DEF result
<1>2. CASE ~IsMachine(call.type) /\ E # {}
  <2>1. x \in UNION {P[e] : e \in E}
    BY <1>2 DEF parse_primary_machine_and_state_inner
  <2>2. PICK e \in E : x \in P[e]
    BY <2>1
  <2>3. e \in Calls /\ result = F[e][<<>>]
    BY <1>0, <1>2, ExpansionIsCall, InnerCollects
  <2> QED BY <2>2, <2>3 DEF FindsFirst
<1>3. CASE ~IsMachine(call.type) /\ E = {}
  <2> DEFINE r == BranchesRead(F, call, <<>>)
             n == Len(Branches(call.type))
  <2>1. x \in UNION {P[OnBranch(call, b)] : b \in First(Branches(call.type))}
    BY <1>3 DEF parse_primary_machine_and_state_inner, OnBranch
  <2>2. 1 \in DOMAIN Branches(call.type) /\ x \in P[OnBranch(call, Branches(call.type)[1])]
    BY <2>1 DEF First
  <2>3. result = r[n]
    BY <1>0, <1>3, InnerCollects
  <2>4. ReadsBranches(r, F, call, <<>>)
    BY <1>0, BranchesReadIs
  <2> HIDE DEF r
  <2>5. Branches(call.type) \in Seq(Types)
    BY BranchesType DEF Calls
  <2>6. 1 \in 1 .. n /\ 1 \in 0 .. n /\ Branches(call.type)[1] \in Types
    BY <2>2, <2>5
  <2>7. r[0] = <<>> /\ r[1] = F[OnBranch(call, Branches(call.type)[1])][r[1 - 1]]
    BY <2>4, <2>6 DEF ReadsBranches
  <2>8. r[1] = F[OnBranch(call, Branches(call.type)[1])][<<>>]
    BY <2>7
  <2>9. Leads(r[1], x)
    BY <2>2, <2>6, <2>8, OnBranchIsCall DEF FindsFirst
  <2>10. Leads(r[n], x)
    BY <1>0, <2>4, <2>6, <2>9, BranchesKeepFirst
  <2> QED BY <2>3, <2>10
<1> QED BY <1>1, <1>2, <1>3

\* At every depth the primary target is the first one found.
LEMMA PrimaryIsFirst ==
  ASSUME aliases \in Environments, NEW call \in Calls,
         NEW x \in parse_primary_machine_and_state[MaxDepth][call]
  PROVE  Leads(collect_machine_targets[MaxDepth][call][<<>>], x)
<1> DEFINE c == collect_machine_targets
           p == parse_primary_machine_and_state
           S == {k \in 0 .. MaxDepth : KeepsFirst(c[k]) /\ FindsFirst(p[k], c[k])}
<1>1. MaxDepth \in Nat
  BY TypesAssumption
<1>2. /\ \A k \in 0 .. MaxDepth : c[k] \in Walks
      /\ \A d \in Calls, T \in Targets : c[0][d][T] = T
      /\ \A k \in 1 .. MaxDepth, d \in Calls, T \in Targets :
           c[k][d][T] = collect_machine_targets_inner(c[k - 1], d, T)
  BY CollectIs
<1>3. /\ \A k \in 0 .. MaxDepth : p[k] \in Searches
      /\ \A d \in Calls : p[0][d] = {}
      /\ \A k \in 1 .. MaxDepth, d \in Calls :
           p[k][d] = parse_primary_machine_and_state_inner(p[k - 1], d)
  BY ParseIs
<1>4. <<>> \in Targets
  BY DEF Targets
<1> HIDE DEF c, p
<1>5. 0 \in S
  BY <1>1, <1>2, <1>3 DEF KeepsFirst, FindsFirst
<1>6. ASSUME NEW k \in 1 .. MaxDepth, k - 1 \in S PROVE k \in S
  <2>1. k \in 0 .. MaxDepth /\ k - 1 \in 0 .. MaxDepth
    BY <1>1
  <2>2. c[k - 1] \in Walks /\ p[k - 1] \in Searches /\ KeepsFirst(c[k - 1]) /\ FindsFirst(p[k - 1], c[k - 1])
    BY <1>2, <1>3, <1>6, <2>1
  <2>3. KeepsFirst(c[k])
    <3> SUFFICES ASSUME NEW d \in Calls, NEW T \in Targets, NEW y, Leads(T, y)
                 PROVE  Leads(c[k][d][T], y)
      BY DEF KeepsFirst
    <3>1. Leads(collect_machine_targets_inner(c[k - 1], d, T), y)
      BY <2>2, InnerKeepsFirst
    <3> QED BY <1>2, <3>1
  <2>4. FindsFirst(p[k], c[k])
    <3> SUFFICES ASSUME NEW d \in Calls, NEW y, y \in p[k][d]
                 PROVE  Leads(c[k][d][<<>>], y)
      BY DEF FindsFirst
    <3>1. y \in parse_primary_machine_and_state_inner(p[k - 1], d)
      BY <1>3
    <3>2. Leads(collect_machine_targets_inner(c[k - 1], d, <<>>), y)
      BY <2>2, <3>1, InnerFindsFirst
    <3> QED BY <1>2, <1>4, <3>2
  <2> QED BY <2>1, <2>3, <2>4
<1>7. MaxDepth \in S
  <2> HIDE DEF S
  <2>1. \A k \in 0 .. MaxDepth : k \in S
    BY <1>1, <1>5, <1>6, UpTo
  <2> QED BY <1>1, <2>1
<1> QED BY <1>7 DEF FindsFirst, c, p


\* One deeper, no target is lost.
LEMMA InnerKeepsAll ==
  ASSUME aliases \in Environments, NEW F \in Walks, KeepsAll(F),
         NEW call \in Calls, NEW T \in Targets
  PROVE  ToSet(T) \subseteq ToSet(collect_machine_targets_inner(F, call, T))
<1> DEFINE E == expand_source_type_alias(call.type, call.context, call.visited)
           result == collect_machine_targets_inner(F, call, T)
<1>1. CASE IsMachine(call.type)
  <2>1. result = IF IsMarker(call.type.args[1]) THEN push_unique_target(T, call.type.args[1].id) ELSE T
    BY <1>1, InnerCollects
  <2>2. call.type.args[1].id \in STRING
    BY <1>1, MachineState
  <2>3. ToSet(T) \subseteq ToSet(push_unique_target(T, call.type.args[1].id))
    BY <2>2, PushHas DEF Targets
  <2> HIDE DEF result
  <2> QED BY <2>1, <2>3 DEF result
<1>2. CASE ~IsMachine(call.type) /\ E # {}
  <2>1. PICK e \in E : TRUE
    BY <1>2
  <2>2. e \in Calls /\ result = F[e][T]
    BY <1>2, <2>1, ExpansionIsCall, InnerCollects
  <2> QED BY <2>2 DEF KeepsAll
<1>3. CASE ~IsMachine(call.type) /\ E = {}
  <2> DEFINE r == BranchesRead(F, call, T)
             n == Len(Branches(call.type))
             S == {k \in 0 .. n : ToSet(T) \subseteq ToSet(r[k])}
  <2>1. result = r[n]
    BY <1>3, InnerCollects
  <2>2. ReadsBranches(r, F, call, T)
    BY BranchesReadIs
  <2>3. Branches(call.type) \in Seq(Types)
    BY BranchesType DEF Calls
  <2> HIDE DEF r
  <2>4. /\ n \in Nat
        /\ \A i \in 1 .. n : OnBranch(call, Branches(call.type)[i]) \in Calls
    BY <2>3, OnBranchIsCall
  <2>5. /\ r[0] = T
        /\ \A i \in 0 .. n : r[i] \in Targets
        /\ \A i \in 1 .. n : r[i] = F[OnBranch(call, Branches(call.type)[i])][r[i - 1]]
    BY <2>2 DEF ReadsBranches
  <2> HIDE DEF n
  <2>6. 0 \in S
    BY <2>4, <2>5
  <2>7. ASSUME NEW k \in 1 .. n, k - 1 \in S PROVE k \in S
    <3>1. k \in 0 .. n /\ k - 1 \in 0 .. n
      BY <2>4
    <3>2. ToSet(r[k - 1]) \subseteq ToSet(r[k])
      BY <2>4, <2>5, <3>1 DEF KeepsAll
    <3> QED BY <2>7, <3>1, <3>2
  <2> HIDE DEF S
  <2>8. n \in S
    <3>1. \A k \in 0 .. n : k \in S
      BY <2>4, <2>6, <2>7, UpTo
    <3> QED BY <2>4, <3>1
  <2> USE DEF S
  <2> HIDE DEF result
  <2> QED BY <2>1, <2>8 DEF result
<1> QED BY <1>1, <1>2, <1>3

\* Without aliases, what is no wrapper is read no further.
LEMMA PlainEnds ==
  ASSUME aliases \in Environments, NEW call \in Calls, call.context = NoContext,
         ~IsMachine(call.type), call.type.qual # "abs"
  PROVE  /\ \A P : parse_primary_machine_and_state_inner(P, call) = {}
         /\ \A F \in Walks, T \in Targets : collect_machine_targets_inner(F, call, T) = T
<1>1. expand_source_type_alias(call.type, call.context, call.visited) = {}
  BY NotExpanded
<1>2. Branches(call.type) = <<>> /\ Len(Branches(call.type)) = 0
  BY DEF Branches, supported_wrapper
<1>3. ASSUME NEW P PROVE parse_primary_machine_and_state_inner(P, call) = {}
  <2>1. First(Branches(call.type)) = {}
    BY <1>2 DEF First
  <2> QED BY <1>1, <2>1 DEF parse_primary_machine_and_state_inner
<1>4. ASSUME NEW F \in Walks, NEW T \in Targets
      PROVE  collect_machine_targets_inner(F, call, T) = T
  <2>1. collect_machine_targets_inner(F, call, T) = BranchesRead(F, call, T)[0]
    BY <1>1, <1>2, InnerCollects
  <2>2. ReadsBranches(BranchesRead(F, call, T), F, call, T)
    BY BranchesReadIs
  <2> QED BY <2>1, <2>2 DEF ReadsBranches
<1> QED BY <1>3, <1>4

\* One deeper, the reading without aliases finds no more targets.
LEMMA InnerFindsNoMore ==
  ASSUME aliases \in Environments, NEW F \in Walks, KeepsAll(F), FindsNoMore(F),
         NEW d \in Calls, NEW e \in Calls, Plainer(d, e),
         NEW T \in Targets, NEW U \in Targets, ToSet(T) \subseteq ToSet(U)
  PROVE  ToSet(collect_machine_targets_inner(F, d, T)) \subseteq ToSet(collect_machine_targets_inner(F, e, U))
<1>0. d.type = e.type /\ d.context = NoContext
  BY DEF Plainer
<1>1. CASE IsMachine(d.type)
  <2> DEFINE a == d.type.args[1]
  <2>1. a.id \in STRING
    BY <1>1, MachineState
  <2>2. collect_machine_targets_inner(F, d, T) = IF IsMarker(a) THEN push_unique_target(T, a.id) ELSE T
    BY <1>1, InnerCollects
  <2>3. collect_machine_targets_inner(F, e, U) = IF IsMarker(a) THEN push_unique_target(U, a.id) ELSE U
    BY <1>0, <1>1, InnerCollects
  <2> HIDE DEF a
  <2>4. ToSet(push_unique_target(T, a.id)) \subseteq ToSet(push_unique_target(U, a.id))
    <3>1. \A x : x \in ToSet(push_unique_target(T, a.id)) <=> x \in ToSet(T) \/ x = a.id
      BY <2>1, PushHas DEF Targets
    <3>2. \A x : x \in ToSet(push_unique_target(U, a.id)) <=> x \in ToSet(U) \/ x = a.id
      BY <2>1, PushHas DEF Targets
    <3> QED BY <3>1, <3>2
  <2> QED BY <2>2, <2>3, <2>4
<1>2. CASE ~IsMachine(d.type) /\ d.type.qual # "abs"
  <2>1. collect_machine_targets_inner(F, d, T) = T
    BY <1>0, <1>2, PlainEnds
  <2>2. ToSet(U) \subseteq ToSet(collect_machine_targets_inner(F, e, U))
    BY InnerKeepsAll
  <2> QED BY <2>1, <2>2
<1>3. CASE ~IsMachine(d.type) /\ d.type.qual = "abs"
  <2> DEFINE r == BranchesRead(F, d, T)
             q == BranchesRead(F, e, U)
             branches == Branches(d.type)
             n == Len(branches)
             S == {k \in 0 .. n : ToSet(r[k]) \subseteq ToSet(q[k])}
  <2>1. collect_machine_targets_inner(F, d, T) = r[n]
    BY <1>3, NotExpanded, InnerCollects
  <2>2. collect_machine_targets_inner(F, e, U) = q[n]
    BY <1>0, <1>3, NotExpanded, InnerCollects
  <2>3. ReadsBranches(r, F, d, T) /\ ReadsBranches(q, F, e, U)
    BY BranchesReadIs
  <2>4. branches \in Seq(Types)
    BY BranchesType DEF Calls
  <2> HIDE DEF r, q
  <2>5. /\ r[0] = T
        /\ \A i \in 0 .. n : r[i] \in Targets
        /\ \A i \in 1 .. n : r[i] = F[OnBranch(d, branches[i])][r[i - 1]]
    BY <2>3 DEF ReadsBranches
  <2>6. /\ q[0] = U
        /\ \A i \in 0 .. n : q[i] \in Targets
        /\ \A i \in 1 .. n : q[i] = F[OnBranch(e, branches[i])][q[i - 1]]
    BY <1>0, <2>3 DEF ReadsBranches
  <2>7. /\ n \in Nat
        /\ \A i \in 1 .. n : /\ OnBranch(d, branches[i]) \in Calls
                             /\ OnBranch(e, branches[i]) \in Calls
                             /\ Plainer(OnBranch(d, branches[i]), OnBranch(e, branches[i]))
    <3>1. n \in Nat /\ \A i \in 1 .. n : branches[i] \in Types
      BY <2>4
    <3> HIDE DEF branches, n
    <3> QED BY <1>0, <3>1, OnBranchIsCall DEF Plainer
  <2> HIDE DEF branches, n
  <2>8. 0 \in S
    BY <2>5, <2>6, <2>7
  <2>9. ASSUME NEW k \in 1 .. n, k - 1 \in S PROVE k \in S
    <3>1. k \in 0 .. n /\ k - 1 \in 0 .. n
      BY <2>7
    <3>2. ToSet(r[k - 1]) \subseteq ToSet(q[k - 1]) /\ r[k - 1] \in Targets /\ q[k - 1] \in Targets
      BY <2>5, <2>6, <2>9, <3>1
    <3>3. /\ OnBranch(d, branches[k]) \in Calls /\ OnBranch(e, branches[k]) \in Calls
          /\ Plainer(OnBranch(d, branches[k]), OnBranch(e, branches[k]))
      BY <2>7
    <3> DEFINE a == OnBranch(d, branches[k])
               b == OnBranch(e, branches[k])
               t == r[k - 1]
               u == q[k - 1]
    <3> HIDE DEF a, b, t, u
    <3>4. a \in Calls /\ b \in Calls /\ Plainer(a, b)
      BY <3>3 DEF a, b
    <3>5. ToSet(t) \subseteq ToSet(u) /\ t \in Targets /\ u \in Targets
      BY <3>2 DEF t, u
    <3>6. ToSet(F[a][t]) \subseteq ToSet(F[b][u])
      BY <3>4, <3>5, Zenon DEF FindsNoMore
    <3>7. ToSet(F[OnBranch(d, branches[k])][r[k - 1]]) \subseteq ToSet(F[OnBranch(e, branches[k])][q[k - 1]])
      BY <3>6 DEF a, b, t, u
    <3> QED BY <2>5, <2>6, <3>1, <3>7
  <2> HIDE DEF S
  <2>10. n \in S
    <3>1. \A k \in 0 .. n : k \in S
      BY <2>7, <2>8, <2>9, UpTo
    <3> QED BY <2>7, <3>1
  <2> USE DEF S
  <2> QED BY <2>1, <2>2, <2>10
<1> QED BY <1>1, <1>2, <1>3

LEMMA InnerSearchesNoFurther ==
  ASSUME aliases \in Environments, NEW P \in Searches, SearchesNoFurther(P),
         NEW d \in Calls, NEW e \in Calls, Plainer(d, e)
  PROVE  parse_primary_machine_and_state_inner(P, d) \subseteq parse_primary_machine_and_state_inner(P, e)
<1>0. d.type = e.type /\ d.context = NoContext
  BY DEF Plainer
<1>1. CASE IsMachine(d.type)
  BY <1>0, <1>1 DEF parse_primary_machine_and_state_inner
<1>2. CASE ~IsMachine(d.type) /\ d.type.qual # "abs"
  BY <1>0, <1>2, PlainEnds
<1>3. CASE ~IsMachine(d.type) /\ d.type.qual = "abs"
  <2> DEFINE B == First(Branches(d.type))
  <2>1. parse_primary_machine_and_state_inner(P, d) = UNION {P[OnBranch(d, b)] : b \in B}
    BY <1>3, NotExpanded DEF parse_primary_machine_and_state_inner, OnBranch
  <2>2. parse_primary_machine_and_state_inner(P, e) = UNION {P[OnBranch(e, b)] : b \in B}
    BY <1>0, <1>3, NotExpanded DEF parse_primary_machine_and_state_inner, OnBranch
  <2>3. \A b \in B : b \in Types
    BY BranchesType DEF First, Calls
  <2> HIDE DEF B
  <2>4. \A b \in B : P[OnBranch(d, b)] \subseteq P[OnBranch(e, b)]
    BY <1>0, <2>3, OnBranchIsCall DEF SearchesNoFurther, Plainer
  <2> QED BY <2>1, <2>2, <2>4
<1> QED BY <1>1, <1>2, <1>3

\* At every depth the reading without aliases finds no more.
LEMMA PlainReadsLess ==
  ASSUME aliases \in Environments, NEW d \in Calls, NEW e \in Calls, Plainer(d, e)
  PROVE  /\ parse_primary_machine_and_state[MaxDepth][d] \subseteq parse_primary_machine_and_state[MaxDepth][e]
         /\ ToSet(collect_machine_targets[MaxDepth][d][<<>>])
              \subseteq ToSet(collect_machine_targets[MaxDepth][e][<<>>])
<1> DEFINE c == collect_machine_targets
           p == parse_primary_machine_and_state
           S == {k \in 0 .. MaxDepth : KeepsAll(c[k]) /\ FindsNoMore(c[k]) /\ SearchesNoFurther(p[k])}
<1>1. MaxDepth \in Nat
  BY TypesAssumption
<1>2. /\ \A k \in 0 .. MaxDepth : c[k] \in Walks
      /\ \A f \in Calls, T \in Targets : c[0][f][T] = T
      /\ \A k \in 1 .. MaxDepth, f \in Calls, T \in Targets :
           c[k][f][T] = collect_machine_targets_inner(c[k - 1], f, T)
  BY CollectIs
<1>3. /\ \A k \in 0 .. MaxDepth : p[k] \in Searches
      /\ \A f \in Calls : p[0][f] = {}
      /\ \A k \in 1 .. MaxDepth, f \in Calls :
           p[k][f] = parse_primary_machine_and_state_inner(p[k - 1], f)
  BY ParseIs
<1> HIDE DEF c, p
<1>4. 0 \in S
  <2>1. KeepsAll(c[0]) /\ FindsNoMore(c[0])
    BY <1>2 DEF KeepsAll, FindsNoMore
  <2>2. SearchesNoFurther(p[0])
    BY <1>3 DEF SearchesNoFurther
  <2> QED BY <1>1, <2>1, <2>2
<1>5. ASSUME NEW k \in 1 .. MaxDepth, k - 1 \in S PROVE k \in S
  <2>1. k \in 0 .. MaxDepth /\ k - 1 \in 0 .. MaxDepth
    BY <1>1
  <2>2. /\ c[k - 1] \in Walks /\ p[k - 1] \in Searches
        /\ KeepsAll(c[k - 1]) /\ FindsNoMore(c[k - 1]) /\ SearchesNoFurther(p[k - 1])
    BY <1>2, <1>3, <1>5, <2>1
  <2>3. KeepsAll(c[k])
    <3> SUFFICES ASSUME NEW f \in Calls, NEW T \in Targets
                 PROVE  ToSet(T) \subseteq ToSet(c[k][f][T])
      BY DEF KeepsAll
    <3>1. ToSet(T) \subseteq ToSet(collect_machine_targets_inner(c[k - 1], f, T))
      BY <2>2, InnerKeepsAll
    <3> QED BY <1>2, <3>1
  <2>4. FindsNoMore(c[k])
    <3> SUFFICES ASSUME NEW f \in Calls, NEW g \in Calls, NEW T \in Targets, NEW U \in Targets,
                        Plainer(f, g), ToSet(T) \subseteq ToSet(U)
                 PROVE  ToSet(c[k][f][T]) \subseteq ToSet(c[k][g][U])
      BY DEF FindsNoMore
    <3>1. ToSet(collect_machine_targets_inner(c[k - 1], f, T))
            \subseteq ToSet(collect_machine_targets_inner(c[k - 1], g, U))
      BY <2>2, InnerFindsNoMore
    <3> QED BY <1>2, <3>1
  <2>5. SearchesNoFurther(p[k])
    <3> SUFFICES ASSUME NEW f \in Calls, NEW g \in Calls, Plainer(f, g)
                 PROVE  p[k][f] \subseteq p[k][g]
      BY DEF SearchesNoFurther
    <3>1. parse_primary_machine_and_state_inner(p[k - 1], f)
            \subseteq parse_primary_machine_and_state_inner(p[k - 1], g)
      BY <2>2, InnerSearchesNoFurther
    <3> QED BY <1>3, <3>1
  <2> QED BY <2>1, <2>3, <2>4, <2>5
<1>6. MaxDepth \in S
  <2> HIDE DEF S
  <2>1. \A k \in 0 .. MaxDepth : k \in S
    BY <1>1, <1>4, <1>5, UpTo
  <2> QED BY <1>1, <2>1
<1>7. <<>> \in Targets
  BY DEF Targets
<1> QED BY <1>6, <1>7 DEF FindsNoMore, SearchesNoFurther, c, p


-----------------------------------------------------------------------------
StartCall(ty, context) == [type |-> ty, context |-> context, visited |-> {}]

LEMMA StartIsCall ==
  ASSUME NEW ty \in Types, NEW context \in (DOMAIN aliases) \cup {NoContext}
  PROVE  StartCall(ty, context) \in Calls
BY DEF StartCall, Calls

\* What is resolved is what the two walks find; its first target is the primary.
LEMMA ResolvedIs ==
  ASSUME aliases \in Environments, NEW ty \in Types, NEW context \in (DOMAIN aliases) \cup {NoContext},
         NEW c \in resolve_in_context(ty, context)
  PROVE  /\ c = [primary_next_state |-> c.primary_next_state, next_states |-> c.next_states]
         /\ c.primary_next_state \in parse_primary_machine_and_state[MaxDepth][StartCall(ty, context)]
         /\ c.next_states = collect_machine_targets[MaxDepth][StartCall(ty, context)][<<>>]
         /\ c.next_states \in Targets
         /\ Leads(c.next_states, c.primary_next_state)
<1> DEFINE p == parse_primary_machine_and_state[MaxDepth][StartCall(ty, context)]
           next == collect_machine_targets[MaxDepth][StartCall(ty, context)][<<>>]
<1>1. PICK s \in p : c = [primary_next_state |-> s, next_states |-> next]
  <2>1. c \in {[primary_next_state |-> s, next_states |-> next] : s \in p}
    BY DEF resolve_in_context, StartCall
  <2> HIDE DEF p, next
  <2> QED BY <2>1
<1>2. StartCall(ty, context) \in Calls
  BY StartIsCall
<1>3. next \in Targets
  <2>1. MaxDepth \in 0 .. MaxDepth /\ <<>> \in Targets
    BY TypesAssumption DEF Targets
  <2>2. collect_machine_targets[MaxDepth] \in Walks
    BY <2>1, CollectIs
  <2> QED BY <1>2, <2>1, <2>2 DEF Walks
<1>4. Leads(next, s)
  BY <1>2, PrimaryIsFirst
<1> HIDE DEF p, next
<1>5. c.primary_next_state = s /\ c.next_states = next
  BY <1>1
<1> QED BY <1>1, <1>3, <1>4, <1>5 DEF p, next

\* The same primary target, and e has the targets of c.
Extends(e, c) ==
  /\ e.primary_next_state = c.primary_next_state
  /\ ToSet(c.next_states) \subseteq ToSet(e.next_states)

\* What is found without aliases is found with them.
LEMMA PlainIsFollowed ==
  ASSUME aliases \in Environments, NEW ty \in Types, NEW context \in DOMAIN aliases,
         NEW c \in resolve_in_context(ty, NoContext)
  PROVE  \E e \in resolve_in_context(ty, context) : Extends(e, c)
<1> DEFINE d == StartCall(ty, NoContext)
           f == StartCall(ty, context)
           next == collect_machine_targets[MaxDepth][f][<<>>]
           s == c.primary_next_state
           e == [primary_next_state |-> s, next_states |-> next]
<1>1. /\ s \in parse_primary_machine_and_state[MaxDepth][d]
      /\ c.next_states = collect_machine_targets[MaxDepth][d][<<>>]
  BY ResolvedIs
<1>2. d \in Calls /\ f \in Calls /\ Plainer(d, f)
  BY StartIsCall DEF Plainer, StartCall
<1>3. /\ s \in parse_primary_machine_and_state[MaxDepth][f]
      /\ ToSet(c.next_states) \subseteq ToSet(next)
  BY <1>1, <1>2, PlainReadsLess
<1>4. Leads(next, s)
  BY <1>2, <1>3, PrimaryIsFirst
<1> HIDE DEF s
<1>5. e \in resolve_in_context(ty, context)
  <2>1. next # <<>> /\ e.next_states = next
    BY <1>4 DEF Leads
  <2>2. e \in {[primary_next_state |-> q, next_states |-> next] : q \in parse_primary_machine_and_state[MaxDepth][f]}
    BY <1>3
  <2> QED BY <2>1, <2>2 DEF resolve_in_context, StartCall
<1>6. e.primary_next_state = s /\ e.next_states = next
  OBVIOUS
<1> QED BY <1>3, <1>5, <1>6 DEF s, Extends

-----------------------------------------------------------------------------
ContractSet == [primary_next_state : Variants, next_states : Seq(Variants)]

MethodSet == [return_type : Types \cup {NoType}, introspection : Types \cup {NoType},
              has_receiver : BOOLEAN]

\* Every contract kept was accepted for the method at its place.
ContractsInv ==
  /\ aliases \in Environments
  /\ tr_impl \in Impls
  /\ strict \in BOOLEAN
  /\ verdict \in {"parsed", "validating", "refused", "validated"}
  /\ validated \in Seq(ContractSet)
  /\ Len(validated) <= Len(tr_impl.functions)
  /\ \A i \in DOMAIN validated : validated[i] \in Accepted(tr_impl.functions[i])

LEMMA ModuleIsThere ==
  ASSUME aliases \in Environments, tr_impl \in Impls
  PROVE  tr_impl.module \in DOMAIN aliases /\ tr_impl.functions \in Seq(MethodSet)
BY ContractsAssumption DEF MethodSet

\* The module's context is tried first, and only unless the mode is strict.
LEMMA TargetsAre ==
  ASSUME NEW ty, NEW module, NEW mode \in BOOLEAN
  PROVE  resolve_transition_targets(ty, module, mode)
           = IF mode \/ resolve_in_context(ty, module) = {}
             THEN resolve_in_context(ty, NoContext) ELSE resolve_in_context(ty, module)
<1> DEFINE found == [context \in {module, NoContext} |-> resolve_in_context(ty, context)]
<1>1. found[module] = resolve_in_context(ty, module) /\ found[NoContext] = resolve_in_context(ty, NoContext)
  OBVIOUS
<1>2. resolve_transition_targets(ty, module, mode) = find_map(found, module, mode)
  BY Zenon DEF resolve_transition_targets
<1> HIDE DEF found
<1> QED BY <1>1, <1>2, Zenon DEF find_map

\* A contract is resolved from a type of its method, in the impl's module or in none.
LEMMA BuiltIsResolved ==
  ASSUME aliases \in Environments, tr_impl \in Impls, strict \in BOOLEAN, NEW f \in MethodSet,
         NEW c \in build_transition_contract(f)
  PROVE  /\ f.return_type \in Types
         /\ \E context \in {tr_impl.module, NoContext} : c \in resolve_in_context(f.return_type, context)
         /\ f.introspection # NoType => c \in resolve_transition_targets(f.return_type, tr_impl.module, FALSE)
         /\ f.introspection = NoType => c \in resolve_transition_targets(f.return_type, tr_impl.module, strict)
<1> DEFINE mode == strict /\ f.introspection = NoType
           targets(b) == resolve_transition_targets(f.return_type, tr_impl.module, b)
<1>1. f.return_type # NoType /\ c \in targets(mode)
  BY DEF build_transition_contract
<1>2. f.return_type \in Types
  BY <1>1 DEF MethodSet
<1>3. mode \in BOOLEAN
  OBVIOUS
<1>4. f.introspection # NoType => mode = FALSE
  OBVIOUS
<1>5. f.introspection = NoType => mode = strict
  OBVIOUS
<1> HIDE DEF mode
<1>6. \E context \in {tr_impl.module, NoContext} : c \in resolve_in_context(f.return_type, context)
  BY <1>1, <1>3, TargetsAre
<1> QED BY <1>1, <1>2, <1>4, <1>5, <1>6

LEMMA AcceptedIsContract ==
  ASSUME aliases \in Environments, tr_impl \in Impls, strict \in BOOLEAN, NEW f \in MethodSet,
         NEW c \in Accepted(f)
  PROVE  c \in ContractSet /\ Leads(c.next_states, c.primary_next_state)
<1>1. c \in build_transition_contract(f) /\ all_next_states(c) \subseteq Variants
  BY DEF Accepted
<1>2. PICK context \in {tr_impl.module, NoContext} : c \in resolve_in_context(f.return_type, context)
  BY <1>1, BuiltIsResolved
<1>3. f.return_type \in Types
  BY <1>1, BuiltIsResolved
<1>4. context \in (DOMAIN aliases) \cup {NoContext}
  BY <1>2, ModuleIsThere
<1>5. /\ c = [primary_next_state |-> c.primary_next_state, next_states |-> c.next_states]
      /\ c.next_states \in Targets /\ Leads(c.next_states, c.primary_next_state)
  BY <1>2, <1>3, <1>4, ResolvedIs
<1>6. c.primary_next_state \in Variants /\ ToSet(c.next_states) \subseteq Variants
  BY <1>1 DEF all_next_states
<1>7. c.next_states \in Seq(Variants)
  <2> DEFINE t == c.next_states
             n == Len(t)
  <2>1. n \in Nat /\ DOMAIN t = 1 .. n /\ t = [i \in 1 .. n |-> t[i]]
    BY <1>5 DEF Targets
  <2>2. \A i \in DOMAIN t : t[i] \in Variants
    BY <1>6 DEF ToSet
  <2> HIDE DEF t, n
  <2>3. t \in [1 .. n -> Variants]
    BY <2>1, <2>2
  <2>4. t \in Seq(Variants)
    BY <2>1, <2>3
  <2> QED BY <2>4 DEF t
<1> HIDE DEF ContractSet
<1>8. c \in ContractSet
  BY <1>5, <1>6, <1>7 DEF ContractSet
<1> QED BY <1>5, <1>8


LEMMA AcceptedUnchanged ==
  ASSUME aliases' = aliases, tr_impl' = tr_impl, strict' = strict, NEW i
  PROVE  Accepted(tr_impl.functions[i])' = Accepted(tr_impl.functions[i])
BY DEF Accepted, build_transition_contract, resolve_transition_targets, find_map, resolve_in_context,
       parse_primary_machine_and_state, parse_primary_machine_and_state_inner,
       collect_machine_targets, collect_machine_targets_inner, BranchesRead,
       expand_source_type_alias, resolve_type_alias, alias_module_path, Calls

LEMMA ContractsInvInit == ContractsInit => ContractsInv
<1> SUFFICES ASSUME ContractsInit PROVE ContractsInv
  OBVIOUS
<1>1. validated = <<>> /\ <<>> \in Seq(ContractSet) /\ DOMAIN <<>> = {} /\ Len(<<>>) = 0
  BY DEF ContractsInit
<1>2. tr_impl.functions \in Seq(MethodSet)
  BY ModuleIsThere DEF ContractsInit
<1>3. Len(tr_impl.functions) \in Nat
  BY <1>2
<1>4. Len(validated) <= Len(tr_impl.functions)
  BY <1>1, <1>3
<1> QED BY <1>1, <1>4 DEF ContractsInit, ContractsInv

LEMMA ContractsInvStep == ContractsInv /\ [ContractsNext]_contractVars => ContractsInv'
<1> SUFFICES ASSUME ContractsInv, [ContractsNext]_contractVars PROVE ContractsInv'
  OBVIOUS
<1>1. aliases' = aliases /\ tr_impl' = tr_impl /\ strict' = strict
  BY DEF ContractsNext, CheckImpl, CheckMethod, Done, contractVars
<1>2. \A i : Accepted(tr_impl.functions[i])' = Accepted(tr_impl.functions[i])
  BY <1>1, AcceptedUnchanged
<1>3. CASE validated' = validated
  <2>1. verdict' \in {"parsed", "validating", "refused", "validated"}
    BY DEF ContractsInv, ContractsNext, CheckImpl, CheckMethod, Done, contractVars
  <2>2. \A i \in DOMAIN validated' : validated'[i] \in Accepted(tr_impl.functions[i])'
    BY <1>1, <1>2, <1>3 DEF ContractsInv
  <2> QED BY <1>1, <1>3, <2>1, <2>2 DEF ContractsInv
<1>4. CASE validated' # validated
  <2> DEFINE n == Len(validated)
  <2>1. PICK c \in Accepted(func) :
          /\ validated' = Append(validated, c) /\ verdict' = verdict
          /\ n < Len(tr_impl.functions)
    BY <1>4 DEF ContractsNext, CheckImpl, CheckMethod, Done, contractVars
  <2>2. tr_impl.functions \in Seq(MethodSet) /\ validated \in Seq(ContractSet)
    BY ModuleIsThere DEF ContractsInv
  <2>3. /\ n \in Nat /\ Len(tr_impl.functions) \in Nat
        /\ n + 1 \in 1 .. Len(tr_impl.functions) /\ n + 1 <= Len(tr_impl.functions)
    BY <2>1, <2>2
  <2>4. func \in MethodSet
    BY <2>2, <2>3 DEF func
  <2>5. c \in ContractSet
    BY <2>1, <2>4, AcceptedIsContract DEF ContractsInv
  <2>6. /\ Append(validated, c) \in Seq(ContractSet) /\ Len(Append(validated, c)) = n + 1
        /\ DOMAIN Append(validated, c) = 1 .. (n + 1) /\ DOMAIN validated = 1 .. n
        /\ Append(validated, c)[n + 1] = c
        /\ \A i \in 1 .. n : Append(validated, c)[i] = validated[i]
    <3> HIDE DEF ContractSet
    <3> QED BY <2>2, <2>5
  <2> HIDE DEF n
  <2>7. ASSUME NEW i \in DOMAIN validated' PROVE validated'[i] \in Accepted(tr_impl.functions[i])
    <3>1. CASE i = n + 1
      BY <2>1, <2>6, <3>1 DEF func, n
    <3>2. CASE i # n + 1
      <4>1. i \in 1 .. n
        BY <2>1, <2>3, <2>6, <3>2
      <4> QED BY <2>1, <2>6, <4>1 DEF ContractsInv
    <3> QED BY <3>1, <3>2
  <2>8. \A i \in DOMAIN validated' : validated'[i] \in Accepted(tr_impl.functions[i])'
    BY <1>1, <1>2, <2>7
  <2>9. validated' \in Seq(ContractSet) /\ Len(validated') <= Len(tr_impl'.functions)
    BY <1>1, <2>1, <2>3, <2>6
  <2> QED BY <1>1, <2>1, <2>8, <2>9 DEF ContractsInv
<1> QED BY <1>3, <1>4

LEMMA ContractsInvariance == ContractsSpec => []ContractsInv
BY ContractsInvInit, ContractsInvStep, PTL DEF ContractsSpec

LEMMA KeptIsAccepted ==
  ASSUME ContractsInv, NEW i \in DOMAIN validated
  PROVE  tr_impl.functions[i] \in MethodSet /\ validated[i] \in Accepted(tr_impl.functions[i])
<1>1. tr_impl.functions \in Seq(MethodSet) /\ validated \in Seq(ContractSet)
  BY ModuleIsThere DEF ContractsInv
<1>2. Len(validated) <= Len(tr_impl.functions)
  BY DEF ContractsInv
<1>3. i \in 1 .. Len(tr_impl.functions)
  <2> HIDE DEF ContractSet, MethodSet
  <2> QED BY <1>1, <1>2
<1> HIDE DEF MethodSet
<1> QED BY <1>1, <1>3 DEF ContractsInv

\* The contracts kept name variants only.
THEOREM ContractsTyped == ContractsSpec => []ContractsTypeOK
<1>1. ContractsInv => ContractsTypeOK
  BY DEF ContractsInv, ContractsTypeOK, ContractSet
<1> QED BY <1>1, ContractsInvariance, PTL

\* The primary target is the first that the graph lists.
THEOREM PrimaryLeadsHolds == ContractsSpec => []PrimaryLeads
<1>1. ASSUME ContractsInv PROVE PrimaryLeads
  <2> SUFFICES ASSUME NEW i \in DOMAIN validated
               PROVE  Leads(validated[i].next_states, validated[i].primary_next_state)
    BY DEF PrimaryLeads, Leads
  <2>1. tr_impl.functions[i] \in MethodSet /\ validated[i] \in Accepted(tr_impl.functions[i])
    BY <1>1, KeptIsAccepted
  <2> QED BY <1>1, <2>1, AcceptedIsContract DEF ContractsInv
<1> QED BY <1>1, ContractsInvariance, PTL

\* What the strict mode accepts has the same primary target without it, and at
\* least the same targets.
THEOREM StrictNeverInventsHolds == ContractsSpec => []StrictNeverInvents
<1>1. ASSUME ContractsInv PROVE StrictNeverInvents
  <2> SUFFICES ASSUME strict, NEW i \in DOMAIN validated
               PROVE  LET f == tr_impl.functions[i]
                      IN  \E followed \in resolve_transition_targets(f.return_type, tr_impl.module, FALSE) :
                        /\ followed.primary_next_state = validated[i].primary_next_state
                        /\ ToSet(validated[i].next_states) \subseteq ToSet(followed.next_states)
    BY DEF StrictNeverInvents
  <2> DEFINE f == tr_impl.functions[i]
             c == validated[i]
  <2>1. f \in MethodSet /\ c \in build_transition_contract(f)
    BY <1>1, KeptIsAccepted DEF Accepted
  <2> HIDE DEF f, c
  <2>2. /\ aliases \in Environments /\ tr_impl \in Impls /\ strict \in BOOLEAN
        /\ tr_impl.module \in DOMAIN aliases
    BY <1>1, ModuleIsThere DEF ContractsInv
  <2>3. CASE f.introspection # NoType
    <3>1. c \in resolve_transition_targets(f.return_type, tr_impl.module, FALSE)
      BY <2>1, <2>2, <2>3, BuiltIsResolved
    <3> QED BY <3>1 DEF f, c
  <2>4. CASE f.introspection = NoType
    <3>1. c \in resolve_in_context(f.return_type, NoContext) /\ f.return_type \in Types
      BY <2>1, <2>2, <2>4, BuiltIsResolved, TargetsAre
    <3> DEFINE ty == f.return_type
               context == tr_impl.module
    <3> HIDE DEF ty, context
    <3>2. ty \in Types /\ context \in DOMAIN aliases /\ c \in resolve_in_context(ty, NoContext)
      BY <2>2, <3>1 DEF ty, context
    <3>3. PICK e \in resolve_in_context(ty, context) : Extends(e, c)
      BY <2>2, <3>2, PlainIsFollowed
    <3>4. e \in resolve_transition_targets(f.return_type, tr_impl.module, FALSE)
      BY <3>3, TargetsAre DEF ty, context
    <3> QED BY <3>3, <3>4 DEF f, c, Extends
  <2> QED BY <2>3, <2>4
<1> QED BY <1>1, ContractsInvariance, PTL

=============================================================================
