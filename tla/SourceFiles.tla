----------------------------- MODULE SourceFiles -----------------------------
(***************************************************************************)
(* The Rust source files a macro expansion looks at, seen the way          *)
(* statum-macros/src/source sees them: each file is at some version of its *)
(* text, an edit moves it to the next one, and a version is observed only  *)
(* through its metadata (the fingerprint: length and mtime) and its text   *)
(* (which module path each line belongs to).                               *)
(***************************************************************************)
EXTENDS Naturals

CONSTANTS
  Files,
  Lines,
  MaxVersion,     \* bound: the versions an editor writes to one file
  Paths,          \* module paths, "outer::inner"
  NoPath,         \* the None of find_module_path
  Fingerprints,
  Present,        \* versions at which fs::metadata answers
  Readable,       \* versions whose text can be read and tokenized
  FingerprintOf,  \* metadata of each version
  PathAt          \* module path of each line, in each version

Versions == 0 .. MaxVersion

ASSUME VersionsAssumption ==
  /\ MaxVersion \in Nat
  /\ Present \subseteq Versions
  /\ Readable \subseteq Present
  /\ FingerprintOf \in [Versions -> Fingerprints]
  /\ PathAt \in [Versions -> [Lines -> Paths \cup {NoPath}]]

\* FileFingerprint is (len, mtime in ns); cache.rs compares nothing else, so it
\* relies on two texts of one file never having the same length and mtime.
ASSUME FingerprintsIdentifyVersions ==
  \A v, w \in Present : FingerprintOf[v] = FingerprintOf[w] => v = w

\* A question about a line; `since` is the version the file had when asked.
Requests == [file : Files, line : Lines, since : Versions]

\* What a lookup of line l of version v of a file finds.
PathIn(v, l) == IF v \in Readable THEN PathAt[v][l] ELSE NoPath

=============================================================================
