---------------------------- MODULE MCSourceCache ----------------------------
(* Instances of SourceCache.  Two expansions share the caches.  The file      *)
(* goes through four versions: a first text, deleted (or being replaced),    *)
(* not valid UTF-8, and a last text.  Each text puts its lines in a module   *)
(* of its own, so that an answer tells which version it came from.           *)
EXTENDS SourceCache

MCFingerprints == {v + 10 : v \in Versions}
MCFingerprintOf == [v \in Versions |-> v + 10]
MCPaths == {"m0", "m1", "m2", "m3"}
MCPathAt == [v \in Versions |-> [l \in Lines |->
               CASE v = 0 -> "m0" [] v = 1 -> "m1" [] v = 2 -> "m2" [] OTHER -> "m3"]]

AllVersions == Versions
AllButDeleted == Versions \ {1}
OnlyTexts == Versions \ {1, 2}

=============================================================================
