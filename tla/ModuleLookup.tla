---------------------------- MODULE ModuleLookup ----------------------------
(***************************************************************************)
(* What find_module_path promises its callers, without caches: a caller    *)
(* asks for the module path of a line, and is answered from some version   *)
(* the file had between the question and the answer.                       *)
(***************************************************************************)
EXTENDS SourceFiles

CONSTANTS Threads, NoRequest

VARIABLES
  disk,     \* version of each file
  request,  \* the question each thread is waiting on
  answer    \* the last answer each thread received

lookupVars == <<disk, request, answer>>

Edit(f) ==
  /\ disk[f] < MaxVersion
  /\ disk' = [disk EXCEPT ![f] = @ + 1]
  /\ UNCHANGED <<request, answer>>

Ask(t, f, l) ==
  /\ request[t] = NoRequest
  /\ request' = [request EXCEPT ![t] = [file |-> f, line |-> l, since |-> disk[f]]]
  /\ UNCHANGED <<disk, answer>>

Answer(t, v) ==
  /\ request[t] # NoRequest
  /\ v \in request[t].since .. disk[request[t].file]
  /\ answer' = [answer EXCEPT ![t] = PathIn(v, request[t].line)]
  /\ request' = [request EXCEPT ![t] = NoRequest]
  /\ UNCHANGED disk

Init ==
  /\ disk = [f \in Files |-> 0]
  /\ request = [t \in Threads |-> NoRequest]
  /\ answer = [t \in Threads |-> NoPath]

Next ==
  \/ \E f \in Files : Edit(f)
  \/ \E t \in Threads, f \in Files, l \in Lines : Ask(t, f, l)
  \/ \E t \in Threads, v \in Versions : Answer(t, v)

Spec == Init /\ [][Next]_lookupVars

=============================================================================
