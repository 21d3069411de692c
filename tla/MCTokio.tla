------------------------------- MODULE MCTokio -------------------------------
(***************************************************************************)
(* The two programs that run on tokio, one or the other in each behaviour. *)
(* Jobs: two jobs of every payload and budget, one call given up, and a    *)
(* clock that is moved forwards and backwards.                             *)
(* Session: channels of two frames, and every sequence of up to four of    *)
(* ten frames, which name two users and two topics, rightly and wrongly.   *)
(***************************************************************************)
EXTENDS JobRunner

CONSTANTS Capacity, ClientFrames, MaxSends

VARIABLES client_q, server_q, session, task, reply, handle, handled, received

Session == INSTANCE WebsocketSession

SmallFrames ==
    [kind : {"Authenticate"}, user : {"ada", "bob", ""}]
      \cup [kind : {"Subscribe"}, topic : {"x", "y", ""}]
      \cup [kind : {"Publish"}, topic : {"x"}, body : BOOLEAN]
      \cup [kind : {"Publish"}, topic : {"y"}, body : {TRUE}]
      \cup {[kind |-> "Close"]}

sessionVars == <<client_q, server_q, session, task, reply, handle, handled, received>>

\* No session was ever spawned.
NoSession ==
    /\ client_q = <<>> /\ server_q = <<>> /\ handled = <<>> /\ received = <<>>
    /\ session = [phase |-> "Closed"] /\ reply = [kind |-> "none"]
    /\ task = "channel_closed" /\ handle = "dropped"

TokioInit == Init /\ (NoSession \/ Session!Init)

\* A spawned session runs beside a runner that nobody calls.
TokioNext ==
    \/ reply.kind = "none" /\ Next /\ UNCHANGED sessionVars
    \/ reply.kind # "none" /\ Session!Next /\ UNCHANGED vars

TokioSpec ==
    /\ TokioInit /\ [][TokioNext]_<<vars, sessionVars>>
    /\ WF_vars(Step) /\ WF_sessionVars(Session!run_session)

-----------------------------------------------------------------------------
\* Every frame is answered as those before it call for (run_session).
AnswersFollowTheFrames == Session!AnswersFollowTheFrames

\* A session that is dropped, or finished with room for its answers, ends.
SessionsEnd == Session!SessionsEnd
=============================================================================
