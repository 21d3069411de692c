-------------------------- MODULE WebsocketSession --------------------------
(***************************************************************************)
(* The session of the websocket showcase: a task that reads client frames  *)
(* from one bounded channel, moves a typed session machine and answers on  *)
(* another bounded channel; and the handle that owns the far end of both.  *)
(***************************************************************************)
EXTENDS Integers, Sequences, FiniteSets

CONSTANTS
    Capacity,      \* the capacity of both channels, at least one
    ClientFrames,  \* the frames a client may send
    MaxSends       \* bound: how many it sends

VARIABLES
    client_q,  \* frames the client has sent and the session not read
    server_q,  \* frames the session has sent and the client not read
    session,   \* the machine: its phase, and the data of the phase
    task,      \* where the session's task awaits, or how it ended
    reply,     \* the frame it is sending
    handle,    \* whether the handle is open, in finish, or dropped
    handled,   \* history: the client frames read by the session
    received   \* history: the server frames read by the client

vars == <<client_q, server_q, session, task, reply, handle, handled, received>>

\* Frames of both directions.  Who authenticates, and which topic is meant,
\* is all that is kept of them; "" is the token without a user and the blank
\* topic, and a body is only blank or not.
Authenticate(user)   == [kind |-> "Authenticate", user |-> user]
Subscribe(topic)     == [kind |-> "Subscribe", topic |-> topic]
Publish(topic, body) == [kind |-> "Publish", topic |-> topic, body |-> body]
Close                == [kind |-> "Close"]

Hello                  == [kind |-> "Hello"]
Authenticated(user)    == [kind |-> "Authenticated", user |-> user]
Subscribed(topic)      == [kind |-> "Subscribed", topic |-> topic]
Delivered(user, topic) == [kind |-> "Delivered", user |-> user, topic |-> topic]
Error                  == [kind |-> "Error"]
Bye                    == [kind |-> "Bye"]

Phases == {"Connected", "Authenticated", "Subscribed", "Closed"}

(***************************************************************************)
(* The session's task.                                                     *)
(***************************************************************************)
Init ==
    /\ client_q = <<>> /\ server_q = <<>>
    /\ session = [phase |-> "Connected", user |-> "", topic |-> ""]
    /\ task = "send" /\ reply = Hello
    /\ handle = "open"
    /\ handled = <<>> /\ received = <<>>

Stay(frame) == reply' = frame /\ UNCHANGED session

\* Mutant: a second user takes the session over.
authenticate_Again(frame) ==
    /\ frame.kind = "Authenticate" /\ frame.user # ""
    /\ session' = [session EXCEPT !.phase = "Authenticated", !.user = frame.user]
    /\ reply' = Authenticated(frame.user)

authenticate(frame) ==
    /\ session.phase = "Connected" /\ frame.kind = "Authenticate" /\ frame.user # ""
    /\ session' = [session EXCEPT !.phase = "Authenticated", !.user = frame.user]
    /\ reply' = Authenticated(frame.user)

subscribe(frame) ==
    /\ session.phase = "Authenticated" /\ frame.kind = "Subscribe" /\ frame.topic # ""
    /\ session' = [session EXCEPT !.phase = "Subscribed", !.topic = frame.topic]
    /\ reply' = Subscribed(frame.topic)

publish(frame) ==
    /\ session.phase = "Subscribed" /\ frame.kind = "Publish"
    /\ frame.body /\ frame.topic = session.topic
    /\ Stay(Delivered(session.user, frame.topic))

close(frame) ==
    /\ frame.kind = "Close"
    /\ session' = [session EXCEPT !.phase = "Closed"]
    /\ reply' = Bye

\* Everything else is answered with an error and changes nothing.
Refused(frame) ==
    \/ frame.kind = "Authenticate" /\ (session.phase # "Connected" \/ frame.user = "")
    \/ frame.kind = "Subscribe" /\ (session.phase # "Authenticated" \/ frame.topic = "")
    \/ /\ frame.kind = "Publish"
       /\ session.phase # "Subscribed" \/ ~frame.body \/ frame.topic # session.topic

Handle(frame) ==
    \/ authenticate(frame) \/ subscribe(frame) \/ publish(frame) \/ close(frame)
    \/ Refused(frame) /\ Stay(Error)

\* Mutant: finish keeps the sender, so the session waits for more frames.
recv_client_Patient ==
    /\ task = "recv"
    /\ \/ /\ client_q # <<>>
          /\ Handle(Head(client_q))
          /\ client_q' = Tail(client_q)
          /\ handled' = Append(handled, Head(client_q))
          /\ task' = "send"
       \/ /\ client_q = <<>> /\ handle = "dropped"
          /\ task' = "disconnected"
          /\ UNCHANGED <<client_q, handled, session, reply>>
    /\ UNCHANGED <<server_q, handle, received>>

recv_client ==
    /\ task = "recv"
    /\ \/ /\ client_q # <<>>
          /\ Handle(Head(client_q))
          /\ client_q' = Tail(client_q)
          /\ handled' = Append(handled, Head(client_q))
          /\ task' = "send"
       \/ /\ client_q = <<>> /\ handle # "open"
          /\ task' = "disconnected"
          /\ UNCHANGED <<client_q, handled, session, reply>>
    /\ UNCHANGED <<server_q, handle, received>>

\* Waits while the channel is full; the receiver lives until the handle is
\* dropped, through finish too.
send_server ==
    /\ task = "send"
    /\ \/ /\ handle # "dropped" /\ Len(server_q) < Capacity
          /\ server_q' = Append(server_q, reply)
          /\ task' = IF session.phase = "Closed" THEN "ok" ELSE "recv"
       \/ /\ handle = "dropped"
          /\ task' = "channel_closed" /\ UNCHANGED server_q
    /\ UNCHANGED <<client_q, session, reply, handle, handled, received>>

Ended == task \in {"ok", "disconnected", "channel_closed"}

(***************************************************************************)
(* The handle.                                                             *)
(***************************************************************************)
send(frame) ==
    /\ handle = "open" /\ ~Ended
    /\ Len(client_q) < Capacity
    /\ Len(handled) + Len(client_q) < MaxSends
    /\ client_q' = Append(client_q, frame)
    /\ UNCHANGED <<server_q, session, task, reply, handle, handled, received>>

recv ==
    /\ handle = "open" /\ server_q # <<>>
    /\ received' = Append(received, Head(server_q))
    /\ server_q' = Tail(server_q)
    /\ UNCHANGED <<client_q, session, task, reply, handle, handled>>

\* Drops the sender, then waits for the task.
finish ==
    /\ handle = "open" /\ handle' = "finishing"
    /\ UNCHANGED <<client_q, server_q, session, task, reply, handled, received>>

Drop ==
    /\ handle = "open" /\ handle' = "dropped"
    /\ UNCHANGED <<client_q, server_q, session, task, reply, handled, received>>

run_session == recv_client \/ send_server

Next ==
    \/ run_session
    \/ \E frame \in ClientFrames : send(frame)
    \/ recv
    \/ finish
    \/ Drop

Spec == Init /\ [][Next]_vars

\* The runtime polls the task; what the client does is its own affair.
FairSpec == Spec /\ WF_vars(run_session)

-----------------------------------------------------------------------------
(***************************************************************************)
(* Correctness.                                                            *)
(***************************************************************************)
\* The first of some frames, 0 when there is none.
First(ks) == IF ks = {} THEN 0 ELSE CHOOSE k \in ks : \A l \in ks : k <= l

NamesAUser(frame)  == frame.kind = "Authenticate" /\ frame.user # ""
NamesATopic(frame) == frame.kind = "Subscribe" /\ frame.topic # ""
AuthenticatedBy == First({k \in DOMAIN handled : NamesAUser(handled[k])})
SubscribedBy ==
    First({k \in DOMAIN handled :
             AuthenticatedBy # 0 /\ k > AuthenticatedBy /\ NamesATopic(handled[k])})

\* The answer to the k-th frame, told from the frames alone.
Answer(k) ==
    LET frame == handled[k]
    IN  CASE frame.kind = "Close" -> Bye
          [] k = AuthenticatedBy -> Authenticated(frame.user)
          [] k = SubscribedBy -> Subscribed(frame.topic)
          [] /\ frame.kind = "Publish" /\ frame.body
             /\ SubscribedBy # 0 /\ SubscribedBy < k
             /\ frame.topic = handled[SubscribedBy].topic
             -> Delivered(handled[AuthenticatedBy].user, frame.topic)
          [] OTHER -> Error

Answers == received \o server_q

\* The client is greeted and then gets one answer to each frame it sent, in
\* the order it sent them, which is the one that the frames before it call for:
\* the first user named is the session's, the first topic named after that its
\* subscription, only what is published to that topic afterwards is delivered,
\* and delivered to that user; a refused frame changes nothing.  (run_session,
\* with both channels filling up and draining at any pace.)
AnswersFollowTheFrames ==
    /\ Len(Answers) = Len(handled) + (IF task = "send" \/ task = "channel_closed" THEN 0 ELSE 1)
    /\ \A k \in 1..Len(Answers) : Answers[k] = IF k = 1 THEN Hello ELSE Answer(k - 1)

\* A session whose handle is dropped ends, and finish returns, as long as the
\* answers that are still owed fit into the channel that nobody reads any more:
\* with more of them finish waits for a task that waits for it.  (finish keeps
\* the receiver while it awaits the task, send_server waits for room.)
Owed == Len(client_q) + (IF task = "send" THEN 1 ELSE 0)
SessionsEnd ==
    handle = "dropped" \/ (handle = "finishing" /\ Owed + Len(server_q) <= Capacity) ~> Ended
=============================================================================
