--------------------------- MODULE ReviewService ---------------------------
(***************************************************************************)
(* The review service of the showcases: HTTP handlers that share one pool. *)
(* Each awaits between reading a document, writing it and reading it back, *)
(* and other handlers run meanwhile; a client that hangs up drops its      *)
(* handler where it awaits.                                                *)
(***************************************************************************)
EXTENDS Integers, Sequences

CONSTANTS
    Callers,    \* the handlers that can be in progress at once
    Reviewers,  \* who may be named, none of them blank
    MaxRows     \* bound: how many documents are created

VARIABLES
    rows,       \* the documents, in the order of their ids
    calls,      \* the request each handler is at
    reached     \* history: the stages each document has had

vars == <<rows, calls, reached>>

None == "none"
Document(status, reviewer) == [status |-> status, reviewer |-> reviewer]

is_draft(row)     == row = Document("draft", None)
is_in_review(row) == row.status = "in_review" /\ row.reviewer # None
is_published(row) == row = Document("published", None)
Rebuilds(row)     == is_draft(row) \/ is_in_review(row) \/ is_published(row)

submit(reviewer) == Document("in_review", reviewer)
approve          == Document("published", None)

Idle          == [at |-> "idle", id |-> 0, reviewer |-> None]
Asking(at, i) == [at |-> at, id |-> i, reviewer |-> None]

Init ==
    /\ rows = <<>>
    /\ calls = [p \in Callers |-> Idle]
    /\ reached = <<>>

End(p) == calls' = [calls EXCEPT ![p] = Idle]

create_document(p) ==
    /\ calls[p].at = "idle" /\ Len(rows) < MaxRows
    /\ rows' = Append(rows, Document("draft", None))
    /\ reached' = Append(reached, {"draft"})
    /\ calls' = [calls EXCEPT ![p] = Asking("fetch", Len(rows) + 1)]

\* A blank title, body or reviewer is refused at once.
Request(p) ==
    /\ calls[p].at = "idle"
    /\ \E id \in 1..MaxRows :
         \/ calls' = [calls EXCEPT ![p] = Asking("fetch", id)]
         \/ calls' = [calls EXCEPT ![p] = Asking("approve", id)]
         \/ \E r \in Reviewers :
              calls' = [calls EXCEPT ![p] = [at |-> "submit", id |-> id, reviewer |-> r]]
    /\ UNCHANGED <<rows, reached>>

\* A document that is missing, or in another state, ends the request.
load_document_state(p, states, next) ==
    /\ IF /\ calls[p].id \in DOMAIN rows
          /\ Rebuilds(rows[calls[p].id]) /\ rows[calls[p].id].status \in states
       THEN calls' = [calls EXCEPT ![p].at = next]
       ELSE End(p)
    /\ UNCHANGED <<rows, reached>>

submit_document(p) ==
    /\ calls[p].at = "submit"
    /\ load_document_state(p, {"draft"}, "persist_in_review")

\* Mutant: a draft can be approved.
approve_document_Draft(p) ==
    /\ calls[p].at = "approve"
    /\ load_document_state(p, {"draft", "in_review"}, "persist_published")

approve_document(p) ==
    /\ calls[p].at = "approve"
    /\ load_document_state(p, {"in_review"}, "persist_published")

Write(p, row) ==
    /\ rows' = [rows EXCEPT ![calls[p].id] = row]
    /\ reached' = [reached EXCEPT ![calls[p].id] = @ \cup {row.status}]
    /\ calls' = [calls EXCEPT ![p].at = "fetch"]

persist_in_review(p) == calls[p].at = "persist_in_review" /\ Write(p, submit(calls[p].reviewer))
persist_published(p) == calls[p].at = "persist_published" /\ Write(p, approve)

\* The answer is read from the table once more.
fetch_document_row(p) ==
    /\ calls[p].at = "fetch"
    /\ End(p)
    /\ UNCHANGED <<rows, reached>>

HangUp(p) ==
    /\ calls[p].at # "idle"
    /\ End(p)
    /\ UNCHANGED <<rows, reached>>

Next ==
    \E p \in Callers :
      \/ create_document(p) \/ Request(p) \/ submit_document(p) \/ approve_document(p)
      \/ persist_in_review(p) \/ persist_published(p) \/ fetch_document_row(p) \/ HangUp(p)

Spec == Init /\ [][Next]_vars

-----------------------------------------------------------------------------
\* A document can be read at every moment: no interleaving of handlers leaves a
\* draft or a published document with a reviewer, or one in review without.
\* (persist_in_review and persist_published against the validators.)
RowsAlwaysRebuild == \A i \in DOMAIN rows : Rebuilds(rows[i])

\* The service keeps the promise of a stored workflow: nothing is published
\* that has not been in review.  (submit_document, approve_document.)
Stages == [i \in DOMAIN rows |-> rows[i].status]
Machine == {<<"draft", "in_review">>, <<"in_review", "published">>}
Workflow == INSTANCE StoredWorkflow WITH Initial <- {"draft"}, Edges <- Machine, stage <- Stages
=============================================================================
