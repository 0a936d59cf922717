---------------------------- MODULE ApiIdempotency ----------------------------
(***************************************************************************)
(* POST requests under /api/ingest/ and /api/supplement/ that carry an     *)
(* Idempotency-Key: the middleware (src/src/app/api_idempotency.py), the   *)
(* claim service (src/src/services/api_idempotency.py) and the table they  *)
(* share.  A key stands for the pair (request scope, key) of a row.        *)
(*                                                                         *)
(* Any two requests may be served by different API processes, so every     *)
(* statement that reaches the database is a step of its own.  The database *)
(* may fail under any of them, and a process may die under any request.    *)
(***************************************************************************)
EXTENDS FiniteSets

CONSTANTS
  Requests,   \* the POST requests that arrive, retries included
  Keys,       \* (scope, Idempotency-Key) pairs
  KeyOf,      \* the key a request carries
  PayloadOf,  \* the fingerprint of its body
  Nothing

VARIABLES
  rows,    \* rows[k]: the row of key k, Nothing while there is none
  pc,      \* pc[r]: where request r stands
  reply,   \* reply[r]: what the client of r was answered, Nothing before
  ran      \* the requests whose handler has run

keyVars == <<rows, pc, reply, ran>>

(* A response is known by the request whose handler produced it and by     *)
(* whether it persists as "succeeded" or as "failed".                      *)
Codes == {"succeeded", "failed"}
Response(r, code) == [by |-> r, code |-> code]
Responses == [by : Requests, code : Codes]

(* Answers of the middleware itself: 409, 202, 503, the 500 of an owner    *)
(* whose response could not be stored, and the 500 of a claim whose second *)
(* look at the table failed.                                               *)
RefusalCodes == {"conflict", "in_progress", "unavailable", "not_persisted", "not_claimed"}
Refusal(code) == [by |-> Nothing, code |-> code]
Refusals == {Refusal(code) : code \in RefusalCodes}

(* The rows of the table.                                                  *)
Rows == [fingerprint : {PayloadOf[r] : r \in Requests},
         status : Codes \cup {"running"},
         response : Responses \cup {Nothing}]

ASSUME ApiIdempotencyAssumption ==
  /\ KeyOf \in [Requests -> Keys]
  /\ Nothing \notin Requests
  /\ Nothing \notin Rows
  /\ Nothing \notin Responses \cup Refusals

NewRow(r) == [fingerprint |-> PayloadOf[r], status |-> "running", response |-> Nothing]

Ended == {"answered", "lost"}

KeyInit ==
  /\ rows = [k \in Keys |-> Nothing]
  /\ pc = [r \in Requests |-> "arriving"]
  /\ reply = [r \in Requests |-> Nothing]
  /\ ran = {}

Advance(r, place) == pc' = [pc EXCEPT ![r] = place]

Answer(r, answer) ==
  /\ reply' = [reply EXCEPT ![r] = answer]
  /\ Advance(r, "answered")

-------------------------------------------------------------------------------
(* _existing_claim and _replay_claim: what a request that does not own the *)
(* key is told.                                                            *)
Existing(r, row) ==
  IF row.fingerprint # PayloadOf[r] THEN Refusal("conflict")
  ELSE IF row.status = "running" THEN Refusal("in_progress")
  ELSE row.response

(* claim: look the key up.                                                 *)
Lookup(r) ==
  /\ pc[r] = "arriving"
  /\ UNCHANGED <<rows, ran>>
  /\ IF rows[KeyOf[r]] = Nothing
     THEN Advance(r, "inserting") /\ UNCHANGED reply
     ELSE Answer(r, Existing(r, rows[KeyOf[r]]))

(* create_running and commit.  The unique constraint on scope and key      *)
(* turns the insert of the slower process into an IntegrityError.          *)
InsertRow_Overwriting(r) ==
  /\ pc[r] = "inserting"
  /\ rows' = [rows EXCEPT ![KeyOf[r]] = NewRow(r)]
  /\ Advance(r, "handling")
  /\ UNCHANGED <<reply, ran>>

InsertRow(r) ==
  /\ pc[r] = "inserting"
  /\ UNCHANGED <<reply, ran>>
  /\ IF rows[KeyOf[r]] = Nothing
     THEN /\ rows' = [rows EXCEPT ![KeyOf[r]] = NewRow(r)]
          /\ Advance(r, "handling")
     ELSE Advance(r, "rereading") /\ UNCHANGED rows

(* After the IntegrityError the winner's row is read again.                *)
Reread_Retried(r) ==
  /\ pc[r] = "rereading"
  /\ Advance(r, "inserting")
  /\ UNCHANGED <<rows, reply, ran>>

Reread(r) ==
  /\ pc[r] = "rereading"
  /\ Answer(r, IF rows[KeyOf[r]] = Nothing THEN Refusal("unavailable")
               ELSE Existing(r, rows[KeyOf[r]]))
  /\ UNCHANGED <<rows, ran>>

(* The database fails under the claim, and nothing is left behind.  The    *)
(* last handler turns the error into a 503, but not one raised inside the  *)
(* handler of the IntegrityError, which escapes as it is.                  *)
ClaimFails(r) ==
  /\ \/ pc[r] \in {"arriving", "inserting"} /\ Answer(r, Refusal("unavailable"))
     \/ pc[r] = "rereading" /\ Answer(r, Refusal("not_claimed"))
  /\ UNCHANGED <<rows, ran>>

-------------------------------------------------------------------------------
(* call_next: the handler of the owner runs, and returns a response that   *)
(* counts as a success or as a failure, or raises.                         *)
Handle(r) ==
  /\ pc[r] = "handling"
  /\ ran' = ran \cup {r}
  /\ \E outcome \in {"complete_succeeded", "complete_failed"} : Advance(r, outcome)
  /\ UNCHANGED <<rows, reply>>

CodeOf_Outcome(place) == place

CodeOf(place) == IF place = "complete_succeeded" THEN "succeeded" ELSE "failed"

Completing(r) == pc[r] \in {"complete_succeeded", "complete_failed"}

Owns(r) == rows[KeyOf[r]] # Nothing /\ rows[KeyOf[r]].fingerprint = PayloadOf[r]

(* complete: the row takes the status and the response, then the client    *)
(* has it.                                                                 *)
Complete_StatusKept(r) ==
  /\ Completing(r)
  /\ Owns(r)
  /\ rows' = [rows EXCEPT ![KeyOf[r]].response = Response(r, CodeOf(pc[r]))]
  /\ Answer(r, Response(r, CodeOf(pc[r])))
  /\ UNCHANGED ran

Complete(r) ==
  /\ Completing(r)
  /\ Owns(r)
  /\ rows' = [rows EXCEPT ![KeyOf[r]].status = CodeOf(pc[r]),
                          ![KeyOf[r]].response = Response(r, CodeOf(pc[r]))]
  /\ Answer(r, Response(r, CodeOf(pc[r])))
  /\ UNCHANGED ran

(* The response cannot be stored: the client of the owner gets an error    *)
(* and the row stays "running".                                            *)
CompleteFails_Released(r) ==
  /\ Completing(r)
  /\ rows' = [rows EXCEPT ![KeyOf[r]] = Nothing]
  /\ Answer(r, Refusal("not_persisted"))
  /\ UNCHANGED ran

CompleteFails(r) ==
  /\ Completing(r)
  /\ Answer(r, Refusal("not_persisted"))
  /\ UNCHANGED <<rows, ran>>

(* The process dies, or the task is cancelled, under the request.          *)
Lose(r) ==
  /\ pc[r] \notin Ended
  /\ Advance(r, "lost")
  /\ UNCHANGED <<rows, reply, ran>>

Serve(r) ==
  \/ Lookup(r) \/ InsertRow(r) \/ Reread(r) \/ ClaimFails(r)
  \/ Handle(r) \/ Complete(r) \/ CompleteFails(r)

KeyNext == \E r \in Requests : Serve(r) \/ Lose(r)

KeySpec == KeyInit /\ [][KeyNext]_keyVars /\ \A r \in Requests : WF_keyVars(Serve(r))

-------------------------------------------------------------------------------
(* Properties.                                                             *)

Places == {"arriving", "inserting", "rereading", "handling",
           "complete_succeeded", "complete_failed"} \cup Ended

(* Every variable keeps the shape the code gives it.                       *)
KeyTypeOK ==
  /\ rows \in [Keys -> Rows \cup {Nothing}]
  /\ pc \in [Requests -> Places]
  /\ reply \in [Requests -> Responses \cup Refusals \cup {Nothing}]
  /\ ran \subseteq Requests

(* However many requests carry a key, and however they race, fail or are   *)
(* retried, the mutation behind the key is attempted by one of them.       *)
AtMostOnce ==
  \A r, s \in ran : KeyOf[r] = KeyOf[s] => r = s

(* The client of r was told an outcome, not refused.                       *)
Told(r) == reply[r] # Nothing /\ reply[r].by # Nothing

(* Two clients of one key that are told an outcome are told the same one.  *)
SameAnswer ==
  \A r, s \in Requests :
    KeyOf[r] = KeyOf[s] /\ Told(r) /\ Told(s) => reply[r] = reply[s]

(* A client is told only the outcome of a mutation with its own payload,   *)
(* and only of one that has run.                                           *)
OwnPayload ==
  \A r \in Requests : Told(r) =>
    reply[r].by \in ran /\ PayloadOf[reply[r].by] = PayloadOf[r]

(* One attempt and one outcome per key, for its own payload only.          *)
KeyRules == AtMostOnce /\ SameAnswer /\ OwnPayload

(* A row that stays "running" has an owner that is still at work, died, or *)
(* could not store its response: no other path strands a key.              *)
StrandedOnlyByLoss ==
  \A k \in Keys : rows[k] # Nothing /\ rows[k].status = "running" =>
    \E r \in Requests :
      /\ KeyOf[r] = k
      /\ pc[r] \in {"handling", "complete_succeeded", "complete_failed", "lost"}
           \/ reply[r] = Refusal("not_persisted")

(* Every request is answered unless it is lost.                            *)
RequestsEnd == \A r \in Requests : <>(pc[r] \in Ended)

(* The middleware and its table implement the promise of OnceOnly.         *)
Promise == INSTANCE OnceOnly WITH
  None <- Nothing,
  Replies <- [r \in Requests |-> {Response(r, code) : code \in Codes}],
  taken <- {k \in Keys : rows[k] # Nothing},
  performed <- [k \in Keys |-> {r \in ran : KeyOf[r] = k}],
  reply <- [k \in Keys |-> IF rows[k] = Nothing THEN Nothing ELSE rows[k].response]

ImplementsOnceOnly == Promise!Spec
=============================================================================
