------------------------------- MODULE OnceOnly -------------------------------
(***************************************************************************)
(* What an idempotency key promises its clients: the mutation behind a key *)
(* is performed by at most one request, and once a reply is published for  *)
(* the key it is the reply of that request and never changes.              *)
(***************************************************************************)
EXTENDS FiniteSets

CONSTANTS Keys, Requests, KeyOf, Replies, None

VARIABLES
  taken,      \* the keys some request has taken
  performed,  \* for each key, the requests that performed the mutation
  reply       \* for each key, the published reply, None before

vars == <<taken, performed, reply>>

Init ==
  /\ taken = {}
  /\ performed = [k \in Keys |-> {}]
  /\ reply = [k \in Keys |-> None]

Take(k) ==
  /\ k \notin taken
  /\ taken' = taken \cup {k}
  /\ UNCHANGED <<performed, reply>>

Perform(r) ==
  LET k == KeyOf[r] IN
  /\ k \in taken
  /\ performed[k] = {}
  /\ performed' = [performed EXCEPT ![k] = {r}]
  /\ UNCHANGED <<taken, reply>>

Publish(r) ==
  LET k == KeyOf[r] IN
  /\ performed[k] = {r}
  /\ reply[k] = None
  /\ \E answer \in Replies[r] : reply' = [reply EXCEPT ![k] = answer]
  /\ UNCHANGED <<taken, performed>>

Next ==
  \/ \E k \in Keys : Take(k)
  \/ \E r \in Requests : Perform(r) \/ Publish(r)

Spec == Init /\ [][Next]_vars
=============================================================================
