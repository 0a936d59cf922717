---------------------------- MODULE OnceOnlyProof ----------------------------
(***************************************************************************)
(* Proofs about the two places where the same request may arrive more than *)
(* once and must be acted on once: API requests with an Idempotency-Key    *)
(* (ApiIdempotency) and the updates that Telegram delivers                 *)
(* (TelegramUpdates).  They share no state; each has its own invariant.    *)
(***************************************************************************)
EXTENDS ApiIdempotency, TelegramUpdates, TLAPS, FiniteSetTheorems

(***************************************************************************)
(* ApiIdempotency, for any set of requests, keys and payloads.  AtMostOnce *)
(* and SameAnswer are not inductive: the invariant adds that a key has one *)
(* owner at work (Owned), what the row of a key says of its owner (RowOK), *)
(* and that every client that was told an outcome was told the one stored  *)
(* in the row (Answers).                                                   *)
(***************************************************************************)

Working(r) == pc[r] \in {"handling", "complete_succeeded", "complete_failed"}

(* The owner of a key: at work on it, or done with its handler.            *)
Owner(r) == Working(r) \/ r \in ran

Owned ==
  /\ \A r, s \in Requests : Owner(r) /\ Owner(s) /\ KeyOf[r] = KeyOf[s] => r = s
  /\ \A r \in Requests : Owner(r) =>
       rows[KeyOf[r]] # Nothing /\ rows[KeyOf[r]].fingerprint = PayloadOf[r]
  /\ \A r \in Requests : pc[r] = "handling" => r \notin ran
  /\ \A r \in Requests :
       pc[r] \in {"complete_succeeded", "complete_failed"} => r \in ran
  /\ \A r \in Requests : Working(r) =>
       rows[KeyOf[r]].response = Nothing

RowOK ==
  \A k \in Keys : rows[k] # Nothing =>
    /\ (rows[k].status = "running") <=> (rows[k].response = Nothing)
    /\ rows[k].response # Nothing =>
         /\ rows[k].response.by \in ran
         /\ KeyOf[rows[k].response.by] = k

Answers ==
  \A r \in Requests : Told(r) =>
    /\ rows[KeyOf[r]] # Nothing
    /\ rows[KeyOf[r]].response = reply[r]
    /\ rows[KeyOf[r]].fingerprint = PayloadOf[r]

Unanswered == \A r \in Requests : pc[r] # "answered" => reply[r] = Nothing

KeyInv == KeyTypeOK /\ Owned /\ RowOK /\ Answers /\ Unanswered

-------------------------------------------------------------------------------
(* Facts about the values.                                                 *)

LEMMA Shapes ==
  /\ \A r \in Requests : KeyOf[r] \in Keys
  /\ \A r \in Requests : NewRow(r) \in Rows
  /\ \A r \in Requests, code \in Codes :
       Response(r, code) \in Responses /\ Response(r, code).by = r
  /\ \A answer \in Responses : answer # Nothing /\ answer.by \in Requests /\ answer.by # Nothing
  /\ \A code \in RefusalCodes :
       Refusal(code) \in Refusals /\ Refusal(code) # Nothing /\ Refusal(code).by = Nothing
  /\ \A row \in Rows : row # Nothing
<1>1. \A r \in Requests : KeyOf[r] \in Keys
  BY ApiIdempotencyAssumption
<1>2. \A r \in Requests : NewRow(r) \in Rows
  BY DEF NewRow, Rows
<1>3. \A r \in Requests, code \in Codes :
        Response(r, code) \in Responses /\ Response(r, code).by = r
  BY DEF Response, Responses
<1>4. \A answer \in Responses : answer # Nothing /\ answer.by \in Requests /\ answer.by # Nothing
  BY ApiIdempotencyAssumption DEF Responses
<1>5. \A code \in RefusalCodes :
        Refusal(code) \in Refusals /\ Refusal(code) # Nothing /\ Refusal(code).by = Nothing
  BY ApiIdempotencyAssumption DEF Refusal, Refusals
<1>6. \A row \in Rows : row # Nothing
  BY ApiIdempotencyAssumption
<1> QED BY <1>1, <1>2, <1>3, <1>4, <1>5, <1>6

(* What a request that finds a row is answered: a refusal, or the stored   *)
(* outcome of its own payload.                                             *)
LEMMA ExistingAnswer ==
  ASSUME NEW r \in Requests, NEW row \in Rows,
         (row.status = "running") <=> (row.response = Nothing)
  PROVE  \/ Existing(r, row) \in Refusals /\ Existing(r, row).by = Nothing
         \/ /\ Existing(r, row) = row.response
            /\ row.response \in Responses
            /\ row.fingerprint = PayloadOf[r]
<1>1. "conflict" \in RefusalCodes /\ "in_progress" \in RefusalCodes
  BY DEF RefusalCodes
<1>2. row.response \in Responses \cup {Nothing}
  BY DEF Rows
<1> QED BY <1>1, <1>2, Shapes DEF Existing

LEMMA KeysStart == KeyInit => KeyInv
BY Shapes DEF KeyInit, KeyInv, KeyTypeOK, Places, Owned, Owner, Working, RowOK, Answers, Told, Unanswered

(* A step that answers r without touching the table or the handlers, and   *)
(* tells it nothing but a refusal or the outcome its row stores, keeps the *)
(* invariant.                                                              *)
LEMMA AnswerKeeps ==
  ASSUME KeyInv, NEW r \in Requests, NEW answer \in Responses \cup Refusals,
         pc' = [pc EXCEPT ![r] = "answered"],
         reply' = [reply EXCEPT ![r] = answer],
         rows' = rows, ran' = ran,
         ~Working(r) \/ r \in ran,
         answer.by # Nothing =>
           /\ rows[KeyOf[r]] # Nothing
           /\ rows[KeyOf[r]].response = answer
           /\ rows[KeyOf[r]].fingerprint = PayloadOf[r]
  PROVE  KeyInv'
<1> USE DEF KeyInv
<1>1. KeyTypeOK'
  BY DEF KeyTypeOK, Places, Ended
<1>2. \A s \in Requests : s # r => pc'[s] = pc[s] /\ reply'[s] = reply[s]
  BY DEF KeyTypeOK
<1>3. pc'[r] = "answered" /\ reply'[r] = answer
  BY DEF KeyTypeOK
<1>4. \A s \in Requests : Owner(s)' => Owner(s)
  BY <1>2, <1>3 DEF Owner, Working
<1>5. Owned'
  BY <1>2, <1>3, <1>4 DEF Owned, Working
<1>6. RowOK'
  BY DEF RowOK
<1>7. Answers'
  BY <1>2, <1>3 DEF Answers, Told
<1>8. Unanswered'
  BY <1>2, <1>3 DEF Unanswered
<1> QED BY <1>1, <1>5, <1>6, <1>7, <1>8

(* A step that only moves r to a place where it does not work.             *)
LEMMA MoveKeeps ==
  ASSUME KeyInv, NEW r \in Requests, NEW place \in Places, reply[r] = Nothing,
         place \notin {"handling", "complete_succeeded", "complete_failed"},
         pc' = [pc EXCEPT ![r] = place],
         UNCHANGED <<rows, reply, ran>>
  PROVE  KeyInv'
<1> USE DEF KeyInv
<1>1. KeyTypeOK'
  BY DEF KeyTypeOK
<1>2. \A s \in Requests : s # r => pc'[s] = pc[s]
  BY DEF KeyTypeOK
<1>3. pc'[r] = place
  BY DEF KeyTypeOK
<1>4. \A s \in Requests : Working(s)' => Working(s) /\ s # r
  BY <1>2, <1>3 DEF Working
<1>5. Owned'
  BY <1>2, <1>3, <1>4 DEF Owned, Owner, Working
<1>6. RowOK' /\ Answers'
  BY DEF RowOK, Answers, Told
<1>7. Unanswered'
  BY <1>2 DEF Unanswered
<1> QED BY <1>1, <1>5, <1>6, <1>7

LEMMA LookupKeeps ==
  ASSUME KeyInv, NEW r \in Requests, Lookup(r)
  PROVE  KeyInv'
<1> DEFINE row == rows[KeyOf[r]]
<1>1. ~Working(r)
  BY DEF Lookup, Working
<1>2. CASE row = Nothing
  <2>1. pc' = [pc EXCEPT ![r] = "inserting"] /\ UNCHANGED <<rows, reply, ran>>
    BY <1>2 DEF Lookup, Advance
  <2>2. reply[r] = Nothing
    BY DEF Lookup, KeyInv, Unanswered
  <2> QED BY <2>1, <2>2, MoveKeeps DEF Places
<1>3. CASE row # Nothing
  <2>1. row \in Rows /\ ((row.status = "running") <=> (row.response = Nothing))
    BY <1>3, Shapes DEF KeyInv, KeyTypeOK, RowOK
  <2>2. /\ reply' = [reply EXCEPT ![r] = Existing(r, row)]
        /\ pc' = [pc EXCEPT ![r] = "answered"]
        /\ rows' = rows /\ ran' = ran
    BY <1>3 DEF Lookup, Answer, Advance
  <2>3. Existing(r, row) \in Responses \cup Refusals
    BY <2>1, ExistingAnswer
  <2>4. Existing(r, row).by # Nothing =>
          row.response = Existing(r, row) /\ row.fingerprint = PayloadOf[r]
    BY <2>1, ExistingAnswer
  <2> QED BY <1>1, <1>3, <2>2, <2>3, <2>4, AnswerKeeps
<1> QED BY <1>2, <1>3

LEMMA RereadKeeps ==
  ASSUME KeyInv, NEW r \in Requests, Reread(r)
  PROVE  KeyInv'
<1> DEFINE row == rows[KeyOf[r]]
<1>1. ~Working(r)
  BY DEF Reread, Working
<1>2. CASE row = Nothing
  <2>1. /\ reply' = [reply EXCEPT ![r] = Refusal("unavailable")]
        /\ pc' = [pc EXCEPT ![r] = "answered"]
        /\ rows' = rows /\ ran' = ran
    BY <1>2 DEF Reread, Answer, Advance
  <2>2. Refusal("unavailable") \in Refusals /\ Refusal("unavailable").by = Nothing
    BY Shapes DEF RefusalCodes
  <2> QED BY <1>1, <2>1, <2>2, AnswerKeeps
<1>3. CASE row # Nothing
  <2>1. row \in Rows /\ ((row.status = "running") <=> (row.response = Nothing))
    BY <1>3, Shapes DEF KeyInv, KeyTypeOK, RowOK
  <2>2. /\ reply' = [reply EXCEPT ![r] = Existing(r, row)]
        /\ pc' = [pc EXCEPT ![r] = "answered"]
        /\ rows' = rows /\ ran' = ran
    BY <1>3 DEF Reread, Answer, Advance
  <2>3. Existing(r, row) \in Responses \cup Refusals
    BY <2>1, ExistingAnswer
  <2>4. Existing(r, row).by # Nothing =>
          row.response = Existing(r, row) /\ row.fingerprint = PayloadOf[r]
    BY <2>1, ExistingAnswer
  <2> QED BY <1>1, <1>3, <2>2, <2>3, <2>4, AnswerKeeps
<1> QED BY <1>2, <1>3

(* The insert is where a key gets its owner: there was no row, so there    *)
(* was no owner.                                                           *)
LEMMA InsertRowKeeps ==
  ASSUME KeyInv, NEW r \in Requests, InsertRow(r)
  PROVE  KeyInv'
<1> DEFINE k == KeyOf[r]
<1>1. k \in Keys
  BY Shapes
<1>2. CASE rows[k] = Nothing
  <2>1. /\ rows' = [rows EXCEPT ![k] = NewRow(r)]
        /\ pc' = [pc EXCEPT ![r] = "handling"]
        /\ reply' = reply /\ ran' = ran
    BY <1>2 DEF InsertRow, Advance
  <2>2. KeyTypeOK'
    BY <1>1, <2>1, Shapes DEF KeyInv, KeyTypeOK, Places
  <2>3. /\ rows'[k] = NewRow(r) /\ rows'[k] # Nothing
        /\ \A j \in Keys : j # k => rows'[j] = rows[j]
    BY <1>1, <2>1, Shapes DEF KeyInv, KeyTypeOK
  <2>4. /\ pc'[r] = "handling"
        /\ \A s \in Requests : s # r => pc'[s] = pc[s]
    BY <2>1 DEF KeyInv, KeyTypeOK
  <2>5. \A s \in Requests : Owner(s) => KeyOf[s] # k
    BY <1>2 DEF KeyInv, Owned
  <2>6. \A s \in Requests : Told(s) => KeyOf[s] # k
    BY <1>2 DEF KeyInv, Answers
  <2>7. reply[r] = Nothing
    <3>1. pc[r] = "inserting"
      BY DEF InsertRow
    <3> QED BY <3>1 DEF KeyInv, Unanswered
  <2>8. Owned'
    BY <2>1, <2>3, <2>4, <2>5, <2>7, Shapes DEF KeyInv, Owned, Owner, Working, NewRow
  <2>9. RowOK'
    BY <2>1, <2>3 DEF KeyInv, RowOK, NewRow
  <2>10. Answers'
    BY <2>1, <2>3, <2>6, Shapes DEF KeyInv, Answers, Told
  <2>11. Unanswered'
    BY <2>1, <2>4, <2>7 DEF KeyInv, Unanswered
  <2> QED BY <2>2, <2>8, <2>9, <2>10, <2>11 DEF KeyInv
<1>3. CASE rows[k] # Nothing
  <2>1. pc' = [pc EXCEPT ![r] = "rereading"] /\ UNCHANGED <<rows, reply, ran>>
    BY <1>3 DEF InsertRow, Advance
  <2>2. reply[r] = Nothing
    BY DEF InsertRow, KeyInv, Unanswered
  <2> QED BY <2>1, <2>2, MoveKeeps DEF Places
<1> QED BY <1>2, <1>3

LEMMA ClaimFailsKeeps ==
  ASSUME KeyInv, NEW r \in Requests, ClaimFails(r)
  PROVE  KeyInv'
<1>1. ~Working(r)
  BY DEF ClaimFails, Working
<1>2. PICK code \in {"unavailable", "not_claimed"} : Answer(r, Refusal(code))
  BY DEF ClaimFails
<1>3. /\ reply' = [reply EXCEPT ![r] = Refusal(code)]
      /\ pc' = [pc EXCEPT ![r] = "answered"]
      /\ rows' = rows /\ ran' = ran
  BY <1>2 DEF ClaimFails, Answer, Advance
<1>4. Refusal(code) \in Refusals /\ Refusal(code).by = Nothing
  BY Shapes DEF RefusalCodes
<1> QED BY <1>1, <1>3, <1>4, AnswerKeeps

LEMMA HandleKeeps ==
  ASSUME KeyInv, NEW r \in Requests, Handle(r)
  PROVE  KeyInv'
<1>1. PICK outcome \in {"complete_succeeded", "complete_failed"} :
        pc' = [pc EXCEPT ![r] = outcome]
  BY DEF Handle, Advance
<1>2. pc[r] = "handling" /\ ran' = ran \cup {r} /\ rows' = rows /\ reply' = reply
  BY DEF Handle
<1>3. pc'[r] = outcome /\ \A s \in Requests : s # r => pc'[s] = pc[s]
  BY <1>1 DEF KeyInv, KeyTypeOK
<1>4. KeyTypeOK'
  BY <1>1, <1>2 DEF KeyInv, KeyTypeOK, Places
<1>5. \A s \in Requests : Owner(s)' => Owner(s)
  BY <1>2, <1>3 DEF Owner, Working
<1>6. Owned'
  BY <1>2, <1>3, <1>5 DEF KeyInv, Owned, Owner, Working
<1>7. RowOK' /\ Answers' /\ Unanswered'
  BY <1>2, <1>3 DEF KeyInv, RowOK, Answers, Told, Unanswered
<1> QED BY <1>4, <1>6, <1>7 DEF KeyInv

(* Completing stores the one response of the key and tells it to its       *)
(* owner.                                                                  *)
LEMMA CompleteKeeps ==
  ASSUME KeyInv, NEW r \in Requests, Complete(r)
  PROVE  KeyInv'
<1> DEFINE k == KeyOf[r]
           answer == Response(r, CodeOf(pc[r]))
<1>1. pc[r] \in {"complete_succeeded", "complete_failed"} /\ Working(r)
  BY DEF Complete, Completing, Working
<1>2. k \in Keys /\ CodeOf(pc[r]) \in Codes
  BY Shapes DEF CodeOf, Codes
<1>3. answer \in Responses /\ answer.by = r /\ answer # Nothing
  BY <1>2, Shapes
<1>4. rows[k] # Nothing /\ rows[k] \in Rows /\ rows[k].fingerprint = PayloadOf[r]
  BY <1>2 DEF Complete, Owns, KeyInv, KeyTypeOK
<1>5. r \in ran /\ rows[k].response = Nothing
  BY <1>1 DEF KeyInv, Owned
<1>6. /\ rows' = [rows EXCEPT ![k] = [rows[k] EXCEPT !.status = CodeOf(pc[r]),
                                                   !.response = answer]]
      /\ reply' = [reply EXCEPT ![r] = answer]
      /\ pc' = [pc EXCEPT ![r] = "answered"]
      /\ ran' = ran
  BY <1>2, <1>4 DEF Complete, Answer, Advance, KeyInv, KeyTypeOK
<1>7. /\ rows'[k] = [rows[k] EXCEPT !.status = CodeOf(pc[r]), !.response = answer]
      /\ \A j \in Keys : j # k => rows'[j] = rows[j]
  BY <1>2, <1>6 DEF KeyInv, KeyTypeOK
<1>8. /\ rows'[k] \in Rows
      /\ rows'[k].status = CodeOf(pc[r])
      /\ rows'[k].response = answer
      /\ rows'[k].fingerprint = PayloadOf[r]
  BY <1>2, <1>3, <1>4, <1>7 DEF Rows
<1>9. rows'[k] # Nothing
  BY <1>8, Shapes
<1>10. /\ pc'[r] = "answered" /\ reply'[r] = answer
       /\ \A s \in Requests : s # r => pc'[s] = pc[s] /\ reply'[s] = reply[s]
  BY <1>6 DEF KeyInv, KeyTypeOK
<1>11. KeyTypeOK'
  BY <1>2, <1>3, <1>6, <1>8, <1>7 DEF KeyInv, KeyTypeOK, Places, Ended
<1>12. \A s \in Requests : Owner(s)' => Owner(s)
  BY <1>6, <1>10 DEF Owner, Working
<1>13. \A s \in Requests : s # r /\ Owner(s) => KeyOf[s] # k
  BY <1>1 DEF KeyInv, Owned, Owner
<1>14. Owned'
  <2>1. \A s \in Requests : Owner(s)' =>
          rows'[KeyOf[s]] # Nothing /\ rows'[KeyOf[s]].fingerprint = PayloadOf[s]
    <3> SUFFICES ASSUME NEW s \in Requests, Owner(s)
                 PROVE  /\ rows'[KeyOf[s]] # Nothing
                        /\ rows'[KeyOf[s]].fingerprint = PayloadOf[s]
      BY <1>12
    <3>1. CASE s = r
      BY <3>1, <1>8, <1>9
    <3>2. CASE s # r
      <4>1. KeyOf[s] \in Keys /\ KeyOf[s] # k
        BY <1>13, <3>2, Shapes
      <4>2. rows'[KeyOf[s]] = rows[KeyOf[s]]
        BY <1>7, <4>1
      <4> QED BY <4>2 DEF KeyInv, Owned
    <3> QED BY <3>1, <3>2
  <2>2. \A s \in Requests : Working(s)' => Working(s) /\ s # r
    BY <1>10 DEF Working
  <2>3. \A s \in Requests : Working(s)' => rows'[KeyOf[s]].response = Nothing
    BY <1>7, <1>13, <2>2, Shapes DEF KeyInv, Owned, Owner
  <2>4. \A s, t \in Requests :
          Owner(s)' /\ Owner(t)' /\ KeyOf[s] = KeyOf[t] => s = t
    BY <1>12 DEF KeyInv, Owned
  <2> QED BY <1>6, <1>10, <2>1, <2>3, <2>4 DEF KeyInv, Owned
<1>15. RowOK'
  BY <1>3, <1>5, <1>6, <1>7, <1>8, <1>2 DEF KeyInv, RowOK, Codes
<1>16. \A s \in Requests : Told(s) => KeyOf[s] # k
  <2> SUFFICES ASSUME NEW s \in Requests, Told(s), KeyOf[s] = k PROVE FALSE
    OBVIOUS
  <2>1. reply[s] = Nothing
    BY <1>5 DEF KeyInv, Answers
  <2> QED BY <2>1 DEF Told
<1>17. Answers'
  <2> SUFFICES ASSUME NEW s \in Requests, Told(s)'
               PROVE  /\ rows'[KeyOf[s]] # Nothing
                      /\ rows'[KeyOf[s]].response = reply'[s]
                      /\ rows'[KeyOf[s]].fingerprint = PayloadOf[s]
    BY DEF Answers
  <2>1. CASE s = r
    BY <2>1, <1>8, <1>9, <1>10
  <2>2. CASE s # r
    <3>1. Told(s)
      BY <2>2, <1>10 DEF Told
    <3>2. KeyOf[s] \in Keys /\ KeyOf[s] # k
      BY <3>1, <1>16, Shapes
    <3>3. rows'[KeyOf[s]] = rows[KeyOf[s]] /\ reply'[s] = reply[s]
      BY <1>7, <1>10, <2>2, <3>2
    <3> QED BY <3>1, <3>3 DEF KeyInv, Answers
  <2> QED BY <2>1, <2>2
<1>18. Unanswered'
  BY <1>10 DEF KeyInv, Unanswered
<1> QED BY <1>11, <1>14, <1>15, <1>17, <1>18 DEF KeyInv

LEMMA CompleteFailsKeeps ==
  ASSUME KeyInv, NEW r \in Requests, CompleteFails(r)
  PROVE  KeyInv'
<1>1. r \in ran
  BY DEF CompleteFails, Completing, KeyInv, Owned
<1>2. /\ reply' = [reply EXCEPT ![r] = Refusal("not_persisted")]
      /\ pc' = [pc EXCEPT ![r] = "answered"]
      /\ rows' = rows /\ ran' = ran
  BY DEF CompleteFails, Answer, Advance
<1>3. Refusal("not_persisted") \in Refusals /\ Refusal("not_persisted").by = Nothing
  BY Shapes DEF RefusalCodes
<1> QED BY <1>1, <1>2, <1>3, AnswerKeeps

LEMMA LoseKeeps ==
  ASSUME KeyInv, NEW r \in Requests, Lose(r)
  PROVE  KeyInv'
<1>1. reply[r] = Nothing
  BY DEF Lose, Ended, KeyInv, Unanswered
<1>2. pc' = [pc EXCEPT ![r] = "lost"] /\ UNCHANGED <<rows, reply, ran>>
  BY DEF Lose, Advance
<1> QED BY <1>1, <1>2, MoveKeeps DEF Places, Ended

LEMMA StepKeeps == KeyInv /\ [KeyNext]_keyVars => KeyInv'
<1> SUFFICES ASSUME KeyInv, [KeyNext]_keyVars PROVE KeyInv'
  OBVIOUS
<1>1. CASE UNCHANGED keyVars
  BY <1>1 DEF keyVars, KeyInv, KeyTypeOK, Owned, Owner, Working, RowOK, Answers, Told,
              Unanswered
<1>2. CASE \E r \in Requests : Serve(r)
  BY <1>2, LookupKeeps, InsertRowKeeps, RereadKeeps, ClaimFailsKeeps, HandleKeeps,
     CompleteKeeps, CompleteFailsKeeps DEF Serve
<1>3. CASE \E r \in Requests : Lose(r)
  BY <1>3, LoseKeeps
<1> QED BY <1>1, <1>2, <1>3 DEF KeyNext

THEOREM KeysInvariant == KeySpec => []KeyInv
<1>1. KeyInit => KeyInv
  BY KeysStart
<1>2. KeyInv /\ [KeyNext]_keyVars => KeyInv'
  BY StepKeeps
<1> QED BY <1>1, <1>2, PTL DEF KeySpec

(* The table, the program counters and the answers keep their types.       *)
THEOREM KeysTyped == KeySpec => []KeyTypeOK
<1>1. KeyInv => KeyTypeOK
  BY DEF KeyInv
<1> QED BY <1>1, KeysInvariant, PTL

(* The mutation behind a key is attempted by at most one request.          *)
THEOREM OneAttempt == KeySpec => []AtMostOnce
<1>1. KeyInv => AtMostOnce
  BY DEF KeyInv, KeyTypeOK, Owned, Owner, AtMostOnce
<1> QED BY <1>1, KeysInvariant, PTL

(* Clients of one key that are told an outcome are told the same one.      *)
THEOREM OneOutcome == KeySpec => []SameAnswer
<1>1. KeyInv => SameAnswer
  BY DEF KeyInv, Answers, SameAnswer
<1> QED BY <1>1, KeysInvariant, PTL

(* That outcome belongs to a mutation that ran, with the client's own      *)
(* payload.                                                                *)
THEOREM OutcomeOfOwnPayload == KeySpec => []OwnPayload
<1>1. ASSUME KeyInv PROVE OwnPayload
  <2> SUFFICES ASSUME NEW r \in Requests, Told(r)
               PROVE  reply[r].by \in ran /\ PayloadOf[reply[r].by] = PayloadOf[r]
    BY DEF OwnPayload
  <2> DEFINE row == rows[KeyOf[r]]
  <2>1. row # Nothing /\ row.response = reply[r] /\ row.fingerprint = PayloadOf[r]
    BY <1>1 DEF KeyInv, Answers
  <2>2. reply[r] # Nothing
    BY DEF Told
  <2>3. reply[r].by \in ran /\ KeyOf[reply[r].by] = KeyOf[r]
    BY <1>1, <2>1, <2>2, Shapes DEF KeyInv, RowOK
  <2>4. row.fingerprint = PayloadOf[reply[r].by]
    BY <1>1, <2>3 DEF KeyInv, KeyTypeOK, Owned, Owner
  <2> QED BY <2>1, <2>3, <2>4
<1> QED BY <1>1, KeysInvariant, PTL

(* One attempt and one outcome per key, for its own payload only.          *)
THEOREM KeysKeepTheirRules == KeySpec => []KeyRules
  BY OneAttempt, OneOutcome, OutcomeOfOwnPayload, PTL DEF KeyRules

-------------------------------------------------------------------------------
(* Stranded keys.                                                          *)

(* The request that accounts for a running row.                            *)
Accounts(r, place, answer) ==
  \/ place \in {"handling", "complete_succeeded", "complete_failed", "lost"}
  \/ answer = Refusal("not_persisted")

(* A request that accounts for its row stops doing so only by completing   *)
(* it.                                                                     *)
LEMMA AccountStays ==
  ASSUME KeyInv, NEW s \in Requests, Serve(s) \/ Lose(s),
         NEW r \in Requests, Accounts(r, pc[r], reply[r])
  PROVE  Accounts(r, pc'[r], reply'[r]) \/ (s = r /\ Complete(r))
<1>1. pc \in [Requests -> Places] /\ reply \in [Requests -> Responses \cup Refusals \cup {Nothing}]
  BY DEF KeyInv, KeyTypeOK
<1>2. ASSUME NEW x \in Requests, NEW place, Advance(x, place)
      PROVE  pc'[x] = place /\ \A y \in Requests \ {x} : pc'[y] = pc[y]
  BY <1>1, <1>2 DEF Advance
<1>3. ASSUME NEW x \in Requests, NEW answer, Answer(x, answer)
      PROVE  /\ reply'[x] = answer
             /\ \A y \in Requests \ {x} : pc'[y] = pc[y] /\ reply'[y] = reply[y]
  BY <1>1, <1>3 DEF Answer, Advance
<1>4. CASE s # r
  BY <1>2, <1>3, <1>4 DEF Accounts, Serve, Lookup, InsertRow, Reread, ClaimFails, Handle, Complete,
     CompleteFails, Lose
<1>5. CASE s = r
  <2>1. CASE reply[r] = Refusal("not_persisted")
    <3>1. reply[r] # Nothing
      BY <2>1, Shapes DEF RefusalCodes
    <3>2. pc[r] = "answered"
      BY <3>1 DEF KeyInv, Unanswered
    <3> QED BY <1>5, <3>2 DEF Serve, Lookup, InsertRow, Reread, ClaimFails, Handle, Complete,
               CompleteFails, Completing, Lose, Ended
  <2>2. CASE pc[r] \in {"handling", "complete_succeeded", "complete_failed", "lost"}
    <3>1. Handle(r) \/ Complete(r) \/ CompleteFails(r) \/ Lose(r)
      BY <1>5, <2>2 DEF Serve, Lookup, InsertRow, Reread, ClaimFails
    <3>2. CASE Handle(r)
      BY <1>2, <3>2 DEF Handle, Accounts
    <3>3. CASE CompleteFails(r)
      BY <1>3, <3>3 DEF CompleteFails, Accounts
    <3>4. CASE Lose(r)
      BY <1>2, <3>4 DEF Lose, Accounts
    <3> QED BY <1>5, <3>1, <3>2, <3>3, <3>4
  <2> QED BY <2>1, <2>2 DEF Accounts
<1> QED BY <1>4, <1>5

(* A row that is running after a step was running before it, or its owner  *)
(* has just inserted it.                                                   *)
LEMMA RunningBefore ==
  ASSUME KeyInv, NEW s \in Requests, Serve(s) \/ Lose(s), NEW k \in Keys,
         rows'[k] # Nothing, rows'[k].status = "running"
  PROVE  \/ rows[k] # Nothing /\ rows[k].status = "running" /\ ~(Complete(s) /\ KeyOf[s] = k)
         \/ KeyOf[s] = k /\ pc'[s] = "handling"
<1>1. rows \in [Keys -> Rows \cup {Nothing}] /\ pc \in [Requests -> Places] /\ KeyOf[s] \in Keys
  BY Shapes DEF KeyInv, KeyTypeOK
<1>2. CASE rows' = rows /\ ~Complete(s)
  BY <1>2
<1>3. CASE InsertRow(s)
  BY <1>1, <1>3 DEF InsertRow, Advance, Complete, Completing
<1>4. CASE Complete(s)
  <2>1. CodeOf(pc[s]) # "running"
    BY DEF CodeOf
  <2>2. rows[KeyOf[s]] \in Rows
    BY <1>1, <1>4 DEF Complete, Owns
  <2>3. rows'[KeyOf[s]].status = CodeOf(pc[s]) /\ \A j \in Keys \ {KeyOf[s]} : rows'[j] = rows[j]
    BY <1>1, <1>4, <2>2 DEF Complete, Rows
  <2> QED BY <2>1, <2>3
<1> QED BY <1>2, <1>3, <1>4 DEF Serve, Lookup, Reread, ClaimFails, Handle, CompleteFails,
           Lose, Completing, Complete

LEMMA StepStranded == KeyInv /\ StrandedOnlyByLoss /\ [KeyNext]_keyVars => StrandedOnlyByLoss'
<1> SUFFICES ASSUME KeyInv, StrandedOnlyByLoss, [KeyNext]_keyVars PROVE StrandedOnlyByLoss'
  OBVIOUS
<1>1. CASE UNCHANGED keyVars
  BY <1>1 DEF keyVars, StrandedOnlyByLoss
<1>2. ASSUME NEW s \in Requests, Serve(s) \/ Lose(s),
             NEW k \in Keys, rows'[k] # Nothing, rows'[k].status = "running"
      PROVE  \E r \in Requests : KeyOf[r] = k /\ Accounts(r, pc'[r], reply'[r])
  <2>1. CASE KeyOf[s] = k /\ pc'[s] = "handling"
    BY <2>1 DEF Accounts
  <2>2. CASE rows[k] # Nothing /\ rows[k].status = "running" /\ ~(Complete(s) /\ KeyOf[s] = k)
    <3>1. PICK r \in Requests : KeyOf[r] = k /\ Accounts(r, pc[r], reply[r])
      BY <2>2 DEF StrandedOnlyByLoss, Accounts
    <3> QED BY <1>2, <2>2, <3>1, AccountStays
  <2> QED BY <1>2, <2>1, <2>2, RunningBefore
<1> QED BY <1>1, <1>2 DEF KeyNext, StrandedOnlyByLoss, Accounts

(* A key stays "running" only under an owner that is at work, was lost or  *)
(* could not store its response.                                           *)
THEOREM OnlyLossStrands == KeySpec => []StrandedOnlyByLoss
<1>1. KeyInit => StrandedOnlyByLoss
  BY DEF KeyInit, StrandedOnlyByLoss
<1> QED BY <1>1, StepStranded, KeysInvariant, PTL DEF KeySpec

-------------------------------------------------------------------------------
(* The refinement.                                                         *)

taken == {k \in Keys : rows[k] # Nothing}
performed == [k \in Keys |-> {r \in ran : KeyOf[r] = k}]
published == [k \in Keys |-> IF rows[k] = Nothing THEN Nothing ELSE rows[k].response]

LEMMA InitRefines == KeyInit => Promise!Init
BY DEF KeyInit, Promise!Init

(* A step that leaves the table and the handlers alone is a stutter.       *)
LEMMA QuietStutters ==
  ASSUME rows' = rows, ran' = ran
  PROVE  UNCHANGED Promise!vars
BY DEF Promise!vars

LEMMA InsertRefines ==
  ASSUME KeyInv, NEW r \in Requests, InsertRow(r)
  PROVE  [Promise!Next]_(Promise!vars)
<1> DEFINE k == KeyOf[r]
<1>1. k \in Keys
  BY Shapes
<1>2. CASE rows[k] # Nothing
  <2>1. rows' = rows /\ ran' = ran
    BY <1>2 DEF InsertRow
  <2> QED BY <2>1, QuietStutters
<1>3. CASE rows[k] = Nothing
  <2>1. rows' = [rows EXCEPT ![k] = NewRow(r)] /\ ran' = ran
    BY <1>3 DEF InsertRow
  <2>2. /\ rows'[k] = NewRow(r) /\ rows'[k] # Nothing /\ rows'[k].response = Nothing
        /\ \A j \in Keys : j # k => rows'[j] = rows[j]
    BY <1>1, <2>1, Shapes DEF KeyInv, KeyTypeOK, NewRow
  <2>3. k \notin taken /\ taken' = taken \cup {k}
    BY <1>1, <1>3, <2>2 DEF taken
  <2>4. performed' = performed
    BY <2>1 DEF performed
  <2>5. published' = published
    BY <1>3, <2>2 DEF published
  <2>6. Promise!Take(k)
    BY <2>3, <2>4, <2>5 DEF Promise!Take, taken, performed, published
  <2> QED BY <1>1, <2>6 DEF Promise!Next
<1> QED BY <1>2, <1>3

LEMMA HandleRefines ==
  ASSUME KeyInv, NEW r \in Requests, Handle(r)
  PROVE  [Promise!Next]_(Promise!vars)
<1> DEFINE k == KeyOf[r]
<1>1. k \in Keys
  BY Shapes
<1>2. pc[r] = "handling" /\ ran' = ran \cup {r} /\ rows' = rows
  BY DEF Handle
<1>3. rows[k] # Nothing /\ r \notin ran
  BY <1>2 DEF KeyInv, Owned, Owner, Working
<1>4. \A s \in ran : KeyOf[s] # k
  BY <1>2, <1>3 DEF KeyInv, KeyTypeOK, Owned, Owner, Working
<1>5. performed[k] = {}
  BY <1>1, <1>4 DEF performed
<1>6. performed' = [performed EXCEPT ![k] = {r}]
  BY <1>1, <1>2, <1>4 DEF performed
<1>7. Promise!Perform(r)
  BY <1>1, <1>2, <1>3, <1>5, <1>6 DEF Promise!Perform, performed
<1> QED BY <1>7 DEF Promise!Next

LEMMA CompleteRefines ==
  ASSUME KeyInv, NEW r \in Requests, Complete(r)
  PROVE  [Promise!Next]_(Promise!vars)
<1> DEFINE k == KeyOf[r]
           answer == Response(r, CodeOf(pc[r]))
<1>1. k \in Keys /\ CodeOf(pc[r]) \in Codes
  BY Shapes DEF CodeOf, Codes
<1>2. r \in ran /\ rows[k] # Nothing /\ rows[k].response = Nothing /\ rows[k] \in Rows
  BY <1>1 DEF Complete, Completing, Owns, KeyInv, KeyTypeOK, Owned, Working
<1>3. \A s \in ran : KeyOf[s] = k => s = r
  BY <1>2 DEF KeyInv, KeyTypeOK, Owned, Owner
<1>4. /\ rows' = [rows EXCEPT ![k] = [rows[k] EXCEPT !.status = CodeOf(pc[r]),
                                                   !.response = answer]]
      /\ ran' = ran
  BY <1>1, <1>2 DEF Complete, Answer, KeyInv, KeyTypeOK
<1>5. /\ rows'[k] = [rows[k] EXCEPT !.status = CodeOf(pc[r]), !.response = answer]
      /\ \A j \in Keys : j # k => rows'[j] = rows[j]
  BY <1>1, <1>4 DEF KeyInv, KeyTypeOK
<1>6. rows'[k].response = answer /\ rows'[k] \in Rows
  <2>1. answer \in Responses
    BY <1>1, Shapes
  <2> QED BY <1>1, <1>2, <1>5, <2>1 DEF Rows
<1>7. rows'[k] # Nothing
  BY <1>6, Shapes
<1>8. taken' = taken
  BY <1>2, <1>5, <1>7 DEF taken
<1>9. performed' = performed
  BY <1>4 DEF performed
<1>10. performed[k] = {r}
  BY <1>1, <1>2, <1>3 DEF performed
<1>11. published[k] = Nothing /\ published' = [published EXCEPT ![k] = answer]
  BY <1>1, <1>2, <1>5, <1>6, <1>7 DEF published
<1>12. answer \in [s \in Requests |-> {Response(s, code) : code \in Codes}][r]
  BY <1>1
<1>13. Promise!Publish(r)
  BY <1>8, <1>9, <1>10, <1>11, <1>12
     DEF Promise!Publish, taken, performed, published
<1> QED BY <1>13 DEF Promise!Next

LEMMA StepRefines == KeyInv /\ [KeyNext]_keyVars => [Promise!Next]_(Promise!vars)
<1> SUFFICES ASSUME KeyInv, [KeyNext]_keyVars PROVE [Promise!Next]_(Promise!vars)
  OBVIOUS
<1>1. CASE UNCHANGED keyVars
  BY <1>1, QuietStutters DEF keyVars
<1>2. CASE \E r \in Requests : Lose(r)
  BY <1>2, QuietStutters DEF Lose
<1>3. ASSUME NEW r \in Requests, Serve(r) PROVE [Promise!Next]_(Promise!vars)
  <2>1. CASE Lookup(r) \/ Reread(r) \/ ClaimFails(r) \/ CompleteFails(r)
    BY <2>1, QuietStutters DEF Lookup, Reread, ClaimFails, CompleteFails
  <2> QED BY <1>3, <2>1, InsertRefines, HandleRefines, CompleteRefines DEF Serve
<1> QED BY <1>1, <1>2, <1>3 DEF KeyNext

(* The middleware and its table implement OnceOnly: a key is taken once,   *)
(* performed once, and its reply published once.                           *)
THEOREM KeyImplementsOnceOnly == KeySpec => ImplementsOnceOnly
<1>1. KeyInit => Promise!Init
  BY InitRefines
<1>2. KeyInv /\ [KeyNext]_keyVars => [Promise!Next]_(Promise!vars)
  BY StepRefines
<1> QED BY <1>1, <1>2, KeysInvariant, PTL DEF KeySpec, ImplementsOnceOnly, Promise!Spec

-------------------------------------------------------------------------------
(***************************************************************************)
(* TelegramUpdates, for any deliveries, scenarios and bounds: whatever     *)
(* buttons the taps carry, how often each update is delivered and each job *)
(* run.  The rules are not inductive, since what keeps a session from a    *)
(* second run was done steps before it.  The invariant says which delivery *)
(* owns the row of an update (Claims), what a job that works on a session  *)
(* implies of it (SyncHeld), and the same of a full index, its workflow    *)
(* run and the operator (IndexHeld).                                       *)
(***************************************************************************)

Syncing == {"sync", "synced"}
Starting == {"start", "mark_queued", "push", "unpushed"}
Running == {"queued", "act", "reply", "audit", "succeed", "fail"} \cup Syncing \cup Starting
Recorded == {"running", "succeeded", "failed"}
Results == {"succeeded", "partially_failed", "failed"}
Pages == setup.selected \cup {ButtonOf(d).page : d \in Deliveries}

JobRecords ==
  [pc : Running \cup {"none", "return", "done", "dead"}, tries : 0..MaxTries,
   pages : SUBSET Pages, result : Results \cup {None}, picker : Nat \cup {None}]

Sessions == {s \in [state : SyncStates, selected : SUBSET Pages] :
               IsFiniteSet(s.selected) /\ Cardinality(s.selected) <= MaxSelected}

Losses == [updates : SUBSET Updates, redone : SUBSET Updates,
           sync : BOOLEAN, index : BOOLEAN, push : BOOLEAN]

IndexRuns == [runs : Nat, status : Recorded \cup {None},
              job : {"none", "queued", "running", "done", "dead"}]

Types ==
  /\ setup \in Scenarios
  /\ ledger \in [Updates -> Recorded \cup {None}]
  /\ delivery \in [Deliveries -> {"none", "insert", "enqueue", "unqueued", "answered"}]
  /\ job \in [Deliveries -> JobRecords]
  /\ pickers \in Nat
  /\ sync \in Sessions \cup {None}
  /\ index \in [state : IndexStates] \cup {None}
  /\ syncs \in Seq(SUBSET Pages)
  /\ fullIndex \in IndexRuns
  /\ operator \in {"idle", "read", "done"}
  /\ lost \in Losses
  /\ faults \in 0..MaxFaults

(* One delivery at most has claimed an update, and until its outcome is    *)
(* recorded the row is running, unless the work was handed out again.      *)
OwnsRow(d) == delivery[d] \in {"enqueue", "unqueued"} \/ job[d].pc # "none"
Unsettled(d) == delivery[d] \in {"enqueue", "unqueued"} \/ job[d].pc \in Running

Claims ==
  /\ \A d \in Deliveries : job[d].pc = "none" => job[d] = NoJob
  /\ \A d \in Deliveries : delivery[d] \in {"none", "insert", "enqueue"} => job[d].pc = "none"
  /\ \A d \in Deliveries :
       delivery[d] = "unqueued" /\ job[d].pc # "none" => UpdateOf(d) \in lost.redone
  /\ \A d \in Deliveries : OwnsRow(d) => ledger[UpdateOf(d)] # None
  /\ \A c, d \in Deliveries : OwnsRow(c) /\ OwnsRow(d) /\ UpdateOf(c) = UpdateOf(d) => c = d
  /\ \A d \in Deliveries :
       Unsettled(d) => ledger[UpdateOf(d)] = "running" \/ UpdateOf(d) \in lost.redone

(* A job that synchronises has the session to itself: it is processing and *)
(* nothing was synchronised before; one that was synchronised never opens  *)
(* again and keeps the pages it was synchronised with.                     *)
SyncHeld ==
  /\ Len(syncs) <= 1
  /\ \A c, d \in Deliveries : job[c].pc \in Syncing /\ job[d].pc \in Syncing => c = d
  /\ \A d \in Deliveries : job[d].pc \in Syncing /\ sync # None => sync.state = "processing"
  /\ \A d \in Deliveries :
       At(d, "sync") => syncs = <<>> /\ (sync # None => job[d].pages = sync.selected)
  /\ \A d \in Deliveries : At(d, "synced") => job[d].result \in Results
  /\ syncs # <<>> /\ sync # None =>
       sync.state \notin {"selecting", "cancelled"} /\ syncs[1] = sync.selected

(* The same for the job that starts a full index; until the operator steps *)
(* in, or its push raised, the workflow run is running while its job may   *)
(* still run.                                                              *)
IndexHeld ==
  /\ \A c, d \in Deliveries : job[c].pc \in Starting /\ job[d].pc \in Starting => c = d
  /\ (fullIndex.runs > 0 \/ \E d \in Deliveries : job[d].pc \in Starting) /\ index # None =>
       index.state \notin {"warning", "cancelled"}
  /\ \A d \in Deliveries :
       /\ At(d, "start") => fullIndex.runs = 0
       /\ job[d].pc \in {"mark_queued", "push", "unpushed"} => fullIndex.runs = 1
       /\ job[d].pc \in {"mark_queued", "push"} => fullIndex.job = "none"
       /\ At(d, "unpushed") => lost.push
  /\ fullIndex.runs <= 1
  /\ fullIndex.runs = 0 =>
       fullIndex.status = None /\ fullIndex.job = "none" /\ operator = "idle"
  /\ fullIndex.runs > 0 /\ fullIndex.job \in {"none", "queued", "running"} =>
       fullIndex.status = "running" \/ operator = "done" \/ lost.push

IInv == Types /\ Claims /\ SyncHeld /\ IndexHeld

-------------------------------------------------------------------------------
LEMMA InitIInv == Init => IInv
<1> SUFFICES ASSUME Init PROVE IInv
  OBVIOUS
<1>1. setup.selected \in SUBSET Pages /\ IsFiniteSet(setup.selected)
      /\ Cardinality(setup.selected) <= MaxSelected
  BY UpdatesAssumption DEF Init, Pages
<1>2. sync \in Sessions \cup {None}
  BY <1>1 DEF Init, StartedSync, Sessions, SyncStates
<1>3. index \in [state : IndexStates] \cup {None}
  BY DEF Init, StartedIndex, IndexStates
<1>4. NoJob \in JobRecords
  BY UpdatesAssumption DEF NoJob, JobRecords
<1>5. Types
  <2>1. job \in [Deliveries -> JobRecords] /\ delivery \in [Deliveries -> {"none"}]
    BY <1>4 DEF Init
  <2>2. ledger \in [Updates -> {None}] /\ syncs \in Seq(SUBSET Pages)
    BY DEF Init
  <2>3. fullIndex \in IndexRuns
    BY DEF Init, IndexRuns
  <2>4. lost \in Losses
    BY DEF Init, Losses
  <2> QED BY <1>2, <1>3, <2>1, <2>2, <2>3, <2>4, UpdatesAssumption DEF Init, Types
<1>6. \A d \in Deliveries : job[d] = NoJob /\ job[d].pc = "none" /\ delivery[d] = "none"
  BY DEF Init, NoJob
<1>7. Claims
  BY <1>6 DEF Claims, OwnsRow, Unsettled, Running, Syncing, Starting
<1>8. SyncHeld
  BY <1>6 DEF Init, SyncHeld, Syncing, At
<1>9. IndexHeld
  BY <1>6 DEF Init, IndexHeld, Starting, At
<1> QED BY <1>5, <1>7, <1>8, <1>9 DEF IInv

-------------------------------------------------------------------------------
(* What a step of one job leaves of the invariant.                         *)

JobStep(d) ==
  /\ job' \in [Deliveries -> JobRecords']
  /\ \A c \in Deliveries \ {d} : job'[c] = job[c]

(* The row is left alone, or gets its outcome; a job that runs afterwards  *)
(* ran before or was handed out again.                                     *)
RowStep(d) ==
  \/ /\ UNCHANGED ledger
     /\ job'[d].pc \in Running => job[d].pc \in Running \/ UpdateOf(d) \in lost'.redone
  \/ /\ MarkUpdate(d, "failed") \/ MarkUpdate(d, "succeeded")
     /\ job'[d].pc \in Running => UpdateOf(d) \in lost'.redone

LEMMA GotoStep ==
  ASSUME Types, UNCHANGED setup, NEW d \in Deliveries,
         NEW place \in Running \cup {"return", "done", "dead"}, Goto(d, place)
  PROVE  JobStep(d) /\ job'[d] = [job[d] EXCEPT !.pc = place] /\ job'[d].pc = place
<1>1. JobRecords' = JobRecords
  BY DEF JobRecords, Pages, ButtonOf
<1>2. job[d] \in JobRecords
  BY DEF Types
<1>3. [job[d] EXCEPT !.pc = place] \in JobRecords /\ [job[d] EXCEPT !.pc = place].pc = place
  BY <1>2 DEF JobRecords
<1> QED BY <1>1, <1>3 DEF Goto, JobStep, Types

LEMMA ClaimsKept ==
  ASSUME Types, Claims, UNCHANGED <<setup, delivery>>, NEW d \in Deliveries, JobStep(d),
         job[d].pc # "none", job'[d].pc # "none", lost.redone \subseteq lost'.redone,
         RowStep(d)
  PROVE  Claims'
<1> USE DEF JobStep, RowStep, MarkUpdate, UpdateOf, OwnsRow, Unsettled
<1>1. OwnsRow(d) /\ (job[d].pc \in Running => Unsettled(d))
  OBVIOUS
<1>2. \A c \in Deliveries : OwnsRow(c)' => OwnsRow(c)
  BY <1>1
<1>3. \A c \in Deliveries : UpdateOf(c) \in DOMAIN ledger
  BY DEF Types, Updates
<1>4. \A c \in Deliveries : OwnsRow(c)' => ledger'[UpdateOf(c)] # None
  BY <1>2, <1>3, UpdatesAssumption DEF Claims
<1>5. \A c \in Deliveries : Unsettled(c)' /\ c # d =>
        ledger'[UpdateOf(c)] = ledger[UpdateOf(c)] /\ Unsettled(c)
  <2> SUFFICES ASSUME NEW c \in Deliveries, Unsettled(c)', c # d
               PROVE  ledger'[UpdateOf(c)] = ledger[UpdateOf(c)] /\ Unsettled(c)
    OBVIOUS
  <2>1. Unsettled(c)
    OBVIOUS
  <2>2. OwnsRow(c)
    BY <2>1 DEF Running, Syncing, Starting
  <2>3. UpdateOf(c) # UpdateOf(d)
    BY <1>1, <2>2 DEF Claims
  <2> QED BY <2>1, <2>3, <1>3
<1>6. \A c \in Deliveries :
        Unsettled(c)' => ledger'[UpdateOf(c)] = "running" \/ UpdateOf(c) \in lost'.redone
  <2> SUFFICES ASSUME NEW c \in Deliveries, Unsettled(c)'
               PROVE  ledger'[UpdateOf(c)] = "running" \/ UpdateOf(c) \in lost'.redone
    OBVIOUS
  <2>1. CASE c # d
    BY <2>1, <1>5 DEF Claims
  <2>2. CASE c = d /\ job'[d].pc \in Running
    BY <1>1, <2>2 DEF Claims
  <2>3. CASE c = d /\ job'[d].pc \notin Running
    <3>1. delivery[d] \in {"enqueue", "unqueued"}
      BY <2>3
    <3>2. UpdateOf(d) \in lost.redone
      BY <3>1 DEF Claims, Running, Syncing, Starting
    <3> QED BY <2>3, <3>2
  <2> QED BY <2>1, <2>2, <2>3
<1>7. \A c \in Deliveries : job'[c].pc = "none" => job'[c] = NoJob
  BY DEF Claims, NoJob
<1>8. \A c \in Deliveries : delivery'[c] \in {"none", "insert", "enqueue"} => job'[c].pc = "none"
  BY DEF Claims, Running, Syncing, Starting
<1>9. \A c \in Deliveries :
        delivery'[c] = "unqueued" /\ job'[c].pc # "none" => UpdateOf(c) \in lost'.redone
  BY DEF Claims, Running, Syncing, Starting
<1>10. \A b, c \in Deliveries : OwnsRow(b)' /\ OwnsRow(c)' /\ UpdateOf(b) = UpdateOf(c) => b = c
  BY <1>2 DEF Claims
<1> QED BY <1>4, <1>6, <1>7, <1>8, <1>9, <1>10 DEF Claims

LEMMA SyncKept ==
  ASSUME SyncHeld, NEW d \in Deliveries, JobStep(d), job'[d].pc \notin Syncing,
         UNCHANGED <<sync, syncs>>
  PROVE  SyncHeld'
BY DEF SyncHeld, JobStep, At, Syncing

LEMMA IndexKept ==
  ASSUME IndexHeld, NEW d \in Deliveries, JobStep(d), job'[d].pc \notin Starting,
         UNCHANGED <<index, fullIndex, operator>>, lost.push => lost'.push
  PROVE  IndexHeld'
BY DEF IndexHeld, JobStep, At, Starting

(* A step of job d that leaves the sessions and the runs alone.            *)
LEMMA QuietKeeps ==
  ASSUME IInv, NEW d \in Deliveries, JobStep(d), job[d].pc # "none",
         job'[d].pc \notin Syncing \cup Starting \cup {"none"},
         UNCHANGED <<setup, delivery, pickers, sync, index, runs>>,
         lost' \in Losses, lost.redone \subseteq lost'.redone, lost'.push = lost.push,
         faults' \in 0..MaxFaults, RowStep(d)
  PROVE  IInv'
<1> USE DEF IInv, runs
<1>1. ledger' \in [Updates -> Recorded \cup {None}]
  BY DEF RowStep, MarkUpdate, Types, Recorded
<1>2. Updates' = Updates /\ Pages' = Pages /\ Sessions' = Sessions /\ Losses' = Losses
  BY DEF Updates, Pages, UpdateOf, ButtonOf, Sessions, Losses
<1>3. Types'
  BY <1>1, <1>2 DEF Types, JobStep
<1>4. Claims' /\ SyncHeld' /\ IndexHeld'
  BY ClaimsKept, SyncKept, IndexKept
<1> QED BY <1>3, <1>4

LEMMA FaultCounted ==
  ASSUME Types, Fault
  PROVE  faults' \in 0..MaxFaults
BY UpdatesAssumption DEF Types, Fault

LEMMA RaiseStep ==
  ASSUME Types, UNCHANGED setup, NEW d \in Deliveries, Raise(d)
  PROVE  /\ JobStep(d) /\ job'[d].pc \in {"queued", "dead"}
         /\ job'[d].pc = "queued" => UpdateOf(d) \in lost'.redone
         /\ lost' \in Losses /\ lost.redone \subseteq lost'.redone /\ lost'.push = lost.push
<1>1. JobRecords' = JobRecords
  BY DEF JobRecords, Pages, ButtonOf
<1>2. job[d] \in JobRecords /\ UpdateOf(d) \in Updates /\ job[d].tries \in 0..MaxTries
  BY DEF Types, Updates, JobRecords
<1>3. CASE job[d].tries < MaxTries
  <2>1. job[d].tries + 1 \in 0..MaxTries
    BY <1>2, <1>3, UpdatesAssumption
  <2>2. [NoJob EXCEPT !.pc = "queued", !.tries = job[d].tries + 1] \in JobRecords
    BY <2>1 DEF NoJob, JobRecords, Running
  <2>3. job' = [job EXCEPT ![d] = [NoJob EXCEPT !.pc = "queued", !.tries = job[d].tries + 1]]
    BY <1>3 DEF Raise
  <2>4. JobStep(d) /\ job'[d].pc = "queued"
    BY <1>1, <2>2, <2>3 DEF JobStep, Types, NoJob
  <2>5. lost' = [lost EXCEPT !.redone = @ \cup {UpdateOf(d)},
                             !.sync = @ \/ job[d].pc \in {"sync", "synced"},
                             !.index = @ \/ job[d].pc \in {"mark_queued", "push", "unpushed"}]
    BY <1>3 DEF Raise
  <2>6. lost' \in Losses
    BY <1>2, <2>5, Zenon DEF Losses, Types
  <2> QED BY <2>4, <2>5, <2>6 DEF Losses, Types
<1>4. CASE ~(job[d].tries < MaxTries)
  <2>1. JobStep(d) /\ job'[d].pc = "dead"
    BY <1>4, GotoStep DEF Raise
  <2>2. lost' = [lost EXCEPT !.updates = @ \cup {UpdateOf(d)},
                             !.sync = @ \/ job[d].pc \in {"sync", "synced"},
                             !.index = @ \/ job[d].pc \in {"mark_queued", "push", "unpushed"}]
    BY <1>4 DEF Raise
  <2>3. lost' \in Losses
    BY <1>2, <2>2, Zenon DEF Losses, Types
  <2> QED BY <2>1, <2>2, <2>3 DEF Losses, Types
<1> QED BY <1>3, <1>4

LEMMA QuietJobsKeep ==
  ASSUME IInv, NEW d \in Deliveries,
         \/ ClaimCallback(d) \/ Reply(d) \/ Audit(d) \/ Succeed(d)
         \/ Fail(d) \/ Return(d) \/ CrashJob(d)
  PROVE  IInv'
<1> USE DEF IInv, api, redis, runs, At
<1>1. UNCHANGED <<setup, delivery, pickers, sync, index, runs>>
  BY DEF ClaimCallback, Reply, Audit, Succeed, Fail, Return, CrashJob
<1>2. job[d].pc # "none" /\ UpdateOf(d) \in Updates
  BY DEF ClaimCallback, Reply, Audit, Succeed, Fail, Return, CrashJob, Idle, Updates
<1>3. lost \in Losses /\ faults \in 0..MaxFaults
  BY DEF Types
<1>4. CASE /\ Goto(d, "act") \/ Goto(d, "fail") \/ Goto(d, "audit") \/ Goto(d, "done")
                \/ Goto(d, "succeed")
           /\ UNCHANGED <<ledger, lost, faults>> /\ job[d].pc \in Running \cup {"return"}
           /\ job[d].pc = "return" => Goto(d, "done")
  <2>1. JobStep(d) /\ job'[d].pc \in {"act", "fail", "audit", "done", "succeed"}
    BY <1>1, <1>4, GotoStep DEF Running
  <2>2. job[d].pc = "return" => job'[d].pc = "done"
    BY <1>1, <1>4, GotoStep DEF Running
  <2>3. RowStep(d)
    BY <1>4, <2>1, <2>2 DEF RowStep, Running, Syncing, Starting
  <2> QED BY <1>1, <1>2, <1>3, <1>4, <2>1, <2>3, QuietKeeps DEF Syncing, Starting
<1>5. CASE Raise(d) /\ Fault /\ (MarkUpdate(d, "failed") \/ UNCHANGED ledger)
  <2>1. /\ JobStep(d) /\ job'[d].pc \in {"queued", "dead"}
        /\ job'[d].pc = "queued" => UpdateOf(d) \in lost'.redone
        /\ lost' \in Losses /\ lost.redone \subseteq lost'.redone /\ lost'.push = lost.push
    BY <1>1, <1>5, RaiseStep
  <2>2. RowStep(d)
    BY <1>5, <2>1 DEF RowStep, Running, Syncing, Starting
  <2> QED BY <1>1, <1>2, <1>5, <2>1, <2>2, FaultCounted, QuietKeeps DEF Syncing, Starting
<1>6. CASE /\ Goto(d, "return") /\ job[d].pc \in Running
           /\ MarkUpdate(d, "failed") \/ MarkUpdate(d, "succeeded") \/ UNCHANGED ledger
           /\ \/ UNCHANGED <<lost, faults>>
              \/ Fault /\ lost' = [lost EXCEPT !.updates = @ \cup {UpdateOf(d)}]
  <2>1. JobStep(d) /\ job'[d].pc = "return"
    BY <1>1, <1>6, GotoStep
  <2>2. lost' \in Losses /\ lost.redone \subseteq lost'.redone /\ lost'.push = lost.push
    BY <1>2, <1>3, <1>6 DEF Losses
  <2>3. faults' \in 0..MaxFaults
    BY <1>3, <1>6, FaultCounted
  <2>4. RowStep(d)
    BY <1>6, <2>1 DEF RowStep, Running, Syncing, Starting
  <2> QED BY <1>1, <1>2, <2>1, <2>2, <2>3, <2>4, QuietKeeps DEF Syncing, Starting
<1>7. CASE ClaimCallback(d) \/ Reply(d) \/ Return(d)
  BY <1>4, <1>7 DEF ClaimCallback, Reply, Return, Running
<1>8. CASE Audit(d)
  BY <1>4, <1>5, <1>8 DEF Audit, Running
<1>9. CASE Succeed(d)
  BY <1>6, <1>9 DEF Succeed, Running
<1>10. CASE Fail(d)
  BY <1>5, <1>6, <1>10 DEF Fail, Running
<1>11. CASE CrashJob(d)
  BY <1>5, <1>11 DEF CrashJob
<1> QED BY <1>7, <1>8, <1>9, <1>10, <1>11

-------------------------------------------------------------------------------
(* The steps of the API process.                                           *)

LEMMA ApiFrame ==
  ASSUME IInv, NEW d \in Deliveries, Claims',
         \/ UNCHANGED job
         \/ JobStep(d) /\ job'[d].pc \notin Syncing \cup Starting,
         UNCHANGED <<setup, pickers, sync, index, runs>>,
         ledger' \in [Updates -> Recorded \cup {None}],
         delivery' \in [Deliveries -> {"none", "insert", "enqueue", "unqueued", "answered"}],
         lost' \in Losses, lost'.push = lost.push, faults' \in 0..MaxFaults
  PROVE  IInv'
<1> USE DEF IInv, runs
<1>1. Updates' = Updates /\ Pages' = Pages /\ Sessions' = Sessions /\ Losses' = Losses
      /\ JobRecords' = JobRecords
  BY DEF Updates, Pages, UpdateOf, ButtonOf, Sessions, Losses, JobRecords
<1>2. Types'
  BY <1>1 DEF Types, JobStep
<1>3. SyncHeld' /\ IndexHeld'
  <2>1. CASE UNCHANGED job
    BY <2>1 DEF SyncHeld, IndexHeld, At
  <2>2. CASE JobStep(d) /\ job'[d].pc \notin Syncing \cup Starting
    BY <2>2, SyncKept, IndexKept
  <2> QED BY <2>1, <2>2
<1> QED BY <1>2, <1>3

LEMMA ReceiveKeeps ==
  ASSUME IInv, NEW d \in Deliveries, Receive(d)
  PROVE  IInv'
<1> USE DEF IInv, redis
<1>1. PICK at \in {"insert", "answered"} :
        delivery[d] = "none" /\ delivery' = [delivery EXCEPT ![d] = at]
  BY DEF Receive, Answered
<1>2. UNCHANGED <<setup, ledger, job, redis, runs, lost, faults>>
  BY DEF Receive
<1>3. Claims'
  BY <1>1, <1>2 DEF Claims, OwnsRow, Unsettled, UpdateOf, Types
<1> QED BY <1>1, <1>2, <1>3, ApiFrame DEF Types

LEMMA InsertKeeps ==
  ASSUME IInv, NEW d \in Deliveries, Insert(d)
  PROVE  IInv'
<1> USE DEF IInv, redis
<1>1. /\ delivery[d] = "insert"
      /\ UNCHANGED <<setup, job, redis, runs, lost, faults>>
  BY DEF Insert
<1>2. delivery \in [Deliveries -> {"none", "insert", "enqueue", "unqueued", "answered"}]
      /\ ledger \in [Updates -> Recorded \cup {None}] /\ UpdateOf(d) \in Updates
      /\ lost \in Losses /\ faults \in 0..MaxFaults
  BY DEF Types, Updates
<1>3. CASE ledger[UpdateOf(d)] = None
  <2>1. /\ ledger' = [ledger EXCEPT ![UpdateOf(d)] = "running"]
        /\ delivery' = [delivery EXCEPT ![d] = "enqueue"]
    BY <1>3 DEF Insert, MarkUpdate
  <2>2. \A c \in Deliveries : OwnsRow(c)' => c = d \/ (OwnsRow(c) /\ UpdateOf(c) # UpdateOf(d))
    BY <1>1, <1>2, <1>3, <2>1 DEF OwnsRow, Claims
  <2>3. \A c \in Deliveries \ {d} : OwnsRow(c)' =>
          ledger'[UpdateOf(c)] = ledger[UpdateOf(c)] /\ (Unsettled(c)' = Unsettled(c))
    BY <1>1, <1>2, <2>1, <2>2 DEF Unsettled, Updates
  <2>4. ledger'[UpdateOf(d)] = "running"
    BY <1>2, <2>1
  <2>5. \A c \in Deliveries : Unsettled(c)' => OwnsRow(c)'
    BY DEF Unsettled, OwnsRow, Running, Syncing, Starting
  <2>6. \A c \in Deliveries : UpdateOf(c)' = UpdateOf(c)
    BY <1>1 DEF UpdateOf
  <2>7. \A c \in Deliveries : OwnsRow(c)' => ledger'[UpdateOf(c)] # None
    BY <2>2, <2>3, <2>4, UpdatesAssumption DEF Claims
  <2>8. \A c \in Deliveries :
          Unsettled(c)' => ledger'[UpdateOf(c)] = "running" \/ UpdateOf(c) \in lost'.redone
    BY <1>1, <2>3, <2>4, <2>5 DEF Claims
  <2>9. \A b, c \in Deliveries : OwnsRow(b)' /\ OwnsRow(c)' /\ UpdateOf(b) = UpdateOf(c) => b = c
    BY <2>2 DEF Claims
  <2>10. Claims'
    BY <1>1, <1>2, <2>1, <2>6, <2>7, <2>8, <2>9 DEF Claims
  <2> QED BY <1>1, <1>2, <2>1, <2>10, ApiFrame DEF Recorded
<1>4. CASE ledger[UpdateOf(d)] # None
  <2>1. delivery' = [delivery EXCEPT ![d] = "answered"] /\ ledger' = ledger
    BY <1>4 DEF Insert, Answered
  <2>2. Claims'
    BY <1>1, <1>2, <2>1 DEF Claims, OwnsRow, Unsettled, UpdateOf
  <2> QED BY <1>1, <1>2, <2>1, <2>2, ApiFrame
<1> QED BY <1>3, <1>4

LEMMA EnqueueKeeps ==
  ASSUME IInv, NEW d \in Deliveries, Enqueue(d)
  PROVE  IInv'
<1> USE DEF IInv, redis
<1>1. delivery[d] = "enqueue" /\ UNCHANGED <<setup, ledger, redis, runs>>
  BY DEF Enqueue
<1>2. delivery \in [Deliveries -> {"none", "insert", "enqueue", "unqueued", "answered"}]
      /\ ledger \in [Updates -> Recorded \cup {None}] /\ UpdateOf(d) \in Updates
      /\ lost \in Losses /\ faults \in 0..MaxFaults /\ job \in [Deliveries -> JobRecords]
  BY DEF Types, Updates
<1>3. PICK at \in {"answered", "unqueued"} : delivery' = [delivery EXCEPT ![d] = at]
  BY DEF Enqueue, Answered
<1>4. Push(d) => JobStep(d) /\ job'[d].pc = "queued"
  <2>1. [NoJob EXCEPT !.pc = "queued", !.tries = 1] \in JobRecords
    <3>1. 1 \in 0..MaxTries
      BY UpdatesAssumption
    <3> QED BY <3>1 DEF NoJob, JobRecords, Running
  <2>2. JobRecords' = JobRecords
    BY <1>1 DEF JobRecords, Pages, ButtonOf
  <2> QED BY <1>2, <2>1, <2>2 DEF Push, JobStep, NoJob
<1>5. UNCHANGED job \/ Push(d)
  BY DEF Enqueue
<1>6. faults' \in 0..MaxFaults
  BY <1>2, FaultCounted DEF Enqueue
<1>7. lost' \in Losses /\ lost'.push = lost.push /\ lost.redone \subseteq lost'.redone
      /\ (at = "unqueued" /\ Push(d) => UpdateOf(d) \in lost'.redone \/ UNCHANGED job)
      /\ (at = "answered" => Push(d))
  BY <1>2, <1>3 DEF Enqueue, Answered, Losses
<1>8. OwnsRow(d) /\ Unsettled(d) /\ job[d].pc = "none"
  BY <1>1 DEF OwnsRow, Unsettled, Claims
<1>9. \A c \in Deliveries : UpdateOf(c)' = UpdateOf(c) /\ (OwnsRow(c)' => OwnsRow(c))
  BY <1>1, <1>3, <1>4, <1>5, <1>8 DEF UpdateOf, OwnsRow, JobStep, Types
<1>10. \A c \in Deliveries : job'[c].pc = "none" => job'[c] = NoJob
  BY <1>4, <1>5 DEF Claims, JobStep
<1>11. \A c \in Deliveries : delivery'[c] \in {"none", "insert", "enqueue"} => job'[c].pc = "none"
  BY <1>2, <1>3, <1>4, <1>5 DEF Claims, JobStep
<1>12. \A c \in Deliveries :
         delivery'[c] = "unqueued" /\ job'[c].pc # "none" => UpdateOf(c) \in lost'.redone
  BY <1>2, <1>3, <1>4, <1>5, <1>7, <1>8 DEF Claims, JobStep
<1>13. \A c \in Deliveries : Unsettled(c)' => Unsettled(c)
  BY <1>2, <1>3, <1>4, <1>5, <1>8 DEF Unsettled, JobStep
<1>14. Claims'
  BY <1>1, <1>7, <1>9, <1>10, <1>11, <1>12, <1>13 DEF Claims
<1> QED BY <1>1, <1>2, <1>3, <1>4, <1>5, <1>6, <1>7, <1>14, ApiFrame DEF Syncing, Starting

(* Giving an update up, or leaving it as it is when the process dies.      *)
LEMMA GivingUpKeeps ==
  ASSUME IInv, NEW d \in Deliveries, Unqueued(d) \/ CrashApi(d)
  PROVE  IInv'
<1> USE DEF IInv, redis
<1>1. /\ delivery[d] \in {"insert", "enqueue", "unqueued"}
      /\ delivery' = [delivery EXCEPT ![d] = "answered"]
      /\ UNCHANGED <<setup, job, redis, runs>>
  BY DEF Unqueued, CrashApi, Answered
<1>2. delivery \in [Deliveries -> {"none", "insert", "enqueue", "unqueued", "answered"}]
      /\ ledger \in [Updates -> Recorded \cup {None}] /\ UpdateOf(d) \in Updates
      /\ lost \in Losses /\ faults \in 0..MaxFaults
  BY DEF Types, Updates
<1>3. lost' \in Losses /\ lost'.push = lost.push /\ lost'.redone = lost.redone
  BY <1>2 DEF Unqueued, CrashApi, Losses
<1>4. faults' \in 0..MaxFaults
  BY <1>2, FaultCounted DEF Unqueued, CrashApi
<1>5. UNCHANGED ledger \/ (delivery[d] = "unqueued" /\ MarkUpdate(d, "failed"))
  BY DEF Unqueued, CrashApi
<1>6. \A c \in Deliveries : UpdateOf(c)' = UpdateOf(c) /\ (OwnsRow(c)' => OwnsRow(c))
                              /\ (Unsettled(c)' => Unsettled(c) /\ OwnsRow(c))
  BY <1>1, <1>2 DEF UpdateOf, OwnsRow, Unsettled, Running, Syncing, Starting
<1>7. \A c \in Deliveries : ledger[UpdateOf(c)] # None => ledger'[UpdateOf(c)] # None
  BY <1>2, <1>5, UpdatesAssumption DEF MarkUpdate, Updates
<1>8. \A c \in Deliveries :
        Unsettled(c)' => ledger'[UpdateOf(c)] = "running" \/ UpdateOf(c) \in lost'.redone
  <2> SUFFICES ASSUME NEW c \in Deliveries, Unsettled(c)'
               PROVE  ledger'[UpdateOf(c)] = "running" \/ UpdateOf(c) \in lost'.redone
    OBVIOUS
  <2>1. CASE UNCHANGED ledger
    BY <1>3, <1>6, <2>1 DEF Claims
  <2>2. CASE delivery[d] = "unqueued" /\ MarkUpdate(d, "failed") /\ c = d
    <3>1. job[d].pc # "none"
      BY <1>1, <1>2, <2>2 DEF Unsettled, Running, Syncing, Starting
    <3> QED BY <1>3, <2>2, <3>1 DEF Claims
  <2>3. CASE delivery[d] = "unqueued" /\ MarkUpdate(d, "failed") /\ c # d
    <3>1. OwnsRow(d) /\ OwnsRow(c)
      BY <1>6, <2>3 DEF OwnsRow
    <3>2. UpdateOf(c) # UpdateOf(d)
      BY <2>3, <3>1 DEF Claims
    <3>3. ledger'[UpdateOf(c)] = ledger[UpdateOf(c)]
      BY <1>2, <2>3, <3>2 DEF MarkUpdate, Updates
    <3> QED BY <1>3, <1>6, <3>3 DEF Claims
  <2> QED BY <1>5, <2>1, <2>2, <2>3
<1>9. Claims'
  BY <1>1, <1>2, <1>3, <1>6, <1>7, <1>8 DEF Claims
<1>10. ledger' \in [Updates -> Recorded \cup {None}]
  BY <1>2, <1>5 DEF MarkUpdate, Recorded
<1> QED BY <1>1, <1>2, <1>3, <1>4, <1>9, <1>10, ApiFrame

-------------------------------------------------------------------------------
(* The sync session.                                                       *)

LEMMA SessionFrame ==
  ASSUME IInv, NEW d \in Deliveries, JobStep(d),
         job[d].pc \in Running, job'[d].pc \in Running,
         UNCHANGED <<api, operator>>, pickers' \in Nat,
         sync' \in Sessions \cup {None}, index' \in [state : IndexStates] \cup {None},
         syncs' \in Seq(SUBSET Pages), fullIndex' \in IndexRuns,
         lost' \in Losses, lost'.redone = lost.redone, faults' \in 0..MaxFaults,
         SyncHeld', IndexHeld'
  PROVE  IInv'
<1> USE DEF IInv, api
<1>1. Updates' = Updates /\ Pages' = Pages /\ Sessions' = Sessions /\ Losses' = Losses
  BY DEF Updates, Pages, UpdateOf, ButtonOf, Sessions, Losses
<1>2. Types'
  BY <1>1 DEF Types, JobStep
<1>3. RowStep(d)
  BY DEF RowStep
<1>4. Claims'
  BY <1>3, ClaimsKept DEF Running, Syncing, Starting
<1> QED BY <1>2, <1>4

LEMMA ToggledShape ==
  ASSUME Types, NEW d \in Deliveries, Toggled(ButtonOf(d).page) # None
  PROVE  /\ sync # None /\ sync.state = "selecting"
         /\ [sync EXCEPT !.selected = Toggled(ButtonOf(d).page)] \in Sessions
<1> DEFINE page == ButtonOf(d).page
           selected == Toggled(page)
<1>1. sync \in Sessions /\ sync.state = "selecting" /\ page \in Pages /\ sync # None
  BY DEF Toggled, Types, Pages
<1>2. /\ sync.selected \subseteq Pages /\ IsFiniteSet(sync.selected)
      /\ Cardinality(sync.selected) \in Nat /\ Cardinality(sync.selected) <= MaxSelected
  BY <1>1, FS_CardinalityType DEF Sessions
<1>3. selected \subseteq Pages /\ IsFiniteSet(selected) /\ Cardinality(selected) <= MaxSelected
  <2>1. CASE page \in sync.selected
    <3>1. selected = sync.selected \ {page}
      BY <1>1, <2>1 DEF Toggled
    <3>2. /\ IsFiniteSet(sync.selected \ {page})
          /\ Cardinality(sync.selected \ {page}) = Cardinality(sync.selected) - 1
      BY <1>2, <2>1, FS_RemoveElement
    <3> HIDE DEF selected, page
    <3> QED BY <1>2, <3>1, <3>2, UpdatesAssumption
  <2>2. CASE page \notin sync.selected
    <3>1. selected = sync.selected \cup {page} /\ ~(Cardinality(sync.selected) >= MaxSelected)
      BY <1>1, <2>2 DEF Toggled
    <3>2. /\ IsFiniteSet(sync.selected \cup {page})
          /\ Cardinality(sync.selected \cup {page}) = Cardinality(sync.selected) + 1
      BY <1>2, <2>2, FS_AddElement
    <3> HIDE DEF selected, page
    <3> QED BY <1>1, <1>2, <3>1, <3>2, UpdatesAssumption
  <2> QED BY <2>1, <2>2
<1> HIDE DEF selected, page
<1>4. [sync EXCEPT !.selected = selected] \in Sessions
  BY <1>1, <1>3 DEF Sessions
<1> QED BY <1>1, <1>4 DEF selected, page

LEMMA ToggleKeeps ==
  ASSUME IInv, NEW d \in Deliveries, Toggle(d)
  PROVE  IInv'
<1> USE DEF IInv
<1>1. job[d] \in JobRecords /\ pickers \in Nat /\ job \in [Deliveries -> JobRecords]
  BY DEF Types
<1>2. /\ job[d].pc = "act"
      /\ UNCHANGED <<api, index, runs, lost, faults>>
  BY DEF Toggle, Acting, At
<1>3. CASE Toggled(ButtonOf(d).page) = None
  <2>1. Goto(d, "fail") /\ UNCHANGED <<sync, pickers>>
    BY <1>3 DEF Toggle
  <2>2. JobStep(d) /\ job'[d].pc = "fail"
    BY <1>2, <2>1, GotoStep DEF api, Running
  <2>3. SyncHeld' /\ IndexHeld'
    BY <1>2, <2>1, <2>2, SyncKept, IndexKept DEF runs, Syncing, Starting
  <2> QED BY <1>2, <2>1, <2>2, <2>3, SessionFrame DEF Types, Running, runs
<1>4. CASE Toggled(ButtonOf(d).page) # None
  <2>1. /\ sync' = [sync EXCEPT !.selected = Toggled(ButtonOf(d).page)]
        /\ pickers' = pickers + 1
        /\ job' = [job EXCEPT ![d].pc = "reply", ![d].picker = pickers + 1]
    BY <1>4 DEF Toggle
  <2>2. sync # None /\ sync.state = "selecting" /\ sync' \in Sessions
    BY <1>4, <2>1, ToggledShape
  <2>3. JobRecords' = JobRecords
    BY <1>2 DEF JobRecords, Pages, ButtonOf, api
  <2>4. JobStep(d) /\ job'[d].pc = "reply"
    <3>1. job' = [job EXCEPT ![d] = [job[d] EXCEPT !.pc = "reply", !.picker = pickers + 1]]
      BY <2>1
    <3>2. [job[d] EXCEPT !.pc = "reply", !.picker = pickers + 1] \in JobRecords
      <4>1. pickers + 1 \in Nat
        BY <1>1
      <4> QED BY <1>1, <4>1 DEF JobRecords, Running
    <3> QED BY <1>1, <2>3, <3>1, <3>2 DEF JobStep, JobRecords
  <2>5. SyncHeld'
    BY <1>2, <2>2, <2>4 DEF SyncHeld, JobStep, At, Syncing, runs
  <2>6. IndexHeld'
    BY <1>2, <2>4, IndexKept DEF runs, Starting
  <2> QED BY <1>1, <1>2, <2>1, <2>2, <2>4, <2>5, <2>6, SessionFrame DEF Types, Running, runs
<1> QED BY <1>3, <1>4

LEMMA ConfirmKeeps ==
  ASSUME IInv, NEW d \in Deliveries, Confirm(d)
  PROVE  IInv'
<1> USE DEF IInv
<1>1. job[d] \in JobRecords /\ job \in [Deliveries -> JobRecords]
  BY DEF Types
<1>2. /\ job[d].pc = "act"
      /\ UNCHANGED <<api, pickers, index, runs, lost, faults>>
  BY DEF Confirm, Acting, At
<1>3. CASE sync # None /\ MayConfirm(sync)
  <2>1. /\ sync' = [sync EXCEPT !.state = "processing"]
        /\ job' = [job EXCEPT ![d].pc = "sync", ![d].pages = sync.selected]
    BY <1>3 DEF Confirm
  <2>2. sync \in Sessions /\ sync.state = "selecting" /\ sync.selected \subseteq Pages
    BY <1>3 DEF Types, MayConfirm, Sessions
  <2>3. sync' \in Sessions /\ sync'.state = "processing" /\ sync'.selected = sync.selected
    BY <2>1, <2>2 DEF Sessions, SyncStates
  <2>4. JobRecords' = JobRecords
    BY <1>2 DEF JobRecords, Pages, ButtonOf, api
  <2>5. JobStep(d) /\ job'[d].pc = "sync" /\ job'[d].pages = sync.selected
    BY ZenonT(30), <1>1, <2>1, <2>2, <2>4 DEF JobStep, JobRecords, Running, Syncing
  <2>6. syncs = <<>> /\ \A c \in Deliveries : job[c].pc \notin Syncing
    BY <1>3, <2>2 DEF SyncHeld
  <2>7. SyncHeld'
    BY <1>2, <2>3, <2>5, <2>6 DEF SyncHeld, JobStep, At, Syncing, runs
  <2>8. IndexHeld'
    BY <1>2, <2>5, IndexKept DEF runs, Starting
  <2> QED BY <1>2, <2>3, <2>5, <2>7, <2>8, SessionFrame DEF Types, Running, Syncing, runs
<1>4. CASE ~(sync # None /\ MayConfirm(sync))
  <2>1. (Goto(d, "fail") \/ Goto(d, "reply")) /\ UNCHANGED sync
    BY <1>4 DEF Confirm
  <2>2. JobStep(d) /\ job'[d].pc \in {"fail", "reply"}
    BY <1>2, <2>1, GotoStep DEF api, Running
  <2>3. SyncHeld' /\ IndexHeld'
    BY <1>2, <2>1, <2>2, SyncKept, IndexKept DEF runs, Syncing, Starting
  <2> QED BY <1>2, <2>1, <2>2, <2>3, SessionFrame DEF Types, Running, runs
<1> QED BY <1>3, <1>4

LEMMA SyncPagesKeeps ==
  ASSUME IInv, NEW d \in Deliveries, SyncPages(d)
  PROVE  IInv'
<1> USE DEF IInv
<1>1. job[d] \in JobRecords /\ job \in [Deliveries -> JobRecords] /\ lost \in Losses
  BY DEF Types
<1>2. /\ job[d].pc = "sync" /\ syncs' = Append(syncs, job[d].pages)
      /\ UNCHANGED <<api, pickers, sync, index, fullIndex, operator, faults>>
  BY DEF SyncPages, At, redis
<1>3. /\ syncs = <<>> /\ sync # None => job[d].pages = sync.selected
      /\ job[d].pages \subseteq Pages
  BY <1>1, <1>2 DEF SyncHeld, At, JobRecords
<1>4. syncs' \in Seq(SUBSET Pages) /\ Len(syncs') = 1 /\ syncs'[1] = job[d].pages
  <2>1. syncs = <<>> /\ job[d].pages \in SUBSET Pages
    BY <1>1, <1>2 DEF SyncHeld, At, JobRecords
  <2>2. syncs' = <<job[d].pages>>
    BY <1>2, <2>1
  <2> QED BY <2>1, <2>2
<1>5. JobRecords' = JobRecords
  BY <1>2 DEF JobRecords, Pages, ButtonOf, api
<1>6. JobStep(d) /\ job'[d].pc \in {"synced", "fail"}
      /\ (job'[d].pc = "synced" => job'[d].result \in Results)
  <2>1. CASE \E result \in Results :
               job' = [job EXCEPT ![d].pc = "synced", ![d].result = result]
    <3>1. PICK result \in Results :
            job' = [job EXCEPT ![d] = [job[d] EXCEPT !.pc = "synced", !.result = result]]
      BY <2>1
    <3>2. [job[d] EXCEPT !.pc = "synced", !.result = result] \in JobRecords
      BY <1>1 DEF JobRecords, Running, Syncing
    <3> QED BY <1>1, <1>5, <3>1, <3>2 DEF JobStep, JobRecords
  <2>2. CASE Goto(d, "fail")
    BY ZenonT(30), <1>2, <2>2, GotoStep DEF api, Running
  <2> QED BY <2>1, <2>2 DEF SyncPages, Results
<1>7. lost' \in Losses /\ lost'.redone = lost.redone /\ lost'.push = lost.push
  BY <1>1 DEF SyncPages, Losses
<1>8. SyncHeld'
  <2>1. \A c \in Deliveries : job[c].pc \in Syncing => c = d
    BY <1>2 DEF SyncHeld, Syncing
  <2>2. sync # None => sync.state = "processing"
    BY <1>2 DEF SyncHeld, Syncing
  <2>3. \A c \in Deliveries : job'[c].pc \in Syncing => c = d
    BY <1>6, <2>1 DEF JobStep
  <2>4. \A c \in Deliveries : job'[c].pc # "sync"
    BY <1>6, <2>3 DEF Syncing
  <2>5. \A c \in Deliveries : job'[c].pc = "synced" => job'[c].result \in Results
    BY <1>6, <2>3 DEF Syncing
  <2> QED BY <1>2, <1>3, <1>4, <2>2, <2>3, <2>4, <2>5 DEF SyncHeld, At
<1>9. IndexHeld'
  BY <1>2, <1>6, <1>7, IndexKept DEF Starting
<1> QED BY <1>2, <1>4, <1>6, <1>7, <1>8, <1>9, SessionFrame DEF Types, Running, Syncing

LEMMA CompleteSyncKeeps ==
  ASSUME IInv, NEW d \in Deliveries, CompleteSync(d)
  PROVE  IInv'
<1> USE DEF IInv
<1>1. /\ job[d].pc = "synced" /\ job[d].result \in Results
      /\ UNCHANGED <<api, pickers, index, runs, lost, faults>>
  BY DEF CompleteSync, At, SyncHeld
<1>2. JobStep(d) /\ job'[d].pc = "reply"
  BY <1>1, GotoStep DEF CompleteSync, api, Running
<1>3. CASE sync = None
  <2>1. UNCHANGED sync
    BY <1>3 DEF CompleteSync
  <2>2. SyncHeld' /\ IndexHeld'
    BY <1>1, <1>2, <2>1, SyncKept, IndexKept DEF runs, Syncing, Starting
  <2> QED BY <1>1, <1>2, <2>1, <2>2, SessionFrame DEF Types, Running, Syncing, runs
<1>4. CASE sync # None
  <2>1. sync' = [sync EXCEPT !.state = job[d].result] /\ sync \in Sessions
    BY <1>4 DEF CompleteSync, Types
  <2>2. sync' \in Sessions /\ sync'.state \in Results /\ sync'.selected = sync.selected
    BY <1>1, <2>1 DEF Sessions, SyncStates, Results
  <2>3. \A c \in Deliveries : job'[c].pc \notin Syncing
    BY <1>1, <1>2 DEF SyncHeld, JobStep, Syncing
  <2>4. SyncHeld'
    BY <1>1, <1>4, <2>2, <2>3 DEF SyncHeld, At, Syncing, Results, runs
  <2>5. IndexHeld'
    BY <1>1, <1>2, IndexKept DEF runs, Starting
  <2> QED BY <1>1, <1>2, <2>2, <2>4, <2>5, SessionFrame DEF Types, Running, Syncing, runs
<1> QED BY <1>3, <1>4

LEMMA CancelSyncKeeps ==
  ASSUME IInv, NEW d \in Deliveries, CancelSync(d)
  PROVE  IInv'
<1> USE DEF IInv
<1>1. /\ job[d].pc = "act"
      /\ UNCHANGED <<api, pickers, index, runs, lost, faults>>
  BY DEF CancelSync, Acting, At
<1>2. JobStep(d) /\ job'[d].pc \in {"fail", "reply"}
  BY <1>1, GotoStep DEF CancelSync, api, Running
<1>3. IndexHeld'
  BY <1>1, <1>2, IndexKept DEF runs, Starting
<1>4. CASE UNCHANGED sync
  <2>1. SyncHeld'
    BY <1>1, <1>2, <1>4, SyncKept DEF runs, Syncing
  <2> QED BY <1>1, <1>2, <1>3, <1>4, <2>1, SessionFrame DEF Types, Running, runs
<1>5. CASE sync # None /\ sync.state = "selecting" /\ sync' = [sync EXCEPT !.state = "cancelled"]
  <2>1. sync' \in Sessions /\ sync'.state = "cancelled"
    BY <1>5 DEF Types, Sessions, SyncStates
  <2>2. syncs = <<>> /\ \A c \in Deliveries : job[c].pc \notin Syncing
    BY <1>5 DEF SyncHeld
  <2>3. SyncHeld'
    BY <1>1, <1>2, <2>1, <2>2 DEF SyncHeld, JobStep, At, Syncing, runs
  <2> QED BY <1>1, <1>2, <1>3, <2>1, <2>3, SessionFrame DEF Types, Running, runs
<1> QED BY <1>4, <1>5 DEF CancelSync, Cancelled

-------------------------------------------------------------------------------
(* The full index.                                                         *)

(* A step of a job that leaves the sync session alone.                     *)
LEMMA IndexFrame ==
  ASSUME IInv, NEW d \in Deliveries, JobStep(d),
         job[d].pc \in Running, job'[d].pc \in Running \ Syncing,
         UNCHANGED <<api, pickers, sync, syncs, operator>>,
         index' \in [state : IndexStates] \cup {None}, fullIndex' \in IndexRuns,
         lost' \in Losses, lost'.redone = lost.redone, faults' \in 0..MaxFaults,
         IndexHeld'
  PROVE  IInv'
BY SyncKept, SessionFrame DEF IInv, Types

LEMMA ConfirmIndexKeeps ==
  ASSUME IInv, NEW d \in Deliveries, ConfirmIndex(d)
  PROVE  IInv'
<1> USE DEF IInv
<1>1. /\ job[d].pc = "act"
      /\ UNCHANGED <<api, pickers, sync, runs, lost, faults>>
  BY DEF ConfirmIndex, Acting, At
<1>2. CASE index # None /\ MayClaimIndex(index)
  <2>1. JobStep(d) /\ job'[d].pc = "start"
    BY <1>1, <1>2, GotoStep DEF ConfirmIndex, api, Running, Starting
  <2>2. index' = [index EXCEPT !.state = "processing"] /\ index \in [state : IndexStates]
    BY <1>2 DEF ConfirmIndex, Types
  <2>3. index' \in [state : IndexStates] /\ index'.state = "processing"
    BY <2>2 DEF IndexStates
  <2>4. fullIndex.runs = 0 /\ \A c \in Deliveries : job[c].pc \notin Starting
    BY <1>2 DEF IndexHeld, MayClaimIndex, Types, IndexRuns
  <2>5. IndexHeld'
    BY <1>1, <2>1, <2>3, <2>4 DEF IndexHeld, JobStep, At, Starting, runs
  <2> QED BY <1>1, <2>1, <2>3, <2>5, IndexFrame DEF Types, Running, Syncing, Starting, runs
<1>3. CASE ~(index # None /\ MayClaimIndex(index))
  <2>1. (Goto(d, "fail") \/ Goto(d, "reply")) /\ UNCHANGED index
    BY <1>3 DEF ConfirmIndex
  <2>2. JobStep(d) /\ job'[d].pc \in {"fail", "reply"}
    BY <1>1, <2>1, GotoStep DEF api, Running
  <2>3. IndexHeld'
    BY <1>1, <2>1, <2>2, IndexKept DEF runs, Starting
  <2> QED BY <1>1, <2>1, <2>2, <2>3, IndexFrame DEF Types, Running, Syncing, runs
<1> QED BY <1>2, <1>3

LEMMA CancelIndexKeeps ==
  ASSUME IInv, NEW d \in Deliveries, CancelIndex(d)
  PROVE  IInv'
<1> USE DEF IInv
<1>1. /\ job[d].pc = "act"
      /\ UNCHANGED <<api, pickers, sync, runs, lost, faults>>
  BY DEF CancelIndex, Acting, At
<1>2. JobStep(d) /\ job'[d].pc \in {"fail", "reply"}
  BY <1>1, GotoStep DEF CancelIndex, api, Running
<1>3. CASE UNCHANGED index
  <2>1. IndexHeld'
    BY <1>1, <1>2, <1>3, IndexKept DEF runs, Starting
  <2> QED BY <1>1, <1>2, <1>3, <2>1, IndexFrame DEF Types, Running, Syncing, runs
<1>4. CASE index # None /\ index.state = "warning" /\ index' = [index EXCEPT !.state = "cancelled"]
  <2>1. index' \in [state : IndexStates] /\ index'.state = "cancelled"
    BY <1>4 DEF Types, IndexStates
  <2>2. fullIndex.runs = 0 /\ \A c \in Deliveries : job[c].pc \notin Starting
    BY <1>4 DEF IndexHeld, Types, IndexRuns
  <2>3. IndexHeld'
    BY <1>1, <1>2, <2>1, <2>2 DEF IndexHeld, JobStep, At, Starting, runs
  <2> QED BY <1>1, <1>2, <2>1, <2>3, IndexFrame DEF Types, Running, Syncing, runs
<1> QED BY <1>3, <1>4 DEF CancelIndex, Cancelled

LEMMA StartIndexKeeps ==
  ASSUME IInv, NEW d \in Deliveries, StartIndex(d)
  PROVE  IInv'
<1> USE DEF IInv
<1>1. /\ job[d].pc = "start"
      /\ fullIndex' = [fullIndex EXCEPT !.runs = @ + 1, !.status = "running"]
      /\ UNCHANGED <<api, pickers, sync, index, syncs, operator, lost, faults>>
  BY DEF StartIndex, At, redis
<1>2. JobStep(d) /\ job'[d].pc = "mark_queued"
  BY <1>1, GotoStep DEF StartIndex, api, Running, Starting
<1>3. fullIndex.runs = 0 /\ fullIndex.job = "none"
  BY <1>1 DEF IndexHeld, At
<1>4. fullIndex' \in IndexRuns /\ fullIndex'.runs = 1 /\ fullIndex'.job = "none"
      /\ fullIndex'.status = "running"
  <2>1. fullIndex \in IndexRuns /\ fullIndex.runs + 1 = 1
    BY <1>3 DEF Types
  <2>2. fullIndex' = [fullIndex EXCEPT !.runs = 1, !.status = "running"]
    BY <1>1, <2>1
  <2> QED BY <1>3, <2>1, <2>2 DEF IndexRuns, Recorded
<1>5. \A c \in Deliveries : job[c].pc \in Starting \/ job'[c].pc \in Starting => c = d
  BY <1>1, <1>2 DEF IndexHeld, JobStep, Starting
<1>6. index # None => index.state \notin {"warning", "cancelled"}
  BY <1>1 DEF IndexHeld, Starting
<1>7. IndexHeld'
  BY <1>1, <1>2, <1>4, <1>5, <1>6 DEF IndexHeld, At, Starting
<1> QED BY <1>1, <1>2, <1>4, <1>7, IndexFrame DEF Types, Running, Syncing, Starting

LEMMA SetIndexStep ==
  ASSUME Types, NEW state \in {"running", "failed"}, SetIndex(state)
  PROVE  /\ index' \in [state : IndexStates] \cup {None}
         /\ index' # None => index'.state \notin {"warning", "cancelled"}
BY DEF SetIndex, Types, IndexStates

LEMMA MarkIndexQueuedKeeps ==
  ASSUME IInv, NEW d \in Deliveries, MarkIndexQueued(d)
  PROVE  IInv'
<1> USE DEF IInv
<1>1. /\ job[d].pc = "mark_queued" /\ SetIndex("running")
      /\ UNCHANGED <<api, pickers, sync, runs, lost, faults>>
  BY DEF MarkIndexQueued, At
<1>2. JobStep(d) /\ job'[d].pc = "push"
  BY <1>1, GotoStep DEF MarkIndexQueued, api, Running, Starting
<1>3. /\ index' \in [state : IndexStates] \cup {None}
      /\ index' # None => index'.state \notin {"warning", "cancelled"}
  BY <1>1, SetIndexStep
<1>4. \A c \in Deliveries : job[c].pc \in Starting \/ job'[c].pc \in Starting => c = d
  BY <1>1, <1>2 DEF IndexHeld, JobStep, Starting
<1>5. IndexHeld'
  BY <1>1, <1>2, <1>3, <1>4 DEF IndexHeld, At, Starting, runs
<1> QED BY <1>1, <1>2, <1>3, <1>5, IndexFrame DEF Types, Running, Syncing, Starting, runs

LEMMA EnqueueIndexKeeps ==
  ASSUME IInv, NEW d \in Deliveries, EnqueueIndex(d)
  PROVE  IInv'
<1> USE DEF IInv
<1>1. /\ job[d].pc = "push"
      /\ UNCHANGED <<api, pickers, sync, index, syncs, operator>>
  BY DEF EnqueueIndex, At, redis
<1>2. fullIndex \in IndexRuns /\ fullIndex.runs = 1 /\ fullIndex.job = "none" /\ lost \in Losses
      /\ faults \in 0..MaxFaults
  BY <1>1 DEF IndexHeld, Types
<1>3. fullIndex' \in {fullIndex, [fullIndex EXCEPT !.job = "queued"]}
  BY DEF EnqueueIndex
<1>4. fullIndex' \in IndexRuns /\ fullIndex'.runs = 1 /\ fullIndex'.status = fullIndex.status
  BY <1>2, <1>3 DEF IndexRuns
<1>5. JobStep(d) /\ job'[d].pc \in {"reply", "unpushed"}
  BY <1>1, GotoStep DEF EnqueueIndex, api, Running, Starting
<1>6. lost' \in Losses /\ lost'.redone = lost.redone /\ (lost.push => lost'.push)
      /\ (job'[d].pc = "unpushed" => lost'.push) /\ faults' \in 0..MaxFaults
  <2>1. CASE Goto(d, "reply") /\ UNCHANGED <<lost, faults>>
    <3>1. job'[d].pc = "reply"
      BY <1>1, <2>1, GotoStep DEF api, Running
    <3> QED BY <1>2, <2>1, <3>1
  <2>2. CASE Fault /\ lost' = [lost EXCEPT !.push = TRUE]
    BY <1>2, <2>2, FaultCounted DEF Losses
  <2> QED BY <2>1, <2>2 DEF EnqueueIndex
<1>7. \A c \in Deliveries : job[c].pc \in Starting \/ job'[c].pc \in Starting => c = d
  BY <1>1, <1>5 DEF IndexHeld, JobStep, Starting
<1>8. fullIndex.status = "running" \/ operator = "done" \/ lost.push
  BY <1>2 DEF IndexHeld
<1>9. index # None => index.state \notin {"warning", "cancelled"}
  BY <1>1 DEF IndexHeld, Starting
<1>10. IndexHeld'
  BY <1>1, <1>4, <1>5, <1>6, <1>7, <1>8, <1>9 DEF IndexHeld, At, Starting
<1> QED BY <1>1, <1>4, <1>5, <1>6, <1>10, IndexFrame DEF Types, Running, Syncing, Starting

LEMMA UnqueuedIndexKeeps ==
  ASSUME IInv, NEW d \in Deliveries, UnqueuedIndex(d)
  PROVE  IInv'
<1> USE DEF IInv
<1>1. /\ job[d].pc = "unpushed" /\ SetIndex("failed")
      /\ UNCHANGED <<api, pickers, sync, syncs, operator>>
  BY DEF UnqueuedIndex, At
<1>2. JobStep(d) /\ job'[d].pc = "fail"
  BY <1>1, GotoStep DEF UnqueuedIndex, api, Running
<1>3. fullIndex \in IndexRuns /\ fullIndex.runs = 1 /\ lost.push /\ lost \in Losses
      /\ faults \in 0..MaxFaults
  BY <1>1 DEF IndexHeld, Types, At
<1>4. /\ index' \in [state : IndexStates] \cup {None}
      /\ index' # None => index'.state \notin {"warning", "cancelled"}
  BY <1>1, SetIndexStep
<1>5. fullIndex' \in {fullIndex, [fullIndex EXCEPT !.status = "failed"]}
  BY DEF UnqueuedIndex
<1>6. fullIndex' \in IndexRuns /\ fullIndex'.runs = 1
  BY <1>3, <1>5 DEF IndexRuns, Recorded
<1>7. lost' \in Losses /\ lost'.redone = lost.redone /\ lost'.push
  BY <1>3 DEF UnqueuedIndex, Losses
<1>8. faults' \in 0..MaxFaults
  BY <1>3, FaultCounted DEF UnqueuedIndex
<1>9. \A c \in Deliveries : job'[c].pc \notin Starting
  BY <1>1, <1>2 DEF IndexHeld, JobStep, Starting
<1>10. IndexHeld'
  BY <1>1, <1>4, <1>6, <1>7, <1>9 DEF IndexHeld, At, Starting
<1> QED BY <1>1, <1>2, <1>4, <1>6, <1>7, <1>8, <1>10, IndexFrame
        DEF Types, Running, Syncing, Starting

-------------------------------------------------------------------------------
(* The job of the full index, the operator, and time.                      *)

LEMMA OperatorFrame ==
  ASSUME IInv, UNCHANGED <<api, job, pickers, sync, index, syncs>>,
         fullIndex' \in IndexRuns, operator' \in {"idle", "read", "done"},
         lost' \in Losses, lost'.redone = lost.redone, faults' \in 0..MaxFaults, IndexHeld'
  PROVE  IInv'
<1> USE DEF IInv, api
<1>1. Updates' = Updates /\ Pages' = Pages /\ Sessions' = Sessions /\ Losses' = Losses
      /\ JobRecords' = JobRecords
  BY DEF Updates, Pages, UpdateOf, ButtonOf, Sessions, Losses, JobRecords
<1>2. Types'
  BY <1>1 DEF Types
<1>3. Claims'
  BY DEF Claims, OwnsRow, Unsettled, UpdateOf
<1>4. SyncHeld'
  BY DEF SyncHeld, At
<1> QED BY <1>2, <1>3, <1>4

LEMMA IndexJobKeeps ==
  ASSUME IInv, RunIndex \/ FinishIndex \/ CrashIndex
  PROVE  IInv'
<1> USE DEF IInv
<1>1. /\ fullIndex.job \in {"queued", "running"}
      /\ UNCHANGED <<api, job, pickers, sync, index, syncs, operator>>
  BY DEF RunIndex, FinishIndex, CrashIndex, redis
<1>2. fullIndex \in IndexRuns /\ fullIndex.runs # 0 /\ lost \in Losses
      /\ faults \in 0..MaxFaults /\ operator \in {"idle", "read", "done"}
  BY <1>1 DEF Types, IndexHeld
<1>3. fullIndex' \in IndexRuns /\ fullIndex'.runs = fullIndex.runs
      /\ fullIndex'.job \in {"running", "done", "dead"}
      /\ (fullIndex'.job = "running" => fullIndex'.status = fullIndex.status)
  BY <1>2 DEF RunIndex, FinishIndex, CrashIndex, IndexRuns, Recorded
<1>4. lost' \in Losses /\ lost'.redone = lost.redone /\ lost'.push = lost.push
  BY <1>2 DEF RunIndex, FinishIndex, CrashIndex, Losses
<1>5. faults' \in 0..MaxFaults
  BY <1>2, FaultCounted DEF RunIndex, FinishIndex, CrashIndex
<1>6. IndexHeld'
  BY <1>1, <1>2, <1>3, <1>4 DEF IndexHeld, At, IndexRuns
<1> QED BY <1>1, <1>2, <1>3, <1>4, <1>5, <1>6, OperatorFrame

LEMMA ReconcileKeeps ==
  ASSUME IInv, ReconcileRead \/ ReconcileWrite
  PROVE  IInv'
<1> USE DEF IInv
<1>1. /\ operator' \in {"read", "done"} /\ (operator = "done" => operator' = "done")
      /\ UNCHANGED <<api, job, pickers, sync, index, syncs, lost, faults>>
  BY DEF ReconcileRead, ReconcileWrite, redis
<1>2. fullIndex \in IndexRuns /\ fullIndex.runs # 0
  BY UpdatesAssumption DEF ReconcileRead, ReconcileWrite, Types, IndexHeld
<1>3. fullIndex' \in IndexRuns /\ fullIndex'.runs = fullIndex.runs
      /\ fullIndex'.job = fullIndex.job
      /\ (operator' = "done" \/ fullIndex' = fullIndex)
  BY <1>2 DEF ReconcileRead, ReconcileWrite, IndexRuns, Recorded
<1>4. IndexHeld'
  BY <1>1, <1>2, <1>3 DEF IndexHeld, At
<1> QED BY <1>1, <1>3, <1>4, OperatorFrame DEF Types

LEMMA ExpireKeeps ==
  ASSUME IInv, Expire
  PROVE  IInv'
<1> USE DEF IInv, api, runs
<1>1. /\ sync' \in {sync, None} /\ index' \in {index, None}
      /\ UNCHANGED <<api, job, pickers, runs, lost>>
  BY DEF Expire
<1>2. faults' \in 0..MaxFaults
  BY FaultCounted DEF Expire
<1>3. Updates' = Updates /\ Pages' = Pages /\ Sessions' = Sessions /\ Losses' = Losses
      /\ JobRecords' = JobRecords
  BY <1>1 DEF Updates, Pages, UpdateOf, ButtonOf, Sessions, Losses, JobRecords
<1>4. Types'
  BY <1>1, <1>2, <1>3 DEF Types
<1>5. Claims'
  BY <1>1 DEF Claims, OwnsRow, Unsettled, UpdateOf
<1>6. SyncHeld'
  BY <1>1 DEF SyncHeld, At
<1>7. IndexHeld'
  BY <1>1 DEF IndexHeld, At
<1> QED BY <1>4, <1>5, <1>6, <1>7

-------------------------------------------------------------------------------
LEMMA NextKeeps ==
  ASSUME IInv, [Next]_vars
  PROVE  IInv'
<1>1. CASE UNCHANGED vars
  <2>1. UNCHANGED <<api, job, pickers, sync, index, syncs, fullIndex, operator, lost, faults>>
    BY <1>1 DEF vars, redis, runs
  <2>2. IndexHeld'
    BY <2>1 DEF IInv, IndexHeld, At
  <2> QED BY <2>1, <2>2, OperatorFrame DEF IInv, Types
<1>2. ASSUME NEW d \in Deliveries, Receive(d) \/ Api(d) \/ CrashApi(d) PROVE IInv'
  BY <1>2, ReceiveKeeps, InsertKeeps, EnqueueKeeps, GivingUpKeeps DEF Api
<1>3. ASSUME NEW d \in Deliveries, Act(d) PROVE IInv'
  BY <1>3, ToggleKeeps, ConfirmKeeps, SyncPagesKeeps, CompleteSyncKeeps, CancelSyncKeeps,
     ConfirmIndexKeeps, CancelIndexKeeps, StartIndexKeeps, MarkIndexQueuedKeeps,
     EnqueueIndexKeeps, UnqueuedIndexKeeps DEF Act
<1>4. ASSUME NEW d \in Deliveries, Work(d) \/ CrashJob(d) PROVE IInv'
  BY <1>3, <1>4, QuietJobsKeep DEF Work
<1>5. CASE IndexJob \/ CrashIndex \/ ReconcileRead \/ ReconcileWrite \/ Expire
  BY <1>5, IndexJobKeeps, ReconcileKeeps, ExpireKeeps DEF IndexJob
<1> QED BY <1>1, <1>2, <1>4, <1>5 DEF Next

LEMMA InvariantHolds == Spec => []IInv
BY InitIInv, NextKeeps, PTL DEF Spec

-------------------------------------------------------------------------------
(* Rows and records have the states the code assigns, a session never has  *)
(* more pages than its limit, and no job runs more often than RQ retries:  *)
(* toggle_page and the retries of a webhook job.                           *)
THEOREM TypeCorrect == Spec => []TypeOK
<1>1. IInv => TypeOK
  BY DEF IInv, Types, TypeOK, Recorded, Sessions, JobRecords, IndexRuns
<1> QED BY <1>1, InvariantHolds, PTL

(* However often an update is delivered, a button tapped and a job run     *)
(* again, in any interleaving and with any crashes: one job per update, at *)
(* most one synchronisation per session, of the pages the session names    *)
(* and none after a cancellation, and at most one full index.              *)
THEOREM ActsOnce == Spec => []OncePerSession
<1>1. IInv => OncePerSession
  <2> SUFFICES ASSUME IInv PROVE OncePerSession
    OBVIOUS
  <2>1. \A c, d \in Deliveries :
          job[c] # NoJob /\ job[d] # NoJob /\ UpdateOf(c) = UpdateOf(d) => c = d
    BY DEF IInv, Claims, OwnsRow
  <2>2. index # None /\ index.state = "cancelled" => fullIndex.runs = 0
    BY DEF IInv, IndexHeld, Types, IndexRuns
  <2>3. sync # None /\ syncs # <<>> => syncs[1] = sync.selected
    BY DEF IInv, SyncHeld
  <2>4. sync # None /\ sync.state = "cancelled" => syncs = <<>>
    BY DEF IInv, SyncHeld
  <2> QED BY <2>1, <2>2, <2>3, <2>4 DEF OncePerSession, IInv, SyncHeld, IndexHeld, Syncing
<1> QED BY <1>1, InvariantHolds, PTL

(* A row of the ledger is written by the delivery that inserted it or by   *)
(* the job of that delivery, while it is running or was handed out again.  *)
LEMMA LedgerStep ==
  ASSUME IInv, Next, NEW u \in Updates, ledger'[u] # ledger[u]
  PROVE  ledger[u] \in {None, "running"} \/ u \in lost.redone
<1> USE DEF IInv
<1>1. ~UNCHANGED ledger
  OBVIOUS
<1>2. PICK d \in Deliveries :
        Insert(d) \/ Unqueued(d) \/ Audit(d) \/ Succeed(d) \/ Fail(d)
  BY <1>1 DEF Next, Receive, Api, Enqueue, CrashApi, Work, Act, CrashJob, ClaimCallback, Toggle,
     Confirm, SyncPages, CompleteSync, CancelSync, ConfirmIndex, CancelIndex, StartIndex,
     MarkIndexQueued, EnqueueIndex, UnqueuedIndex, Reply, Return, IndexJob, RunIndex,
     FinishIndex, CrashIndex, ReconcileRead, ReconcileWrite, Expire, api
<1>3. PICK status \in Recorded : MarkUpdate(d, status)
  BY <1>1, <1>2 DEF Insert, Unqueued, Audit, Succeed, Fail, Recorded
<1>4. u = UpdateOf(d)
  BY <1>3 DEF MarkUpdate, Types
<1>5. CASE Insert(d)
  BY <1>1, <1>4, <1>5 DEF Insert
<1>6. CASE Unqueued(d) \/ Audit(d) \/ Succeed(d) \/ Fail(d)
  <2>1. Unsettled(d)
    BY <1>6 DEF Unqueued, Audit, Succeed, Fail, At, Unsettled, Running
  <2> QED BY <1>4, <2>1 DEF Claims
<1> QED BY <1>2, <1>5, <1>6

(* The status of a full index is written by the job that starts it, by its *)
(* own job, and by the operator.                                           *)
LEMMA IndexStatusStep ==
  ASSUME IInv, Next, fullIndex'.status # fullIndex.status
  PROVE  fullIndex.status \notin {"succeeded", "failed"} \/ operator' = "done" \/ lost.push
<1> USE DEF IInv
<1>1. CASE \E d \in Deliveries : StartIndex(d)
  BY <1>1, UpdatesAssumption DEF StartIndex, At, IndexHeld
<1>2. CASE \E d \in Deliveries : EnqueueIndex(d)
  <2>1. fullIndex' \in {fullIndex, [fullIndex EXCEPT !.job = "queued"]}
    BY <1>2 DEF EnqueueIndex
  <2> QED BY <2>1 DEF Types, IndexRuns
<1>3. CASE \E d \in Deliveries : UnqueuedIndex(d)
  BY <1>3 DEF UnqueuedIndex, At, IndexHeld
<1>4. CASE FinishIndex \/ RunIndex \/ CrashIndex
  <2>1. fullIndex.job \in {"queued", "running"} /\ operator' = operator
    BY <1>4 DEF FinishIndex, RunIndex, CrashIndex
  <2>2. fullIndex.runs > 0
    BY <2>1 DEF IndexHeld, Types, IndexRuns
  <2> QED BY <2>1, <2>2 DEF IndexHeld
<1>5. CASE ReconcileWrite
  BY <1>5 DEF ReconcileWrite
<1> QED
  BY <1>1, <1>2, <1>3, <1>4, <1>5 DEF Next, Receive, Api, Insert, Enqueue, Unqueued, CrashApi,
     Work, Act, CrashJob, ClaimCallback, Toggle, Confirm, SyncPages, CompleteSync, CancelSync,
     ConfirmIndex, CancelIndex, MarkIndexQueued, Reply, Audit, Succeed, Fail, Return, IndexJob,
     ReconcileRead, Expire, runs

(* An outcome that was recorded stays: of an update, unless its work was   *)
(* handed out a second time, and of a full index, unless the operator has  *)
(* written or the push of its job had raised.                              *)
THEOREM RecordedOutcomesStay == Spec => OutcomesStay
<1>1. ASSUME IInv, [Next]_vars
      PROVE  [/\ \A u \in Updates :
                   ledger[u] \in {"succeeded", "failed"} /\ ledger'[u] # ledger[u]
                     => u \in lost.redone
              /\ fullIndex.status \in {"succeeded", "failed"} /\ fullIndex'.status # fullIndex.status
                   => operator' = "done" \/ lost.push]_vars
  BY <1>1, LedgerStep, IndexStatusStep, UpdatesAssumption
<1> QED BY <1>1, InvariantHolds, PTL DEF Spec, OutcomesStay
===============================================================================
