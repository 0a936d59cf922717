--------------------------- MODULE UploadSession ---------------------------
(***************************************************************************)
(* One Telegram media group, from its photos to the preview of the         *)
(* proposal made of them.  Every photo of the album is a webhook job of    *)
(* its own, and so is every command and every tap of the user; a settle    *)
(* job is enqueued for the moment the album falls quiet.  They meet in one *)
(* upload session in Redis, each of whose operations is atomic under the   *)
(* lock of the session, and in nothing else: a job that loses a claim      *)
(* answers and ends.  RQ runs a job again when its process died, but not   *)
(* when the gateway failed; nothing tells the second run what the first    *)
(* one did.                                                                *)
(***************************************************************************)
EXTENDS Integers, Sequences, FiniteSets

CONSTANTS
  Jobs,        \* webhook jobs: photos of the album, commands and taps
  Scenarios,   \* what the jobs may be: functions from Jobs to Kinds
  TargetOf,    \* [Jobs -> Notion pages], the page a job asks for
  MaxTries,    \* runs RQ gives a job (max_retries + 1)
  MaxFaults,   \* processes that die, jobs that break and sessions begun after one that expired
  None

Kinds == {"photo",   \* a photo without a caption
          "direct",  \* a photo captioned /ingest --page <page>
          "tap",     \* a button of the page picker
          "page",    \* /ingest --page <page>, without media
          "show",    \* /ingest
          "retry"}   \* /retry-proposal

States == {"collecting", "settled", "awaiting_target", "processing", "proposal_created", "failed"}
Targets == {TargetOf[j] : j \in Jobs}
Numbered == Nat \cup {None}  \* rows: sources and proposals, by their numbers
Sessions ==
  [state : States, atts : SUBSET Jobs, scheduled : BOOLEAN, version : Nat,
   target : Targets \cup {None}, source : Numbered, proposal : Numbered,
   reason : {None, "LLM_OUTPUT_INVALID", "OTHER", "PREVIEW_DELIVERY_FAILED"},
   preview : {"not_started", "sending", "succeeded", "failed"},
   receipt : BOOLEAN, picker : BOOLEAN]

ASSUME JobsAssumption ==
  /\ Scenarios \subseteq [Jobs -> Kinds] /\ MaxTries \in Nat \ {0} /\ MaxFaults \in Nat
  /\ None \notin Sessions \cup Targets \cup Nat \cup {"LLM_OUTPUT_INVALID"}

VARIABLES
  session,   \* the record in Redis, None before the first photo and after expiry
  job,       \* webhook jobs: where each is and what it holds
  settles,   \* settle jobs, in the order they were enqueued
  db,        \* committed sources (how many) and proposals
  sent,      \* messages the user has received from this session
  shown,     \* some page picker has reached the user
  life,      \* sessions the album has had
  faults,    \* spent of MaxFaults
  lost       \* claims of this session whose holder died, broke or could not go on

vars == <<session, job, settles, db, sent, shown, life, faults, lost>>

Idle(k) == [kind |-> k, pc |-> "queued", tries |-> 1, target |-> None, source |-> None, proposal |-> None]
Fresh == [state |-> "collecting", atts |-> {}, scheduled |-> FALSE, version |-> 0,
          target |-> None, source |-> None, proposal |-> None, reason |-> None,
          preview |-> "not_started", receipt |-> FALSE, picker |-> FALSE]
NothingSent == [receipts |-> 0, pickers |-> 0, previews |-> 0]
NothingLost == [settle |-> {}, picker |-> FALSE, work |-> FALSE, preview |-> FALSE]

Init ==
  /\ session = None /\ shown = FALSE /\ life = 0 /\ faults = 0
  /\ settles = <<>>
  /\ \E kinds \in Scenarios : job = [j \in Jobs |-> Idle(kinds[j])]
  /\ db = [sources |-> 0, proposals |-> <<>>]
  /\ sent = NothingSent /\ lost = NothingLost

At(j, pc) == job[j].pc = pc
Goto(j, pc) == job' = [job EXCEPT ![j].pc = pc]
Ended == {"done", "failed", "dead"}
Running(j) == job[j].pc \notin Ended \cup {"queued"}
Begun(j) == Running(j) \/ (At(j, "queued") /\ job[j].tries > 1)
Exists == session # None
In(states) == Exists /\ session.state \in states

----------------------------------------------------------------------------
(* Operations of the session store. *)

Upsert_KeepsSchedule(s, photo) ==  \* mutant: a new photo does not restart the quiet period
  IF s.state = "collecting" THEN [s EXCEPT !.atts = @ \cup {photo}] ELSE s

Upsert(s, photo) ==
  IF s.state = "collecting" /\ photo \notin s.atts
  THEN [s EXCEPT !.atts = @ \cup {photo}, !.scheduled = FALSE]
  ELSE s

MarkAwaiting_NoPicker(s) ==  \* mutant: picker_sent is not set
  IF s.state = "collecting" THEN [s EXCEPT !.state = "awaiting_target"] ELSE s

MarkAwaiting(s) ==
  IF s.state = "collecting" THEN [s EXCEPT !.state = "awaiting_target", !.picker = TRUE] ELSE s

MayClaimSettle(s) == s.state = "collecting" /\ ~s.scheduled
MayPromote(s, version) ==
  ~s.picker /\ s.state = "collecting" /\ s.scheduled /\ s.version = version
MayClaimPicker(s) ==
  ~s.picker /\ s.state \in {"collecting", "settled", "awaiting_target"}
ClaimedPicker(s) == [s EXCEPT !.state = "awaiting_target", !.picker = TRUE]

\* A proposal that failed on the provider's output is made again from its source.
Retryable(s) ==
  s.state = "failed" /\ s.reason = "LLM_OUTPUT_INVALID" /\ s.source # None

ClaimVerdict_NotExclusive(s) ==  \* mutant: "processing" is not asked for
  CASE s.state = "proposal_created" -> "already"
    [] Retryable(s) -> "retry"
    [] s.state \in {"awaiting_target", "processing"} -> "new"
    [] OTHER -> "invalid"

ClaimVerdict(s) ==
  CASE s.state = "proposal_created" -> "already"
    [] s.state = "processing" -> "in_progress"
    [] Retryable(s) -> "retry"
    [] s.state = "awaiting_target" -> "new"
    [] OTHER -> "invalid"

RetryVerdict(s) ==
  CASE s.state = "proposal_created" -> "already"
    [] s.state = "processing" -> "in_progress"
    [] Retryable(s) /\ s.target # None -> "retry"
    [] OTHER -> "invalid"
Claimed(s, target) ==
  [s EXCEPT !.state = "processing", !.target = target,
            !.reason = IF s.state = "failed" THEN None ELSE @]

MayClaimPreview(s) == s.preview \notin {"sending", "succeeded"}
FailUpload_KeepsState(s, reason) == [s EXCEPT !.reason = reason]  \* mutant
FailUpload(s, reason) == [s EXCEPT !.state = "failed", !.reason = reason]

----------------------------------------------------------------------------
(* A photo: store it, start the quiet period, acknowledge the album once.  *)

Store(j) ==
  /\ At(j, "queued") /\ job[j].kind \in {"photo", "direct"}
  /\ Goto(j, IF job[j].kind = "photo" THEN "claim_settle" ELSE "mark")
  /\ IF Exists
     THEN session' = Upsert(session, j) /\ UNCHANGED <<life, faults, sent, lost>>
     ELSE /\ life' = life + 1
          /\ IF life = 0 THEN UNCHANGED faults
             ELSE faults < MaxFaults /\ faults' = faults + 1
          /\ session' = Upsert(Fresh, j)
          /\ sent' = NothingSent /\ lost' = NothingLost
  /\ UNCHANGED <<settles, db, shown>>

ClaimSettle(j) ==
  /\ At(j, "claim_settle")
  /\ IF Exists /\ MayClaimSettle(session)
     THEN /\ session' = [session EXCEPT !.scheduled = TRUE, !.version = @ + 1]
          /\ Goto(j, "enqueue")
     ELSE Goto(j, "receipt") /\ UNCHANGED session
  /\ UNCHANGED <<settles, db, sent, shown, life, faults, lost>>

\* The version is read again: it may be that of a later photo by now.
Enqueue(j) ==
  /\ At(j, "enqueue") /\ Exists
  /\ \/ /\ settles' = Append(settles, [pc |-> "queued", tries |-> 1, life |-> life,
                                       version |-> session.version, saw |-> session.atts])
        /\ Goto(j, "receipt") /\ UNCHANGED lost
     \/ /\ Goto(j, "failed")
        /\ lost' = [lost EXCEPT !.settle = @ \cup {session.version}]
        /\ UNCHANGED settles
  /\ UNCHANGED <<session, db, sent, shown, life, faults>>

Receipt(j) ==
  /\ At(j, "receipt") /\ Goto(j, "done")
  /\ IF Exists /\ ~session.receipt
     THEN /\ session' = [session EXCEPT !.receipt = TRUE]
          /\ sent' = [sent EXCEPT !.receipts = @ + 1]
     ELSE UNCHANGED <<session, sent>>
  /\ UNCHANGED <<settles, db, shown, life, faults, lost>>

Mark(j) ==
  /\ At(j, "mark") /\ Exists
  /\ session' = MarkAwaiting(session) /\ Goto(j, "claim")
  /\ UNCHANGED <<settles, db, sent, shown, life, faults, lost>>

----------------------------------------------------------------------------
(* The settle job: promote the complete batch, then show the picker once.  *)

GotoSettle(k, pc) == settles' = [settles EXCEPT ![k].pc = pc]

Promote(k) ==
  /\ settles[k].pc = "queued"
  /\ IF Exists /\ MayPromote(session, settles[k].version)
     THEN /\ session' = [session EXCEPT !.state = "settled", !.scheduled = FALSE]
          /\ GotoSettle(k, "picker")
     ELSE /\ GotoSettle(k, IF Exists THEN "done" ELSE "failed")
          /\ UNCHANGED session
  /\ UNCHANGED <<job, db, sent, shown, life, faults, lost>>

ClaimPicker(k) ==
  /\ settles[k].pc = "picker" /\ Exists
  /\ IF MayClaimPicker(session)
     THEN session' = ClaimedPicker(session) /\ GotoSettle(k, "send")
     ELSE GotoSettle(k, "done") /\ UNCHANGED session
  /\ UNCHANGED <<job, db, sent, shown, life, faults, lost>>

\* A picker that cannot be built or sent ends the job without another try.
SendPicker(k) ==
  /\ settles[k].pc = "send"
  /\ \/ /\ GotoSettle(k, "done") /\ shown' = TRUE
        /\ sent' = [sent EXCEPT !.pickers = @ + 1]
     \/ GotoSettle(k, "failed") /\ UNCHANGED <<shown, sent>>
  /\ UNCHANGED <<session, job, db, life, faults, lost>>

----------------------------------------------------------------------------
(* Commands and taps: who may work on the session, and with which target.  *)

Show(j) ==
  /\ At(j, "queued") /\ job[j].kind = "show"
  /\ session' = IF Exists /\ MayClaimPicker(session) THEN ClaimedPicker(session) ELSE session
  /\ \/ Exists /\ shown' = TRUE /\ Goto(j, "done")
     \/ Goto(j, "failed") /\ UNCHANGED shown
  /\ UNCHANGED <<settles, db, sent, life, faults, lost>>

\* _validate_callback_action, before the tap is acknowledged.
Validate(j) ==
  /\ At(j, "queued") /\ job[j].kind = "tap" /\ shown
  /\ Goto(j, IF \/ In({"awaiting_target", "processing", "proposal_created"})
                \/ (Exists /\ Retryable(session))
             THEN "claim" ELSE "failed")
  /\ UNCHANGED <<session, settles, db, sent, shown, life, faults, lost>>

\* What a job does with the verdict of its claim.
AfterClaim(j, verdict, target) ==
  /\ session' = IF verdict \in {"new", "retry"} THEN Claimed(session, target) ELSE session
  /\ job' = [job EXCEPT ![j] =
       CASE verdict = "new" -> [@ EXCEPT !.pc = "ingest", !.target = target]
         [] verdict = "retry" -> [@ EXCEPT !.pc = "propose", !.target = target,
                                           !.source = session.source]
         [] verdict = "already" -> [@ EXCEPT !.pc = "preview", !.proposal = session.proposal]
         [] verdict = "in_progress" -> [@ EXCEPT !.pc = "done"]
         [] OTHER -> [@ EXCEPT !.pc = "failed"]]

ClaimTarget(j) ==
  /\ At(j, "claim") \/ (At(j, "queued") /\ job[j].kind = "page")
  /\ AfterClaim(j, IF Exists THEN ClaimVerdict(session) ELSE "missing", TargetOf[j])
  /\ UNCHANGED <<settles, db, sent, shown, life, faults, lost>>

ClaimRetry(j) ==
  /\ At(j, "queued") /\ job[j].kind = "retry"
  /\ IF Exists THEN AfterClaim(j, RetryVerdict(session), session.target)
     ELSE AfterClaim(j, "missing", None)
  /\ UNCHANGED <<settles, db, sent, shown, life, faults, lost>>

----------------------------------------------------------------------------
(* The work under a claim: download and OCR, proposal, preview.            *)

Ingest(j) ==
  /\ At(j, "ingest")
  /\ \/ /\ db' = [db EXCEPT !.sources = @ + 1]
        /\ job' = [job EXCEPT ![j].pc = "record", ![j].source = db.sources + 1]
        /\ UNCHANGED session
     \/ session' = FailUpload(session, "OTHER") /\ Goto(j, "failed") /\ UNCHANGED db
  /\ UNCHANGED <<settles, sent, shown, life, faults, lost>>

RecordSource(j) ==
  /\ At(j, "record") /\ Goto(j, "propose")
  /\ session' = [session EXCEPT !.source = job[j].source, !.target = job[j].target]
  /\ UNCHANGED <<settles, db, sent, shown, life, faults, lost>>

Propose(j) ==
  /\ At(j, "propose")
  /\ \/ /\ db' = [db EXCEPT !.proposals =
                    Append(@, [source |-> job[j].source, target |-> job[j].target])]
        /\ job' = [job EXCEPT ![j].pc = "proposal", ![j].proposal = Len(db.proposals) + 1]
        /\ UNCHANGED session
     \/ /\ \E reason \in {"LLM_OUTPUT_INVALID", "OTHER"} : session' = FailUpload(session, reason)
        /\ Goto(j, "failed") /\ UNCHANGED db
  /\ UNCHANGED <<settles, sent, shown, life, faults, lost>>

RecordProposal(j) ==
  /\ At(j, "proposal") /\ Goto(j, "preview")
  /\ session' = [session EXCEPT !.source = job[j].source, !.proposal = job[j].proposal,
                                !.target = job[j].target, !.state = "proposal_created"]
  /\ UNCHANGED <<settles, db, sent, shown, life, faults, lost>>

ClaimPreview(j) ==
  /\ At(j, "preview")
  /\ IF Exists /\ MayClaimPreview(session)
     THEN session' = [session EXCEPT !.preview = "sending"] /\ Goto(j, "send")
     ELSE Goto(j, "done") /\ UNCHANGED session
  /\ UNCHANGED <<settles, db, sent, shown, life, faults, lost>>

SendPreview(j) ==
  /\ At(j, "send")
  /\ \/ Goto(j, "delivered") /\ sent' = [sent EXCEPT !.previews = @ + 1]
     \/ Goto(j, "undelivered") /\ UNCHANGED sent
  /\ UNCHANGED <<session, settles, db, shown, life, faults, lost>>

CompletePreview(j) ==
  /\ \/ /\ At(j, "delivered") /\ Goto(j, "done")
        /\ session' = [session EXCEPT !.preview = "succeeded"]
     \/ /\ At(j, "undelivered") /\ Goto(j, "failed")
        /\ session' = [session EXCEPT !.preview = "failed", !.reason = "PREVIEW_DELIVERY_FAILED"]
  /\ UNCHANGED <<settles, db, sent, shown, life, faults, lost>>

----------------------------------------------------------------------------
(* Failures.  RQ runs a job again, from the start and as long as it has     *)
(* tries left, when its process died or its exception is not mapped (the   *)
(* audit cannot be updated, a settle job has lost Redis).  Any other error *)
(* of a webhook job the gateway maps: the job returns "failed", and nobody *)
(* runs it again.                                                          *)

Working == {"ingest", "record", "propose", "proposal"}
Again(tries) == IF tries < MaxTries THEN "queued" ELSE "dead"

\* The photo is stored, and its job ends for good before it claims the settle job.
Stranded(j) ==
  /\ job[j].pc \in {"queued", "claim_settle", "mark"}
  /\ Exists /\ j \in session.atts /\ MayClaimSettle(session)
LostBy(j, pc) ==
  CASE At(j, "enqueue") \/ (pc \in Ended /\ Stranded(j)) ->
         [lost EXCEPT !.settle = @ \cup {session.version}]
    [] job[j].pc \in Working -> [lost EXCEPT !.work = TRUE]
    [] job[j].pc \in {"send", "delivered", "undelivered"} -> [lost EXCEPT !.preview = TRUE]
    [] OTHER -> lost

Crash(j) ==
  /\ Running(j) /\ faults < MaxFaults /\ faults' = faults + 1
  /\ job' = [job EXCEPT ![j] = [Idle(@.kind) EXCEPT !.pc = Again(job[j].tries), !.tries = job[j].tries + 1]]
  /\ lost' = LostBy(j, Again(job[j].tries))
  /\ UNCHANGED <<session, settles, db, sent, shown, life>>

Breaks(j) ==
  /\ Begun(j) /\ faults < MaxFaults /\ faults' = faults + 1
  /\ Goto(j, "failed") /\ lost' = LostBy(j, "failed")
  /\ UNCHANGED <<session, settles, db, sent, shown, life>>

CrashSettle(k) ==
  /\ settles[k].pc \in {"queued", "picker", "send"} /\ faults < MaxFaults /\ faults' = faults + 1
  /\ settles' = [settles EXCEPT ![k].pc = Again(settles[k].tries), ![k].tries = @ + 1]
  /\ lost' = CASE settles[k].pc # "queued" -> [lost EXCEPT !.picker = TRUE]
               [] settles[k].tries >= MaxTries /\ settles[k].life = life ->
                    [lost EXCEPT !.settle = @ \cup {settles[k].version}]
               [] OTHER -> lost
  /\ UNCHANGED <<session, job, db, sent, shown, life>>

\* Ten minutes without a write; a job lives three at most, so none is at work.
Expire ==
  /\ Exists /\ \A j \in Jobs : ~Running(j)
  /\ \A k \in DOMAIN settles : settles[k].pc \notin {"picker", "send"}
  /\ session' = None
  /\ UNCHANGED <<job, settles, db, sent, shown, life, faults, lost>>

----------------------------------------------------------------------------
PhotoStep(j) == Store(j) \/ ClaimSettle(j) \/ Enqueue(j) \/ Receipt(j) \/ Mark(j)
SettleStep(k) == Promote(k) \/ ClaimPicker(k) \/ SendPicker(k)
Command(j) == Show(j) \/ Validate(j) \/ ClaimTarget(j) \/ ClaimRetry(j)
Work(j) ==
  \/ Ingest(j) \/ RecordSource(j) \/ Propose(j) \/ RecordProposal(j)
  \/ ClaimPreview(j) \/ SendPreview(j) \/ CompletePreview(j)

Next ==
  \/ \E j \in Jobs : PhotoStep(j) \/ Command(j) \/ Work(j) \/ Crash(j) \/ Breaks(j)
  \/ \E k \in DOMAIN settles : SettleStep(k) \/ CrashSettle(k)
  \/ Expire

\* A worker goes on with a job it began, runs again what RQ put back, and takes
\* the settle jobs of its queue.  Nothing makes the user send a photo or tap, and
\* nothing makes a session expire.
MaxSettles == Cardinality(Jobs) * MaxTries
Fairness ==
  /\ \A j \in Jobs : WF_vars(Begun(j) /\ (PhotoStep(j) \/ Command(j) \/ Work(j)))
  /\ \A k \in 1..MaxSettles : WF_vars(k \in DOMAIN settles /\ SettleStep(k))

Spec == Init /\ [][Next]_vars /\ Fairness

----------------------------------------------------------------------------
(* Properties. *)

\* The session has one of the states the store assigns ("settling" it only reads),
\* the picker is claimed exactly when the album is past "settled", and a session
\* somebody works on or that has a proposal knows its target.
TypeOK ==
  /\ session \in Sessions \cup {None}
  /\ Exists =>
       /\ session.picker <=> session.state \notin {"collecting", "settled"}
       /\ session.scheduled => session.state # "settled"
       /\ session.state \in {"processing", "proposal_created"} => session.target # None
       /\ session.proposal # None <=> session.state = "proposal_created"
  /\ \A k \in DOMAIN settles : settles[k].tries \in 1..MaxTries + 1
  /\ life \in 0..MaxFaults + 1

\* A settle job promotes exactly the photos that were stored when it was enqueued:
\* a photo that came later has taken the session away from it.
SettlesWhatItSaw ==
  [][\A k \in DOMAIN settles :
       settles[k].pc = "queued" /\ settles'[k].pc = "picker" /\ settles[k].life = life
         => session.atts = settles[k].saw]_vars

\* However the jobs of one album interleave, crash and are run again: one of them
\* at most works on it, only while the session says so; it is ingested once, its
\* source gets one proposal, for the page the session names; and the user gets
\* one receipt, one picker for the settled album and one preview.
WorkOnce ==
  /\ \A j \in Jobs : job[j].pc \in Working => In({"processing"})
  /\ \A i, j \in Jobs : job[i].pc \in Working /\ job[j].pc \in Working => i = j
  /\ db.sources <= life
  /\ \A a, b \in DOMAIN db.proposals :
       db.proposals[a].source = db.proposals[b].source => a = b
  /\ In({"proposal_created"}) =>
       db.proposals[session.proposal] = [source |-> session.source, target |-> session.target]
  /\ sent.receipts <= 1 /\ sent.pickers <= 1 /\ sent.previews <= 1

\* No claim on the session is held for ever: an album that collects settles, a
\* settled one gets its picker, work and delivery end, unless the very holder of
\* the claim died or broke (for an album, of the settle job of its last photo):
\* then nobody does, and the claim stays until the session expires.
ClaimsEnd ==
  /\ In({"collecting"}) ~> ~In({"collecting"}) \/ session.version \in lost.settle
  /\ In({"settled"}) ~> ~In({"settled"}) \/ lost.picker
  /\ In({"processing"}) ~> ~In({"processing"}) \/ lost.work
  /\ (Exists /\ session.preview = "sending") ~>
       ~(Exists /\ session.preview = "sending") \/ lost.preview
=============================================================================
