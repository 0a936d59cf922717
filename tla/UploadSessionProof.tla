--------------------------- MODULE UploadSessionProof ---------------------------
(***************************************************************************)
(* Proofs about UploadSession, for any photos, commands and taps, in any   *)
(* number, with any number of crashes and sessions.  What one job may do   *)
(* rests on what the others can no longer do: the invariant says of every  *)
(* place of a job what the session says of it meanwhile (Present, Worked), *)
(* what the states of the session imply (Album), what is left to be sent   *)
(* (Told) and how a settle job knows the photos it saw (Versions).         *)
(***************************************************************************)
EXTENDS UploadSession, TLAPS, SequenceTheorems

Sending == {"send", "delivered", "undelivered"}
Previewing == {"preview"} \cup Sending
Photographed == {"claim_settle", "enqueue", "receipt", "mark", "claim"}
Open == {"collecting", "settled", "awaiting_target"}
Settling == {"picker", "send"}
Reasons == {None, "LLM_OUTPUT_INVALID", "OTHER", "PREVIEW_DELIVERY_FAILED"}

JobRecords ==
  [kind : Kinds, pc : {"queued"} \cup Photographed \cup Working \cup Previewing \cup Ended,
   tries : 1..MaxTries + 1, target : Targets \cup {None}, source : Numbered,
   proposal : Numbered]
SettleRecords ==
  [pc : {"queued", "done", "failed", "dead"} \cup Settling, tries : 1..MaxTries + 1,
   life : Nat, version : Nat, saw : SUBSET Jobs]

Types ==
  /\ session \in Sessions \cup {None}
  /\ job \in [Jobs -> JobRecords]
  /\ \A j \in Jobs : job[j].pc # "dead" => job[j].tries <= MaxTries
  /\ settles \in Seq(SettleRecords)
  /\ \A k \in DOMAIN settles : settles[k].pc # "dead" => settles[k].tries <= MaxTries
  /\ db \in [sources : Nat, proposals : Seq([source : Nat, target : Targets \cup {None}])]
  /\ sent \in [receipts : Nat, pickers : Nat, previews : Nat]
  /\ life \in Nat /\ life <= faults + 1 /\ faults \in 0..MaxFaults

(* A session does not expire under a job.                                  *)
Present ==
  /\ \A j \in Jobs : Running(j) => Exists
  /\ \A k \in DOMAIN settles : settles[k].pc \in Settling => Exists

Album ==
  Exists =>
    /\ session.picker <=> session.state \notin {"collecting", "settled"}
    /\ session.scheduled => session.state # "settled"
    /\ session.state \in {"processing", "proposal_created"} => session.target # None
    /\ session.proposal # None <=> session.state = "proposal_created"

Proposed(source) ==
  \E a \in DOMAIN db.proposals : db.proposals[a].source = source

(* The work: a source for every session at most, a proposal for every      *)
(* source at most; a job at work has the session to itself.                *)
Worked ==
  /\ \A i, j \in Jobs : job[i].pc \in Working /\ job[j].pc \in Working => i = j
  /\ \A j \in Jobs :
       /\ job[j].pc \in Working => session.state = "processing" /\ job[j].target # None
       /\ job[j].pc \in Previewing => session.state = "proposal_created"
       /\ At(j, "ingest") => db.sources < life
       /\ job[j].pc \in {"record", "propose", "proposal"} => job[j].source \in 1..db.sources
       /\ job[j].pc \in {"record", "propose"} => ~Proposed(job[j].source)
       /\ At(j, "propose") => session.source = job[j].source
       /\ At(j, "proposal") =>
            /\ job[j].proposal \in DOMAIN db.proposals
            /\ db.proposals[job[j].proposal] = [source |-> job[j].source, target |-> job[j].target]
  /\ db.sources <= life
  /\ \A a \in DOMAIN db.proposals : db.proposals[a].source \in 1..db.sources
  /\ \A a, b \in DOMAIN db.proposals : db.proposals[a].source = db.proposals[b].source => a = b
  /\ In(Open) => db.sources < life
  /\ Exists /\ Retryable(session) => session.source \in 1..db.sources /\ ~Proposed(session.source)
  /\ In({"proposal_created"}) =>
       /\ session.proposal \in DOMAIN db.proposals
       /\ db.proposals[session.proposal] = [source |-> session.source, target |-> session.target]

(* What was sent was claimed, and what may be claimed was not sent.        *)
Told ==
  /\ sent.receipts <= 1 /\ sent.pickers <= 1 /\ sent.previews <= 1
  /\ Exists =>
       /\ ~session.receipt => sent.receipts = 0
       /\ ~session.picker => sent.pickers = 0
       /\ session.preview \in {"not_started", "failed"} => sent.previews = 0
  /\ \A k \in DOMAIN settles : settles[k].pc = "send" => session.picker /\ sent.pickers = 0
  /\ \A k, l \in DOMAIN settles : settles[k].pc = "send" /\ settles[l].pc = "send" => k = l
  /\ \A j \in Jobs :
       /\ job[j].pc \in Sending => session.preview = "sending"
       /\ job[j].pc \in {"send", "undelivered"} => sent.previews = 0
  /\ \A i, j \in Jobs : job[i].pc \in Sending /\ job[j].pc \in Sending => i = j

(* A settle job of this session has its version, or an older one; with the *)
(* current one, and as long as that is scheduled, it saw every photo.      *)
Versions ==
  \A k \in DOMAIN settles :
    /\ settles[k].life <= life
    /\ Exists /\ settles[k].life = life =>
         /\ settles[k].version <= session.version
         /\ settles[k].version = session.version /\ session.scheduled =>
              session.atts = settles[k].saw

IInv == Types /\ Present /\ Album /\ Worked /\ Told /\ Versions

-------------------------------------------------------------------------------
LEMMA InitIInv == Init => IInv
<1> SUFFICES ASSUME Init PROVE IInv
  OBVIOUS
<1>1. PICK kinds \in Scenarios : job = [j \in Jobs |-> Idle(kinds[j])]
  BY DEF Init
<1>2. \A j \in Jobs : kinds[j] \in Kinds
  BY JobsAssumption
<1>3. 1 \in 1..MaxTries + 1 /\ 1 <= MaxTries
  BY JobsAssumption
<1>4. \A j \in Jobs : Idle(kinds[j]) \in JobRecords
  BY <1>2, <1>3 DEF Idle, JobRecords, Numbered
<1>5. \A j \in Jobs : job[j].pc = "queued" /\ job[j].tries = 1
  BY <1>1 DEF Idle
<1>6. session = None /\ settles = <<>> /\ db.sources = 0 /\ db.proposals = <<>>
  BY DEF Init
<1>7. Types
  <2>1. job \in [Jobs -> JobRecords]
    BY <1>1, <1>4
  <2>2. db \in [sources : Nat, proposals : Seq([source : Nat, target : Targets \cup {None}])]
    BY DEF Init
  <2>3. settles \in Seq(SettleRecords) /\ DOMAIN settles = {}
    BY <1>6
  <2>4. sent \in [receipts : Nat, pickers : Nat, previews : Nat]
    BY DEF Init, NothingSent
  <2>5. life \in Nat /\ life <= faults + 1 /\ faults \in 0..MaxFaults
    BY JobsAssumption DEF Init
  <2> QED BY <1>3, <1>5, <1>6, <2>1, <2>2, <2>3, <2>4, <2>5 DEF Types
<1>8. Present /\ Album /\ Versions
  BY <1>5, <1>6 DEF Present, Album, Versions, Running, Exists
<1>9. Worked
  <2>1. DOMAIN db.proposals = {} /\ db.sources <= life
    BY <1>6 DEF Init
  <2> QED BY <1>5, <1>6, <2>1 DEF Worked, Working, Previewing, Sending, At, In, Exists
<1>10. Told
  BY <1>5, <1>6 DEF Init, Told, Sending, NothingSent, Exists
<1> QED BY <1>7, <1>8, <1>9, <1>10 DEF IInv

-------------------------------------------------------------------------------
(* What a step leaves of the invariant.                                    *)

JobStep(j) ==
  /\ job' \in [Jobs -> JobRecords]
  /\ \A i \in Jobs \ {j} : job'[i] = job[i]
  /\ job'[j].pc # "dead" => job'[j].tries <= MaxTries

SettleMove(k) ==
  /\ settles' \in Seq(SettleRecords) /\ DOMAIN settles' = DOMAIN settles
  /\ \A l \in DOMAIN settles : settles'[l].pc # "dead" => settles'[l].tries <= MaxTries
  /\ \A l \in DOMAIN settles \ {k} : settles'[l] = settles[l]
  /\ settles'[k].life = settles[k].life /\ settles'[k].version = settles[k].version
  /\ settles'[k].saw = settles[k].saw

(* The session keeps what its work reads and writes, or is open to all     *)
(* before and after.                                                       *)
SameWork ==
  \/ session.state \in Open /\ session'.state \in Open
  \/ /\ session'.state = session.state /\ session'.reason = session.reason
     /\ session'.source = session.source /\ session'.target = session.target
     /\ session'.proposal = session.proposal

SamePhotos ==
  \/ /\ session'.version = session.version
     /\ session'.scheduled => session.scheduled /\ session'.atts = session.atts
  \/ session'.version = session.version + 1

LEMMA SettleShape ==
  ASSUME Types
  PROVE  \A k \in DOMAIN settles : settles[k] \in SettleRecords
BY ElementOfSeq, LenProperties DEF Types

LEMMA WorkedKept ==
  ASSUME Worked, UNCHANGED <<db, life>>,
         \A i \in Jobs : job'[i].pc \in Working \cup Previewing => job'[i] = job[i],
         \/ UNCHANGED session
         \/ session \in Sessions /\ session' \in Sessions /\ SameWork
  PROVE  Worked'
<1> USE DEF Worked, At, In, Exists, Proposed, Working, Previewing, Sending, Open
<1>1. CASE UNCHANGED session
  BY <1>1 DEF Retryable
<1>2. CASE session \in Sessions /\ session' \in Sessions /\ SameWork
  <2>1. session # None /\ session' # None
    BY <1>2, JobsAssumption
  <2>2. CASE session.state \in Open /\ session'.state \in Open
    BY <1>2, <2>1, <2>2 DEF Retryable
  <2>3. CASE session.state \notin Open \/ session'.state \notin Open
    BY <1>2, <2>1, <2>3 DEF Retryable, SameWork
  <2> QED BY <2>2, <2>3
<1> QED BY <1>1, <1>2

LEMMA ToldKept ==
  ASSUME Told, UNCHANGED sent,
         \A k \in DOMAIN settles' :
           settles'[k].pc = "send" => k \in DOMAIN settles /\ settles[k].pc = "send",
         \A i \in Jobs : job'[i].pc \in Sending => job[i].pc = job'[i].pc,
         \/ UNCHANGED session
         \/ /\ session \in Sessions /\ session' \in Sessions
            /\ session'.receipt = session.receipt /\ session'.preview = session.preview
            /\ session.picker => session'.picker
  PROVE  Told'
<1> USE JobsAssumption DEF Told, Exists, Sending
<1>1. CASE UNCHANGED session
  BY <1>1
<1>2. CASE ~UNCHANGED session
  BY <1>2
<1> QED BY <1>1, <1>2

LEMMA VersionsKept ==
  ASSUME Types, Versions, UNCHANGED life,
         \A k \in DOMAIN settles' :
           /\ k \in DOMAIN settles /\ settles'[k].life = settles[k].life
           /\ settles'[k].version = settles[k].version /\ settles'[k].saw = settles[k].saw,
         \/ UNCHANGED session \/ session' = None
         \/ session \in Sessions /\ session' \in Sessions /\ SamePhotos
  PROVE  Versions'
<1> USE DEF Versions, Exists
<1>1. CASE UNCHANGED session \/ session' = None
  BY <1>1
<1>2. CASE session \in Sessions /\ session' \in Sessions /\ SamePhotos
  <2>1. session # None /\ session.version \in Nat
    BY <1>2, JobsAssumption DEF Sessions
  <2>2. \A k \in DOMAIN settles : settles[k].version \in Nat
    BY SettleShape DEF SettleRecords
  <2> QED BY <1>2, <2>1, <2>2 DEF SamePhotos
<1> QED BY <1>1, <1>2

(* A job that is refused, or ends, or goes on without touching the work.   *)
LEMMA MoveKeeps ==
  ASSUME IInv, NEW j \in Jobs, JobStep(j), UNCHANGED <<settles, db, sent, life>>,
         faults <= faults', faults' \in 0..MaxFaults,
         job'[j].pc \notin Working \cup Previewing,
         \/ UNCHANGED session /\ (Exists \/ job'[j].pc \in Ended)
         \/ /\ session \in Sessions /\ session' \in Sessions /\ Album'
            /\ SameWork /\ SamePhotos
            /\ session'.receipt = session.receipt /\ session'.preview = session.preview
            /\ session.picker => session'.picker
  PROVE  IInv'
<1> USE DEF IInv
<1>1. \A i \in Jobs : job'[i].pc \in Working \cup Previewing => job'[i] = job[i]
  BY DEF JobStep
<1>2. Worked'
  BY <1>1, WorkedKept
<1>3. Told'
  BY <1>1, ToldKept DEF Previewing
<1>4. Versions'
  BY VersionsKept
<1>5. Types'
  <2>1. life' \in Nat /\ life' <= faults' + 1
    BY JobsAssumption DEF Types
  <2> QED BY <2>1 DEF Types, JobStep
<1>6. Present' /\ Album'
  <2>1. CASE UNCHANGED session /\ (Exists \/ job'[j].pc \in Ended)
    BY <2>1 DEF Present, Running, Exists, Album, JobStep
  <2>2. CASE session \in Sessions /\ session' \in Sessions /\ Album'
    BY <2>2, JobsAssumption DEF Present, Exists
  <2> QED BY <2>1, <2>2
<1> QED BY <1>2, <1>3, <1>4, <1>5, <1>6

LEMMA GotoStep ==
  ASSUME Types, NEW j \in Jobs, job[j].pc # "dead",
         NEW pc \in Photographed \cup Working \cup Previewing \cup Ended, Goto(j, pc)
  PROVE  JobStep(j) /\ job'[j] = [job[j] EXCEPT !.pc = pc] /\ job'[j].pc = pc
<1>1. job[j] \in JobRecords /\ job[j].tries <= MaxTries
  BY DEF Types
<1>2. [job[j] EXCEPT !.pc = pc] \in JobRecords
  BY <1>1 DEF JobRecords
<1>3. [job[j] EXCEPT !.pc = pc].pc = pc /\ [job[j] EXCEPT !.pc = pc].tries = job[j].tries
  BY <1>1 DEF JobRecords
<1> QED BY <1>1, <1>2, <1>3 DEF Goto, JobStep, Types

LEMMA ClaimSettleKeeps ==
  ASSUME IInv, NEW j \in Jobs, ClaimSettle(j)
  PROVE  IInv'
<1> USE DEF IInv
<1>1. /\ job[j].pc = "claim_settle" /\ Exists
      /\ UNCHANGED <<settles, db, sent, life, faults>>
  BY DEF ClaimSettle, At, Present, Running, Ended
<1>2. JobStep(j) /\ job'[j].pc \in {"enqueue", "receipt"}
  BY <1>1, GotoStep DEF ClaimSettle, Photographed
<1>3. faults <= faults' /\ faults' \in 0..MaxFaults /\ session \in Sessions
  BY <1>1 DEF Types, Exists
<1>4. CASE MayClaimSettle(session)
  <2>1. session' = [session EXCEPT !.scheduled = TRUE, !.version = @ + 1]
    BY <1>1, <1>4 DEF ClaimSettle
  <2>2. session.version \in Nat /\ session.version + 1 \in Nat
    BY <1>3 DEF Sessions
  <2>3. session' \in Sessions /\ SameWork /\ SamePhotos
        /\ session'.receipt = session.receipt /\ session'.preview = session.preview
        /\ session'.picker = session.picker
    BY <1>3, <2>1, <2>2 DEF Sessions, SameWork, SamePhotos
  <2>4. Album'
    BY <1>1, <1>3, <1>4, <2>1 DEF Album, MayClaimSettle, Exists, Sessions
  <2> QED BY <1>1, <1>2, <1>3, <2>3, <2>4, MoveKeeps DEF Working, Previewing, Sending
<1>5. CASE ~MayClaimSettle(session)
  BY <1>1, <1>2, <1>3, <1>5, MoveKeeps DEF ClaimSettle, Working, Previewing, Sending
<1> QED BY <1>4, <1>5

LEMMA MarkKeeps ==
  ASSUME IInv, NEW j \in Jobs, Mark(j)
  PROVE  IInv'
<1> USE DEF IInv
<1>1. /\ job[j].pc = "mark" /\ Exists /\ session \in Sessions
      /\ session' = MarkAwaiting(session)
      /\ UNCHANGED <<settles, db, sent, life, faults>> /\ faults \in 0..MaxFaults
  BY DEF Mark, At, Types, Exists
<1>2. JobStep(j) /\ job'[j].pc = "claim"
  BY <1>1, GotoStep DEF Mark, Photographed
<1>3. /\ session' \in Sessions /\ SameWork /\ SamePhotos
      /\ session'.receipt = session.receipt /\ session'.preview = session.preview
      /\ session.picker => session'.picker
  BY <1>1 DEF MarkAwaiting, Sessions, States, SameWork, SamePhotos, Open
<1>4. Album'
  BY <1>1 DEF Album, MarkAwaiting, Exists, Sessions
<1> QED BY <1>1, <1>2, <1>3, <1>4, MoveKeeps DEF Working, Previewing, Sending

LEMMA ClaimedPickerStep ==
  ASSUME Types, Album, Exists, MayClaimPicker(session), session' = ClaimedPicker(session)
  PROVE  /\ session' \in Sessions /\ SameWork /\ SamePhotos
         /\ session'.receipt = session.receipt /\ session'.preview = session.preview
         /\ session'.picker /\ Album'
<1>1. session \in Sessions
  BY DEF Types, Exists
<1>2. session' \in Sessions /\ SameWork /\ SamePhotos
  BY <1>1 DEF MayClaimPicker, ClaimedPicker, Sessions, States, SameWork, SamePhotos, Open
<1>3. Album'
  BY <1>1 DEF Album, MayClaimPicker, ClaimedPicker, Exists, Sessions
<1> QED BY <1>1, <1>2, <1>3 DEF ClaimedPicker, Sessions

LEMMA ShowKeeps ==
  ASSUME IInv, NEW j \in Jobs, Show(j)
  PROVE  IInv'
<1> USE DEF IInv
<1>1. /\ job[j].pc = "queued"
      /\ UNCHANGED <<settles, db, sent, life, faults>> /\ faults \in 0..MaxFaults
  BY DEF Show, At, Types
<1>2. JobStep(j) /\ job'[j].pc \in {"done", "failed"}
  BY <1>1, GotoStep DEF Show, Ended
<1>3. CASE Exists /\ MayClaimPicker(session)
  <2>1. session \in Sessions /\ session' = ClaimedPicker(session)
    BY <1>3 DEF Show, Types, Exists
  <2> QED BY <1>1, <1>2, <1>3, <2>1, ClaimedPickerStep, MoveKeeps
          DEF Working, Previewing, Sending
<1>4. CASE ~(Exists /\ MayClaimPicker(session))
  BY <1>1, <1>2, <1>4, MoveKeeps DEF Show, Working, Previewing, Sending, Ended
<1> QED BY <1>3, <1>4

LEMMA ValidateKeeps ==
  ASSUME IInv, NEW j \in Jobs, Validate(j)
  PROVE  IInv'
<1> USE DEF IInv
<1>1. /\ job[j].pc = "queued"
      /\ UNCHANGED <<session, settles, db, sent, life, faults>> /\ faults \in 0..MaxFaults
  BY DEF Validate, At, Types
<1>2. JobStep(j) /\ job'[j].pc \in {"claim", "failed"} /\ (job'[j].pc = "claim" => Exists)
  <2>1. CASE Exists
    <3>1. Goto(j, "claim") \/ Goto(j, "failed")
      BY DEF Validate
    <3> QED BY <1>1, <2>1, <3>1, GotoStep DEF Ended, Photographed
  <2>2. CASE ~Exists
    <3>1. Goto(j, "failed")
      BY <2>2 DEF Validate, In
    <3> QED BY <1>1, <3>1, GotoStep DEF Ended
  <2> QED BY <2>1, <2>2
<1> QED BY <1>1, <1>2, MoveKeeps DEF Working, Previewing, Sending, Ended

(* A photo that begins a session: the jobs of an earlier one have ended or *)
(* wait, and its settle jobs belong to it.                                 *)
LEMMA BeginKeeps ==
  ASSUME IInv, NEW j \in Jobs, Store(j), ~Exists
  PROVE  IInv'
<1> USE DEF IInv
<1>1. /\ job[j].pc = "queued" /\ session = None /\ session' = Upsert(Fresh, j)
      /\ life' = life + 1 /\ sent' = NothingSent
      /\ UNCHANGED <<settles, db>>
  BY DEF Store, At, Exists
<1>2. JobStep(j) /\ job'[j].pc \in {"claim_settle", "mark"}
  BY <1>1, GotoStep DEF Store, Photographed
<1>3. \A i \in Jobs : job'[i].pc \notin Working \cup Previewing
  BY <1>1, <1>2 DEF Present, Running, JobStep, Working, Previewing, Sending, Ended
<1>4. session' = [Fresh EXCEPT !.atts = {j}, !.scheduled = FALSE]
  BY <1>1 DEF Upsert, Fresh
<1>5. session' \in Sessions /\ session' # None
  <2>1. 0 \in Nat /\ {} \cup {j} \in SUBSET Jobs
    OBVIOUS
  <2>2. session' \in Sessions
    BY <1>4, <2>1 DEF Fresh, Sessions, States, Numbered
  <2> QED BY <2>2, JobsAssumption
<1>6. Types'
  <2>1. life' \in Nat /\ faults' \in 0..MaxFaults /\ life' <= faults' + 1
    <3>1. life \in Nat /\ faults \in Nat /\ life <= faults + 1
      BY JobsAssumption DEF Types
    <3>2. CASE life = 0
      BY <1>1, <3>1, <3>2 DEF Store, Types, Exists
    <3>3. CASE life # 0
      <4>1. faults < MaxFaults /\ faults' = faults + 1
        BY <1>1, <3>3 DEF Store, Exists
      <4> QED BY <1>1, <3>1, <4>1, JobsAssumption
    <3> QED BY <3>2, <3>3
  <2>2. sent' \in [receipts : Nat, pickers : Nat, previews : Nat]
    BY <1>1 DEF NothingSent
  <2> QED BY <1>1, <1>2, <1>5, <2>1, <2>2 DEF Types, JobStep
<1>7. Present'
  BY <1>5 DEF Present, Exists
<1>8. Album'
  BY <1>4 DEF Album, Fresh
<1>9. Worked'
  <2>1. db.sources \in Nat /\ life \in Nat
    BY DEF Types
  <2>2. db.sources < life' /\ db.sources <= life'
    BY <1>1, <2>1 DEF Worked
  <2>3. session'.state = "collecting"
    BY <1>4 DEF Fresh
  <2>4. \A i \in Jobs : ~At(i, "ingest")' /\ ~At(i, "propose")' /\ ~At(i, "proposal")'
    BY <1>3 DEF At, Working
  <2>5. \A i \in Jobs : job'[i].pc \notin {"record", "propose", "proposal"}
    BY <1>3 DEF Working
  <2> QED BY <1>1, <1>3, <2>2, <2>3, <2>4, <2>5 DEF Worked, Retryable, In, Exists
<1>10. Told'
  <2>1. \A k \in DOMAIN settles : settles[k].pc # "send"
    BY <1>1 DEF Present, Settling, Exists
  <2> QED BY <1>1, <1>3, <2>1 DEF Told, NothingSent, Previewing, Sending
<1>11. Versions'
  <2>1. life \in Nat /\ \A k \in DOMAIN settles : settles[k].life \in Nat
    BY SettleShape DEF Types, SettleRecords
  <2>2. \A k \in DOMAIN settles : settles[k].life <= life' /\ settles[k].life # life'
    BY <1>1, <2>1 DEF Versions
  <2> QED BY <1>1, <2>2 DEF Versions
<1> QED BY <1>6, <1>7, <1>8, <1>9, <1>10, <1>11

LEMMA StoreKeeps ==
  ASSUME IInv, NEW j \in Jobs, Store(j)
  PROVE  IInv'
<1> USE DEF IInv
<1>1. CASE Exists
  <2>1. /\ job[j].pc = "queued" /\ session \in Sessions /\ session' = Upsert(session, j)
        /\ UNCHANGED <<settles, db, sent, life, faults>> /\ faults \in 0..MaxFaults
    BY <1>1 DEF Store, At, Types, Exists
  <2>2. JobStep(j) /\ job'[j].pc \in {"claim_settle", "mark"}
    BY <2>1, GotoStep DEF Store, Photographed
  <2>3. session' \in Sessions /\ SameWork /\ SamePhotos
        /\ session'.receipt = session.receipt /\ session'.preview = session.preview
        /\ session'.picker = session.picker
    BY <2>1 DEF Upsert, Sessions, SameWork, SamePhotos, Open
  <2>4. Album'
    BY <1>1, <2>1 DEF Album, Upsert, Exists, Sessions
  <2> QED BY <2>1, <2>2, <2>3, <2>4, MoveKeeps DEF Working, Previewing, Sending
<1>2. CASE ~Exists
  BY <1>2, BeginKeeps
<1> QED BY <1>1, <1>2

LEMMA ReceiptKeeps ==
  ASSUME IInv, NEW j \in Jobs, Receipt(j)
  PROVE  IInv'
<1> USE DEF IInv
<1>1. /\ job[j].pc = "receipt" /\ Exists /\ session \in Sessions
      /\ UNCHANGED <<settles, db, life, faults>> /\ faults \in 0..MaxFaults
  BY DEF Receipt, At, Types, Exists, Present, Running, Ended
<1>2. JobStep(j) /\ job'[j].pc = "done"
  BY <1>1, GotoStep DEF Receipt, Ended
<1>3. CASE session.receipt
  BY <1>1, <1>2, <1>3, MoveKeeps DEF Receipt, Working, Previewing, Sending
<1>4. CASE ~session.receipt
  <2>1. session' = [session EXCEPT !.receipt = TRUE] /\ sent' = [sent EXCEPT !.receipts = @ + 1]
    BY <1>1, <1>4 DEF Receipt
  <2>2. session' \in Sessions /\ session' # None /\ session'.receipt
        /\ SameWork /\ SamePhotos
    <3>1. session' \in Sessions /\ SameWork /\ SamePhotos /\ session'.receipt
      BY <1>1, <2>1 DEF Sessions, SameWork, SamePhotos
    <3> QED BY <3>1, JobsAssumption
  <2>3. \A i \in Jobs : job'[i].pc \in Working \cup Previewing => job'[i] = job[i]
    BY <1>2 DEF JobStep, Working, Previewing, Sending
  <2>4. Worked'
    BY <1>1, <2>2, <2>3, WorkedKept
  <2>5. Versions'
    BY <1>1, <2>2, VersionsKept
  <2>6. sent.receipts = 0 /\ sent' = [sent EXCEPT !.receipts = 1]
    BY <1>1, <1>4, <2>1 DEF Told
  <2>7. Types'
    BY <1>1, <1>2, <2>2, <2>6 DEF Types, JobStep
  <2>8. Present'
    BY <2>2 DEF Present, Exists
  <2>9. Album'
    BY <1>1, <2>1 DEF Album, Sessions, Exists
  <2>10. Told'
    <3>1. \A i \in Jobs : job'[i].pc \in Sending => job'[i] = job[i]
      BY <2>3 DEF Previewing
    <3>2. sent'.receipts = 1 /\ sent'.pickers = sent.pickers /\ sent'.previews = sent.previews
      BY <2>6 DEF Types
    <3>3. session'.picker = session.picker /\ session'.preview = session.preview
      BY <1>1, <2>1 DEF Sessions
    <3>4. sent'.receipts <= 1 /\ sent'.pickers <= 1 /\ sent'.previews <= 1
      BY <3>2 DEF Told
    <3>5. /\ ~session'.picker => sent'.pickers = 0
          /\ session'.preview \in {"not_started", "failed"} => sent'.previews = 0
      BY <1>1, <3>2, <3>3 DEF Told
    <3>6. \A k \in DOMAIN settles' : settles'[k].pc = "send" => session'.picker /\ sent'.pickers = 0
      BY <1>1, <3>2, <3>3 DEF Told
    <3>7. \A i \in Jobs :
            /\ job'[i].pc \in Sending => session'.preview = "sending"
            /\ job'[i].pc \in {"send", "undelivered"} => sent'.previews = 0
      BY <3>1, <3>2, <3>3 DEF Told, Sending
    <3>8. /\ \A k, l \in DOMAIN settles' :
               settles'[k].pc = "send" /\ settles'[l].pc = "send" => k = l
          /\ \A h, i \in Jobs : job'[h].pc \in Sending /\ job'[i].pc \in Sending => h = i
      BY <1>1, <3>1 DEF Told
    <3> QED BY <2>2, <3>4, <3>5, <3>6, <3>7, <3>8 DEF Told
  <2> QED BY <2>4, <2>5, <2>7, <2>8, <2>9, <2>10
<1> QED BY <1>3, <1>4

LEMMA EnqueueKeeps ==
  ASSUME IInv, NEW j \in Jobs, Enqueue(j)
  PROVE  IInv'
<1> USE DEF IInv
<1>1. /\ job[j].pc = "enqueue" /\ Exists /\ session \in Sessions
      /\ UNCHANGED <<session, db, sent, life, faults>> /\ faults \in 0..MaxFaults
  BY DEF Enqueue, At, Types, Exists
<1>2. JobStep(j) /\ job'[j].pc \in {"receipt", "failed"}
  BY <1>1, GotoStep DEF Enqueue, Ended, Photographed
<1>3. CASE UNCHANGED settles
  BY <1>1, <1>2, <1>3, MoveKeeps DEF Working, Previewing, Sending
<1>4. CASE ~UNCHANGED settles
  <2> DEFINE new == [pc |-> "queued", tries |-> 1, life |-> life,
                     version |-> session.version, saw |-> session.atts]
  <2>1. settles' = Append(settles, new)
    BY <1>4 DEF Enqueue
  <2>2. new \in SettleRecords
    <3>1. 1 \in 1..MaxTries + 1
      BY JobsAssumption
    <3>2. session.version \in Nat /\ session.atts \in SUBSET Jobs /\ life \in Nat
      BY <1>1 DEF Sessions, Types
    <3> QED BY <3>1, <3>2 DEF SettleRecords
  <2>3. settles \in Seq(SettleRecords) /\ Len(settles) \in Nat /\ DOMAIN settles = 1..Len(settles)
    BY LenProperties DEF Types
  <2>4. new.pc = "queued" /\ new.tries = 1 /\ new.life = life /\ new.version = session.version
        /\ new.saw = session.atts
    OBVIOUS
  <2> HIDE DEF new
  <2>5. /\ settles' \in Seq(SettleRecords) /\ DOMAIN settles' = 1..Len(settles) + 1
        /\ \A k \in DOMAIN settles : settles'[k] = settles[k]
        /\ settles'[Len(settles) + 1] = new
    BY <2>1, <2>2, <2>3, AppendProperties, LenProperties
  <2>6. \A k \in DOMAIN settles' :
          (k \in DOMAIN settles /\ settles'[k] = settles[k]) \/ settles'[k] = new
    BY <2>3, <2>5
  <2>7. \A i \in Jobs : job'[i].pc \in Working \cup Previewing => job'[i] = job[i]
    BY <1>2 DEF JobStep, Working, Previewing, Sending
  <2>8. Worked'
    BY <1>1, <2>7, WorkedKept
  <2>9. Told'
    BY <1>1, <2>4, <2>6, <2>7, ToldKept DEF Previewing
  <2>10. Versions'
    <3>1. session.version \in Nat /\ life \in Nat
      BY <1>1 DEF Sessions, Types
    <3> QED BY <1>1, <2>4, <2>6, <3>1 DEF Versions, Exists
  <2>11. Types'
    <3>1. \A k \in DOMAIN settles' : settles'[k].pc # "dead" => settles'[k].tries <= MaxTries
      BY SMTT(30), <2>4, <2>6, JobsAssumption DEF Types
    <3> QED BY <1>1, <1>2, <2>5, <3>1 DEF Types, JobStep
  <2>12. Present' /\ Album'
    BY <1>1 DEF Present, Album, Exists
  <2> QED BY <2>8, <2>9, <2>10, <2>11, <2>12
<1> QED BY <1>3, <1>4

-------------------------------------------------------------------------------
(* Claims of the work.                                                     *)

(* A job becomes the one that works: nobody did, and nothing is sent of a  *)
(* session at work.                                                        *)
LEMMA WorkerFrame ==
  ASSUME IInv, NEW j \in Jobs, JobStep(j), UNCHANGED <<settles, sent, life, faults>>,
         job'[j].pc \notin Sending,
         session \in Sessions, session' \in Sessions, SamePhotos,
         session'.receipt = session.receipt, session'.preview = session.preview,
         session'.picker = session.picker,
         db' \in [sources : Nat, proposals : Seq([source : Nat, target : Targets \cup {None}])],
         Album', Worked'
  PROVE  IInv'
<1> USE DEF IInv
<1>1. \A i \in Jobs : job'[i].pc \in Sending => job[i].pc = job'[i].pc
  BY DEF JobStep
<1>2. Told'
  BY <1>1, ToldKept
<1>3. Versions'
  BY VersionsKept
<1>4. Types'
  BY DEF Types, JobStep
<1>5. Present'
  BY JobsAssumption DEF Present, Exists
<1> QED BY <1>2, <1>3, <1>4, <1>5

LEMMA NewWorkKeeps ==
  ASSUME IInv, NEW j \in Jobs, job[j].pc \in {"claim", "queued"}, Exists,
         session.state = "awaiting_target", AfterClaim(j, "new", TargetOf[j]),
         UNCHANGED <<settles, db, sent, life, faults>>
  PROVE  IInv'
<1> USE DEF IInv
<1>1. session \in Sessions /\ job[j] \in JobRecords /\ job[j].tries <= MaxTries
  BY DEF Types, Exists
<1>2. TargetOf[j] \in Targets /\ TargetOf[j] # None
  BY JobsAssumption DEF Targets
<1>3. session' = [session EXCEPT !.state = "processing", !.target = TargetOf[j]]
  BY <1>1 DEF AfterClaim, Claimed, Sessions
<1>4. job' = [job EXCEPT ![j] = [job[j] EXCEPT !.pc = "ingest", !.target = TargetOf[j]]]
  BY DEF AfterClaim
<1>5. [job[j] EXCEPT !.pc = "ingest", !.target = TargetOf[j]] \in JobRecords
  BY <1>1, <1>2 DEF JobRecords, Working
<1>6. JobStep(j) /\ job'[j].pc = "ingest" /\ job'[j].target = TargetOf[j]
  BY <1>1, <1>4, <1>5 DEF JobStep, Types, JobRecords
<1>7. session' \in Sessions /\ SamePhotos /\ session'.state = "processing"
      /\ session'.target = TargetOf[j] /\ session'.proposal = session.proposal
      /\ session'.receipt = session.receipt /\ session'.preview = session.preview
      /\ session'.picker = session.picker /\ session'.scheduled = session.scheduled
  BY <1>1, <1>2, <1>3 DEF Sessions, States, SamePhotos
<1>8. Album'
  BY <1>2, <1>7 DEF Album
<1>9. \A i \in Jobs : job[i].pc \notin Working \cup Previewing
  BY DEF Worked
<1>10. \A i \in Jobs \ {j} : job'[i].pc \notin Working \cup Previewing
  BY <1>6, <1>9 DEF JobStep
<1>11. db.sources < life
  BY DEF Worked, In, Open
<1>12. Worked'
  <2>1. \A h, i \in Jobs : job'[h].pc \in Working /\ job'[i].pc \in Working => h = i
    BY <1>10
  <2>2. \A i \in Jobs :
          /\ job'[i].pc \in Working => session'.state = "processing" /\ job'[i].target # None
          /\ job'[i].pc \notin Previewing
          /\ job'[i].pc \notin {"record", "propose", "proposal"}
    BY <1>2, <1>6, <1>7, <1>10 DEF Working, Previewing, Sending
  <2> QED BY <1>7, <1>11, <2>1, <2>2 DEF Worked, At, In, Open, Retryable, Proposed
<1> QED BY <1>1, <1>6, <1>7, <1>8, <1>12, WorkerFrame DEF Types, Sending

LEMMA RetriedWorkKeeps ==
  ASSUME IInv, NEW j \in Jobs, job[j].pc \in {"claim", "queued"}, Exists,
         Retryable(session), NEW target \in Targets, AfterClaim(j, "retry", target),
         UNCHANGED <<settles, db, sent, life, faults>>
  PROVE  IInv'
<1> USE DEF IInv
<1>1. session \in Sessions /\ job[j] \in JobRecords /\ job[j].tries <= MaxTries
      /\ session.state = "failed"
  BY DEF Types, Exists, Retryable
<1>2. target # None
  BY JobsAssumption
<1>3. session' = [session EXCEPT !.state = "processing", !.target = target, !.reason = None]
  BY <1>1 DEF AfterClaim, Claimed
<1>4. job' = [job EXCEPT ![j] = [job[j] EXCEPT !.pc = "propose", !.target = target,
                                               !.source = session.source]]
  BY DEF AfterClaim
<1>5. [job[j] EXCEPT !.pc = "propose", !.target = target, !.source = session.source] \in JobRecords
  BY <1>1 DEF JobRecords, Working, Sessions
<1>6. JobStep(j) /\ job'[j].pc = "propose" /\ job'[j].target = target
      /\ job'[j].source = session.source
  BY <1>1, <1>4, <1>5 DEF JobStep, Types, JobRecords
<1>7. session' \in Sessions /\ SamePhotos /\ session'.state = "processing"
      /\ session'.target = target /\ session'.source = session.source
      /\ session'.proposal = session.proposal
      /\ session'.receipt = session.receipt /\ session'.preview = session.preview
      /\ session'.picker = session.picker /\ session'.scheduled = session.scheduled
  BY <1>1, <1>3 DEF Sessions, States, SamePhotos
<1>8. Album'
  BY <1>1, <1>2, <1>7 DEF Album
<1>9. \A i \in Jobs : job[i].pc \notin Working \cup Previewing
  BY <1>1 DEF Worked
<1>10. \A i \in Jobs \ {j} : job'[i].pc \notin Working \cup Previewing
  BY <1>6, <1>9 DEF JobStep
<1>11. session.source \in 1..db.sources /\ ~Proposed(session.source)
  BY DEF Worked
<1>12. Worked'
  <2>1. \A h, i \in Jobs : job'[h].pc \in Working /\ job'[i].pc \in Working => h = i
    BY <1>10
  <2>2. \A i \in Jobs :
          /\ job'[i].pc \in Working => session'.state = "processing" /\ job'[i].target # None
          /\ job'[i].pc \notin Previewing
          /\ job'[i].pc \notin {"ingest", "proposal"}
          /\ job'[i].pc \in {"record", "propose"} => job'[i].source = session.source
    BY <1>2, <1>6, <1>7, <1>10 DEF Working, Previewing, Sending
  <2> QED BY <1>7, <1>11, <2>1, <2>2 DEF Worked, At, In, Open, Retryable, Proposed
<1> QED BY <1>1, <1>6, <1>7, <1>8, <1>12, WorkerFrame DEF Types, Sending

(* A job that finds a proposal goes on to its preview.                     *)
LEMMA AlreadyKeeps ==
  ASSUME IInv, NEW j \in Jobs, job[j].pc \in {"claim", "queued"}, Exists,
         session.state = "proposal_created", NEW target, AfterClaim(j, "already", target),
         UNCHANGED <<settles, db, sent, life, faults>>
  PROVE  IInv'
<1> USE DEF IInv
<1>1. session \in Sessions /\ job[j] \in JobRecords /\ job[j].tries <= MaxTries
  BY DEF Types, Exists
<1>2. UNCHANGED session
  BY DEF AfterClaim
<1>3. job' = [job EXCEPT ![j] = [job[j] EXCEPT !.pc = "preview", !.proposal = session.proposal]]
  BY DEF AfterClaim
<1>4. [job[j] EXCEPT !.pc = "preview", !.proposal = session.proposal] \in JobRecords
  BY <1>1 DEF JobRecords, Previewing, Sessions
<1>5. JobStep(j) /\ job'[j].pc = "preview"
  BY <1>1, <1>3, <1>4 DEF JobStep, Types, JobRecords
<1>6. \A i \in Jobs : job[i].pc \notin Working
  BY DEF Worked
<1>7. \A i \in Jobs : job'[i].pc \notin Working
  BY <1>5, <1>6 DEF JobStep, Working
<1>8. Worked'
  BY <1>2, <1>5, <1>7 DEF Worked, At, In, Open, Retryable, Proposed, Working, Exists, JobStep
<1>9. Album'
  BY <1>2 DEF Album, Exists
<1> QED BY <1>1, <1>2, <1>5, <1>8, <1>9, WorkerFrame DEF Types, Sending, SamePhotos

LEMMA RefusedKeeps ==
  ASSUME IInv, NEW j \in Jobs, job[j].pc \in {"claim", "queued"},
         NEW verdict \in {"in_progress", "invalid", "missing"}, NEW target,
         AfterClaim(j, verdict, target), UNCHANGED <<settles, db, sent, life, faults>>
  PROVE  IInv'
<1> USE DEF IInv
<1>1. UNCHANGED session /\ (Goto(j, "done") \/ Goto(j, "failed"))
  BY DEF AfterClaim, Goto
<1>2. JobStep(j) /\ job'[j].pc \in {"done", "failed"}
  BY <1>1, GotoStep DEF Ended
<1> QED BY <1>1, <1>2, MoveKeeps DEF Types, Working, Previewing, Sending, Ended

LEMMA ClaimKeeps ==
  ASSUME IInv, NEW j \in Jobs, ClaimTarget(j) \/ ClaimRetry(j)
  PROVE  IInv'
<1> USE DEF IInv
<1>1. /\ job[j].pc \in {"claim", "queued"}
      /\ UNCHANGED <<settles, db, sent, life, faults>>
  BY DEF ClaimTarget, ClaimRetry, At
<1>2. TargetOf[j] \in Targets
  BY DEF Targets
<1>3. CASE ClaimTarget(j) /\ Exists
  <2>1. AfterClaim(j, ClaimVerdict(session), TargetOf[j])
    BY <1>3 DEF ClaimTarget
  <2>2. \/ ClaimVerdict(session) = "already" /\ session.state = "proposal_created"
        \/ ClaimVerdict(session) = "retry" /\ Retryable(session)
        \/ ClaimVerdict(session) = "new" /\ session.state = "awaiting_target"
        \/ ClaimVerdict(session) \in {"in_progress", "invalid"}
    BY DEF ClaimVerdict
  <2> QED BY <1>1, <1>2, <1>3, <2>1, <2>2, AlreadyKeeps, RetriedWorkKeeps, NewWorkKeeps, RefusedKeeps
<1>4. CASE ClaimRetry(j) /\ Exists
  <2>1. AfterClaim(j, RetryVerdict(session), session.target)
    BY <1>4 DEF ClaimRetry
  <2>2. \/ RetryVerdict(session) = "already" /\ session.state = "proposal_created"
        \/ RetryVerdict(session) = "retry" /\ Retryable(session) /\ session.target # None
        \/ RetryVerdict(session) \in {"in_progress", "invalid"}
    BY DEF RetryVerdict
  <2>3. session.target # None => session.target \in Targets
    BY <1>4 DEF Types, Exists, Sessions
  <2> QED BY <1>1, <1>4, <2>1, <2>2, <2>3, AlreadyKeeps, RetriedWorkKeeps, RefusedKeeps
<1>5. CASE ~Exists
  <2>1. AfterClaim(j, "missing", TargetOf[j]) \/ AfterClaim(j, "missing", None)
    BY <1>5 DEF ClaimTarget, ClaimRetry
  <2> QED BY <1>1, <2>1, RefusedKeeps
<1> QED BY <1>3, <1>4, <1>5
-------------------------------------------------------------------------------
(* The work under a claim.                                                 *)

LEMMA AloneAtWork ==
  ASSUME IInv, NEW j \in Jobs, job[j].pc \in Working
  PROVE  /\ session \in Sessions /\ session.state = "processing"
         /\ job[j] \in JobRecords /\ job[j].tries <= MaxTries
         /\ job[j].target \in Targets /\ job[j].target # None
         /\ \A i \in Jobs \ {j} : job[i].pc \notin Working \cup Previewing
<1> USE DEF IInv
<1>1. Exists
  BY DEF Present, Running, Working, Ended
<1>2. session \in Sessions /\ session.state = "processing" /\ job[j].target # None
  BY <1>1 DEF Types, Exists, Worked
<1>3. job[j] \in JobRecords /\ job[j].tries <= MaxTries
  BY DEF Types, Working
<1>4. job[j].target \in Targets
  BY <1>2, <1>3 DEF JobRecords
<1>5. \A i \in Jobs \ {j} : job[i].pc \notin Working \cup Previewing
  BY <1>2 DEF Worked
<1> QED BY <1>2, <1>3, <1>4, <1>5

LEMMA FailKeeps ==
  ASSUME IInv, NEW j \in Jobs, NEW reason \in Reasons,
         \/ job[j].pc = "ingest" /\ reason = "OTHER"
         \/ job[j].pc = "propose",
         session' = FailUpload(session, reason), Goto(j, "failed"),
         UNCHANGED <<settles, db, sent, life, faults>>
  PROVE  IInv'
<1> USE DEF IInv
<1>1. /\ session \in Sessions /\ session.state = "processing"
      /\ \A i \in Jobs \ {j} : job[i].pc \notin Working \cup Previewing
  BY AloneAtWork DEF Working
<1>2. JobStep(j) /\ job'[j].pc = "failed"
  BY GotoStep DEF Ended
<1>3. /\ session' \in Sessions /\ session'.state = "failed" /\ session'.reason = reason
      /\ session'.source = session.source /\ session'.proposal = session.proposal
      /\ session'.receipt = session.receipt /\ session'.preview = session.preview
      /\ session'.picker = session.picker /\ SamePhotos
  BY <1>1 DEF FailUpload, Sessions, States, SamePhotos, Reasons
<1>4. Album'
  BY <1>1, <1>3, JobsAssumption DEF Album, Exists
<1>5. \A i \in Jobs : job'[i].pc \notin Working \cup Previewing
  BY <1>1, <1>2 DEF JobStep, Working, Previewing, Sending
<1>6. reason = "LLM_OUTPUT_INVALID" => session.source \in 1..db.sources /\ ~Proposed(session.source)
  BY DEF Worked, At
<1>7. Worked'
  <2>1. \A i \in Jobs : job'[i].pc \notin Working \cup Previewing \cup
                                        {"ingest", "record", "propose", "proposal"}
    BY <1>5 DEF Working
  <2>2. ~In({"proposal_created"})' /\ ~In(Open)'
    BY <1>3 DEF In, Open
  <2>3. Retryable(session') => session'.source \in 1..db'.sources /\ ~Proposed(session'.source)
    BY <1>3, <1>6 DEF Retryable
  <2>4. UNCHANGED <<db, life>>
    OBVIOUS
  <2>5. /\ db.sources <= life
        /\ \A a \in DOMAIN db.proposals : db.proposals[a].source \in 1..db.sources
        /\ \A a, b \in DOMAIN db.proposals : db.proposals[a].source = db.proposals[b].source => a = b
    BY DEF Worked
  <2> QED BY <2>1, <2>2, <2>3, <2>4, <2>5 DEF Worked, At, Proposed
<1> QED BY <1>1, <1>2, <1>3, <1>4, <1>7, WorkerFrame DEF Types, Sending

LEMMA IngestKeeps ==
  ASSUME IInv, NEW j \in Jobs, Ingest(j)
  PROVE  IInv'
<1> USE DEF IInv
<1>1. /\ job[j].pc = "ingest" /\ session \in Sessions /\ session.state = "processing"
      /\ job[j] \in JobRecords /\ job[j].tries <= MaxTries /\ job[j].target # None
      /\ \A i \in Jobs \ {j} : job[i].pc \notin Working \cup Previewing
      /\ UNCHANGED <<settles, sent, life, faults>>
  BY AloneAtWork DEF Ingest, At, Working
<1>2. CASE session' = FailUpload(session, "OTHER") /\ Goto(j, "failed") /\ UNCHANGED db
  BY <1>1, <1>2, FailKeeps DEF Reasons
<1>3. CASE /\ db' = [db EXCEPT !.sources = @ + 1]
           /\ job' = [job EXCEPT ![j].pc = "record", ![j].source = db.sources + 1]
           /\ UNCHANGED session
  <2>1. db.sources \in Nat /\ life \in Nat /\ db.sources < life
    BY <1>1 DEF Types, Worked, At
  <2>2. db.sources + 1 \in Nat
    BY <2>1
  <2>3. /\ db'.sources = db.sources + 1 /\ db'.proposals = db.proposals
        /\ db' \in [sources : Nat, proposals : Seq([source : Nat, target : Targets \cup {None}])]
    BY <1>3, <2>2 DEF Types
  <2>4. job' = [job EXCEPT ![j] = [job[j] EXCEPT !.pc = "record", !.source = db.sources + 1]]
    BY <1>3
  <2>5. [job[j] EXCEPT !.pc = "record", !.source = db.sources + 1] \in JobRecords
    BY <1>1, <2>2 DEF JobRecords, Working, Numbered
  <2>6. /\ JobStep(j) /\ job'[j].pc = "record" /\ job'[j].source = db.sources + 1
        /\ job'[j].target # None
    BY <1>1, <2>4, <2>5 DEF JobStep, Types, JobRecords
  <2>7. \A i \in Jobs \ {j} : job'[i].pc \notin Working \cup Previewing
    BY <1>1, <2>6 DEF JobStep
  <2>8. \A a \in DOMAIN db.proposals : db.proposals[a].source \in 1..db.sources
    BY DEF Worked
  <2>9. Worked'
    <3>1. \A i \in Jobs :
            /\ job'[i].pc \in Working => i = j
            /\ job'[i].pc \notin Previewing \cup {"ingest", "propose", "proposal"}
            /\ job'[i].pc \in Working => job'[i].source = db.sources + 1 /\ job'[i].target # None
      BY <2>6, <2>7 DEF Working, Previewing, Sending
    <3>2. /\ \A a \in DOMAIN db'.proposals : db'.proposals[a].source # db.sources + 1
          /\ db.sources + 1 \in 1..db'.sources /\ db'.sources <= life'
      BY <1>1, <2>1, <2>3, <2>8
    <3>3. \A a \in DOMAIN db'.proposals : db'.proposals[a].source \in 1..db'.sources
      BY <2>1, <2>3, <2>8
    <3>4. \A a, b \in DOMAIN db'.proposals :
            db'.proposals[a].source = db'.proposals[b].source => a = b
      BY <2>3 DEF Worked
    <3>5. session'.state = "processing" /\ ~In(Open)' /\ ~In({"proposal_created"})' /\ ~Retryable(session')
      BY <1>1, <1>3 DEF In, Open, Retryable
    <3>6. \A i \in Jobs : job'[i].pc \in {"record", "propose", "proposal"} => job'[i].pc \in Working
      BY DEF Working
    <3>7. (\A i \in Jobs :
            /\ job[i].pc \in Working => session.state = "processing" /\ job[i].target # None
            /\ job[i].pc \in Previewing => session.state = "proposal_created"
            /\ ~At(i, "ingest") /\ ~At(i, "propose") /\ ~At(i, "proposal")
            /\ job[i].pc \in {"record", "propose", "proposal"} => job[i].source \in 1..db.sources
            /\ job[i].pc \in {"record", "propose"} => ~Proposed(job[i].source))'
      BY <3>1, <3>2, <3>5, <3>6 DEF At, Proposed
    <3> QED BY <3>1, <3>2, <3>3, <3>4, <3>5, <3>7 DEF Worked
  <2>10. Album'
    BY <1>3 DEF Album, Exists
  <2> QED BY <1>1, <1>3, <2>3, <2>6, <2>9, <2>10, WorkerFrame DEF Types, Sending, SamePhotos
<1> QED BY <1>2, <1>3 DEF Ingest

LEMMA RecordSourceKeeps ==
  ASSUME IInv, NEW j \in Jobs, RecordSource(j)
  PROVE  IInv'
<1> USE DEF IInv
<1>1. /\ job[j].pc = "record" /\ session \in Sessions /\ session.state = "processing"
      /\ job[j] \in JobRecords /\ job[j].target \in Targets /\ job[j].target # None
      /\ \A i \in Jobs \ {j} : job[i].pc \notin Working \cup Previewing
      /\ UNCHANGED <<settles, db, sent, life, faults>>
  BY AloneAtWork DEF RecordSource, At, Working
<1>2. JobStep(j) /\ job'[j] = [job[j] EXCEPT !.pc = "propose"] /\ job'[j].pc = "propose"
  BY <1>1, GotoStep DEF RecordSource, Working
<1>3. job'[j].source = job[j].source /\ job'[j].target = job[j].target
      /\ job[j].source \in Numbered
  BY <1>1, <1>2 DEF JobRecords
<1>4. /\ session' \in Sessions /\ session'.state = "processing" /\ SamePhotos
      /\ session'.source = job[j].source /\ session'.target = job[j].target
      /\ session'.proposal = session.proposal
      /\ session'.receipt = session.receipt /\ session'.preview = session.preview
      /\ session'.picker = session.picker /\ session'.scheduled = session.scheduled
  BY <1>1, <1>3 DEF RecordSource, Sessions, SamePhotos
<1>5. Album'
  BY <1>1, <1>4, JobsAssumption DEF Album, Exists
<1>6. job[j].source \in 1..db.sources /\ ~Proposed(job[j].source)
  BY <1>1 DEF Worked
<1>7. Worked'
  <2>1. \A i \in Jobs \ {j} : job'[i].pc \notin Working \cup Previewing
    BY <1>1, <1>2 DEF JobStep
  <2>2. \A i \in Jobs :
          /\ job'[i].pc \in Working => i = j
          /\ job'[i].pc \notin Previewing \cup {"ingest", "record", "proposal"}
          /\ job'[i].pc \in Working =>
               job'[i].source = job[j].source /\ job'[i].target # None
    BY <1>1, <1>2, <1>3, <2>1 DEF Working, Previewing, Sending
  <2>3. ~In(Open)' /\ ~In({"proposal_created"})' /\ ~Retryable(session')
    BY <1>4 DEF In, Open, Retryable
  <2>4. \A i \in Jobs : job'[i].pc \in {"record", "propose", "proposal"} => job'[i].pc \in Working
    BY DEF Working
  <2>5. /\ db.sources <= life
        /\ \A a \in DOMAIN db.proposals : db.proposals[a].source \in 1..db.sources
        /\ \A a, b \in DOMAIN db.proposals : db.proposals[a].source = db.proposals[b].source => a = b
    BY DEF Worked
  <2>6. \A i \in Jobs : job'[i].pc \in {"record", "propose", "proposal"} =>
          job'[i].source \in 1..db'.sources /\ ~Proposed(job'[i].source)
    BY <1>1, <1>6, <2>2, <2>4
  <2>7. \A i \in Jobs : job'[i].pc = "propose" => session'.source = job'[i].source
    BY <1>4, <2>2 DEF Working
  <2>8. (\A i \in Jobs :
          /\ job[i].pc \in Working => session.state = "processing" /\ job[i].target # None
          /\ job[i].pc \in Previewing => session.state = "proposal_created"
          /\ At(i, "ingest") => db.sources < life
          /\ job[i].pc \in {"record", "propose", "proposal"} => job[i].source \in 1..db.sources
          /\ job[i].pc \in {"record", "propose"} => ~Proposed(job[i].source)
          /\ At(i, "propose") => session.source = job[i].source
          /\ ~At(i, "proposal"))'
    BY <1>1, <1>4, <2>2, <2>6, <2>7 DEF At, Proposed
  <2> QED BY <1>1, <2>2, <2>3, <2>5, <2>8 DEF Worked
<1> QED BY <1>1, <1>2, <1>4, <1>5, <1>7, WorkerFrame DEF Types, Sending

LEMMA ProposeKeeps ==
  ASSUME IInv, NEW j \in Jobs, Propose(j)
  PROVE  IInv'
<1> USE DEF IInv
<1>1. /\ job[j].pc = "propose" /\ session \in Sessions /\ session.state = "processing"
      /\ job[j] \in JobRecords /\ job[j].tries <= MaxTries
      /\ job[j].target \in Targets /\ job[j].target # None
      /\ \A i \in Jobs \ {j} : job[i].pc \notin Working \cup Previewing
      /\ UNCHANGED <<settles, sent, life, faults>>
  BY AloneAtWork DEF Propose, At, Working
<1>2. CASE /\ \E reason \in {"LLM_OUTPUT_INVALID", "OTHER"} : session' = FailUpload(session, reason)
           /\ Goto(j, "failed") /\ UNCHANGED db
  <2>1. PICK reason \in {"LLM_OUTPUT_INVALID", "OTHER"} : session' = FailUpload(session, reason)
    BY <1>2
  <2> QED BY <1>1, <1>2, <2>1, FailKeeps DEF Reasons
<1>3. CASE /\ db' = [db EXCEPT !.proposals =
                        Append(@, [source |-> job[j].source, target |-> job[j].target])]
           /\ job' = [job EXCEPT ![j].pc = "proposal", ![j].proposal = Len(db.proposals) + 1]
           /\ UNCHANGED session
  <2> DEFINE Rows == [source : Nat, target : Targets \cup {None}]
             new == [source |-> job[j].source, target |-> job[j].target]
  <2>1. job[j].source \in 1..db.sources /\ ~Proposed(job[j].source) /\ db.sources \in Nat
    BY <1>1 DEF Worked, Types
  <2>2. new \in Rows /\ new.source = job[j].source
    BY <1>1, <2>1
  <2>3. /\ db.proposals \in Seq(Rows) /\ Len(db.proposals) \in Nat
        /\ DOMAIN db.proposals = 1..Len(db.proposals)
    BY LenProperties DEF Types
  <2>4. db'.sources = db.sources /\ db'.proposals = Append(db.proposals, new)
    BY <1>3 DEF Types
  <2>5. /\ db'.proposals \in Seq(Rows) /\ DOMAIN db'.proposals = 1..Len(db.proposals) + 1
        /\ \A a \in DOMAIN db.proposals : db'.proposals[a] = db.proposals[a]
        /\ db'.proposals[Len(db.proposals) + 1] = new
    <3> HIDE DEF new, Rows
    <3> QED BY <2>2, <2>3, <2>4, AppendProperties, LenProperties
  <2>6. db' \in [sources : Nat, proposals : Seq(Rows)]
    <3>1. db' = [db EXCEPT !.proposals = db'.proposals]
      BY <1>3 DEF Types
    <3> QED BY <2>5, <3>1 DEF Types
  <2>7. Len(db.proposals) + 1 \in Nat /\ Len(db.proposals) + 1 \in DOMAIN db'.proposals
    BY <2>3, <2>5
  <2>8. job' = [job EXCEPT ![j] = [job[j] EXCEPT !.pc = "proposal", !.proposal = Len(db.proposals) + 1]]
    BY <1>3
  <2>9. [job[j] EXCEPT !.pc = "proposal", !.proposal = Len(db.proposals) + 1] \in JobRecords
    BY <1>1, <2>7 DEF JobRecords, Working, Numbered
  <2>10. /\ JobStep(j) /\ job'[j].pc = "proposal" /\ job'[j].proposal = Len(db.proposals) + 1
         /\ job'[j].source = job[j].source /\ job'[j].target = job[j].target
    BY <1>1, <2>8, <2>9 DEF JobStep, Types, JobRecords
  <2>11. \A a \in DOMAIN db'.proposals :
           \/ a \in DOMAIN db.proposals /\ db'.proposals[a] = db.proposals[a]
           \/ a = Len(db.proposals) + 1 /\ db'.proposals[a] = new
    BY SMTT(30), <2>3, <2>5
  <2>12. \A a \in DOMAIN db.proposals : db.proposals[a].source # job[j].source
    BY <2>1 DEF Proposed
  <2>13. Worked'
    <3>1. \A i \in Jobs \ {j} : job'[i].pc \notin Working \cup Previewing
      BY <1>1, <2>10 DEF JobStep
    <3>2. \A i \in Jobs :
            /\ job'[i].pc \in Working => i = j
            /\ job'[i].pc \notin Previewing \cup {"ingest", "record", "propose"}
            /\ job'[i].pc \in Working => job'[i].target # None /\ job'[i].source \in 1..db'.sources
      BY <1>1, <2>1, <2>4, <2>10, <3>1 DEF Working, Previewing, Sending
    <3>3. \A i \in Jobs : job'[i].pc \in {"record", "propose", "proposal"} => job'[i].pc \in Working
      BY DEF Working
    <3>4. ~In(Open)' /\ ~In({"proposal_created"})' /\ ~Retryable(session')
          /\ session'.state = "processing"
      BY <1>1, <1>3 DEF In, Open, Retryable
    <3>5. \A a \in DOMAIN db'.proposals : db'.proposals[a].source \in 1..db'.sources
      BY <2>1, <2>2, <2>4, <2>11 DEF Worked
    <3>6. \A a, b \in DOMAIN db'.proposals : db'.proposals[a].source = db'.proposals[b].source => a = b
      <4> HIDE DEF new
      <4> QED BY <2>2, <2>11, <2>12 DEF Worked
    <3>7. \A i \in Jobs : job'[i].pc \in Working =>
            /\ job'[i].proposal \in DOMAIN db'.proposals
            /\ db'.proposals[job'[i].proposal] = [source |-> job'[i].source, target |-> job'[i].target]
      BY <2>5, <2>7, <2>10, <3>2
    <3>8. db'.sources <= life'
      BY <1>1, <2>4 DEF Worked
    <3> QED BY <3>2, <3>3, <3>4, <3>5, <3>6, <3>7, <3>8 DEF Worked, At
  <2>14. Album'
    BY <1>3 DEF Album, Exists
  <2> QED BY <1>1, <1>3, <2>6, <2>10, <2>13, <2>14, WorkerFrame DEF Types, Sending, SamePhotos
<1> QED BY <1>2, <1>3 DEF Propose

LEMMA RecordProposalKeeps ==
  ASSUME IInv, NEW j \in Jobs, RecordProposal(j)
  PROVE  IInv'
<1> USE DEF IInv
<1>1. /\ job[j].pc = "proposal" /\ session \in Sessions /\ session.state = "processing"
      /\ job[j] \in JobRecords /\ job[j].target \in Targets /\ job[j].target # None
      /\ \A i \in Jobs \ {j} : job[i].pc \notin Working \cup Previewing
      /\ UNCHANGED <<settles, db, sent, life, faults>>
  BY AloneAtWork DEF RecordProposal, At, Working
<1>2. JobStep(j) /\ job'[j].pc = "preview"
  BY <1>1, GotoStep DEF RecordProposal, Previewing
<1>3. /\ job[j].source \in Numbered /\ job[j].proposal \in DOMAIN db.proposals
      /\ db.proposals[job[j].proposal] = [source |-> job[j].source, target |-> job[j].target]
  BY <1>1 DEF JobRecords, Worked, At
<1>4. job[j].proposal \in Nat /\ job[j].proposal # None
  <2>1. DOMAIN db.proposals = 1..Len(db.proposals) /\ Len(db.proposals) \in Nat
    BY LenProperties DEF Types
  <2> QED BY <1>3, <2>1, JobsAssumption
<1>5. /\ session' \in Sessions /\ session'.state = "proposal_created" /\ SamePhotos
      /\ session'.source = job[j].source /\ session'.target = job[j].target
      /\ session'.proposal = job[j].proposal
      /\ session'.receipt = session.receipt /\ session'.preview = session.preview
      /\ session'.picker = session.picker /\ session'.scheduled = session.scheduled
  BY <1>1, <1>3, <1>4 DEF RecordProposal, Sessions, States, SamePhotos, Numbered
<1>6. Album'
  BY <1>1, <1>4, <1>5, JobsAssumption DEF Album, Exists
<1>7. Worked'
  <2>1. \A i \in Jobs : job'[i].pc \notin Working
    BY <1>1, <1>2 DEF JobStep, Working
  <2>2. \A i \in Jobs : job'[i].pc \notin {"ingest", "record", "propose", "proposal"}
    BY <2>1 DEF Working
  <2>3. ~In(Open)' /\ ~Retryable(session')
    BY <1>5 DEF In, Open, Retryable
  <2> QED BY <1>1, <1>3, <1>5, <2>1, <2>2, <2>3 DEF Worked, At
<1> QED BY <1>1, <1>2, <1>5, <1>6, <1>7, WorkerFrame DEF Types, Sending

-------------------------------------------------------------------------------
(* The preview: what may be claimed was not sent.                          *)

LEMMA PreviewFrame ==
  ASSUME IInv, NEW j \in Jobs, job[j].pc \in Previewing, JobStep(j),
         job'[j].pc \notin Working \cup {"queued"}, session' \in Sessions,
         session'.state = session.state /\ session'.source = session.source,
         session'.target = session.target /\ session'.proposal = session.proposal,
         session'.picker = session.picker /\ session'.scheduled = session.scheduled,
         SamePhotos, UNCHANGED <<settles, db, life, faults>>,
         sent' \in [receipts : Nat, pickers : Nat, previews : Nat], Told'
  PROVE  IInv'
<1> USE DEF IInv
<1>1. session \in Sessions /\ session.state = "proposal_created"
  <2>1. Exists
    BY DEF Present, Running, Previewing, Sending, Ended
  <2> QED BY <2>1 DEF Types, Exists, Worked
<1>2. Worked'
  <2>1. /\ \A i \in Jobs : job[i].pc \notin Working
        /\ In({"proposal_created"}) /\ ~In(Open)' /\ ~Retryable(session')
    BY <1>1, JobsAssumption DEF Worked, In, Exists, Open, Retryable
  <2>2. \A i \in Jobs : job'[i].pc \notin Working
    BY <2>1 DEF JobStep
  <2>3. \A i \in Jobs : job'[i].pc \notin {"ingest", "record", "propose", "proposal"}
    BY <2>2 DEF Working
  <2>4. session'.state = "proposal_created"
    BY <1>1
  <2> QED BY <2>1, <2>2, <2>3, <2>4 DEF Worked, At, In
<1>3. Versions'
  BY <1>1, VersionsKept
<1>4. Types'
  BY DEF Types, JobStep
<1>5. Present' /\ Album'
  BY <1>1, JobsAssumption DEF Present, Album, Exists
<1> QED BY <1>2, <1>3, <1>4, <1>5

LEMMA ClaimPreviewKeeps ==
  ASSUME IInv, NEW j \in Jobs, ClaimPreview(j)
  PROVE  IInv'
<1> USE DEF IInv
<1>1. /\ job[j].pc = "preview" /\ Exists /\ session \in Sessions
      /\ UNCHANGED <<settles, db, sent, life, faults>> /\ faults \in 0..MaxFaults
      /\ sent \in [receipts : Nat, pickers : Nat, previews : Nat]
  BY DEF ClaimPreview, At, Types, Exists, Present, Running, Ended
<1>2. CASE ~MayClaimPreview(session)
  <2>1. JobStep(j) /\ job'[j].pc = "done"
    BY <1>1, <1>2, GotoStep DEF ClaimPreview, Ended
  <2> QED BY <1>1, <1>2, <2>1, MoveKeeps DEF ClaimPreview, Working, Previewing, Sending
<1>3. CASE MayClaimPreview(session)
  <2>1. session' = [session EXCEPT !.preview = "sending"] /\ Goto(j, "send")
    BY <1>1, <1>3 DEF ClaimPreview
  <2>2. JobStep(j) /\ job'[j].pc = "send"
    BY <1>1, <2>1, GotoStep DEF Previewing, Sending
  <2>3. /\ session' \in Sessions /\ session'.preview = "sending"
        /\ session'.state = session.state /\ session'.source = session.source
        /\ session'.target = session.target /\ session'.proposal = session.proposal
        /\ session'.picker = session.picker /\ session'.scheduled = session.scheduled
        /\ session'.receipt = session.receipt /\ SamePhotos
    BY <1>1, <2>1 DEF Sessions, SamePhotos
  <2>4. session.preview \in {"not_started", "failed"}
    BY <1>1, <1>3 DEF MayClaimPreview, Sessions
  <2>5. sent.previews = 0 /\ \A i \in Jobs : job[i].pc \notin Sending
    BY <1>1, <2>4 DEF Told
  <2>6. \A i \in Jobs : job'[i].pc \in Sending => i = j
    BY <2>2, <2>5 DEF JobStep
  <2>7. Told'
    BY <1>1, <2>3, <2>5, <2>6 DEF Told, Exists, Sending
  <2> QED BY <1>1, <2>2, <2>3, <2>7, PreviewFrame DEF Previewing, Sending, Working
<1> QED BY <1>2, <1>3

LEMMA SendPreviewKeeps ==
  ASSUME IInv, NEW j \in Jobs, SendPreview(j)
  PROVE  IInv'
<1> USE DEF IInv
<1>1. /\ job[j].pc = "send" /\ Exists /\ session \in Sessions
      /\ UNCHANGED <<session, settles, db, life, faults>>
      /\ sent \in [receipts : Nat, pickers : Nat, previews : Nat]
  BY DEF SendPreview, At, Types, Exists, Present, Running, Ended
<1>2. /\ sent.previews = 0 /\ session.preview = "sending"
      /\ \A i \in Jobs \ {j} : job[i].pc \notin Sending
  BY <1>1 DEF Told, Sending
<1>3. /\ sent' \in [receipts : Nat, pickers : Nat, previews : Nat]
      /\ sent'.receipts = sent.receipts /\ sent'.pickers = sent.pickers
      /\ \/ Goto(j, "delivered") /\ sent'.previews = 1
         \/ Goto(j, "undelivered") /\ sent'.previews = 0
  <2>1. CASE sent' = [sent EXCEPT !.previews = @ + 1] /\ Goto(j, "delivered")
    <3>1. sent' = [sent EXCEPT !.previews = 1]
      BY <1>2, <2>1
    <3> QED BY <1>1, <2>1, <3>1
  <2> QED BY <1>1, <1>2, <2>1 DEF SendPreview
<1>4. JobStep(j) /\ job'[j].pc \in {"delivered", "undelivered"}
  BY <1>1, <1>3, GotoStep DEF Previewing, Sending
<1>5. job'[j].pc = "undelivered" => sent'.previews = 0
  <2>1. CASE Goto(j, "delivered")
    <3>1. job'[j].pc = "delivered"
      BY <1>1, <2>1, GotoStep DEF Previewing, Sending
    <3> QED BY <3>1
  <2> QED BY <1>3, <2>1
<1>6. \A i \in Jobs : job'[i].pc \in Sending => i = j
  BY <1>2, <1>4 DEF JobStep
<1>7. Told'
  BY <1>1, <1>2, <1>3, <1>4, <1>5, <1>6 DEF Told, Exists, Sending
<1> QED BY <1>1, <1>3, <1>4, <1>7, PreviewFrame DEF Previewing, Sending, Working, SamePhotos

LEMMA CompletePreviewKeeps ==
  ASSUME IInv, NEW j \in Jobs, CompletePreview(j)
  PROVE  IInv'
<1> USE DEF IInv
<1>1. /\ job[j].pc \in {"delivered", "undelivered"} /\ Exists /\ session \in Sessions
      /\ UNCHANGED <<settles, db, sent, life, faults>>
      /\ sent \in [receipts : Nat, pickers : Nat, previews : Nat]
  BY DEF CompletePreview, At, Types, Exists, Present, Running, Ended
<1>2. JobStep(j) /\ job'[j].pc \in {"done", "failed"}
  BY <1>1, GotoStep DEF CompletePreview, Ended
<1>3. /\ session' \in Sessions
      /\ session'.state = session.state /\ session'.source = session.source
      /\ session'.target = session.target /\ session'.proposal = session.proposal
      /\ session'.picker = session.picker /\ session'.scheduled = session.scheduled
      /\ session'.receipt = session.receipt /\ SamePhotos
  <2>1. CASE session' = [session EXCEPT !.preview = "succeeded"]
    BY <1>1, <2>1 DEF Sessions, SamePhotos
  <2>2. CASE session' = [session EXCEPT !.preview = "failed", !.reason = "PREVIEW_DELIVERY_FAILED"]
    BY <1>1, <2>2 DEF Sessions, SamePhotos
  <2> QED BY <2>1, <2>2 DEF CompletePreview
<1>4. session'.preview = "succeeded" \/ (session'.preview = "failed" /\ job[j].pc = "undelivered")
  BY <1>1 DEF CompletePreview, At, Sessions
<1>5. \A i \in Jobs : job'[i].pc \notin Sending
  BY <1>1, <1>2 DEF Told, JobStep, Sending
<1>6. Told'
  <2>1. session'.preview \in {"not_started", "failed"} => sent.previews = 0
    BY <1>4 DEF Told
  <2> QED BY <1>1, <1>3, <1>5, <2>1 DEF Told, Exists, Sending
<1> QED BY <1>1, <1>2, <1>3, <1>6, PreviewFrame DEF Previewing, Sending, Working

-------------------------------------------------------------------------------
(* The settle jobs.                                                        *)

LEMMA SettleFrame ==
  ASSUME IInv, NEW k \in DOMAIN settles, SettleMove(k), UNCHANGED <<job, db, life>>,
         faults <= faults', faults' \in 0..MaxFaults,
         \/ UNCHANGED session /\ (Exists \/ settles'[k].pc \notin Settling)
         \/ /\ session \in Sessions /\ session' \in Sessions /\ Album'
            /\ SameWork /\ SamePhotos,
         sent' \in [receipts : Nat, pickers : Nat, previews : Nat], Told'
  PROVE  IInv'
<1> USE DEF IInv
<1>1. Worked'
  BY WorkedKept
<1>2. Versions'
  BY VersionsKept DEF SettleMove
<1>3. Types'
  <2>1. life' \in Nat /\ life' <= faults' + 1
    BY JobsAssumption DEF Types
  <2> QED BY <2>1 DEF Types, SettleMove
<1>4. Present' /\ Album'
  <2>1. CASE UNCHANGED session /\ (Exists \/ settles'[k].pc \notin Settling)
    BY <2>1 DEF Present, Exists, Running, Album, SettleMove
  <2>2. CASE session \in Sessions /\ session' \in Sessions /\ Album'
    BY <2>2, JobsAssumption DEF Present, Exists
  <2> QED BY <2>1, <2>2
<1> QED BY <1>1, <1>2, <1>3, <1>4

LEMMA SettleGoto ==
  ASSUME Types, NEW k \in DOMAIN settles, settles[k].pc # "dead",
         NEW pc \in {"done", "failed"} \cup Settling, GotoSettle(k, pc)
  PROVE  SettleMove(k) /\ settles'[k].pc = pc
<1>1. settles[k] \in SettleRecords /\ settles[k].tries <= MaxTries
  BY SettleShape DEF Types
<1>2. /\ settles' = [settles EXCEPT ![k] = [settles[k] EXCEPT !.pc = pc]]
      /\ settles \in Seq(SettleRecords)
  BY DEF GotoSettle, Types
<1>3. [settles[k] EXCEPT !.pc = pc] \in SettleRecords
  BY <1>1 DEF SettleRecords
<1>4. settles' \in Seq(SettleRecords) /\ DOMAIN settles' = DOMAIN settles
      /\ settles'[k] = [settles[k] EXCEPT !.pc = pc]
  BY <1>2, <1>3, ExceptSeq, LenProperties
<1>5. \A l \in DOMAIN settles \ {k} : settles'[l] = settles[l]
  BY <1>2
<1>6. /\ settles'[k].pc = pc /\ settles'[k].tries = settles[k].tries
      /\ settles'[k].life = settles[k].life /\ settles'[k].version = settles[k].version
      /\ settles'[k].saw = settles[k].saw
  BY <1>1, <1>4 DEF SettleRecords
<1> QED BY <1>1, <1>4, <1>5, <1>6 DEF SettleMove, Types

LEMMA PromoteKeeps ==
  ASSUME IInv, NEW k \in DOMAIN settles, Promote(k)
  PROVE  IInv'
<1> USE DEF IInv
<1>1. /\ settles[k].pc = "queued" /\ UNCHANGED <<job, db, sent, life, faults>>
      /\ faults \in 0..MaxFaults /\ faults <= faults'
      /\ sent' \in [receipts : Nat, pickers : Nat, previews : Nat]
  BY DEF Promote, Types
<1>2. CASE Exists /\ MayPromote(session, settles[k].version)
  <2>1. session' = [session EXCEPT !.state = "settled", !.scheduled = FALSE]
    BY <1>2 DEF Promote
  <2>2. SettleMove(k) /\ settles'[k].pc = "picker"
    BY <1>1, <1>2, SettleGoto DEF Promote, Settling
  <2>3. session \in Sessions /\ session.state = "collecting" /\ ~session.picker
    BY <1>2 DEF Types, Exists, MayPromote
  <2>4. /\ session' \in Sessions /\ SameWork /\ SamePhotos
        /\ session'.receipt = session.receipt /\ session'.preview = session.preview
        /\ session'.picker = session.picker
    BY <2>1, <2>3 DEF Sessions, States, SameWork, SamePhotos, Open
  <2>5. Album'
    BY <1>2, <2>1, <2>3 DEF Album, Exists, Sessions
  <2>6. Told'
    BY <1>1, <2>2, <2>3, <2>4, ToldKept DEF SettleMove
  <2> QED BY <1>1, <2>2, <2>3, <2>4, <2>5, <2>6, SettleFrame
<1>3. CASE ~(Exists /\ MayPromote(session, settles[k].version))
  <2>1. UNCHANGED session /\ (GotoSettle(k, "done") \/ GotoSettle(k, "failed"))
    BY <1>3 DEF Promote
  <2>2. SettleMove(k) /\ settles'[k].pc \in {"done", "failed"}
    BY <1>1, <2>1, SettleGoto
  <2>3. Told'
    BY <1>1, <2>1, <2>2, ToldKept DEF SettleMove
  <2> QED BY <1>1, <2>1, <2>2, <2>3, SettleFrame DEF Settling
<1> QED BY <1>2, <1>3

LEMMA ClaimPickerKeeps ==
  ASSUME IInv, NEW k \in DOMAIN settles, ClaimPicker(k)
  PROVE  IInv'
<1> USE DEF IInv
<1>1. /\ settles[k].pc = "picker" /\ Exists /\ UNCHANGED <<job, db, sent, life, faults>>
      /\ faults \in 0..MaxFaults /\ faults <= faults'
      /\ sent' \in [receipts : Nat, pickers : Nat, previews : Nat]
      /\ session \in Sessions
  BY DEF ClaimPicker, Types, Exists
<1>2. CASE MayClaimPicker(session)
  <2>1. session' = ClaimedPicker(session)
    BY <1>2 DEF ClaimPicker
  <2>2. SettleMove(k) /\ settles'[k].pc = "send"
    BY <1>1, <1>2, SettleGoto DEF ClaimPicker, Settling
  <2>3. /\ session' \in Sessions /\ SameWork /\ SamePhotos
        /\ session'.receipt = session.receipt /\ session'.preview = session.preview
        /\ session'.picker /\ Album'
    <3>1. session'.receipt = session.receipt
      BY <1>1, <2>1 DEF ClaimedPicker, Sessions
    <3> QED BY <1>1, <1>2, <2>1, <3>1, ClaimedPickerStep
  <2>4. sent.pickers = 0 /\ \A l \in DOMAIN settles : settles[l].pc # "send"
    BY <1>1, <1>2 DEF Told, MayClaimPicker
  <2>5. \A l \in DOMAIN settles' : settles'[l].pc = "send" => l = k
    BY <2>2, <2>4 DEF SettleMove
  <2>6. Told'
    BY <1>1, <2>3, <2>4, <2>5 DEF Told, Exists
  <2> QED BY <1>1, <2>2, <2>3, <2>6, SettleFrame
<1>3. CASE ~MayClaimPicker(session)
  <2>1. UNCHANGED session /\ SettleMove(k) /\ settles'[k].pc = "done"
    BY <1>1, <1>3, SettleGoto DEF ClaimPicker
  <2>2. Told'
    BY <1>1, <2>1, ToldKept DEF SettleMove
  <2> QED BY <1>1, <2>1, <2>2, SettleFrame
<1> QED BY <1>2, <1>3

LEMMA SendPickerKeeps ==
  ASSUME IInv, NEW k \in DOMAIN settles, SendPicker(k)
  PROVE  IInv'
<1> USE DEF IInv
<1>1. /\ settles[k].pc = "send" /\ Exists /\ UNCHANGED <<session, job, db, life, faults>>
      /\ faults \in 0..MaxFaults /\ faults <= faults'
      /\ sent \in [receipts : Nat, pickers : Nat, previews : Nat]
  BY DEF SendPicker, Types, Present, Settling
<1>2. SettleMove(k) /\ settles'[k].pc \in {"done", "failed"}
  BY <1>1, SettleGoto DEF SendPicker
<1>3. sent.pickers = 0 /\ session.picker /\ \A l \in DOMAIN settles : settles[l].pc = "send" => l = k
  BY <1>1 DEF Told
<1>4. \A l \in DOMAIN settles' : settles'[l].pc # "send"
  BY <1>2, <1>3 DEF SettleMove
<1>5. /\ sent' \in [receipts : Nat, pickers : Nat, previews : Nat]
      /\ sent'.receipts = sent.receipts /\ sent'.previews = sent.previews /\ sent'.pickers <= 1
  <2>1. CASE sent' = [sent EXCEPT !.pickers = @ + 1]
    <3>1. sent' = [sent EXCEPT !.pickers = 1]
      BY <1>3, <2>1
    <3> QED BY <1>1, <3>1
  <2> QED BY <1>1, <1>3, <2>1 DEF SendPicker
<1>6. Told'
  BY <1>1, <1>3, <1>4, <1>5 DEF Told, Exists
<1> QED BY <1>1, <1>2, <1>5, <1>6, SettleFrame

LEMMA CrashSettleKeeps ==
  ASSUME IInv, NEW k \in DOMAIN settles, CrashSettle(k)
  PROVE  IInv'
<1> USE DEF IInv
<1>1. /\ settles[k].pc \in {"queued"} \cup Settling /\ UNCHANGED <<session, job, db, sent, life>>
      /\ sent \in [receipts : Nat, pickers : Nat, previews : Nat]
      /\ settles[k] \in SettleRecords /\ settles[k].tries <= MaxTries
      /\ settles \in Seq(SettleRecords)
  BY SettleShape DEF CrashSettle, Types, Settling
<1>2. faults <= faults' /\ faults' \in 0..MaxFaults
  BY JobsAssumption DEF CrashSettle, Types
<1> DEFINE again == [settles[k] EXCEPT !.pc = Again(settles[k].tries), !.tries = @ + 1]
<1>3. settles' = [settles EXCEPT ![k] = again]
  BY DEF CrashSettle
<1>4. settles[k].tries + 1 \in 1..MaxTries + 1
  BY SMTT(30), <1>1, JobsAssumption DEF SettleRecords
<1>5. /\ again \in SettleRecords /\ again.pc \in {"queued", "dead"}
      /\ again.pc # "dead" => again.tries <= MaxTries
      /\ again.life = settles[k].life /\ again.version = settles[k].version
      /\ again.saw = settles[k].saw
  <2>1. Again(settles[k].tries) \in {"queued", "dead"}
    BY DEF Again
  <2>2. again \in SettleRecords /\ again.pc = Again(settles[k].tries) /\ again.tries = settles[k].tries + 1
        /\ again.life = settles[k].life /\ again.version = settles[k].version
        /\ again.saw = settles[k].saw
    BY <1>1, <1>4, <2>1 DEF SettleRecords
  <2>3. Again(settles[k].tries) # "dead" => settles[k].tries + 1 <= MaxTries
    BY <1>1, JobsAssumption DEF Again, SettleRecords
  <2> HIDE DEF again
  <2> QED BY <2>1, <2>2, <2>3
<1> HIDE DEF again
<1>6. settles' \in Seq(SettleRecords) /\ DOMAIN settles' = DOMAIN settles /\ settles'[k] = again
  BY <1>1, <1>3, <1>5, ExceptSeq, LenProperties
<1>7. \A l \in DOMAIN settles \ {k} : settles'[l] = settles[l]
  BY <1>1, <1>3
<1>8. SettleMove(k) /\ settles'[k].pc \in {"queued", "dead"}
  BY <1>5, <1>6, <1>7 DEF SettleMove, Types
<1>9. Told'
  BY <1>1, <1>8, ToldKept DEF SettleMove
<1> QED BY <1>1, <1>2, <1>8, <1>9, SettleFrame DEF Settling

-------------------------------------------------------------------------------
(* Crashes, errors and the end of a session.                               *)

LEMMA CrashKeeps ==
  ASSUME IInv, NEW j \in Jobs, Crash(j)
  PROVE  IInv'
<1> USE DEF IInv
<1>1. /\ Running(j) /\ Exists /\ UNCHANGED <<session, settles, db, sent, life>>
      /\ job[j] \in JobRecords /\ job[j].tries <= MaxTries
  BY DEF Crash, Types, Present, Running, Ended
<1>2. faults <= faults' /\ faults' \in 0..MaxFaults
  BY JobsAssumption DEF Crash, Types
<1> DEFINE again == [Idle(job[j].kind) EXCEPT !.pc = Again(job[j].tries), !.tries = job[j].tries + 1]
<1>3. job' = [job EXCEPT ![j] = again]
  BY DEF Crash
<1>4. job[j].tries + 1 \in 1..MaxTries + 1 /\ job[j].kind \in Kinds
  BY <1>1, JobsAssumption DEF JobRecords
<1>5. /\ again \in JobRecords /\ again.pc \in {"queued", "dead"}
      /\ again.pc # "dead" => again.tries <= MaxTries
  <2>1. Again(job[j].tries) \in {"queued", "dead"}
    BY DEF Again
  <2>2. Idle(job[j].kind) \in JobRecords
    <3>1. 1 \in 1..MaxTries + 1
      BY JobsAssumption
    <3> QED BY <1>4, <3>1 DEF Idle, JobRecords, Numbered
  <2>3. again \in JobRecords /\ again.pc = Again(job[j].tries) /\ again.tries = job[j].tries + 1
    BY <1>4, <2>1, <2>2 DEF JobRecords, Ended
  <2>4. Again(job[j].tries) # "dead" => job[j].tries + 1 <= MaxTries
    BY <1>1, JobsAssumption DEF Again, JobRecords
  <2> HIDE DEF again
  <2> QED BY <2>1, <2>2, <2>3, <2>4
<1> HIDE DEF again
<1>6. JobStep(j) /\ job'[j].pc \in {"queued", "dead"}
  BY <1>3, <1>5 DEF JobStep, Types
<1> QED BY <1>1, <1>2, <1>6, MoveKeeps DEF Working, Previewing, Sending

LEMMA BreaksKeeps ==
  ASSUME IInv, NEW j \in Jobs, Breaks(j)
  PROVE  IInv'
<1> USE DEF IInv
<1>1. job[j].pc # "dead" /\ Goto(j, "failed") /\ UNCHANGED <<session, settles, db, sent, life>>
  BY DEF Breaks, Begun, Running, Ended, At
<1>2. faults <= faults' /\ faults' \in 0..MaxFaults
  BY JobsAssumption DEF Breaks, Types
<1>3. JobStep(j) /\ job'[j].pc = "failed"
  BY <1>1, GotoStep DEF Ended
<1> QED BY <1>1, <1>2, <1>3, MoveKeeps DEF Working, Previewing, Sending, Ended

LEMMA ExpireKeeps ==
  ASSUME IInv, Expire
  PROVE  IInv'
<1> USE DEF IInv
<1>1. /\ session' = None /\ UNCHANGED <<job, settles, db, sent, life, faults>>
      /\ \A j \in Jobs : ~Running(j)
      /\ \A k \in DOMAIN settles : settles[k].pc \notin Settling
  BY DEF Expire, Settling
<1>2. \A j \in Jobs : job[j].pc \notin Working \cup Previewing
  BY <1>1 DEF Running, Ended, Working, Previewing, Sending
<1>3. \A j \in Jobs : job[j].pc \notin {"ingest", "record", "propose", "proposal"}
  BY <1>2 DEF Working
<1>4. Types' /\ Present' /\ Album'
  BY <1>1 DEF Types, Present, Album, Running, Exists
<1>5. Worked'
  BY <1>1, <1>2, <1>3 DEF Worked, At, In, Exists
<1>6. Told'
  BY <1>1, <1>2 DEF Told, Exists, Previewing, Sending, Settling
<1>7. Versions'
  BY <1>1, VersionsKept
<1> QED BY <1>4, <1>5, <1>6, <1>7

LEMMA NextKeeps == IInv /\ [Next]_vars => IInv'
<1> SUFFICES ASSUME IInv, [Next]_vars PROVE IInv'
  OBVIOUS
<1>1. ASSUME NEW j \in Jobs, PhotoStep(j) PROVE IInv'
  BY <1>1, StoreKeeps, ClaimSettleKeeps, EnqueueKeeps, ReceiptKeeps, MarkKeeps DEF PhotoStep
<1>2. ASSUME NEW j \in Jobs, Command(j) PROVE IInv'
  BY <1>2, ShowKeeps, ValidateKeeps, ClaimKeeps DEF Command
<1>3. ASSUME NEW j \in Jobs, Work(j) PROVE IInv'
  BY <1>3, IngestKeeps, RecordSourceKeeps, ProposeKeeps, RecordProposalKeeps,
     ClaimPreviewKeeps, SendPreviewKeeps, CompletePreviewKeeps DEF Work
<1>4. ASSUME NEW k \in DOMAIN settles, SettleStep(k) PROVE IInv'
  BY <1>4, PromoteKeeps, ClaimPickerKeeps, SendPickerKeeps DEF SettleStep
<1>5. CASE UNCHANGED vars
  BY <1>5 DEF vars, IInv, Types, Present, Album, Worked, Told, Versions, Running, Exists,
     In, At, Proposed, Sending, Open, Retryable
<1> QED BY <1>1, <1>2, <1>3, <1>4, <1>5, CrashKeeps, BreaksKeeps, CrashSettleKeeps,
       ExpireKeeps DEF Next

LEMMA InvariantHolds == Spec => []IInv
BY InitIInv, NextKeeps, PTL DEF Spec

-------------------------------------------------------------------------------
(* The session keeps one of the states the store assigns, the picker is    *)
(* claimed exactly when the album is past "settled", and a session at work *)
(* or with a proposal knows its target: every operation of the session     *)
(* store, in every order of the jobs that call it.                         *)
THEOREM TypeCorrect == Spec => []TypeOK
<1>1. IInv => TypeOK
  <2> SUFFICES ASSUME IInv PROVE TypeOK
    OBVIOUS
  <2>1. life \in 0..MaxFaults + 1
    BY JobsAssumption DEF IInv, Types
  <2>2. \A k \in DOMAIN settles : settles[k].tries \in 1..MaxTries + 1
    BY SettleShape DEF IInv, SettleRecords
  <2> QED BY <2>1, <2>2 DEF IInv, Types, Album, TypeOK
<1> QED BY <1>1, InvariantHolds, PTL

(* However many photos, commands and taps of one album interleave, crash   *)
(* and are run again: one job works on it at a time, it is ingested once,  *)
(* its source gets one proposal, for the page the session names, and the   *)
(* user gets one receipt, one picker and one preview.                      *)
THEOREM WorksOnce == Spec => []WorkOnce
<1>1. IInv => WorkOnce
  <2> SUFFICES ASSUME IInv PROVE WorkOnce
    OBVIOUS
  <2>1. \A j \in Jobs : job[j].pc \in Working => In({"processing"})
    BY DEF IInv, Present, Worked, Running, Working, Ended, In
  <2> QED BY <2>1 DEF IInv, Worked, Told, WorkOnce
<1> QED BY <1>1, InvariantHolds, PTL

(* promote_settle takes the album from a settle job whose batch another    *)
(* photo has joined: what it promotes is what was stored when the job was  *)
(* enqueued.                                                               *)
THEOREM SettlesOnlyWhatItSaw == Spec => SettlesWhatItSaw
<1> DEFINE Saw == \A k \in DOMAIN settles :
             settles[k].pc = "queued" /\ settles'[k].pc = "picker" /\ settles[k].life = life
               => session.atts = settles[k].saw
<1>1. ASSUME IInv, [Next]_vars PROVE [Saw]_vars
  <2> SUFFICES ASSUME NEW k \in DOMAIN settles, settles[k].pc = "queued",
                      settles'[k].pc = "picker", settles[k].life = life, Next
               PROVE  session.atts = settles[k].saw
    BY <1>1
  <2>1. settles \in Seq(SettleRecords) /\ settles[k] \in SettleRecords
    BY <1>1, SettleShape DEF IInv, Types
  <2>2. settles'[k] # settles[k]
    OBVIOUS
  <2>3. \A j \in Jobs : ~Enqueue(j)
    <3> SUFFICES ASSUME NEW j \in Jobs, Enqueue(j), settles' # settles PROVE FALSE
      BY <2>2
    <3>1. PICK new : settles' = Append(settles, new)
      BY DEF Enqueue
    <3>2. settles \in Seq(SettleRecords \cup {new}) /\ k \in 1..Len(settles)
      BY <2>1, LenProperties
    <3>3. settles'[k] = settles[k]
      BY <3>1, <3>2, AppendProperties
    <3> QED BY <2>2, <3>3
  <2>4. PICK l \in DOMAIN settles : SettleStep(l) \/ CrashSettle(l)
    BY <2>2, <2>3 DEF Next, PhotoStep, Command, Work, Crash, Breaks, Expire, Store, ClaimSettle,
       Receipt, Mark, Show, Validate, ClaimTarget, ClaimRetry, Ingest, RecordSource, Propose,
       RecordProposal, ClaimPreview, SendPreview, CompletePreview
  <2>5. Promote(k)
    <3>1. CASE CrashSettle(l)
      <4>1. k # l
        <5> SUFFICES ASSUME k = l PROVE settles'[k].pc = Again(settles[k].tries)
          BY DEF Again
        <5> QED BY <2>1, <3>1 DEF CrashSettle, SettleRecords
      <4> QED BY <2>1, <2>2, <3>1, <4>1 DEF CrashSettle
    <3>2. CASE ClaimPicker(l) \/ SendPicker(l)
      BY <2>1, <2>2, <3>2 DEF ClaimPicker, SendPicker, GotoSettle
    <3>3. CASE Promote(l)
      BY <2>1, <2>2, <3>3 DEF Promote, GotoSettle
    <3> QED BY <2>4, <3>1, <3>2, <3>3 DEF SettleStep
  <2>6. ~GotoSettle(k, "done") /\ ~GotoSettle(k, "failed")
    BY <2>1 DEF GotoSettle, SettleRecords
  <2>7. Exists /\ MayPromote(session, settles[k].version)
    BY <2>5, <2>6 DEF Promote
  <2> QED BY <1>1, <2>7 DEF IInv, Versions, MayPromote
<1> QED BY <1>1, InvariantHolds, PTL DEF Spec, SettlesWhatItSaw
================================================================================
