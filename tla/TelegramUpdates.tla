--------------------------- MODULE TelegramUpdates ---------------------------
(***************************************************************************)
(* From a tap on an operator button to its outcome.  Telegram delivers a   *)
(* tap as an update, sometimes more than once; the API process claims the  *)
(* update in the ledger and enqueues a job; an RQ worker takes the one-shot*)
(* token of the button, works on the sync or the index session in Redis,   *)
(* replies, closes its workflow run and then the ledger.  The confirmation *)
(* of a full index only enqueues another job, and an operator may reconcile*)
(* the workflow run of that job by hand.  A worker never reads the ledger: *)
(* what keeps a second run of a job from acting again is the used token.   *)
(***************************************************************************)
EXTENDS Integers, Sequences, FiniteSets

CONSTANTS
  Deliveries,   \* webhook calls Telegram may make
  Scenarios,    \* [session |-> "sync" or "index", selected |-> pages selected so far,
                \*  update, button |-> the update and the button of each delivery]
  MaxSelected,  \* TELEGRAM_SYNC_MAX_SELECTED_PAGES
  MaxTries,     \* runs RQ gives a webhook job (max_retries + 1)
  MaxFaults,    \* crashes, writes that fail and sessions that expire
  None

\* A session begins within its limit of pages, and None is no status of a row.
ASSUME UpdatesAssumption ==
  /\ MaxSelected \in Nat \ {0} /\ MaxTries \in Nat \ {0} /\ MaxFaults \in Nat
  /\ \A s \in Scenarios :
       IsFiniteSet(s.selected) /\ Cardinality(s.selected) <= MaxSelected
  /\ None \notin {"running", "succeeded", "failed"}

VARIABLES
  setup,     \* the scenario: which update and button each delivery carries
  ledger,    \* telegram_update_ledger.status of an update, None without a row
  delivery,  \* where the webhook call is
  job,       \* the webhook job a delivery enqueued
  tokens,    \* buttons whose one-shot token is still in Redis
  pickers,   \* sync pickers rendered
  seen,      \* those that reached the user
  sync,      \* the sync session
  index,     \* the full-index session
  syncs,     \* page sets the incremental indexer was run with
  fullIndex, \* full-index workflow runs created, the status of the last and its job
  operator,  \* reconcile_workflow --apply: where it is
  lost,      \* what a crash or a failed write has left without an owner
  faults     \* spent of MaxFaults

api == <<setup, ledger, delivery>>
redis == <<tokens, pickers, sync, index>>
runs == <<syncs, fullIndex, operator>>
vars == <<api, job, redis, seen, runs, lost, faults>>

UpdateOf(d) == setup.update[d]
ButtonOf(d) == setup.button[d]
Updates == {UpdateOf(d) : d \in Deliveries}
Buttons == {ButtonOf(d) : d \in Deliveries}

NoJob == [pc |-> "none", tries |-> 0, pages |-> {}, result |-> None, picker |-> None]

\* The tap comes from a picker that offers "Confirm" only if a page is selected.
Offered(picker, selected) ==
  {b \in Buttons : b.picker = picker /\ (b.kind = "confirm" => selected # {})}

\* /sync and /index-full made the session and its first picker; some pages may have
\* been toggled since.
StartedSync(selected) == [state |-> "selecting", selected |-> selected]
StartedIndex == [state |-> "warning"]

Init ==
  /\ setup \in Scenarios
  /\ ledger = [u \in Updates |-> None]
  /\ delivery = [d \in Deliveries |-> "none"]
  /\ job = [d \in Deliveries |-> NoJob]
  /\ tokens = Offered(1, setup.selected) /\ pickers = 1 /\ seen = {1}
  /\ sync = IF setup.session = "sync" THEN StartedSync(setup.selected) ELSE None
  /\ index = IF setup.session = "index" THEN StartedIndex ELSE None
  /\ syncs = <<>>
  /\ fullIndex = [runs |-> 0, status |-> None, job |-> "none"]
  /\ operator = "idle"
  /\ lost = [updates |-> {}, redone |-> {}, sync |-> FALSE, index |-> FALSE, push |-> FALSE]
  /\ faults = 0

Fault == faults < MaxFaults /\ faults' = faults + 1

----------------------------------------------------------------------------
(* The API process: claim the update, enqueue the job, answer Telegram.    *)

MarkUpdate(d, status) == ledger' = [ledger EXCEPT ![UpdateOf(d)] = status]

\* Told that the update is queued, failed or in progress, or what the row recorded.
Answered(d) == delivery' = [delivery EXCEPT ![d] = "answered"]

Receive(d) ==
  /\ delivery[d] = "none" /\ ButtonOf(d).picker \in seen
  /\ IF ledger[UpdateOf(d)] = None THEN delivery' = [delivery EXCEPT ![d] = "insert"]
     ELSE Answered(d)
  /\ UNCHANGED <<setup, ledger, job, redis, seen, runs, lost, faults>>

Insert_Overwrites(d) ==  \* mutant: a conflicting row is taken over
  /\ delivery[d] = "insert"
  /\ MarkUpdate(d, "running")
  /\ delivery' = [delivery EXCEPT ![d] = "enqueue"]
  /\ UNCHANGED <<setup, job, redis, seen, runs, lost, faults>>

\* The primary key decides between two deliveries that both found no row.
Insert(d) ==
  /\ delivery[d] = "insert"
  /\ IF ledger[UpdateOf(d)] = None
     THEN /\ MarkUpdate(d, "running")
          /\ delivery' = [delivery EXCEPT ![d] = "enqueue"]
     ELSE Answered(d) /\ UNCHANGED ledger
  /\ UNCHANGED <<setup, job, redis, seen, runs, lost, faults>>

Push(d) == job' = [job EXCEPT ![d] = [NoJob EXCEPT !.pc = "queued", !.tries = 1]]

\* A push that raises may have reached Redis all the same.
Enqueue(d) ==
  /\ delivery[d] = "enqueue"
  /\ \/ Push(d) /\ Answered(d) /\ UNCHANGED <<lost, faults>>
     \/ /\ Fault /\ delivery' = [delivery EXCEPT ![d] = "unqueued"]
        /\ \/ UNCHANGED <<job, lost>>
           \/ Push(d) /\ lost' = [lost EXCEPT !.redone = @ \cup {UpdateOf(d)}]
  /\ UNCHANGED <<setup, ledger, redis, seen, runs>>

Unqueued_KeepsRow(d) ==  \* mutant: the claim is not given up
  /\ delivery[d] = "unqueued" /\ Answered(d)
  /\ UNCHANGED <<setup, ledger, job, redis, seen, runs, lost, faults>>

Unqueued(d) ==
  /\ delivery[d] = "unqueued"
  /\ \/ /\ MarkUpdate(d, "failed")
        /\ Answered(d) /\ UNCHANGED <<lost, faults>>
     \/ /\ Fault /\ Answered(d) /\ UNCHANGED ledger
        /\ lost' = [lost EXCEPT !.updates = @ \cup {UpdateOf(d)}]
  /\ UNCHANGED <<setup, job, redis, seen, runs>>

CrashApi(d) ==
  /\ delivery[d] \in {"insert", "enqueue", "unqueued"} /\ Fault
  /\ Answered(d)
  /\ lost' = IF delivery[d] = "insert" THEN lost
             ELSE [lost EXCEPT !.updates = @ \cup {UpdateOf(d)}]
  /\ UNCHANGED <<setup, ledger, job, redis, seen, runs>>

----------------------------------------------------------------------------
(* The webhook job: take the token, do what the button says.               *)

At(d, pc) == job[d].pc = pc
Goto(d, pc) == job' = [job EXCEPT ![d].pc = pc]
Acting(d, kind) == At(d, "act") /\ ButtonOf(d).kind = kind

TakeToken(b) == tokens' = tokens \ {b}

\* Resolving the token and deleting it fail alike: the button was used or expired.
ClaimCallback(d) ==
  /\ At(d, "queued")
  /\ IF ButtonOf(d) \in tokens
     THEN TakeToken(ButtonOf(d)) /\ Goto(d, "act")
     ELSE Goto(d, "fail") /\ UNCHANGED tokens
  /\ UNCHANGED <<api, pickers, sync, index, seen, runs, lost, faults>>

Toggled_NoLimit(page) ==  \* mutant: the number of pages is not bounded
  IF sync = None \/ sync.state # "selecting" THEN None
  ELSE IF page \in sync.selected THEN sync.selected \ {page} ELSE sync.selected \cup {page}

\* toggle_page of the store; None where it refuses.
Toggled(page) ==
  IF sync = None \/ sync.state # "selecting" THEN None
  ELSE IF page \in sync.selected THEN sync.selected \ {page}
  ELSE IF Cardinality(sync.selected) >= MaxSelected THEN None
  ELSE sync.selected \cup {page}

\* A toggle renders a new picker; the buttons of the old ones stay live.
Toggle(d) ==
  /\ Acting(d, "toggle")
  /\ LET selected == Toggled(ButtonOf(d).page) IN
     IF selected = None THEN Goto(d, "fail") /\ UNCHANGED <<sync, tokens, pickers>>
     ELSE /\ sync' = [sync EXCEPT !.selected = selected]
          /\ pickers' = pickers + 1
          /\ tokens' = tokens \cup Offered(pickers + 1, selected)
          /\ job' = [job EXCEPT ![d].pc = "reply", ![d].picker = pickers + 1]
  /\ UNCHANGED <<api, index, seen, runs, lost, faults>>

MayConfirm_Again(s) == s.selected # {}  \* mutant: the state is not asked for

MayConfirm(s) == s.state = "selecting" /\ s.selected # {}

Confirm(d) ==
  /\ Acting(d, "confirm")
  /\ IF sync # None /\ MayConfirm(sync)
     THEN /\ sync' = [sync EXCEPT !.state = "processing"]
          /\ job' = [job EXCEPT ![d].pc = "sync", ![d].pages = sync.selected]
     ELSE /\ Goto(d, IF sync = None \/ sync.state = "selecting" THEN "fail" ELSE "reply")
          /\ UNCHANGED sync
  /\ UNCHANGED <<api, tokens, pickers, index, seen, runs, lost, faults>>

\* sync_pages: every page, some, none, or an exception nobody maps (a timeout,
\* an audit write that failed), after which the session stays as it is.
SyncPages(d) ==
  /\ At(d, "sync") /\ syncs' = Append(syncs, job[d].pages)
  /\ \/ /\ \E result \in {"succeeded", "partially_failed", "failed"} :
             job' = [job EXCEPT ![d].pc = "synced", ![d].result = result]
        /\ UNCHANGED lost
     \/ Goto(d, "fail") /\ lost' = [lost EXCEPT !.sync = TRUE]
  /\ UNCHANGED <<api, redis, seen, fullIndex, operator, faults>>

CompleteSync(d) ==
  /\ At(d, "synced")
  /\ sync' = IF sync = None THEN None ELSE [sync EXCEPT !.state = job[d].result]
  /\ Goto(d, "reply")
  /\ UNCHANGED <<api, tokens, pickers, index, seen, runs, lost, faults>>

\* A claimed session is not cancelled any more, whatever the reply says.
Cancelled(s, open) == IF s.state = open THEN [s EXCEPT !.state = "cancelled"] ELSE s

\* "No pages were changed" is the reply in every state but a missing session's.
CancelSync(d) ==
  /\ Acting(d, "cancel")
  /\ IF sync = None THEN Goto(d, "fail") /\ UNCHANGED sync
     ELSE /\ Goto(d, "reply")
          /\ sync' = Cancelled(sync, "selecting")
  /\ UNCHANGED <<api, tokens, pickers, index, seen, runs, lost, faults>>

MayClaimIndex(s) == s.state = "warning"
ConfirmIndex(d) ==
  /\ Acting(d, "index")
  /\ IF index # None /\ MayClaimIndex(index)
     THEN index' = [index EXCEPT !.state = "processing"] /\ Goto(d, "start")
     ELSE Goto(d, IF index = None THEN "fail" ELSE "reply") /\ UNCHANGED index
  /\ UNCHANGED <<api, tokens, pickers, sync, seen, runs, lost, faults>>

CancelIndex(d) ==
  /\ Acting(d, "index_cancel")
  /\ IF index = None THEN Goto(d, "fail") /\ UNCHANGED index
     ELSE /\ Goto(d, "reply")
          /\ index' = Cancelled(index, "warning")
  /\ UNCHANGED <<api, tokens, pickers, sync, seen, runs, lost, faults>>

SetIndex(state) == index' = IF index = None THEN None ELSE [index EXCEPT !.state = state]

StartIndex(d) ==
  /\ At(d, "start") /\ Goto(d, "mark_queued")
  /\ fullIndex' = [fullIndex EXCEPT !.runs = @ + 1, !.status = "running"]
  /\ UNCHANGED <<api, redis, seen, syncs, operator, lost, faults>>

MarkIndexQueued(d) ==
  /\ At(d, "mark_queued") /\ Goto(d, "push") /\ SetIndex("running")
  /\ UNCHANGED <<api, tokens, pickers, sync, seen, runs, lost, faults>>

EnqueueIndex(d) ==
  /\ At(d, "push")
  /\ \/ /\ fullIndex' = [fullIndex EXCEPT !.job = "queued"] /\ UNCHANGED <<lost, faults>>
        /\ Goto(d, "reply")
     \/ /\ Fault /\ Goto(d, "unpushed") /\ lost' = [lost EXCEPT !.push = TRUE]
        /\ fullIndex' \in {fullIndex, [fullIndex EXCEPT !.job = "queued"]}
  /\ UNCHANGED <<api, redis, seen, syncs, operator>>

\* The run is marked failed if that write goes through; the session always is.
UnqueuedIndex(d) ==
  /\ At(d, "unpushed") /\ Goto(d, "fail") /\ SetIndex("failed")
  /\ \/ fullIndex' = [fullIndex EXCEPT !.status = "failed"] /\ UNCHANGED <<lost, faults>>
     \/ Fault /\ lost' = [lost EXCEPT !.index = TRUE] /\ UNCHANGED fullIndex
  /\ UNCHANGED <<api, tokens, pickers, sync, seen, syncs, operator>>

----------------------------------------------------------------------------
(* The end of a job: reply, workflow run, ledger, and back to RQ.          *)

Reply(d) ==
  /\ At(d, "reply")
  /\ \/ Goto(d, "audit") /\ seen' = seen \cup ({job[d].picker} \ {None})
     \/ Goto(d, "fail") /\ UNCHANGED seen
  /\ UNCHANGED <<api, redis, runs, lost, faults>>

\* RQ runs a job that raised again from the start, if it has a try left.
Raise(d) ==
  IF job[d].tries < MaxTries
  THEN /\ job' = [job EXCEPT ![d] = [NoJob EXCEPT !.pc = "queued", !.tries = job[d].tries + 1]]
       /\ lost' = [lost EXCEPT !.redone = @ \cup {UpdateOf(d)},
                               !.sync = @ \/ job[d].pc \in {"sync", "synced"},
                               !.index = @ \/ job[d].pc \in {"mark_queued", "push", "unpushed"}]
  ELSE /\ Goto(d, "dead")
       /\ lost' = [lost EXCEPT !.updates = @ \cup {UpdateOf(d)},
                               !.sync = @ \/ job[d].pc \in {"sync", "synced"},
                               !.index = @ \/ job[d].pc \in {"mark_queued", "push", "unpushed"}]

Audit(d) ==
  /\ At(d, "audit")
  /\ \/ Goto(d, "succeed") /\ UNCHANGED <<lost, ledger, faults>>
     \/ Fault /\ MarkUpdate(d, "failed") /\ Raise(d)
  /\ UNCHANGED <<setup, delivery, redis, seen, runs>>

\* A ledger that cannot be written now is not written later: the job completes.
Succeed(d) ==
  /\ At(d, "succeed") /\ Goto(d, "return")
  /\ \/ MarkUpdate(d, "succeeded") /\ UNCHANGED <<lost, faults>>
     \/ Fault /\ lost' = [lost EXCEPT !.updates = @ \cup {UpdateOf(d)}] /\ UNCHANGED ledger
  /\ UNCHANGED <<setup, delivery, redis, seen, runs>>

Fail(d) ==
  /\ At(d, "fail")
  /\ \/ /\ MarkUpdate(d, "failed")
        /\ Goto(d, "return") /\ UNCHANGED <<lost, faults>>
     \/ Fault /\ Raise(d) /\ UNCHANGED ledger
  /\ UNCHANGED <<setup, delivery, redis, seen, runs>>

Return(d) ==
  /\ At(d, "return") /\ Goto(d, "done")
  /\ UNCHANGED <<api, redis, seen, runs, lost, faults>>

Idle == {"none", "queued", "done", "dead"}
CrashJob(d) ==
  /\ job[d].pc \notin Idle /\ Fault /\ Raise(d)
  /\ UNCHANGED <<api, redis, seen, runs>>

----------------------------------------------------------------------------
(* The full-index job, which RQ never runs twice, and the operator.        *)

RunIndex ==
  /\ fullIndex.job = "queued"
  /\ fullIndex' = [fullIndex EXCEPT !.job = "running"]
  /\ UNCHANGED <<api, job, redis, seen, syncs, operator, lost, faults>>

FinishIndex ==
  /\ fullIndex.job = "running"
  /\ \/ /\ \E status \in {"succeeded", "failed"} :
             fullIndex' = [fullIndex EXCEPT !.job = "done", !.status = status]
        /\ UNCHANGED <<lost, faults>>
     \/ /\ Fault /\ fullIndex' = [fullIndex EXCEPT !.job = "done"]
        /\ lost' = [lost EXCEPT !.index = TRUE]
  /\ UNCHANGED <<api, job, redis, seen, syncs, operator>>

CrashIndex ==
  /\ fullIndex.job = "running" /\ Fault
  /\ fullIndex' = [fullIndex EXCEPT !.job = "dead"] /\ lost' = [lost EXCEPT !.index = TRUE]
  /\ UNCHANGED <<api, job, redis, seen, syncs, operator>>

\* Any run that is old enough; the threshold of the command line may be small.
ReconcileRead ==
  /\ operator = "idle" /\ fullIndex.status = "running"
  /\ operator' = "read"
  /\ UNCHANGED <<api, job, redis, seen, syncs, fullIndex, lost, faults>>

ReconcileWrite ==
  /\ operator = "read" /\ operator' = "done"
  /\ \E status \in {"succeeded", "failed"} : fullIndex' = [fullIndex EXCEPT !.status = status]
  /\ UNCHANGED <<api, job, redis, seen, syncs, lost, faults>>

\* Ten minutes without a write: a session somebody holds a claim on is younger.
Held == {"sync", "synced", "start", "mark_queued", "push", "unpushed"}
Expire ==
  /\ \A d \in Deliveries : job[d].pc \notin Held
  /\ Fault
  /\ tokens' = {} /\ sync' \in {sync, None} /\ index' \in {index, None}
  /\ UNCHANGED <<api, job, pickers, seen, runs, lost>>

----------------------------------------------------------------------------
Api(d) == Insert(d) \/ Enqueue(d) \/ Unqueued(d)
Act(d) ==
  \/ Toggle(d) \/ Confirm(d) \/ SyncPages(d) \/ CompleteSync(d) \/ CancelSync(d)
  \/ ConfirmIndex(d) \/ CancelIndex(d) \/ StartIndex(d) \/ MarkIndexQueued(d)
  \/ EnqueueIndex(d) \/ UnqueuedIndex(d)
Work(d) ==
  \/ ClaimCallback(d) \/ Act(d)
  \/ Reply(d) \/ Audit(d) \/ Succeed(d) \/ Fail(d) \/ Return(d)
IndexJob == RunIndex \/ FinishIndex

Next ==
  \/ \E d \in Deliveries : Receive(d) \/ Api(d) \/ CrashApi(d) \/ Work(d) \/ CrashJob(d)
  \/ IndexJob \/ CrashIndex \/ ReconcileRead \/ ReconcileWrite \/ Expire

\* A request that began is answered and a worker takes every job; nothing makes a
\* user tap, Telegram deliver again, an operator reconcile or a session expire.
Fairness ==
  /\ \A d \in Deliveries : WF_vars(Api(d) \/ Work(d))
  /\ WF_vars(IndexJob)

Spec == Init /\ [][Next]_vars /\ Fairness

----------------------------------------------------------------------------
(* Properties. *)

SyncStates == {"selecting", "processing", "cancelled", "succeeded", "partially_failed", "failed"}
IndexStates == {"warning", "processing", "running", "cancelled", "failed"}

\* The rows and records have the states the code assigns; the full-index session
\* is never completed by the job that was queued, so "running" is where it ends.
TypeOK ==
  /\ \A u \in Updates : ledger[u] \in {None, "running", "succeeded", "failed"}
  /\ sync # None => sync.state \in SyncStates /\ Cardinality(sync.selected) <= MaxSelected
  /\ index # None => index.state \in IndexStates
  /\ fullIndex.status \in {None, "running", "succeeded", "failed"}
  /\ \A d \in Deliveries : job[d].tries \in 0..MaxTries
  /\ faults \in 0..MaxFaults

\* However often an update is delivered, a button tapped and a job run again: an
\* update has one job, a session is synchronised at most once, with the pages it
\* names and never after a cancellation, and one full index is started at most.
OncePerSession ==
  /\ \A c, d \in Deliveries :
       job[c] # NoJob /\ job[d] # NoJob /\ UpdateOf(c) = UpdateOf(d) => c = d
  /\ Len(syncs) <= 1 /\ fullIndex.runs <= 1
  /\ \A c, d \in Deliveries :
       job[c].pc \in {"sync", "synced"} /\ job[d].pc \in {"sync", "synced"} => c = d
  /\ sync # None /\ syncs # <<>> => syncs[1] = sync.selected
  /\ sync # None /\ sync.state = "cancelled" => syncs = <<>>
  /\ index # None /\ index.state = "cancelled" => fullIndex.runs = 0

\* An outcome that was recorded stays: the ledger of an update changes it only for
\* an update whose job ran again or was enqueued although the push raised, and
\* the workflow run of a full index only where the operator's write and the job's
\* crossed, or where the job ran although its push had raised.
OutcomesStay ==
  [][/\ \A u \in Updates :
          ledger[u] \in {"succeeded", "failed"} /\ ledger'[u] # ledger[u] => u \in lost.redone
     /\ fullIndex.status \in {"succeeded", "failed"} /\ fullIndex'.status # fullIndex.status
          => operator' = "done" \/ lost.push]_vars

\* Nothing claimed stays claimed but what a crash or a failed write disowned: an
\* update leaves "running", a sync its session and a full index its run.
ClaimsEnd ==
  /\ \A d \in Deliveries :
       ledger[UpdateOf(d)] = "running" ~> ledger[UpdateOf(d)] # "running" \/ UpdateOf(d) \in lost.updates
  /\ (sync # None /\ sync.state = "processing") ~>
       sync = None \/ sync.state # "processing" \/ lost.sync
  /\ fullIndex.status = "running" ~> fullIndex.status # "running" \/ lost.index
=============================================================================
