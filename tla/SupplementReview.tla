--------------------------- MODULE SupplementReview ---------------------------
(***************************************************************************)
(* How pending change requests are reviewed: SupplementReviewOrchestrator  *)
(* with ChangeRequestRepository, the tool that appends to Notion           *)
(* (NotionWriterTool, NotionAPIWriterClient) and the index of pages.       *)
(*                                                                         *)
(* An accept writes to Notion first, reads the page back and stores what   *)
(* it read together with the new status.  Each call runs in a request or   *)
(* a job of some process: calls interleave, their requests to Notion may   *)
(* fail before or after Notion has done them, Notion may show a change     *)
(* late, and a process may die or run out of its time.                     *)
(***************************************************************************)
EXTENDS SupplementProposal

CONSTANTS
  Calls,      \* calls of the review operations, and of index_page
  Scenarios,  \* what is asked for: [job, work, pending, indexed]
  MaxMinutes  \* bound: how far the time Notion puts on an edit gets

(* "none" where nothing is called: not every scenario needs all the calls. *)
Operations == {"accept", "reject", "edit_later", "change_target", "browse", "index",
               "resend-preview", "reconcile-success", "none"}

Rows == [status : {"pending", "accepted", "rejected"}, target : Pages \cup {None}]
Snapshots == [edited : Nat, sections : SUBSET Calls]

(* A request that waits for its review has passed the checks of its kind.  *)
ASSUME SupplementReviewAssumption ==
  /\ MaxMinutes \in Nat \ {0}
  /\ \A s \in Scenarios :
       /\ s.job \in [Requests -> Proposals \cup {None}]
       /\ s.work \in [Calls -> [op : Operations, request : Requests, page : Pages]]
       /\ s.pending \subseteq Requests /\ s.indexed \subseteq Pages
       /\ \A c \in s.pending :
            /\ s.job[c] # None
            /\ s.job[c].source = "screenshot" => \A text \in Drafts[s.job[c].drafts] : Valid(text)
  /\ None \notin Rows \cup Snapshots \cup {"accepted", "rejected", "retargeted"}

VARIABLES
  work,   \* work[k]: what call k asks for: [op, request, page]
  notion, \* notion[p]: the page: [edited, topics, sections, shown]
  clock,  \* the minute
  call    \* call[k]: where call k stands

reviewVars == <<work, notion, clock, call>>
vars == <<proposalVars, request, index, reviewVars>>

NewCall == [pc |-> "new", page |-> None, edited |-> 0, read |-> {},
            did |-> None, audit |-> None, indexAudit |-> None, timedOut |-> FALSE,
            written |-> {}, decided |-> {}]

Op(k) == work[k].op
Request(k) == work[k].request
Row(k) == request[Request(k)]

(* Some requests may be waiting for their review from the start, and some  *)
(* pages are indexed as Notion shows them.                                 *)
Init ==
  \E s \in Scenarios :
    /\ job = s.job
    /\ work = s.work
    /\ draft = [c \in Requests |-> IF c \in s.pending
                  THEN [NewDraft EXCEPT !.pc = "done", !.audit = "succeeded", !.calls = 1,
                                        !.text = CHOOSE t \in Drafts[job[c].drafts] : TRUE]
                  ELSE NewDraft]
    /\ request = [c \in Requests |-> IF c \in s.pending
                    THEN [status |-> "pending", target |-> job[c].target] ELSE None]
    /\ index = [p \in Pages |-> IF p \in s.indexed
                  THEN [edited |-> 1, sections |-> {}] ELSE None]
    /\ notion = [p \in Pages |-> [edited |-> 1, topics |-> {}, sections |-> {}, shown |-> {}]]
    /\ clock = 1
    /\ call = [k \in Calls |-> NewCall]

------------------------------------------------------------------------------
(* Notion, as far as the code relies on it.                                *)

(* The sections of the request of k that the page shows: the last line of  *)
(* a section is the identity of its request.                               *)
ShownSections(k, p) == {j \in notion[p].shown : Request(j) = Request(k)}

Patched(p, t) ==
  /\ clock' \in {clock, clock + 1} /\ clock' <= MaxMinutes
  /\ notion' = [notion EXCEPT ![p] = [t EXCEPT !.edited = clock']]

(* Notion lets readers see what was appended.                              *)
Appear(k) ==
  \E p \in Pages :
    /\ k \in notion[p].sections \ notion[p].shown
    /\ notion' = [notion EXCEPT ![p].shown = @ \cup {k}]
    /\ UNCHANGED <<proposalVars, request, index, work, clock, call>>

------------------------------------------------------------------------------
(* How a call begins and ends.                                             *)

Decided == {j \in Calls : call[j].did # None}

Go(k, pc) == call' = [call EXCEPT ![k].pc = pc]

Refused(k) ==
  \E audit \in {"failed", "running"} :
    call' = [call EXCEPT ![k].pc = "done", ![k].audit = audit]

(* The handler of an indexing error fails the indexing workflow, then the  *)
(* review fails; any of this may fail in turn.                             *)
IndexRefused(k) ==
  \E audits \in {"failed", "running"} \X {"failed", "running"} :
    call' = [call EXCEPT ![k] = [@ EXCEPT !.pc = "done", !.indexAudit = audits[1],
                                          !.audit = audits[2]]]

Indexing == {"blocks", "persist"}

Failure(k) == IF call[k].pc \in Indexing THEN IndexRefused(k) ELSE Refused(k)

(* accept_change_request: the status is read without a lock, and the row,  *)
(* the page and the stored proposal must be usable.                        *)
Parses(c) == ~draft[c].reference /\ draft[c].text # None => draft[c].text.form # "edge"

MayAccept(k) ==
  /\ Row(k) # None /\ Row(k).status = "pending" /\ Row(k).target # None
  /\ Parses(Request(k))

BeginAccept(k) ==
  /\ call[k].pc = "new" /\ Op(k) = "accept"
  /\ IF MayAccept(k)
     THEN call' = [call EXCEPT ![k] =
            [@ EXCEPT !.pc = "lookup", !.audit = "running", !.page = Row(k).target,
                      !.written = ShownSections(k, Row(k).target), !.decided = Decided]]
     ELSE Refused(k)
  /\ UNCHANGED <<proposalVars, request, index, work, notion, clock>>

------------------------------------------------------------------------------
(* append_to_ai_supplement_zone and _verify_append_visibility              *)

(* A section of this request that is on the page already is not written    *)
(* again.                                                                  *)
Lookup(k) ==
  /\ call[k].pc = "lookup"
  /\ Go(k, IF ShownSections(k, call[k].page) # {} THEN "verify" ELSE "topic")
  /\ UNCHANGED <<proposalVars, request, index, work, notion, clock>>

(* The toggles of the zone, the date and the topic.                        *)
OpenTopic(k) ==
  LET p == call[k].page
  IN  /\ call[k].pc = "topic"
      /\ Patched(p, [notion[p] EXCEPT !.topics = @ \cup {k}])
      /\ \/ Go(k, "section")
         \/ Refused(k)  \* the answer is lost
      /\ UNCHANGED <<proposalVars, request, index, work>>

(* All lines of the section, its identity included, in one request.        *)
WriteSection(k) ==
  LET p == call[k].page
  IN  /\ call[k].pc = "section"
      /\ Patched(p, [notion[p] EXCEPT !.sections = @ \cup {k}])
      /\ Go(k, "verify") \/ Refused(k)
      /\ UNCHANGED <<proposalVars, request, index, work>>

Verify(k) ==
  /\ call[k].pc = "verify"
  /\ ShownSections(k, call[k].page) # {}
  /\ Go(k, "page")
  /\ UNCHANGED <<proposalVars, request, index, work, notion, clock>>

------------------------------------------------------------------------------
(* prepare_page_snapshot and persist_prepared_page_snapshot                *)

(* index_page starts its own workflow; an accept starts one here.          *)
BeginIndex(k) ==
  /\ call[k].pc = "new" /\ Op(k) = "index"
  /\ call' = [call EXCEPT ![k] = [@ EXCEPT !.pc = "page", !.page = work[k].page]]
  /\ UNCHANGED <<proposalVars, request, index, work, notion, clock>>

ReadPage(k) ==
  /\ call[k].pc = "page"
  /\ call' = [call EXCEPT ![k] = [@ EXCEPT !.pc = "blocks", !.indexAudit = "running",
                                           !.edited = notion[call[k].page].edited]]
  /\ UNCHANGED <<proposalVars, request, index, work, notion, clock>>

ReadBlocks(k) ==
  /\ call[k].pc = "blocks"
  /\ call' = [call EXCEPT ![k].pc = "persist", ![k].read = notion[call[k].page].shown]
  /\ UNCHANGED <<proposalVars, request, index, work, notion, clock>>

Stale_Unchecked(k) == FALSE  \* mutant: the time is not compared

Stale(k) ==
  /\ index[call[k].page] # None
  /\ call[k].edited < index[call[k].page].edited

Persisted(k) ==
  index' = [index EXCEPT ![call[k].page] = [edited |-> call[k].edited,
                                            sections |-> call[k].read]]

PersistIndex(k) ==
  /\ call[k].pc = "persist" /\ Op(k) = "index" /\ ~Stale(k)
  /\ Persisted(k)
  /\ Go(k, "close")
  /\ UNCHANGED <<proposalVars, request, work, notion, clock>>

(* get_change_request_by_id_for_update, the status once more, the snapshot *)
(* and the new status: one transaction.                                    *)
Revalidated_Trusted(k) == TRUE  \* mutant: the status read first is trusted

Revalidated(k) == Row(k).status = "pending"

Accept(k) ==
  /\ call[k].pc = "persist" /\ Op(k) = "accept"
  /\ Revalidated(k) /\ ~Stale(k)
  /\ Persisted(k)
  /\ request' = [request EXCEPT ![Request(k)].status = "accepted"]
  /\ call' = [call EXCEPT ![k].pc = "close", ![k].did = "accepted"]
  /\ UNCHANGED <<proposalVars, work, notion, clock>>

Refuse(k) ==
  /\ call[k].pc = "persist"
  /\ Stale(k) \/ (Op(k) = "accept" /\ ~Revalidated(k))
  /\ IndexRefused(k)
  /\ UNCHANGED <<proposalVars, request, index, work, notion, clock>>

------------------------------------------------------------------------------
(* reject, edit_later and change_target                                    *)

(* The status is read in the transaction that writes, but without a lock.  *)
ReadStatus(k) ==
  /\ call[k].pc = "new" /\ Op(k) \in {"reject", "edit_later"}
  /\ IF Row(k) # None /\ Row(k).status = "pending"
     THEN call' = [call EXCEPT ![k] = [@ EXCEPT !.pc = "decide", !.audit = "running",
                                                !.decided = Decided]]
     ELSE Refused(k)
  /\ UNCHANGED <<proposalVars, request, index, work, notion, clock>>

(* The update names the row by its id only.                                *)
Reject(k) ==
  /\ call[k].pc = "decide" /\ Op(k) = "reject"
  /\ request' = [request EXCEPT ![Request(k)].status = "rejected"]
  /\ call' = [call EXCEPT ![k].pc = "close", ![k].did = "rejected"]
  /\ UNCHANGED <<proposalVars, index, work, notion, clock>>

(* "pending" over "pending" is no change to flush: nothing is written.     *)
EditLater_OwnStatus(k) ==  \* mutant: the action is taken for a status
  /\ call[k].pc = "decide" /\ Op(k) = "edit_later"
  /\ request' = [request EXCEPT ![Request(k)].status = "edit_later"]
  /\ Go(k, "close")
  /\ UNCHANGED <<proposalVars, index, work, notion, clock>>

EditLater(k) ==
  /\ call[k].pc = "decide" /\ Op(k) = "edit_later"
  /\ Go(k, "close")
  /\ UNCHANGED <<proposalVars, request, index, work, notion, clock>>

(* update_pending_target locks the row; the page has to be indexed.        *)
Retarget(k, p) ==
  IF index[p] # None /\ Row(k) # None /\ Row(k).status = "pending"
  THEN /\ request' = [request EXCEPT ![Request(k)].target = p]
       /\ call' = [call EXCEPT ![k] = [@ EXCEPT !.pc = "close", !.audit = "running",
                                                !.did = "retargeted"]]
  ELSE Refused(k) /\ UNCHANGED request

ChangeTarget(k) ==
  /\ call[k].pc = "new" /\ Op(k) = "change_target"
  /\ Retarget(k, work[k].page)
  /\ UNCHANGED <<proposalVars, index, work, notion, clock>>

------------------------------------------------------------------------------
(* How calls end.                                                          *)

Begun(k) == call[k].pc \notin {"new", "done"}

Close(k) ==
  /\ call[k].pc = "close"
  /\ LET indexed == IF call[k].indexAudit = None THEN {None} ELSE {"succeeded", "running"}
         audited == IF call[k].audit = None THEN {None} ELSE {"succeeded", "running"}
     IN  \E a \in audited, i \in indexed :
           /\ i = "running" => a # "succeeded"  \* its mark came first, and raised
           /\ call' = [call EXCEPT ![k] = [@ EXCEPT !.pc = "done", !.audit = a,
                                                    !.indexAudit = i]]
  /\ UNCHANGED <<proposalVars, request, index, work, notion, clock>>

(* Notion cannot be read or written, the append does not show, embeddings  *)
(* or the database fail.                                                   *)
Fails_Late(k) ==  \* mutant: so is what is raised after the commit
  /\ Begun(k)
  /\ Failure(k)
  /\ UNCHANGED <<proposalVars, request, index, work, notion, clock>>

Fails(k) ==
  /\ Begun(k) /\ call[k].pc # "close"
  /\ Failure(k)
  /\ UNCHANGED <<proposalVars, request, index, work, notion, clock>>

(* The time of the job is up after the commit: the review is audited as    *)
(* failed, the indexing stays as it is.                                    *)
TimedOut(k) ==
  /\ call[k].pc = "close" /\ Op(k) \in {"accept", "reject", "edit_later"}
  /\ \E i \in {call[k].indexAudit} \cup (IF call[k].indexAudit = None THEN {} ELSE {"succeeded"}) :
       call' = [call EXCEPT ![k] = [@ EXCEPT !.pc = "done", !.audit = "failed",
                                             !.indexAudit = i, !.timedOut = TRUE]]
  /\ UNCHANGED <<proposalVars, request, index, work, notion, clock>>

Crash(k) ==
  /\ Begun(k)
  /\ Go(k, "done")
  /\ UNCHANGED <<proposalVars, request, index, work, notion, clock>>

ReviewNext ==
  \E k \in Calls :
    \/ BeginAccept(k) \/ Lookup(k) \/ OpenTopic(k) \/ WriteSection(k) \/ Verify(k)
    \/ BeginIndex(k) \/ ReadPage(k) \/ ReadBlocks(k) \/ PersistIndex(k)
    \/ Accept(k) \/ Refuse(k)
    \/ ReadStatus(k) \/ Reject(k) \/ EditLater(k) \/ ChangeTarget(k)
    \/ Close(k) \/ Fails(k) \/ TimedOut(k) \/ Crash(k) \/ Appear(k)

Next ==
  \/ ReviewNext
  \/ ProposalNext /\ UNCHANGED <<index, reviewVars>>

Spec == Init /\ [][Next]_vars

------------------------------------------------------------------------------
(* Properties.                                                             *)

CallStates ==
  [pc : {"new", "lookup", "topic", "section", "verify", "page", "blocks", "persist",
         "decide", "close", "done"},
   page : Pages \cup {None}, edited : Nat, read : SUBSET Calls,
   did : {None, "accepted", "rejected", "retargeted"},
   audit : {None, "running", "succeeded", "failed"},
   indexAudit : {None, "running", "succeeded", "failed"},
   timedOut : BOOLEAN, written : SUBSET Calls, decided : SUBSET Calls]

(* Every variable keeps the shape the code gives it.                       *)
TypeOK ==
  /\ draft \in [Requests -> DraftStates]
  /\ request \in [Requests -> Rows \cup {None}]
  /\ index \in [Pages -> Snapshots \cup {None}]
  /\ notion \in [Pages -> [edited : Nat, topics : SUBSET Calls,
                           sections : SUBSET Calls, shown : SUBSET Calls]]
  /\ \A p \in Pages : notion[p].shown \subseteq notion[p].sections
  /\ clock \in 1..MaxMinutes
  /\ call \in [Calls -> CallStates]

Did(c, what) == {k \in Calls : Op(k) # "index" /\ Request(k) = c /\ call[k].did = what}

(* A request is decided once, as far as the unlocked reads allow: it is    *)
(* accepted once at most, never after a rejection, a rejection stands, and *)
(* of two decisions neither was known when the other call began.           *)
OneDecision ==
  \A c \in Requests :
    LET accepted == Did(c, "accepted")
        rejected == Did(c, "rejected")
    IN  /\ Cardinality(accepted) <= 1
        /\ rejected # {} => request[c].status = "rejected"
        /\ rejected = {} /\ accepted # {} => request[c].status = "accepted"
        /\ \A k \in accepted \cup rejected :
             call[k].decided \cap (accepted \cup rejected) = {}

(* What was accepted is in Notion, on the page that was the target unless  *)
(* that was changed under the call, and in the index: retrieval finds the  *)
(* section, or a snapshot of the same minute took its place.  No snapshot  *)
(* of a later minute ever lacks it.                                        *)
AcceptedIsIndexed ==
  \A k \in Calls : call[k].did = "accepted" =>
    LET p == call[k].page
        found == {j \in notion[p].shown : Request(j) = Request(k)}
    IN  /\ found # {}
        /\ index[p].edited >= call[k].edited
        /\ found \cap index[p].sections # {} \/ index[p].edited = call[k].edited
        /\ \/ request[Request(k)].target = p
           \/ Did(Request(k), "retargeted") \ call[k].decided # {}

(* A call that begins when the page shows the section of its request does  *)
(* not write another one, however the earlier call ended: lost answers,    *)
(* crashes and failed indexing leave nothing a retry would double.         *)
AppendedOnce ==
  \A p \in Pages : \A k \in notion[p].sections : call[k].written = {}

(* An accepted request is in Notion and in the index, and nothing is       *)
(* appended twice.                                                         *)
AcceptsOnce == AcceptedIsIndexed /\ AppendedOnce

(* A request is decided once, and what is accepted is accepted once.       *)
ReviewsHold == OneDecision /\ AcceptsOnce

(* What a workflow says is what was done: a proposal (ProposalAudited) and *)
(* a call.  Succeeded: its decision was committed.  Failed: it was not,    *)
(* unless the time was up after the commit.  An accept and its indexing    *)
(* commit together.                                                        *)
AuditsTell ==
  /\ ProposalAudited
  /\ \A k \in Calls :
       /\ call[k].audit = "succeeded" /\ Op(k) # "edit_later" => call[k].did # None
       /\ call[k].audit = "failed" /\ ~call[k].timedOut => call[k].did = None
       /\ call[k].indexAudit = "succeeded" /\ Op(k) = "accept" => call[k].did = "accepted"
       /\ call[k].indexAudit = "failed" => call[k].did = None
==============================================================================
