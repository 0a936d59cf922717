---------------------------- MODULE SupplementProof ----------------------------
(***************************************************************************)
(* Proofs about proposals, their reviews, the choice of a target and the   *)
(* repair of an outcome (SpecWithRecovery), for any requests, pages,       *)
(* calls, drafts and texts.  The invariant follows a change request:       *)
(* Drafted says what a proposal at each place has passed and paid for,     *)
(* Shaped what a call at each place has done, Decisions how the calls      *)
(* about one request know of each other, Timely what the readings of a     *)
(* page can lack, Appended when a section is written, Repaired what an     *)
(* operator has seen.  What the picker shows is proved below, of any rows. *)
(***************************************************************************)
EXTENDS OutcomeRecovery, ListLemmas, TLAPS

allVars == <<vars, pickerVars, recoveryVars>>

Types ==
  /\ TypeOK
  /\ job \in [Requests -> Proposals \cup {None}]
  /\ work \in [Calls -> [op : Operations, request : Requests, page : Pages]]

-------------------------------------------------------------------------------
(* The proposals.                                                          *)

Grounded(c) ==
  Screenshot(c) /\ ~draft[c].reference => draft[c].text \in Texts /\ Valid(draft[c].text)

(* What the model was asked for: a text, and the repair of parts.          *)
Paid(d) ==
  /\ d.pc \in {"new", "search", "write"} => d.calls = 0 /\ d.repaired = {}
  /\ d.pc = "title" => d.calls = 1 /\ d.repaired = {}
  /\ d.pc \in {"summary", "body"} =>
       \/ d.calls = 1 /\ d.repaired = {}
       \/ d.calls = 2 /\ d.repaired = {"title"}
  /\ ~({"summary", "body"} \subseteq d.repaired)
  /\ d.calls <= 1 + Cardinality(d.repaired)

DraftHolds(c) ==
  /\ Paid(draft[c])
  /\ draft[c].pc # "new" => job[c] # None
  /\ draft[c].pc \in {"title", "summary", "body"} => draft[c].text # None
  /\ draft[c].pc \in {"dedupe", "store"} => Grounded(c)
  /\ draft[c].pc = "close" => request[c] # None
  /\ draft[c].pc = "new" => draft[c].audit = None
  /\ draft[c].pc \notin {"new", "done"} => draft[c].audit = "running"
  /\ draft[c].audit = "succeeded" => request[c] # None
  /\ request[c] # None =>
       /\ draft[c].pc \in {"close", "done"} /\ Grounded(c)
       /\ draft[c].audit = "failed" => draft[c].late

Drafted == \A c \in Requests : DraftHolds(c)

-------------------------------------------------------------------------------
(* The calls.                                                              *)

Appending == {"lookup", "topic", "section", "verify"}
Reading == {"page", "blocks", "persist"}

(* What a call r that asks for op has done at its place.                   *)
Shape(op, r) ==
  /\ r.pc = "new" => r = NewCall
  /\ r.pc \in Appending => op = "accept"
  /\ r.pc \in Reading => op \in {"accept", "index"}
  /\ r.pc \in Appending \cup Reading => r.page # None
  /\ r.pc = "decide" => op \in {"reject", "edit_later"}
  /\ r.pc \notin {"close", "done"} => r.did = None
  /\ r.pc # "done" => r.audit \in {None, "running"} /\ r.indexAudit \in {None, "running"}
  /\ r.pc = "close" => r.did # None \/ op \in {"index", "edit_later"}
  /\ r.did = "accepted" => op = "accept" /\ r.page # None
  /\ r.did = "rejected" => op = "reject"
  /\ r.did = "retargeted" => op \in {"change_target", "browse"}
  /\ op = "index" => r.audit \in {None, "failed", "running"} /\ (r.pc # "done" => r.audit = None)
  /\ r.audit = "succeeded" /\ op # "edit_later" => r.did # None
  /\ r.audit = "failed" /\ ~r.timedOut => r.did = None
  /\ r.indexAudit = "succeeded" /\ op = "accept" => r.did = "accepted"
  /\ r.indexAudit = "failed" => r.did = None

Shaped ==
  \A k \in Calls :
    /\ Shape(Op(k), call[k])
    /\ call[k].pc = "decide" \/ call[k].did # None => Row(k) # None
    /\ Op(k) = "accept" /\ call[k].page # None => Row(k) # None

(* The calls about one request: what one has decided the others find.      *)
Decisions ==
  /\ \A k \in Calls : \A j \in call[k].decided :
       /\ call[j].did # None
       /\ Op(j) # "index" /\ Request(j) = Request(k) => call[j].did = "retargeted"
  /\ \A k \in Calls :
       /\ call[k].did = "rejected" => Row(k).status = "rejected"
       /\ call[k].did = "accepted" =>
            /\ Row(k).status \in {"accepted", "rejected"}
            /\ Row(k).status = "rejected" =>
                 \E j \in Calls : Request(j) = Request(k) /\ call[j].did = "rejected"
       /\ Op(k) = "accept" /\ call[k].page # None =>
            \/ Row(k).target = call[k].page
            \/ \E j \in Calls \ call[k].decided :
                 Request(j) = Request(k) /\ call[j].did = "retargeted"
  /\ \A k, j \in Calls :
       call[k].did = "accepted" /\ call[j].did = "accepted" /\ Request(k) = Request(j) => k = j

(* An accept has seen its section; a snapshot with a later time than its   *)
(* own was begun after that, and has the section.                          *)
Accepting(k) == Op(k) = "accept" /\ call[k].pc \in Reading
HasRead(k) == Accepting(k) /\ call[k].pc # "page"

Timely ==
  /\ \A p \in Pages :
       /\ notion[p].edited <= clock
       /\ index[p] # None => index[p].edited <= notion[p].edited
  /\ \A k \in Calls :
       /\ call[k].pc \in {"blocks", "persist"} => call[k].edited <= notion[call[k].page].edited
       /\ Accepting(k) \/ call[k].did = "accepted" => ShownSections(k, call[k].page) # {}
       /\ call[k].did = "accepted" =>
            index[call[k].page] # None /\ index[call[k].page].edited >= call[k].edited
       /\ HasRead(k) \/ call[k].did = "accepted" =>
            /\ index[call[k].page] # None /\ index[call[k].page].edited > call[k].edited =>
                 index[call[k].page].sections \cap ShownSections(k, call[k].page) # {}
            /\ \A i \in Calls :
                 /\ call[i].pc = "persist" /\ call[i].page = call[k].page
                 /\ call[i].edited > call[k].edited
                 => call[i].read \cap ShownSections(k, call[k].page) # {}

(* A section is written by a call that found none when it began.           *)
Appended ==
  /\ \A p \in Pages : \A k \in notion[p].sections :
       call[k].pc # "new" /\ call[k].written = {}
  /\ \A k \in Calls :
       /\ call[k].pc \in {"topic", "section"} => call[k].written = {}
       /\ Op(k) = "accept" /\ call[k].page # None =>
            call[k].written \subseteq ShownSections(k, call[k].page)

(* The script of an operator: both rows of an update end together, and it  *)
(* goes on only after a look that found nothing decided or repaired.       *)
Repaired ==
  /\ \A c \in Requests :
       outcome[c] \in {None, UpdateFailed, [workflow |-> "succeeded", ledger |-> "succeeded"]}
  /\ outcome \in [Requests -> [workflow : {"failed", "succeeded"},
                               ledger : {"failed", "succeeded"}] \cup {None}]
  /\ recovery \in [Calls -> [pc : {"new", "preview", "send", "inspect", "check", "write", "done"},
                             late : {None, "first", "second"}, shown : BOOLEAN, wrote : BOOLEAN]]
  /\ \A k \in Calls :
       /\ recovery[k].pc = "new" => recovery[k] = NewRecovery
       /\ recovery[k].pc # "done" \/ recovery[k].wrote => recovery[k].late = None
       /\ recovery[k].pc # "done" => ~recovery[k].wrote
       /\ recovery[k].pc = "preview" => ~recovery[k].shown
       /\ recovery[k].late = "first" => ~recovery[k].shown
       /\ recovery[k].pc \in {"inspect", "check", "write"} \/ recovery[k].wrote =>
            Op(k) # "resend-preview" \/ recovery[k].shown

IInv == Types /\ Drafted /\ Shaped /\ Decisions /\ Timely /\ Appended /\ Repaired

-------------------------------------------------------------------------------
LEMMA NoneIsNothing ==
  None \notin Pages \cup Texts \cup Proposals \cup Rows \cup Snapshots
              \cup {"running", "succeeded", "failed", "accepted", "rejected", "retargeted"}
BY SupplementProposalAssumption, SupplementReviewAssumption

LEMMA Minutes == MaxMinutes \in Nat \ {0}
BY SupplementReviewAssumption

LEMMA InitIInv == RecoveryInit => IInv
<1> SUFFICES ASSUME RecoveryInit PROVE IInv
  OBVIOUS
<1>1. PICK s \in Scenarios :
        /\ job = s.job
        /\ work = s.work
        /\ draft = [c \in Requests |-> IF c \in s.pending
                      THEN [NewDraft EXCEPT !.pc = "done", !.audit = "succeeded", !.calls = 1,
                                            !.text = CHOOSE t \in Drafts[job[c].drafts] : TRUE]
                      ELSE NewDraft]
        /\ request = [c \in Requests |-> IF c \in s.pending
                        THEN [status |-> "pending", target |-> job[c].target] ELSE None]
        /\ index = [p \in Pages |-> IF p \in s.indexed
                      THEN [edited |-> 1, sections |-> {}] ELSE None]
        /\ notion = [p \in Pages |-> [edited |-> 1, topics |-> {}, sections |-> {}, shown |-> {}]]
        /\ clock = 1
        /\ call = [k \in Calls |-> NewCall]
  BY DEF RecoveryInit, PickerInit, Init
<1>2. /\ job \in [Requests -> Proposals \cup {None}]
      /\ work \in [Calls -> [op : Operations, request : Requests, page : Pages]]
  BY <1>1, SupplementReviewAssumption
<1>3. ASSUME NEW c \in s.pending
      PROVE  /\ c \in Requests /\ job[c] \in Proposals /\ job[c] # None
             /\ draft[c] \in DraftStates
             /\ draft[c].text \in Texts /\ (Screenshot(c) => Valid(draft[c].text))
             /\ draft[c].pc = "done" /\ draft[c].calls = 1 /\ draft[c].repaired = {}
             /\ draft[c].audit = "succeeded" /\ ~draft[c].reference
  <2> DEFINE text == CHOOSE t \in Drafts[job[c].drafts] : TRUE
  <2>1. c \in Requests /\ job[c] # None /\ job[c] \in Proposals
    BY <1>1, <1>2, <1>3, SupplementReviewAssumption
  <2>2. job[c].drafts \in DOMAIN Drafts
    BY <2>1 DEF Proposals
  <2>3. text \in Drafts[job[c].drafts]
    BY <2>2, SupplementProposalAssumption
  <2>4. text \in Texts
    BY <2>2, <2>3, SupplementProposalAssumption
  <2>5. Screenshot(c) => Valid(text)
    BY <1>1, <1>3, <2>3, SupplementReviewAssumption DEF Screenshot
  <2>6. draft[c] = [pc |-> "done", text |-> text, reference |-> FALSE, calls |-> 1,
                    repaired |-> {}, audit |-> "succeeded", late |-> FALSE]
    BY <1>1, <1>3, <2>1 DEF NewDraft
  <2> HIDE DEF text
  <2>7. draft[c] \in DraftStates
    BY <2>4, <2>6 DEF DraftStates
  <2> QED BY <2>1, <2>4, <2>5, <2>6, <2>7
<1>4. \A c \in Requests \ s.pending : draft[c] = NewDraft /\ request[c] = None
  BY <1>1
<1>5. \A c \in s.pending : request[c] \in Rows /\ request[c] # None /\ request[c].status = "pending"
  <2> SUFFICES ASSUME NEW c \in s.pending
               PROVE  request[c] \in Rows /\ request[c] # None /\ request[c].status = "pending"
    OBVIOUS
  <2>1. request[c] = [status |-> "pending", target |-> job[c].target]
    BY <1>1, <1>3
  <2>2. request[c] \in Rows
    <3>1. job[c].target \in Pages \cup {None}
      BY <1>3 DEF Proposals
    <3> QED BY <2>1, <3>1 DEF Rows
  <2> QED BY <2>1, <2>2, NoneIsNothing
<1>6. \A k \in Calls : call[k] = NewCall
  BY <1>1
<1>7. Types
  <2>1. draft \in [Requests -> DraftStates]
    <3>1. NewDraft \in DraftStates
      BY DEF NewDraft, DraftStates
    <3> QED BY <1>1, <1>3, <1>4, <3>1
  <2>2. request \in [Requests -> Rows \cup {None}]
    BY <1>1, <1>4, <1>5
  <2>3. index \in [Pages -> Snapshots \cup {None}]
    BY <1>1 DEF Snapshots
  <2>4. /\ notion \in [Pages -> [edited : Nat, topics : SUBSET Calls,
                                 sections : SUBSET Calls, shown : SUBSET Calls]]
        /\ \A p \in Pages : notion[p].shown \subseteq notion[p].sections
    BY <1>1
  <2>5. clock \in 1..MaxMinutes
    <3>1. clock = 1
      BY <1>1
    <3>2. 1 \in 1..MaxMinutes
      BY Minutes
    <3> QED BY <3>1, <3>2
  <2>6. call \in [Calls -> CallStates]
    BY <1>1 DEF NewCall, CallStates
  <2> QED BY <1>2, <2>1, <2>2, <2>3, <2>4, <2>5, <2>6 DEF Types, TypeOK
<1>8. Drafted
  <2>1. Cardinality({}) = 0
    BY FS_EmptySet
  <2>2. ASSUME NEW c \in s.pending
        PROVE  Paid(draft[c]) /\ Grounded(c) /\ job[c] # None
    <3>1. draft[c].repaired = {} /\ draft[c].calls = 1
      BY <1>3
    <3>2. Cardinality(draft[c].repaired) = 0
      BY <2>1, <3>1, Zenon
    <3>3. draft[c].calls <= 1 + Cardinality(draft[c].repaired)
      BY <3>1, <3>2
    <3> QED BY <1>3, <3>3 DEF Paid, Grounded
  <2>3. Paid(NewDraft) /\ NewDraft.pc = "new" /\ NewDraft.audit = None
    BY <2>1 DEF Paid, NewDraft
  <2>4. None # "succeeded"
    BY NoneIsNothing
  <2> QED BY <1>3, <1>4, <1>5, <2>2, <2>3, <2>4 DEF Drafted, DraftHolds
<1>9. Shaped
  <2>1. NewCall.pc = "new" /\ NewCall.did = None /\ NewCall.page = None
        /\ NewCall.audit = None /\ NewCall.indexAudit = None
    BY DEF NewCall
  <2>2. \A op : Shape(op, NewCall)
    BY <2>1, NoneIsNothing DEF Shape, Appending, Reading
  <2> QED BY <1>6, <2>1, <2>2 DEF Shaped
<1>10. Decisions
  BY <1>6, NoneIsNothing DEF Decisions, NewCall
<1>11. Timely
  <2>1. \A p \in Pages : index[p] # None => index[p].edited = 1
    BY <1>1
  <2>2. \A k \in Calls : call[k].pc = "new" /\ call[k].did = None
    BY <1>6 DEF NewCall
  <2>3. \A p \in Pages : notion[p].edited = 1
    BY <1>1
  <2>4. clock = 1
    BY <1>1
  <2> QED BY <2>1, <2>2, <2>3, <2>4, NoneIsNothing DEF Timely, Accepting, HasRead, Reading
<1>12. Appended
  BY <1>1, <1>6 DEF Appended, NewCall
<1>13. Repaired
  BY OutcomeRecoveryAssumption DEF RecoveryInit, Repaired, UpdateFailed, NewRecovery
<1> QED BY <1>7, <1>8, <1>9, <1>10, <1>11, <1>12, <1>13 DEF IInv

-------------------------------------------------------------------------------
(* Proposals.                                                              *)

LEMMA DraftFrame ==
  ASSUME IInv, NEW c \in Requests, NEW d \in DraftStates, draft' = [draft EXCEPT ![c] = d],
         UNCHANGED <<job, index, reviewVars, pickerVars, recoveryVars>>,
         \/ UNCHANGED request
         \/ request[c] = None /\ \E row \in Rows : request' = [request EXCEPT ![c] = row],
         DraftHolds(c)'
  PROVE  IInv'
<1> USE DEF IInv
<1>1. /\ \A b \in Requests \ {c} : draft'[b] = draft[b] /\ request'[b] = request[b]
      /\ UNCHANGED <<job, work, index, notion, clock, call, outcome, recovery>>
      /\ request \in [Requests -> Rows \cup {None}]
  BY DEF Types, TypeOK, reviewVars, recoveryVars
<1>2. Drafted'
  BY <1>1 DEF Drafted, DraftHolds, Grounded, Screenshot
<1>3. Types'
  BY <1>1 DEF Types, TypeOK
<1>4. \A k \in Calls : Request(k) \in Requests
  BY DEF Types, Request
<1>5. \A k \in Calls : Row(k) # None => Row(k)' = Row(k) /\ Row(k)' # None
  BY <1>1, <1>4 DEF Row, Request
<1>6. Shaped'
  BY <1>1, <1>5 DEF Shaped, Op
<1>7. Decisions'
  <2>1. \A k \in Calls : call[k].did # None \/ (Op(k) = "accept" /\ call[k].page # None) =>
          Row(k)' = Row(k)
    BY <1>5 DEF Shaped
  <2>2. \A k \in Calls : Request(k)' = Request(k) /\ Op(k)' = Op(k) /\ call'[k] = call[k]
    BY <1>1 DEF Request, Op
  <2>3. None # "accepted" /\ None # "rejected" /\ \A k \in Calls : call[k].decided \subseteq Calls
    BY NoneIsNothing DEF Types, TypeOK, CallStates
  <2> QED BY <2>1, <2>2, <2>3 DEF Decisions
<1>8. Timely' /\ Appended' /\ Repaired'
  BY <1>1 DEF Timely, Appended, Repaired, ShownSections, Accepting, HasRead, Op, Request
<1> QED BY <1>2, <1>3, <1>6, <1>7, <1>8

LEMMA Parts ==
  /\ Cardinality({}) = 0
  /\ \A p \in {"title", "summary", "body"} : Cardinality({p}) = 1
  /\ Cardinality({"title", "summary"}) = 2 /\ Cardinality({"title", "body"}) = 2
<1>1. Cardinality({}) = 0
  BY FS_EmptySet
<1>2. \A p \in {"title", "summary", "body"} : Cardinality({p}) = 1 /\ IsFiniteSet({p})
  BY FS_Singleton
<1>3. \A p \in {"summary", "body"} : Cardinality({"title"} \cup {p}) = 2
  <2> SUFFICES ASSUME NEW p \in {"summary", "body"} PROVE Cardinality({"title"} \cup {p}) = 2
    OBVIOUS
  <2>1. p \notin {"title"}
    OBVIOUS
  <2> QED BY <1>2, <2>1, FS_AddElement
<1>4. {"title"} \cup {"summary"} = {"title", "summary"} /\ {"title"} \cup {"body"} = {"title", "body"}
  OBVIOUS
<1>5. Cardinality({"title"} \cup {"summary"}) = 2 /\ Cardinality({"title"} \cup {"body"}) = 2
  BY <1>3
<1>6. Cardinality({"title", "summary"}) = 2 /\ Cardinality({"title", "body"}) = 2
  BY <1>4, <1>5, Zenon
<1> QED BY <1>1, <1>2, <1>6

(* What each place of a proposal says of its text, its row and its audit.  *)
LEMMA DraftFacts ==
  ASSUME IInv, NEW c \in Requests
  PROVE  /\ draft[c] \in DraftStates /\ DraftHolds(c) /\ Paid(draft[c])
         /\ draft[c].pc \notin {"close", "done"} => request[c] = None
         /\ draft[c].pc \in {"title", "summary", "body"} => draft[c].text \in Texts
         /\ draft \in [Requests -> DraftStates]
<1>1. draft[c] \in DraftStates /\ draft \in [Requests -> DraftStates] /\ DraftHolds(c)
  BY DEF IInv, Types, TypeOK, Drafted
<1> QED BY <1>1 DEF DraftHolds, DraftStates

(* The steps that leave the text as it is.                                 *)
LEMMA DraftMoves ==
  ASSUME IInv, NEW c \in Requests, UNCHANGED <<index, reviewVars, pickerVars, recoveryVars>>,
         \/ StartProposal(c) \/ SourceIsNew(c) \/ TextIsNew(c)
         \/ RefersToKnown(c, "search") \/ RefersToKnown(c, "dedupe")
         \/ CloseProposal(c) \/ FailProposal(c) \/ ProposalTimeout(c) \/ ProposalCrash(c)
  PROVE  IInv'
<1>1. UNCHANGED <<job, request>>
  BY DEF StartProposal, SourceIsNew, TextIsNew, RefersToKnown, CloseProposal, FailProposal,
     ProposalTimeout, ProposalCrash
<1>2. /\ draft[c] \in DraftStates /\ DraftHolds(c) /\ Paid(draft[c])
      /\ draft[c].pc \notin {"close", "done"} => request[c] = None
      /\ draft \in [Requests -> DraftStates]
  BY DraftFacts
<1> SUFFICES \E d \in DraftStates : draft' = [draft EXCEPT ![c] = d] /\ DraftHolds(c)'
  BY <1>1, DraftFrame
<1> USE DEF DraftHolds, Paid, Grounded, Screenshot, DraftStates
<1>3. CASE StartProposal(c)
  <2>1. PICK pc \in {"refuse", "search"} :
          draft' = [draft EXCEPT ![c] = [draft[c] EXCEPT !.pc = pc, !.audit = "running"]]
    BY <1>3 DEF StartProposal
  <2> DEFINE d == [draft[c] EXCEPT !.pc = pc, !.audit = "running"]
  <2>2. d \in DraftStates
    BY <1>2
  <2>3. draft'[c] = d /\ d.pc = pc /\ d.audit = "running" /\ d.calls = 0 /\ d.repaired = {}
    BY <1>2, <1>3, <2>1 DEF StartProposal
  <2>4. job[c] # None /\ request[c] = None
    BY <1>2, <1>3 DEF StartProposal
  <2>5. Paid(d)
    BY <1>2, <1>3, <2>3, Parts DEF StartProposal
  <2>6. DraftHolds(c)'
    <3> HIDE DEF Paid
    <3> QED BY <1>1, <2>3, <2>4, <2>5, NoneIsNothing
  <2> QED BY <2>1, <2>2, <2>6
<1>4. CASE SourceIsNew(c) \/ TextIsNew(c)
  <2>1. PICK pc \in {"write", "store"} : draft' = [draft EXCEPT ![c] = [draft[c] EXCEPT !.pc = pc]]
          /\ (pc = "write" => draft[c].pc = "search") /\ (pc = "store" => draft[c].pc = "dedupe")
    BY <1>4 DEF SourceIsNew, TextIsNew
  <2>2. [draft[c] EXCEPT !.pc = pc] \in DraftStates
    BY <1>2
  <2> QED BY <1>1, <1>2, <2>1, <2>2, NoneIsNothing
<1>5. CASE RefersToKnown(c, "search") \/ RefersToKnown(c, "dedupe")
  <2>1. /\ draft' = [draft EXCEPT ![c] = [draft[c] EXCEPT !.pc = "store", !.reference = TRUE]]
        /\ draft[c].pc \in {"search", "dedupe"}
    BY <1>5 DEF RefersToKnown
  <2>2. [draft[c] EXCEPT !.pc = "store", !.reference = TRUE] \in DraftStates
    BY <1>2
  <2> QED BY <1>1, <1>2, <2>1, <2>2, NoneIsNothing
<1>6. CASE CloseProposal(c) \/ FailProposal(c)
  <2>1. PICK audit \in {"succeeded", "failed", "running"} :
          /\ draft' = [draft EXCEPT ![c] = [draft[c] EXCEPT !.pc = "done", !.audit = audit]]
          /\ draft[c].pc # "new"
          /\ audit = "succeeded" => draft[c].pc = "close"
          /\ audit = "failed" => draft[c].pc # "close" /\ draft[c].pc # "done"
    BY <1>6 DEF CloseProposal, FailProposal, ProposalWorks
  <2>2. [draft[c] EXCEPT !.pc = "done", !.audit = audit] \in DraftStates
    BY <1>2
  <2> QED BY ZenonT(30), <1>1, <1>2, <2>1, <2>2, NoneIsNothing
<1>7. CASE ProposalTimeout(c)
  <2>1. /\ draft' = [draft EXCEPT ![c] = [draft[c] EXCEPT !.pc = "done", !.audit = "failed",
                                                          !.late = TRUE]]
        /\ draft[c].pc = "close"
    BY <1>7 DEF ProposalTimeout
  <2>2. [draft[c] EXCEPT !.pc = "done", !.audit = "failed", !.late = TRUE] \in DraftStates
    BY <1>2
  <2> QED BY <1>1, <1>2, <2>1, <2>2, NoneIsNothing
<1>8. CASE ProposalCrash(c)
  <2>1. /\ draft' = [draft EXCEPT ![c] = [draft[c] EXCEPT !.pc = "done"]]
        /\ draft[c].pc \notin {"new", "done"}
    BY <1>8 DEF ProposalCrash
  <2>2. [draft[c] EXCEPT !.pc = "done"] \in DraftStates
    BY <1>2
  <2> QED BY <1>1, <1>2, <2>1, <2>2, NoneIsNothing
<1> QED BY <1>3, <1>4, <1>5, <1>6, <1>7, <1>8

LEMMA StoreKeeps ==
  ASSUME IInv, NEW c \in Requests, Store(c),
         UNCHANGED <<index, reviewVars, pickerVars, recoveryVars>>
  PROVE  IInv'
<1>1. /\ draft[c] \in DraftStates /\ DraftHolds(c) /\ Paid(draft[c]) /\ draft[c].pc = "store"
      /\ request[c] = None /\ draft \in [Requests -> DraftStates]
      /\ request \in [Requests -> Rows \cup {None}] /\ UNCHANGED job
  BY DraftFacts DEF Store, IInv, Types, TypeOK
<1> DEFINE row == [status |-> "pending", target |-> job[c].target]
           d == [draft[c] EXCEPT !.pc = "close"]
<1>2. row \in Rows /\ row # None
  <2>1. job[c] # None /\ job[c] \in Proposals
    BY <1>1 DEF DraftHolds, IInv, Types
  <2>2. row \in Rows
    BY <2>1 DEF Proposals, Rows
  <2> QED BY <2>2, NoneIsNothing
<1>3. d \in DraftStates /\ draft' = [draft EXCEPT ![c] = d]
      /\ request' = [request EXCEPT ![c] = row]
  BY <1>1 DEF DraftStates, Store
<1>4. draft'[c] = d /\ request'[c] # None
  BY <1>1, <1>2, <1>3
<1>5. DraftHolds(c)'
  BY <1>1, <1>4, NoneIsNothing DEF DraftHolds, Paid, Grounded, Screenshot, DraftStates
<1> QED BY <1>1, <1>2, <1>3, <1>5, DraftFrame

(* The model writes a text, or a part of it again.                         *)
LEMMA TextKeeps ==
  ASSUME IInv, NEW c \in Requests, UNCHANGED <<job, request, index, reviewVars, pickerVars, recoveryVars>>,
         NEW text \in Texts, NEW pc \in {"refuse", "title", "summary", "body", "dedupe"},
         NEW repaired,
         draft' = [draft EXCEPT ![c] = [draft[c] EXCEPT !.text = text, !.calls = @ + 1, !.pc = pc,
                                                        !.repaired = repaired]],
         Screenshot(c) /\ pc = "dedupe" => Valid(text),
         \/ draft[c].pc = "write" /\ repaired = {}
         \/ draft[c].pc = "title" /\ repaired = {"title"} /\ pc # "title"
         \/ /\ draft[c].pc \in {"summary", "body"} /\ pc \in {"dedupe", "refuse"}
            /\ repaired = draft[c].repaired \cup {draft[c].pc}
  PROVE  IInv'
<1>1. /\ draft[c] \in DraftStates /\ DraftHolds(c) /\ Paid(draft[c])
      /\ request[c] = None /\ draft \in [Requests -> DraftStates]
  BY DraftFacts
<1> DEFINE d == [draft[c] EXCEPT !.text = text, !.calls = @ + 1, !.pc = pc, !.repaired = repaired]
<1>2. d.calls \in 0..3 /\ repaired \in SUBSET {"title", "summary", "body"} /\ Paid(d)
  <2>1. d.pc = pc /\ d.calls = draft[c].calls + 1 /\ d.repaired = repaired
    BY <1>1 DEF DraftStates
  <2> HIDE DEF d
  <2>2. CASE draft[c].pc = "write" /\ repaired = {}
    <3>1. draft[c].calls = 0
      BY <1>1, <2>2 DEF Paid
    <3>2. Cardinality(d.repaired) = 0
      BY <2>1, <2>2, Parts, Zenon
    <3> QED BY <2>1, <2>2, <3>1, <3>2 DEF Paid
  <2>3. CASE draft[c].pc = "title" /\ repaired = {"title"} /\ pc # "title"
    <3>1. draft[c].calls = 1
      BY <1>1, <2>3 DEF Paid
    <3>2. Cardinality({"title"}) = 1
      BY Parts
    <3>3. Cardinality(d.repaired) = 1
      BY <2>1, <2>3, <3>2, Zenon
    <3> QED BY <2>1, <2>3, <3>1, <3>3 DEF Paid
  <2>4. CASE /\ draft[c].pc \in {"summary", "body"} /\ pc \in {"dedupe", "refuse"}
             /\ repaired = draft[c].repaired \cup {draft[c].pc}
    <3>1. \/ draft[c].calls = 1 /\ draft[c].repaired = {}
          \/ draft[c].calls = 2 /\ draft[c].repaired = {"title"}
      BY <1>1, <2>4 DEF Paid
    <3>2. ASSUME NEW part \in {"summary", "body"}, draft[c].pc = part
          PROVE  d.calls \in 0..3 /\ repaired \in SUBSET {"title", "summary", "body"} /\ Paid(d)
      <4>1. CASE draft[c].calls = 1 /\ draft[c].repaired = {}
        <5>1. repaired = {part}
          BY <2>4, <3>2, <4>1
        <5>2. Cardinality({part}) = 1
          BY Parts
        <5>3. Cardinality(d.repaired) = 1
          BY <2>1, <5>1, <5>2, Zenon
        <5> QED BY <2>1, <2>4, <4>1, <5>1, <5>3 DEF Paid
      <4>2. CASE draft[c].calls = 2 /\ draft[c].repaired = {"title"}
        <5>1. repaired = {"title", part}
          BY <2>4, <3>2, <4>2
        <5>2. Cardinality({"title", part}) = 2
          BY Parts
        <5>3. Cardinality(d.repaired) = 2
          BY <2>1, <5>1, <5>2, Zenon
        <5> QED BY <2>1, <2>4, <4>2, <5>1, <5>3 DEF Paid
      <4> QED BY <3>1, <4>1, <4>2
    <3> QED BY <2>4, <3>2
  <2> QED BY <2>2, <2>3, <2>4
<1>3. d \in DraftStates
  <2>1. d.calls = draft[c].calls + 1
    BY <1>1 DEF DraftStates
  <2>2. draft[c].calls + 1 \in 0..3
    BY <1>2, <2>1
  <2> QED BY <1>1, <1>2, <2>2 DEF DraftStates
<1>4. draft' = [draft EXCEPT ![c] = d] /\ draft'[c] = d
  BY <1>1
<1>5. d.text = text /\ d.pc = pc /\ d.audit = "running" /\ draft[c].audit = "running"
  BY <1>1 DEF DraftStates, DraftHolds
<1>6. DraftHolds(c)'
  <2> HIDE DEF d
  <2>1. job[c] # None /\ text # None
    BY <1>1, NoneIsNothing DEF DraftHolds
  <2> QED BY <1>1, <1>2, <1>4, <1>5, <2>1, NoneIsNothing DEF DraftHolds, Grounded, Screenshot
<1> HIDE DEF d
<1> QED BY <1>1, <1>3, <1>4, <1>6, DraftFrame

LEMMA AfterIs ==
  ASSUME NEW text
  PROVE  After(text) \in {"dedupe", "summary", "body", "refuse"}
         /\ (After(text) = "dedupe" => Valid(text))
BY DEF After

LEMMA WriteKeeps ==
  ASSUME IInv, NEW c \in Requests, Write(c),
         UNCHANGED <<index, reviewVars, pickerVars, recoveryVars>>
  PROVE  IInv'
<1>1. /\ draft[c] \in DraftStates /\ DraftHolds(c) /\ Paid(draft[c]) /\ draft[c].pc = "write"
      /\ UNCHANGED <<job, request>>
  BY DraftFacts DEF Write
<1>2. PICK text \in Drafts[job[c].drafts] :
        draft' = [draft EXCEPT ![c] =
          [draft[c] EXCEPT !.text = text, !.calls = @ + 1,
                           !.pc = IF text.form # "fits" THEN "refuse"
                                  ELSE IF ~Screenshot(c) THEN "dedupe"
                                  ELSE IF TitleFails(text) THEN "title" ELSE After(text)]]
  BY DEF Write
<1>3. text \in Texts
  <2>1. job[c].drafts \in DOMAIN Drafts
    BY <1>1 DEF DraftHolds, IInv, Types, Proposals
  <2> QED BY <2>1, SupplementProposalAssumption
<1> DEFINE pc == IF text.form # "fits" THEN "refuse"
                 ELSE IF ~Screenshot(c) THEN "dedupe"
                 ELSE IF TitleFails(text) THEN "title" ELSE After(text)
<1>4. /\ pc \in {"refuse", "title", "summary", "body", "dedupe"}
      /\ Screenshot(c) /\ pc = "dedupe" => Valid(text)
  BY AfterIs
<1>5. draft[c].repaired = {}
  BY <1>1 DEF Paid
<1>6. [draft[c] EXCEPT !.text = text, !.calls = @ + 1, !.pc = pc]
        = [draft[c] EXCEPT !.text = text, !.calls = @ + 1, !.pc = pc, !.repaired = {}]
  <2> HIDE DEF pc
  <2> QED BY <1>1, <1>5 DEF DraftStates
<1>7. draft' = [draft EXCEPT ![c] = [draft[c] EXCEPT !.text = text, !.calls = @ + 1, !.pc = pc]]
  BY <1>2
<1>8. draft' = [draft EXCEPT ![c] = [draft[c] EXCEPT !.text = text, !.calls = @ + 1, !.pc = pc,
                                                     !.repaired = {}]]
  <2> HIDE DEF pc
  <2> QED BY <1>6, <1>7
<1> HIDE DEF pc
<1> QED BY <1>1, <1>3, <1>4, <1>8, TextKeeps

LEMMA RepairTitleKeeps ==
  ASSUME IInv, NEW c \in Requests, RepairTitle(c),
         UNCHANGED <<index, reviewVars, pickerVars, recoveryVars>>
  PROVE  IInv'
<1>1. /\ draft[c] \in DraftStates /\ Paid(draft[c]) /\ draft[c].pc = "title"
      /\ draft[c].text \in Texts /\ draft[c].repaired = {} /\ UNCHANGED <<job, request>>
  BY DraftFacts DEF RepairTitle, Paid
<1> DEFINE New(t, form) == TitleRepaired(draft[c].text, t, form)
<1>2. PICK title \in Titles :
        \/ \E t \in NewTitle(title), form \in Forms :
             Rewritten(c, "title", New(t, form),
                       IF TitleFails(New(t, form)) THEN "refuse" ELSE After(New(t, form)))
        \/ Rewritten(c, "title", draft[c].text, "refuse")
  BY DEF RepairTitle
<1>3. \E text \in Texts, pc \in {"dedupe", "summary", "body", "refuse"} :
        Rewritten(c, "title", text, pc) /\ (pc = "dedupe" => Valid(text))
  <2>1. CASE Rewritten(c, "title", draft[c].text, "refuse")
    BY <1>1, <2>1
  <2>2. ASSUME NEW t \in NewTitle(title), NEW form \in Forms,
               Rewritten(c, "title", New(t, form),
                         IF TitleFails(New(t, form)) THEN "refuse" ELSE After(New(t, form)))
        PROVE  \E text \in Texts, pc \in {"dedupe", "summary", "body", "refuse"} :
                 Rewritten(c, "title", text, pc) /\ (pc = "dedupe" => Valid(text))
    <3>1. NewTitle(title) \subseteq SUBSET Anchors
      BY SupplementProposalAssumption DEF NewTitle
    <3>2. New(t, form) \in Texts
      BY <1>1, <3>1 DEF Texts, TitleRepaired
    <3> HIDE DEF New
    <3> QED BY <2>2, <3>2, AfterIs
  <2> HIDE DEF New
  <2> QED BY <1>2, <2>1, <2>2
<1>4. PICK text \in Texts, pc \in {"dedupe", "summary", "body", "refuse"} :
        Rewritten(c, "title", text, pc) /\ (pc = "dedupe" => Valid(text))
  BY <1>3
<1>5. draft' = [draft EXCEPT ![c] = [draft[c] EXCEPT !.text = text, !.calls = @ + 1, !.pc = pc,
                                                     !.repaired = draft[c].repaired \cup {"title"}]]
  BY <1>4 DEF Rewritten
<1>6. draft[c].repaired \cup {"title"} = {"title"}
  BY <1>1
<1> QED BY <1>1, <1>4, <1>5, <1>6, TextKeeps

LEMMA RepairRestKeeps ==
  ASSUME IInv, NEW c \in Requests, RepairSummary(c) \/ RepairBody(c),
         UNCHANGED <<index, reviewVars, pickerVars, recoveryVars>>
  PROVE  IInv'
<1>1. /\ draft[c] \in DraftStates /\ draft[c].pc \in {"summary", "body"}
      /\ draft[c].text \in Texts /\ UNCHANGED <<job, request>>
  BY DraftFacts DEF RepairSummary, RepairBody
<1> DEFINE New(claim, form) == SummaryRepaired(draft[c].text, claim, form)
<1>2. /\ \A claim \in Claims, form \in Forms : New(claim, form) \in Texts
      /\ BodyRepairs(draft[c].text) \subseteq Texts
  BY <1>1 DEF BodyRepairs, Texts, SummaryRepaired
<1>3. \E text \in Texts, pc \in {"dedupe", "refuse"} :
        Rewritten(c, draft[c].pc, text, pc) /\ (pc = "dedupe" => Valid(text))
  <2>1. CASE RepairSummary(c)
    <3>1. PICK claim \in Claims, form \in Forms :
            Rewritten(c, "summary", New(claim, form),
                      IF Valid(New(claim, form)) THEN "dedupe" ELSE "refuse")
      BY <2>1 DEF RepairSummary
    <3>2. draft[c].pc = "summary"
      BY <2>1 DEF RepairSummary
    <3> HIDE DEF New
    <3> QED BY <1>2, <3>1, <3>2
  <2>2. CASE RepairBody(c)
    BY <1>2, <2>2 DEF RepairBody
  <2> QED BY <2>1, <2>2
<1>4. PICK text \in Texts, pc \in {"dedupe", "refuse"} :
        Rewritten(c, draft[c].pc, text, pc) /\ (pc = "dedupe" => Valid(text))
  BY <1>3
<1> DEFINE repaired == draft[c].repaired \cup {draft[c].pc}
<1>5. draft' = [draft EXCEPT ![c] = [draft[c] EXCEPT !.text = text, !.calls = @ + 1, !.pc = pc,
                                                     !.repaired = repaired]]
  BY <1>4 DEF Rewritten
<1>6. repaired = draft[c].repaired \cup {draft[c].pc}
  OBVIOUS
<1> HIDE DEF repaired
<1> QED BY <1>1, <1>4, <1>5, <1>6, TextKeeps

LEMMA ProposalKeeps ==
  ASSUME IInv, ProposalNext, UNCHANGED <<index, reviewVars, pickerVars, recoveryVars>>
  PROVE  IInv'
<1>1. PICK c \in Requests :
        \/ StartProposal(c) \/ SourceIsNew(c) \/ Write(c)
        \/ RefersToKnown(c, "search") \/ RefersToKnown(c, "dedupe")
        \/ RepairTitle(c) \/ RepairSummary(c) \/ RepairBody(c)
        \/ TextIsNew(c) \/ Store(c) \/ CloseProposal(c)
        \/ FailProposal(c) \/ ProposalTimeout(c) \/ ProposalCrash(c)
  BY DEF ProposalNext
<1> QED BY <1>1, DraftMoves, StoreKeeps, WriteKeeps, RepairTitleKeeps, RepairRestKeeps

-------------------------------------------------------------------------------
(* What a step of a call leaves of the invariant.                          *)

LEMMA CallFacts ==
  ASSUME IInv, NEW k \in Calls
  PROVE  /\ call[k] \in CallStates /\ Shape(Op(k), call[k])
         /\ Op(k) \in Operations /\ Request(k) \in Requests /\ work[k].page \in Pages
         /\ call[k].page # None => call[k].page \in Pages
BY DEF IInv, Types, TypeOK, CallStates, Shaped, Op, Request

CallStep(k, r) ==
  /\ call' = [call EXCEPT ![k] = r]
  /\ r \in CallStates /\ Shape(Op(k), r)
  /\ UNCHANGED <<proposalVars, work, recoveryVars>>
  /\ r.pc = "decide" \/ r.did # None => Row(k) # None
  /\ Op(k) = "accept" /\ r.page # None => Row(k) # None

LEMMA CallFrame ==
  ASSUME IInv, NEW k \in Calls, NEW r, CallStep(k, r),
         request' \in [Requests -> Rows \cup {None}],
         \A c \in Requests : request'[c] # None <=> request[c] # None,
         index' \in [Pages -> Snapshots \cup {None}],
         notion' \in [Pages -> [edited : Nat, topics : SUBSET Calls,
                                sections : SUBSET Calls, shown : SUBSET Calls]],
         \A p \in Pages : notion'[p].shown \subseteq notion'[p].sections,
         clock' \in 1..MaxMinutes, Decisions', Timely', Appended'
  PROVE  IInv'
<1> USE DEF IInv
<1>1. UNCHANGED <<job, draft, work, outcome, recovery>>
  BY DEF CallStep, proposalVars, recoveryVars
<1>2. call \in [Calls -> CallStates] /\ call'[k] = r /\ \A i \in Calls \ {k} : call'[i] = call[i]
  BY DEF CallStep, Types, TypeOK
<1>3. Types'
  BY <1>1, <1>2 DEF Types, TypeOK, CallStep
<1>4. Drafted'
  BY <1>1 DEF Drafted, DraftHolds, Grounded, Screenshot
<1>5. Shaped'
  <2>1. \A i \in Calls : Request(i) \in Requests /\ Request(i)' = Request(i) /\ Op(i)' = Op(i)
    BY <1>1, CallFacts DEF Request, Op
  <2>2. \A i \in Calls : Row(i)' # None <=> Row(i) # None
    BY <2>1 DEF Row
  <2> QED BY <1>2, <2>1, <2>2 DEF Shaped, CallStep
<1>6. Repaired'
  BY <1>1 DEF Repaired, Op
<1> QED BY <1>3, <1>4, <1>5, <1>6

(* A call that decides nothing.                                            *)
LEMMA DecisionsKept ==
  ASSUME IInv, NEW k \in Calls, NEW r \in CallStates, call' = [call EXCEPT ![k] = r],
         UNCHANGED <<request, work>>, r.did = call[k].did, r.decided = call[k].decided,
         Op(k) = "accept" => r.page = call[k].page
  PROVE  Decisions'
<1>1. /\ call'[k] = r /\ \A i \in Calls \ {k} : call'[i] = call[i]
      /\ \A i \in Calls : call[i].decided \subseteq Calls
  BY DEF IInv, Types, TypeOK, CallStates
<1>2. \A i \in Calls : /\ call'[i].did = call[i].did /\ call'[i].decided = call[i].decided
                       /\ Op(i) = "accept" => call'[i].page = call[i].page
  BY <1>1
<1>3. \A i \in Calls : Request(i)' = Request(i) /\ Op(i)' = Op(i) /\ Row(i)' = Row(i)
  BY DEF Request, Op, Row
<1> QED BY <1>1, <1>2, <1>3 DEF IInv, Decisions

(* What Notion shows of a page only grows, and the time of an edit too.    *)
Grows ==
  \A p \in Pages : /\ notion[p].edited <= notion'[p].edited /\ notion'[p].edited <= clock'
                   /\ notion[p].shown \subseteq notion'[p].shown

LEMMA Stays ==
  ASSUME IInv, UNCHANGED <<notion, clock>>
  PROVE  Grows
<1>1. \A p \in Pages : notion[p].edited \in Nat /\ notion[p].edited <= clock
  BY DEF IInv, Types, TypeOK, Timely
<1> QED BY <1>1 DEF Grows

(* A call that reads and stores nothing.                                   *)
LEMMA TimelyKept ==
  ASSUME IInv, NEW k \in Calls, NEW r \in CallStates, call' = [call EXCEPT ![k] = r],
         UNCHANGED <<index, work>>, Grows, notion' \in [Pages -> [edited : Nat,
           topics : SUBSET Calls, sections : SUBSET Calls, shown : SUBSET Calls]],
         clock' \in 1..MaxMinutes, r.did = call[k].did,
         r.did = "accepted" => r.page = call[k].page /\ r.edited = call[k].edited,
         r.pc \notin {"blocks", "persist"} \/ r = call[k],
         r.pc = "page" /\ Op(k) = "accept" => ShownSections(k, r.page) # {} /\ r.page # None
  PROVE  Timely'
<1>1. /\ call \in [Calls -> CallStates] /\ call'[k] = r
      /\ \A i \in Calls \ {k} : call'[i] = call[i]
  BY DEF IInv, Types, TypeOK
<1>2. /\ \A i \in Calls : Op(i)' = Op(i)
      /\ \A i \in Calls, p \in Pages : ShownSections(i, p) \subseteq ShownSections(i, p)'
  BY DEF Op, Request, ShownSections, Grows
<1>3. /\ \A p \in Pages : notion[p].edited \in Nat /\ notion'[p].edited \in Nat
      /\ \A p \in Pages : index[p] # None => index[p].edited \in Nat
      /\ \A i \in Calls : call[i].edited \in Nat
  BY <1>1 DEF IInv, Types, TypeOK, Snapshots, CallStates
<1>4. \A p \in Pages : /\ notion'[p].edited <= clock'
                       /\ index'[p] # None => index'[p].edited <= notion'[p].edited
  BY <1>3 DEF IInv, Timely, Grows
<1>5. \A i \in Calls : Accepting(i) \/ call[i].did = "accepted" \/ call[i].pc \in {"blocks", "persist"}
                         => call[i].page \in Pages
  BY CallFacts DEF Shape, Accepting, Appending, Reading
<1>6. \A i \in Calls :
        /\ call'[i].pc \in {"blocks", "persist"} => call'[i] = call[i]
        /\ call'[i].did = call[i].did
        /\ call'[i].did = "accepted" => /\ call'[i].page = call[i].page
                                        /\ call'[i].edited = call[i].edited
        /\ Accepting(i)' => \/ Accepting(i) /\ call'[i] = call[i]
                            \/ ShownSections(i, call'[i].page) # {} /\ call'[i].page \in Pages
        /\ HasRead(i)' => HasRead(i) /\ call'[i] = call[i]
  <2> SUFFICES ASSUME NEW i \in Calls
               PROVE
        /\ call'[i].pc \in {"blocks", "persist"} => call'[i] = call[i]
        /\ call'[i].did = call[i].did
        /\ call'[i].did = "accepted" => /\ call'[i].page = call[i].page
                                        /\ call'[i].edited = call[i].edited
        /\ Accepting(i)' => \/ Accepting(i) /\ call'[i] = call[i]
                            \/ ShownSections(i, call'[i].page) # {} /\ call'[i].page \in Pages
        /\ HasRead(i)' => HasRead(i) /\ call'[i] = call[i]
    OBVIOUS
  <2>1. CASE i # k \/ r = call[k]
    <3>1. call'[i] = call[i]
      BY <1>1, <2>1
    <3> QED BY <1>2, <3>1 DEF Accepting, HasRead
  <2>2. CASE i = k /\ r.pc \notin {"blocks", "persist"}
    <3>1. call'[i] = r
      BY <1>1, <2>2
    <3>2. ~HasRead(i)'
      BY <2>2, <3>1 DEF HasRead, Accepting, Reading
    <3>3. Accepting(i)' => r.pc = "page" /\ Op(k) = "accept"
      BY <1>2, <2>2, <3>1 DEF Accepting, Reading
    <3>4. r.page # None => r.page \in Pages
      BY DEF CallStates
    <3> QED BY <2>2, <3>1, <3>2, <3>3, <3>4
  <2> QED BY <2>1, <2>2
<1>7. \A i \in Calls : Accepting(i)' \/ call'[i].did = "accepted" =>
        ShownSections(i, call[i].page)' # {}
  <2> SUFFICES ASSUME NEW i \in Calls, Accepting(i)' \/ call'[i].did = "accepted"
               PROVE  ShownSections(i, call[i].page)' # {}
    OBVIOUS
  <2>1. ShownSections(i, call'[i].page) # {} /\ call'[i].page \in Pages
    BY <1>5, <1>6 DEF IInv, Timely
  <2>2. ShownSections(i, call'[i].page) \subseteq ShownSections(i, call[i].page)'
    BY <2>1 DEF ShownSections, Request, Grows
  <2> QED BY <2>1, <2>2
<1>8. \A i \in Calls :
        /\ call'[i].pc \in {"blocks", "persist"} => call'[i].edited <= notion'[call'[i].page].edited
        /\ call'[i].did = "accepted" =>
             index'[call'[i].page] # None /\ index'[call'[i].page].edited >= call'[i].edited
  BY <1>3, <1>5, <1>6 DEF IInv, Timely, Grows
<1>9. ASSUME NEW i \in Calls, HasRead(i)' \/ call'[i].did = "accepted"
      PROVE  /\ index'[call'[i].page] # None /\ index'[call'[i].page].edited > call'[i].edited =>
                 index'[call'[i].page].sections \cap ShownSections(i, call[i].page)' # {}
             /\ \A j \in Calls :
                  /\ call'[j].pc = "persist" /\ call'[j].page = call'[i].page
                  /\ call'[j].edited > call'[i].edited
                  => call'[j].read \cap ShownSections(i, call[i].page)' # {}
  <2>1. /\ HasRead(i) \/ call[i].did = "accepted"
        /\ call'[i].page = call[i].page /\ call'[i].edited = call[i].edited
        /\ call[i].page \in Pages
    BY <1>5, <1>6, <1>9 DEF HasRead
  <2>2. ShownSections(i, call[i].page) \subseteq ShownSections(i, call[i].page)'
    BY <2>1 DEF ShownSections, Request, Grows
  <2>3. /\ index[call[i].page] # None /\ index[call[i].page].edited > call[i].edited =>
             index[call[i].page].sections \cap ShownSections(i, call[i].page) # {}
        /\ \A j \in Calls :
             /\ call[j].pc = "persist" /\ call[j].page = call[i].page
             /\ call[j].edited > call[i].edited
             => call[j].read \cap ShownSections(i, call[i].page) # {}
    BY <2>1 DEF IInv, Timely
  <2>4. \A j \in Calls : call'[j].pc = "persist" => call'[j] = call[j]
    BY <1>6
  <2> QED BY <2>1, <2>2, <2>3, <2>4
<1> QED BY <1>4, <1>7, <1>8, <1>9 DEF Timely

(* A call that adds no section, unless it found none when it began.        *)
LEMMA AppendedKept ==
  ASSUME IInv, NEW k \in Calls, NEW r \in CallStates, call' = [call EXCEPT ![k] = r],
         UNCHANGED work, Grows,
         \A p \in Pages : notion'[p].sections \subseteq notion[p].sections \cup {k},
         (\E p \in Pages : k \in notion'[p].sections \ notion[p].sections) =>
           r.written = {} /\ r.pc # "new",
         r.pc # "new" \/ r = call[k],
         \/ r.written = call[k].written
         \/ call[k].pc = "new",
         r.pc \in {"topic", "section"} => r.written = {},
         \/ r.page = call[k].page /\ r.written = call[k].written
         \/ Op(k) # "accept"
         \/ r.page \in Pages /\ r.written \subseteq ShownSections(k, r.page)
  PROVE  Appended'
<1>1. call'[k] = r /\ \A i \in Calls \ {k} : call'[i] = call[i]
  BY DEF IInv, Types, TypeOK
<1>2. \A i \in Calls : Op(i)' = Op(i)
  BY DEF Op
<1>3. \A p \in Pages : notion[p].sections \subseteq Calls
  BY DEF IInv, Types, TypeOK
<1>4. \A p \in Pages : \A i \in notion'[p].sections : call'[i].pc # "new" /\ call'[i].written = {}
  <2> SUFFICES ASSUME NEW p \in Pages, NEW i \in notion'[p].sections
               PROVE  call'[i].pc # "new" /\ call'[i].written = {}
    OBVIOUS
  <2>1. i \in notion[p].sections \/ i = k
    OBVIOUS
  <2>2. CASE i \in notion[p].sections
    BY <1>1, <1>3, <2>2 DEF IInv, Appended
  <2>3. CASE i = k /\ i \notin notion[p].sections
    BY <1>1, <2>3 DEF IInv, Appended
  <2> QED BY <2>1, <2>2, <2>3
<1>5. ASSUME NEW i \in Calls, Op(i) = "accept", call'[i].page # None
      PROVE  call'[i].written \subseteq ShownSections(i, call[i].page)'
  <2>1. call'[i].page \in Pages /\ call'[i].written \subseteq ShownSections(i, call'[i].page)
    BY <1>1, <1>5, CallFacts DEF IInv, Appended
  <2> QED BY <2>1 DEF ShownSections, Grows, Request
<1> QED BY <1>1, <1>2, <1>4, <1>5 DEF IInv, Appended

(* A step that moves a call on, or ends it, while Notion changes nothing   *)
(* but what is new on a page.                                              *)
LEMMA MoveKeeps ==
  ASSUME IInv, NEW k \in Calls, NEW r, CallStep(k, r), UNCHANGED <<request, index>>,
         Grows, notion' \in [Pages -> [edited : Nat, topics : SUBSET Calls,
                                       sections : SUBSET Calls, shown : SUBSET Calls]],
         \A p \in Pages : /\ notion'[p].shown \subseteq notion'[p].sections
                          /\ notion'[p].sections \subseteq notion[p].sections \cup {k},
         (\E p \in Pages : k \in notion'[p].sections \ notion[p].sections) => r.written = {},
         clock' \in 1..MaxMinutes,
         r.page = call[k].page \/ Op(k) = "index",
         r.edited = call[k].edited, r.read = call[k].read,
         r.did = call[k].did, r.written = call[k].written, r.decided = call[k].decided,
         r.pc \in {"topic", "section", "verify", "page", "close", "done"},
         r.pc \in {"topic", "section"} => r.written = {},
         r.pc = "page" /\ Op(k) = "accept" => ShownSections(k, r.page) # {}
  PROVE  IInv'
<1>1. r \in CallStates /\ call' = [call EXCEPT ![k] = r] /\ UNCHANGED work /\ Shape(Op(k), r)
  BY DEF CallStep
<1>2. Decisions'
  BY <1>1, DecisionsKept
<1>3. Timely'
  <2>1. r.did = "accepted" => Op(k) = "accept"
    BY <1>1 DEF Shape
  <2>2. r.pc = "page" => r.page # None
    BY <1>1 DEF Shape, Reading, Appending
  <2> QED BY <1>1, <2>1, <2>2, TimelyKept
<1>4. Appended'
  BY <1>1, AppendedKept
<1>5. request \in [Requests -> Rows \cup {None}] /\ index \in [Pages -> Snapshots \cup {None}]
  BY DEF IInv, Types, TypeOK
<1> QED BY <1>2, <1>3, <1>4, <1>5, CallFrame

LEMMA MoveStays ==
  ASSUME IInv, UNCHANGED <<notion, clock>>
  PROVE  /\ Grows /\ clock' \in 1..MaxMinutes
         /\ notion' \in [Pages -> [edited : Nat, topics : SUBSET Calls,
                                   sections : SUBSET Calls, shown : SUBSET Calls]]
         /\ \A p \in Pages : /\ notion'[p].shown \subseteq notion'[p].sections
                              /\ notion'[p].sections = notion[p].sections
BY Stays DEF IInv, Types, TypeOK

LEMMA RefusedKeeps ==
  ASSUME IInv, NEW k \in Calls, Refused(k) \/ IndexRefused(k), call[k].pc \notin {"close", "done"},
         UNCHANGED <<proposalVars, request, index, work, notion, clock, recoveryVars>>
  PROVE  IInv'
<1>1. PICK r : /\ call' = [call EXCEPT ![k] = r]
               /\ \E audit \in {"failed", "running"}, i \in {call[k].indexAudit, "failed", "running"} :
                    r = [call[k] EXCEPT !.pc = "done", !.audit = audit, !.indexAudit = i]
  <2>1. CASE Refused(k)
    <3>1. PICK audit \in {"failed", "running"} :
            call' = [call EXCEPT ![k].pc = "done", ![k].audit = audit]
      BY <2>1 DEF Refused
    <3>2. call[k] \in CallStates
      BY CallFacts
    <3>3. [[call[k] EXCEPT !.pc = "done"] EXCEPT !.audit = audit]
           = [call[k] EXCEPT !.pc = "done", !.audit = audit, !.indexAudit = call[k].indexAudit]
      BY <3>2 DEF CallStates
    <3>4. call' = [call EXCEPT ![k] = [call[k] EXCEPT !.pc = "done", !.audit = audit,
                                                      !.indexAudit = call[k].indexAudit]]
      BY <3>1, <3>3 DEF IInv, Types, TypeOK
    <3> QED BY <3>4
  <2>2. CASE IndexRefused(k)
    <3>1. PICK audits \in {"failed", "running"} \X {"failed", "running"} :
            call' = [call EXCEPT ![k] = [call[k] EXCEPT !.pc = "done", !.indexAudit = audits[1],
                                                        !.audit = audits[2]]]
      BY <2>2 DEF IndexRefused
    <3>2. [call[k] EXCEPT !.pc = "done", !.indexAudit = audits[1], !.audit = audits[2]]
           = [call[k] EXCEPT !.pc = "done", !.audit = audits[2], !.indexAudit = audits[1]]
      BY CallFacts DEF CallStates
    <3>3. call' = [call EXCEPT ![k] = [call[k] EXCEPT !.pc = "done", !.audit = audits[2],
                                                      !.indexAudit = audits[1]]]
      BY <3>1, <3>2
    <3>4. audits[1] \in {"failed", "running"} /\ audits[2] \in {"failed", "running"}
      OBVIOUS
    <3> QED BY <3>3, <3>4
  <2> QED BY <2>1, <2>2
<1>2. call[k] \in CallStates /\ Shape(Op(k), call[k]) /\ call[k].did = None
  BY CallFacts DEF Shape
<1>3. /\ r \in CallStates /\ r.pc = "done" /\ r.did = None /\ r.audit \in {"failed", "running"}
      /\ r.indexAudit \in {call[k].indexAudit, "failed", "running"}
      /\ r.page = call[k].page /\ r.edited = call[k].edited /\ r.read = call[k].read
      /\ r.written = call[k].written /\ r.decided = call[k].decided
  BY ZenonT(30), <1>1, <1>2 DEF CallStates
<1>4. Shape(Op(k), r)
  BY <1>2, <1>3, NoneIsNothing DEF Shape, Appending, Reading
<1>5. CallStep(k, r)
  BY <1>1, <1>2, <1>3, <1>4 DEF CallStep, IInv, Shaped
<1> QED BY <1>2, <1>3, <1>5, MoveStays, MoveKeeps

(* Lookup and Verify, and the ends of a call.                              *)
LEMMA GoKeeps ==
  ASSUME IInv, NEW k \in Calls, UNCHANGED recoveryVars,
         Lookup(k) \/ Verify(k) \/ EditLater(k) \/ Close(k) \/ TimedOut(k) \/ Crash(k)
  PROVE  IInv'
<1>1. call[k] \in CallStates /\ Shape(Op(k), call[k])
  BY CallFacts
<1>2. UNCHANGED <<proposalVars, request, index, work, notion, clock>>
  BY DEF Lookup, Verify, EditLater, Close, TimedOut, Crash
<1>3. PICK r :
        /\ call' = [call EXCEPT ![k] = r] /\ r \in CallStates /\ Shape(Op(k), r)
        /\ r.page = call[k].page /\ r.edited = call[k].edited /\ r.read = call[k].read
        /\ r.did = call[k].did /\ r.written = call[k].written /\ r.decided = call[k].decided
        /\ r.pc \in {"topic", "verify", "page", "close", "done"}
        /\ r.pc = "topic" => r.written = {}
        /\ r.pc = "page" => ShownSections(k, r.page) # {}
  <2>1. CASE Lookup(k)
    <3> DEFINE pc == IF ShownSections(k, call[k].page) # {} THEN "verify" ELSE "topic"
               r == [call[k] EXCEPT !.pc = pc]
    <3>1. call[k].pc = "lookup" /\ call' = [call EXCEPT ![k] = r]
      BY <2>1 DEF Lookup, Go
    <3>2. Op(k) = "accept" /\ call[k].page # None
      BY <1>1, <3>1 DEF Shape, Appending
    <3>3. pc = "topic" => call[k].written = {}
      BY <3>2 DEF IInv, Appended
    <3>4. pc \in {"verify", "topic"}
      OBVIOUS
    <3> HIDE DEF pc
    <3>5. /\ r \in CallStates /\ r.pc = pc /\ r.page = call[k].page /\ r.edited = call[k].edited
          /\ r.read = call[k].read /\ r.did = call[k].did /\ r.written = call[k].written
          /\ r.decided = call[k].decided /\ r.audit = call[k].audit
          /\ r.indexAudit = call[k].indexAudit /\ r.timedOut = call[k].timedOut
      BY <1>1, <3>4 DEF CallStates
    <3> HIDE DEF r
    <3>6. Shape(Op(k), r)
      BY <1>1, <3>1, <3>2, <3>4, <3>5 DEF Shape, Appending, Reading
    <3> QED BY <3>1, <3>3, <3>4, <3>5, <3>6
  <2>2. CASE Verify(k) \/ EditLater(k) \/ Crash(k)
    <3>1. PICK pc \in {"page", "close", "done"} :
            /\ call' = [call EXCEPT ![k].pc = pc]
            /\ pc = "page" => call[k].pc = "verify" /\ ShownSections(k, call[k].page) # {}
            /\ pc = "close" => Op(k) = "edit_later" /\ call[k].pc = "decide"
      BY <2>2 DEF Verify, EditLater, Crash, Go
    <3> DEFINE r == [call[k] EXCEPT !.pc = pc]
    <3>2. /\ r \in CallStates /\ r.pc = pc /\ r.page = call[k].page /\ r.edited = call[k].edited
          /\ r.read = call[k].read /\ r.did = call[k].did /\ r.written = call[k].written
          /\ r.decided = call[k].decided /\ r.audit = call[k].audit
          /\ r.indexAudit = call[k].indexAudit /\ r.timedOut = call[k].timedOut
      BY <1>1 DEF CallStates
    <3>3. call' = [call EXCEPT ![k] = r]
      BY <3>1
    <3> HIDE DEF r
    <3>4. Shape(Op(k), r)
      <4>1. CASE pc = "page"
        BY <1>1, <3>1, <3>2, <4>1 DEF Shape, Appending, Reading
      <4>2. CASE pc = "close"
        BY <1>1, <3>1, <3>2, <4>2 DEF Shape, Appending, Reading
      <4>3. CASE pc = "done"
        BY <1>1, <3>2, <4>3 DEF Shape, Appending, Reading
      <4> QED BY <4>1, <4>2, <4>3
    <3> QED BY <3>1, <3>2, <3>3, <3>4
  <2>3. CASE Close(k)
    <3>1. PICK a \in {None, "succeeded", "running"}, i \in {None, "succeeded", "running"} :
            /\ call' = [call EXCEPT ![k] = [call[k] EXCEPT !.pc = "done", !.audit = a,
                                                           !.indexAudit = i]]
            /\ (call[k].audit = None) = (a = None)
      BY <2>3, NoneIsNothing DEF Close
    <3> DEFINE r == [call[k] EXCEPT !.pc = "done", !.audit = a, !.indexAudit = i]
    <3>2. /\ r \in CallStates /\ r.pc = "done" /\ r.page = call[k].page
          /\ r.edited = call[k].edited
          /\ r.read = call[k].read /\ r.did = call[k].did /\ r.written = call[k].written
          /\ r.decided = call[k].decided /\ r.audit = a
          /\ r.indexAudit = i /\ r.timedOut = call[k].timedOut
      BY <1>1 DEF CallStates
    <3>3. call' = [call EXCEPT ![k] = r] /\ call[k].pc = "close"
      BY <2>3, <3>1 DEF Close
    <3> HIDE DEF r
    <3>4. Shape(Op(k), r)
      BY <1>1, <3>1, <3>2, <3>3, NoneIsNothing DEF Shape, Appending, Reading, CallStates
    <3> QED BY <3>2, <3>3, <3>4
  <2>4. CASE TimedOut(k)
    <3>1. PICK i \in {call[k].indexAudit, "succeeded"} :
            call' = [call EXCEPT ![k] = [call[k] EXCEPT !.pc = "done", !.audit = "failed",
                                           !.indexAudit = i, !.timedOut = TRUE]]
      BY <2>4 DEF TimedOut
    <3> DEFINE r == [call[k] EXCEPT !.pc = "done", !.audit = "failed", !.indexAudit = i,
                                    !.timedOut = TRUE]
    <3>2. /\ r \in CallStates /\ r.pc = "done" /\ r.page = call[k].page
          /\ r.edited = call[k].edited
          /\ r.read = call[k].read /\ r.did = call[k].did /\ r.written = call[k].written
          /\ r.decided = call[k].decided /\ r.audit = "failed"
          /\ r.indexAudit = i /\ r.timedOut
      BY <1>1 DEF CallStates
    <3>3. /\ call' = [call EXCEPT ![k] = r] /\ call[k].pc = "close"
          /\ Op(k) \in {"accept", "reject", "edit_later"}
      BY <2>4, <3>1 DEF TimedOut
    <3> HIDE DEF r
    <3>4. Shape(Op(k), r)
      BY <1>1, <3>1, <3>2, <3>3, NoneIsNothing DEF Shape, Appending, Reading, CallStates
    <3> QED BY <3>2, <3>3, <3>4
  <2> QED BY <2>1, <2>2, <2>3, <2>4
<1>4. CallStep(k, r)
  BY <1>2, <1>3 DEF CallStep, IInv, Shaped
<1> QED BY <1>2, <1>3, <1>4, MoveStays, MoveKeeps

(* Notion writes what is appended, and shows it when it likes.             *)
LEMMA WritesKeep ==
  ASSUME IInv, NEW k \in Calls, UNCHANGED recoveryVars, OpenTopic(k) \/ WriteSection(k)
  PROVE  IInv'
<1>1. call[k] \in CallStates /\ Shape(Op(k), call[k])
  BY CallFacts
<1>2. /\ UNCHANGED <<proposalVars, request, index, work>>
      /\ call[k].pc \in {"topic", "section"}
  BY DEF OpenTopic, WriteSection
<1>3. /\ Op(k) = "accept" /\ call[k].page \in Pages /\ call[k].written = {}
      /\ call[k].did = None /\ call[k].audit \in {None, "running"}
      /\ call[k].indexAudit \in {None, "running"}
  BY <1>1, <1>2, CallFacts DEF Shape, Appending, IInv, Appended
<1> DEFINE p == call[k].page
<1>4. PICK t : /\ Patched(p, t) /\ t \in [edited : Nat, topics : SUBSET Calls,
                                         sections : SUBSET Calls, shown : SUBSET Calls]
               /\ t.shown = notion[p].shown
               /\ notion[p].sections \subseteq t.sections
               /\ t.sections \subseteq notion[p].sections \cup {k}
  <2>1. notion[p] \in [edited : Nat, topics : SUBSET Calls,
                        sections : SUBSET Calls, shown : SUBSET Calls]
    BY <1>3 DEF IInv, Types, TypeOK
  <2>2. CASE OpenTopic(k)
    <3> DEFINE t == [notion[p] EXCEPT !.topics = notion[p].topics \cup {k}]
    <3>1. Patched(p, t)
      BY <2>2 DEF OpenTopic
    <3>2. /\ t.shown = notion[p].shown /\ t.sections = notion[p].sections
          /\ t \in [edited : Nat, topics : SUBSET Calls,
                    sections : SUBSET Calls, shown : SUBSET Calls]
      BY <2>1
    <3> HIDE DEF t
    <3> QED BY <3>1, <3>2
  <2>3. CASE WriteSection(k)
    <3> DEFINE t == [notion[p] EXCEPT !.sections = notion[p].sections \cup {k}]
    <3>1. Patched(p, t)
      BY <2>3 DEF WriteSection
    <3>2. /\ t.shown = notion[p].shown /\ t.sections = notion[p].sections \cup {k}
          /\ t \in [edited : Nat, topics : SUBSET Calls,
                    sections : SUBSET Calls, shown : SUBSET Calls]
      BY <2>1
    <3> HIDE DEF t
    <3> QED BY <3>1, <3>2
  <2> QED BY <2>2, <2>3
<1>5. /\ clock' \in 1..MaxMinutes /\ clock <= clock'
      /\ notion' = [notion EXCEPT ![p] = [t EXCEPT !.edited = clock']]
  BY <1>4, Minutes DEF Patched, IInv, Types, TypeOK
<1>6. /\ \A q \in Pages \ {p} : notion'[q] = notion[q]
      /\ notion'[p].edited = clock' /\ notion'[p].shown = t.shown /\ notion'[p].sections = t.sections
      /\ notion' \in [Pages -> [edited : Nat, topics : SUBSET Calls,
                                sections : SUBSET Calls, shown : SUBSET Calls]]
  <2> DEFINE new == [t EXCEPT !.edited = clock']
  <2>1. /\ new \in [edited : Nat, topics : SUBSET Calls,
                     sections : SUBSET Calls, shown : SUBSET Calls]
        /\ new.edited = clock' /\ new.shown = t.shown /\ new.sections = t.sections
    <3>1. clock' \in Nat
      BY <1>5
    <3> QED BY <1>4, <3>1
  <2>2. notion' = [notion EXCEPT ![p] = new] /\ p \in Pages
    BY <1>3, <1>5
  <2> HIDE DEF new, p
  <2> QED BY <2>1, <2>2 DEF IInv, Types, TypeOK
<1> HIDE DEF p
<1>7. /\ \A q \in Pages : notion[q].edited \in Nat /\ notion[q].edited <= clock
                          /\ notion[q].shown \subseteq notion[q].sections
      /\ clock \in Nat /\ clock' \in Nat
  BY <1>5 DEF IInv, Types, TypeOK, Timely
<1>8. Grows /\ \A q \in Pages : /\ notion'[q].shown \subseteq notion'[q].sections
                                /\ notion'[q].sections \subseteq notion[q].sections \cup {k}
  BY <1>4, <1>5, <1>6, <1>7 DEF Grows
<1>9. PICK r :
        /\ call' = [call EXCEPT ![k] = r] /\ r \in CallStates
        /\ r.pc \in {"section", "verify", "done"}
        /\ r.page = call[k].page /\ r.edited = call[k].edited /\ r.read = call[k].read
        /\ r.did = call[k].did /\ r.written = call[k].written /\ r.decided = call[k].decided
        /\ r.indexAudit = call[k].indexAudit
        /\ \/ r.audit = call[k].audit
           \/ r.pc = "done" /\ r.audit \in {"failed", "running"}
  <2>1. CASE Refused(k)
    <3>1. PICK audit \in {"failed", "running"} :
            call' = [call EXCEPT ![k].pc = "done", ![k].audit = audit]
      BY <2>1 DEF Refused
    <3> DEFINE r == [call[k] EXCEPT !.pc = "done", !.audit = audit]
    <3>2. call' = [call EXCEPT ![k] = r]
      BY <3>1 DEF IInv, Types, TypeOK
    <3>3. /\ r \in CallStates /\ r.pc = "done" /\ r.audit = audit
          /\ r.page = call[k].page /\ r.edited = call[k].edited /\ r.read = call[k].read
          /\ r.did = call[k].did /\ r.written = call[k].written /\ r.decided = call[k].decided
          /\ r.indexAudit = call[k].indexAudit
      BY <1>1 DEF CallStates
    <3> HIDE DEF r
    <3> QED BY <3>2, <3>3
  <2>2. ASSUME NEW pc \in {"section", "verify"}, Go(k, pc)
        PROVE  \E r :
        /\ call' = [call EXCEPT ![k] = r] /\ r \in CallStates
        /\ r.pc \in {"section", "verify", "done"}
        /\ r.page = call[k].page /\ r.edited = call[k].edited /\ r.read = call[k].read
        /\ r.did = call[k].did /\ r.written = call[k].written /\ r.decided = call[k].decided
        /\ r.indexAudit = call[k].indexAudit
        /\ \/ r.audit = call[k].audit
           \/ r.pc = "done" /\ r.audit \in {"failed", "running"}
    <3> DEFINE r == [call[k] EXCEPT !.pc = pc]
    <3>1. call' = [call EXCEPT ![k] = r]
      BY <2>2 DEF Go
    <3>2. /\ r \in CallStates /\ r.pc = pc /\ r.audit = call[k].audit
          /\ r.page = call[k].page /\ r.edited = call[k].edited /\ r.read = call[k].read
          /\ r.did = call[k].did /\ r.written = call[k].written /\ r.decided = call[k].decided
          /\ r.indexAudit = call[k].indexAudit
      BY <1>1 DEF CallStates
    <3> HIDE DEF r
    <3> QED BY <3>1, <3>2
  <2> QED BY <2>1, <2>2 DEF OpenTopic, WriteSection
<1>10. Shape(Op(k), r)
  BY <1>3, <1>9, NoneIsNothing DEF Shape, Appending, Reading
<1>11. CallStep(k, r)
  BY <1>2, <1>3, <1>9, <1>10, NoneIsNothing DEF CallStep, IInv, Shaped
<1> QED BY <1>2, <1>3, <1>5, <1>6, <1>8, <1>9, <1>11, MoveKeeps

LEMMA AppearKeeps ==
  ASSUME IInv, NEW k \in Calls, UNCHANGED recoveryVars, Appear(k)
  PROVE  IInv'
<1>1. PICK p \in Pages :
        /\ k \in notion[p].sections \ notion[p].shown
        /\ notion' = [notion EXCEPT ![p].shown = notion[p].shown \cup {k}]
        /\ UNCHANGED <<proposalVars, request, index, work, clock, call>>
  BY DEF Appear
<1>2. /\ notion \in [Pages -> [edited : Nat, topics : SUBSET Calls,
                               sections : SUBSET Calls, shown : SUBSET Calls]]
      /\ \A q \in Pages : notion[q].shown \subseteq notion[q].sections /\ notion[q].edited <= clock
      /\ call[k] \in CallStates /\ Shape(Op(k), call[k])
  BY CallFacts DEF IInv, Types, TypeOK, Timely
<1>3. /\ notion' \in [Pages -> [edited : Nat, topics : SUBSET Calls,
                                sections : SUBSET Calls, shown : SUBSET Calls]]
      /\ \A q \in Pages : /\ notion'[q].sections = notion[q].sections
                          /\ notion'[q].edited = notion[q].edited
                          /\ notion[q].shown \subseteq notion'[q].shown
                          /\ notion'[q].shown \subseteq notion'[q].sections
  <2> DEFINE new == [notion[p] EXCEPT !.shown = notion[p].shown \cup {k}]
  <2>1. /\ new \in [edited : Nat, topics : SUBSET Calls,
                     sections : SUBSET Calls, shown : SUBSET Calls]
        /\ new.sections = notion[p].sections /\ new.edited = notion[p].edited
        /\ new.shown = notion[p].shown \cup {k}
    BY <1>2
  <2>2. notion' = [notion EXCEPT ![p] = new]
    BY <1>1
  <2> HIDE DEF new
  <2> QED BY <1>1, <1>2, <2>1, <2>2
<1>4. Grows
  BY <1>1, <1>2, <1>3 DEF Grows
<1>5. PICK r : r = call[k]
  OBVIOUS
<1>6. call' = [call EXCEPT ![k] = r] /\ r \in CallStates /\ clock' \in 1..MaxMinutes
  BY <1>1, <1>2, <1>5 DEF IInv, Types, TypeOK
<1>7. CallStep(k, r)
  BY <1>1, <1>2, <1>5, <1>6 DEF CallStep, IInv, Shaped
<1>8. Decisions'
  BY <1>1, <1>5, <1>6, DecisionsKept
<1>9. Timely'
  <2>1. r.pc = "page" /\ Op(k) = "accept" => r.page # None /\ ShownSections(k, r.page) # {}
    BY <1>2, <1>5 DEF Shape, Reading, Accepting, IInv, Timely
  <2> QED BY ZenonT(30), <1>1, <1>3, <1>4, <1>5, <1>6, <2>1, TimelyKept
<1>10. Appended'
  <2>1. r.pc \in {"topic", "section"} => r.written = {}
    BY <1>5 DEF IInv, Appended
  <2> QED BY ZenonT(30), <1>1, <1>3, <1>4, <1>5, <1>6, <2>1, AppendedKept
<1>11. request \in [Requests -> Rows \cup {None}] /\ index \in [Pages -> Snapshots \cup {None}]
  BY DEF IInv, Types, TypeOK
<1> QED BY <1>1, <1>3, <1>6, <1>7, <1>8, <1>9, <1>10, <1>11, CallFrame

-------------------------------------------------------------------------------
(* How calls begin.                                                        *)

LEMMA BeginIndexKeeps ==
  ASSUME IInv, NEW k \in Calls, UNCHANGED recoveryVars, BeginIndex(k)
  PROVE  IInv'
<1>1. call[k] \in CallStates /\ Shape(Op(k), call[k]) /\ work[k].page \in Pages
  BY CallFacts
<1>2. /\ UNCHANGED <<proposalVars, request, index, work, notion, clock>>
      /\ call[k].pc = "new" /\ Op(k) = "index"
      /\ call' = [call EXCEPT ![k] = [call[k] EXCEPT !.pc = "page", !.page = work[k].page]]
  BY DEF BeginIndex
<1>3. PICK r : r = [call[k] EXCEPT !.pc = "page", !.page = work[k].page]
  OBVIOUS
<1>4. /\ r \in CallStates /\ r.pc = "page" /\ r.page = work[k].page
      /\ r.edited = call[k].edited /\ r.read = call[k].read
      /\ r.did = call[k].did /\ r.written = call[k].written /\ r.decided = call[k].decided
      /\ r.audit = call[k].audit /\ r.indexAudit = call[k].indexAudit
  BY <1>1, <1>3 DEF CallStates
<1>5. Shape(Op(k), r)
  BY <1>1, <1>2, <1>4, NoneIsNothing DEF Shape, Appending, Reading
<1>6. CallStep(k, r)
  BY <1>1, <1>2, <1>3, <1>4, <1>5, NoneIsNothing DEF CallStep, Shape
<1> QED BY <1>2, <1>4, <1>6, MoveStays, MoveKeeps

(* A call that finds its request undecided knows the decisions before it.  *)
LEMMA DecidedKept ==
  ASSUME IInv, NEW k \in Calls, NEW r \in CallStates, call' = [call EXCEPT ![k] = r],
         UNCHANGED <<request, work>>, call[k].did = None, Row(k).status = "pending",
         r.did = None, r.decided = Decided, Op(k) = "accept" => r.page = Row(k).target
  PROVE  Decisions'
<1>1. /\ call'[k] = r /\ \A i \in Calls \ {k} : call'[i] = call[i]
      /\ \A i \in Calls : call[i].decided \subseteq Calls
      /\ \A i \in Calls : call[i].did \in {None, "accepted", "rejected", "retargeted"}
  BY DEF IInv, Types, TypeOK, CallStates
<1>2. \A i \in Calls : Request(i)' = Request(i) /\ Op(i)' = Op(i) /\ Row(i)' = Row(i)
  BY DEF Request, Op, Row
<1>3. \A i \in Calls : call'[i].did = call[i].did
  BY <1>1
<1>4. ASSUME NEW i \in Calls, NEW j \in call'[i].decided
      PROVE  /\ call'[j].did # None
             /\ Op(j)' # "index" /\ Request(j)' = Request(i)' => call'[j].did = "retargeted"
  <2>1. CASE i # k
    BY <1>1, <1>2, <1>3, <2>1 DEF IInv, Decisions
  <2>2. CASE i = k
    <3>1. j \in Calls /\ call[j].did # None
      BY <1>1, <2>2 DEF Decided
    <3>2. Request(j) = Request(k) => Row(j).status = "pending"
      BY DEF Row
    <3>3. Request(j) = Request(k) => call[j].did = "retargeted"
      BY <1>1, <3>1, <3>2 DEF IInv, Decisions
    <3> QED BY <1>2, <1>3, <2>2, <3>1, <3>3
  <2> QED BY <2>1, <2>2
<1>5. \A i \in Calls : Op(i) = "accept" /\ call'[i].page # None =>
        \/ Row(i).target = call'[i].page
        \/ \E j \in Calls \ call'[i].decided :
             Request(j) = Request(i) /\ call'[j].did = "retargeted"
  BY <1>1, <1>3 DEF IInv, Decisions
<1> QED BY <1>2, <1>3, <1>4, <1>5 DEF IInv, Decisions

LEMMA FoundPendingKeeps ==
  ASSUME IInv, NEW k \in Calls, NEW r, CallStep(k, r), call[k].pc = "new",
         UNCHANGED <<request, index, notion, clock>>,
         Row(k) # None, Row(k).status = "pending",
         r.pc \in {"lookup", "decide"}, r.did = None, r.decided = Decided,
         Op(k) = "accept" => /\ r.page = Row(k).target /\ r.page \in Pages
                             /\ r.written = ShownSections(k, r.page)
  PROVE  IInv'
<1>1. r \in CallStates /\ call' = [call EXCEPT ![k] = r] /\ UNCHANGED work
  BY DEF CallStep
<1>2. call[k].did = None
  BY CallFacts DEF Shape
<1>3. Decisions'
  BY <1>1, <1>2, DecidedKept
<1>4. Timely'
  BY <1>1, <1>2, MoveStays, TimelyKept, NoneIsNothing
<1>5. Appended'
  BY <1>1, MoveStays, AppendedKept
<1>6. request \in [Requests -> Rows \cup {None}] /\ index \in [Pages -> Snapshots \cup {None}]
  BY DEF IInv, Types, TypeOK
<1> QED BY <1>3, <1>4, <1>5, <1>6, MoveStays, CallFrame

LEMMA BeginKeeps ==
  ASSUME IInv, NEW k \in Calls, UNCHANGED recoveryVars, BeginAccept(k) \/ ReadStatus(k)
  PROVE  IInv'
<1>1. call[k] \in CallStates /\ Shape(Op(k), call[k]) /\ Request(k) \in Requests
  BY CallFacts
<1>2. /\ UNCHANGED <<proposalVars, request, index, work, notion, clock>>
      /\ call[k].pc = "new" /\ Op(k) \in {"accept", "reject", "edit_later"}
  BY DEF BeginAccept, ReadStatus
<1>3. CASE Refused(k)
  BY <1>2, <1>3, RefusedKeeps
<1>4. CASE ~Refused(k)
  <2>1. Row(k) # None /\ Row(k).status = "pending" /\ Row(k) \in Rows
    BY <1>1, <1>4 DEF BeginAccept, ReadStatus, MayAccept, Row, IInv, Types, TypeOK
  <2>2. call[k].did = None /\ call[k].page = None /\ call[k].indexAudit = None
    BY <1>1, <1>2 DEF Shape, NewCall
  <2>3. PICK r :
          /\ call' = [call EXCEPT ![k] = r] /\ r \in CallStates
          /\ r.did = None /\ r.decided = Decided /\ r.audit = "running" /\ r.indexAudit = None
          /\ \/ /\ Op(k) = "accept" /\ r.pc = "lookup" /\ r.page = Row(k).target
                /\ r.page \in Pages /\ r.written = ShownSections(k, r.page)
             \/ Op(k) # "accept" /\ r.pc = "decide"
    <3>1. Decided \subseteq Calls
      BY DEF Decided
    <3>2. CASE BeginAccept(k)
      <4>1. /\ Op(k) = "accept" /\ Row(k).target # None
            /\ call' = [call EXCEPT ![k] =
                 [call[k] EXCEPT !.pc = "lookup", !.audit = "running", !.page = Row(k).target,
                      !.written = ShownSections(k, Row(k).target), !.decided = Decided]]
        BY <1>4, <3>2 DEF BeginAccept, MayAccept
      <4>2. Row(k).target \in Pages
        BY <2>1, <4>1 DEF Rows
      <4>3. ShownSections(k, Row(k).target) \subseteq Calls
        BY <4>2 DEF ShownSections, IInv, Types, TypeOK
      <4> DEFINE r == [call[k] EXCEPT !.pc = "lookup", !.audit = "running", !.page = Row(k).target,
                      !.written = ShownSections(k, Row(k).target), !.decided = Decided]
      <4>4. /\ r \in CallStates /\ r.did = call[k].did /\ r.decided = Decided
            /\ r.audit = "running" /\ r.indexAudit = call[k].indexAudit
            /\ r.pc = "lookup" /\ r.page = Row(k).target
            /\ r.written = ShownSections(k, Row(k).target)
        BY <1>1, <3>1, <4>2, <4>3 DEF CallStates
      <4>5. call' = [call EXCEPT ![k] = r]
        BY <4>1
      <4>6. r.page \in Pages /\ r.written = ShownSections(k, r.page)
        BY <4>2, <4>4
      <4> HIDE DEF r
      <4> QED BY <2>2, <4>1, <4>4, <4>5, <4>6
    <3>3. CASE ReadStatus(k)
      <4> DEFINE r == [call[k] EXCEPT !.pc = "decide", !.audit = "running", !.decided = Decided]
      <4>1. Op(k) # "accept" /\ call' = [call EXCEPT ![k] = r]
        BY <1>4, <3>3 DEF ReadStatus
      <4>2. /\ r \in CallStates /\ r.did = call[k].did /\ r.decided = Decided
            /\ r.audit = "running" /\ r.indexAudit = call[k].indexAudit /\ r.pc = "decide"
        BY <1>1, <3>1 DEF CallStates
      <4> HIDE DEF r
      <4> QED BY <2>2, <4>1, <4>2
    <3> QED BY <3>2, <3>3
  <2>4. Shape(Op(k), r)
    BY <1>2, <2>3, NoneIsNothing DEF Shape, Appending, Reading
  <2>5. CallStep(k, r)
    BY <1>2, <2>1, <2>3, <2>4 DEF CallStep
  <2> QED BY <1>2, <2>1, <2>3, <2>5, FoundPendingKeeps
<1> QED BY <1>3, <1>4

-------------------------------------------------------------------------------
(* How a page is read and stored.                                          *)

LEMMA TimelyFacts ==
  ASSUME IInv
  PROVE  /\ \A p \in Pages : /\ notion[p].edited \in Nat /\ notion[p].edited <= clock
                             /\ index[p] # None => /\ index[p].edited \in Nat
                                                   /\ index[p].edited <= notion[p].edited
         /\ \A i \in Calls : call[i].edited \in Nat
         /\ \A i \in Calls : call[i].pc \in Reading \/ Accepting(i) \/ call[i].did = "accepted"
                              => call[i].page \in Pages
BY CallFacts DEF IInv, Types, TypeOK, Snapshots, CallStates, Timely, Shape, Accepting, Reading

(* A call that reads what Notion shows now.                                *)
LEMMA ReadingKeeps ==
  ASSUME IInv, NEW k \in Calls, NEW r, CallStep(k, r), call[k].pc \in Reading,
         UNCHANGED <<request, index, notion, clock>>,
         r.page = call[k].page, r.did = call[k].did,
         r.written = call[k].written, r.decided = call[k].decided,
         \/ r.pc = "blocks" /\ call[k].pc = "page" /\ r.edited = notion[r.page].edited
         \/ /\ r.pc = "persist" /\ call[k].pc = "blocks" /\ r.edited = call[k].edited
            /\ r.read = notion[r.page].shown
  PROVE  IInv'
<1>1. /\ r \in CallStates /\ call' = [call EXCEPT ![k] = r] /\ UNCHANGED work
      /\ call'[k] = r /\ \A i \in Calls \ {k} : call'[i] = call[i]
  BY DEF CallStep, IInv, Types, TypeOK
<1>2. call[k].did = None /\ r.page \in Pages
  BY CallFacts, TimelyFacts DEF Shape, Reading
<1>3. Decisions'
  BY <1>1, DecisionsKept
<1>4. Appended'
  BY <1>1, MoveStays, AppendedKept
<1>5. /\ \A i \in Calls : Op(i)' = Op(i)
      /\ \A i \in Calls : ShownSections(i, call[i].page)' = ShownSections(i, call'[i].page)
      /\ \A i \in Calls : call'[i].did = call[i].did /\ call'[i].page = call[i].page
      /\ \A i \in Calls : Accepting(i)' <=> Accepting(i)
      /\ \A i \in Calls \ {k} : HasRead(i)' <=> HasRead(i)
  BY <1>1, <1>2 DEF Op, Request, ShownSections, Accepting, HasRead, Reading
<1>6. call[k].did # "accepted"
  BY <1>2, NoneIsNothing
<1>7. r.edited <= notion[r.page].edited
  BY <1>2, TimelyFacts DEF IInv, Timely
<1>8. \A i \in Calls :
        /\ call'[i].pc \in {"blocks", "persist"} => call'[i].edited <= notion'[call'[i].page].edited
        /\ Accepting(i)' \/ call'[i].did = "accepted" => ShownSections(i, call[i].page)' # {}
        /\ call'[i].did = "accepted" =>
             index'[call'[i].page] # None /\ index'[call'[i].page].edited >= call'[i].edited
  BY <1>1, <1>5, <1>6, <1>7 DEF IInv, Timely
<1>9. ASSUME NEW i \in Calls, HasRead(i)' \/ call'[i].did = "accepted"
      PROVE  /\ index'[call'[i].page] # None /\ index'[call'[i].page].edited > call'[i].edited =>
                 index'[call'[i].page].sections \cap ShownSections(i, call[i].page)' # {}
             /\ \A j \in Calls :
                  /\ call'[j].pc = "persist" /\ call'[j].page = call'[i].page
                  /\ call'[j].edited > call'[i].edited
                  => call'[j].read \cap ShownSections(i, call[i].page)' # {}
  <2>1. CASE i # k
    <3>1. (HasRead(i) \/ call[i].did = "accepted") /\ call'[i] = call[i]
      BY <1>1, <1>5, <1>9, <2>1
    <3>2. ShownSections(i, call[i].page)' = ShownSections(i, call[i].page)
      BY <1>1, <1>5, <2>1
    <3>3. /\ ShownSections(i, call[i].page) # {}
          /\ index[call[i].page] # None /\ index[call[i].page].edited > call[i].edited =>
               index[call[i].page].sections \cap ShownSections(i, call[i].page) # {}
          /\ \A j \in Calls :
               /\ call[j].pc = "persist" /\ call[j].page = call[i].page
               /\ call[j].edited > call[i].edited
               => call[j].read \cap ShownSections(i, call[i].page) # {}
      BY <3>1 DEF IInv, Timely, HasRead
    <3>4. r.pc = "persist" /\ r.page = call[i].page =>
            r.read \cap ShownSections(i, call[i].page) # {}
      BY <3>3 DEF ShownSections
    <3> QED BY <1>1, <3>1, <3>2, <3>3, <3>4
  <2>2. CASE i = k
    <3>1. CASE r.pc = "blocks" /\ r.edited = notion[r.page].edited
      <4>1. index[r.page] # None => ~(index[r.page].edited > r.edited)
        BY <1>2, <3>1, TimelyFacts
      <4>2. \A j \in Calls : call[j].pc = "persist" /\ call[j].page = r.page =>
                             ~(call[j].edited > r.edited)
        BY <1>2, <3>1, TimelyFacts DEF IInv, Timely
      <4> QED BY <1>1, <2>2, <3>1, <4>1, <4>2
    <3>2. CASE /\ r.pc = "persist" /\ call[k].pc = "blocks" /\ r.edited = call[k].edited
               /\ r.read = notion[r.page].shown
      <4>1. HasRead(k)
        BY <1>1, <1>5, <1>6, <1>9, <2>2, <3>2 DEF HasRead
      <4>2. /\ index[call[k].page] # None /\ index[call[k].page].edited > call[k].edited =>
                 index[call[k].page].sections \cap ShownSections(k, call[k].page) # {}
            /\ \A j \in Calls :
                 /\ call[j].pc = "persist" /\ call[j].page = call[k].page
                 /\ call[j].edited > call[k].edited
                 => call[j].read \cap ShownSections(k, call[k].page) # {}
        BY <4>1 DEF IInv, Timely
      <4>3. ShownSections(i, call[i].page)' = ShownSections(k, call[k].page)
        BY <1>1, <1>5, <2>2
      <4>4. ~(r.edited > r.edited)
        BY TimelyFacts, <3>2
      <4> QED BY <1>1, <2>2, <3>2, <4>2, <4>3, <4>4
    <3> QED BY <1>2, <2>2, <3>1, <3>2
  <2> QED BY <2>1, <2>2
<1>10. Timely'
  <2>1. \A p \in Pages : /\ notion'[p].edited <= clock'
                         /\ index'[p] # None => index'[p].edited <= notion'[p].edited
    BY TimelyFacts
  <2> QED BY <1>8, <1>9, <2>1 DEF Timely
<1>11. request \in [Requests -> Rows \cup {None}] /\ index \in [Pages -> Snapshots \cup {None}]
  BY DEF IInv, Types, TypeOK
<1> QED BY <1>3, <1>4, <1>10, <1>11, MoveStays, CallFrame

LEMMA ReadKeeps ==
  ASSUME IInv, NEW k \in Calls, UNCHANGED recoveryVars, ReadPage(k) \/ ReadBlocks(k)
  PROVE  IInv'
<1>1. /\ call[k] \in CallStates /\ Shape(Op(k), call[k]) /\ call[k].pc \in Reading
      /\ UNCHANGED <<proposalVars, request, index, work, notion, clock>>
  BY CallFacts DEF ReadPage, ReadBlocks, Reading
<1>2. /\ call[k].page \in Pages /\ notion[call[k].page].edited \in Nat
      /\ notion[call[k].page].shown \subseteq Calls
  BY <1>1, TimelyFacts DEF IInv, Types, TypeOK
<1>3. PICK r :
        /\ call' = [call EXCEPT ![k] = r] /\ r \in CallStates
        /\ r.page = call[k].page /\ r.did = call[k].did
        /\ r.written = call[k].written /\ r.decided = call[k].decided
        /\ r.audit = call[k].audit /\ r.indexAudit \in {call[k].indexAudit, "running"}
        /\ \/ r.pc = "blocks" /\ call[k].pc = "page" /\ r.edited = notion[call[k].page].edited
           \/ /\ r.pc = "persist" /\ call[k].pc = "blocks" /\ r.edited = call[k].edited
              /\ r.read = notion[call[k].page].shown
  <2>1. CASE ReadPage(k)
    <3> DEFINE r == [call[k] EXCEPT !.pc = "blocks", !.indexAudit = "running",
                                    !.edited = notion[call[k].page].edited]
    <3>1. call' = [call EXCEPT ![k] = r] /\ call[k].pc = "page"
      BY <2>1 DEF ReadPage
    <3>2. /\ r \in CallStates /\ r.page = call[k].page /\ r.did = call[k].did
          /\ r.written = call[k].written /\ r.decided = call[k].decided
          /\ r.audit = call[k].audit /\ r.indexAudit = "running"
          /\ r.pc = "blocks" /\ r.edited = notion[call[k].page].edited
      BY <1>1, <1>2 DEF CallStates
    <3> HIDE DEF r
    <3> QED BY <3>1, <3>2
  <2>2. CASE ReadBlocks(k)
    <3> DEFINE r == [call[k] EXCEPT !.pc = "persist", !.read = notion[call[k].page].shown]
    <3>1. /\ call[k].pc = "blocks"
          /\ call' = [call EXCEPT ![k].pc = "persist", ![k].read = notion[call[k].page].shown]
      BY <2>2 DEF ReadBlocks
    <3>2. /\ r \in CallStates /\ r.page = call[k].page /\ r.did = call[k].did
          /\ r.written = call[k].written /\ r.decided = call[k].decided
          /\ r.audit = call[k].audit /\ r.indexAudit = call[k].indexAudit
          /\ r.pc = "persist" /\ r.edited = call[k].edited /\ r.read = notion[call[k].page].shown
      BY <1>1, <1>2 DEF CallStates
    <3>3. call' = [call EXCEPT ![k] = r]
      BY <3>1 DEF IInv, Types, TypeOK
    <3> HIDE DEF r
    <3> QED BY <3>1, <3>2, <3>3
  <2> QED BY <2>1, <2>2
<1>4. Shape(Op(k), r)
  BY <1>1, <1>3, NoneIsNothing DEF Shape, Appending, Reading
<1>5. CallStep(k, r)
  BY <1>1, <1>3, <1>4 DEF CallStep, IInv, Shaped, Shape, Reading
<1> QED BY <1>1, <1>3, <1>5, ReadingKeeps

(* A page is stored, not older than what was stored, and with what the     *)
(* calls have seen on it by its time.                                      *)
LEMMA IndexTimely ==
  ASSUME IInv, NEW p \in Pages, NEW s \in Snapshots, s # None, index' = [index EXCEPT ![p] = s],
         UNCHANGED <<notion, clock, work>>,
         s.edited <= notion[p].edited, index[p] # None => index[p].edited <= s.edited,
         \A i \in Calls :
           /\ HasRead(i) \/ call[i].did = "accepted"
           /\ call[i].page = p /\ s.edited > call[i].edited
           => s.sections \cap ShownSections(i, p) # {},
         \A i \in Calls :
           /\ call'[i].page = call[i].page /\ call'[i].edited = call[i].edited
           /\ call'[i].read = call[i].read
           /\ call'[i].pc \in Reading => call'[i].pc = call[i].pc
           /\ call'[i].did = "accepted" =>
                \/ call[i].did = "accepted"
                \/ HasRead(i) /\ call[i].page = p /\ call[i].edited = s.edited
  PROVE  Timely'
<1>1. /\ \A i \in Calls : Op(i)' = Op(i)
      /\ \A i \in Calls : ShownSections(i, call[i].page)' = ShownSections(i, call[i].page)
      /\ \A i \in Calls : Accepting(i)' => Accepting(i)
      /\ \A i \in Calls : HasRead(i)' => HasRead(i)
  BY DEF Op, Request, ShownSections, Accepting, HasRead
<1>2. /\ index'[p] = s /\ \A q \in Pages \ {p} : index'[q] = index[q]
      /\ s.edited \in Nat
  BY DEF IInv, Types, TypeOK, Snapshots
<1>3. \A q \in Pages : /\ notion'[q].edited <= clock'
                       /\ index'[q] # None => index'[q].edited <= notion'[q].edited
  BY <1>2, TimelyFacts
<1>4. \A i \in Calls : call'[i].pc \in {"blocks", "persist"} =>
        call'[i].edited <= notion'[call'[i].page].edited
  BY DEF Reading, IInv, Timely
<1>5. \A i \in Calls : Accepting(i)' \/ call'[i].did = "accepted" =>
        ShownSections(i, call[i].page)' # {}
  BY <1>1 DEF IInv, Timely, HasRead
<1>6. ASSUME NEW i \in Calls, call'[i].did = "accepted"
      PROVE  index'[call'[i].page] # None /\ index'[call'[i].page].edited >= call'[i].edited
  <2>1. CASE call[i].page = p
    <3>1. CASE call[i].did = "accepted"
      BY <1>2, <2>1, <3>1, TimelyFacts DEF IInv, Timely
    <3>2. CASE call[i].edited = s.edited
      BY <1>2, <2>1, <3>2
    <3> QED BY <1>6, <3>1, <3>2
  <2>2. CASE call[i].page # p
    <3>1. call[i].did = "accepted" /\ call[i].page \in Pages
      BY <1>6, <2>2, TimelyFacts
    <3> QED BY <1>2, <2>2, <3>1 DEF IInv, Timely
  <2> QED BY <2>1, <2>2
<1>7. ASSUME NEW i \in Calls, HasRead(i)' \/ call'[i].did = "accepted"
      PROVE  /\ index'[call'[i].page] # None /\ index'[call'[i].page].edited > call'[i].edited =>
                 index'[call'[i].page].sections \cap ShownSections(i, call[i].page)' # {}
             /\ \A j \in Calls :
                  /\ call'[j].pc = "persist" /\ call'[j].page = call'[i].page
                  /\ call'[j].edited > call'[i].edited
                  => call'[j].read \cap ShownSections(i, call[i].page)' # {}
  <2>1. (HasRead(i) \/ call[i].did = "accepted") /\ call[i].page \in Pages
    BY <1>1, <1>7, TimelyFacts DEF HasRead
  <2>2. index'[call[i].page] # None /\ index'[call[i].page].edited > call[i].edited =>
          index'[call[i].page].sections \cap ShownSections(i, call[i].page) # {}
    <3>1. CASE call[i].page = p
      BY <1>2, <2>1, <3>1
    <3>2. CASE call[i].page # p
      BY <1>2, <2>1, <3>2 DEF IInv, Timely
    <3> QED BY <3>1, <3>2
  <2>3. \A j \in Calls : call'[j].pc = "persist" => call[j].pc = "persist"
    BY DEF Reading
  <2>4. \A j \in Calls :
          /\ call[j].pc = "persist" /\ call[j].page = call[i].page
          /\ call[j].edited > call[i].edited
          => call[j].read \cap ShownSections(i, call[i].page) # {}
    BY <2>1 DEF IInv, Timely
  <2> QED BY <1>1, <2>2, <2>3, <2>4
<1> QED BY <1>3, <1>4, <1>5, <1>6, <1>7 DEF Timely

LEMMA FileKeeps ==
  ASSUME IInv, UNCHANGED recoveryVars, NEW p \in Pages, File(p)
  PROVE  IInv'
<1>1. PICK s : s = [edited |-> notion[p].edited, sections |-> notion[p].shown]
  OBVIOUS
<1>2. s \in Snapshots /\ s # None /\ s.edited = notion[p].edited /\ s.sections = notion[p].shown
  <2>1. notion[p].edited \in Nat /\ notion[p].shown \subseteq Calls
    BY DEF IInv, Types, TypeOK
  <2> QED BY <1>1, <2>1, NoneIsNothing DEF Snapshots
<1>3. index' = [index EXCEPT ![p] = s] /\ UNCHANGED <<proposalVars, request, reviewVars, recoveryVars>>
  BY <1>1 DEF File
<1>4. /\ UNCHANGED <<job, draft, request, work, notion, clock, call, outcome, recovery>>
      /\ \A c : Screenshot(c)' = Screenshot(c)
      /\ \A i : Request(i)' = Request(i) /\ Op(i)' = Op(i) /\ Row(i)' = Row(i)
      /\ \A i, q : ShownSections(i, q)' = ShownSections(i, q)
  BY <1>3 DEF proposalVars, reviewVars, recoveryVars, Screenshot, Op, Request, Row, ShownSections
<1>5. Timely'
  <2>1. ASSUME NEW i \in Calls, HasRead(i) \/ call[i].did = "accepted", call[i].page = p
        PROVE  s.sections \cap ShownSections(i, p) # {}
    BY <1>2, <2>1 DEF IInv, Timely, HasRead, ShownSections
  <2>2. s.edited <= notion[p].edited /\ (index[p] # None => index[p].edited <= s.edited)
    BY <1>2, TimelyFacts
  <2> QED BY <1>2, <1>3, <1>4, <2>1, <2>2, IndexTimely
<1>6. Types'
  BY <1>2, <1>3, <1>4 DEF IInv, Types, TypeOK
<1>7. Drafted'
  BY <1>4 DEF IInv, Drafted, DraftHolds, Grounded
<1>8. Shaped' /\ Decisions' /\ Repaired'
  BY <1>4 DEF IInv, Shaped, Decisions, Repaired
<1>9. Appended'
  BY <1>4 DEF IInv, Appended
<1> QED BY <1>5, <1>6, <1>7, <1>8, <1>9 DEF IInv

LEMMA StoreTimely ==
  ASSUME IInv, NEW k \in Calls, call[k].pc = "persist", ~Stale(k), Persisted(k),
         UNCHANGED <<notion, clock, work>>, NEW r \in CallStates, call' = [call EXCEPT ![k] = r],
         r.pc = "close", r.page = call[k].page, r.edited = call[k].edited, r.read = call[k].read,
         r.did = "accepted" => Op(k) = "accept"
  PROVE  Timely' /\ index' \in [Pages -> Snapshots \cup {None}]
<1>1. /\ call'[k] = r /\ \A i \in Calls \ {k} : call'[i] = call[i]
      /\ call[k] \in CallStates /\ call[k].page \in Pages
  BY TimelyFacts DEF Reading, IInv, Types, TypeOK
<1>2. PICK p \in Pages : p = call[k].page
  BY <1>1
<1>3. PICK s : s = [edited |-> call[k].edited, sections |-> call[k].read]
  OBVIOUS
<1>4. s \in Snapshots /\ s # None /\ s.edited = call[k].edited /\ s.sections = call[k].read
  BY <1>1, <1>3, NoneIsNothing DEF Snapshots, CallStates
<1>5. index' = [index EXCEPT ![p] = s]
  BY <1>2, <1>3 DEF Persisted
<1>6. s.edited <= notion[p].edited /\ (index[p] # None => index[p].edited <= s.edited)
  BY <1>2, <1>4, TimelyFacts DEF Stale, IInv, Timely
<1>7. \A i \in Calls :
        /\ HasRead(i) \/ call[i].did = "accepted"
        /\ call[i].page = p /\ s.edited > call[i].edited
        => s.sections \cap ShownSections(i, p) # {}
  BY <1>2, <1>4 DEF IInv, Timely
<1>8. \A i \in Calls :
           /\ call'[i].page = call[i].page /\ call'[i].edited = call[i].edited
           /\ call'[i].read = call[i].read
           /\ call'[i].pc \in Reading => call'[i].pc = call[i].pc
           /\ call'[i].did = "accepted" =>
                \/ call[i].did = "accepted"
                \/ HasRead(i) /\ call[i].page = p /\ call[i].edited = s.edited
  <2>1. Op(k) = "accept" => HasRead(k)
    BY DEF HasRead, Accepting, Reading
  <2> QED BY <1>1, <1>2, <1>4, <2>1 DEF Reading
<1>9. Timely'
  BY <1>4, <1>5, <1>6, <1>7, <1>8, IndexTimely
<1>10. index' \in [Pages -> Snapshots \cup {None}]
  BY <1>4, <1>5 DEF IInv, Types, TypeOK
<1> QED BY <1>9, <1>10

LEMMA PersistIndexKeeps ==
  ASSUME IInv, NEW k \in Calls, UNCHANGED recoveryVars, PersistIndex(k)
  PROVE  IInv'
<1>1. /\ call[k] \in CallStates /\ Shape(Op(k), call[k])
      /\ call[k].pc = "persist" /\ Op(k) = "index" /\ ~Stale(k) /\ Persisted(k)
      /\ call' = [call EXCEPT ![k] = [call[k] EXCEPT !.pc = "close"]]
      /\ UNCHANGED <<proposalVars, request, work, notion, clock>>
  BY CallFacts DEF PersistIndex, Go
<1>2. PICK r : r = [call[k] EXCEPT !.pc = "close"]
  OBVIOUS
<1>3. /\ r \in CallStates /\ r.pc = "close" /\ r.page = call[k].page
      /\ r.edited = call[k].edited /\ r.read = call[k].read /\ r.did = call[k].did
      /\ r.written = call[k].written /\ r.decided = call[k].decided
      /\ r.audit = call[k].audit /\ r.indexAudit = call[k].indexAudit
  BY <1>1, <1>2 DEF CallStates
<1>4. r.did = None
  BY <1>1, <1>3 DEF Shape
<1>5. Shape(Op(k), r)
  BY <1>1, <1>3, <1>4, NoneIsNothing DEF Shape, Appending, Reading
<1>6. CallStep(k, r)
  BY <1>1, <1>2, <1>3, <1>4, <1>5 DEF CallStep
<1>7. Timely' /\ index' \in [Pages -> Snapshots \cup {None}]
  BY <1>1, <1>2, <1>3, <1>4, NoneIsNothing, StoreTimely
<1>8. Decisions'
  BY <1>1, <1>2, <1>3, DecisionsKept
<1>9. Appended'
  BY <1>1, <1>2, <1>3, MoveStays, AppendedKept
<1>10. request \in [Requests -> Rows \cup {None}]
  BY DEF IInv, Types, TypeOK
<1> QED BY <1>1, <1>6, <1>7, <1>8, <1>9, <1>10, MoveStays, CallFrame

-------------------------------------------------------------------------------
(* How a request is decided.                                               *)

(* The row of the request of k gets another status or target.              *)
RowBecomes(k, row) ==
  /\ row \in Rows
  /\ request' = [request EXCEPT ![Request(k)] = row]

LEMMA RowFacts ==
  ASSUME IInv, NEW k \in Calls, Row(k) # None, NEW row, RowBecomes(k, row), UNCHANGED work
  PROVE  /\ request' \in [Requests -> Rows \cup {None}]
         /\ \A c \in Requests : request'[c] # None <=> request[c] # None
         /\ \A i \in Calls : /\ Request(i)' = Request(i) /\ Op(i)' = Op(i)
                             /\ Request(i) = Request(k) => Row(i)' = row /\ Row(i) = Row(k)
                             /\ Request(i) # Request(k) => Row(i)' = Row(i)
<1>1. /\ request \in [Requests -> Rows \cup {None}] /\ Request(k) \in Requests
      /\ \A i \in Calls : Request(i) \in Requests
  BY CallFacts DEF IInv, Types, TypeOK
<1>2. row # None /\ request' = [request EXCEPT ![Request(k)] = row]
  BY NoneIsNothing DEF RowBecomes
<1>3. \A i \in Calls : Request(i)' = Request(i) /\ Op(i)' = Op(i)
  BY DEF Request, Op
<1> QED BY <1>1, <1>2, <1>3 DEF RowBecomes, Row

(* What a call that decides has to keep.                                   *)
LEMMA DecideKeeps ==
  ASSUME IInv, NEW k \in Calls, NEW r, CallStep(k, r), call[k].did = None,
         Row(k) # None, NEW row, RowBecomes(k, row),
         UNCHANGED <<notion, clock>>, index' \in [Pages -> Snapshots \cup {None}], Timely',
         r.pc = "close", r.page = call[k].page, r.written = call[k].written,
         r.decided = call[k].decided,
         \/ r.did = "accepted" /\ Row(k).status = "pending" /\ row.status = "accepted"
            /\ row.target = Row(k).target
         \/ r.did = "rejected" /\ row.status = "rejected" /\ row.target = Row(k).target
         \/ r.did = "retargeted" /\ row.status = Row(k).status
  PROVE  IInv'
<1>1. /\ r \in CallStates /\ call' = [call EXCEPT ![k] = r] /\ UNCHANGED work
      /\ call'[k] = r /\ \A i \in Calls \ {k} : call'[i] = call[i]
      /\ \A i \in Calls : call[i].decided \subseteq Calls
  BY DEF CallStep, IInv, Types, TypeOK, CallStates
<1>2. Appended'
  BY <1>1, MoveStays, AppendedKept
<1>3. \A i \in Calls : /\ Request(i)' = Request(i) /\ Op(i)' = Op(i)
                       /\ Request(i) = Request(k) => Row(i)' = row /\ Row(i) = Row(k)
                       /\ Request(i) # Request(k) => Row(i)' = Row(i)
  BY <1>1, RowFacts
<1>4. \A i \in Calls : call'[i].decided = call[i].decided /\ call'[i].page = call[i].page
  BY <1>1
<1>5. \A i \in Calls : \A j \in call[i].decided : j # k /\ call'[j].did = call[j].did
  BY <1>1 DEF IInv, Decisions
<1>6. \A i \in Calls : \A j \in call'[i].decided :
        /\ call'[j].did # None
        /\ Op(j)' # "index" /\ Request(j)' = Request(i)' => call'[j].did = "retargeted"
  BY <1>1, <1>3, <1>4, <1>5 DEF IInv, Decisions
<1>7. r.did # "accepted" => \A i \in Calls : call'[i].did = "accepted" => call[i].did = "accepted"
  BY <1>1
<1>8. \A i, j \in Calls :
        call'[i].did = "accepted" /\ call'[j].did = "accepted" /\ Request(i) = Request(j) => i = j
  <2>1. CASE r.did # "accepted"
    BY <1>7, <2>1 DEF IInv, Decisions
  <2>2. CASE r.did = "accepted"
    <3>1. \A i \in Calls : Request(i) = Request(k) => call[i].did # "accepted"
      BY <2>2, <1>3 DEF IInv, Decisions
    <3> QED BY <1>1, <3>1 DEF IInv, Decisions
  <2> QED BY <2>1, <2>2
<1>9. \A i \in Calls : call'[i].did = "rejected" => Row(i)'.status = "rejected"
  <2> SUFFICES ASSUME NEW i \in Calls, call'[i].did = "rejected" PROVE Row(i)'.status = "rejected"
    OBVIOUS
  <2>1. CASE i = k
    BY <1>1, <1>3, <2>1
  <2>2. CASE i # k /\ Request(i) # Request(k)
    BY <1>1, <1>3, <2>2 DEF IInv, Decisions
  <2>3. CASE i # k /\ Request(i) = Request(k)
    <3>1. Row(k).status = "rejected"
      BY <1>1, <1>3, <2>3 DEF IInv, Decisions
    <3>2. row.status = "rejected"
      BY <3>1
    <3> QED BY <1>3, <2>3, <3>2
  <2> QED BY <2>1, <2>2, <2>3
<1>10. ASSUME NEW i \in Calls, call'[i].did = "accepted"
       PROVE  /\ Row(i)'.status \in {"accepted", "rejected"}
              /\ Row(i)'.status = "rejected" =>
                   \E j \in Calls : Request(j) = Request(i) /\ call'[j].did = "rejected"
  <2>1. CASE i = k
    BY <1>1, <1>3, <1>10, <2>1
  <2>2. CASE i # k
    <3>1. /\ Row(i).status \in {"accepted", "rejected"}
          /\ Row(i).status = "rejected" =>
               \E j \in Calls : Request(j) = Request(i) /\ call[j].did = "rejected"
      BY <1>1, <1>10, <2>2 DEF IInv, Decisions
    <3>2. \A j \in Calls : call[j].did = "rejected" => call'[j].did = "rejected"
      BY <1>1, NoneIsNothing
    <3>3. CASE Request(i) # Request(k)
      BY <1>3, <3>1, <3>2, <3>3
    <3>4. CASE Request(i) = Request(k)
      <4>1. Row(i)' = row /\ Row(i) = Row(k)
        BY <1>3, <3>4
      <4>2. CASE r.did = "rejected"
        BY <1>1, <3>4, <4>1, <4>2
      <4>3. CASE row.status = Row(k).status
        BY <3>1, <3>2, <4>1, <4>3
      <4> QED BY <3>1, <4>1, <4>2, <4>3
    <3> QED BY <3>3, <3>4
  <2> QED BY <2>1, <2>2
<1>11. ASSUME NEW i \in Calls, Op(i) = "accept", call'[i].page # None
       PROVE  \/ Row(i)'.target = call'[i].page
              \/ \E j \in Calls \ call'[i].decided :
                   Request(j) = Request(i) /\ call'[j].did = "retargeted"
  <2>1. \/ Row(i).target = call[i].page
        \/ \E j \in Calls \ call[i].decided : Request(j) = Request(i) /\ call[j].did = "retargeted"
    BY <1>4, <1>11 DEF IInv, Decisions
  <2>2. \A j \in Calls : call[j].did = "retargeted" => call'[j].did = "retargeted"
    BY <1>1, NoneIsNothing
  <2>3. CASE Request(i) = Request(k) /\ r.did = "retargeted"
    BY <1>1, <1>4, <1>5, <2>3
  <2>4. CASE Request(i) # Request(k) \/ row.target = Row(k).target
    BY <1>3, <1>4, <2>1, <2>2, <2>4
  <2> QED BY <2>3, <2>4
<1>12. Decisions'
  BY <1>3, <1>6, <1>8, <1>9, <1>10, <1>11 DEF Decisions
<1>13. /\ request' \in [Requests -> Rows \cup {None}]
       /\ \A c \in Requests : request'[c] # None <=> request[c] # None
  BY <1>1, RowFacts
<1> QED BY <1>2, <1>12, <1>13, MoveStays, CallFrame

(* A call that decides without a page.                                     *)
LEMMA DecidedTimely ==
  ASSUME IInv, NEW k \in Calls, NEW r \in CallStates, call' = [call EXCEPT ![k] = r],
         UNCHANGED <<index, notion, clock, work>>, call[k].did = None,
         r.did \in {"rejected", "retargeted"}, r.pc = "close"
  PROVE  Timely'
<1>1. /\ call'[k] = r /\ \A i \in Calls \ {k} : call'[i] = call[i]
  BY DEF IInv, Types, TypeOK
<1>2. \A i \in Calls : Op(i)' = Op(i) /\ \A p : ShownSections(i, p)' = ShownSections(i, p)
  BY DEF Op, Request, ShownSections
<1>3. ~HasRead(k)' /\ ~Accepting(k)'
  BY <1>1 DEF HasRead, Accepting, Reading
<1>4. \A i \in Calls \ {k} : (HasRead(i)' <=> HasRead(i)) /\ (Accepting(i)' <=> Accepting(i))
  BY <1>1, <1>2 DEF HasRead, Accepting
<1> QED BY <1>1, <1>2, <1>3, <1>4 DEF IInv, Timely

LEMMA DecisionsKeep ==
  ASSUME IInv, NEW k \in Calls, UNCHANGED recoveryVars, Accept(k) \/ Reject(k)
  PROVE  IInv'
<1>1. /\ call[k] \in CallStates /\ Shape(Op(k), call[k]) /\ Request(k) \in Requests
      /\ call[k].pc \in {"persist", "decide"} /\ UNCHANGED <<proposalVars, work, notion, clock>>
  BY CallFacts DEF Accept, Reject
<1>2. /\ Row(k) # None /\ call[k].did = None
      /\ call[k].audit \in {None, "running"} /\ call[k].indexAudit \in {None, "running"}
      /\ call[k].pc = "persist" => call[k].page # None
  BY <1>1, NoneIsNothing DEF Shape, Reading, Appending, IInv, Shaped, Accept, Reject
<1>3. Row(k) \in Rows
  BY <1>1, <1>2 DEF Row, IInv, Types, TypeOK
<1>4. PICK did \in {"accepted", "rejected"} :
        /\ request' = [request EXCEPT ![Request(k)].status = did]
        /\ call' = [call EXCEPT ![k].pc = "close", ![k].did = did]
        /\ did = "accepted" => Accept(k)
        /\ did = "rejected" => Reject(k)
  BY DEF Accept, Reject
<1>5. PICK row : row = [Row(k) EXCEPT !.status = did]
  OBVIOUS
<1>6. RowBecomes(k, row) /\ row.status = did /\ row.target = Row(k).target
  BY <1>1, <1>3, <1>4, <1>5 DEF RowBecomes, Row, Rows
<1>7. PICK r : r = [call[k] EXCEPT !.pc = "close", !.did = did]
  OBVIOUS
<1>8. /\ r \in CallStates /\ r.pc = "close" /\ r.did = did /\ r.page = call[k].page
      /\ r.edited = call[k].edited /\ r.read = call[k].read
      /\ r.written = call[k].written /\ r.decided = call[k].decided
      /\ r.audit = call[k].audit /\ r.indexAudit = call[k].indexAudit
  BY <1>1, <1>7 DEF CallStates
<1>9. call' = [call EXCEPT ![k] = r]
  BY <1>1, <1>4, <1>7 DEF IInv, Types, TypeOK
<1>10. CASE did = "accepted"
  <2>1. /\ call[k].pc = "persist" /\ Op(k) = "accept" /\ ~Stale(k) /\ Persisted(k)
        /\ Row(k).status = "pending"
    BY <1>4, <1>10 DEF Accept, Revalidated
  <2>2. Shape(Op(k), r)
    BY <1>2, <1>8, <1>10, <2>1, NoneIsNothing DEF Shape, Appending, Reading
  <2>3. CallStep(k, r)
    BY <1>1, <1>2, <1>8, <1>9, <2>2 DEF CallStep
  <2>4. Timely' /\ index' \in [Pages -> Snapshots \cup {None}]
    BY <1>1, <1>8, <1>9, <2>1, StoreTimely
  <2> QED BY <1>1, <1>2, <1>6, <1>8, <1>10, <2>1, <2>3, <2>4, DecideKeeps
<1>11. CASE did = "rejected"
  <2>1. call[k].pc = "decide" /\ Op(k) = "reject" /\ UNCHANGED index
    BY <1>4, <1>11 DEF Reject
  <2>2. Shape(Op(k), r)
    BY <1>2, <1>8, <1>11, <2>1, NoneIsNothing DEF Shape, Appending, Reading
  <2>3. CallStep(k, r)
    BY <1>1, <1>2, <1>8, <1>9, <2>2 DEF CallStep
  <2>4. Timely'
    BY <1>1, <1>2, <1>8, <1>9, <1>11, <2>1, DecidedTimely
  <2>5. index' \in [Pages -> Snapshots \cup {None}]
    BY <2>1 DEF IInv, Types, TypeOK
  <2> QED BY <1>1, <1>2, <1>6, <1>8, <1>11, <2>3, <2>4, <2>5, DecideKeeps
<1> QED BY <1>10, <1>11

LEMMA RetargetKeeps ==
  ASSUME IInv, NEW k \in Calls, UNCHANGED recoveryVars, NEW p \in Pages, Retarget(k, p),
         call[k].pc = "new", Op(k) \in {"change_target", "browse"},
         UNCHANGED <<proposalVars, index, work, notion, clock>>
  PROVE  IInv'
<1>1. CASE Refused(k) /\ UNCHANGED request
  BY <1>1, RefusedKeeps
<1>2. CASE /\ Row(k) # None /\ request' = [request EXCEPT ![Request(k)].target = p]
           /\ call' = [call EXCEPT ![k] = [call[k] EXCEPT !.pc = "close", !.audit = "running",
                                                          !.did = "retargeted"]]
  <2>1. /\ call[k] \in CallStates /\ Shape(Op(k), call[k]) /\ Request(k) \in Requests
        /\ call[k] = NewCall
    BY CallFacts DEF Shape
  <2>2. /\ call[k].did = None /\ call[k].audit = None /\ call[k].indexAudit = None
        /\ call[k].page = None
    BY <2>1 DEF NewCall
  <2>3. Row(k) \in Rows
    BY <1>2, <2>1 DEF Row, IInv, Types, TypeOK
  <2>4. PICK row : row = [Row(k) EXCEPT !.target = p]
    OBVIOUS
  <2>5. RowBecomes(k, row) /\ row.status = Row(k).status
    BY <1>2, <2>1, <2>3, <2>4 DEF RowBecomes, Row, Rows
  <2>6. PICK r : r = [call[k] EXCEPT !.pc = "close", !.audit = "running", !.did = "retargeted"]
    OBVIOUS
  <2>7. /\ r \in CallStates /\ r.pc = "close" /\ r.did = "retargeted" /\ r.page = call[k].page
        /\ r.edited = call[k].edited /\ r.read = call[k].read
        /\ r.written = call[k].written /\ r.decided = call[k].decided
        /\ r.audit = "running" /\ r.indexAudit = call[k].indexAudit
    BY <2>1, <2>6 DEF CallStates
  <2>8. Shape(Op(k), r)
    BY <2>2, <2>7, NoneIsNothing DEF Shape, Appending, Reading
  <2>9. call' = [call EXCEPT ![k] = r] /\ CallStep(k, r)
    BY <1>2, <2>6, <2>7, <2>8 DEF CallStep
  <2>10. Timely'
    BY <2>2, <2>7, <2>9, DecidedTimely
  <2>11. index' \in [Pages -> Snapshots \cup {None}]
    BY DEF IInv, Types, TypeOK
  <2> QED BY <1>2, <2>2, <2>5, <2>7, <2>9, <2>10, <2>11, DecideKeeps
<1> QED BY <1>1, <1>2 DEF Retarget

-------------------------------------------------------------------------------
(* Recovery, and every step.                                               *)

RecoveryStates ==
  [pc : {"new", "preview", "send", "inspect", "check", "write", "done"},
   late : {None, "first", "second"}, shown : BOOLEAN, wrote : BOOLEAN]

RecoveryShape(op, v) ==
  /\ v.pc = "new" => v = NewRecovery
  /\ v.pc # "done" \/ v.wrote => v.late = None
  /\ v.pc # "done" => ~v.wrote
  /\ v.pc = "preview" => ~v.shown
  /\ v.late = "first" => ~v.shown
  /\ v.pc \in {"inspect", "check", "write"} \/ v.wrote => op # "resend-preview" \/ v.shown

LEMMA RecoveryMoves ==
  ASSUME IInv, NEW k \in Calls, NEW v \in RecoveryStates, RecoveryShape(Op(k), v),
         recovery' = [recovery EXCEPT ![k] = v], UNCHANGED <<vars, pickerVars>>,
         UNCHANGED outcome \/ outcome' = Written(Request(k))
  PROVE  IInv'
<1>1. UNCHANGED <<job, draft, request, index, work, notion, clock, call>>
  BY DEF vars, proposalVars, reviewVars
<1>2. \A i : Request(i)' = Request(i) /\ Op(i)' = Op(i) /\ Row(i)' = Row(i)
  BY <1>1 DEF Request, Op, Row
<1>3. Types' /\ Drafted'
  BY <1>1 DEF IInv, Types, TypeOK, Drafted, DraftHolds, Grounded, Screenshot
<1>4. Shaped' /\ Decisions'
  BY <1>1, <1>2 DEF IInv, Shaped, Decisions
<1>5. Timely' /\ Appended'
  BY <1>1 DEF IInv, Timely, Appended, Accepting, HasRead, ShownSections, Op, Request
<1>6. Repaired'
  <2>1. /\ recovery \in [Calls -> RecoveryStates]
        /\ recovery' \in [Calls -> RecoveryStates]
        /\ recovery'[k] = v /\ \A i \in Calls \ {k} : recovery'[i] = recovery[i]
    BY DEF IInv, Repaired, RecoveryStates
  <2>2. \A i \in Calls : RecoveryShape(Op(i), recovery'[i])
    BY <2>1 DEF IInv, Repaired, RecoveryShape
  <2>3. /\ \A c \in Requests : outcome'[c] \in {None, UpdateFailed,
                                   [workflow |-> "succeeded", ledger |-> "succeeded"]}
        /\ outcome' \in [Requests -> [workflow : {"failed", "succeeded"},
                                      ledger : {"failed", "succeeded"}] \cup {None}]
    <3>1. PICK both : both = [workflow |-> "succeeded", ledger |-> "succeeded"]
      OBVIOUS
    <3>2. both \in [workflow : {"failed", "succeeded"}, ledger : {"failed", "succeeded"}]
      BY <3>1
    <3>3. UNCHANGED outcome \/ outcome' = [outcome EXCEPT ![Request(k)] = both]
      BY <3>1 DEF Written
    <3> QED BY <3>1, <3>2, <3>3 DEF IInv, Repaired
  <2> QED BY <1>2, <2>1, <2>2, <2>3 DEF Repaired, RecoveryShape, RecoveryStates
<1> QED BY <1>3, <1>4, <1>5, <1>6 DEF IInv

LEMMA RecoveryKeeps ==
  ASSUME IInv, RecoveryNext
  PROVE  IInv'
<1>1. PICK k \in Calls :
        \/ Inspect(k) \/ BuildPreview(k) \/ SendPreview(k)
        \/ InspectAgain(k) \/ CheckLedger(k) \/ Reconcile(k) \/ GivesUp(k)
  BY DEF RecoveryNext
<1>2. recovery[k] \in RecoveryStates /\ RecoveryShape(Op(k), recovery[k])
  BY DEF IInv, Repaired, RecoveryStates, RecoveryShape
<1>3. UNCHANGED <<vars, pickerVars>> /\ (UNCHANGED outcome \/ outcome' = Written(Request(k)))
  BY <1>1 DEF Inspect, BuildPreview, SendPreview, InspectAgain, CheckLedger, Reconcile, GivesUp,
              OthersStay
<1>4. recovery \in [Calls -> RecoveryStates]
  BY DEF IInv, Repaired, RecoveryStates
<1>5. \E v \in RecoveryStates :
        RecoveryShape(Op(k), v) /\ recovery' = [recovery EXCEPT ![k] = v]
  <2>1. CASE Inspect(k)
    <3> DEFINE pc == IF ~Eligible(k) THEN "done"
                     ELSE IF Op(k) = "resend-preview" THEN "preview" ELSE "inspect"
               late == Late(k, "first")
    <3>1. recovery' = [recovery EXCEPT ![k].pc = pc, ![k].late = late]
      BY <2>1 DEF Inspect
    <3>2. recovery[k].pc = "new" /\ recovery[k] = NewRecovery
      BY <1>2, <2>1 DEF Inspect, RecoveryShape
    <3>3. recovery[k].late = None /\ ~recovery[k].shown /\ ~recovery[k].wrote
      BY <3>2 DEF NewRecovery
    <3>4. /\ late \in {None, "first"} /\ (pc # "done" => late = None)
          /\ pc \in {"done", "preview", "inspect"}
          /\ pc = "inspect" => Op(k) # "resend-preview"
      BY <3>3 DEF Late, Eligible
    <3> HIDE DEF pc, late
    <3> DEFINE v == [recovery[k] EXCEPT !.pc = pc, !.late = late]
    <3>5. recovery' = [recovery EXCEPT ![k] = v]
      BY <1>4, <3>1
    <3>6. /\ v \in RecoveryStates /\ v.pc = pc /\ v.late = late
          /\ v.shown = recovery[k].shown /\ v.wrote = recovery[k].wrote
      BY <1>2, <3>4 DEF RecoveryStates
    <3> HIDE DEF v
    <3>7. RecoveryShape(Op(k), v)
      BY <3>3, <3>4, <3>6 DEF RecoveryShape
    <3> QED BY <3>5, <3>6, <3>7
  <2>2. CASE BuildPreview(k) \/ CheckLedger(k) \/ GivesUp(k)
    <3>1. PICK pc \in {"send", "write", "done"} :
            /\ recovery' = [recovery EXCEPT ![k].pc = pc]
            /\ pc = "send" => recovery[k].pc = "preview"
            /\ pc = "write" => recovery[k].pc = "check"
            /\ recovery[k].pc # "done"
      BY <2>2 DEF BuildPreview, CheckLedger, GivesUp, RecoveryGoes
    <3> DEFINE v == [recovery[k] EXCEPT !.pc = pc]
    <3>2. recovery' = [recovery EXCEPT ![k] = v]
      BY <3>1
    <3>3. /\ v \in RecoveryStates /\ v.pc = pc /\ v.late = recovery[k].late
          /\ v.shown = recovery[k].shown /\ v.wrote = recovery[k].wrote
      BY <1>2, <3>1 DEF RecoveryStates
    <3> HIDE DEF v
    <3>4. RecoveryShape(Op(k), v)
      BY <1>2, <3>1, <3>3 DEF RecoveryShape
    <3> QED BY <3>2, <3>3, <3>4
  <2>3. CASE SendPreview(k)
    <3>1. PICK shown \in BOOLEAN, pc \in {"inspect", "done"} :
            /\ pc = "inspect" => shown
            /\ recovery' = [recovery EXCEPT ![k].pc = pc, ![k].shown = shown]
      BY <2>3 DEF SendPreview
    <3> DEFINE v == [recovery[k] EXCEPT !.pc = pc, !.shown = shown]
    <3>2. recovery' = [recovery EXCEPT ![k] = v] /\ recovery[k].pc = "send"
      BY <1>4, <2>3, <3>1 DEF SendPreview
    <3>3. /\ v \in RecoveryStates /\ v.pc = pc /\ v.late = recovery[k].late
          /\ v.shown = shown /\ v.wrote = recovery[k].wrote
      BY <1>2, <3>1 DEF RecoveryStates
    <3> HIDE DEF v
    <3>4. RecoveryShape(Op(k), v)
      BY <1>2, <3>1, <3>2, <3>3, OutcomeRecoveryAssumption DEF RecoveryShape
    <3> QED BY <3>2, <3>3, <3>4
  <2>4. CASE InspectAgain(k)
    <3> DEFINE pc == IF Eligible(k) THEN "check" ELSE "done"
               late == Late(k, "second")
    <3>1. recovery' = [recovery EXCEPT ![k].pc = pc, ![k].late = late] /\ recovery[k].pc = "inspect"
      BY <2>4 DEF InspectAgain
    <3>2. recovery[k].late = None /\ ~recovery[k].wrote
      BY <1>2, <3>1 DEF RecoveryShape
    <3>3. /\ late \in {None, "second"} /\ (pc # "done" => late = None)
          /\ pc \in {"done", "check"}
      BY <3>2 DEF Late, Eligible
    <3> HIDE DEF pc, late
    <3> DEFINE v == [recovery[k] EXCEPT !.pc = pc, !.late = late]
    <3>4. recovery' = [recovery EXCEPT ![k] = v]
      BY <1>4, <3>1
    <3>5. /\ v \in RecoveryStates /\ v.pc = pc /\ v.late = late
          /\ v.shown = recovery[k].shown /\ v.wrote = recovery[k].wrote
      BY <1>2, <3>3 DEF RecoveryStates
    <3> HIDE DEF v
    <3>6. RecoveryShape(Op(k), v)
      BY <1>2, <3>1, <3>2, <3>3, <3>5, OutcomeRecoveryAssumption DEF RecoveryShape
    <3> QED BY <3>4, <3>5, <3>6
  <2>5. CASE Reconcile(k)
    <3> DEFINE v == [recovery[k] EXCEPT !.pc = "done", !.wrote = TRUE]
    <3>1. recovery' = [recovery EXCEPT ![k] = v] /\ recovery[k].pc = "write"
      BY <1>4, <2>5 DEF Reconcile
    <3>2. /\ v \in RecoveryStates /\ v.pc = "done" /\ v.late = recovery[k].late
          /\ v.shown = recovery[k].shown /\ v.wrote
      BY <1>2 DEF RecoveryStates
    <3> HIDE DEF v
    <3>3. RecoveryShape(Op(k), v)
      BY <1>2, <3>1, <3>2, OutcomeRecoveryAssumption DEF RecoveryShape
    <3> QED BY <3>1, <3>2, <3>3
  <2> QED BY <1>1, <2>1, <2>2, <2>3, <2>4, <2>5
<1>6. PICK v \in RecoveryStates :
        RecoveryShape(Op(k), v) /\ recovery' = [recovery EXCEPT ![k] = v]
  BY <1>5
<1> QED BY <1>3, <1>6, RecoveryMoves

LEMMA StutterKeeps ==
  ASSUME IInv, UNCHANGED <<proposalVars, request, index, reviewVars, recoveryVars>>
  PROVE  IInv'
<1>1. UNCHANGED <<job, draft, request, index, work, notion, clock, call, outcome, recovery>>
  BY DEF proposalVars, reviewVars, recoveryVars
<1>2. Types' /\ Drafted'
  BY <1>1 DEF IInv, Types, TypeOK, Drafted, DraftHolds, Grounded, Screenshot
<1>3. Shaped' /\ Decisions' /\ Repaired'
  BY <1>1 DEF IInv, Shaped, Decisions, Repaired, Op, Request, Row
<1>4. Timely' /\ Appended'
  BY <1>1 DEF IInv, Timely, Appended, Accepting, HasRead, ShownSections, Op, Request
<1> QED BY <1>2, <1>3, <1>4 DEF IInv

LEMMA ReviewKeeps ==
  ASSUME IInv, ReviewNext, UNCHANGED recoveryVars
  PROVE  IInv'
<1>1. PICK k \in Calls :
        \/ BeginAccept(k) \/ Lookup(k) \/ OpenTopic(k) \/ WriteSection(k) \/ Verify(k)
        \/ BeginIndex(k) \/ ReadPage(k) \/ ReadBlocks(k) \/ PersistIndex(k)
        \/ Accept(k) \/ Refuse(k)
        \/ ReadStatus(k) \/ Reject(k) \/ EditLater(k) \/ ChangeTarget(k)
        \/ Close(k) \/ Fails(k) \/ TimedOut(k) \/ Crash(k) \/ Appear(k)
  BY DEF ReviewNext
<1>2. CASE BeginAccept(k) \/ ReadStatus(k)
  BY <1>2, BeginKeeps
<1>3. CASE \/ Lookup(k) \/ Verify(k) \/ EditLater(k) \/ Close(k) \/ TimedOut(k) \/ Crash(k)
  BY <1>3, GoKeeps
<1>4. CASE OpenTopic(k) \/ WriteSection(k)
  BY <1>4, WritesKeep
<1>5. CASE BeginIndex(k)
  BY <1>5, BeginIndexKeeps
<1>6. CASE ReadPage(k) \/ ReadBlocks(k)
  BY <1>6, ReadKeeps
<1>7. CASE PersistIndex(k)
  BY <1>7, PersistIndexKeeps
<1>8. CASE Accept(k) \/ Reject(k)
  BY <1>8, DecisionsKeep
<1>9. CASE Refuse(k)
  BY <1>9, RefusedKeeps DEF Refuse
<1>10. CASE Fails(k)
  BY <1>10, RefusedKeeps DEF Fails, Begun, Failure
<1>11. CASE ChangeTarget(k)
  <2>1. work[k].page \in Pages
    BY CallFacts
  <2> QED BY <1>11, <2>1, RetargetKeeps DEF ChangeTarget
<1>12. CASE Appear(k)
  BY <1>12, AppearKeeps
<1> QED BY <1>1, <1>2, <1>3, <1>4, <1>5, <1>6, <1>7, <1>8, <1>9, <1>10, <1>11, <1>12

LEMMA PickerKeeps ==
  ASSUME IInv, PickerNext, UNCHANGED recoveryVars
  PROVE  IInv'
<1>1. CASE \E p \in Pages : File(p)
  BY <1>1, FileKeeps
<1>2. CASE \E k \in Calls : OpenPicker(k)
  BY <1>2, StutterKeeps DEF OpenPicker
<1>3. ASSUME NEW k \in Calls, NEW b, Navigate(k, b)
      PROVE  IInv'
  BY <1>3, StutterKeeps DEF Navigate
<1>4. ASSUME NEW k \in Calls, NEW b, SelectTarget(k, b)
      PROVE  IInv'
  <2>1. b.page \in Pages
    BY <1>4 DEF SelectTarget, Usable, Nodes, Hierarchy, Listed
  <2> QED BY <1>4, <2>1, RetargetKeeps DEF SelectTarget, Browsing
<1> QED BY <1>1, <1>2, <1>3, <1>4 DEF PickerNext

LEMMA NextKeeps ==
  ASSUME IInv, [NextWithRecovery]_<<vars, pickerVars, recoveryVars>>
  PROVE  IInv'
<1>1. CASE RecoveryNext
  BY <1>1, RecoveryKeeps
<1>2. CASE PickerNext /\ UNCHANGED recoveryVars
  BY <1>2, PickerKeeps
<1>3. CASE ReviewNext /\ UNCHANGED recoveryVars
  BY <1>3, ReviewKeeps
<1>4. CASE ProposalNext /\ UNCHANGED <<index, reviewVars, pickerVars, recoveryVars>>
  BY <1>4, ProposalKeeps
<1>5. CASE UNCHANGED <<vars, pickerVars, recoveryVars>>
  BY <1>5, StutterKeeps DEF vars
<1> QED BY <1>1, <1>2, <1>3, <1>4, <1>5 DEF NextWithRecovery, NextWithPicker, Next

LEMMA InvariantHolds == SpecWithRecovery => []IInv
<1> QED BY InitIInv, NextKeeps, PTL DEF SpecWithRecovery

(* Every variable of the review keeps the shape the code gives it.         *)
THEOREM TypeCorrect == SpecWithRecovery => []TypeOK
<1>1. IInv => TypeOK
  BY DEF IInv, Types
<1> QED BY <1>1, InvariantHolds, PTL

-------------------------------------------------------------------------------
(* What passes the checks of a claim names no ASCII term, number, phrase   *)
(* or verdict that the source lacks.                                       *)
LEMMA ClaimsStayInSource ==
  ASSUME NEW claim \in Claims, ClaimGrounded(claim)
  PROVE  /\ Missing({"number", "phrase", "verdict"}, Names(claim)) = {}
         /\ Missing(Ascii, Names(claim)) = {}
         /\ claim.evidence
BY DEF ClaimGrounded, ClaimAdds, Adds, Shown, Missing, Of

(* In the notes a foreign ASCII term is left to a label of a claim that is *)
(* engineering context: the concepts, which have to pass as claims, excuse *)
(* nothing that is foreign.                                                *)
LEMMA NotesStayInSource ==
  ASSUME NEW text \in Texts, BodyGrounded(text)
  PROVE  /\ Missing({"number", "phrase", "verdict"}, Names(text.notes)) = {}
         /\ Missing(Ascii, text.notes.anchors) = {}
         /\ Missing(Ascii, text.notes.label) # {} => text.notes.bounded
         /\ text.notes.evidence \/ text.notes.bounded
<1>1. ClaimGrounded(text.concepts) /\ NotesGrounded(text) /\ text.concepts \in Claims
  BY DEF BodyGrounded, Texts
<1>2. Missing(Ascii, Names(text.concepts)) = {}
  BY <1>1, ClaimsStayInSource
<1>3. Missing({"number", "phrase", "verdict"}, Names(text.notes)) = {}
  BY <1>1 DEF NotesGrounded, NotesAdd, Adds, Missing, Of
<1>4. CASE Shown(text.notes)
  BY <1>3, <1>4 DEF Shown, Missing, Of, Names
<1>5. CASE IsContext(text.notes, text.concepts)
  <2>1. Missing(Ascii, text.notes.anchors) \subseteq Names(text.concepts)
    BY <1>5 DEF IsContext
  <2>2. Missing(Ascii, text.notes.anchors) = {}
    BY <1>2, <2>1 DEF Missing, Of
  <2> QED BY <1>3, <1>5, <2>2 DEF IsContext
<1> QED BY <1>1, <1>4, <1>5 DEF NotesGrounded

(* A screenshot proposal is stored only if what it names is in the source, *)
(* but for general Chinese and for the labels of notes that are context,   *)
(* whatever the model answers and whatever parts are repaired.             *)
THEOREM StoredProposalsGrounded == SpecWithRecovery => []StoredIsGrounded
<1>1. IInv => StoredIsGrounded
  <2> SUFFICES ASSUME IInv, NEW c \in Requests, StoredScreenshot(c)
               PROVE  LET text == draft[c].text
                          said == Names(text.summary) \cup Names(text.concepts)
                      IN  /\ Missing({"number", "phrase", "verdict"},
                                     text.title \cup said \cup Names(text.notes)) = {}
                          /\ Missing(Ascii, text.title \cup said \cup text.notes.anchors) = {}
                          /\ Missing(Ascii, text.notes.label) # {} => text.notes.bounded
                          /\ text.summary.evidence /\ text.concepts.evidence
                          /\ text.notes.evidence \/ text.notes.bounded
                          /\ text.listed
    BY DEF StoredIsGrounded
  <2> DEFINE text == draft[c].text
  <2>1. text \in Texts /\ Valid(text)
    BY DEF IInv, Drafted, DraftHolds, Grounded, StoredScreenshot
  <2> HIDE DEF text
  <2>2. /\ Missing({"number", "phrase", "verdict"}, text.title) = {}
        /\ Missing(Ascii, text.title) = {}
    BY <2>1 DEF Valid, TitleGrounded, Missing, Of, Kinds, Ascii
  <2>3. /\ text.summary \in Claims /\ text.concepts \in Claims
        /\ ClaimGrounded(text.summary) /\ ClaimGrounded(text.concepts)
        /\ BodyGrounded(text) /\ text.listed
    BY <2>1 DEF Valid, BodyGrounded, Covered, Texts
  <2>4. \A claim \in {text.summary, text.concepts} :
          /\ Missing({"number", "phrase", "verdict"}, Names(claim)) = {}
          /\ Missing(Ascii, Names(claim)) = {}
          /\ claim.evidence
    BY <2>3, ClaimsStayInSource
  <2>5. /\ Missing({"number", "phrase", "verdict"}, Names(text.notes)) = {}
        /\ Missing(Ascii, text.notes.anchors) = {}
        /\ Missing(Ascii, text.notes.label) # {} => text.notes.bounded
        /\ text.notes.evidence \/ text.notes.bounded
    BY <2>1, <2>3, NotesStayInSource
  <2>6. \A kinds, S, T : Missing(kinds, S) = {} /\ Missing(kinds, T) = {} =>
          Missing(kinds, S \cup T) = {}
    BY DEF Missing, Of
  <2>7. Missing({"number", "phrase", "verdict"},
                text.title \cup (Names(text.summary) \cup Names(text.concepts))
                           \cup Names(text.notes)) = {}
    BY <2>2, <2>4, <2>5, <2>6
  <2>8. Missing(Ascii, text.title \cup (Names(text.summary) \cup Names(text.concepts))
                                  \cup text.notes.anchors) = {}
    BY <2>2, <2>4, <2>5, <2>6
  <2> QED BY <2>3, <2>4, <2>5, <2>7, <2>8 DEF text
<1> QED BY <1>1, InvariantHolds, PTL

-------------------------------------------------------------------------------
(* However the calls about a request interleave, fail and are tried again, *)
(* it is accepted once at most and with what is in Notion and in the       *)
(* index, a rejection stands, and a retry appends nothing that is shown.   *)
THEOREM ReviewsAreSound == SpecWithRecovery => []ReviewsHold
<1>1. IInv => OneDecision
  <2> SUFFICES ASSUME IInv, NEW c \in Requests
               PROVE  /\ Cardinality(Did(c, "accepted")) <= 1
                      /\ Did(c, "rejected") # {} => request[c].status = "rejected"
                      /\ Did(c, "rejected") = {} /\ Did(c, "accepted") # {} =>
                           request[c].status = "accepted"
                      /\ \A k \in Did(c, "accepted") \cup Did(c, "rejected") :
                           call[k].decided
                             \cap (Did(c, "accepted") \cup Did(c, "rejected")) = {}
    BY DEF OneDecision
  <2>1. Cardinality(Did(c, "accepted")) <= 1
    <3>1. CASE Did(c, "accepted") = {}
      <4>1. Cardinality(Did(c, "accepted")) = 0
        BY <3>1, FS_EmptySet, Zenon
      <4> QED BY <4>1
    <3>2. ASSUME NEW k \in Did(c, "accepted")
          PROVE  Cardinality(Did(c, "accepted")) <= 1
      <4>1. Did(c, "accepted") = {k}
        BY <3>2 DEF Did, IInv, Decisions
      <4>2. Cardinality({k}) = 1
        BY FS_Singleton
      <4>3. Cardinality(Did(c, "accepted")) = 1
        BY <4>1, <4>2, Zenon
      <4> QED BY <4>3
    <3> QED BY <3>1, <3>2
  <2>2. Did(c, "rejected") # {} => request[c].status = "rejected"
    BY DEF Did, IInv, Decisions, Row
  <2>3. Did(c, "rejected") = {} /\ Did(c, "accepted") # {} => request[c].status = "accepted"
    <3> SUFFICES ASSUME Did(c, "rejected") = {}, NEW k \in Did(c, "accepted")
                 PROVE  request[c].status = "accepted"
      OBVIOUS
    <3>1. \A j \in Calls : Request(j) = c => call[j].did # "rejected"
      BY CallFacts DEF Did, Shape
    <3> QED BY <3>1 DEF Did, IInv, Decisions, Row
  <2>4. ASSUME NEW k \in Calls, NEW j \in call[k].decided, Op(j) # "index",
               Request(j) = Request(k)
        PROVE  call[j].did = "retargeted"
    BY <2>4 DEF IInv, Decisions
  <2>5. \A k \in Did(c, "accepted") \cup Did(c, "rejected") :
          call[k].decided \cap (Did(c, "accepted") \cup Did(c, "rejected")) = {}
    BY <2>4 DEF Did
  <2> QED BY <2>1, <2>2, <2>3, <2>5
<1>2. IInv => AcceptedIsIndexed
  <2> SUFFICES ASSUME IInv, NEW k \in Calls, call[k].did = "accepted", NEW p, p = call[k].page
               PROVE  /\ ShownSections(k, p) # {}
                      /\ index[p].edited >= call[k].edited
                      /\ \/ ShownSections(k, p) \cap index[p].sections # {}
                         \/ index[p].edited = call[k].edited
                      /\ \/ request[Request(k)].target = p
                         \/ Did(Request(k), "retargeted") \ call[k].decided # {}
    BY DEF AcceptedIsIndexed, ShownSections
  <2>1. p \in Pages /\ call[k].edited \in Nat /\ (index[p] # None => index[p].edited \in Nat)
        /\ Op(k) = "accept" /\ p # None
    BY TimelyFacts, CallFacts DEF Shape
  <2>2. /\ ShownSections(k, p) # {} /\ index[p] # None /\ index[p].edited >= call[k].edited
        /\ index[p].edited > call[k].edited => index[p].sections \cap ShownSections(k, p) # {}
    BY DEF IInv, Timely
  <2>3. \/ request[Request(k)].target = p
        \/ Did(Request(k), "retargeted") \ call[k].decided # {}
    <3>1. CASE Row(k).target = p
      BY <3>1 DEF Row
    <3>2. CASE \E j \in Calls \ call[k].decided :
                 Request(j) = Request(k) /\ call[j].did = "retargeted"
      BY <3>2, CallFacts DEF Did, Shape
    <3> QED BY <2>1, <3>1, <3>2 DEF IInv, Decisions
  <2> QED BY <2>1, <2>2, <2>3
<1>3. IInv => AppendedOnce
  BY DEF IInv, Appended, AppendedOnce
<1> QED BY <1>1, <1>2, <1>3, InvariantHolds, PTL DEF ReviewsHold, AcceptsOnce

-------------------------------------------------------------------------------
(* What is on record of a proposal, of a review and of a repair is what    *)
(* was done: a crash, a lost answer and a timeout after the commit leave   *)
(* no success without its decision, and a repair rests on what it showed.  *)
THEOREM RecordsAreTrue == SpecWithRecovery => []RecordsTell
<1>1. IInv => AuditsTell
  <2>1. IInv => ProposalAudited
    BY DEF IInv, Drafted, DraftHolds, Paid, ProposalAudited
  <2>2. ASSUME IInv, NEW k \in Calls
        PROVE  /\ call[k].audit = "succeeded" /\ Op(k) # "edit_later" => call[k].did # None
               /\ call[k].audit = "failed" /\ ~call[k].timedOut => call[k].did = None
               /\ call[k].indexAudit = "succeeded" /\ Op(k) = "accept" => call[k].did = "accepted"
               /\ call[k].indexAudit = "failed" => call[k].did = None
    BY <2>2, CallFacts DEF Shape
  <2> QED BY <2>1, <2>2 DEF AuditsTell
<1>2. IInv => RepairsTell
  <2> SUFFICES ASSUME IInv PROVE RepairsTell
    OBVIOUS
  <2>1. \A c \in Requests : outcome[c] # None => outcome[c].workflow = outcome[c].ledger
    BY DEF IInv, Repaired, UpdateFailed
  <2> QED BY <2>1 DEF IInv, Repaired, RepairsTell
<1> QED BY <1>1, <1>2, InvariantHolds, PTL DEF RecordsTell

-------------------------------------------------------------------------------
(* The picker.  Its rules are about the rows of any one moment, so they    *)
(* need no invariant, but induction (UpTo, Recursion of ListLemmas): along *)
(* the way up from a page, along the walks from the rows, and down the     *)
(* views.                                                                  *)

(* A table of parents; Upwards goes as far as there are pages.             *)
Height == Cardinality(Pages)
Above(par) == DOMAIN par \cup {None}
ParentsOK(par) == DOMAIN par \subseteq Pages /\ par \in [DOMAIN par -> Above(par)]

(* Order lists the pages, so there are finitely many.                      *)
LEMMA PagesFinite == IsFiniteSet(Pages) /\ Height \in Nat /\ None \notin Pages
<1>1. Order \in Seq(Pages) /\ \A p \in Pages : \E i \in DOMAIN Order : Order[i] = p
  BY PagePickerAssumption
<1>2. IsFiniteSet(1..Len(Order)) /\ DOMAIN Order = 1..Len(Order)
  BY <1>1, FS_Interval
<1>3. IsFiniteSet({Order[i] : i \in 1..Len(Order)})
  <2> DEFINE f == [i \in 1..Len(Order) |-> Order[i]]
             R == {Order[i] : i \in 1..Len(Order)}
  <2>1. f \in Surjection(1..Len(Order), R)
    BY DEF Surjection
  <2> QED BY <1>2, <2>1, FS_Surjection
<1>4. Pages \subseteq {Order[i] : i \in 1..Len(Order)}
  BY <1>1, <1>2
<1>5. IsFiniteSet(Pages)
  BY <1>3, <1>4, FS_Subset
<1> QED BY <1>5, FS_CardinalityType, SupplementProposalAssumption DEF Height

(* What Upwards(par, p) is: p, then parent after parent.                   *)
LEMMA Climbs ==
  ASSUME NEW par, ParentsOK(par), NEW p \in Above(par)
  PROVE  /\ Upwards(par, p) \in [0..Height -> Above(par)]
         /\ Upwards(par, p)[0] = p
         /\ \A i \in 1..Height : Upwards(par, p)[i] =
              IF Upwards(par, p)[i - 1] = None THEN None ELSE par[Upwards(par, p)[i - 1]]
<1> DEFINE Body(f) == [i \in 0..Height |->
                         IF i = 0 THEN p ELSE IF f[i - 1] = None THEN None ELSE par[f[i - 1]]]
<1>1. \E f : f = Body(f)
  <2> DEFINE step == [x \in (1..Height) \X Above(par) |-> IF x[2] = None THEN None ELSE par[x[2]]]
  <2>1. step \in [(1..Height) \X Above(par) -> Above(par)]
    BY DEF ParentsOK, Above
  <2>2. \A i \in 1..Height, v \in Above(par) : step[<<i, v>>] = IF v = None THEN None ELSE par[v]
    OBVIOUS
  <2> HIDE DEF step
  <2>3. PICK f : Follows(f, Height, Above(par), p, step)
    BY <2>1, PagesFinite, Recursion DEF Steps
  <2>4. ASSUME NEW i \in 0..Height PROVE f[i] = Body(f)[i]
    <3>1. CASE i = 0
      BY <2>3, <3>1, PagesFinite DEF Follows
    <3>2. CASE i # 0
      <4>1. i \in 1..Height /\ i - 1 \in 0..Height
        BY <3>2, PagesFinite
      <4> QED BY <2>2, <2>3, <3>2, <4>1 DEF Follows
    <3> QED BY <3>1, <3>2
  <2>5. f = Body(f)
    BY <2>3, <2>4 DEF Follows
  <2> QED BY <2>5
<1>2. Upwards(par, p) = Body(Upwards(par, p))
  <2>1. Upwards(par, p) = CHOOSE f : f = Body(f)
    BY DEF Upwards, Height
  <2> HIDE DEF Body
  <2> QED BY <1>1, <2>1
<1> DEFINE up == Upwards(par, p)
<1> HIDE DEF up
<1>3. /\ DOMAIN up = 0..Height /\ up[0] = p
      /\ \A i \in 1..Height : up[i] = IF up[i - 1] = None THEN None ELSE par[up[i - 1]]
  <2>1. up = Body(up)
    BY <1>2 DEF up
  <2> QED BY <2>1, PagesFinite
<1>4. 0..Height \subseteq {i \in 0..Height : up[i] \in Above(par)}
  <2> DEFINE S == {i \in 0..Height : up[i] \in Above(par)}
  <2>1. 0 \in S
    BY <1>3, PagesFinite
  <2>2. ASSUME NEW n \in 0..Height, n < Height, n \in S PROVE n + 1 \in S
    <3>1. n + 1 \in 1..Height /\ n + 1 \in 0..Height /\ (n + 1) - 1 = n /\ up[n] \in Above(par)
      BY <2>2, PagesFinite
    <3>2. up[n + 1] = IF up[n] = None THEN None ELSE par[up[n]]
      BY <1>3, <3>1
    <3>3. up[n + 1] \in Above(par)
      BY <3>1, <3>2 DEF ParentsOK, Above
    <3> QED BY <3>1, <3>3
  <2>3. 0..Height \subseteq S
    <3> HIDE DEF S
    <3> QED BY <2>1, <2>2, UpTo, PagesFinite
  <2> QED BY <2>3
<1>5. up \in [0..Height -> Above(par)]
  <2>1. up = Body(up)
    BY <1>2 DEF up
  <2>2. up = [i \in 0..Height |-> up[i]]
    BY <2>1
  <2> QED BY <1>4, <2>2
<1> QED BY <1>3, <1>5 DEF up
(* The way up from a page on a way up is the rest of that way.             *)
LEMMA Continued ==
  ASSUME NEW par, ParentsOK(par), NEW p \in Above(par), NEW a \in 0..Height
  PROVE  \A b \in 0..Height : a + b <= Height => Upwards(par, p)[a + b] = Upwards(par, Upwards(par, p)[a])[b]
<1> DEFINE up == Upwards(par, p)
           q == up[a]
           S == {b \in 0..Height : a + b <= Height => up[a + b] = Upwards(par, q)[b]}
<1>1. /\ up \in [0..Height -> Above(par)]
      /\ \A i \in 1..Height : up[i] = IF up[i - 1] = None THEN None ELSE par[up[i - 1]]
  BY Climbs
<1>2. q \in Above(par)
  BY <1>1
<1>3. /\ Upwards(par, q)[0] = q
      /\ \A i \in 1..Height : Upwards(par, q)[i] =
           IF Upwards(par, q)[i - 1] = None THEN None ELSE par[Upwards(par, q)[i - 1]]
  <2> HIDE DEF q
  <2> QED BY <1>2, Climbs
<1> HIDE DEF up
<1>4. 0 \in S
  BY <1>3, PagesFinite
<1>5. ASSUME NEW b \in 0..Height, b < Height, b \in S PROVE b + 1 \in S
  <2> SUFFICES ASSUME a + (b + 1) <= Height PROVE up[a + (b + 1)] = Upwards(par, q)[b + 1]
    BY <1>5, PagesFinite
  <2>1. /\ a + (b + 1) \in 1..Height /\ (a + (b + 1)) - 1 = a + b /\ a + b <= Height
        /\ b + 1 \in 1..Height /\ (b + 1) - 1 = b
    BY <1>5, PagesFinite
  <2>2. up[a + b] = Upwards(par, q)[b]
    BY <1>5, <2>1
  <2>3. up[a + (b + 1)] = IF up[a + b] = None THEN None ELSE par[up[a + b]]
    BY <1>1, <2>1
  <2>4. Upwards(par, q)[b + 1] = IF Upwards(par, q)[b] = None THEN None ELSE par[Upwards(par, q)[b]]
    BY <1>3, <2>1
  <2> QED BY <2>2, <2>3, <2>4
<1>6. 0..Height \subseteq S
  <2> HIDE DEF S
  <2> QED BY <1>4, <1>5, UpTo, PagesFinite
<1> QED BY <1>6 DEF up

(* A set that holds the parents of its pages holds every way up from them. *)
LEMMA StaysIn ==
  ASSUME NEW par, ParentsOK(par), NEW C \in SUBSET DOMAIN par,
         \A x \in C : par[x] \in C \cup {None}, NEW p \in C \cup {None}
  PROVE  \A i \in 0..Height : Upwards(par, p)[i] \in C \cup {None}
<1> DEFINE up == Upwards(par, p)
           S == {i \in 0..Height : up[i] \in C \cup {None}}
<1>1. /\ up[0] = p
      /\ \A i \in 1..Height : up[i] = IF up[i - 1] = None THEN None ELSE par[up[i - 1]]
  BY Climbs DEF Above
<1> HIDE DEF up
<1>2. 0 \in S
  BY <1>1, PagesFinite
<1>3. ASSUME NEW n \in 0..Height, n < Height, n \in S PROVE n + 1 \in S
  <2>1. n + 1 \in 1..Height /\ n + 1 \in 0..Height /\ (n + 1) - 1 = n /\ up[n] \in C \cup {None}
    BY <1>3, PagesFinite
  <2>2. up[n + 1] = IF up[n] = None THEN None ELSE par[up[n]]
    BY <1>1, <2>1
  <2> QED BY <2>1, <2>2
<1>4. 0..Height \subseteq S
  <2> HIDE DEF S
  <2> QED BY <1>2, <1>3, UpTo, PagesFinite
<1> QED BY <1>4 DEF up

(* A way up ends, or comes back to where it was, within as many steps as   *)
(* there are pages; first at some step.                                    *)
LEMMA ComesBack ==
  ASSUME NEW par, ParentsOK(par), NEW p \in Above(par)
  PROVE  \E i \in 0..Height : \/ Upwards(par, p)[i] = None
                         \/ \E j \in 0..(i - 1) : Upwards(par, p)[j] = Upwards(par, p)[i]
<1> DEFINE up == Upwards(par, p)
<1>1. up \in [0..Height -> Above(par)]
  BY Climbs
<1> HIDE DEF up
<1> SUFFICES ASSUME \A i \in 0..Height : up[i] # None,
                    \A i \in 0..Height : \A j \in 0..(i - 1) : up[j] # up[i]
             PROVE  FALSE
  BY DEF up
<1>2. up \in [0..Height -> Pages]
  BY <1>1 DEF Above, ParentsOK
<1>3. IsFiniteSet(0..Height) /\ Cardinality(0..Height) = Height + 1
  BY FS_Interval, PagesFinite
<1>4. PICK i, j \in 0..Height : i # j /\ up[i] = up[j]
  <2>1. Cardinality(Pages) < Cardinality(0..Height)
    BY <1>3, PagesFinite DEF Height
  <2> QED BY <1>2, <1>3, <2>1, PagesFinite, FS_PigeonHole
<1>5. i \in 0..(j - 1) \/ j \in 0..(i - 1)
  BY <1>4, PagesFinite
<1> QED BY <1>4, <1>5

(* A set of steps has a first one.                                         *)
LEMMA FirstStep ==
  ASSUME NEW S \in SUBSET (0..Height), S # {}
  PROVE  \E i \in S : \A j \in 0..(i - 1) : j \notin S
<1>1. S \in SUBSET Nat
  BY PagesFinite
<1>2. PICK i \in S : \A m \in S : i <= m
  BY <1>1, Least
<1>3. i \in Nat /\ \A j \in 0..(i - 1) : ~(i <= j)
  BY <1>1
<1> QED BY <1>2, <1>3

(* A page above itself; what the walks know of the pages they visited.     *)
Circular(par, p) == \E i \in 1..Height : Upwards(par, p)[i] = p

Known(par) == [visited : SUBSET DOMAIN par, members : SUBSET DOMAIN par]

Explored(par, known) ==
  /\ known \in Known(par)
  /\ \A x \in known.visited : par[x] \in known.visited \cup {None}
  /\ known.members = {x \in known.visited : Circular(par, x)}

(* The step at which a walk stops, and what it adds.                       *)
LEMMA WalkShape ==
  ASSUME NEW par, ParentsOK(par), NEW start \in DOMAIN par, NEW known \in Known(par)
  PROVE  LET up == Upwards(par, start)
             Ends(i) == up[i] \in known.visited \cup {None} \/ \E j \in 0..(i - 1) : up[j] = up[i]
         IN  \E length \in 0..Height :
               /\ Ends(length) /\ \A j \in 0..(length - 1) : ~Ends(j)
               /\ Walk(par, start, known) =
                    [visited |-> known.visited \cup {up[j] : j \in 0..(length - 1)},
                     members |-> known.members
                       \cup UNION {{up[j] : j \in i..(length - 1)} :
                                     i \in {j \in 0..(length - 1) : up[j] = up[length]}}]
<1> DEFINE up == Upwards(par, start)
           Ends(i) == up[i] \in known.visited \cup {None} \/ \E j \in 0..(i - 1) : up[j] = up[i]
           First(i) == Ends(i) /\ \A j \in 0..(i - 1) : ~Ends(j)
           length == CHOOSE i \in DOMAIN up : First(i)
<1>1. up \in [0..Height -> Above(par)]
  BY Climbs DEF Above
<1>2. \E i \in 0..Height : First(i)
  <2> DEFINE S == {i \in 0..Height : Ends(i)}
  <2>1. S # {}
    BY ComesBack DEF Above
  <2>2. PICK i \in S : \A j \in 0..(i - 1) : j \notin S
    <3> HIDE DEF S
    <3> QED BY <2>1, FirstStep DEF S
  <2>3. \A j \in 0..(i - 1) : j \in 0..Height
    BY PagesFinite
  <2> HIDE DEF Ends
  <2> QED BY <2>2, <2>3
<1>3. length \in 0..Height /\ First(length)
  <2> HIDE DEF First, up
  <2> QED BY <1>1, <1>2
<1>4. Walk(par, start, known) =
        [visited |-> known.visited \cup {up[j] : j \in 0..(length - 1)},
         members |-> known.members
           \cup UNION {{up[j] : j \in i..(length - 1)} :
                         i \in {j \in 0..(length - 1) : up[j] = up[length]}}]
  BY DEF Walk
<1> HIDE DEF length
<1> QED BY <1>3, <1>4

(* A walk keeps what the walks before it have found, and adds its start:   *)
(* every page it passes was new, and of these exactly the ones from the    *)
(* place it comes back to are circular.                                    *)
LEMMA WalkExplores ==
  ASSUME NEW par, ParentsOK(par), NEW start \in DOMAIN par, NEW known, Explored(par, known)
  PROVE  /\ Explored(par, Walk(par, start, known))
         /\ known.visited \cup {start} \subseteq Walk(par, start, known).visited
<1> DEFINE up == Upwards(par, start)
           Ends(i) == up[i] \in known.visited \cup {None} \/ \E j \in 0..(i - 1) : up[j] = up[i]
<1>1. /\ up \in [0..Height -> Above(par)] /\ up[0] = start
      /\ \A i \in 1..Height : up[i] = IF up[i - 1] = None THEN None ELSE par[up[i - 1]]
  BY Climbs DEF Above
<1>2. PICK length \in 0..Height :
        /\ Ends(length) /\ \A j \in 0..(length - 1) : ~Ends(j)
        /\ Walk(par, start, known) =
             [visited |-> known.visited \cup {up[j] : j \in 0..(length - 1)},
              members |-> known.members
                \cup UNION {{up[j] : j \in i..(length - 1)} :
                              i \in {j \in 0..(length - 1) : up[j] = up[length]}}]
  BY WalkShape DEF Explored
<1> DEFINE path == {up[j] : j \in 0..(length - 1)}
           loop == UNION {{up[j] : j \in i..(length - 1)} :
                            i \in {j \in 0..(length - 1) : up[j] = up[length]}}
<1>3. /\ \A j \in 0..(length - 1) : j \in 0..Height /\ j + 1 \in 1..Height /\ j + 1 \in 0..length
      /\ \A j \in 0..length : j \in 0..Height
      /\ length \in Nat /\ Height \in Nat /\ None \notin DOMAIN par
  BY PagesFinite DEF ParentsOK
<1>4. \A j \in 0..(length - 1) : up[j] \in DOMAIN par /\ up[j] \notin known.visited
  BY <1>1, <1>2, <1>3 DEF Above
<1>5. path \subseteq DOMAIN par /\ path \cap known.visited = {}
  BY <1>4
<1>6. \A j \in 0..(length - 1) : par[up[j]] = up[j + 1]
  <2> TAKE j \in 0..(length - 1)
  <2>1. j + 1 \in 1..Height /\ (j + 1) - 1 = j
    BY <1>3
  <2>2. up[j] # None
    BY <1>3, <1>4
  <2> HIDE DEF up
  <2> QED BY <1>1, <2>1, <2>2
<1> HIDE DEF up
<1>7. up[length] \in known.visited \cup path \cup {None}
  BY <1>2
<1>8. \A x \in path : par[x] \in known.visited \cup path \cup {None}
  <2> SUFFICES ASSUME NEW j \in 0..(length - 1)
               PROVE  up[j + 1] \in known.visited \cup path \cup {None}
    BY <1>6
  <2>1. CASE j + 1 = length
    BY <2>1, <1>7
  <2>2. CASE j + 1 # length
    <3>1. j + 1 \in 0..(length - 1)
      BY <2>2, <1>3
    <3> QED BY <3>1
  <2> QED BY <2>1, <2>2
<1>9. start \in known.visited \cup path
  <2>1. CASE length = 0
    BY <2>1, <1>1, <1>2, <1>3
  <2>2. CASE length # 0
    <3>1. 0 \in 0..(length - 1)
      BY <2>2, <1>3
    <3> QED BY <3>1, <1>1
  <2> QED BY <2>1, <2>2
<1>10. loop \subseteq path
  BY <1>3
<1>11. \A x \in loop : Circular(par, x)
  <2> SUFFICES ASSUME NEW i \in 0..(length - 1), up[i] = up[length], NEW m \in i..(length - 1)
               PROVE  Circular(par, up[m])
    OBVIOUS
  <2>1. /\ m \in 0..Height /\ i \in 0..Height /\ length - m \in 0..Height /\ m - i \in 0..Height /\ length - i \in 1..Height
        /\ m + (length - m) = length /\ i + (m - i) = m /\ m + (length - m) <= Height
        /\ (length - m) + (m - i) = length - i /\ i + (m - i) <= Height /\ length - i <= Height
    BY <1>3
  <2>2. up[m] \in Above(par) /\ up[i] \in Above(par) /\ start \in Above(par)
    BY <1>1, <2>1 DEF Above
  <2>3. Upwards(par, up[m])[length - m] = up[length]
    BY <2>1, <2>2, Continued DEF up
  <2>4. Upwards(par, up[i])[m - i] = up[m]
    BY <2>1, <2>2, Continued DEF up
  <2>5. Upwards(par, up[m])[(length - m) + (m - i)] = up[m]
    BY <2>1, <2>2, <2>3, <2>4, Continued
  <2> QED BY <2>1, <2>5 DEF Circular
<1>12. \A x \in path : Circular(par, x) => x \in loop
  <2> SUFFICES ASSUME NEW m \in 0..(length - 1), Circular(par, up[m]), up[m] \notin loop
               PROVE  FALSE
    OBVIOUS
  <2>1. PICK i \in 1..Height : Upwards(par, up[m])[i] = up[m]
    BY DEF Circular
  <2>2. up[m] \in DOMAIN par /\ up[m] \notin known.visited /\ m \in 0..Height /\ up[m] # None
        /\ up[m] \in Above(par) /\ start \in Above(par)
    BY <1>3, <1>4 DEF Above
  <2>3. length - m \in 0..Height /\ m + (length - m) = length /\ length \in 0..Height
    BY <1>3
  <2>4. i >= length - m
    <3> SUFFICES ASSUME i < length - m PROVE FALSE
      BY <2>3, PagesFinite
    <3>1. m + i \in 0..(length - 1) /\ m + i <= Height /\ i \in 0..Height /\ m \in 0..((m + i) - 1)
      BY <1>3
    <3>2. up[m + i] = up[m]
      BY <2>1, <2>2, <3>1, Continued DEF up
    <3> QED BY <1>2, <3>1, <3>2
  <2>5. up[m] = Upwards(par, up[length])[i - (length - m)]
    <3>1. /\ i - (length - m) \in 0..Height /\ (length - m) + (i - (length - m)) = i
          /\ (length - m) + (i - (length - m)) <= Height /\ m + (length - m) <= Height
      BY <1>3, <2>3, <2>4
    <3>2. Upwards(par, up[m])[length - m] = up[length]
      BY <2>2, <2>3, <3>1, Continued DEF up
    <3> QED BY <2>1, <2>2, <2>3, <3>1, <3>2, Continued
  <2>6. i - (length - m) \in 0..Height
    BY <1>3, <2>3, <2>4
  <2>7. CASE up[length] \in known.visited \cup {None}
    <3>1. known.visited \in SUBSET DOMAIN par
      BY DEF Explored, Known
    <3>2. Upwards(par, up[length])[i - (length - m)] \in known.visited \cup {None}
      BY <2>6, <2>7, <3>1, StaysIn DEF Explored
    <3> QED BY <2>2, <2>5, <3>2
  <2>8. CASE \E j \in 0..(length - 1) : up[j] = up[length]
    <3>1. PICK j \in 0..(length - 1) : up[j] = up[length]
      BY <2>8
    <3> DEFINE C == {up[k] : k \in j..(length - 1)}
    <3>2. C \subseteq loop /\ C \subseteq DOMAIN par /\ up[length] \in C
      BY <1>3, <1>4, <3>1
    <3>3. \A x \in C : par[x] \in C
      <4> SUFFICES ASSUME NEW k \in j..(length - 1) PROVE up[k + 1] \in C
        BY <1>3, <1>6
      <4>1. CASE k + 1 = length
        BY <4>1, <3>2
      <4>2. CASE k + 1 # length
        <5>1. k + 1 \in j..(length - 1)
          BY <4>2, <1>3
        <5> QED BY <5>1
      <4> QED BY <4>1, <4>2
    <3>4. Upwards(par, up[length])[i - (length - m)] \in C \cup {None}
      <4> HIDE DEF C
      <4> QED BY <2>6, <3>2, <3>3, StaysIn
    <3> QED BY <2>2, <2>5, <3>2, <3>4
  <2> QED BY <1>2, <2>7, <2>8
<1>13. Walk(par, start, known).visited = known.visited \cup path
       /\ Walk(par, start, known).members = known.members \cup loop
       /\ Walk(par, start, known) = [visited |-> known.visited \cup path, members |-> known.members \cup loop]
  BY <1>2
<1> HIDE DEF path, loop
<1>14. Walk(par, start, known) \in Known(par)
  BY <1>5, <1>10, <1>13 DEF Explored, Known
<1>15. known.members \cup loop = {x \in known.visited \cup path : Circular(par, x)}
  BY <1>10, <1>11, <1>12 DEF Explored
<1> QED BY <1>8, <1>9, <1>13, <1>14, <1>15 DEF Explored

(* The walks are a sequence of explorations.                               *)
LEMMA WalksAre ==
  ASSUME NEW par, ParentsOK(par)
  PROVE  /\ Len(Order) \in Nat
         /\ Walks(par)[0] = [visited |-> {}, members |-> {}]
         /\ \A i \in 1..Len(Order) :
              /\ Order[i] \in Pages
              /\ Walks(par)[i] = IF Order[i] \in DOMAIN par
                                 THEN Walk(par, Order[i], Walks(par)[i - 1])
                                 ELSE Walks(par)[i - 1]
<1> DEFINE L == Len(Order)
           V == Known(par)
           Body(f) == [i \in 0..L |->
                         IF i = 0 THEN [visited |-> {}, members |-> {}]
                         ELSE IF Order[i] \in DOMAIN par THEN Walk(par, Order[i], f[i - 1])
                         ELSE f[i - 1]]
<1>1. L \in Nat /\ \A i \in 1..L : Order[i] \in Pages
  BY PagePickerAssumption
<1>2. \E f : f = Body(f)
  <2> DEFINE step == [x \in (1..L) \X V |->
                        IF Order[x[1]] \in DOMAIN par THEN Walk(par, Order[x[1]], x[2]) ELSE x[2]]
             nothing == [visited |-> {}, members |-> {}]
  <2>1. ASSUME NEW start \in DOMAIN par, NEW known \in V PROVE Walk(par, start, known) \in V
    <3> DEFINE up == Upwards(par, start)
               Ends(i) == up[i] \in known.visited \cup {None} \/ \E j \in 0..(i - 1) : up[j] = up[i]
    <3>1. up \in [0..Height -> Above(par)]
      BY Climbs DEF Above
    <3>2. PICK length \in 0..Height :
            /\ Ends(length) /\ \A j \in 0..(length - 1) : ~Ends(j)
            /\ Walk(par, start, known) =
                 [visited |-> known.visited \cup {up[j] : j \in 0..(length - 1)},
                  members |-> known.members
                    \cup UNION {{up[j] : j \in i..(length - 1)} :
                                  i \in {j \in 0..(length - 1) : up[j] = up[length]}}]
      BY WalkShape
    <3>3. \A j \in 0..(length - 1) : up[j] \in DOMAIN par
      BY <3>1, <3>2, PagesFinite DEF Above
    <3>4. \A i \in 0..(length - 1) : \A j \in i..(length - 1) : j \in 0..(length - 1)
      BY PagesFinite
    <3> HIDE DEF up
    <3>5. UNION {{up[j] : j \in i..(length - 1)} :
                   i \in {j \in 0..(length - 1) : up[j] = up[length]}} \subseteq DOMAIN par
      BY <3>3, <3>4
    <3> QED BY <3>2, <3>3, <3>5 DEF Known
  <2>2. step \in [(1..L) \X V -> V] /\ nothing \in V
    BY <2>1 DEF Known
  <2>3. \A i \in 1..L, v \in V :
          step[<<i, v>>] = IF Order[i] \in DOMAIN par THEN Walk(par, Order[i], v) ELSE v
    OBVIOUS
  <2> HIDE DEF step, nothing
  <2>4. step \in Steps(L, V)
    BY <2>2 DEF Steps
  <2>5. PICK f : Follows(f, L, V, nothing, step)
    <3> HIDE DEF L, V
    <3> QED BY <1>1, <2>2, <2>4, Recursion
  <2>6. ASSUME NEW i \in 0..L PROVE f[i] = Body(f)[i]
    <3>1. CASE i = 0
      BY <2>5, <3>1 DEF nothing, Follows
    <3>2. CASE i # 0
      <4>1. i \in 1..L /\ i - 1 \in 0..L
        BY <1>1, <3>2
      <4> QED BY <2>3, <2>5, <3>2, <4>1 DEF Follows
    <3> QED BY <3>1, <3>2
  <2>7. f = Body(f)
    BY <2>5, <2>6 DEF Follows
  <2> QED BY <2>7
<1>3. Walks(par) = Body(Walks(par))
  <2>1. Walks(par) = CHOOSE f : f = Body(f)
    BY DEF Walks
  <2> HIDE DEF Body
  <2> QED BY <1>2, <2>1
<1> DEFINE w == Walks(par)
<1> HIDE DEF w
<1>4. w = Body(w)
  BY <1>3 DEF w
<1>5. w[0] = [visited |-> {}, members |-> {}]
  BY <1>1, <1>4
<1>6. \A i \in 1..L : w[i] = IF Order[i] \in DOMAIN par THEN Walk(par, Order[i], w[i - 1])
                             ELSE w[i - 1]
  <2> TAKE i \in 1..L
  <2>1. i \in 0..L /\ i # 0
    BY <1>1
  <2>2. w[i] = Body(w)[i]
    BY <1>4
  <2> HIDE DEF L
  <2> QED BY <2>1, <2>2
<1> QED BY <1>1, <1>5, <1>6 DEF w

(* _find_cycle_members finds the pages that are above themselves.          *)
LEMMA CyclesFound ==
  ASSUME NEW par, ParentsOK(par)
  PROVE  CycleMembers(par) = {p \in DOMAIN par : Circular(par, p)}
<1> DEFINE L == Len(Order)
           w == Walks(par)
           S == {n \in 0..L : /\ Explored(par, w[n])
                              /\ \A i \in 1..n : Order[i] \in DOMAIN par => Order[i] \in w[n].visited}
<1>1. L \in Nat /\ w[0] = [visited |-> {}, members |-> {}]
  BY WalksAre
<1>2. \A i \in 1..L : w[i] = IF Order[i] \in DOMAIN par THEN Walk(par, Order[i], w[i - 1])
                             ELSE w[i - 1]
  BY WalksAre
<1> HIDE DEF w
<1>3. 0 \in S
  BY <1>1 DEF Explored, Known
<1>4. ASSUME NEW n \in 0..L, n < L, n \in S PROVE n + 1 \in S
  <2>1. n + 1 \in 1..L /\ n + 1 \in 0..L /\ (n + 1) - 1 = n
        /\ \A i \in 1..(n + 1) : i \in 1..n \/ i = n + 1
    BY <1>1, <1>4
  <2>2. w[n + 1] = IF Order[n + 1] \in DOMAIN par THEN Walk(par, Order[n + 1], w[n]) ELSE w[n]
    BY <1>2, <2>1
  <2>3. CASE Order[n + 1] \in DOMAIN par
    BY <1>4, <2>1, <2>2, <2>3, WalkExplores
  <2>4. CASE Order[n + 1] \notin DOMAIN par
    BY <1>4, <2>1, <2>2, <2>4
  <2> QED BY <2>3, <2>4
<1>5. L \in S
  <2> HIDE DEF S
  <2>1. 0..L \subseteq S
    BY <1>1, <1>3, <1>4, UpTo
  <2> QED BY <1>1, <2>1
<1>6. w[L].visited = DOMAIN par
  <2>1. \A p \in DOMAIN par : \E i \in 1..L : Order[i] = p
    <3>1. DOMAIN Order = 1..L
      BY PagePickerAssumption
    <3> QED BY <3>1, PagePickerAssumption DEF ParentsOK
  <2>2. w[L].visited \subseteq DOMAIN par
    BY <1>5 DEF Explored, Known
  <2>3. \A i \in 1..L : Order[i] \in DOMAIN par => Order[i] \in w[L].visited
    BY <1>5
  <2> QED BY <2>1, <2>2, <2>3
<1> QED BY <1>5, <1>6 DEF CycleMembers, Explored, w

(* The tree the picker shows, from the stored parents.                     *)
LEMMA TreeIs ==
  /\ ParentsOK(StoredParents) /\ ParentsOK(Hierarchy)
  /\ DOMAIN StoredParents = Listed /\ DOMAIN Hierarchy = Listed
  /\ \A p \in Listed : Hierarchy[p] = IF Circular(StoredParents, p) THEN None ELSE StoredParents[p]
<1>1. ParentsOK(StoredParents) /\ DOMAIN StoredParents = Listed
  BY DEF ParentsOK, Above, StoredParents, Listed
<1>2. Hierarchy = [p \in Listed |-> IF p \in CycleMembers(StoredParents) THEN None ELSE StoredParents[p]]
  BY DEF Hierarchy
<1>3. CycleMembers(StoredParents) = {p \in Listed : Circular(StoredParents, p)}
  BY <1>1, CyclesFound
<1>4. ParentsOK(Hierarchy) /\ DOMAIN Hierarchy = Listed
  BY <1>1, <1>2 DEF ParentsOK, Above
<1> QED BY <1>1, <1>2, <1>3, <1>4

(* Without the parents of circular pages every way up ends.                *)
LEMMA ReachesRoot ==
  ASSUME NEW par, ParentsOK(par), NEW tree, ParentsOK(tree), DOMAIN tree = DOMAIN par,
         \A p \in DOMAIN par : tree[p] = IF Circular(par, p) THEN None ELSE par[p],
         NEW p \in DOMAIN par
  PROVE  \E i \in 1..Height : Upwards(tree, p)[i] = None
<1> DEFINE up == Upwards(tree, p)
           Ends(i) == up[i] = None \/ \E j \in 0..(i - 1) : up[j] = up[i]
           S == {i \in 0..Height : Ends(i)}
<1>1. p \in Above(tree) /\ None \notin DOMAIN tree
  BY PagesFinite DEF Above, ParentsOK
<1>2. /\ up \in [0..Height -> Above(tree)] /\ up[0] = p
      /\ \A i \in 1..Height : up[i] = IF up[i - 1] = None THEN None ELSE tree[up[i - 1]]
  BY <1>1, Climbs
<1>3. S # {}
  BY <1>1, ComesBack
<1>4. PICK i \in S : \A j \in 0..(i - 1) : j \notin S
  <2> HIDE DEF S
  <2> QED BY <1>3, FirstStep DEF S
<1> HIDE DEF up
<1>5. i \in 0..Height /\ Ends(i) /\ \A j \in 0..(i - 1) : j \in 0..Height /\ up[j] # None
  BY <1>4, PagesFinite
<1>6. CASE up[i] = None
  BY <1>1, <1>2, <1>5, <1>6, PagesFinite DEF up
<1>7. ASSUME up[i] # None PROVE FALSE
  <2>1. PICK j \in 0..(i - 1) : up[j] = up[i]
    BY <1>5, <1>7
  <2> DEFINE q == up[j]
             T == {k \in 0..Height : k <= i - j => Upwards(par, q)[k] = Upwards(tree, q)[k]}
  <2>2. q \in DOMAIN tree /\ q \in Above(tree) /\ q \in Above(par)
    BY <1>2, <1>5 DEF Above
  <2>3. i - j \in 1..Height /\ j \in 0..Height /\ j + (i - j) = i /\ i \in Nat /\ j \in Nat
    BY <1>5, PagesFinite
  <2>4. \A k \in 0..Height : k <= i - j => Upwards(tree, q)[k] = up[j + k] /\ up[j + k] # None
    <3> TAKE k \in 0..Height
    <3> HAVE k <= i - j
    <3>1. j + k \in 0..i /\ j + k <= Height
      BY <1>5, <2>3, PagesFinite
    <3>2. up[j + k] = Upwards(tree, q)[k]
      BY <1>1, <2>3, <3>1, Continued DEF up
    <3>3. up[j + k] # None
      BY <1>5, <1>7, <3>1
    <3> QED BY <3>2, <3>3
  <2>5. /\ Upwards(tree, q)[0] = q /\ Upwards(par, q)[0] = q
        /\ \A k \in 1..Height : Upwards(tree, q)[k] =
             IF Upwards(tree, q)[k - 1] = None THEN None ELSE tree[Upwards(tree, q)[k - 1]]
        /\ \A k \in 1..Height : Upwards(par, q)[k] =
             IF Upwards(par, q)[k - 1] = None THEN None ELSE par[Upwards(par, q)[k - 1]]
        /\ Upwards(tree, q) \in [0..Height -> Above(tree)]
    <3> HIDE DEF q
    <3> QED BY <2>2, Climbs
  <2>6. 0 \in T
    BY <2>5, PagesFinite
  <2> HIDE DEF q
  <2>7. ASSUME NEW k \in 0..Height, k < Height, k \in T PROVE k + 1 \in T
    <3> SUFFICES ASSUME k + 1 <= i - j PROVE Upwards(par, q)[k + 1] = Upwards(tree, q)[k + 1]
      BY <2>7, PagesFinite
    <3>1. k + 1 \in 1..Height /\ k + 1 \in 0..Height /\ (k + 1) - 1 = k /\ k <= i - j
      BY <2>3, <2>7, PagesFinite
    <3>2. Upwards(par, q)[k] = Upwards(tree, q)[k]
      BY <2>7, <3>1
    <3>3. Upwards(tree, q)[k] # None /\ Upwards(tree, q)[k + 1] # None
      BY <2>4, <3>1
    <3>4. Upwards(tree, q)[k] \in DOMAIN tree
      BY <2>5, <3>1, <3>3 DEF Above
    <3>5. Upwards(tree, q)[k + 1] = tree[Upwards(tree, q)[k]]
      BY <2>5, <3>1, <3>3
    <3>6. tree[Upwards(tree, q)[k]] = par[Upwards(tree, q)[k]]
      BY <3>3, <3>4, <3>5
    <3>7. Upwards(par, q)[k + 1] = par[Upwards(par, q)[k]]
      BY <2>5, <3>1, <3>2, <3>3
    <3> QED BY <3>2, <3>5, <3>6, <3>7
  <2>8. 0..Height \subseteq T
    <3> HIDE DEF T
    <3> QED BY <2>6, <2>7, UpTo, PagesFinite
  <2>9. i - j \in T /\ i - j \in 0..Height
    BY <2>3, <2>8, PagesFinite
  <2>10. Upwards(par, q)[i - j] = q
    <3>1. Upwards(tree, q)[i - j] = up[i]
      BY <2>3, <2>4, <2>9
    <3> QED BY <2>1, <2>3, <2>9, <3>1 DEF q
  <2>11. tree[q] = None
    BY <2>2, <2>3, <2>10 DEF Circular
  <2>12. 1 \in 0..Height /\ 1 \in 1..Height /\ 1 <= i - j
    BY <2>3, PagesFinite
  <2>13. Upwards(tree, q)[1] = None
    BY <1>1, <2>2, <2>5, <2>11, <2>12
  <2> QED BY <2>4, <2>12, <2>13
<1> QED BY <1>6, <1>7

(* The pages that are opened from the views in S.                          *)
Inside(tree, S) == UNION {{p \in ChildrenOf(tree, at) : Button("open", p) \in Buttons(tree, at)} : at \in S}

(* The views opened after i steps.                                         *)
LEMMA OpenedAre ==
  ASSUME NEW tree, ParentsOK(tree)
  PROVE  \E o : /\ Opened(tree) = UNION {o[i] : i \in 0..Height}
                /\ o \in [0..Height -> SUBSET Above(tree)] /\ o[0] = {Root}
                /\ \A i \in 1..Height : o[i] = Inside(tree, o[i - 1])
<1> DEFINE V == SUBSET Above(tree)
           Body(f) == [i \in 0..Height |-> IF i = 0 THEN {Root} ELSE Inside(tree, f[i - 1])]
           step == [x \in (1..Height) \X V |-> Inside(tree, x[2])]
           first == {Root}
           o == CHOOSE f : f = Body(f)
<1>1. \A S : Inside(tree, S) \in V
  BY DEF Inside, ChildrenOf, Above
<1>2. step \in Steps(Height, V) /\ first \in V
  BY <1>1 DEF Steps, Root, Above
<1>3. \A i \in 1..Height, v \in V : step[<<i, v>>] = Inside(tree, v)
  OBVIOUS
<1> HIDE DEF step, V, first, o
<1>4. PICK f : Follows(f, Height, V, first, step)
  BY <1>2, PagesFinite, Recursion
<1>5. ASSUME NEW i \in 0..Height PROVE f[i] = Body(f)[i]
  <2>1. CASE i = 0
    BY <1>4, <2>1, PagesFinite DEF Follows, first
  <2>2. CASE i # 0
    <3>1. i \in 1..Height /\ i - 1 \in 0..Height
      BY <2>2, PagesFinite
    <3> QED BY <1>3, <1>4, <2>2, <3>1 DEF Follows
  <2> QED BY <2>1, <2>2
<1>6. f = Body(f)
  BY <1>4, <1>5 DEF Follows
<1>7. o = Body(o)
  <2> HIDE DEF Body
  <2> QED BY <1>6 DEF o
<1>8. DOMAIN o = 0..Height /\ o[0] = {Root} /\ \A i \in 1..Height : o[i] = Inside(tree, o[i - 1])
  <2>1. DOMAIN o = 0..Height /\ \A i \in 0..Height : o[i] = IF i = 0 THEN {Root} ELSE Inside(tree, o[i - 1])
    BY <1>7
  <2> QED BY <2>1, PagesFinite
<1>9. o \in [0..Height -> V]
  <2>1. ASSUME NEW i \in 0..Height PROVE o[i] \in V
    <3>1. i = 0 \/ i \in 1..Height
      BY PagesFinite
    <3> QED BY <1>1, <1>2, <1>8, <3>1 DEF first
  <2>2. o = [i \in 0..Height |-> o[i]]
    BY <1>7
  <2> QED BY <2>1, <2>2
<1>10. Opened(tree) = UNION {o[i] : i \in DOMAIN o}
  BY DEF Opened, Inside, o, Height
<1> QED BY <1>8, <1>9, <1>10 DEF V

(* Whoever is below some view is reached by opening pages.                 *)
LEMMA OpensDown ==
  ASSUME NEW tree, ParentsOK(tree), NEW o,
         o \in [0..Height -> SUBSET Above(tree)], o[0] = {Root},
         \A i \in 1..Height : o[i] = Inside(tree, o[i - 1])
  PROVE  \A i \in 1..Height : \A p \in DOMAIN tree :
           Upwards(tree, p)[i] = None => \E k \in 0..(i - 1) : tree[p] \in o[k]
<1> DEFINE Reached(i, p) == Upwards(tree, p)[i] = None => \E k \in 0..(i - 1) : tree[p] \in o[k]
           S == {i \in 0..Height : i # 0 => \A p \in DOMAIN tree : Reached(i, p)}
<1>1. 0 \in S
  BY PagesFinite
<1>2. ASSUME NEW i \in 0..Height, i < Height, i \in S PROVE i + 1 \in S
  <2> SUFFICES ASSUME NEW p \in DOMAIN tree, Upwards(tree, p)[i + 1] = None
               PROVE  \E k \in 0..i : tree[p] \in o[k]
    BY <1>2, PagesFinite
  <2> DEFINE q == tree[p]
  <2>1. p \in Above(tree) /\ p # None /\ q \in Above(tree)
    BY PagesFinite DEF Above, ParentsOK
  <2>2. CASE q = None
    BY <1>2, <2>2, PagesFinite DEF Root
  <2>3. CASE q # None
    <3>1. q \in DOMAIN tree /\ p \in ChildrenOf(tree, q)
      BY <2>1, <2>3 DEF Above, ChildrenOf
    <3>2. 1 \in 0..Height /\ 1 \in 1..Height /\ 1 + i = i + 1 /\ 1 + i <= Height /\ i \in Nat
      BY <1>2, PagesFinite
    <3>3. Upwards(tree, p)[1] = q
      BY <2>1, <3>2, Climbs
    <3>4. Upwards(tree, q)[i] = None
      BY <1>2, <2>1, <3>2, <3>3, Continued
    <3>5. i # 0
      BY <2>1, <2>3, <3>4, Climbs
    <3>6. PICK k \in 0..(i - 1) : tree[q] \in o[k]
      BY <1>2, <3>1, <3>4, <3>5
    <3>7. q \in ChildrenOf(tree, tree[q]) /\ ChildrenOf(tree, q) # {}
      BY <3>1 DEF ChildrenOf
    <3>8. Button("open", q) \in Buttons(tree, tree[q])
      BY <3>7 DEF Buttons
    <3>9. q \in Inside(tree, o[k])
      BY <3>6, <3>7, <3>8 DEF Inside
    <3>10. k + 1 \in 1..Height /\ (k + 1) - 1 = k /\ k + 1 \in 0..i
      BY <1>2, <3>2, <3>5, PagesFinite
    <3> QED BY <3>9, <3>10
  <2> QED BY <2>2, <2>3
<1>3. 0..Height \subseteq S
  <2> HIDE DEF S
  <2> QED BY <1>1, <1>2, UpTo, PagesFinite
<1>4. \A i \in 1..Height : i \in 0..Height /\ i # 0
  BY PagesFinite
<1> QED BY <1>3, <1>4

(* PickerWhole holds of any rows.                                          *)
LEMMA PickerAlwaysWhole == PickerWhole
<1> DEFINE tree == Hierarchy
           opened == Opened(tree)
<1>1. /\ ParentsOK(tree) /\ DOMAIN tree = Listed
      /\ ParentsOK(StoredParents) /\ DOMAIN StoredParents = Listed
      /\ \A p \in Listed : tree[p] = IF Circular(StoredParents, p) THEN None ELSE StoredParents[p]
  BY TreeIs
<1> HIDE DEF tree
<1>2. \A p \in Listed : Circular(StoredParents, p) <=> OnCycle(p)
  BY DEF Circular, OnCycle, Height
<1>3. \A p \in Listed : \E i \in 1..Height : Upwards(tree, p)[i] = None
  BY <1>1, ReachesRoot
<1>4. Nodes(tree) = Listed
  <2>1. \A i \in 1..Height : i \in 0..Height
    BY PagesFinite
  <2> QED BY <1>1, <1>3, <2>1 DEF Nodes, Height
<1>5. PICK o : /\ Opened(tree) = UNION {o[i] : i \in 0..Height}
               /\ o \in [0..Height -> SUBSET Above(tree)] /\ o[0] = {Root}
               /\ \A i \in 1..Height : o[i] = Inside(tree, o[i - 1])
  BY <1>1, OpenedAre
<1>6. \A p \in Listed : \E k \in 0..(Height - 1) : tree[p] \in o[k]
  <2> TAKE p \in Listed
  <2>1. PICK i \in 1..Height : Upwards(tree, p)[i] = None
    BY <1>3
  <2>2. PICK k \in 0..(i - 1) : tree[p] \in o[k]
    BY <1>1, <1>5, <2>1, OpensDown
  <2>3. k \in 0..(Height - 1)
    BY PagesFinite
  <2> QED BY <2>2, <2>3
<1>7. \A p \in Listed : tree[p] \in opened
  <2> TAKE p \in Listed
  <2>1. PICK k \in 0..(Height - 1) : tree[p] \in o[k]
    BY <1>6
  <2>2. k \in 0..Height
    BY PagesFinite
  <2> QED BY <1>5, <2>1, <2>2
<1>8. \A p \in Listed : p \in ChildrenOf(tree, tree[p])
  BY <1>1 DEF ChildrenOf
<1>9. \A p \in Listed : ChildrenOf(tree, p) # {} => p \in opened
  <2> SUFFICES ASSUME NEW p \in Listed, ChildrenOf(tree, p) # {} PROVE p \in opened
    OBVIOUS
  <2>1. PICK k \in 0..(Height - 1) : tree[p] \in o[k]
    BY <1>6
  <2>2. Button("open", p) \in Buttons(tree, tree[p])
    BY <1>8 DEF Buttons
  <2>3. p \in Inside(tree, o[k])
    BY <1>8, <2>1, <2>2 DEF Inside
  <2>4. k + 1 \in 1..Height /\ (k + 1) - 1 = k /\ k + 1 \in 0..Height
    BY PagesFinite
  <2> QED BY <1>5, <2>3, <2>4
<1>10. opened \subseteq Listed \cup {Root} /\ Root = None /\ Root \notin Listed /\ Root \in opened
  <2>1. 0 \in 0..Height
    BY PagesFinite
  <2>2. None \notin Listed
    BY PagesFinite DEF Listed
  <2> QED BY <1>1, <1>5, <2>1, <2>2 DEF Above, Root
<1> HIDE DEF opened
<1>11. \A p \in Listed : \E at \in opened : Button("select", p) \in Buttons(tree, at)
  <2> TAKE p \in Listed
  <2>1. CASE ChildrenOf(tree, p) = {}
    BY <1>7, <1>8, <2>1 DEF Buttons
  <2>2. CASE ChildrenOf(tree, p) # {}
    <3>1. p \in opened /\ p # Root
      BY <1>9, <1>10, <2>2
    <3> QED BY <3>1 DEF Buttons
  <2> QED BY <2>1, <2>2
<1>12. ASSUME NEW at \in opened, NEW b \in Buttons(tree, at)
       PROVE  Usable(tree, b) /\ (b.action # "select" => Leads(tree, b) \in opened)
  <2>1. CASE \E p \in ChildrenOf(tree, at) :
               b = Button(IF ChildrenOf(tree, p) # {} THEN "open" ELSE "select", p)
    <3>1. PICK p \in ChildrenOf(tree, at) :
            b = Button(IF ChildrenOf(tree, p) # {} THEN "open" ELSE "select", p)
      BY <2>1
    <3>2. p \in Listed
      BY <1>1 DEF ChildrenOf
    <3>3. CASE ChildrenOf(tree, p) # {}
      <4>1. b.action = "open" /\ b.page = p
        BY <3>1, <3>3 DEF Button
      <4> QED BY <1>4, <1>9, <3>2, <3>3, <4>1 DEF Usable, Leads
    <3>4. CASE ChildrenOf(tree, p) = {}
      <4>1. b.action = "select" /\ b.page = p /\ b.title = place[p].title
        BY <3>1, <3>4 DEF Button
      <4> QED BY <1>4, <3>2, <4>1 DEF Usable
    <3> QED BY <3>3, <3>4
  <2>2. CASE at # Root /\ b = Button("select", at)
    <3>1. at \in Listed /\ b.action = "select" /\ b.page = at /\ b.title = place[at].title
      BY <1>10, <2>2 DEF Button
    <3> QED BY <1>4, <3>1 DEF Usable
  <2>3. CASE at # Root /\ b = Button("back", at)
    <3>1. at \in Listed /\ b.action = "back" /\ b.page = at
      BY <1>10, <2>3 DEF Button
    <3> QED BY <1>4, <1>7, <3>1 DEF Usable, Leads
  <2>4. CASE b = Button("root", None)
    <3>1. b.action = "root"
      BY <2>4 DEF Button
    <3> QED BY <1>10, <3>1 DEF Usable, Leads
  <2> QED BY <2>1, <2>2, <2>3, <2>4 DEF Buttons
<1> QED BY <1>1, <1>2, <1>11, <1>12 DEF PickerWhole, tree, opened

(* Whatever parents the rows name, the picker shows every page, below the  *)
(* parent it was indexed with unless that closes a cycle, and none of its  *)
(* buttons is refused while the rows are as they were.                     *)
THEOREM PickerShowsAll == SpecWithRecovery => []PickerWhole
BY PickerAlwaysWhole, PTL
================================================================================
