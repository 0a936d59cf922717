-------------------------- MODULE SupplementProposal --------------------------
(***************************************************************************)
(* How a supplement is proposed: SupplementProposeOrchestrator with the    *)
(* schema of a proposal (supplement_proposal_schema) and the validator of  *)
(* screenshot proposals (screenshot_quality).                              *)
(*                                                                         *)
(* A draft comes from the language model.  The draft of a screenshot must  *)
(* be grounded in the OCR text: a bad title may be written again once, or  *)
(* replaced by one built from the source; after that the summary, or the   *)
(* whole body, may be written again once.  What passes is stored as a      *)
(* pending change request.  Text is what the validator sees of it: the     *)
(* anchors it names, and what each part of it does with them.  A part is   *)
(* one claim: each of its claims is judged alone and all have to pass.     *)
(***************************************************************************)
EXTENDS Naturals, FiniteSets

CONSTANTS
  Requests,  \* change requests, one for every proposal that is asked for
  Pages,     \* Notion pages
  Anchors,   \* what a text may name
  Kind,      \* [Anchors -> Kinds]
  Marked,    \* the anchors spelled with a capital, a digit or a symbol
  Source,    \* the anchors of the OCR text
  Titles,    \* titles the model, or the fallback, may write: sets of anchors
  Claims,    \* claims a summary, the concepts or the notes may make
  Drafts,    \* [names -> sets of texts]: what the model may write at first
  None

(* "phrase" is one of the technical Chinese phrases the validator knows,   *)
(* "chinese" two characters of any other Chinese; "verdict" is advice, a   *)
(* comparison or a conclusion, by the list of words for it that the part   *)
(* is checked with.                                                        *)
Kinds == {"number", "product", "identifier", "phrase", "word", "chinese", "verdict"}

(* What a claim names, in what is written before a colon (label) and in    *)
(* the rest (anchors); whether as many of the source's anchors are in it   *)
(* as its languages ask for (evidence); and whether it has what marks      *)
(* engineering context: a marker, a concept, no absolute word (bounded).   *)
ClaimRecords == [anchors : SUBSET Anchors, label : SUBSET Anchors,
                 evidence : BOOLEAN, bounded : BOOLEAN]

Forms == {"fits", "edge", "over"}

Texts == [title : SUBSET Anchors, summary : Claims, concepts : Claims, notes : Claims,
          form : Forms, listed : BOOLEAN]

(* What is asked for: None where nothing is.                               *)
Proposals ==
  [source : {"screenshot", "text"}, target : Pages \cup {None}, drafts : DOMAIN Drafts]

ASSUME SupplementProposalAssumption ==
  /\ Kind \in [Anchors -> Kinds]
  /\ Marked \subseteq Anchors
  /\ Source \subseteq Anchors
  /\ Titles \subseteq SUBSET Anchors
  /\ Claims \subseteq ClaimRecords
  /\ \A name \in DOMAIN Drafts : Drafts[name] # {} /\ Drafts[name] \subseteq Texts
  /\ None \notin Pages \cup Texts \cup Proposals \cup {"running", "succeeded", "failed"}

VARIABLES
  job,      \* job[c]: what was asked for: [source, target, drafts]
  draft,    \* draft[c]: where the proposal of c stands
  request,  \* request[c]: its row of change_requests, None while there is none
  index     \* index[p]: what notion_pages and knowledge_chunks hold of page p

proposalVars == <<job, draft>>

NewDraft == [pc |-> "new", text |-> None, reference |-> FALSE, calls |-> 0,
             repaired |-> {}, audit |-> None, late |-> FALSE]

------------------------------------------------------------------------------
(* _analyze_title_grounding                                                *)

Of(kinds, anchors) == {a \in anchors : Kind[a] \in kinds}

Missing(kinds, anchors) == Of(kinds, anchors) \ Source

Specific == {"product", "identifier", "phrase"}
Ascii == {"product", "identifier", "word"}

EnoughAnchors(title) ==
  \/ Of(Specific, title) \cap Source # {}
  \/ Cardinality(Of({"word", "chinese"}, title) \cap Source) >= 2

(* General Chinese that is not in the source is advisory.                  *)
TitleGrounded(title) ==
  EnoughAnchors(title) /\ Missing(Kinds \ {"chinese"}, title) = {}

(* is_screenshot_title_fallback_eligible: the title is on the topic of the *)
(* source and, a product aside, names nothing foreign.                     *)
MayFallBack(title) ==
  /\ Of(Specific \cup {"word", "chinese"}, title) \cap Source # {}
  /\ Missing({"number", "identifier", "phrase", "word"}, title) = {}
  /\ Missing({"product"}, title) # {} => Of(Specific, title) \cap Source # {}

------------------------------------------------------------------------------
(* _analyze_claim_grounding and _validate_screenshot_proposal              *)

Names(claim) == claim.anchors \cup claim.label

(* _has_bounded_engineering_context: what stands in a label is not looked  *)
(* at; elsewhere only the source and the concepts may be named.            *)
IsContext(claim, concepts) ==
  claim.bounded /\ Missing(Ascii, claim.anchors) \subseteq Names(concepts)

(* A foreign token that looks like a name.                                 *)
NewTerm(claim) == Missing(Ascii, Names(claim)) \cap Marked # {}

(* _has_source_evidence                                                    *)
Shown(claim) == claim.evidence /\ Missing(Ascii, Names(claim)) = {}

(* What a claim adds is refused at once, whatever else it says.            *)
Adds(claim) == Missing({"number", "verdict", "phrase"}, Names(claim)) # {}

ClaimAdds(claim) == Adds(claim) \/ NewTerm(claim)

ClaimGrounded(claim) == ~ClaimAdds(claim) /\ Shown(claim)

(* Notes alone may be context, and then skip the search for new terms.     *)
NotesAdd(text) ==
  Adds(text.notes) \/ (NewTerm(text.notes) /\ ~IsContext(text.notes, text.concepts))

NotesGrounded(text) ==
  ~NotesAdd(text) /\ (Shown(text.notes) \/ IsContext(text.notes, text.concepts))

(* Every concept has a note and no note repeats another.                   *)
Covered(text) == text.listed

BodyGrounded(text) == ClaimGrounded(text.concepts) /\ NotesGrounded(text) /\ Covered(text)

(* Counts, lengths and language come before the title; a title whose       *)
(* advice or conclusion only the lists for claims have is no subject of a  *)
(* repair either.                                                          *)
WellFormed(text) == text.form # "over"

TitleFails(text) == WellFormed(text) /\ ~TitleGrounded(text.title)

Valid(text) ==
  /\ WellFormed(text)
  /\ TitleGrounded(text.title)
  /\ ClaimGrounded(text.summary)
  /\ BodyGrounded(text)

(* summary_repair_eligible, body_repair_eligible: faults a model may be    *)
(* asked to repair are only about how much of the source a claim shows;    *)
(* what it adds to the source is refused at once.                          *)
BodyReached(text) ==
  /\ WellFormed(text)
  /\ TitleGrounded(text.title)
  /\ ~ClaimAdds(text.summary) /\ ~ClaimAdds(text.concepts) /\ ~NotesAdd(text)

SummaryRepairable(text) ==
  BodyReached(text) /\ ~ClaimGrounded(text.summary) /\ BodyGrounded(text)

BodyRepairable(text) == BodyReached(text) /\ ~BodyGrounded(text)

(* Where a proposal goes once its title is settled.                        *)
After(text) ==
  CASE Valid(text) -> "dedupe"
    [] SummaryRepairable(text) -> "summary"
    [] BodyRepairable(text) -> "body"
    [] OTHER -> "refuse"

------------------------------------------------------------------------------
(* Steps of propose_change_request                                         *)

Screenshot(c) == job[c].source = "screenshot"

(* The source document and the target page are read and the workflow is    *)
(* started; a target has to be indexed.                                    *)
StartProposal(c) ==
  /\ draft[c].pc = "new"
  /\ job[c] # None
  /\ \/ /\ job[c].target # None
        /\ index[job[c].target] = None
        /\ draft' = [draft EXCEPT ![c] = [@ EXCEPT !.pc = "refuse", !.audit = "running"]]
     \/ /\ job[c].target # None => index[job[c].target] # None
        /\ draft' = [draft EXCEPT ![c] = [@ EXCEPT !.pc = "search", !.audit = "running"]]
  /\ UNCHANGED <<job, request>>

(* check_duplicate compares with the chunks of the indexed pages.          *)
MayBeDuplicate == \E p \in Pages : index[p] # None

(* The source is known already: a reference is proposed and no model asked.*)
RefersToKnown(c, before) ==
  /\ draft[c].pc = before
  /\ MayBeDuplicate
  /\ draft' = [draft EXCEPT ![c].pc = "store", ![c].reference = TRUE]
  /\ UNCHANGED <<job, request>>

SourceIsNew(c) ==
  /\ draft[c].pc = "search"
  /\ draft' = [draft EXCEPT ![c].pc = "write"]
  /\ UNCHANGED <<job, request>>

(* The first draft.  The schema counts the target path with the text, so a *)
(* draft on the edge of the limit is refused here.                         *)
Write(c) ==
  /\ draft[c].pc = "write"
  /\ \E text \in Drafts[job[c].drafts] :
       draft' = [draft EXCEPT ![c] =
         [draft[c] EXCEPT !.text = text, !.calls = @ + 1,
                          !.pc = IF text.form # "fits" THEN "refuse"
                                 ELSE IF ~Screenshot(c) THEN "dedupe"
                                 ELSE IF TitleFails(text) THEN "title" ELSE After(text)]]
  /\ UNCHANGED <<job, request>>

Rewritten(c, part, text, pc) ==
  draft' = [draft EXCEPT ![c] = [draft[c] EXCEPT !.text = text, !.calls = @ + 1, !.pc = pc,
                                                 !.repaired = @ \cup {part}]]

(* A title that is written again and not grounded either, but on the       *)
(* topic, gives way to one built from the source; what is built may fail   *)
(* as well (a source without a usable line).                               *)
NewTitle(title) ==
  IF TitleGrounded(title) THEN {title}
  ELSE IF MayFallBack(title) THEN {t \in Titles : t \subseteq Source} ELSE {}

(* What the model may answer to the repair of a part.  The repaired text   *)
(* is not bound by the schema: it may be on the edge of the limit.         *)
TitleRepaired(text, title, form) == [text EXCEPT !.title = title, !.form = form]

SummaryRepaired(text, claim, form) == [text EXCEPT !.summary = claim, !.form = form]

BodyRepairs(text) ==
  [title : {text.title}, summary : Claims, concepts : Claims, notes : Claims,
   form : Forms, listed : BOOLEAN]

RepairTitle_BodyUnchecked(c) ==  \* mutant: a repaired title is all that is checked again
  /\ draft[c].pc = "title"
  /\ \E title \in Titles :
       \/ \E t \in NewTitle(title), form \in Forms :
            LET text == TitleRepaired(draft[c].text, t, form)
            IN  Rewritten(c, "title", text, IF TitleFails(text) THEN "refuse" ELSE "dedupe")
       \/ /\ NewTitle(title) = {}
          /\ Rewritten(c, "title", draft[c].text, "refuse")
  /\ UNCHANGED <<job, request>>

RepairTitle(c) ==
  /\ draft[c].pc = "title"
  /\ \E title \in Titles :
       \/ \E t \in NewTitle(title), form \in Forms :
            LET text == TitleRepaired(draft[c].text, t, form)
            IN  Rewritten(c, "title", text, IF TitleFails(text) THEN "refuse" ELSE After(text))
       \/ /\ NewTitle(title) = {}
          /\ Rewritten(c, "title", draft[c].text, "refuse")
  /\ UNCHANGED <<job, request>>

(* The summary, or the whole body, is written again and has to be valid:   *)
(* there is no second repair.                                              *)
RepairSummary(c) ==
  /\ draft[c].pc = "summary"
  /\ \E claim \in Claims, form \in Forms :
       LET text == SummaryRepaired(draft[c].text, claim, form)
       IN  Rewritten(c, "summary", text, IF Valid(text) THEN "dedupe" ELSE "refuse")
  /\ UNCHANGED <<job, request>>

RepairBody(c) ==
  /\ draft[c].pc = "body"
  /\ \E text \in BodyRepairs(draft[c].text) :
       Rewritten(c, "body", text, IF Valid(text) THEN "dedupe" ELSE "refuse")
  /\ UNCHANGED <<job, request>>

(* The finished text is compared with the index once more.                 *)
TextIsNew(c) ==
  /\ draft[c].pc = "dedupe"
  /\ draft' = [draft EXCEPT ![c].pc = "store"]
  /\ UNCHANGED <<job, request>>

(* create_change_request, committed by the unit of work.                   *)
Store(c) ==
  /\ draft[c].pc = "store"
  /\ request' = [request EXCEPT ![c] =
                   [status |-> "pending", target |-> job[c].target]]
  /\ draft' = [draft EXCEPT ![c].pc = "close"]
  /\ UNCHANGED job

(* mark_workflow_succeeded, or WorkflowRunAuditUpdateError.                *)
CloseProposal(c) ==
  /\ draft[c].pc = "close"
  /\ \E audit \in {"succeeded", "running"} :
       draft' = [draft EXCEPT ![c].pc = "done", ![c].audit = audit]
  /\ UNCHANGED <<job, request>>

ProposalWorks(c) == draft[c].pc \notin {"new", "close", "done"}

(* What is refused, and any exception (provider, prompt, database), fails  *)
(* the workflow; marking it may fail as well.                              *)
FailProposal(c) ==
  /\ ProposalWorks(c)
  /\ \E audit \in {"failed", "running"} :
       draft' = [draft EXCEPT ![c].pc = "done", ![c].audit = audit]
  /\ UNCHANGED <<job, request>>

(* The job's time is up.  The handler of any exception also catches this   *)
(* between the commit and the audit: the workflow fails, the row stays.    *)
ProposalTimeout(c) ==
  /\ draft[c].pc = "close"
  /\ draft' = [draft EXCEPT ![c].pc = "done", ![c].audit = "failed", ![c].late = TRUE]
  /\ UNCHANGED <<job, request>>

(* The process dies; the workflow stays "running".                         *)
ProposalCrash(c) ==
  /\ draft[c].pc \notin {"new", "done"}
  /\ draft' = [draft EXCEPT ![c].pc = "done"]
  /\ UNCHANGED <<job, request>>

ProposalNext ==
  \E c \in Requests :
    \/ StartProposal(c) \/ SourceIsNew(c) \/ Write(c)
    \/ RefersToKnown(c, "search") \/ RefersToKnown(c, "dedupe")
    \/ RepairTitle(c) \/ RepairSummary(c) \/ RepairBody(c)
    \/ TextIsNew(c) \/ Store(c) \/ CloseProposal(c)
    \/ FailProposal(c) \/ ProposalTimeout(c) \/ ProposalCrash(c)

------------------------------------------------------------------------------
(* Properties.                                                             *)

DraftStates ==
  [pc : {"new", "search", "write", "title", "summary", "body", "dedupe", "store",
         "close", "refuse", "done"},
   text : Texts \cup {None}, reference : BOOLEAN, calls : 0..3,
   repaired : SUBSET {"title", "summary", "body"},
   audit : {None, "running", "succeeded", "failed"}, late : BOOLEAN]

StoredScreenshot(c) == request[c] # None /\ Screenshot(c) /\ ~draft[c].reference

(* What the text of a stored screenshot proposal may name that the OCR     *)
(* text does not, whatever was repaired in which order.  No part names a   *)
(* number, a technical phrase or a verdict of its own.  The title and the  *)
(* summary and the concepts name no product, identifier or word of their   *)
(* own; the notes do so only in the label of a claim that is engineering   *)
(* context.  Every other claim has evidence, and the concepts are covered. *)
(* A part that was repaired is never stored with another part unchecked.   *)
StoredIsGrounded ==
  \A c \in Requests :
    StoredScreenshot(c) =>
      LET text == draft[c].text
          said == Names(text.summary) \cup Names(text.concepts)
      IN  /\ Missing({"number", "phrase", "verdict"},
                     text.title \cup said \cup Names(text.notes)) = {}
          /\ Missing(Ascii, text.title \cup said \cup text.notes.anchors) = {}
          /\ Missing(Ascii, text.notes.label) # {} => text.notes.bounded
          /\ text.summary.evidence /\ text.concepts.evidence
          /\ text.notes.evidence \/ text.notes.bounded
          /\ text.listed

(* A row exists exactly when the proposal got past its commit: a workflow  *)
(* that succeeded has stored one, and one that failed has not, unless the  *)
(* time was up right after the commit.  The model was paid three times at  *)
(* most, and never for both a summary and a body.                          *)
ProposalAudited ==
  \A c \in Requests :
    /\ draft[c].audit = "succeeded" => request[c] # None
    /\ draft[c].audit = "failed" /\ request[c] # None => draft[c].late
    /\ ~({"summary", "body"} \subseteq draft[c].repaired)
    /\ draft[c].calls <= 1 + Cardinality(draft[c].repaired)
==============================================================================
