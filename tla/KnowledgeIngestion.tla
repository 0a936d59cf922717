-------------------------- MODULE KnowledgeIngestion --------------------------
(***************************************************************************)
(* How a source becomes searchable: DocumentIngestionOrchestrator (PDF),   *)
(* ImageOCRIngestionOrchestrator, URLIngestionOrchestrator and the two     *)
(* that only store text (YouTube, chat), with KnowledgeIndexingService,    *)
(* source_documents, knowledge_chunks and workflow_runs.                   *)
(*                                                                         *)
(* A request looks for an indexed source of the same identity, parses,     *)
(* creates a document in "indexing", embeds its chunks, and stores them    *)
(* together with the status "indexed".  Each of these is a transaction or  *)
(* an await of its own; other requests run between them, any of them may   *)
(* fail, and the process may die.                                          *)
(***************************************************************************)
EXTENDS Naturals, FiniteSets

CONSTANTS
  Requests,
  Identities,  \* file hashes; for a URL its final address and content hash
  Parts,       \* the chunks a source is cut into
  None

Kinds == {"pdf", "image", "url", "text"}

Statuses == {"indexing", "indexed", "parsed", "failed"}

Outcomes == {"succeeded", "already_indexed", "not_audited", "error"}

ASSUME IngestionAssumption == None \notin Requests \cup Kinds \cup Statuses \cup Outcomes

(* Kinds that are indexed, and so guarded against duplicates.              *)
Searchable == Kinds \ {"text"}

VARIABLES
  docs,      \* docs[r]: status of the document request r has created, or None
  chunks,    \* rows of knowledge_chunks, all "eligible"
  workflow,  \* workflow[r]: status of the row that audits request r
  req        \* req[r]: where request r stands; two of its fields only record
             \* history: "before", the sources of its identity that were indexed
             \* when it began, and "lost", that it died or could not undo

vars == <<docs, chunks, workflow, req>>

NewRequest == [pc |-> "new", kind |-> None, identity |-> None, source |-> None,
               reply |-> None, before |-> {}, lost |-> FALSE]

Init ==
  /\ docs = [r \in Requests |-> None]
  /\ chunks = {}
  /\ workflow = [r \in Requests |-> None]
  /\ req = [r \in Requests |-> NewRequest]

At(r, label) == req[r].pc = label

Goto(r, label) == req' = [req EXCEPT ![r].pc = label]

(* The document a request finds or has created, and what is left to do.    *)
Holding(r, source, label) ==
  req' = [req EXCEPT ![r].source = source, ![r].pc = label]

Answer(r, reply) == req' = [req EXCEPT ![r].reply = reply, ![r].pc = "done"]

------------------------------------------------------------------------------

(* find_indexed_pdf_source_by_file_hash and its like: the document has the *)
(* status, the source type and the identity.  The code takes the one that  *)
(* was updated last.                                                       *)
Indexed_AnyStatus(kind, identity) ==  \* mutant: the status is not asked for
  {d \in Requests : /\ docs[d] # None
                    /\ req[d].kind = kind
                    /\ req[d].identity = identity}

Indexed(kind, identity) ==
  {d \in Requests : /\ docs[d] = "indexed"
                    /\ req[d].kind = kind
                    /\ req[d].identity = identity}

(* A URL is known by what its address leads to: it is parsed first.        *)
First(kind) == IF kind \in {"pdf", "image"} THEN "guard" ELSE "parse"

AfterGuard(kind) == IF kind = "url" THEN "create" ELSE "parse"

AfterParse_UrlUnguarded(kind) == "create"  \* mutant: a URL is never looked up

AfterParse(kind) == IF kind = "url" THEN "guard" ELSE "create"

Start(r, kind, identity) ==
  /\ At(r, "new")
  /\ workflow' = [workflow EXCEPT ![r] = "running"]
  /\ req' = [req EXCEPT ![r] =
               [@ EXCEPT !.pc = First(kind), !.kind = kind, !.identity = identity,
                         !.before = Indexed(kind, identity) \ {r}]]
  /\ UNCHANGED <<docs, chunks>>

Duplicate(r) ==
  /\ At(r, "guard")
  /\ \E d \in Indexed(req[r].kind, req[r].identity) : Holding(r, d, "close")
  /\ UNCHANGED <<docs, chunks, workflow>>

NoDuplicate(r) ==
  /\ At(r, "guard")
  /\ Indexed(req[r].kind, req[r].identity) = {}
  /\ Goto(r, AfterGuard(req[r].kind))
  /\ UNCHANGED <<docs, chunks, workflow>>

Parse(r) ==
  /\ At(r, "parse")
  /\ Goto(r, AfterParse(req[r].kind))
  /\ UNCHANGED <<docs, chunks, workflow>>

NewStatus(kind) == IF kind \in Searchable THEN "indexing" ELSE "parsed"

Create(r) ==
  /\ At(r, "create")
  /\ docs' = [docs EXCEPT ![r] = NewStatus(req[r].kind)]
  /\ Holding(r, r, IF req[r].kind \in Searchable THEN "embed" ELSE "close")
  /\ UNCHANGED <<chunks, workflow>>

Embed(r) ==
  /\ At(r, "embed")
  /\ Goto(r, "store")
  /\ UNCHANGED <<docs, chunks, workflow>>

Store_Split(r) ==  \* mutant: the status commits first, the chunks may fail
  /\ At(r, "store")
  /\ docs' = [docs EXCEPT ![r] = "indexed"]
  /\ \/ chunks' = {c \in chunks : c.doc # r} \cup [doc : {r}, part : Parts] /\ Goto(r, "close")
     \/ UNCHANGED chunks /\ Goto(r, "undo")
  /\ UNCHANGED workflow

(* upsert_source_document_chunks and update_status, in one transaction.    *)
Store(r) ==
  /\ At(r, "store")
  /\ chunks' = {c \in chunks : c.doc # r} \cup [doc : {r}, part : Parts]
  /\ docs' = [docs EXCEPT ![r] = "indexed"]
  /\ Goto(r, "close")
  /\ UNCHANGED workflow

(* mark_workflow_succeeded; when it raises WorkflowRunAuditUpdateError the *)
(* request fails and the document stays as it is.                          *)
Close(r) ==
  /\ At(r, "close")
  /\ \/ /\ workflow' = [workflow EXCEPT ![r] = "succeeded"]
        /\ Answer(r, IF req[r].source = r THEN "succeeded" ELSE "already_indexed")
     \/ /\ Answer(r, "not_audited")
        /\ UNCHANGED workflow
  /\ UNCHANGED <<docs, chunks>>

------------------------------------------------------------------------------
(* Failure.                                                                *)

(* The handlers know a document to undo once source_document_id is set.    *)
AfterFailure_Always(r) == "undo"  \* mutant: whether there is a document is not asked

AfterFailure(r) == IF req[r].source = r THEN "undo" ELSE "fail"

StepFails(r) ==
  /\ req[r].pc \in {"guard", "parse", "create", "embed", "store"}
  /\ Goto(r, AfterFailure(r))
  /\ UNCHANGED <<docs, chunks, workflow>>

(* _mark_source_document_failed                                            *)
Undo(r) ==
  /\ At(r, "undo")
  /\ docs' = [docs EXCEPT ![r] = "failed"]
  /\ Goto(r, "fail")
  /\ UNCHANGED <<chunks, workflow>>

(* When it fails itself, PDF and URL go on to the audit.  For an image the *)
(* exception leaves the handler, and the workflow stays "running".         *)
UndoFails(r) ==
  /\ At(r, "undo")
  /\ req' = [req EXCEPT ![r] =
               IF @.kind = "image"
               THEN [@ EXCEPT !.lost = TRUE, !.pc = "done", !.reply = "error"]
               ELSE [@ EXCEPT !.lost = TRUE, !.pc = "fail"]]
  /\ UNCHANGED <<docs, chunks, workflow>>

(* mark_workflow_failed, which swallows the failures of the database.      *)
Fail(r) ==
  /\ At(r, "fail")
  /\ workflow' \in {workflow, [workflow EXCEPT ![r] = "failed"]}
  /\ Answer(r, "error")
  /\ UNCHANGED <<docs, chunks>>

Crash(r) ==
  /\ req[r].pc \notin {"new", "done"}
  /\ req' = [req EXCEPT ![r].lost = TRUE, ![r].pc = "done"]
  /\ UNCHANGED <<docs, chunks, workflow>>

------------------------------------------------------------------------------

Next ==
  \E r \in Requests :
    \/ \E kind \in Kinds, identity \in Identities : Start(r, kind, identity)
    \/ Duplicate(r) \/ NoDuplicate(r) \/ Parse(r) \/ Create(r) \/ Embed(r) \/ Store(r)
    \/ Close(r) \/ StepFails(r) \/ Undo(r) \/ UndoFails(r) \/ Fail(r) \/ Crash(r)

Spec == Init /\ [][Next]_vars

------------------------------------------------------------------------------
(* Properties.                                                             *)

Labels == {"new", "guard", "parse", "create", "embed", "store", "close",
           "undo", "fail", "done"}

RequestStates ==
  [pc : Labels, kind : Kinds \cup {None}, identity : Identities \cup {None},
   source : Requests \cup {None}, before : SUBSET Requests, lost : BOOLEAN,
   reply : Outcomes \cup {None}]

(* Every variable keeps the shape the code gives it, and a request has a   *)
(* document of its own exactly while it works on it or has worked on it.   *)
TypeOK ==
  /\ docs \in [Requests -> Statuses \cup {None}]
  /\ chunks \subseteq [doc : Requests, part : Parts]
  /\ workflow \in [Requests -> {None, "running", "succeeded", "failed"}]
  /\ req \in [Requests -> RequestStates]
  /\ \A r \in Requests :
       /\ req[r].source = r <=> docs[r] # None
       /\ req[r].pc \in {"embed", "store", "undo"} => docs[r] = "indexing"

(* A document is "indexed", the status retrieval and the inventory ask     *)
(* for, exactly when all its chunks are stored; no other document has any, *)
(* so nothing of a failed or interrupted ingestion can be retrieved.       *)
WholeSources ==
  \A d \in Requests :
    {c \in chunks : c.doc = d} = IF docs[d] = "indexed" THEN [doc : {d}, part : Parts] ELSE {}

(* What a client and the audit are told stays true while other requests    *)
(* fail, crash or index the same file: a source reported as indexed is, is *)
(* of the kind and identity that was sent, and a request that reports an   *)
(* error has left nothing behind that can be retrieved.                    *)
RepliesHold ==
  \A r \in Requests :
    LET source == req[r].source
    IN  /\ \/ req[r].reply \in {"succeeded", "already_indexed", "not_audited"}
           \/ workflow[r] = "succeeded"
           => /\ source # None
              /\ docs[source] = IF req[r].kind \in Searchable THEN "indexed" ELSE "parsed"
              /\ req[source].kind = req[r].kind
              /\ req[source].identity = req[r].identity
        /\ req[r].reply = "error" \/ workflow[r] = "failed"
           => docs[r] \in {None, "indexing", "failed"}

(* A source that was indexed before a request for the same one began is    *)
(* not stored a second time.  (Two requests that overlap may both store    *)
(* it: nothing in the schema makes an identity unique.)                    *)
GuardHolds ==
  \A r \in Requests :
    req[r].kind \in Searchable /\ req[r].before # {} => docs[r] = None

(* A document is left in "indexing" by a request that has ended only when  *)
(* the process died or the database failed while the failure was recorded. *)
NoSilentOrphan ==
  \A r \in Requests : At(r, "done") /\ docs[r] = "indexing" => req[r].lost

(* No source is stored a second time and none is left half done unseen.    *)
SourcesAccounted == GuardHolds /\ NoSilentOrphan
==============================================================================
