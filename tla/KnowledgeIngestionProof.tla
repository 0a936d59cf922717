----------------------- MODULE KnowledgeIngestionProof -----------------------
(***************************************************************************)
(* Proofs about KnowledgeIngestion for any requests, identities and        *)
(* chunks.  RepliesHold and GuardHolds are not inductive: the invariant    *)
(* adds that a request about to report a source has a sound one (Sound),   *)
(* that the sources seen at its start are still indexed, so that the guard *)
(* finds them (Guarded), and where a document can be left "indexing".      *)
(*                                                                         *)
(* Then about SourceIndexing: it implements KnowledgeIngestion, and its    *)
(* rows say what the source says (RowsTrue).  That is so because splitting *)
(* loses and repeats no letter, the batches are the drafts in order, the   *)
(* sections of an album are its images unless some text of it looks like a *)
(* header, and a request that embeds has the vectors of the batches before *)
(* the current one (TextInv).                                              *)
(***************************************************************************)
EXTENDS SourceIndexing, ListLemmas, TLAPS

Reported(x, audit) ==
  \/ x.reply \in {"succeeded", "already_indexed", "not_audited"}
  \/ audit = "succeeded"
  \/ x.pc = "close"

Sound(r) ==
  /\ req[r].source # None
  /\ docs[req[r].source] = IF req[r].kind \in Searchable THEN "indexed" ELSE "parsed"
  /\ req[req[r].source].kind = req[r].kind
  /\ req[req[r].source].identity = req[r].identity

(* A request that has not reached its guard.                               *)
Unguarded(x) ==
  \/ x.pc = "guard"
  \/ x.pc = "parse" /\ x.kind = "url"

Guarded(r) ==
  req[r].kind \in Searchable =>
    /\ req[r].before \subseteq Indexed(req[r].kind, req[r].identity)
    /\ req[r].pc \in {"guard", "parse", "create"} /\ ~Unguarded(req[r]) => req[r].before = {}
    /\ docs[r] # None => req[r].before = {}

Ended(x, audit) == x.reply # None \/ audit \in {"succeeded", "failed"}

Local(r) ==
  /\ req[r].pc = "new" <=> req[r].kind = None
  /\ Ended(req[r], workflow[r]) => req[r].pc = "done"
  /\ req[r].pc \in {"new", "guard", "parse", "create"} => req[r].source = None
  /\ req[r].pc \in {"guard", "embed", "store", "undo"} => req[r].kind \in Searchable
  /\ Reported(req[r], workflow[r]) => Sound(r)
  /\ req[r].pc = "fail" \/ req[r].reply = "error" \/ workflow[r] = "failed"
       => docs[r] \in {None, "indexing", "failed"}
  /\ Guarded(r)
  /\ req[r].pc \in {"fail", "done"} /\ docs[r] = "indexing" => req[r].lost

IInv ==
  /\ TypeOK
  /\ WholeSources
  /\ \A r \in Requests : Local(r)

------------------------------------------------------------------------------
(* Every step is of one request, and nothing that is indexed changes.      *)

Step(s) ==
  /\ \A r \in Requests : r # s =>
       req'[r] = req[r] /\ docs'[r] = docs[r] /\ workflow'[r] = workflow[r]
  /\ docs[s] \in {"indexed", "parsed"} =>
       /\ docs'[s] = docs[s]
       /\ req'[s].kind = req[s].kind
       /\ req'[s].identity = req[s].identity

LEMMA SoundStays ==
  ASSUME TypeOK, NEW s \in Requests, Step(s), NEW r \in Requests, Sound(r),
         req'[r].source = req[r].source, req'[r].kind = req[r].kind,
         req'[r].identity = req[r].identity
  PROVE  Sound(r)'
<1>1. req[r].source \in Requests
  BY DEF TypeOK, RequestStates, Sound
<1>2. CASE req[r].source = s
  <2>1. docs[s] \in {"indexed", "parsed"}
    BY <1>2 DEF Sound
  <2> QED BY <1>1, <1>2, <2>1 DEF Sound, Step
<1>3. CASE req[r].source # s
  BY <1>1, <1>3 DEF Sound, Step
<1> QED BY <1>2, <1>3

LEMMA IndexedStays ==
  ASSUME NEW s \in Requests, Step(s), NEW d \in Requests, docs[d] = "indexed"
  PROVE  docs'[d] = "indexed" /\ req'[d].kind = req[d].kind /\ req'[d].identity = req[d].identity
<1>1. CASE d = s
  BY <1>1 DEF Step
<1>2. CASE d # s
  BY <1>2 DEF Step
<1> QED BY <1>1, <1>2

LEMMA OthersKeep ==
  ASSUME TypeOK, NEW s \in Requests, Step(s), NEW r \in Requests, r # s, Local(r)
  PROVE  Local(r)'
<1>1. req'[r] = req[r] /\ docs'[r] = docs[r] /\ workflow'[r] = workflow[r]
  BY DEF Step
<1>2. Reported(req[r], workflow[r]) => Sound(r)'
  BY <1>1, SoundStays DEF Local
<1>3. Guarded(r)'
  BY <1>1, IndexedStays DEF Local, Guarded, Indexed, Unguarded
<1> QED BY <1>1, <1>2, <1>3 DEF Local

LEMMA InitInvariant == Init => IInv
<1> SUFFICES ASSUME Init PROVE IInv
  OBVIOUS
<1>1. TypeOK
  BY IngestionAssumption DEF Init, TypeOK, NewRequest, RequestStates, Labels
<1>2. WholeSources
  BY IngestionAssumption DEF Init, WholeSources, Statuses
<1>3. ASSUME NEW r \in Requests PROVE Local(r)
  BY <1>3, IngestionAssumption
     DEF Init, Local, NewRequest, Reported, Guarded, Ended, Searchable, Kinds, Statuses, Outcomes
<1> QED BY <1>1, <1>2, <1>3 DEF IInv

LEMMA Preserved ==
  ASSUME IInv, NEW s \in Requests, Step(s), TypeOK', WholeSources', Local(s)'
  PROVE  IInv'
<1>1. ASSUME NEW r \in Requests PROVE Local(r)'
  <2>1. CASE r = s
    BY <2>1
  <2>2. CASE r # s
    BY <2>2, OthersKeep DEF IInv
  <2> QED BY <2>1, <2>2
<1> QED BY <1>1 DEF IInv

(* The fields that steps assign.                                           *)
LEMMA RecordUpdates ==
  ASSUME NEW x \in RequestStates, NEW pc \in Labels
  PROVE  /\ [x EXCEPT !.pc = pc] \in RequestStates
         /\ \A source \in Requests : [x EXCEPT !.source = source, !.pc = pc] \in RequestStates
         /\ \A reply \in Outcomes : [x EXCEPT !.reply = reply, !.pc = pc] \in RequestStates
         /\ [x EXCEPT !.lost = TRUE, !.pc = pc] \in RequestStates
         /\ \A reply \in Outcomes :
              [x EXCEPT !.lost = TRUE, !.pc = pc, !.reply = reply] \in RequestStates
         /\ \A kind \in Kinds, identity \in Identities, before \in SUBSET Requests :
              [x EXCEPT !.pc = pc, !.kind = kind, !.identity = identity, !.before = before]
                \in RequestStates
  BY DEF RequestStates

(* As long as no chunk is written and no document becomes "indexed".       *)
LEMMA SameChunks ==
  ASSUME WholeSources, chunks' = chunks,
         \A d \in Requests : docs'[d] = "indexed" <=> docs[d] = "indexed"
  PROVE  WholeSources'
  BY DEF WholeSources

(* A request keeps what it saw at its start.                               *)
LEMMA SeenStays ==
  ASSUME TypeOK, NEW s \in Requests, Step(s), Guarded(s), req[s].kind \in Searchable
  PROVE  \A d \in req[s].before :
           /\ d \in Requests
           /\ docs'[d] = "indexed"
           /\ req'[d].kind = req[s].kind
           /\ req'[d].identity = req[s].identity
  BY IndexedStays DEF Guarded, Indexed

------------------------------------------------------------------------------
(* One lemma per action.                                                   *)

LEMMA StartKeeps ==
  ASSUME IInv, NEW s \in Requests, NEW kind \in Kinds, NEW identity \in Identities,
         Start(s, kind, identity)
  PROVE  IInv'
<1>1. docs[s] = None
  BY IngestionAssumption DEF IInv, TypeOK, Local, Start, At
<1>a. /\ req' = [req EXCEPT ![s] = req'[s]]
      /\ req'[s] = [req[s] EXCEPT !.pc = First(kind), !.kind = kind, !.identity = identity,
                                  !.before = Indexed(kind, identity) \ {s}]
      /\ workflow' = [workflow EXCEPT ![s] = "running"]
  BY DEF IInv, TypeOK, Start
<1>b. req'[s] \in RequestStates
  <2>1. PICK pc \in Labels, before \in SUBSET Requests :
          pc = First(kind) /\ before = Indexed(kind, identity) \ {s}
    BY DEF First, Labels, Indexed
  <2>2. req[s] \in RequestStates
    BY DEF IInv, TypeOK
  <2>3. [req[s] EXCEPT !.pc = pc, !.kind = kind, !.identity = identity, !.before = before]
          \in RequestStates
    BY <2>2, RecordUpdates
  <2> QED BY <1>a, <2>1, <2>3
<1>2. Step(s)
  BY <1>1, <1>a, IngestionAssumption DEF IInv, TypeOK, Start, Step, Statuses
<1>3. TypeOK'
  BY <1>1, <1>a, <1>b, IngestionAssumption DEF IInv, TypeOK, Start, RequestStates, First
<1>4. WholeSources'
  BY SameChunks DEF IInv, Start
<1>5. Guarded(s)'
  <2>1. ASSUME NEW d \in Indexed(kind, identity), d # s
        PROVE  d \in Indexed(kind, identity)'
    BY <1>2, <2>1 DEF Indexed, Step
  <2>2. req'[s].before \subseteq Indexed(kind, identity)' /\ req'[s].kind = kind
        /\ req'[s].identity = identity
    BY <1>a, <2>1 DEF IInv, TypeOK, RequestStates
  <2>3. req'[s].pc \in {"guard", "parse"} /\ (req'[s].pc = "parse" => kind = "url" \/ kind = "text")
    BY <1>a DEF IInv, TypeOK, RequestStates, First, Kinds
  <2>4. docs'[s] = None
    BY <1>1 DEF Start
  <2> QED BY <2>2, <2>3, <2>4 DEF Guarded, Unguarded, Searchable, Indexed
<1>6. Local(s)'
  <2>1. /\ req'[s].pc \in {"guard", "parse"} /\ req'[s].kind = kind /\ req'[s].source = req[s].source
        /\ req'[s].reply = req[s].reply /\ (req'[s].pc = "guard" => kind \in Searchable)
    BY <1>a DEF IInv, TypeOK, RequestStates, First, Kinds, Searchable
  <2>2. req[s].source = None /\ req[s].reply = None /\ req[s].kind = None
    BY DEF IInv, Local, Start, At, Ended
  <2>3. docs'[s] = None /\ workflow'[s] = "running"
    BY <1>1, <1>a DEF Start, IInv, TypeOK
  <2> QED BY <1>5, <2>1, <2>2, <2>3, IngestionAssumption DEF Local, Ended, Reported, Outcomes, Statuses
<1> QED BY <1>2, <1>3, <1>4, <1>6, Preserved

(* A step that only moves the request to another label.                    *)
LEMMA MoveKeeps ==
  ASSUME IInv, NEW s \in Requests, NEW pc \in Labels \ {"new", "done"}, Goto(s, pc),
         UNCHANGED <<docs, chunks, workflow>>,
         req[s].pc \notin {"new", "done"},
         pc \in {"guard", "parse", "create"} => req[s].source = None,
         pc \in {"guard", "embed", "store", "undo"} => req[s].kind \in Searchable,
         pc \in {"embed", "store", "undo"} => docs[s] = "indexing",
         pc = "close" => Sound(s),
         pc = "fail" => docs[s] \in {None, "failed"},
         req[s].kind \in Searchable /\ ~Unguarded([req[s] EXCEPT !.pc = pc]) =>
           \/ req[s].before = {}
           \/ pc = "fail"
  PROVE  IInv'
<1>1. /\ req' = [req EXCEPT ![s] = req'[s]]
      /\ req'[s] = [req[s] EXCEPT !.pc = pc]
      /\ docs' = docs /\ chunks' = chunks /\ workflow' = workflow
  BY DEF IInv, TypeOK, Goto
<1>a. /\ req'[s].pc = pc /\ req'[s].kind = req[s].kind /\ req'[s].identity = req[s].identity
      /\ req'[s].source = req[s].source /\ req'[s].reply = req[s].reply
      /\ req'[s].before = req[s].before /\ req'[s].lost = req[s].lost
  BY <1>1 DEF IInv, TypeOK, RequestStates
<1>2. Step(s)
  BY <1>1, <1>a DEF IInv, TypeOK, Step
<1>3. TypeOK'
  <2>1. req'[s] \in RequestStates
    <3>1. req[s] \in RequestStates
      BY DEF IInv, TypeOK
    <3>2. [req[s] EXCEPT !.pc = pc] \in RequestStates
      BY <3>1, RecordUpdates
    <3> QED BY <1>1, <3>2
  <2>2. req' \in [Requests -> RequestStates]
    BY <1>1, <2>1 DEF IInv, TypeOK
  <2>3. ASSUME NEW r \in Requests
        PROVE  /\ req'[r].source = r <=> docs'[r] # None
               /\ req'[r].pc \in {"embed", "store", "undo"} => docs'[r] = "indexing"
    <3>1. CASE r = s
      BY ZenonT(30), <1>1, <1>a, <3>1 DEF IInv, TypeOK
    <3>2. CASE r # s
      BY <1>1, <1>2, <3>2 DEF IInv, TypeOK, Step
    <3> QED BY <3>1, <3>2
  <2> QED BY <1>1, <2>2, <2>3 DEF IInv, TypeOK
<1>4. WholeSources'
  BY <1>1, SameChunks DEF IInv
<1>5. Guarded(s)'
  BY <1>1, <1>a, <1>2, SeenStays DEF IInv, Local, Guarded, Unguarded, Indexed, TypeOK, RequestStates
<1>6. Sound(s) => Sound(s)'
  BY <1>a, <1>2, SoundStays DEF IInv
<1>7. ~Ended(req'[s], workflow'[s]) /\ req'[s].kind # None
  BY <1>1, <1>a DEF IInv, Local, Ended
<1>8. Reported(req'[s], workflow'[s]) => pc = "close"
  BY <1>a, <1>7, IngestionAssumption DEF Ended, Reported, Outcomes
<1>9. Local(s)'
  BY <1>1, <1>a, <1>5, <1>6, <1>7, <1>8, IngestionAssumption DEF Local, Ended, Outcomes, Statuses
<1> QED BY <1>2, <1>3, <1>4, <1>9, Preserved

LEMMA NoDuplicateKeeps ==
  ASSUME IInv, NEW s \in Requests, NoDuplicate(s)
  PROVE  IInv'
<1>1. req[s].pc = "guard" /\ req[s].kind \in Searchable /\ req[s].source = None
  BY DEF IInv, Local, NoDuplicate, At
<1>2. req[s].before = {}
  BY <1>1 DEF IInv, Local, NoDuplicate, Guarded
<1>3. PICK pc \in {"create", "parse"} : pc = AfterGuard(req[s].kind)
  BY DEF AfterGuard
<1> QED BY <1>1, <1>2, <1>3, MoveKeeps DEF NoDuplicate, Labels

LEMMA ParseKeeps ==
  ASSUME IInv, NEW s \in Requests, Parse(s)
  PROVE  IInv'
<1>1. req[s].pc = "parse" /\ req[s].source = None
  BY DEF IInv, Local, Parse, At
<1>2. PICK pc \in {"guard", "create"} : pc = AfterParse(req[s].kind)
  BY DEF AfterParse
<1>3. pc = "guard" <=> req[s].kind = "url"
  BY <1>2 DEF AfterParse
<1>4. req[s].kind \in Searchable /\ pc = "create" => req[s].before = {}
  BY <1>1, <1>3 DEF IInv, Local, Guarded, Unguarded
<1>5. pc = "guard" => Unguarded([req[s] EXCEPT !.pc = pc])
  BY DEF Unguarded, IInv, TypeOK, RequestStates
<1>6. pc = "guard" => req[s].kind \in Searchable
  BY <1>3 DEF Searchable, Kinds
<1> QED BY <1>1, <1>2, <1>4, <1>5, <1>6, MoveKeeps DEF Parse, Labels

LEMMA EmbedKeeps ==
  ASSUME IInv, NEW s \in Requests, Embed(s)
  PROVE  IInv'
<1>1. /\ req[s].pc = "embed" /\ docs[s] = "indexing"
      /\ req[s].kind \in Searchable /\ req[s].before = {}
  BY IngestionAssumption DEF IInv, TypeOK, Local, Guarded, Embed, At, Statuses
<1> QED BY <1>1, MoveKeeps DEF Embed, Labels

LEMMA StepFailsKeeps ==
  ASSUME IInv, NEW s \in Requests, StepFails(s)
  PROVE  IInv'
<1>1. PICK pc \in {"undo", "fail"} : pc = AfterFailure(s)
  BY DEF AfterFailure
<1>2. /\ pc = "undo" => req[s].source = s
      /\ pc = "fail" => req[s].source # s
  BY <1>1 DEF AfterFailure
<1>3. pc = "fail" => docs[s] = None
  BY <1>2 DEF IInv, TypeOK
<1>4. pc = "undo" => /\ docs[s] = "indexing" /\ req[s].kind \in Searchable
                     /\ req[s].before = {}
  <2>1. pc = "undo" => req[s].pc \in {"embed", "store"}
    BY <1>2, IngestionAssumption DEF StepFails, IInv, Local
  <2> QED BY <2>1, IngestionAssumption DEF IInv, TypeOK, Local, Guarded, Statuses
<1> QED BY <1>1, <1>3, <1>4, MoveKeeps DEF StepFails, Labels

(* A step that changes the record, the document and the audit of a request *)
(* that has begun.                                                         *)
LEMMA ChangeKeeps ==
  ASSUME IInv, NEW s \in Requests, NEW x \in RequestStates,
         NEW status \in Statuses \cup {None},
         NEW audit \in {None, "running", "succeeded", "failed"},
         req' = [req EXCEPT ![s] = x],
         docs' = [docs EXCEPT ![s] = status],
         workflow' = [workflow EXCEPT ![s] = audit],
         chunks' \subseteq [doc : Requests, part : Parts],
         x.kind = req[s].kind, x.identity = req[s].identity, x.before = req[s].before,
         docs[s] \in {"indexed", "parsed"} => status = docs[s],
         x.source = s <=> status # None,
         x.pc \in {"embed", "store", "undo"} => status = "indexing",
         status # docs[s] /\ req[s].kind \in Searchable => req[s].before = {},
         x.pc \in {"guard", "parse", "create", "new"} => x.pc = req[s].pc,
         WholeSources',
         Step(s) /\ Guarded(s)' => Local(s)'
  PROVE  IInv'
<1>1. req'[s] = x /\ docs'[s] = status /\ workflow'[s] = audit
  BY DEF IInv, TypeOK
<1>2. Step(s)
  BY <1>1 DEF IInv, TypeOK, Step
<1>3. TypeOK'
  <2>1. ASSUME NEW r \in Requests
        PROVE  /\ req'[r].source = r <=> docs'[r] # None
               /\ req'[r].pc \in {"embed", "store", "undo"} => docs'[r] = "indexing"
    <3>1. CASE r = s
      BY <1>1, <3>1
    <3>2. CASE r # s
      BY <1>2, <3>2 DEF IInv, TypeOK, Step
    <3> QED BY <3>1, <3>2
  <2> QED BY <2>1 DEF IInv, TypeOK
<1>4. Guarded(s)'
  BY <1>1, <1>2, SeenStays DEF IInv, Local, Guarded, Unguarded, Indexed, TypeOK
<1> QED BY <1>2, <1>3, <1>4, Preserved

LEMMA DuplicateKeeps ==
  ASSUME IInv, NEW s \in Requests, Duplicate(s)
  PROVE  IInv'
<1>1. req[s].pc = "guard" /\ req[s].kind \in Searchable /\ req[s].source = None /\ docs[s] = None
  BY IngestionAssumption DEF IInv, TypeOK, Local, Duplicate, At
<1>2. PICK d \in Indexed(req[s].kind, req[s].identity) : Holding(s, d, "close")
  BY DEF Duplicate
<1>3. d \in Requests /\ d # s /\ docs[d] = "indexed"
      /\ req[d].kind = req[s].kind /\ req[d].identity = req[s].identity
  BY <1>1, <1>2, IngestionAssumption DEF Indexed, Statuses
<1> DEFINE x == [req[s] EXCEPT !.source = d, !.pc = "close"]
<1>4. x \in RequestStates
  <2>1. req[s] \in RequestStates
    BY DEF IInv, TypeOK
  <2> QED BY <1>3, <2>1, RecordUpdates DEF Labels
<1>5. /\ x.pc = "close" /\ x.source = d /\ x.kind = req[s].kind /\ x.identity = req[s].identity
      /\ x.reply = req[s].reply /\ x.before = req[s].before /\ x.lost = req[s].lost
  BY DEF IInv, TypeOK, RequestStates
<1>6. req' = [req EXCEPT ![s] = x] /\ req'[s] = x
  BY <1>2 DEF Holding, IInv, TypeOK
<1>7. /\ docs' = [docs EXCEPT ![s] = None] /\ workflow' = [workflow EXCEPT ![s] = workflow[s]]
      /\ docs' = docs /\ workflow' = workflow /\ chunks' = chunks
  BY <1>1 DEF Duplicate, IInv, TypeOK
<1>8. WholeSources'
  BY <1>7, SameChunks DEF IInv
<1>9. ASSUME Guarded(s)' PROVE Local(s)'
  <2>1. Sound(s)'
    BY <1>1, <1>3, <1>5, <1>6, <1>7, IngestionAssumption DEF Sound, IInv, TypeOK
  <2>2. ~Ended(x, workflow[s]) /\ req[s].kind # None
    BY <1>1, <1>5 DEF IInv, Local, Ended
  <2> QED BY <1>1, <1>5, <1>6, <1>7, <1>9, <2>1, <2>2, IngestionAssumption
          DEF Local, Ended, Outcomes, Statuses
<1>a. workflow[s] \in {None, "running", "succeeded", "failed"} /\ None \in Statuses \cup {None}
      /\ "indexed" \in Statuses /\ "indexing" \in Statuses /\ "parsed" \in Statuses
  BY DEF IInv, TypeOK, Statuses
<1>b. chunks' \subseteq [doc : Requests, part : Parts]
  BY <1>7 DEF IInv, TypeOK
<1>c. x.source # s /\ x.pc \notin {"embed", "store", "undo", "guard", "parse", "create", "new"}
  BY <1>3, <1>5
<1>d. PICK status \in Statuses \cup {None} : status = None /\ docs' = [docs EXCEPT ![s] = status]
  BY <1>7
<1>e. status = docs[s] /\ (x.source = s <=> status # None)
  BY <1>1, <1>c, <1>d
<1> HIDE DEF x
<1>f. PICK audit \in {None, "running", "succeeded", "failed"} : workflow' = [workflow EXCEPT ![s] = audit]
  BY <1>7, <1>a
<1>g. x.kind = req[s].kind /\ x.identity = req[s].identity /\ x.before = req[s].before
  BY <1>5
<1> QED BY <1>4, <1>6, <1>8, <1>9, <1>b, <1>c, <1>d, <1>e, <1>f, <1>g, ChangeKeeps

LEMMA CreateKeeps ==
  ASSUME IInv, NEW s \in Requests, Create(s)
  PROVE  IInv'
<1>1. req[s].pc = "create" /\ req[s].source = None /\ docs[s] = None /\ req[s].kind # None
  BY IngestionAssumption DEF IInv, TypeOK, Local, Create, At
<1>2. PICK status \in {"indexing", "parsed"}, pc \in {"embed", "close"} :
        /\ docs' = [docs EXCEPT ![s] = status] /\ Holding(s, s, pc)
        /\ IF req[s].kind \in Searchable THEN status = "indexing" /\ pc = "embed"
                                         ELSE status = "parsed" /\ pc = "close"
  BY DEF Create, NewStatus
<1> DEFINE x == [req[s] EXCEPT !.source = s, !.pc = pc]
<1>4. x \in RequestStates
  <2>1. req[s] \in RequestStates
    BY DEF IInv, TypeOK
  <2> QED BY <2>1, RecordUpdates DEF Labels
<1>5. /\ x.pc = pc /\ x.source = s /\ x.kind = req[s].kind /\ x.identity = req[s].identity
      /\ x.reply = req[s].reply /\ x.before = req[s].before /\ x.lost = req[s].lost
  BY DEF IInv, TypeOK, RequestStates
<1>6. req' = [req EXCEPT ![s] = x] /\ req'[s] = x
  BY <1>2 DEF Holding, IInv, TypeOK
<1>7. /\ docs'[s] = status /\ workflow' = [workflow EXCEPT ![s] = workflow[s]]
      /\ workflow' = workflow /\ chunks' = chunks
  BY <1>2 DEF Create, IInv, TypeOK
<1>8. WholeSources'
  BY <1>1, <1>2, <1>7, IngestionAssumption, SameChunks DEF IInv, TypeOK, Statuses
<1>9. req[s].kind \in Searchable => req[s].before = {}
  BY <1>1 DEF IInv, Local, Guarded, Unguarded
<1>10. ASSUME Guarded(s)' PROVE Local(s)'
  <2>1. pc = "close" => Sound(s)'
    BY <1>1, <1>2, <1>5, <1>6, <1>7, IngestionAssumption DEF Sound, IInv, TypeOK
  <2>2. ~Ended(x, workflow[s])
    BY <1>1, <1>5 DEF IInv, Local, Ended
  <2> QED BY <1>1, <1>2, <1>5, <1>6, <1>7, <1>10, <2>1, <2>2, IngestionAssumption
          DEF Local, Ended, Reported, Outcomes, Statuses
<1>a. workflow[s] \in {None, "running", "succeeded", "failed"} /\ None \in Statuses \cup {None}
      /\ "indexed" \in Statuses /\ "indexing" \in Statuses /\ "parsed" \in Statuses
  BY DEF IInv, TypeOK, Statuses
<1>b. chunks' \subseteq [doc : Requests, part : Parts]
  BY <1>7 DEF IInv, TypeOK
<1>c. status # None
  BY IngestionAssumption DEF Statuses
<1>d. docs[s] \notin {"indexed", "parsed"}
  BY <1>1, IngestionAssumption DEF Statuses
<1> HIDE DEF x
<1> QED BY <1>1, <1>2, <1>4, <1>5, <1>6, <1>7, <1>8, <1>9, <1>10, <1>a, <1>b, <1>c, <1>d, ChangeKeeps

LEMMA StoreKeeps ==
  ASSUME IInv, NEW s \in Requests, Store(s)
  PROVE  IInv'
<1>1. /\ req[s].pc = "store" /\ req[s].source = s /\ docs[s] = "indexing"
      /\ req[s].kind \in Searchable /\ req[s].before = {}
  BY IngestionAssumption DEF IInv, TypeOK, Local, Guarded, Store, At, Statuses
<1> DEFINE x == [req[s] EXCEPT !.pc = "close"]
<1>4. x \in RequestStates
  <2>1. req[s] \in RequestStates
    BY DEF IInv, TypeOK
  <2> QED BY <2>1, RecordUpdates DEF Labels
<1>5. /\ x.pc = "close" /\ x.source = s /\ x.kind = req[s].kind /\ x.identity = req[s].identity
      /\ x.reply = req[s].reply /\ x.before = req[s].before /\ x.lost = req[s].lost
  BY <1>1 DEF IInv, TypeOK, RequestStates
<1>6. req' = [req EXCEPT ![s] = x] /\ req'[s] = x
  BY DEF Store, Goto, IInv, TypeOK
<1>7. /\ docs' = [docs EXCEPT ![s] = "indexed"] /\ docs'[s] = "indexed"
      /\ workflow' = [workflow EXCEPT ![s] = workflow[s]] /\ workflow' = workflow
      /\ chunks' = {c \in chunks : c.doc # s} \cup [doc : {s}, part : Parts]
  BY DEF Store, IInv, TypeOK
<1>8. WholeSources'
  <2>1. ASSUME NEW d \in Requests
        PROVE  {c \in chunks' : c.doc = d}
                 = IF docs'[d] = "indexed" THEN [doc : {d}, part : Parts] ELSE {}
    <3>1. CASE d = s
      BY <1>7, <3>1
    <3>2. CASE d # s
      <4>1. {c \in chunks' : c.doc = d} = {c \in chunks : c.doc = d}
        BY <1>7, <3>2
      <4>2. docs'[d] = docs[d]
        BY <1>7, <3>2 DEF IInv, TypeOK
      <4> QED BY <4>1, <4>2 DEF IInv, WholeSources
    <3> QED BY <3>1, <3>2
  <2> QED BY <2>1 DEF WholeSources
<1>9. chunks' \subseteq [doc : Requests, part : Parts]
  BY <1>7 DEF IInv, TypeOK
<1>10. ASSUME Guarded(s)' PROVE Local(s)'
  <2>1. Sound(s)'
    BY <1>1, <1>5, <1>6, <1>7, IngestionAssumption DEF Sound
  <2>2. ~Ended(x, workflow[s]) /\ req[s].kind # None
    BY <1>1, <1>5 DEF IInv, Local, Ended
  <2> QED BY <1>1, <1>5, <1>6, <1>7, <1>10, <2>1, <2>2, IngestionAssumption
          DEF Local, Ended, Outcomes, Statuses
<1>a. workflow[s] \in {None, "running", "succeeded", "failed"} /\ None \in Statuses \cup {None}
      /\ "indexed" \in Statuses /\ "indexing" \in Statuses /\ "parsed" \in Statuses
  BY DEF IInv, TypeOK, Statuses
<1>c. "indexed" # None
  BY IngestionAssumption DEF Statuses
<1> HIDE DEF x
<1> QED BY <1>1, <1>4, <1>5, <1>6, <1>7, <1>8, <1>9, <1>10, <1>a, <1>c, ChangeKeeps

(* A step that leaves documents and chunks alone: an answer, the audit of  *)
(* a failure, a crash.                                                     *)
LEMMA FinishKeeps ==
  ASSUME IInv, NEW s \in Requests, NEW x \in RequestStates,
         NEW audit \in {None, "running", "succeeded", "failed"},
         req' = [req EXCEPT ![s] = x],
         workflow' = [workflow EXCEPT ![s] = audit],
         UNCHANGED <<docs, chunks>>,
         x.kind = req[s].kind, x.identity = req[s].identity, x.before = req[s].before,
         x.source = req[s].source, x.pc \in {"fail", "done"},
         Step(s) /\ Guarded(s)' => Local(s)'
  PROVE  IInv'
<1>1. PICK status \in Statuses \cup {None} : status = docs[s]
  BY DEF IInv, TypeOK
<1>2. docs' = [docs EXCEPT ![s] = status]
  BY <1>1 DEF IInv, TypeOK
<1>3. x.source = s <=> status # None
  BY <1>1 DEF IInv, TypeOK
<1>4. WholeSources'
  BY SameChunks DEF IInv
<1>5. chunks' \subseteq [doc : Requests, part : Parts]
  BY DEF IInv, TypeOK
<1> QED BY <1>1, <1>2, <1>3, <1>4, <1>5, ChangeKeeps

LEMMA CloseKeeps ==
  ASSUME IInv, NEW s \in Requests, Close(s)
  PROVE  IInv'
<1>1. req[s].pc = "close" /\ req[s].kind # None /\ Sound(s) /\ ~Ended(req[s], workflow[s])
  BY DEF IInv, Local, Close, At, Reported
<1>2. PICK reply \in {"succeeded", "already_indexed", "not_audited"},
           audit \in {"succeeded", workflow[s]} :
        /\ Answer(s, reply)
        /\ workflow' = [workflow EXCEPT ![s] = audit]
  BY DEF Close, IInv, TypeOK
<1> DEFINE x == [req[s] EXCEPT !.reply = reply, !.pc = "done"]
<1>3. x \in RequestStates
  <2>1. req[s] \in RequestStates
    BY DEF IInv, TypeOK
  <2> QED BY <2>1, RecordUpdates DEF Labels, Outcomes
<1>4. /\ x.pc = "done" /\ x.source = req[s].source /\ x.kind = req[s].kind
      /\ x.identity = req[s].identity /\ x.reply = reply /\ x.before = req[s].before
  BY DEF IInv, TypeOK, RequestStates
<1>5. req' = [req EXCEPT ![s] = x] /\ req'[s] = x
  BY <1>2 DEF Answer, IInv, TypeOK
<1>6. workflow'[s] = audit /\ audit \in {None, "running", "succeeded", "failed"}
  BY <1>2 DEF IInv, TypeOK
<1>7. docs' = docs /\ chunks' = chunks
  BY DEF Close
<1>8. docs[s] # "indexing"
  BY <1>1, IngestionAssumption DEF Sound, IInv, TypeOK, Statuses
<1>9. ASSUME Step(s), Guarded(s)' PROVE Local(s)'
  <2>1. Sound(s)'
    BY <1>1, <1>4, <1>5, <1>9, SoundStays DEF IInv
  <2>2. audit # "failed"
    BY <1>1, <1>2 DEF Ended
  <2> QED BY <1>1, <1>4, <1>5, <1>6, <1>7, <1>8, <1>9, <2>1, <2>2, IngestionAssumption
          DEF Local, Ended
<1> HIDE DEF x
<1> QED BY <1>2, <1>3, <1>4, <1>5, <1>6, <1>7, <1>9, FinishKeeps

LEMMA UndoKeeps ==
  ASSUME IInv, NEW s \in Requests, Undo(s)
  PROVE  IInv'
<1>1. /\ req[s].pc = "undo" /\ req[s].kind # None /\ docs[s] = "indexing"
      /\ req[s].kind \in Searchable /\ req[s].before = {} /\ req[s].source = s
      /\ ~Ended(req[s], workflow[s])
  BY IngestionAssumption DEF IInv, TypeOK, Local, Guarded, Undo, At, Statuses
<1> DEFINE x == [req[s] EXCEPT !.pc = "fail"]
<1>2. x \in RequestStates
  <2>1. req[s] \in RequestStates
    BY DEF IInv, TypeOK
  <2> QED BY <2>1, RecordUpdates DEF Labels
<1>3. /\ x.pc = "fail" /\ x.source = s /\ x.kind = req[s].kind /\ x.identity = req[s].identity
      /\ x.reply = req[s].reply /\ x.before = req[s].before
  BY <1>1 DEF IInv, TypeOK, RequestStates
<1>4. req' = [req EXCEPT ![s] = x] /\ req'[s] = x
  BY DEF Undo, Goto, IInv, TypeOK
<1>5. docs' = [docs EXCEPT ![s] = "failed"] /\ docs'[s] = "failed" /\ chunks' = chunks
  BY DEF Undo, IInv, TypeOK
<1>6. PICK audit \in {None, "running", "succeeded", "failed"} :
        audit = workflow[s] /\ workflow' = [workflow EXCEPT ![s] = audit]
  BY DEF Undo, IInv, TypeOK
<1>7. WholeSources'
  BY <1>1, <1>5, SameChunks DEF IInv, TypeOK
<1>8. chunks' \subseteq [doc : Requests, part : Parts]
  BY <1>5 DEF IInv, TypeOK
<1>9. ASSUME Guarded(s)' PROVE Local(s)'
  <2>1. workflow'[s] = workflow[s]
    BY DEF Undo
  <2> QED BY <1>1, <1>3, <1>4, <1>5, <1>9, <2>1, IngestionAssumption
          DEF Local, Ended, Reported, Outcomes
<1>a. "failed" \in Statuses /\ "failed" # None
  BY IngestionAssumption DEF Statuses
<1> HIDE DEF x
<1> QED BY <1>1, <1>2, <1>3, <1>4, <1>5, <1>6, <1>7, <1>8, <1>9, <1>a, ChangeKeeps

LEMMA UndoFailsKeeps ==
  ASSUME IInv, NEW s \in Requests, UndoFails(s)
  PROVE  IInv'
<1>1. /\ req[s].pc = "undo" /\ req[s].kind # None /\ docs[s] = "indexing"
      /\ ~Ended(req[s], workflow[s])
  BY IngestionAssumption DEF IInv, TypeOK, Local, UndoFails, At
<1>2. PICK x \in RequestStates :
        /\ req' = [req EXCEPT ![s] = x]
        /\ x.pc \in {"fail", "done"} /\ x.lost = TRUE /\ x.source = req[s].source
        /\ x.kind = req[s].kind /\ x.identity = req[s].identity /\ x.before = req[s].before
        /\ x.reply \in {req[s].reply, "error"} /\ (x.pc = "fail" => x.reply = req[s].reply)
  <2>1. req[s] \in RequestStates
    BY DEF IInv, TypeOK
  <2>2. CASE req[s].kind = "image"
    <3>1. [req[s] EXCEPT !.lost = TRUE, !.pc = "done", !.reply = "error"] \in RequestStates
      BY <2>1, RecordUpdates DEF Labels, Outcomes
    <3> QED BY <2>1, <2>2, <3>1 DEF UndoFails, RequestStates
  <2>3. CASE req[s].kind # "image"
    <3>1. [req[s] EXCEPT !.lost = TRUE, !.pc = "fail"] \in RequestStates
      BY <2>1, RecordUpdates DEF Labels
    <3> QED BY <2>1, <2>3, <3>1 DEF UndoFails, RequestStates
  <2> QED BY <2>2, <2>3
<1>3. req'[s] = x
  BY <1>2 DEF IInv, TypeOK
<1>4. PICK audit \in {None, "running", "succeeded", "failed"} :
        audit = workflow[s] /\ workflow' = [workflow EXCEPT ![s] = audit]
  BY DEF UndoFails, IInv, TypeOK
<1>5. UNCHANGED <<docs, chunks>> /\ workflow'[s] = workflow[s]
  BY DEF UndoFails
<1>6. ASSUME Guarded(s)' PROVE Local(s)'
  BY <1>1, <1>2, <1>3, <1>5, <1>6, IngestionAssumption DEF Local, Ended, Reported, Outcomes
<1> QED BY <1>2, <1>4, <1>5, <1>6, FinishKeeps

LEMMA FailKeeps ==
  ASSUME IInv, NEW s \in Requests, Fail(s)
  PROVE  IInv'
<1>1. /\ req[s].pc = "fail" /\ req[s].kind # None /\ ~Ended(req[s], workflow[s])
      /\ docs[s] \in {None, "indexing", "failed"} /\ (docs[s] = "indexing" => req[s].lost)
  BY DEF IInv, Local, Fail, At
<1>2. PICK audit \in {workflow[s], "failed"} : workflow' = [workflow EXCEPT ![s] = audit]
  BY DEF Fail, IInv, TypeOK
<1> DEFINE x == [req[s] EXCEPT !.reply = "error", !.pc = "done"]
<1>3. x \in RequestStates
  <2>1. req[s] \in RequestStates
    BY DEF IInv, TypeOK
  <2> QED BY <2>1, RecordUpdates DEF Labels, Outcomes
<1>4. /\ x.pc = "done" /\ x.source = req[s].source /\ x.kind = req[s].kind
      /\ x.identity = req[s].identity /\ x.reply = "error" /\ x.before = req[s].before
      /\ x.lost = req[s].lost
  BY DEF IInv, TypeOK, RequestStates
<1>5. req' = [req EXCEPT ![s] = x] /\ req'[s] = x
  BY DEF Fail, Answer, IInv, TypeOK
<1>6. workflow'[s] = audit /\ audit \in {None, "running", "succeeded", "failed"}
  BY <1>2 DEF IInv, TypeOK
<1>7. UNCHANGED <<docs, chunks>>
  BY DEF Fail
<1>8. ASSUME Guarded(s)' PROVE Local(s)'
  BY <1>1, <1>2, <1>4, <1>5, <1>6, <1>7, <1>8, IngestionAssumption DEF Local, Ended, Reported
<1> HIDE DEF x
<1> QED BY <1>2, <1>3, <1>4, <1>5, <1>6, <1>7, <1>8, FinishKeeps

LEMMA CrashKeeps ==
  ASSUME IInv, NEW s \in Requests, Crash(s)
  PROVE  IInv'
<1>1. /\ req[s].pc \notin {"new", "done"} /\ req[s].kind # None
      /\ ~Ended(req[s], workflow[s])
  BY DEF IInv, Local, Crash
<1> DEFINE x == [req[s] EXCEPT !.lost = TRUE, !.pc = "done"]
<1>2. x \in RequestStates
  <2>1. req[s] \in RequestStates
    BY DEF IInv, TypeOK
  <2> QED BY <2>1, RecordUpdates DEF Labels
<1>3. /\ x.pc = "done" /\ x.source = req[s].source /\ x.kind = req[s].kind
      /\ x.identity = req[s].identity /\ x.reply = req[s].reply /\ x.before = req[s].before
      /\ x.lost = TRUE
  BY DEF IInv, TypeOK, RequestStates
<1>4. req' = [req EXCEPT ![s] = x] /\ req'[s] = x
  BY DEF Crash, IInv, TypeOK
<1>5. PICK audit \in {None, "running", "succeeded", "failed"} :
        audit = workflow[s] /\ workflow' = [workflow EXCEPT ![s] = audit]
  BY DEF Crash, IInv, TypeOK
<1>6. UNCHANGED <<docs, chunks>> /\ workflow'[s] = workflow[s]
  BY DEF Crash
<1>7. ASSUME Guarded(s)' PROVE Local(s)'
  BY <1>1, <1>3, <1>4, <1>6, <1>7, IngestionAssumption DEF Local, Ended, Reported, Outcomes
<1> HIDE DEF x
<1> QED BY <1>2, <1>3, <1>4, <1>5, <1>6, <1>7, FinishKeeps

------------------------------------------------------------------------------

LEMMA NextKeeps ==
  ASSUME IInv, [Next]_vars
  PROVE  IInv'
<1>1. CASE Next
  <2> PICK s \in Requests :
        \/ \E kind \in Kinds, identity \in Identities : Start(s, kind, identity)
        \/ Duplicate(s) \/ NoDuplicate(s) \/ Parse(s) \/ Create(s) \/ Embed(s) \/ Store(s)
        \/ Close(s) \/ StepFails(s) \/ Undo(s) \/ UndoFails(s) \/ Fail(s) \/ Crash(s)
    BY <1>1 DEF Next
  <2>1. ASSUME NEW kind \in Kinds, NEW identity \in Identities, Start(s, kind, identity)
        PROVE  IInv'
    BY <2>1, StartKeeps
  <2>2. CASE Duplicate(s)
    BY <2>2, DuplicateKeeps
  <2>3. CASE NoDuplicate(s)
    BY <2>3, NoDuplicateKeeps
  <2>4. CASE Parse(s)
    BY <2>4, ParseKeeps
  <2>5. CASE Create(s)
    BY <2>5, CreateKeeps
  <2>6. CASE Embed(s)
    BY <2>6, EmbedKeeps
  <2>7. CASE Store(s)
    BY <2>7, StoreKeeps
  <2>8. CASE Close(s)
    BY <2>8, CloseKeeps
  <2>9. CASE StepFails(s)
    BY <2>9, StepFailsKeeps
  <2>10. CASE Undo(s)
    BY <2>10, UndoKeeps
  <2>11. CASE UndoFails(s)
    BY <2>11, UndoFailsKeeps
  <2>12. CASE Fail(s)
    BY <2>12, FailKeeps
  <2>13. CASE Crash(s)
    BY <2>13, CrashKeeps
  <2> QED BY <2>1, <2>2, <2>3, <2>4, <2>5, <2>6, <2>7, <2>8, <2>9, <2>10, <2>11, <2>12, <2>13
<1>2. CASE UNCHANGED vars
  BY <1>2 DEF vars, IInv, TypeOK, WholeSources, Local, Reported, Sound, Unguarded, Guarded,
              Indexed, Ended
<1> QED BY <1>1, <1>2

LEMMA Invariance == Spec => []IInv
  BY InitInvariant, NextKeeps, PTL DEF Spec

(* Every variable keeps its shape, and a request has a document exactly    *)
(* while it works on one: what the later steps of the orchestrators read.  *)
THEOREM TypeCorrect == Spec => []TypeOK
  BY Invariance, PTL DEF IInv

(* Whatever fails, crashes or runs at the same time, a document is         *)
(* "indexed" exactly when all its chunks are stored, and none other has    *)
(* any: retrieval sees whole sources or nothing.                           *)
THEOREM SourcesWhole == Spec => []WholeSources
  BY Invariance, PTL DEF IInv

(* What the client and the audit were told of an ingestion stays true.     *)
THEOREM RepliesAreTrue == Spec => []RepliesHold
<1>1. IInv => RepliesHold
  BY DEF IInv, Local, Reported, Sound, RepliesHold
<1> QED BY <1>1, Invariance, PTL

(* The lookup before storing keeps a source that was indexed when the      *)
(* request began from being stored again.                                  *)
THEOREM GuardWorks == Spec => []GuardHolds
<1>1. IInv => GuardHolds
  BY DEF IInv, Local, Guarded, GuardHolds
<1> QED BY <1>1, Invariance, PTL

(* Only a crash or a failing database leaves a document in "indexing"      *)
(* behind a request that has ended: the handlers undo in every other case. *)
THEOREM OrphansExplained == Spec => []NoSilentOrphan
<1>1. IInv => NoSilentOrphan
  BY DEF IInv, Local, NoSilentOrphan, At
<1> QED BY <1>1, Invariance, PTL

(* No source is stored a second time and none is left half done unseen.    *)
THEOREM EverySourceAccounted == Spec => []SourcesAccounted
  BY GuardWorks, OrphansExplained, PTL DEF SourcesAccounted

------------------------------------------------------------------------------
(***************************************************************************)
(* SourceIndexing, with its text, batches and vectors, implements          *)
(* KnowledgeIngestion: every step of it is a step of KnowledgeIngestion or *)
(* leaves its variables alone.  What is proved of the one therefore holds  *)
(* of the other.                                                           *)
(***************************************************************************)

(* A step that carries the text along is a step of the request.            *)
LEMMA IndexingStep ==
  ASSUME NEW r \in Requests,
         ParseText(r) \/ CreateAndChunk(r) \/ StoreRows(r) \/ Ends(r) \/ Elsewhere(r)
  PROVE  Next
<1>1. CASE ParseText(r)
  BY <1>1 DEF ParseText, Next
<1>2. CASE CreateAndChunk(r)
  BY <1>2 DEF CreateAndChunk, Next
<1>3. CASE StoreRows(r)
  BY <1>3 DEF StoreRows, Next
<1>4. CASE Ends(r)
  BY <1>4 DEF Ends, Next
<1>5. CASE Elsewhere(r)
  BY <1>5 DEF Elsewhere, Next
<1>6. QED
  BY <1>1, <1>2, <1>3, <1>4, <1>5

(* A batch that arrives is the end of embedding or no step at all; one     *)
(* that is retried is none.                                                *)
LEMMA BatchStep ==
  ASSUME NEW r \in Requests, BatchArrives(r) \/ BatchRetried(r)
  PROVE  [Next]_vars
<1>1. CASE BatchArrives(r)
  <2>1. CASE LastBatch(r)
    BY <1>1, <2>1 DEF BatchArrives, Next
  <2>2. CASE ~LastBatch(r)
    BY <1>1, <2>2 DEF BatchArrives
  <2>3. QED
    BY <2>1, <2>2
<1>2. CASE BatchRetried(r)
  BY <1>2 DEF BatchRetried
<1>3. QED
  BY <1>1, <1>2

(* Indexing the text of a source, batch by batch and with retries, is what *)
(* KnowledgeIngestion calls ingesting it.                                  *)
THEOREM ImplementsIngestion == IndexingSpec => Spec
<1>1. IndexingInit => Init
  BY DEF IndexingInit
<1>2. [IndexingNext]_indexingVars => [Next]_vars
  <2>1. CASE IndexingNext
    <3>1. PICK r \in Requests :
            \/ ParseText(r) \/ CreateAndChunk(r) \/ BatchArrives(r) \/ BatchRetried(r)
            \/ StoreRows(r) \/ Ends(r) \/ Elsewhere(r)
      BY <2>1 DEF IndexingNext
    <3>2. CASE BatchArrives(r) \/ BatchRetried(r)
      BY <3>2, BatchStep
    <3>3. CASE ~(BatchArrives(r) \/ BatchRetried(r))
      BY <3>1, <3>3, IndexingStep
    <3>4. QED
      BY <3>2, <3>3
  <2>2. CASE UNCHANGED indexingVars
    BY <2>2 DEF indexingVars
  <2>3. QED
    BY <2>1, <2>2
<1>3. QED
  BY <1>1, <1>2, PTL DEF IndexingSpec, Spec

(* Nothing of a half-indexed source can be retrieved, whatever the         *)
(* provider answers and however often a batch is retried.                  *)
THEOREM WholeSourcesIndexed == IndexingSpec => []WholeSources
BY ImplementsIngestion, SourcesWhole, PTL

------------------------------------------------------------------------------
(***************************************************************************)
(* The text.  Cutting a text into chunks, and chunks into batches, loses   *)
(* nothing and changes no order: a split holds at every moment the words   *)
(* it was given so far.                                                    *)
(***************************************************************************)

Words == [page : Nat, at : Nat, len : Nat \ {0}, mark : Nat]

Pieces ==
  {piece \in [page : Nat, at : Nat, from : Nat, upto : Nat] : piece.from <= piece.upto + 1}

(* Chunks within the size limit.                                           *)
Chunks == {chunk \in Seq(Pieces) : Length(chunk) <= MaxChunk}

(* Letters of a source: page, word, and place in the word.                 *)
Places == Nat \X Nat \X Nat

Run(page, at, from, n) == [k \in 1..n |-> <<page, at, from + k - 1>>]

LettersOf ==
  [piece \in Pieces |-> Run(piece.page, piece.at, piece.from, piece.upto - piece.from + 1)]

Whole(w) == Piece(w, 1, w.len)

LEMMA WholePieces ==
  ASSUME NEW w \in Words
  PROVE  /\ Whole(w) \in Pieces /\ w.len \in Nat \ {0} /\ w.page \in Nat /\ w.at \in Nat
         /\ Whole(w).from = 1 /\ Whole(w).upto = w.len
         /\ Whole(w).page = w.page /\ Whole(w).at = w.at
BY DEF Words, Whole, Piece, Pieces

LEMMA LettersTyped == Maps(LettersOf, Pieces, Seq(Places))
<1>1. ASSUME NEW piece \in Pieces
      PROVE  [k \in 1..(piece.upto - piece.from + 1) |->
                <<piece.page, piece.at, piece.from + k - 1>>] \in Seq(Places)
  <2>1. /\ piece.page \in Nat /\ piece.at \in Nat /\ piece.from \in Nat /\ piece.upto \in Nat
        /\ piece.upto - piece.from + 1 \in Nat
    BY DEF Pieces
  <2>2. \A k \in 1..(piece.upto - piece.from + 1) :
          <<piece.page, piece.at, piece.from + k - 1>> \in Places
    BY <2>1 DEF Places
  <2> QED BY <2>1, <2>2, IsASeq
<1> QED BY <1>1 DEF Maps, LettersOf, Run

LEMMA LettersSpread ==
  ASSUME NEW s \in Seq(Pieces)
  PROVE  Letters(s) = Spread(LettersOf, s)
<1>1. \A i \in DOMAIN s : s[i] \in Pieces
  OBVIOUS
<1>2. [i \in DOMAIN s |-> [k \in 1..(s[i].upto - s[i].from + 1) |->
         <<s[i].page, s[i].at, s[i].from + k - 1>>]] = Applied(LettersOf, s)
  BY <1>1 DEF Applied, LettersOf, Run
<1> QED BY <1>2 DEF Letters, Spread

LEMMA LettersJoin ==
  ASSUME NEW s \in Seq(Pieces), NEW t \in Seq(Pieces)
  PROVE  Letters(s \o t) = Letters(s) \o Letters(t) /\ Letters(s) \in Seq(Places)
<1>1. s \o t \in Seq(Pieces)
  BY ConcatProperties
<1>2. Spread(LettersOf, s \o t) = Spread(LettersOf, s) \o Spread(LettersOf, t)
  BY LettersTyped, SpreadConcat
<1>3. Spread(LettersOf, s) \in Seq(Places)
  BY LettersTyped, SpreadTyped
<1>4. Letters(s \o t) = Spread(LettersOf, s \o t)
  BY <1>1, LettersSpread
<1> QED BY <1>2, <1>3, <1>4, LettersSpread

LEMMA LettersOfOne ==
  ASSUME NEW piece \in Pieces
  PROVE  Letters(<<piece>>) = LettersOf[piece] /\ LettersOf[piece] \in Seq(Places)
<1>1. <<piece>> \in Seq(Pieces)
  OBVIOUS
<1>2. LettersOf[piece] \in Seq(Places)
  BY LettersTyped DEF Maps
<1> QED BY <1>1, <1>2, LettersSpread, LettersTyped, SpreadOne

(* The length of a chunk one piece longer.                                 *)
LEMMA LengthGrows ==
  ASSUME NEW s \in Seq(Pieces), NEW piece \in Pieces
  PROVE  /\ Length(s) \in Nat /\ Length(<<>>) = 0
         /\ Length(Append(s, piece)) =
              Length(s) + (IF s = <<>> THEN 0 ELSE 1) + (piece.upto - piece.from + 1)
         /\ Length(<<piece>>) = piece.upto - piece.from + 1
<1> DEFINE size(x, i) == (IF i = 1 THEN 0 ELSE 1) + x.upto - x.from + 1
           lens(c) == [i \in DOMAIN c |-> size(c[i], i)]
           z == Append(s, piece)
           N == Len(s)
<1>1. ASSUME NEW x \in Pieces, NEW i \in Nat
      PROVE  size(x, i) \in Nat /\ size(x, i) = (IF i = 1 THEN 0 ELSE 1) + (x.upto - x.from + 1)
             /\ x.upto - x.from + 1 \in Nat
  BY DEF Pieces
<1>2. \A c : Length(c) = Total(lens(c))
  BY DEF Length
<1>3. Length(<<>>) = 0
  <2>1. lens(<<>>) = <<>>
    OBVIOUS
  <2> QED BY <1>2, <2>1, TotalEmpty
<1> HIDE DEF size
<1>4. ASSUME NEW c \in Seq(Pieces)
      PROVE  lens(c) \in Seq(Nat) /\ Len(lens(c)) = Len(c) /\ Len(c) \in Nat
             /\ \A i \in 1..Len(c) : lens(c)[i] = size(c[i], i)
  <2>1. DOMAIN c = 1..Len(c) /\ Len(c) \in Nat /\ \A i \in 1..Len(c) : c[i] \in Pieces /\ i \in Nat
    OBVIOUS
  <2>2. \A i \in 1..Len(c) : size(c[i], i) \in Nat
    BY <1>1, <2>1
  <2>3. [i \in 1..Len(c) |-> size(c[i], i)] \in Seq(Nat)
    BY <2>1, <2>2, IsASeq
  <2> QED BY <2>1, <2>3
<1> HIDE DEF lens
<1>5. /\ z \in Seq(Pieces) /\ Len(z) = N + 1 /\ N \in Nat
      /\ (\A n \in 1..N : n \in 1..Len(z) /\ z[n] = s[n]) /\ z[N + 1] = piece
  BY AppendKeeps
<1> HIDE DEF z, N
<1>6. lens(z) = Append(lens(s), size(piece, N + 1))
  <2>1. lens(s) \in Seq(Nat) /\ size(piece, N + 1) \in Nat /\ Len(lens(s)) = N
    BY <1>1, <1>4, <1>5 DEF N
  <2>2. PICK u \in Seq(Nat) : u = lens(s)
    BY <2>1
  <2>3. PICK k \in Nat : k = size(piece, N + 1)
    BY <2>1
  <2>4. /\ Append(u, k) \in Seq(Nat) /\ Len(Append(u, k)) = Len(u) + 1
        /\ (\A n \in 1..Len(u) : Append(u, k)[n] = u[n]) /\ Append(u, k)[Len(u) + 1] = k
    BY AppendKeeps
  <2>5. lens(z) \in Seq(Nat) /\ Len(lens(z)) = N + 1 /\ \A i \in 1..N + 1 : lens(z)[i] = size(z[i], i)
    BY <1>4, <1>5
  <2>6. \A i \in 1..N : u[i] = size(s[i], i)
    BY <1>4, <2>2 DEF N
  <2>7. ASSUME NEW i \in 1..N + 1 PROVE lens(z)[i] = Append(u, k)[i]
    <3>1. CASE i = N + 1
      BY <1>5, <2>1, <2>2, <2>3, <2>4, <2>5, <3>1
    <3>2. CASE i # N + 1
      <4>1. i \in 1..N
        BY <1>5, <3>2
      <4> QED BY <1>5, <2>1, <2>2, <2>4, <2>5, <2>6, <4>1
    <3> QED BY <3>1, <3>2
  <2>8. lens(z) = Append(u, k)
    BY <2>1, <2>2, <2>4, <2>5, <2>7, SeqEqual
  <2> QED BY <2>2, <2>3, <2>8
<1>7. Total(lens(z)) = Total(lens(s)) + size(piece, N + 1) /\ Total(lens(s)) \in Nat
  <2>1. size(piece, N + 1) \in Nat /\ lens(s) \in Seq(Nat)
    BY <1>1, <1>4, <1>5
  <2> QED BY <1>6, <2>1, TotalAppend
<1>8. Length(<<piece>>) = piece.upto - piece.from + 1
  <2>1. lens(<<piece>>) = Append(<<>>, size(piece, 1))
    <3>1. size(piece, 1) \in Nat
      BY <1>1
    <3>2. lens(<<piece>>) = <<size(piece, 1)>>
      BY DEF lens
    <3> QED BY <3>1, <3>2
  <2>2. <<>> \in Seq(Nat) /\ size(piece, 1) \in Nat
    BY <1>1, EmptySeq
  <2>3. Total(lens(<<piece>>)) = 0 + size(piece, 1)
    BY <2>1, <2>2, TotalAppend, TotalEmpty
  <2> QED BY <1>1, <1>2, <2>2, <2>3
<1>9. N + 1 = 1 <=> s = <<>>
  BY <1>5, EmptySeq DEF N
<1>10. size(piece, N + 1) = (IF s = <<>> THEN 0 ELSE 1) + (piece.upto - piece.from + 1)
  BY <1>1, <1>5, <1>9
<1>11. Length(s) = Total(lens(s)) /\ Length(z) = Total(lens(z))
  BY <1>2
<1>12. /\ piece.upto - piece.from + 1 \in Nat
       /\ Length(z) = Length(s) + ((IF s = <<>> THEN 0 ELSE 1) + (piece.upto - piece.from + 1))
       /\ Length(s) \in Nat
  BY <1>1, <1>7, <1>10, <1>11
<1>13. Length(z) = Length(s) + (IF s = <<>> THEN 0 ELSE 1) + (piece.upto - piece.from + 1)
  <2>1. PICK a, b : a = Length(s) /\ b = piece.upto - piece.from + 1
    OBVIOUS
  <2>2. a \in Nat /\ b \in Nat /\ Length(z) = a + ((IF s = <<>> THEN 0 ELSE 1) + b)
    BY <1>12, <2>1
  <2>3. Length(z) = a + (IF s = <<>> THEN 0 ELSE 1) + b
    BY <2>2
  <2> QED BY <2>1, <2>3
<1> QED BY <1>3, <1>8, <1>12, <1>13 DEF z

------------------------------------------------------------------------------
(* Splitting.                                                              *)

(* What a split holds: its finished lists and the open one.                *)
Splits(C) == [done : Seq(C), open : C]

Held(split) == FlattenSeq(split.done) \o split.open

LEMMA ClosedHolds ==
  ASSUME NEW S, NEW C, C \subseteq Seq(S), NEW split, split \in Splits(C)
  PROVE  /\ Closed(split) \in Seq(C)
         /\ FlattenSeq(Closed(split)) = Held(split) /\ Held(split) \in Seq(S)
         /\ split.done # <<>> \/ split.open # <<>> => Closed(split) # <<>>
<1>1. split.done \in Seq(C) /\ split.open \in C
  BY DEF Splits
<1>2. PICK done \in Seq(C), open \in C : done = split.done /\ open = split.open
  BY <1>1
<1>3. done \in Seq(Seq(S)) /\ open \in Seq(S)
  BY SeqMonotonic
<1>4. FlattenSeq(done) \in Seq(S)
  BY <1>3, FlattenTyped
<1>5. FlattenSeq(Append(done, open)) = FlattenSeq(done) \o open
  BY <1>3, FlattenAppend
<1>6. Append(done, open) \in Seq(C) /\ Append(done, open) # <<>>
  BY AppendProperties
<1>7. open = <<>> => FlattenSeq(done) \o open = FlattenSeq(done)
  BY <1>4, ConcatEmptySeq
<1>8. FlattenSeq(done) \o open \in Seq(S)
  BY <1>3, <1>4, ConcatProperties
<1>9. Closed(split) = IF open = <<>> THEN done ELSE Append(done, open)
  BY <1>2 DEF Closed
<1>10. Held(split) = FlattenSeq(done) \o open
  BY <1>2 DEF Held
<1>11. CASE open = <<>>
  BY <1>2, <1>7, <1>8, <1>9, <1>10, <1>11
<1>12. CASE open # <<>>
  BY <1>2, <1>5, <1>6, <1>8, <1>9, <1>10, <1>12
<1> QED BY <1>11, <1>12

(* The letters of a word, run on.                                          *)
Joined(s, t, z) == z = s \o t

LEMMA RunOn ==
  ASSUME NEW page \in Nat, NEW at \in Nat, NEW a \in Nat, NEW c \in Nat,
         NEW from \in Nat, from = a + 1, NEW n \in Nat, n = a + c
  PROVE  Joined(Run(page, at, 1, a), Run(page, at, from, c), Run(page, at, 1, n))
<1> DEFINE s == Run(page, at, 1, a)
           t == Run(page, at, from, c)
           z == Run(page, at, 1, n)
<1>1. ASSUME NEW l \in Nat, NEW k \in Nat \ {0}
      PROVE  /\ Run(page, at, k, l) \in Seq(Places) /\ Len(Run(page, at, k, l)) = l
             /\ \A i \in 1..l : Run(page, at, k, l)[i] = <<page, at, k + i - 1>>
  <2>1. \A i \in 1..l : <<page, at, k + i - 1>> \in Places
    BY DEF Places
  <2> QED BY <2>1, IsASeq DEF Run
<1>2. s \in Seq(Places) /\ Len(s) = a /\ \A i \in 1..a : s[i] = <<page, at, 1 + i - 1>>
  <2>1. a \in Nat /\ 1 \in Nat \ {0}
    OBVIOUS
  <2> QED BY <1>1, <2>1
<1>3. t \in Seq(Places) /\ Len(t) = c /\ \A k \in 1..c : t[k] = <<page, at, a + 1 + k - 1>>
  <2>1. from \in Nat \ {0} /\ from = a + 1
    OBVIOUS
  <2> QED BY <1>1, <2>1
<1>4. z \in Seq(Places) /\ Len(z) = a + c /\ \A i \in 1..a + c : z[i] = <<page, at, 1 + i - 1>>
  <2>1. n \in Nat /\ n = a + c /\ 1 \in Nat \ {0}
    OBVIOUS
  <2> QED BY <1>1, <2>1
<1> HIDE DEF s, t, z
<1>5. /\ s \o t \in Seq(Places) /\ Len(s \o t) = Len(s) + Len(t)
      /\ \A i \in 1..Len(s) + Len(t) : (s \o t)[i] = IF i <= Len(s) THEN s[i] ELSE t[i - Len(s)]
  BY <1>2, <1>3, ConcatProperties
<1>6. ASSUME NEW i \in 1..a + c PROVE (s \o t)[i] = z[i]
  <2>1. CASE i <= a
    <3>1. i \in 1..a
      BY <2>1
    <3> QED BY <1>2, <1>3, <1>4, <1>5, <2>1, <3>1
  <2>2. CASE ~(i <= a)
    <3>1. i - a \in 1..c /\ a + 1 + (i - a) - 1 = 1 + i - 1
      BY <2>2
    <3>2. (s \o t)[i] = t[i - a]
      BY <1>2, <1>3, <1>5, <2>2
    <3>3. t[i - a] = <<page, at, a + 1 + (i - a) - 1>>
      BY <1>3, <3>1
    <3> QED BY <1>4, <3>1, <3>2, <3>3
  <2> QED BY <2>1, <2>2
<1>7. Len(s \o t) = Len(z)
  BY <1>2, <1>3, <1>4, <1>5
<1>8. s \o t = z
  <2>1. Len(s \o t) = a + c
    BY <1>2, <1>3, <1>5
  <2> QED BY <1>4, <1>5, <1>6, <1>7, <2>1, SeqEqual
<1> QED BY <1>8 DEF s, t, z, Joined

LEMMA MinOfTwo ==
  ASSUME NEW a \in Nat, NEW b \in Nat
  PROVE  Min({a, b}) = IF a <= b THEN a ELSE b
BY DEF Min

LEMMA Quotient ==
  ASSUME NEW n \in Nat \ {0}, NEW m \in Nat \ {0}, NEW k, k = (n + m - 1) \div m
  PROVE  k \in Nat \ {0} /\ n <= k * m /\ (k - 1) * m < n
OBVIOUS

LEMMA Products ==
  ASSUME NEW j \in Nat, NEW k \in Nat, NEW m \in Nat \ {0}, j < k
  PROVE  j * m \in Nat /\ (j + 1) * m = j * m + m /\ j * m <= (k - 1) * m
OBVIOUS

(* The cuts of a word are the word.                                        *)
LEMMA CutsHold ==
  ASSUME NEW w \in Words
  PROVE  /\ Cuts(w) \in Seq(Chunks) /\ Cuts(w) # <<>>
         /\ Letters(FlattenSeq(Cuts(w))) = LettersOf[Whole(w)]
<1> DEFINE M == MaxChunk
           L == w.len
           K == (L + M - 1) \div M
           cut(k) == Piece(w, (k - 1) * M + 1, Min({k * M, L}))
           cuts == [k \in 1..K |-> cut(k)]
           upto(j) == IF j * M <= L THEN j * M ELSE L
           run(n) == Run(w.page, w.at, 1, n)
<1>1. M \in Nat \ {0} /\ L \in Nat \ {0} /\ w.page \in Nat /\ w.at \in Nat
  BY IndexingAssumption, WholePieces
<1>2. K \in Nat \ {0} /\ L <= K * M /\ (K - 1) * M < L
  BY <1>1, Quotient
<1> HIDE DEF K
<1>3. ASSUME NEW j \in Nat, j < K
      PROVE  /\ j * M \in Nat /\ j * M < L /\ (j + 1) * M = j * M + M
             /\ upto(j) = j * M /\ upto(j + 1) \in Nat
             /\ upto(j + 1) >= j * M /\ upto(j + 1) - j * M <= M /\ upto(j + 1) <= L
  <2>1. j * M \in Nat /\ (j + 1) * M = j * M + M /\ j * M <= (K - 1) * M /\ (K - 1) * M \in Int
    BY <1>1, <1>2, <1>3, Products
  <2>2. PICK a, b : a = j * M /\ b = (K - 1) * M
    OBVIOUS
  <2>3. a \in Nat /\ b \in Int /\ a <= b /\ b < L /\ (j + 1) * M = a + M
    BY <1>2, <2>1, <2>2
  <2>4. a < L /\ upto(j) = a
    BY <1>1, <2>2, <2>3
  <2>5. upto(j + 1) = IF a + M <= L THEN a + M ELSE L
    BY <2>3
  <2> HIDE DEF upto
  <2>6. upto(j + 1) \in Nat /\ upto(j + 1) >= a /\ upto(j + 1) - a <= M /\ upto(j + 1) <= L
    BY <1>1, <2>3, <2>4, <2>5
  <2> QED BY <2>1, <2>2, <2>4, <2>6
<1>4. ASSUME NEW j \in Nat, j < K
      PROVE  /\ cut(j + 1) \in Pieces
             /\ cut(j + 1).page = w.page /\ cut(j + 1).at = w.at
             /\ cut(j + 1).from = j * M + 1 /\ cut(j + 1).upto = upto(j + 1)
  <2>1. j * M \in Nat /\ (j + 1) - 1 = j /\ upto(j + 1) \in Nat /\ upto(j + 1) >= j * M
        /\ (j + 1) * M \in Nat
    BY <1>1, <1>3, <1>4
  <2>2. Min({(j + 1) * M, L}) = upto(j + 1)
    BY <1>1, <2>1, MinOfTwo
  <2>3. cut(j + 1) = [page |-> w.page, at |-> w.at, from |-> j * M + 1, upto |-> upto(j + 1)]
    BY <2>1, <2>2 DEF Piece
  <2> HIDE DEF cut, upto
  <2>4. PICK a, b : a = j * M /\ b = upto(j + 1)
    OBVIOUS
  <2>5. a + 1 \in Nat /\ b \in Nat /\ a + 1 <= b + 1
    BY <2>1, <2>4
  <2> QED BY <1>1, <2>3, <2>4, <2>5 DEF Pieces
<1> HIDE DEF cut, upto, M, L
<1>5. \A k \in 1..K : cut(k) \in Pieces
  <2> SUFFICES ASSUME NEW k \in 1..K PROVE cut(k) \in Pieces
    OBVIOUS
  <2>1. k - 1 \in Nat /\ k - 1 < K /\ (k - 1) + 1 = k
    BY <1>2
  <2>2. cut((k - 1) + 1) \in Pieces
    BY <1>4, <2>1
  <2> QED BY <2>1, <2>2
<1>6. ASSUME NEW n \in 0..K PROVE [k \in 1..n |-> cut(k)] \in Seq(Pieces)
  <2>1. n \in Nat /\ \A k \in 1..n : cut(k) \in Pieces
    BY <1>2, <1>5
  <2> QED BY <2>1, IsASeq
<1>7. cuts \in Seq(Pieces) /\ Len(cuts) = K /\ \A k \in 1..K : cuts[k] = cut(k)
  <2>1. K \in 0..K
    BY <1>2
  <2> QED BY <1>2, <1>6, <2>1
<1> DEFINE T == {n \in 0..K : Letters([k \in 1..n |-> cut(k)]) = run(upto(n))}
<1>8. 0 \in T
  <2>1. upto(0) = 0
    BY <1>1, <1>2, <1>3
  <2>2. [k \in 1..0 |-> cut(k)] = <<>> /\ run(0) = <<>>
    BY DEF Run
  <2>3. Letters(<<>>) = <<>>
    BY FlattenEmpty DEF Letters
  <2>4. run(upto(0)) = <<>>
    BY <2>1, <2>2
  <2>5. Letters([k \in 1..0 |-> cut(k)]) = run(upto(0))
    BY <2>2, <2>3, <2>4
  <2>6. 0 \in 0..K
    BY <1>2
  <2> HIDE DEF run
  <2> QED BY <2>5, <2>6
<1>9. ASSUME NEW n \in 0..K, n < K, n \in T PROVE n + 1 \in T
  <2> DEFINE s == [k \in 1..n |-> cut(k)]
             z == [k \in 1..n + 1 |-> cut(k)]
             x == cut(n + 1)
  <2>1. n \in Nat /\ n + 1 \in 0..K
    BY <1>2, <1>9
  <2>2. s \in Seq(Pieces) /\ z \in Seq(Pieces) /\ x \in Pieces
    BY <1>4, <1>6, <1>9, <2>1
  <2>3. z = s \o <<x>>
    <3>1. <<x>> \in Seq(Pieces) /\ Len(<<x>>) = 1 /\ <<x>>[1] = x
      BY <2>2
    <3>2. Len(s) = n /\ Len(z) = n + 1
      BY <2>1
    <3>3. /\ s \o <<x>> \in Seq(Pieces) /\ Len(s \o <<x>>) = n + 1
          /\ \A i \in 1..n + 1 : (s \o <<x>>)[i] = IF i <= n THEN s[i] ELSE <<x>>[i - n]
      <4>1. PICK t \in Seq(Pieces) : t = <<x>>
        BY <3>1
      <4>2. PICK u \in Seq(Pieces) : u = s
        BY <2>2
      <4>3. /\ u \o t \in Seq(Pieces) /\ Len(u \o t) = Len(u) + Len(t)
            /\ \A i \in 1..Len(u) + Len(t) : (u \o t)[i] = IF i <= Len(u) THEN u[i] ELSE t[i - Len(u)]
        BY ConcatProperties
      <4> HIDE DEF s, x
      <4> QED BY <3>1, <3>2, <4>1, <4>2, <4>3
    <3>4. ASSUME NEW i \in 1..n + 1 PROVE z[i] = (s \o <<x>>)[i]
      <4>1. CASE i <= n
        BY <2>1, <3>3, <4>1
      <4>2. CASE ~(i <= n)
        <5>1. i = n + 1 /\ i - n = 1
          BY <2>1, <4>2
        <5> QED BY <3>1, <3>3, <4>2, <5>1
      <4> QED BY <4>1, <4>2
    <3> HIDE DEF s, z, x
    <3> QED BY <2>2, <3>2, <3>3, <3>4, SeqEqual
  <2>4. Letters(s) = run(upto(n)) /\ upto(n) = n * M
    BY <1>3, <1>9, <2>1
  <2>5. Letters(s \o <<x>>) = Letters(s) \o Letters(<<x>>) /\ Letters(<<x>>) = LettersOf[x]
    <3>1. <<x>> \in Seq(Pieces)
      BY <2>2
    <3> HIDE DEF s, x
    <3> QED BY <2>2, <3>1, LettersJoin, LettersOfOne
  <2>6. /\ x.page = w.page /\ x.at = w.at /\ x.from = n * M + 1 /\ x.upto = upto(n + 1)
        /\ n * M \in Nat /\ upto(n + 1) \in Nat /\ upto(n + 1) >= n * M
    BY <1>3, <1>4, <1>9, <2>1
  <2> HIDE DEF s, z, x
  <2>7. PICK a \in Nat, b \in Nat : a = n * M /\ b = upto(n + 1) /\ a <= b
    BY <2>6
  <2>8. b - a \in Nat /\ a + (b - a) = b /\ x.upto - x.from + 1 = b - a
    BY <2>6, <2>7
  <2>9. LettersOf[x] = Run(w.page, w.at, a + 1, b - a)
    <3>1. LettersOf[x] = Run(x.page, x.at, x.from, x.upto - x.from + 1)
      BY <2>2 DEF LettersOf
    <3> QED BY <2>6, <2>7, <2>8, <3>1
  <2>10. run(a) \o Run(w.page, w.at, a + 1, b - a) = run(a + (b - a))
    <3>1. /\ w.page \in Nat /\ w.at \in Nat /\ a \in Nat /\ b - a \in Nat /\ a + 1 \in Nat /\ b \in Nat
          /\ b = a + (b - a)
      BY <1>1, <2>8
    <3>2. Joined(Run(w.page, w.at, 1, a), Run(w.page, w.at, a + 1, b - a), Run(w.page, w.at, 1, b))
      BY <3>1, RunOn
    <3> QED BY <2>8, <3>2 DEF Joined
  <2>11. Letters(z) = run(upto(n + 1))
    BY <2>3, <2>4, <2>5, <2>7, <2>8, <2>9, <2>10
  <2> QED BY <2>1, <2>11 DEF z
<1> HIDE DEF T
<1>10. 0..K \subseteq T
  BY <1>2, <1>8, <1>9, UpTo
<1>11. Letters(cuts) = run(L)
  <2>1. K \in T
    BY <1>2, <1>10
  <2>2. upto(K) = L
    BY <1>1, <1>2 DEF upto
  <2> QED BY <2>1, <2>2 DEF T
<1>12. LettersOf[Whole(w)] = run(L)
  <2>1. LettersOf[Whole(w)] = Run(Whole(w).page, Whole(w).at, Whole(w).from,
                                  Whole(w).upto - Whole(w).from + 1)
    BY WholePieces DEF LettersOf
  <2>2. L - 1 + 1 = L
    BY <1>1
  <2> QED BY <2>1, <2>2, WholePieces DEF L
<1>13. FlattenSeq([k \in DOMAIN cuts |-> <<cuts[k]>>]) = cuts
  BY <1>7, FlattenSingles
<1>14. Cuts(w) = [k \in DOMAIN cuts |-> <<cuts[k]>>]
  BY DEF Cuts, cut, K, L, M
<1>15. ASSUME NEW k \in 1..K PROVE <<cut(k)>> \in Chunks
  <2>1. k - 1 \in Nat /\ k - 1 < K /\ (k - 1) + 1 = k
    BY <1>2
  <2>2. PICK j \in Nat : j = k - 1
    BY <2>1
  <2>3. /\ cut(j + 1).from = j * M + 1 /\ cut(j + 1).upto = upto(j + 1)
        /\ j * M \in Nat /\ upto(j + 1) \in Nat /\ upto(j + 1) - j * M <= M
    BY <1>3, <1>4, <2>1, <2>2
  <2>4. cut(j + 1).upto - cut(j + 1).from + 1 <= M
    BY <1>1, <2>3
  <2>5. <<cut(k)>> \in Seq(Pieces) /\ cut(k) \in Pieces
    BY <1>5
  <2>6. Length(<<cut(k)>>) = cut(k).upto - cut(k).from + 1
    <3>1. <<>> \in Seq(Pieces)
      BY EmptySeq
    <3> QED BY <2>5, <3>1, LengthGrows
  <2> QED BY <2>1, <2>2, <2>4, <2>5, <2>6 DEF Chunks, M
<1>16. [k \in DOMAIN cuts |-> <<cuts[k]>>] \in Seq(Chunks) /\ [k \in DOMAIN cuts |-> <<cuts[k]>>] # <<>>
  <2>1. DOMAIN cuts = 1..K /\ \A k \in 1..K : <<cuts[k]>> \in Chunks
    BY <1>7, <1>15
  <2>2. [k \in 1..K |-> <<cuts[k]>>] \in Seq(Chunks)
    BY <1>2, <2>1, IsASeq
  <2>3. Len([k \in 1..K |-> <<cuts[k]>>]) = K
    BY <1>2
  <2> HIDE DEF cuts
  <2> QED BY <1>2, <2>1, <2>2, <2>3
<1> QED BY <1>11, <1>12, <1>13, <1>14, <1>16

(* Placing a word adds its letters and nothing else.                       *)
LEMMA PlaceHolds ==
  ASSUME NEW split, split \in Splits(Chunks), NEW w \in Words, NEW z, z = Place(split, w)
  PROVE  /\ z \in Splits(Chunks)
         /\ Letters(Held(z)) = Letters(Held(split)) \o LettersOf[Whole(w)]
         /\ z.done # <<>> \/ z.open # <<>>
<1> DEFINE P == Whole(w)
<1>1. /\ P \in Pieces /\ P.from = 1 /\ P.upto = w.len /\ w.len \in Nat \ {0}
      /\ MaxChunk \in Nat \ {0} /\ P = Piece(w, 1, w.len)
  BY WholePieces, IndexingAssumption DEF Whole
<1> HIDE DEF P
<1>2. PICK done \in Seq(Chunks), open \in Chunks :
        done = split.done /\ open = split.open /\ split = [done |-> done, open |-> open]
  BY DEF Splits
<1>3. Chunks \subseteq Seq(Pieces) /\ <<>> \in Chunks
  <2>1. <<>> \in Seq(Pieces)
    BY EmptySeq
  <2>2. Length(<<>>) = 0
    BY <1>1, <2>1, LengthGrows
  <2> QED BY <1>1, <2>1, <2>2 DEF Chunks
<1>4. open \in Seq(Pieces) /\ done \in Seq(Seq(Pieces)) /\ Length(open) \in Nat /\ Length(open) <= MaxChunk
  BY <1>1, <1>3, SeqMonotonic, LengthGrows DEF Chunks
<1>5. /\ Closed(split) \in Seq(Chunks) /\ FlattenSeq(Closed(split)) = Held(split)
      /\ Held(split) \in Seq(Pieces)
  BY <1>3, ClosedHolds
<1>6. <<P>> \in Seq(Pieces) /\ Letters(<<P>>) = LettersOf[P]
  BY <1>1, LettersOfOne
<1>7. Letters(Held(split) \o <<P>>) = Letters(Held(split)) \o LettersOf[P]
  BY <1>5, <1>6, LettersJoin
<1>8. CASE w.len > MaxChunk
  <2>1. z = [done |-> Closed(split) \o Cuts(w), open |-> <<>>]
    BY <1>8 DEF Place
  <2>2. /\ Cuts(w) \in Seq(Chunks) /\ Cuts(w) # <<>>
        /\ Letters(FlattenSeq(Cuts(w))) = LettersOf[P]
    BY CutsHold DEF P
  <2>3. Closed(split) \o Cuts(w) \in Seq(Chunks) /\ Closed(split) \o Cuts(w) # <<>>
    BY <1>5, <2>2, ConcatProperties, ConcatEqualIffEmpty
  <2>4. Closed(split) \in Seq(Seq(Pieces)) /\ Cuts(w) \in Seq(Seq(Pieces))
    BY <1>3, <1>5, <2>2, SeqMonotonic
  <2>5. FlattenSeq(Closed(split) \o Cuts(w)) = Held(split) \o FlattenSeq(Cuts(w))
        /\ FlattenSeq(Cuts(w)) \in Seq(Pieces)
    BY <1>5, <2>4, FlattenConcat, FlattenTyped
  <2>6. Held(split) \o FlattenSeq(Cuts(w)) \in Seq(Pieces)
    BY <1>5, <2>5, ConcatProperties
  <2>7. Held(z) = Held(split) \o FlattenSeq(Cuts(w))
    <3>1. Held(z) = FlattenSeq(Closed(split) \o Cuts(w)) \o <<>>
      BY <2>1 DEF Held
    <3> QED BY <2>5, <2>6, <3>1, ConcatEmptySeq
  <2>8. Letters(Held(z)) = Letters(Held(split)) \o LettersOf[P]
    BY <1>5, <2>2, <2>5, <2>7, LettersJoin
  <2>9. z \in Splits(Chunks) /\ z.done # <<>>
    BY <1>3, <2>1, <2>3 DEF Splits
  <2> QED BY <2>8, <2>9 DEF P
<1>9. CASE ~(w.len > MaxChunk) /\ open # <<>> /\ Length(open) + 1 + w.len > MaxChunk
  <2>1. z = [done |-> Closed(split), open |-> <<P>>]
    BY <1>1, <1>2, <1>9 DEF Place
  <2>2. <<P>> \in Chunks
    <3>1. Length(<<P>>) = P.upto - P.from + 1
      BY <1>1, <1>4, LengthGrows
    <3> QED BY <1>1, <1>6, <1>9, <3>1 DEF Chunks
  <2>3. Held(z) = Held(split) \o <<P>>
    <3>1. z.done = Closed(split) /\ z.open = <<P>>
      BY <2>1
    <3>2. Held(z) = FlattenSeq(z.done) \o z.open
      BY DEF Held
    <3> QED BY <1>5, <3>1, <3>2
  <2>4. z \in Splits(Chunks) /\ z.open # <<>>
    BY <1>5, <2>1, <2>2 DEF Splits
  <2> QED BY <1>7, <2>3, <2>4 DEF P
<1>10. CASE ~(w.len > MaxChunk) /\ ~(open # <<>> /\ Length(open) + 1 + w.len > MaxChunk)
  <2>1. z = [done |-> done, open |-> Append(open, P)]
    BY <1>1, <1>2, <1>10 DEF Place
  <2>2. Append(open, P) \in Chunks /\ Append(open, P) # <<>>
    <3>1. Length(Append(open, P)) = Length(open) + (IF open = <<>> THEN 0 ELSE 1) + (P.upto - P.from + 1)
      BY <1>1, <1>4, LengthGrows
    <3>2. open = <<>> => Length(open) = 0
      BY <1>1, <1>4, LengthGrows
    <3>3. Length(Append(open, P)) <= MaxChunk
      BY <1>1, <1>4, <1>10, <3>1, <3>2
    <3>4. Append(open, P) \in Seq(Pieces) /\ Append(open, P) # <<>>
      BY <1>1, <1>4, AppendProperties
    <3> QED BY <3>3, <3>4 DEF Chunks
  <2>3. FlattenSeq(done) \in Seq(Pieces)
    BY <1>4, FlattenTyped
  <2>4. Held(z) = Held(split) \o <<P>>
    <3>1. Append(open, P) = open \o <<P>>
      BY <1>1, <1>4, AppendIsConcat
    <3>2. Held(z) = FlattenSeq(done) \o (open \o <<P>>) /\ Held(split) = FlattenSeq(done) \o open
      <4>1. z.done = done /\ z.open = Append(open, P)
        BY <2>1
      <4>2. Held(z) = FlattenSeq(z.done) \o z.open /\ Held(split) = FlattenSeq(split.done) \o split.open
        BY DEF Held
      <4> QED BY <1>2, <3>1, <4>1, <4>2
    <3>3. PICK a \in Seq(Pieces), b \in Seq(Pieces), c \in Seq(Pieces) :
            a = FlattenSeq(done) /\ b = open /\ c = <<P>>
      BY <1>4, <1>6, <2>3
    <3>4. (a \o b) \o c = a \o (b \o c)
      BY ConcatAssociative
    <3> QED BY <3>2, <3>3, <3>4
  <2>5. z \in Splits(Chunks) /\ z.open # <<>>
    <3>1. PICK next \in Chunks : next = Append(open, P)
      BY <2>2
    <3>2. z = [done |-> done, open |-> next] /\ next # <<>>
      BY <2>1, <2>2, <3>1
    <3> QED BY <3>2 DEF Splits
  <2> QED BY <1>7, <2>4, <2>5 DEF P
<1> QED BY <1>8, <1>9, <1>10

(* What _split_bounded_text computes, word by word.                        *)
Placed(t, words) ==
  /\ t[0] = Begun
  /\ \A n \in 1..Len(words) : t[n] = Place(t[n - 1], words[n])
  /\ Split(words) = Closed(t[Len(words)])

LEMMA BegunHolds ==
  ASSUME NEW S, NEW C, C \subseteq Seq(S), <<>> \in C
  PROVE  Begun \in Splits(C) /\ Held(Begun) = <<>>
<1>1. <<>> \in Seq(C) /\ <<>> \o <<>> = <<>>
  BY EmptySeq
<1> QED BY <1>1, FlattenEmpty DEF Begun, Splits, Held

LEMMA SplitIs ==
  ASSUME NEW words \in Seq(Words)
  PROVE  \E t \in [0..Len(words) -> Splits(Chunks)] : Placed(t, words)
<1> DEFINE N == Len(words)
           V == Splits(Chunks)
           Body(t) == [n \in 0..N |-> IF n = 0 THEN Begun ELSE Place(t[n - 1], words[n])]
           step == [x \in (1..N) \X V |-> Place(x[2], words[x[1]])]
           t == CHOOSE f : f = Body(f)
<1>1. N \in Nat /\ \A i \in 1..N : words[i] \in Words
  OBVIOUS
<1>2. Begun \in V
  <2>1. <<>> \in Seq(Pieces) /\ MaxChunk \in Nat /\ Chunks \subseteq Seq(Pieces)
    BY EmptySeq, IndexingAssumption DEF Chunks
  <2>2. \A piece \in Pieces : Length(<<>>) = 0
    BY <2>1, LengthGrows
  <2>3. [page |-> 0, at |-> 0, from |-> 0, upto |-> 0] \in Pieces
    BY DEF Pieces
  <2>4. <<>> \in Chunks
    BY <2>1, <2>2, <2>3 DEF Chunks
  <2> QED BY <2>1, <2>4, BegunHolds
<1>3. \A i \in 1..N, v \in V : Place(v, words[i]) \in V
  BY <1>1, PlaceHolds
<1>4. step \in Steps(N, V)
  BY <1>3 DEF Steps
<1>5. \A i \in 1..N, v \in V : step[<<i, v>>] = Place(v, words[i])
  OBVIOUS
<1>6. Split(words) = Closed(t[N])
  BY DEF Split
<1> HIDE DEF step, t, N, V
<1>7. PICK f : Follows(f, N, V, Begun, step)
  BY <1>1, <1>2, <1>4, Recursion
<1>8. ASSUME NEW i \in 0..N PROVE f[i] = Body(f)[i]
  <2>1. CASE i = 0
    BY <1>7, <2>1 DEF Follows
  <2>2. CASE i # 0
    <3>1. i \in 1..N /\ i - 1 \in 0..N /\ f[i - 1] \in V
      BY <1>1, <1>7, <2>2 DEF Follows
    <3>2. f[i] = step[<<i, f[i - 1]>>]
      BY <1>7, <3>1 DEF Follows
    <3> QED BY <1>5, <2>2, <3>1, <3>2
  <2> QED BY <2>1, <2>2
<1>9. f = Body(f)
  BY <1>7, <1>8 DEF Follows
<1>10. t = Body(t)
  <2> HIDE DEF Body
  <2> QED BY <1>9 DEF t
<1>11. t[0] = Begun /\ \A i \in 1..N : t[i] = Place(t[i - 1], words[i])
  <2>1. \A i \in 0..N : t[i] = IF i = 0 THEN Begun ELSE Place(t[i - 1], words[i])
    BY <1>10
  <2> QED BY <1>1, <2>1
<1>12. t \in [0..N -> V]
  <2> DEFINE T == {i \in 0..N : t[i] \in V}
  <2>1. 0 \in T
    BY <1>1, <1>2, <1>11
  <2>2. ASSUME NEW i \in 0..N, i < N, i \in T PROVE i + 1 \in T
    <3>1. i + 1 \in 1..N /\ i + 1 \in 0..N /\ (i + 1) - 1 = i /\ t[i] \in V
      BY <1>1, <2>2
    <3>2. t[i + 1] = Place(t[i], words[i + 1])
      BY <1>11, <3>1
    <3>3. t[i + 1] \in V
      BY <1>3, <3>1, <3>2
    <3> QED BY <3>1, <3>3
  <2> HIDE DEF T
  <2>3. 0..N \subseteq T
    BY <1>1, <2>1, <2>2, UpTo
  <2>4. \A i \in 0..N : t[i] \in V
    BY <2>3 DEF T
  <2>5. t = [i \in 0..N |-> t[i]]
    BY <1>10
  <2> QED BY <2>4, <2>5
<1> QED BY <1>6, <1>11, <1>12 DEF N, V, Placed

(* Chunks hold the words, letter by letter.                                *)
LettersOfWord == [w \in Words |-> LettersOf[Whole(w)]]

LEMMA WordLettersTyped == Maps(LettersOfWord, Words, Seq(Places))
  BY WholePieces, LettersTyped DEF Maps, LettersOfWord

LEMMA SplitHolds ==
  ASSUME NEW words \in Seq(Words)
  PROVE  /\ Split(words) \in Seq(Chunks)
         /\ Letters(FlattenSeq(Split(words))) = Spread(LettersOfWord, words)
         /\ words # <<>> => Split(words) # <<>>
<1> DEFINE N == Len(words)
           m == Applied(LettersOfWord, words)
<1>1. PICK t \in [0..Len(words) -> Splits(Chunks)] : Placed(t, words)
  BY SplitIs
<1>2. /\ m \in Seq(Seq(Places)) /\ Len(m) = N /\ N \in Nat
      /\ \A i \in 1..N : m[i] = LettersOfWord[words[i]] /\ words[i] \in Words
  <2>1. PICK f : f = LettersOfWord /\ Maps(f, Words, Seq(Places))
    BY WordLettersTyped
  <2>2. /\ Applied(f, words) \in Seq(Seq(Places)) /\ Len(Applied(f, words)) = Len(words)
        /\ Len(words) \in Nat
        /\ \A i \in 1..Len(words) : Applied(f, words)[i] = f[words[i]] /\ words[i] \in Words
    BY <2>1, AppliedIs
  <2> QED BY <2>1, <2>2
<1> HIDE DEF m
<1>3. PICK u \in [0..Len(m) -> Seq(Places)] : Flattens(u, m)
  BY <1>2, FlattenIs
<1>4. u[0] = <<>> /\ (\A n \in 1..N : u[n] = u[n - 1] \o m[n]) /\ FlattenSeq(m) = u[N]
  BY <1>2, <1>3 DEF Flattens
<1>5. /\ t \in [0..N -> Splits(Chunks)] /\ t[0] = Begun /\ Split(words) = Closed(t[N])
      /\ \A n \in 1..N : t[n] = Place(t[n - 1], words[n])
  BY <1>1 DEF Placed
<1> HIDE DEF N
<1> DEFINE Good(n) == Letters(Held(t[n])) = u[n] /\ (n > 0 => t[n].done # <<>> \/ t[n].open # <<>>)
           T == {n \in 0..N : Good(n)}
<1>6. 0 \in T
  <2>1. Held(Begun) = <<>>
    <3>1. <<>> \o <<>> = <<>>
      OBVIOUS
    <3> QED BY <3>1, FlattenEmpty DEF Held, Begun
  <2>2. Letters(<<>>) = <<>>
    BY FlattenEmpty DEF Letters
  <2> QED BY <1>2, <1>4, <1>5, <2>1, <2>2
<1>7. ASSUME NEW n \in 0..N, n < N, n \in T PROVE n + 1 \in T
  <2>1. n + 1 \in 1..N /\ n + 1 \in 0..N /\ (n + 1) - 1 = n
    BY <1>2, <1>7
  <2>2. t[n] \in Splits(Chunks) /\ words[n + 1] \in Words /\ t[n + 1] = Place(t[n], words[n + 1])
    BY <1>2, <1>5, <1>7, <2>1
  <2>3. PICK split, w, z : split = t[n] /\ w = words[n + 1] /\ z = t[n + 1] /\ w \in Words
    BY <2>2
  <2>4. /\ Letters(Held(z)) = Letters(Held(split)) \o LettersOf[Whole(w)]
        /\ z.done # <<>> \/ z.open # <<>>
    BY <2>2, <2>3, PlaceHolds
  <2>5. m[n + 1] = LettersOf[Whole(w)]
    BY <1>2, <2>1, <2>3 DEF LettersOfWord
  <2>6. u[n + 1] = u[n] \o m[n + 1] /\ Letters(Held(t[n])) = u[n]
    BY <1>4, <1>7, <2>1
  <2>7. Letters(Held(t[n + 1])) = u[n + 1]
    BY <2>3, <2>4, <2>5, <2>6
  <2>8. t[n + 1].done # <<>> \/ t[n + 1].open # <<>>
    BY <2>3, <2>4
  <2> QED BY <2>1, <2>7, <2>8
<1> HIDE DEF T
<1>8. 0..N \subseteq T
  BY <1>2, <1>6, <1>7, UpTo
<1>9. Good(N) /\ t[N] \in Splits(Chunks)
  BY <1>2, <1>5, <1>8 DEF T
<1>10. Chunks \subseteq Seq(Pieces)
  BY DEF Chunks
<1>11. /\ Closed(t[N]) \in Seq(Chunks) /\ FlattenSeq(Closed(t[N])) = Held(t[N])
       /\ (t[N].done # <<>> \/ t[N].open # <<>> => Closed(t[N]) # <<>>)
  BY <1>9, <1>10, ClosedHolds
<1>12. words # <<>> => N > 0
  BY <1>2, EmptySeq DEF N
<1> QED BY <1>4, <1>5, <1>9, <1>11, <1>12 DEF Spread, m

------------------------------------------------------------------------------
(* Batches.                                                                *)

UpToN(n) == [k \in 1..n |-> k]

LEMMA UpToNGrows ==
  ASSUME NEW n \in Nat
  PROVE  UpToN(n) \in Seq(Nat) /\ Len(UpToN(n)) = n /\ UpToN(n + 1) = UpToN(n) \o <<n + 1>>
         /\ UpToN(0) = <<>>
<1>1. ASSUME NEW m \in Nat
      PROVE  UpToN(m) \in Seq(Nat) /\ Len(UpToN(m)) = m /\ \A i \in 1..m : UpToN(m)[i] = i
  <2>1. \A i \in 1..m : i \in Nat
    OBVIOUS
  <2> QED BY <2>1, IsASeq DEF UpToN
<1>2. PICK s \in Seq(Nat), z \in Seq(Nat) :
        /\ s = UpToN(n) /\ z = UpToN(n + 1) /\ Len(s) = n /\ Len(z) = n + 1
        /\ (\A i \in 1..n : s[i] = i) /\ \A i \in 1..n + 1 : z[i] = i
  <2>1. n + 1 \in Nat
    OBVIOUS
  <2> QED BY <1>1, <2>1
<1>3. /\ Append(s, n + 1) \in Seq(Nat) /\ Len(Append(s, n + 1)) = Len(s) + 1
      /\ (\A i \in 1..Len(s) : Append(s, n + 1)[i] = s[i]) /\ Append(s, n + 1)[Len(s) + 1] = n + 1
  <2>1. n + 1 \in Nat
    OBVIOUS
  <2> QED BY <2>1, AppendProperties
<1>4. \A i \in 1..n + 1 : Append(s, n + 1)[i] = z[i]
  BY <1>2, <1>3
<1>5. Append(s, n + 1) = z
  BY <1>2, <1>3, <1>4, SeqEqual
<1>6. Append(s, n + 1) = s \o <<n + 1>>
  <2>1. n + 1 \in Nat
    OBVIOUS
  <2> QED BY <2>1, AppendIsConcat
<1>7. UpToN(0) = <<>>
  BY DEF UpToN
<1> QED BY <1>1, <1>2, <1>5, <1>6, <1>7

(* A batch takes the next draft.                                           *)
LEMMA AddHolds ==
  ASSUME NEW drafts, NEW S, NEW split, split \in Splits(Seq(S)), NEW k \in S,
         NEW z, z = Add(drafts, split, k)
  PROVE  z \in Splits(Seq(S)) /\ Held(z) = Held(split) \o <<k>> /\ Held(split) \in Seq(S)
<1>1. PICK done \in Seq(Seq(S)), open \in Seq(S) :
        done = split.done /\ open = split.open /\ split = [done |-> done, open |-> open]
  BY DEF Splits
<1>2. /\ Closed(split) \in Seq(Seq(S)) /\ FlattenSeq(Closed(split)) = Held(split)
      /\ Held(split) \in Seq(S)
  BY ClosedHolds
<1>3. <<k>> \in Seq(S)
  OBVIOUS
<1>4. CASE z = [done |-> Closed(split), open |-> <<k>>]
  <2>1. Held(z) = Held(split) \o <<k>>
    <3>1. z.done = Closed(split) /\ z.open = <<k>>
      BY <1>4
    <3>2. Held(z) = FlattenSeq(z.done) \o z.open
      BY DEF Held
    <3> QED BY <1>2, <3>1, <3>2
  <2>2. z \in Splits(Seq(S))
    <3>1. PICK a \in Seq(Seq(S)), b \in Seq(S) : a = Closed(split) /\ b = <<k>>
      BY <1>2, <1>3
    <3>2. z = [done |-> a, open |-> b]
      BY <1>4, <3>1
    <3> QED BY <3>2 DEF Splits
  <2> QED BY <1>2, <2>1, <2>2
<1>5. CASE z = [done |-> done, open |-> Append(open, k)]
  <2>1. FlattenSeq(done) \in Seq(S)
    BY FlattenTyped
  <2>2. Held(z) = Held(split) \o <<k>>
    <3>1. Append(open, k) = open \o <<k>>
      BY AppendIsConcat
    <3>2. Held(z) = FlattenSeq(done) \o (open \o <<k>>) /\ Held(split) = FlattenSeq(done) \o open
      <4>1. z.done = done /\ z.open = Append(open, k)
        BY <1>5
      <4>2. Held(z) = FlattenSeq(z.done) \o z.open /\ Held(split) = FlattenSeq(split.done) \o split.open
        BY DEF Held
      <4> QED BY <1>1, <3>1, <4>1, <4>2
    <3>3. PICK a \in Seq(S), b \in Seq(S), c \in Seq(S) :
            a = FlattenSeq(done) /\ b = open /\ c = <<k>>
      BY <1>3, <2>1
    <3>4. (a \o b) \o c = a \o (b \o c)
      BY SMTT(30), ConcatAssociative
    <3> QED BY <3>2, <3>3, <3>4
  <2>3. z \in Splits(Seq(S))
    <3>1. PICK next \in Seq(S) : next = Append(open, k)
      BY AppendProperties
    <3>2. z = [done |-> done, open |-> next]
      BY <1>5, <3>1
    <3> QED BY <3>2 DEF Splits
  <2> QED BY <1>2, <2>2, <2>3
<1>6. z = [done |-> Closed(split), open |-> <<k>>] \/ z = [done |-> done, open |-> Append(open, k)]
  BY <1>1 DEF Add
<1> QED BY <1>4, <1>5, <1>6

(* What plan computes, draft by draft.                                     *)
Planned(t, drafts) ==
  /\ t[0] = Begun
  /\ \A n \in 1..Len(drafts) : t[n] = Add(drafts, t[n - 1], n)
  /\ PlanOf(drafts) = Closed(t[Len(drafts)])

LEMMA PlanIs ==
  ASSUME NEW drafts, Len(drafts) \in Nat
  PROVE  \E t \in [0..Len(drafts) -> Splits(Seq(1..Len(drafts)))] : Planned(t, drafts)
<1> DEFINE N == Len(drafts)
           V == Splits(Seq(1..N))
           Body(t) == [n \in 0..N |-> IF n = 0 THEN Begun ELSE Add(drafts, t[n - 1], n)]
           step == [x \in (1..N) \X V |-> Add(drafts, x[2], x[1])]
           t == CHOOSE f : f = Body(f)
<1>1. N \in Nat
  OBVIOUS
<1>2. Begun \in V
  <2>1. <<>> \in Seq(1..N)
    BY EmptySeq
  <2> QED BY <2>1, BegunHolds
<1>3. \A i \in 1..N, v \in V : Add(drafts, v, i) \in V
  <2>1. PICK S : S = 1..N
    OBVIOUS
  <2>2. \A i \in S, v \in Splits(Seq(S)) : Add(drafts, v, i) \in Splits(Seq(S))
    BY AddHolds
  <2> QED BY <2>1, <2>2
<1>4. step \in Steps(N, V)
  BY <1>3 DEF Steps
<1>5. \A i \in 1..N, v \in V : step[<<i, v>>] = Add(drafts, v, i)
  OBVIOUS
<1>6. PlanOf(drafts) = Closed(t[N])
  BY DEF PlanOf
<1> HIDE DEF step, t, N, V
<1>7. PICK f : Follows(f, N, V, Begun, step)
  BY <1>1, <1>2, <1>4, Recursion
<1>8. ASSUME NEW i \in 0..N PROVE f[i] = Body(f)[i]
  <2>1. CASE i = 0
    BY <1>7, <2>1 DEF Follows
  <2>2. CASE i # 0
    <3>1. i \in 1..N /\ i - 1 \in 0..N /\ f[i - 1] \in V
      BY <1>1, <1>7, <2>2 DEF Follows
    <3>2. f[i] = step[<<i, f[i - 1]>>]
      BY <1>7, <3>1 DEF Follows
    <3> QED BY <1>5, <2>2, <3>1, <3>2
  <2> QED BY <2>1, <2>2
<1>9. f = Body(f)
  BY <1>7, <1>8 DEF Follows
<1>10. t = Body(t)
  <2> HIDE DEF Body
  <2> QED BY <1>9 DEF t
<1>11. t[0] = Begun /\ \A i \in 1..N : t[i] = Add(drafts, t[i - 1], i)
  <2>1. \A i \in 0..N : t[i] = IF i = 0 THEN Begun ELSE Add(drafts, t[i - 1], i)
    BY <1>10
  <2> QED BY <1>1, <2>1
<1>12. t \in [0..N -> V]
  <2> DEFINE T == {i \in 0..N : t[i] \in V}
  <2>1. 0 \in T
    BY <1>1, <1>2, <1>11
  <2>2. ASSUME NEW i \in 0..N, i < N, i \in T PROVE i + 1 \in T
    <3>1. i + 1 \in 1..N /\ i + 1 \in 0..N /\ (i + 1) - 1 = i /\ t[i] \in V
      BY <1>1, <2>2
    <3>2. t[i + 1] = Add(drafts, t[i], i + 1)
      BY <1>11, <3>1
    <3>3. t[i + 1] \in V
      BY <1>3, <3>1, <3>2
    <3> QED BY <3>1, <3>3
  <2> HIDE DEF T
  <2>3. 0..N \subseteq T
    BY <1>1, <2>1, <2>2, UpTo
  <2>4. \A i \in 0..N : t[i] \in V
    BY <2>3 DEF T
  <2>5. t = [i \in 0..N |-> t[i]]
    BY <1>10
  <2> QED BY <2>4, <2>5
<1> QED BY <1>6, <1>11, <1>12 DEF N, V, Planned

(* The batches are the drafts, in order.                                   *)
LEMMA PlanHolds ==
  ASSUME NEW drafts, Len(drafts) \in Nat
  PROVE  /\ PlanOf(drafts) \in Seq(Seq(1..Len(drafts)))
         /\ FlattenSeq(PlanOf(drafts)) = UpToN(Len(drafts))
<1> DEFINE N == Len(drafts)
<1>1. PICK t \in [0..Len(drafts) -> Splits(Seq(1..Len(drafts)))] : Planned(t, drafts)
  BY PlanIs
<1>2. /\ N \in Nat /\ t \in [0..N -> Splits(Seq(1..N))] /\ t[0] = Begun
      /\ PlanOf(drafts) = Closed(t[N]) /\ \A n \in 1..N : t[n] = Add(drafts, t[n - 1], n)
  BY <1>1 DEF Planned
<1> HIDE DEF N
<1> DEFINE T == {n \in 0..N : Held(t[n]) = UpToN(n)}
<1>3. 0 \in T
  <2>1. <<>> \in Seq(1..N)
    BY EmptySeq
  <2>2. Held(Begun) = <<>>
    BY <2>1, BegunHolds
  <2>3. UpToN(0) = <<>>
    BY UpToNGrows
  <2>4. 0 \in 0..N /\ Held(t[0]) = UpToN(0)
    BY <1>2, <2>2, <2>3
  <2> QED BY <2>4
<1>4. ASSUME NEW n \in 0..N, n < N, n \in T PROVE n + 1 \in T
  <2>1. n + 1 \in 1..N /\ n + 1 \in 0..N /\ (n + 1) - 1 = n /\ n \in Nat
    BY <1>2, <1>4
  <2>2. t[n] \in Splits(Seq(1..N)) /\ t[n + 1] = Add(drafts, t[n], n + 1)
    BY <1>2, <2>1
  <2>3. PICK S, split, z, k : S = 1..N /\ split = t[n] /\ z = t[n + 1] /\ k = n + 1 /\ k \in S
    BY <2>1
  <2>4. Held(z) = Held(split) \o <<k>>
    <3>1. split \in Splits(Seq(S)) /\ k \in S /\ z = Add(drafts, split, k)
      BY <2>2, <2>3
    <3> HIDE <2>3
    <3> QED BY <3>1, AddHolds
  <2>5. Held(t[n]) = UpToN(n) /\ UpToN(n + 1) = UpToN(n) \o <<n + 1>>
    BY <1>4, <2>1, UpToNGrows
  <2> QED BY <2>1, <2>3, <2>4, <2>5
<1> HIDE DEF T
<1>5. 0..N \subseteq T
  BY <1>2, <1>3, <1>4, UpTo
<1>6. Held(t[N]) = UpToN(N) /\ t[N] \in Splits(Seq(1..N))
  BY <1>2, <1>5 DEF T
<1>7. Closed(t[N]) \in Seq(Seq(1..N)) /\ FlattenSeq(Closed(t[N])) = Held(t[N])
  BY <1>6, ClosedHolds
<1> QED BY <1>2, <1>6, <1>7 DEF N

------------------------------------------------------------------------------
(* What a parser hands over.                                               *)

LEMMA PageTyped ==
  ASSUME NEW h \in Identities
  PROVE  /\ PagesOf[h] \in Seq(Seq([len : Nat \ {0}, mark : Nat]))
         /\ DOMAIN PagesOf[h] = 1..Len(PagesOf[h]) /\ Len(PagesOf[h]) \in Nat
         /\ \A p \in DOMAIN PagesOf[h] :
              /\ p \in Nat \ {0}
              /\ Page(h, p) \in Seq(Words) /\ Len(Page(h, p)) = Len(PagesOf[h][p])
              /\ PagesOf[h][p] = <<>> <=> Page(h, p) = <<>>
              /\ \A k \in 1..Len(PagesOf[h][p]) : Page(h, p)[k].mark = PagesOf[h][p][k].mark
<1>1. /\ PagesOf[h] \in Seq(Seq([len : Nat \ {0}, mark : Nat]))
      /\ DOMAIN PagesOf[h] = 1..Len(PagesOf[h]) /\ Len(PagesOf[h]) \in Nat
  BY SourcesAssumption
<1>2. ASSUME NEW p \in DOMAIN PagesOf[h]
      PROVE  /\ p \in Nat \ {0}
             /\ Page(h, p) \in Seq(Words) /\ Len(Page(h, p)) = Len(PagesOf[h][p])
             /\ PagesOf[h][p] = <<>> <=> Page(h, p) = <<>>
             /\ \A k \in 1..Len(PagesOf[h][p]) : Page(h, p)[k].mark = PagesOf[h][p][k].mark
  <2>1. p \in Nat \ {0}
    BY <1>1
  <2>2. PICK s \in Seq([len : Nat \ {0}, mark : Nat]) : s = PagesOf[h][p]
    BY <1>1
  <2>3. DOMAIN s = 1..Len(s) /\ Len(s) \in Nat
    OBVIOUS
  <2>4. \A k \in 1..Len(s) : Word(p, k, s[k].len, s[k].mark) \in Words
    <3> SUFFICES ASSUME NEW k \in 1..Len(s) PROVE Word(p, k, s[k].len, s[k].mark) \in Words
      OBVIOUS
    <3>1. s[k] \in [len : Nat \ {0}, mark : Nat] /\ k \in Nat
      <4>1. PICK R : R = [len : Nat \ {0}, mark : Nat]
        OBVIOUS
      <4>2. s \in Seq(R)
        BY <4>1
      <4>3. s[k] \in R
        BY <4>2, ElementOfSeq
      <4> QED BY <2>3, <4>1, <4>3
    <3>2. s[k].len \in Nat \ {0} /\ s[k].mark \in Nat
      BY <3>1
    <3> QED BY <2>1, <3>1, <3>2 DEF Word, Words
  <2>5. [k \in 1..Len(s) |-> Word(p, k, s[k].len, s[k].mark)] \in Seq(Words)
    BY <2>3, <2>4, IsASeq
  <2>6. Page(h, p) = [k \in 1..Len(s) |-> Word(p, k, s[k].len, s[k].mark)]
    BY <2>2, <2>3 DEF Page
  <2>7. Len(Page(h, p)) = Len(s)
    BY <2>3, <2>6
  <2>8. s = <<>> <=> Len(s) = 0
    BY EmptySeq
  <2>9. Page(h, p) = <<>> <=> Len(Page(h, p)) = 0
    BY <2>5, <2>6, EmptySeq
  <2>10. \A k \in 1..Len(s) : Page(h, p)[k].mark = s[k].mark
    BY <2>6 DEF Word
  <2> QED BY <2>1, <2>2, <2>5, <2>6, <2>7, <2>8, <2>9, <2>10
<1> QED BY <1>1, <1>2

LEMMA OcrTyped ==
  ASSUME NEW h \in Identities
  PROVE  /\ \A p \in DOMAIN PagesOf[h] : Header(h, p) \in Seq(Words)
         /\ [p \in DOMAIN PagesOf[h] |->
               IF PagesOf[h][p] = <<>> THEN <<>> ELSE Header(h, p) \o Page(h, p)] \in Seq(Seq(Words))
         /\ OcrText(h) \in Seq(Words)
<1>1. ASSUME NEW p \in DOMAIN PagesOf[h] PROVE Header(h, p) \in Seq(Words)
  <2>1. p \in Nat \ {0} /\ HeaderLength \in Nat \ {0}
    BY IndexingAssumption, PageTyped
  <2>2. Word(p, 0, HeaderLength, p) \in Words /\ Word(p, 0, HeaderLength, 0) \in Words
    BY <2>1 DEF Word, Words
  <2>3. NameOf[h][p] \in {"plain", "bracketed", "browser"}
    BY SourcesAssumption
  <2>4. <<>> \in Seq(Words)
    BY EmptySeq
  <2> QED BY <2>2, <2>3, <2>4 DEF Header
<1>2. ASSUME NEW p \in DOMAIN PagesOf[h]
      PROVE  (IF PagesOf[h][p] = <<>> THEN <<>> ELSE Header(h, p) \o Page(h, p)) \in Seq(Words)
  <2>1. Header(h, p) \o Page(h, p) \in Seq(Words)
    BY <1>1, PageTyped, ConcatProperties
  <2>2. <<>> \in Seq(Words)
    BY EmptySeq
  <2> QED BY <2>1, <2>2
<1>3. [p \in DOMAIN PagesOf[h] |->
         IF PagesOf[h][p] = <<>> THEN <<>> ELSE Header(h, p) \o Page(h, p)] \in Seq(Seq(Words))
  <2>1. DOMAIN PagesOf[h] = 1..Len(PagesOf[h]) /\ Len(PagesOf[h]) \in Nat
    BY PageTyped
  <2> QED BY <1>2, <2>1, IsASeq
<1> QED BY <1>1, <1>3, FlattenTyped DEF OcrText

(* A section ends before the next header.                                  *)
LEMMA SectionIs ==
  ASSUME NEW text \in Seq(Words), NEW i \in DOMAIN text
  PROVE  \E m \in Nat :
           /\ m = Min({j \in Marks(text) : j > i} \cup {Len(text) + 1})
           /\ m > i /\ m <= Len(text) + 1 /\ m \in Marks(text) \cup {Len(text) + 1}
           /\ \A j \in Marks(text) : j > i => m <= j
           /\ SectionAt(text, i) = SubSeq(text, i + 1, m - 1)
           /\ SectionAt(text, i) \in Seq(Words)
<1> DEFINE D == {j \in Marks(text) : j > i} \cup {Len(text) + 1}
<1>1. Len(text) \in Nat /\ DOMAIN text = 1..Len(text) /\ i \in 1..Len(text)
  OBVIOUS
<1>2. D \in SUBSET Nat /\ D # {}
  BY <1>1 DEF Marks
<1>3. PICK m \in D : \A n \in D : m <= n
  BY <1>2, Least
<1>4. m \in Nat /\ m = Min(D)
  <2>1. m \in Nat
    BY <1>2
  <2>2. Min(D) \in D /\ \A n \in D : Min(D) <= n
    BY <1>3 DEF Min
  <2>3. Min(D) \in Nat /\ m <= Min(D) /\ Min(D) <= m
    BY <1>2, <1>3, <2>2
  <2> QED BY <2>1, <2>3
<1>5. m > i /\ m <= Len(text) + 1 /\ m \in Marks(text) \cup {Len(text) + 1}
      /\ \A j \in Marks(text) : j > i => m <= j
  BY <1>1, <1>3 DEF Marks
<1>6. SectionAt(text, i) = SubSeq(text, i + 1, m - 1)
  BY <1>4 DEF SectionAt
<1>7. SubSeq(text, i + 1, m - 1) \in Seq(Words)
  <2>1. i + 1 \in Int /\ m - 1 \in Int /\ \A k \in (i + 1)..(m - 1) : text[k] \in Words
    <3>1. i + 1 \in Int /\ m - 1 \in Int
      BY <1>1, <1>4
    <3>2. \A k \in (i + 1)..(m - 1) : k \in 1..Len(text)
      BY <1>1, <1>4, <1>5
    <3> QED BY <3>1, <3>2
  <2> QED BY <2>1, SubSeqProperties
<1> QED BY <1>4, <1>5, <1>6, <1>7

LEMMA ImagePartTyped ==
  ASSUME NEW h \in Identities, NEW p \in DOMAIN PagesOf[h]
  PROVE  ImagePart(h, p) \in Seq(Words)
<1>1. OcrText(h) \in Seq(Words) /\ <<>> \in Seq(Words)
  BY OcrTyped, EmptySeq
<1>2. ASSUME NEW own, own = {i \in Marks(OcrText(h)) : OcrText(h)[i].mark = p}, own # {}
      PROVE  SectionAt(OcrText(h), CHOOSE i \in own : TRUE) \in Seq(Words)
  <2>1. (CHOOSE i \in own : TRUE) \in own
    BY <1>2
  <2>2. PICK text \in Seq(Words), i \in DOMAIN OcrText(h) :
          text = OcrText(h) /\ i = CHOOSE k \in own : TRUE
    BY <1>1, <1>2, <2>1 DEF Marks
  <2>3. i \in DOMAIN text
    BY <2>2
  <2>4. SectionAt(text, i) \in Seq(Words)
    BY <2>3, SectionIs
  <2> QED BY <2>2, <2>4
<1> QED BY <1>1, <1>2 DEF ImagePart

LEMMA PagesTyped ==
  ASSUME NEW kind \in Searchable, NEW h \in Identities
  PROVE  /\ kind \in {"image", "pdf", "url"}
         /\ PagesFor(kind, h) \in Seq(Seq(Words))
         /\ kind \in {"image", "pdf"} => DOMAIN PagesFor(kind, h) = DOMAIN PagesOf[h]
         /\ kind = "url" =>
              /\ [p \in DOMAIN PagesOf[h] |-> Page(h, p)] \in Seq(Seq(Words))
              /\ FlattenSeq([p \in DOMAIN PagesOf[h] |-> Page(h, p)]) \in Seq(Words)
              /\ PagesFor(kind, h) = <<FlattenSeq([p \in DOMAIN PagesOf[h] |-> Page(h, p)])>>
<1>1. kind \in {"image", "pdf", "url"}
  BY DEF Searchable, Kinds
<1>2. DOMAIN PagesOf[h] = 1..Len(PagesOf[h]) /\ Len(PagesOf[h]) \in Nat
  BY PageTyped
<1>3. [p \in DOMAIN PagesOf[h] |-> Page(h, p)] \in Seq(Seq(Words))
  <2>1. \A p \in 1..Len(PagesOf[h]) : Page(h, p) \in Seq(Words)
    BY <1>2, PageTyped
  <2> QED BY <1>2, <2>1, IsASeq
<1>4. [p \in DOMAIN PagesOf[h] |-> ImagePart(h, p)] \in Seq(Seq(Words))
  <2>1. \A p \in 1..Len(PagesOf[h]) : ImagePart(h, p) \in Seq(Words)
    BY <1>2, ImagePartTyped
  <2> QED BY <1>2, <2>1, IsASeq
<1>5. FlattenSeq([p \in DOMAIN PagesOf[h] |-> Page(h, p)]) \in Seq(Words)
  BY <1>3, FlattenTyped
<1>6. CASE kind = "image"
  BY <1>1, <1>4, <1>6 DEF PagesFor
<1>7. CASE kind = "pdf"
  BY <1>1, <1>3, <1>7 DEF PagesFor
<1>8. CASE kind = "url"
  <2>1. PagesFor(kind, h) = <<FlattenSeq([p \in DOMAIN PagesOf[h] |-> Page(h, p)])>>
    BY <1>8 DEF PagesFor
  <2>2. PICK words \in Seq(Words) : words = FlattenSeq([p \in DOMAIN PagesOf[h] |-> Page(h, p)])
    BY <1>5
  <2>3. <<words>> \in Seq(Seq(Words))
    OBVIOUS
  <2> QED BY <1>1, <1>3, <1>5, <1>8, <2>1, <2>2, <2>3
<1> QED BY <1>1, <1>6, <1>7, <1>8

(* Where the images lie in the text of the OCR tool.                       *)
Sections(h, starts) ==
  LET N == Len(PagesOf[h])
      text == OcrText(h)
  IN  /\ \A q \in 0..N : starts[q] \in Nat
      /\ \A q, r \in 0..N : q <= r => starts[q] <= starts[r]
      /\ starts[N] = Len(text) /\ text \in Seq(Words)
      /\ \A q \in 1..N :
           IF PagesOf[h][q] = <<>> THEN starts[q] = starts[q - 1]
           ELSE /\ starts[q] = starts[q - 1] + 1 + Len(Page(h, q))
                /\ text[starts[q - 1] + 1].mark = q
                /\ \A k \in 1..Len(Page(h, q)) : text[starts[q - 1] + 1 + k] = Page(h, q)[k]
      /\ \A i \in 1..Len(text) :
           \E q \in 1..N : /\ PagesOf[h][q] # <<>>
                           /\ \/ i = starts[q - 1] + 1
                              \/ \E k \in 1..Len(Page(h, q)) : i = starts[q - 1] + 1 + k

LEMMA SectionsAre ==
  ASSUME NEW h \in Identities, Unambiguous(h)
  PROVE  \E starts : Sections(h, starts)
<1> DEFINE N == Len(PagesOf[h])
           ss == [q \in DOMAIN PagesOf[h] |->
                    IF PagesOf[h][q] = <<>> THEN <<>> ELSE Header(h, q) \o Page(h, q)]
           text == OcrText(h)
<1>1. N \in Nat /\ DOMAIN PagesOf[h] = 1..N
  BY PageTyped
<1>2. ss \in Seq(Seq(Words)) /\ Len(ss) = N /\ text \in Seq(Words) /\ text = FlattenSeq(ss)
  <2>1. ss \in Seq(Seq(Words)) /\ text \in Seq(Words)
    BY OcrTyped
  <2>2. text = FlattenSeq(ss)
    BY DEF OcrText
  <2>3. Len(ss) = N
    BY <1>1, <2>1
  <2> QED BY <2>1, <2>2, <2>3
<1>3. ASSUME NEW q \in 1..N, PagesOf[h][q] # <<>>
      PROVE  /\ Len(ss[q]) = 1 + Len(Page(h, q)) /\ Len(Page(h, q)) \in Nat
             /\ ss[q][1].mark = q
             /\ \A k \in 1..Len(Page(h, q)) : ss[q][1 + k] = Page(h, q)[k]
  <2>1. Header(h, q) = <<Word(q, 0, HeaderLength, q)>> /\ Header(h, q) \in Seq(Words)
    BY <1>1, OcrTyped DEF Header, Unambiguous
  <2>2. PICK a \in Seq(Words), b \in Seq(Words) : a = Header(h, q) /\ b = Page(h, q)
    BY <1>1, <2>1, PageTyped
  <2>3. Len(a) = 1 /\ a[1] = Word(q, 0, HeaderLength, q) /\ Len(b) \in Nat
    BY <2>1, <2>2
  <2>4. ss[q] = a \o b
    BY <1>1, <1>3, <2>2
  <2>5. /\ Len(a \o b) = Len(a) + Len(b)
        /\ \A i \in 1..Len(a) + Len(b) : (a \o b)[i] = IF i <= Len(a) THEN a[i] ELSE b[i - Len(a)]
    BY ConcatProperties
  <2>6. (a \o b)[1] = a[1]
    <3>1. 1 \in 1..Len(a) + Len(b) /\ 1 <= Len(a)
      BY <2>3
    <3> QED BY <2>5, <3>1
  <2>7. ASSUME NEW k \in 1..Len(b) PROVE (a \o b)[1 + k] = b[k]
    <3>1. 1 + k \in 1..Len(a) + Len(b) /\ ~(1 + k <= Len(a)) /\ (1 + k) - Len(a) = k
      BY <2>3
    <3> QED BY <2>5, <3>1
  <2> HIDE DEF ss
  <2> QED BY <2>2, <2>3, <2>4, <2>5, <2>6, <2>7 DEF Word
<1>4. ASSUME NEW q \in 1..N, PagesOf[h][q] = <<>> PROVE Len(ss[q]) = 0
  BY <1>1, <1>4
<1> HIDE DEF ss, text
<1>5. PICK starts : Starts(starts, ss)
  BY <1>2, FlattenPlaces
<1>6. /\ \A q \in 0..N : starts[q] \in Nat
      /\ \A q \in 1..N : starts[q] = starts[q - 1] + Len(ss[q])
      /\ \A q, r \in 0..N : q <= r => starts[q] <= starts[r]
      /\ starts[N] = Len(text)
      /\ \A q \in 1..N : \A k \in 1..Len(ss[q]) : text[starts[q - 1] + k] = ss[q][k]
      /\ \A i \in 1..Len(text) : \E q \in 1..N : \E k \in 1..Len(ss[q]) : i = starts[q - 1] + k
  <2>1. PICK n, z : n = Len(ss) /\ z = FlattenSeq(ss)
    OBVIOUS
  <2>2. /\ \A q \in 0..n : starts[q] \in Nat
        /\ \A q \in 1..n : starts[q] = starts[q - 1] + Len(ss[q])
        /\ \A q, r \in 0..n : q <= r => starts[q] <= starts[r]
        /\ starts[n] = Len(z)
        /\ \A q \in 1..n : \A k \in 1..Len(ss[q]) : z[starts[q - 1] + k] = ss[q][k]
        /\ \A i \in 1..Len(z) : \E q \in 1..n : \E k \in 1..Len(ss[q]) : i = starts[q - 1] + k
    BY <1>5, <2>1 DEF Starts
  <2>3. n = N /\ z = text
    BY <1>2, <2>1
  <2> QED BY <2>2, <2>3
<1>10. ASSUME NEW q \in 1..N
       PROVE  IF PagesOf[h][q] = <<>> THEN starts[q] = starts[q - 1]
              ELSE /\ starts[q] = starts[q - 1] + 1 + Len(Page(h, q))
                   /\ text[starts[q - 1] + 1].mark = q
                   /\ \A k \in 1..Len(Page(h, q)) : text[starts[q - 1] + 1 + k] = Page(h, q)[k]
  <2>1. q \in 0..N /\ q - 1 \in 0..N
    BY <1>1
  <2>2. PICK a \in Nat, b \in Nat : a = starts[q - 1] /\ b = starts[q] /\ b = a + Len(ss[q])
    BY <1>6, <2>1
  <2>3. \A k \in 1..Len(ss[q]) : text[a + k] = ss[q][k]
    BY <1>6, <2>2
  <2>4. CASE PagesOf[h][q] = <<>>
    BY <1>4, <2>2, <2>4
  <2>5. CASE PagesOf[h][q] # <<>>
    <3>1. /\ Len(ss[q]) = 1 + Len(Page(h, q)) /\ Len(Page(h, q)) \in Nat
          /\ ss[q][1].mark = q
          /\ \A k \in 1..Len(Page(h, q)) : ss[q][1 + k] = Page(h, q)[k]
      BY <1>3, <2>5
    <3>2. b = a + 1 + Len(Page(h, q))
      <4>1. PICK c \in Nat : c = Len(Page(h, q))
        BY <3>1
      <4>2. Len(ss[q]) = 1 + c
        BY <3>1, <4>1
      <4>3. b = a + (1 + c)
        BY <2>2, <4>2
      <4>4. b = a + 1 + c
        BY <4>1, <4>3
      <4> QED BY <4>1, <4>4
    <3>3. text[a + 1].mark = q
      BY SMTT(30), <2>3, <3>1
    <3>4. ASSUME NEW k \in 1..Len(Page(h, q)) PROVE text[a + 1 + k] = Page(h, q)[k]
      <4>1. 1 + k \in 1..Len(ss[q]) /\ a + (1 + k) = a + 1 + k
        BY <3>1
      <4>2. text[a + (1 + k)] = ss[q][1 + k]
        BY <2>3, <4>1
      <4> QED BY <3>1, <4>1, <4>2
    <3> QED BY <2>2, <2>5, <3>2, <3>3, <3>4
  <2> QED BY <2>4, <2>5
<1>11. ASSUME NEW i \in 1..Len(text)
       PROVE  \E q \in 1..N : /\ PagesOf[h][q] # <<>>
                              /\ \/ i = starts[q - 1] + 1
                                 \/ \E k \in 1..Len(Page(h, q)) : i = starts[q - 1] + 1 + k
  <2>1. PICK q \in 1..N : \E k \in 1..Len(ss[q]) : i = starts[q - 1] + k
    BY <1>6
  <2>2. PICK k \in 1..Len(ss[q]) : i = starts[q - 1] + k
    BY <2>1
  <2>3. q - 1 \in 0..N
    BY <1>1
  <2>4. PICK a \in Nat : a = starts[q - 1] /\ i = a + k
    BY <1>6, <2>2, <2>3
  <2>5. PagesOf[h][q] # <<>>
    BY <1>4, <2>2
  <2>6. Len(ss[q]) = 1 + Len(Page(h, q)) /\ Len(Page(h, q)) \in Nat
    BY <1>3, <2>5
  <2>7. CASE k = 1
    BY <2>4, <2>5, <2>7
  <2>8. CASE k # 1
    <3>1. k - 1 \in 1..Len(Page(h, q)) /\ i = a + 1 + (k - 1)
      <4>1. PICK c \in Nat : c = Len(Page(h, q))
        BY <2>6
      <4>2. k \in 1..(1 + c)
        BY <2>6, <4>1
      <4>3. k - 1 \in 1..c /\ i = a + 1 + (k - 1)
        BY <2>4, <2>8, <4>2
      <4> QED BY <4>1, <4>3
    <3> QED BY <2>4, <2>5, <3>1
  <2> QED BY <2>7, <2>8
<1>12. Sections(h, starts)
  BY <1>2, <1>6, <1>10, <1>11 DEF Sections, text, N
<1> QED BY <1>12

(* The headers are the only marks, and mark the image they stand before.   *)
LEMMA MarksAre ==
  ASSUME NEW h \in Identities, Unambiguous(h), NEW starts, Sections(h, starts)
  PROVE  /\ \A i \in Marks(OcrText(h)) :
              \E q \in 1..Len(PagesOf[h]) :
                /\ PagesOf[h][q] # <<>> /\ i = starts[q - 1] + 1
                /\ OcrText(h)[i].mark = q
         /\ \A q \in 1..Len(PagesOf[h]) :
              PagesOf[h][q] # <<>> => starts[q - 1] + 1 \in Marks(OcrText(h))
<1> DEFINE N == Len(PagesOf[h])
           text == OcrText(h)
<1>1. N \in Nat /\ DOMAIN PagesOf[h] = 1..N
  BY PageTyped
<1>2. /\ \A q \in 0..N : starts[q] \in Nat
      /\ \A q, r \in 0..N : q <= r => starts[q] <= starts[r]
      /\ starts[N] = Len(text) /\ text \in Seq(Words) /\ DOMAIN text = 1..Len(text)
      /\ \A q \in 1..N : PagesOf[h][q] # <<>> =>
           /\ starts[q] = starts[q - 1] + 1 + Len(Page(h, q))
           /\ text[starts[q - 1] + 1].mark = q
           /\ \A k \in 1..Len(Page(h, q)) : text[starts[q - 1] + 1 + k] = Page(h, q)[k]
      /\ \A i \in 1..Len(text) :
           \E q \in 1..N : /\ PagesOf[h][q] # <<>>
                           /\ \/ i = starts[q - 1] + 1
                              \/ \E k \in 1..Len(Page(h, q)) : i = starts[q - 1] + 1 + k
  <2>1. text \in Seq(Words)
    BY DEF Sections
  <2>2. DOMAIN text = 1..Len(text)
    BY <2>1
  <2> QED BY <2>1, <2>2 DEF Sections
<1> HIDE DEF text
<1>3. ASSUME NEW i \in Marks(text)
      PROVE  \E q \in 1..N : PagesOf[h][q] # <<>> /\ i = starts[q - 1] + 1 /\ text[i].mark = q
  <2>1. i \in 1..Len(text) /\ text[i].mark # 0
    BY <1>2 DEF Marks
  <2>2. PICK q \in 1..N : /\ PagesOf[h][q] # <<>>
                          /\ \/ i = starts[q - 1] + 1
                             \/ \E k \in 1..Len(Page(h, q)) : i = starts[q - 1] + 1 + k
    BY <1>2, <2>1
  <2>3. ASSUME NEW k \in 1..Len(Page(h, q)), i = starts[q - 1] + 1 + k PROVE FALSE
    <3>1. text[i] = Page(h, q)[k]
      BY <1>2, <2>2, <2>3
    <3>2. k \in 1..Len(PagesOf[h][q]) /\ Page(h, q)[k].mark = PagesOf[h][q][k].mark
      BY <1>1, PageTyped
    <3>3. PagesOf[h][q][k] \in ToSet(PagesOf[h][q])
      <4>1. PICK s \in Seq([len : Nat \ {0}, mark : Nat]) : s = PagesOf[h][q]
        BY <1>1, PageTyped
      <4>2. s[k] \in ToSet(s)
        BY <3>2, <4>1 DEF ToSet
      <4> QED BY <4>1, <4>2
    <3>4. PagesOf[h][q][k].mark = 0
      BY <1>1, <3>3 DEF Unambiguous
    <3> QED BY <2>1, <3>1, <3>2, <3>4
  <2>4. i = starts[q - 1] + 1
    BY <2>2, <2>3
  <2> QED BY <1>2, <2>2, <2>4
<1>4. ASSUME NEW q \in 1..N, PagesOf[h][q] # <<>> PROVE starts[q - 1] + 1 \in Marks(text)
  <2>1. q - 1 \in 0..N /\ q \in 0..N /\ N \in 0..N /\ q <= N
    BY <1>1
  <2>2. PICK a \in Nat, b \in Nat, c \in Nat, n \in Nat :
          a = starts[q - 1] /\ b = starts[q] /\ c = Len(Page(h, q)) /\ n = Len(text)
    <3>1. starts[q - 1] \in Nat /\ starts[q] \in Nat
      BY <1>2, <2>1
    <3>2. Page(h, q) \in Seq(Words)
      BY <1>1, PageTyped
    <3>3. Len(Page(h, q)) \in Nat
      BY <3>2
    <3>4. Len(text) \in Nat
      BY <1>2
    <3> QED BY <3>1, <3>3, <3>4
  <2>3. b = a + 1 + c /\ text[a + 1].mark = q
    BY <1>2, <1>4, <2>2
  <2>4. b <= n
    BY <1>2, <2>1, <2>2
  <2>5. a + 1 \in 1..n /\ q # 0
    BY <1>1, <2>3, <2>4
  <2> QED BY <1>2, <2>2, <2>3, <2>5 DEF Marks
<1> QED BY <1>3, <1>4 DEF text

(* With unambiguous names and texts the section of an image is the text of *)
(* the image.                                                              *)
LEMMA ImageIsPage ==
  ASSUME NEW h \in Identities, Unambiguous(h), NEW p \in DOMAIN PagesOf[h]
  PROVE  ImagePart(h, p) = Page(h, p)
<1> DEFINE N == Len(PagesOf[h])
           text == OcrText(h)
           own == {i \in Marks(text) : text[i].mark = p}
<1>1. N \in Nat /\ DOMAIN PagesOf[h] = 1..N /\ p \in 1..N
  BY PageTyped
<1>2. PICK starts : Sections(h, starts)
  BY SectionsAre
<1>3. /\ \A q \in 0..N : starts[q] \in Nat
      /\ \A q, r \in 0..N : q <= r => starts[q] <= starts[r]
      /\ starts[N] = Len(text) /\ text \in Seq(Words)
      /\ \A q \in 1..N : PagesOf[h][q] # <<>> =>
           /\ starts[q] = starts[q - 1] + 1 + Len(Page(h, q))
           /\ text[starts[q - 1] + 1].mark = q
           /\ \A k \in 1..Len(Page(h, q)) : text[starts[q - 1] + 1 + k] = Page(h, q)[k]
      /\ \A i \in 1..Len(text) :
           \E q \in 1..N : /\ PagesOf[h][q] # <<>>
                           /\ \/ i = starts[q - 1] + 1
                              \/ \E k \in 1..Len(Page(h, q)) : i = starts[q - 1] + 1 + k
  BY <1>2 DEF Sections
<1>4. /\ \A i \in Marks(text) : \E q \in 1..N :
           PagesOf[h][q] # <<>> /\ i = starts[q - 1] + 1 /\ text[i].mark = q
      /\ \A q \in 1..N : PagesOf[h][q] # <<>> => starts[q - 1] + 1 \in Marks(text)
  BY <1>2, MarksAre
<1>5. ImagePart(h, p) =
        IF Marks(text) = {} THEN IF N = 1 THEN text ELSE <<>>
        ELSE IF own = {} THEN <<>> ELSE SectionAt(text, CHOOSE i \in own : TRUE)
  BY DEF ImagePart
<1> HIDE DEF text, own
<1>6. CASE PagesOf[h][p] = <<>>
  <2>1. Page(h, p) = <<>>
    BY <1>1, <1>6, PageTyped
  <2>2. own = {}
    BY <1>4, <1>6 DEF own
  <2>3. ASSUME Marks(text) = {} PROVE text = <<>>
    <3>1. ASSUME NEW i \in 1..Len(text) PROVE FALSE
      BY <1>3, <1>4, <2>3
    <3>2. Len(text) \in Nat
      BY <1>3
    <3>3. Len(text) = 0
      <4>1. Len(text) # 0 => 1 \in 1..Len(text)
        BY <3>2
      <4> QED BY <3>1, <4>1
    <3> QED BY <1>3, <3>3, EmptySeq
  <2> QED BY <1>5, <2>1, <2>2, <2>3
<1>7. CASE PagesOf[h][p] # <<>>
  <2>1. p - 1 \in 0..N /\ p \in 0..N /\ N \in 0..N /\ p <= N
    BY <1>1
  <2>2. PICK a \in Nat, e \in Nat, c \in Nat, n \in Nat :
          a = starts[p - 1] /\ e = starts[p] /\ c = Len(Page(h, p)) /\ n = Len(text)
    <3>1. starts[p - 1] \in Nat /\ starts[p] \in Nat
      BY <1>3, <2>1
    <3>2. Page(h, p) \in Seq(Words)
      BY <1>1, PageTyped
    <3>3. Len(Page(h, p)) \in Nat
      BY <3>2
    <3>4. Len(text) \in Nat
      BY <1>3
    <3> QED BY <3>1, <3>3, <3>4
  <2>3. /\ e = a + 1 + c /\ text[a + 1].mark = p /\ a + 1 \in Marks(text) /\ e <= n
        /\ \A k \in 1..c : text[a + 1 + k] = Page(h, p)[k]
    <3>1. e = a + 1 + c /\ text[a + 1].mark = p /\ \A k \in 1..c : text[a + 1 + k] = Page(h, p)[k]
      BY <1>3, <1>7, <1>1, <2>2
    <3>2. a + 1 \in Marks(text)
      BY <1>1, <1>4, <1>7, <2>2
    <3>3. e <= n
      BY <1>3, <2>1, <2>2
    <3> QED BY <3>1, <3>2, <3>3
  <2>4. own = {a + 1}
    <3>1. a + 1 \in own
      BY <2>3 DEF own
    <3>2. ASSUME NEW i \in own PROVE i = a + 1
      <4>1. i \in Marks(text) /\ text[i].mark = p
        BY DEF own
      <4>2. PICK q \in 1..N : i = starts[q - 1] + 1 /\ text[i].mark = q
        BY <1>4, <4>1
      <4> QED BY <2>2, <4>1, <4>2
    <3> QED BY <3>1, <3>2
  <2>5. ImagePart(h, p) = SectionAt(text, a + 1)
    BY <1>5, <2>3, <2>4
  <2>6. a + 1 \in DOMAIN text
    BY <2>3 DEF Marks
  <2>7. PICK m \in Nat :
          /\ m > a + 1 /\ m <= n + 1 /\ m \in Marks(text) \cup {n + 1}
          /\ \A j \in Marks(text) : j > a + 1 => m <= j
          /\ SectionAt(text, a + 1) = SubSeq(text, (a + 1) + 1, m - 1)
          /\ SectionAt(text, a + 1) \in Seq(Words)
    BY <1>3, <2>2, <2>6, SectionIs
  <2>8. m <= e + 1
    <3>1. CASE e = n
      BY <2>7, <3>1
    <3>2. CASE e # n
      <4>1. e + 1 \in 1..n
        BY <2>3, <3>2
      <4>2. PICK q \in 1..N : /\ PagesOf[h][q] # <<>>
                              /\ \/ e + 1 = starts[q - 1] + 1
                                 \/ \E k \in 1..Len(Page(h, q)) : e + 1 = starts[q - 1] + 1 + k
        BY <1>3, <2>2, <4>1
      <4>3. q - 1 \in 0..N /\ q \in 0..N
        BY <1>1
      <4>4. PICK b \in Nat, f \in Nat, d \in Nat :
              b = starts[q - 1] /\ f = starts[q] /\ d = Len(Page(h, q))
        <5>1. starts[q - 1] \in Nat /\ starts[q] \in Nat
          BY <1>3, <4>3
        <5>2. Page(h, q) \in Seq(Words)
          BY <1>1, PageTyped
        <5>3. Len(Page(h, q)) \in Nat
          BY <5>2
        <5> QED BY <5>1, <5>3
      <4>5. f = b + 1 + d
        BY <1>3, <4>2, <4>4
      <4>6. CASE e + 1 = b + 1
        <5>1. e + 1 \in Marks(text)
          BY <1>4, <4>2, <4>4, <4>6
        <5>2. e + 1 > a + 1
          BY <2>3
        <5> QED BY <2>7, <5>1, <5>2
      <4>7. ASSUME NEW k \in 1..d, e + 1 = b + 1 + k PROVE FALSE
        <5>1. b < e /\ e < f
          BY <4>5, <4>7
        <5>2. q <= p => f <= e
          BY <1>3, <2>1, <2>2, <4>3, <4>4
        <5>3. p <= q - 1 => e <= b
          BY <1>3, <2>1, <2>2, <4>3, <4>4
        <5>4. q <= p \/ p <= q - 1
          BY <1>1
        <5> QED BY <5>1, <5>2, <5>3, <5>4
      <4> QED BY <4>2, <4>4, <4>6, <4>7
    <3> QED BY <3>1, <3>2
  <2>9. m >= e + 1
    <3>1. CASE m = n + 1
      BY <2>3, <3>1
    <3>2. CASE m \in Marks(text)
      <4>1. PICK q \in 1..N : m = starts[q - 1] + 1
        BY <1>4, <3>2
      <4>2. q - 1 \in 0..N
        BY <1>1
      <4>3. PICK b \in Nat : b = starts[q - 1] /\ m = b + 1
        BY <1>3, <4>1, <4>2
      <4>4. b > a
        BY <2>7, <4>3
      <4>5. q - 1 <= p - 1 => b <= a
        BY <1>3, <2>1, <2>2, <4>2, <4>3
      <4>6. p <= q - 1 => e <= b
        BY <1>3, <2>1, <2>2, <4>2, <4>3
      <4>7. q - 1 <= p - 1 \/ p <= q - 1
        BY <1>1
      <4> QED BY <4>3, <4>4, <4>5, <4>6, <4>7
    <3> QED BY <2>7, <3>1, <3>2
  <2>10. m - 1 = e
    BY <2>8, <2>9
  <2>11. PICK z \in Seq(Words) : z = SubSeq(text, (a + 1) + 1, e) /\ z = ImagePart(h, p)
    BY <2>5, <2>7, <2>10
  <2>12. Len(z) = c /\ \A k \in 1..c : z[k] = text[a + 1 + k]
    <3>1. (a + 1) + 1 \in Int /\ e \in Int /\ (a + 1) + 1 <= e + 1 /\ e - ((a + 1) + 1) + 1 = c
      BY <2>3
    <3>2. Len(z) = c
      BY <2>11, <3>1, SubSeqProperties
    <3>3. ASSUME NEW k \in 1..c PROVE z[k] = text[a + 1 + k]
      <4>1. z[k] = text[(a + 1) + 1 + k - 1]
        BY <2>11, <3>1
      <4>2. (a + 1) + 1 + k - 1 = a + 1 + k
        OBVIOUS
      <4> QED BY <4>1, <4>2
    <3> QED BY <3>2, <3>3
  <2>13. PICK y \in Seq(Words) : y = Page(h, p)
    BY <1>1, PageTyped
  <2>14. Len(y) = Len(z) /\ \A k \in 1..Len(z) : z[k] = y[k]
    BY <2>2, <2>3, <2>12, <2>13
  <2>15. z = y
    BY <2>14, SeqEqual
  <2> QED BY <2>11, <2>13, <2>15
<1> QED BY <1>6, <1>7

------------------------------------------------------------------------------
(* The drafts of a source say what its pages say.                          *)

DraftSet == [text : Chunks, locator : [page : Nat, chunk : Nat]]

(* What a draft contributes to the text of a page.                         *)
Cite(p) == [d \in DraftSet |-> IF d.locator.page = p THEN d.text ELSE <<>>]

(* The page the drafts of a page cite: those of an article cite none.      *)
Cited(kind, p) == IF kind = "url" THEN 0 ELSE p

LEMMA ChunksArePieces == Chunks \subseteq Seq(Pieces) /\ <<>> \in Seq(Pieces)
BY EmptySeq DEF Chunks

LEMMA CiteTyped ==
  ASSUME NEW p
  PROVE  Maps(Cite(p), DraftSet, Seq(Pieces))
<1>1. \A d \in DraftSet : (IF d.locator.page = p THEN d.text ELSE <<>>) \in Seq(Pieces)
  BY ChunksArePieces DEF DraftSet
<1> QED BY <1>1 DEF Maps, Cite

LEMMA PageDrafts ==
  ASSUME NEW kind \in Searchable, NEW q \in Nat, NEW words \in Seq(Words)
  PROVE  /\ DraftsOfPage(kind, q, words) \in Seq(DraftSet)
         /\ words # <<>> => DraftsOfPage(kind, q, words) # <<>>
         /\ \A p : Spread(Cite(p), DraftsOfPage(kind, q, words)) =
                     IF Cited(kind, q) = p THEN FlattenSeq(Split(words)) ELSE <<>>
<1> DEFINE draft(k) == [text |-> Split(words)[k], locator |-> Locator(kind, q, k)]
<1>1. PICK pieces \in Seq(Chunks) : pieces = Split(words)
  BY SplitHolds
<1>2. DOMAIN pieces = 1..Len(pieces) /\ Len(pieces) \in Nat
  OBVIOUS
<1>3. ASSUME NEW k \in 1..Len(pieces)
      PROVE  /\ draft(k) \in DraftSet /\ draft(k).text = pieces[k]
             /\ draft(k).locator.page = Cited(kind, q)
  <2>1. kind \in {"image", "pdf", "url"} /\ k \in Nat
    <3>1. kind \in {"image", "pdf", "url"}
      BY DEF Searchable, Kinds
    <3> QED BY <1>2, <3>1
  <2>2. Locator(kind, q, k) \in [page : Nat, chunk : Nat] /\ Locator(kind, q, k).page = Cited(kind, q)
    BY <2>1 DEF Locator, Cited
  <2>3. pieces[k] \in Chunks
    OBVIOUS
  <2> QED BY <1>1, <2>2, <2>3 DEF DraftSet
<1> HIDE DEF draft
<1>4. PICK s \in Seq(DraftSet) : s = [k \in 1..Len(pieces) |-> draft(k)]
  <2>1. [k \in 1..Len(pieces) |-> draft(k)] \in Seq(DraftSet)
    BY <1>2, <1>3, IsASeq
  <2> QED BY <2>1
<1>5. DraftsOfPage(kind, q, words) = s
  BY <1>1, <1>2, <1>4 DEF DraftsOfPage, draft
<1>6. Len(s) = Len(pieces) /\ \A k \in 1..Len(s) : s[k] = draft(k)
  BY <1>2, <1>4
<1>7. ASSUME words # <<>> PROVE s # <<>>
  <2>1. pieces # <<>>
    BY <1>1, <1>7, SplitHolds
  <2>2. Len(pieces) # 0
    BY <2>1, EmptySeq
  <2> QED BY <1>6, <2>2, EmptySeq
<1>8. ASSUME NEW p
      PROVE  Spread(Cite(p), s) = IF Cited(kind, q) = p THEN FlattenSeq(Split(words)) ELSE <<>>
  <2>1. PICK zz \in Seq(Seq(Pieces)) : zz = Applied(Cite(p), s)
    BY CiteTyped, AppliedIs
  <2>2. Len(zz) = Len(s) /\ \A k \in 1..Len(s) : zz[k] = Cite(p)[s[k]] /\ s[k] \in DraftSet
    BY <2>1, CiteTyped, AppliedIs
  <2>3. Spread(Cite(p), s) = FlattenSeq(zz)
    BY <2>1 DEF Spread
  <2>4. ASSUME NEW k \in 1..Len(s) PROVE zz[k] = IF Cited(kind, q) = p THEN pieces[k] ELSE <<>>
    <3>1. PICK d \in DraftSet : d = s[k] /\ d.text = pieces[k] /\ d.locator.page = Cited(kind, q)
      BY <1>3, <1>6, <2>2
    <3>2. Cite(p)[d] = IF d.locator.page = p THEN d.text ELSE <<>>
      BY DEF Cite
    <3> QED BY <2>2, <3>1, <3>2
  <2>5. CASE Cited(kind, q) = p
    <3>1. \A k \in 1..Len(zz) : zz[k] = pieces[k]
      BY <2>2, <2>4, <2>5
    <3>2. pieces \in Seq(Seq(Pieces))
      BY ChunksArePieces
    <3>3. zz = pieces
      BY <1>6, <2>2, <3>1, <3>2, SeqEqual
    <3> QED BY <1>1, <2>3, <2>5, <3>3
  <2>6. CASE Cited(kind, q) # p
    <3>1. \A k \in 1..Len(zz) : zz[k] = <<>>
      BY <2>2, <2>4, <2>6
    <3>2. FlattenSeq(zz) = <<>>
      BY <3>1, FlattenNone
    <3> QED BY <2>3, <2>6, <3>2
  <2> QED BY <2>5, <2>6
<1> QED BY <1>5, <1>7, <1>8

LEMMA DraftsHold ==
  ASSUME NEW kind \in Searchable, NEW h \in Identities
  PROVE  /\ DraftsOf(kind, h) \in Seq(DraftSet)
         /\ Parsed(kind, h) => DraftsOf(kind, h) # <<>>
         /\ \A p \in DOMAIN PagesFor(kind, h) :
              Letters(Spread(Cite(Cited(kind, p)), DraftsOf(kind, h))) =
                Spread(LettersOfWord, PagesFor(kind, h)[p])
<1>1. PICK pages \in Seq(Seq(Words)) : pages = PagesFor(kind, h)
  BY PagesTyped
<1>2. DOMAIN pages = 1..Len(pages) /\ Len(pages) \in Nat /\ \A q \in 1..Len(pages) : q \in Nat /\ pages[q] \in Seq(Words)
  OBVIOUS
<1>3. \A q \in 1..Len(pages) : DraftsOfPage(kind, q, pages[q]) \in Seq(DraftSet)
  BY <1>2, PageDrafts
<1>4. PICK ss \in Seq(Seq(DraftSet)) : ss = [q \in 1..Len(pages) |-> DraftsOfPage(kind, q, pages[q])]
  <2>1. [q \in 1..Len(pages) |-> DraftsOfPage(kind, q, pages[q])] \in Seq(Seq(DraftSet))
    BY <1>2, <1>3, IsASeq
  <2> QED BY <2>1
<1>5. /\ Len(ss) = Len(pages) /\ DOMAIN ss = 1..Len(pages)
      /\ \A q \in 1..Len(pages) : ss[q] = DraftsOfPage(kind, q, pages[q])
  BY <1>2, <1>4
<1>6. DraftsOf(kind, h) = FlattenSeq(ss)
  BY <1>1, <1>2, <1>4 DEF DraftsOf
<1>7. FlattenSeq(ss) \in Seq(DraftSet)
  BY FlattenTyped
<1>8. ASSUME Parsed(kind, h) PROVE FlattenSeq(ss) # <<>>
  <2>1. PICK p \in 1..Len(pages) : ToSet(pages[p]) # {}
    BY <1>1, <1>2, <1>8 DEF Parsed
  <2>2. pages[p] # <<>>
    <3>1. ToSet(<<>>) = {}
      BY DEF ToSet
    <3> QED BY <2>1, <3>1
  <2>3. ss[p] # <<>>
    BY <1>2, <1>5, <2>2, PageDrafts
  <2> QED BY <1>5, <2>3, FlattenSome
<1>9. ASSUME NEW p \in 1..Len(pages)
      PROVE  Letters(Spread(Cite(Cited(kind, p)), FlattenSeq(ss))) = Spread(LettersOfWord, pages[p])
  <2> DEFINE c == Cited(kind, p)
  <2>1. PICK zz : zz = [i \in DOMAIN ss |-> Spread(Cite(c), ss[i])]
    OBVIOUS
  <2>2. Spread(Cite(c), FlattenSeq(ss)) = FlattenSeq(zz)
    BY <2>1, CiteTyped, SpreadFlatten
  <2>3. ASSUME NEW q \in 1..Len(pages) PROVE Cited(kind, q) = c <=> q = p
    <3>1. kind = "url" => Len(pages) = 1
      <4>1. kind = "url" =>
              pages = <<FlattenSeq([i \in DOMAIN PagesOf[h] |-> Page(h, i)])>>
        BY <1>1, PagesTyped
      <4> QED BY <4>1
    <3>2. CASE kind = "url"
      <4>1. Len(pages) = 1
        BY <3>1, <3>2
      <4>2. q = 1 /\ p = 1
        BY <4>1
      <4> QED BY <4>2
    <3>3. CASE kind # "url"
      BY <3>3 DEF Cited
    <3> QED BY <3>2, <3>3
  <2> HIDE DEF c
  <2>4. ASSUME NEW q \in 1..Len(pages)
        PROVE  /\ Spread(Cite(c), ss[q]) = (IF q = p THEN FlattenSeq(Split(pages[q])) ELSE <<>>)
               /\ Spread(Cite(c), ss[q]) \in Seq(Pieces)
    <3>1. q \in Nat /\ pages[q] \in Seq(Words) /\ ss[q] = DraftsOfPage(kind, q, pages[q])
      BY <1>2, <1>5
    <3>2. Spread(Cite(c), DraftsOfPage(kind, q, pages[q])) =
            IF Cited(kind, q) = c THEN FlattenSeq(Split(pages[q])) ELSE <<>>
      BY <3>1, PageDrafts
    <3>3. FlattenSeq(Split(pages[q])) \in Seq(Pieces)
      <4>1. Split(pages[q]) \in Seq(Chunks)
        BY <3>1, SplitHolds
      <4>2. Split(pages[q]) \in Seq(Seq(Pieces))
        BY <4>1, ChunksArePieces
      <4> QED BY <4>2, FlattenTyped
    <3> QED BY <2>3, <3>1, <3>2, <3>3, ChunksArePieces
  <2>5. zz \in Seq(Seq(Pieces)) /\ Len(zz) = Len(pages)
        /\ \A q \in 1..Len(pages) : zz[q] = Spread(Cite(c), ss[q])
    <3>1. zz = [q \in 1..Len(pages) |-> Spread(Cite(c), ss[q])]
      BY <1>5, <2>1
    <3>2. zz \in Seq(Seq(Pieces))
      BY <1>2, <2>4, <3>1, IsASeq
    <3> QED BY <1>2, <3>1, <3>2
  <2>6. FlattenSeq(zz) = zz[p]
    <3>1. \A q \in 1..Len(zz) : q # p => zz[q] = <<>>
      BY <2>4, <2>5
    <3>2. p \in 1..Len(zz)
      BY <2>5
    <3> QED BY <2>5, <3>1, <3>2, FlattenOnly
  <2>7. zz[p] = FlattenSeq(Split(pages[p]))
    BY <2>4, <2>5
  <2>8. Letters(FlattenSeq(Split(pages[p]))) = Spread(LettersOfWord, pages[p])
    BY <1>2, SplitHolds
  <2>9. Letters(Spread(Cite(c), FlattenSeq(ss))) = Spread(LettersOfWord, pages[p])
    BY <2>2, <2>6, <2>7, <2>8
  <2> QED BY <2>9 DEF c
<1> QED BY <1>1, <1>2, <1>6, <1>7, <1>8, <1>9

LEMMA SourceIs ==
  ASSUME NEW h \in Identities, NEW p \in DOMAIN PagesOf[h]
  PROVE  SourceLetters(h, p) = Spread(LettersOfWord, Page(h, p))
<1>1. PICK words \in Seq(Words) : words = Page(h, p)
  BY PageTyped
<1>2. DOMAIN words = 1..Len(words) /\ Len(words) \in Nat /\ \A k \in 1..Len(words) : words[k] \in Words
  OBVIOUS
<1>3. \A k \in 1..Len(words) : Whole(words[k]) \in Pieces
  BY <1>2, WholePieces
<1>4. PICK pieces \in Seq(Pieces) : pieces = [k \in 1..Len(words) |-> Whole(words[k])]
  <2>1. [k \in 1..Len(words) |-> Whole(words[k])] \in Seq(Pieces)
    BY <1>2, <1>3, IsASeq
  <2> QED BY <2>1
<1>5. SourceLetters(h, p) = Letters(pieces)
  BY <1>1, <1>2, <1>4 DEF SourceLetters, Whole
<1>6. Letters(pieces) = FlattenSeq([i \in DOMAIN pieces |-> LettersOf[pieces[i]]])
  BY LettersSpread DEF Spread, Applied
<1>7. [i \in DOMAIN pieces |-> LettersOf[pieces[i]]] = [i \in DOMAIN words |-> LettersOfWord[words[i]]]
  <2>1. DOMAIN pieces = DOMAIN words
    BY <1>2, <1>4
  <2>2. \A i \in DOMAIN words : LettersOf[pieces[i]] = LettersOfWord[words[i]]
    BY <1>2, <1>4 DEF LettersOfWord
  <2> QED BY <2>1, <2>2
<1> QED BY <1>1, <1>5, <1>6, <1>7 DEF Spread, Applied

(* What the drafts say of a page is what the source says of it.            *)
DraftsTrue(kind, h) ==
  IF kind = "url"
  THEN Letters(Spread(Cite(0), DraftsOf(kind, h))) =
         FlattenSeq([p \in DOMAIN PagesOf[h] |-> SourceLetters(h, p)])
  ELSE \A p \in DOMAIN PagesOf[h] :
         Letters(Spread(Cite(p), DraftsOf(kind, h))) = SourceLetters(h, p)

LEMMA DraftsAreTrue ==
  ASSUME NEW kind \in Searchable, NEW h \in Identities, kind = "image" => Unambiguous(h)
  PROVE  DraftsTrue(kind, h)
<1>1. CASE kind = "url"
  <2>1. PICK pp \in Seq(Seq(Words)) : pp = [p \in DOMAIN PagesOf[h] |-> Page(h, p)]
    BY <1>1, PagesTyped
  <2>2. PICK all \in Seq(Words) : all = FlattenSeq(pp) /\ PagesFor(kind, h) = <<all>>
    BY <1>1, <2>1, PagesTyped
  <2>3. 1 \in DOMAIN PagesFor(kind, h) /\ PagesFor(kind, h)[1] = all /\ Cited(kind, 1) = 0
    BY <1>1, <2>2 DEF Cited
  <2>4. Letters(Spread(Cite(0), DraftsOf(kind, h))) = Spread(LettersOfWord, all)
    BY <2>3, DraftsHold
  <2>5. Spread(LettersOfWord, all) = FlattenSeq([p \in DOMAIN pp |-> Spread(LettersOfWord, pp[p])])
    BY <2>2, WordLettersTyped, SpreadFlatten
  <2>6. [p \in DOMAIN pp |-> Spread(LettersOfWord, pp[p])] =
          [p \in DOMAIN PagesOf[h] |-> SourceLetters(h, p)]
    <3>1. DOMAIN pp = DOMAIN PagesOf[h]
      BY <2>1
    <3>2. \A p \in DOMAIN PagesOf[h] : Spread(LettersOfWord, pp[p]) = SourceLetters(h, p)
      BY <2>1, SourceIs
    <3> QED BY <3>1, <3>2
  <2> QED BY <1>1, <2>4, <2>5, <2>6 DEF DraftsTrue
<1>2. CASE kind # "url"
  <2>1. kind \in {"image", "pdf"} /\ DOMAIN PagesFor(kind, h) = DOMAIN PagesOf[h]
    <3>1. kind \in {"image", "pdf"}
      BY <1>2, PagesTyped
    <3> QED BY <3>1, PagesTyped
  <2>2. ASSUME NEW p \in DOMAIN PagesOf[h]
        PROVE  Letters(Spread(Cite(p), DraftsOf(kind, h))) = SourceLetters(h, p)
    <3>1. PagesFor(kind, h)[p] = Page(h, p)
      <4>1. CASE kind = "pdf"
        BY <4>1 DEF PagesFor
      <4>2. CASE kind = "image"
        <5>1. PagesFor(kind, h)[p] = ImagePart(h, p)
          BY <4>2 DEF PagesFor
        <5> QED BY <4>2, <5>1, ImageIsPage
      <4> QED BY <2>1, <4>1, <4>2
    <3>2. Cited(kind, p) = p
      BY <1>2 DEF Cited
    <3>3. Letters(Spread(Cite(p), DraftsOf(kind, h))) = Spread(LettersOfWord, PagesFor(kind, h)[p])
      BY <2>1, <3>2, DraftsHold
    <3> QED BY <3>1, <3>3, SourceIs
  <2> QED BY <1>2, <2>2 DEF DraftsTrue
<1> QED BY <1>1, <1>2

------------------------------------------------------------------------------
(* The vectors that have arrived after n batches.                          *)

Texts(drafts) == [k \in 1..Len(drafts) |-> drafts[k].text]

Arrived(drafts, n) == Applied(Texts(drafts), FlattenSeq(SubSeq(PlanOf(drafts), 1, n)))

LEMMA TextsTyped ==
  ASSUME NEW drafts \in Seq(DraftSet)
  PROVE  /\ Len(drafts) \in Nat /\ DOMAIN drafts = 1..Len(drafts)
         /\ Maps(Texts(drafts), 1..Len(drafts), Chunks)
         /\ Texts(drafts) \in Seq(Chunks) /\ Len(Texts(drafts)) = Len(drafts)
         /\ \A k \in 1..Len(drafts) :
              drafts[k].text \in Chunks /\ drafts[k] \in DraftSet /\ Texts(drafts)[k] = drafts[k].text
<1>1. Len(drafts) \in Nat /\ DOMAIN drafts = 1..Len(drafts)
  OBVIOUS
<1>2. \A k \in 1..Len(drafts) : drafts[k] \in DraftSet /\ drafts[k].text \in Chunks
  <2> SUFFICES ASSUME NEW k \in 1..Len(drafts)
               PROVE  drafts[k] \in DraftSet /\ drafts[k].text \in Chunks
    OBVIOUS
  <2>1. drafts[k] \in DraftSet
    BY ElementOfSeq
  <2> QED BY <2>1 DEF DraftSet
<1>3. [k \in 1..Len(drafts) |-> drafts[k].text] \in Seq(Chunks)
  BY <1>1, <1>2, IsASeq
<1>4. Texts(drafts) \in [1..Len(drafts) -> Chunks]
  BY <1>2 DEF Texts
<1>5. Len(Texts(drafts)) = Len(drafts)
  BY <1>1, <1>3 DEF Texts
<1> QED BY <1>1, <1>2, <1>3, <1>4, <1>5 DEF Maps, Texts

LEMMA ArrivedGrows ==
  ASSUME NEW drafts \in Seq(DraftSet)
  PROVE  /\ Len(PlanOf(drafts)) \in Nat
         /\ drafts # <<>> => Len(PlanOf(drafts)) >= 1
         /\ Arrived(drafts, 0) = <<>>
         /\ Arrived(drafts, Len(PlanOf(drafts))) = Texts(drafts)
         /\ \A n \in 1..Len(PlanOf(drafts)) :
              /\ Len(PlanOf(drafts)[n]) \in Nat
              /\ Arrived(drafts, n) =
                   Arrived(drafts, n - 1) \o
                     [k \in 1..Len(PlanOf(drafts)[n]) |-> drafts[PlanOf(drafts)[n][k]].text]
              /\ Arrived(drafts, n) \in Seq(Chunks)
<1>1. PICK N, f : N = Len(drafts) /\ f = Texts(drafts) /\ N \in Nat
  BY TextsTyped
<1>2. PICK S : S = 1..N
  OBVIOUS
<1>3. Maps(f, S, Chunks) /\ (\A k \in S : f[k] = drafts[k].text)
      /\ f \in Seq(Chunks) /\ Len(f) = N
  BY <1>1, <1>2, TextsTyped
<1>4. PICK plan \in Seq(Seq(S)) : plan = PlanOf(drafts) /\ FlattenSeq(plan) = UpToN(N)
  BY <1>1, <1>2, PlanHolds
<1>5. Len(plan) \in Nat
  OBVIOUS
<1>6. ASSUME NEW n \in 0..Len(plan) PROVE SubSeq(plan, 1, n) \in Seq(Seq(S))
  <2>1. 1 \in Int /\ n \in Int /\ \A k \in 1..n : plan[k] \in Seq(S)
    BY <1>5
  <2> QED BY <2>1, SubSeqProperties
<1>7. ASSUME NEW n \in 0..Len(plan)
      PROVE  /\ Arrived(drafts, n) = Applied(f, FlattenSeq(SubSeq(plan, 1, n)))
             /\ Arrived(drafts, n) \in Seq(Chunks)
  <2>1. PICK s \in Seq(S) : s = FlattenSeq(SubSeq(plan, 1, n))
    BY <1>6, FlattenTyped
  <2>2. Applied(f, s) \in Seq(Chunks)
    BY <1>3, AppliedIs
  <2> QED BY <1>1, <1>4, <2>1, <2>2 DEF Arrived
<1>8. Arrived(drafts, 0) = <<>>
  <2>1. 0 \in 0..Len(plan)
    BY <1>5
  <2>2. SubSeq(plan, 1, 0) = <<>>
    BY SubSeqEmpty
  <2>3. Applied(f, <<>>) = <<>>
    <3>1. PICK e \in Seq(S) : e = <<>> /\ Len(e) = 0
      BY EmptySeq
    <3>2. Applied(f, e) \in Seq(Chunks) /\ Len(Applied(f, e)) = Len(e)
      BY <1>3, AppliedIs
    <3> QED BY <3>1, <3>2, EmptySeq
  <2> QED BY <1>7, <2>1, <2>2, <2>3, FlattenEmpty
<1>9. Arrived(drafts, Len(plan)) = f
  <2>1. Len(plan) \in 0..Len(plan)
    BY <1>5
  <2>2. SubSeq(plan, 1, Len(plan)) = plan
    BY SubSeqFull
  <2>3. PICK u \in Seq(S) : u = UpToN(N)
    BY <1>4, FlattenTyped
  <2>4. Len(u) = N /\ \A k \in 1..N : u[k] = k
    BY <1>1, <2>3, UpToNGrows DEF UpToN
  <2>5. Applied(f, u) \in Seq(Chunks) /\ Len(Applied(f, u)) = Len(u)
        /\ \A k \in 1..Len(u) : Applied(f, u)[k] = f[u[k]] /\ u[k] \in S
    BY <1>3, AppliedIs
  <2>6. Applied(f, u) = f
    BY <1>3, <2>4, <2>5, SeqEqual
  <2> QED BY <1>4, <1>7, <2>1, <2>2, <2>3, <2>6
<1>10. ASSUME drafts # <<>> PROVE Len(plan) >= 1
  <2>1. N # 0
    BY <1>1, <1>10, EmptySeq
  <2>2. UpToN(N) # <<>>
    <3>1. Len(UpToN(N)) = N
      BY <1>1, UpToNGrows
    <3> QED BY <2>1, <3>1, EmptySeq
  <2>3. plan # <<>>
    BY <1>4, <2>2, FlattenEmpty
  <2> QED BY <1>5, <2>3, EmptySeq
<1>11. ASSUME NEW n \in 1..Len(plan)
       PROVE  /\ Len(plan[n]) \in Nat
              /\ Arrived(drafts, n) = Arrived(drafts, n - 1) \o [k \in 1..Len(plan[n]) |-> drafts[plan[n][k]].text]
              /\ Arrived(drafts, n) \in Seq(Chunks)
  <2>1. n \in 0..Len(plan) /\ n - 1 \in 0..Len(plan) /\ (n - 1) + 1 = n
    BY <1>5
  <2>2. PICK b \in Seq(S) : b = plan[n]
    OBVIOUS
  <2>3. PICK pre \in Seq(Seq(S)) : pre = SubSeq(plan, 1, n - 1)
    BY <1>6, <2>1
  <2>4. SubSeq(plan, 1, n) = Append(pre, b)
    <3>1. SubSeq(plan, 1, n) = pre \o <<b>>
      BY <2>1, <2>2, <2>3, SubSeqRecursiveSecond
    <3> QED BY <2>2, <3>1, AppendIsConcat
  <2>5. PICK s \in Seq(S) : s = FlattenSeq(pre)
    BY <2>3, FlattenTyped
  <2>6. FlattenSeq(Append(pre, b)) = s \o b
    BY <2>5, FlattenAppend
  <2>7. Applied(f, s \o b) = Applied(f, s) \o Applied(f, b)
    <3>1. Maps(f, S, Chunks)
      BY <1>3
    <3> HIDE <1>3
    <3> QED BY <3>1, AppliedConcat
  <2>8. Applied(f, b) = [k \in 1..Len(plan[n]) |-> drafts[plan[n][k]].text]
    <3>1. DOMAIN b = 1..Len(b) /\ \A k \in 1..Len(b) : b[k] \in S
      OBVIOUS
    <3> QED BY <1>3, <2>2, <3>1 DEF Applied
  <2>9. Arrived(drafts, n - 1) = Applied(f, s) /\ Arrived(drafts, n) = Applied(f, s \o b)
    BY <1>7, <2>1, <2>3, <2>4, <2>5, <2>6
  <2>10. Arrived(drafts, n) \in Seq(Chunks) /\ Len(plan[n]) \in Nat
    BY <1>7, <2>1, <2>2
  <2> QED BY <2>7, <2>8, <2>9, <2>10
<1> QED BY <1>1, <1>4, <1>5, <1>8, <1>9, <1>10, <1>11

------------------------------------------------------------------------------
(* The text a request has in hand is the text it was given.                *)

Calls == [batch : Nat, attempt : Nat, vectors : Seq(Chunks)]

Row == [text : Chunks, locator : [page : Nat, chunk : Nat], vector : Chunks]

RowsOf(drafts) ==
  [k \in 1..Len(drafts) |->
     [text |-> drafts[k].text, locator |-> drafts[k].locator, vector |-> drafts[k].text]]

(* Whether a request is past parsing and before the end of storing.        *)
Holds(x) ==
  \/ x.pc \in {"create", "embed", "store"}
  \/ x.pc = "guard" /\ x.kind = "url"

(* For request x, with its document, its embedding call and its rows:      *)
(* what is parsed has text, what has arrived are the vectors of the        *)
(* batches before the current one, and what is stored are the drafts.      *)
InOrder(x, doc, call, own) ==
  LET drafts == DraftsOf(x.kind, x.identity)
      plan == PlanOf(drafts)
  IN  /\ x.pc # "new" => x.identity \in Identities
      /\ x.kind \in Searchable /\ Holds(x) => drafts # <<>>
      /\ x.pc = "embed" =>
           /\ call \in Calls /\ call.batch \in 1..Len(plan)
           /\ call.vectors = Arrived(drafts, call.batch - 1)
      /\ x.pc = "store" => call.vectors = Texts(drafts)
      /\ doc = "indexed" => x.pc # "new" /\ x.kind \in Searchable /\ drafts # <<>>
      /\ own = IF doc = "indexed" THEN RowsOf(drafts) ELSE <<>>

TextTyped ==
  /\ work \in [Requests -> Calls \cup {None}]
  /\ rows \in [Requests -> Seq(Row)]

TextInv ==
  /\ TextTyped
  /\ \A r \in Requests : InOrder(req[r], docs[r], work[r], rows[r])

(* A step of request r.                                                    *)
OnlyOf(r) ==
  \A s \in Requests : s # r =>
    req'[s] = req[s] /\ docs'[s] = docs[s] /\ work'[s] = work[s] /\ rows'[s] = rows[s]

LEMMA OneMoves ==
  ASSUME TextInv, NEW r \in Requests, TextTyped', OnlyOf(r),
         InOrder(req'[r], docs'[r], work'[r], rows'[r])
  PROVE  TextInv'
<1>1. ASSUME NEW s \in Requests PROVE InOrder(req'[s], docs'[s], work'[s], rows'[s])
  <2>1. CASE s = r
    BY <2>1
  <2>2. CASE s # r
    <3>1. InOrder(req[s], docs[s], work[s], rows[s])
      BY DEF TextInv
    <3>2. req'[s] = req[s] /\ docs'[s] = docs[s] /\ work'[s] = work[s] /\ rows'[s] = rows[s]
      BY <2>2 DEF OnlyOf
    <3> QED BY <3>1, <3>2
  <2> QED BY <2>1, <2>2
<1> QED BY <1>1 DEF TextInv

(* A step that neither begins, ends nor continues the handling of a text.  *)
LEMMA Ahead ==
  ASSUME NEW x, NEW y, NEW doc, NEW new, NEW call, NEW after, NEW own,
         InOrder(x, doc, call, own),
         y.kind = x.kind, y.identity = x.identity, x.pc # "new",
         y.pc \notin {"new", "embed", "store"},
         doc = "indexed" <=> new = "indexed",
         y.kind \in Searchable /\ Holds(y) => DraftsOf(y.kind, y.identity) # <<>>
  PROVE  InOrder(y, new, after, own)
BY DEF InOrder

(* The request changes, but not what it is about.                          *)
Moves(r) ==
  /\ \A s \in Requests : s # r => req'[s] = req[s] /\ docs'[s] = docs[s]
  /\ req'[r].kind = req[r].kind /\ req'[r].identity = req[r].identity

LEMMA StepMoves ==
  ASSUME TypeOK, NEW r \in Requests,
         \/ Duplicate(r) \/ NoDuplicate(r) \/ Parse(r) \/ Create(r) \/ Embed(r) \/ Store(r)
         \/ Close(r) \/ StepFails(r) \/ Undo(r) \/ UndoFails(r) \/ Fail(r) \/ Crash(r)
  PROVE  Moves(r)
<1>1. /\ req \in [Requests -> RequestStates] /\ DOMAIN docs = Requests
      /\ req[r] \in RequestStates
  BY DEF TypeOK
<1>2. CASE Duplicate(r)
  <2>1. PICK d : req' = [req EXCEPT ![r].source = d, ![r].pc = "close"]
    BY <1>2 DEF Duplicate, Holding
  <2>2. docs' = docs
    BY <1>2 DEF Duplicate
  <2> QED BY <1>1, <2>1, <2>2 DEF Moves, RequestStates
<1>3. CASE NoDuplicate(r)
  BY <1>1, <1>3 DEF NoDuplicate, Goto, Moves, RequestStates
<1>4. CASE Parse(r)
  BY <1>1, <1>4 DEF Parse, Goto, Moves, RequestStates
<1>5. CASE Create(r)
  BY <1>1, <1>5 DEF Create, Holding, Moves, RequestStates
<1>6. CASE Embed(r)
  BY <1>1, <1>6 DEF Embed, Goto, Moves, RequestStates
<1>7. CASE Store(r)
  BY <1>1, <1>7 DEF Store, Goto, Moves, RequestStates
<1>8. CASE Close(r)
  BY <1>1, <1>8 DEF Close, Answer, Moves, RequestStates
<1>9. CASE StepFails(r)
  BY <1>1, <1>9 DEF StepFails, Goto, Moves, RequestStates
<1>10. CASE Undo(r)
  BY <1>1, <1>10 DEF Undo, Goto, Moves, RequestStates
<1>11. CASE UndoFails(r)
  BY <1>1, <1>11 DEF UndoFails, Moves, RequestStates
<1>12. CASE Fail(r)
  BY <1>1, <1>12 DEF Fail, Answer, Moves, RequestStates
<1>13. CASE Crash(r)
  BY <1>1, <1>13 DEF Crash, Moves, RequestStates
<1> QED BY <1>2, <1>3, <1>4, <1>5, <1>6, <1>7, <1>8, <1>9, <1>10, <1>11, <1>12, <1>13

(* The label a step leads to, and what becomes of the document.            *)
LEMMA StepLabels ==
  ASSUME TypeOK, NEW r \in Requests
  PROVE  /\ Duplicate(r) \/ Close(r) \/ Fail(r) \/ Crash(r) =>
              req'[r].pc \in {"close", "done"} /\ docs'[r] = docs[r]
         /\ NoDuplicate(r) => req'[r].pc = AfterGuard(req[r].kind) /\ docs'[r] = docs[r]
         /\ Parse(r) => req'[r].pc = AfterParse(req[r].kind) /\ docs'[r] = docs[r]
         /\ StepFails(r) => req'[r].pc \in {"undo", "fail"} /\ docs'[r] = docs[r]
         /\ Undo(r) => /\ req'[r].pc = "fail" /\ docs[r] = "indexing" /\ docs'[r] = "failed"
         /\ UndoFails(r) => req'[r].pc \in {"done", "fail"} /\ docs'[r] = docs[r]
         /\ Embed(r) => req'[r].pc = "store" /\ docs'[r] = docs[r]
         /\ Store(r) => req'[r].pc = "close" /\ docs'[r] = "indexed"
         /\ Create(r) => /\ req'[r].pc = (IF req[r].kind \in Searchable THEN "embed" ELSE "close")
                         /\ docs'[r] = NewStatus(req[r].kind)
<1>1. /\ req \in [Requests -> RequestStates] /\ DOMAIN docs = Requests
      /\ req[r] \in RequestStates
  BY DEF TypeOK
<1>2. Duplicate(r) \/ Close(r) \/ Fail(r) \/ Crash(r) =>
        req'[r].pc \in {"close", "done"} /\ docs'[r] = docs[r]
  <2>1. CASE Duplicate(r)
    BY ZenonT(30), <1>1, <2>1 DEF Duplicate, Holding, RequestStates
  <2>2. CASE Close(r)
    BY <1>1, <2>2 DEF Close, Answer, RequestStates
  <2>3. CASE Fail(r)
    BY <1>1, <2>3 DEF Fail, Answer, RequestStates
  <2>4. CASE Crash(r)
    BY <1>1, <2>4 DEF Crash, RequestStates
  <2> QED BY <2>1, <2>2, <2>3, <2>4
<1>3. NoDuplicate(r) => req'[r].pc = AfterGuard(req[r].kind) /\ docs'[r] = docs[r]
  BY <1>1 DEF NoDuplicate, Goto, RequestStates
<1>4. Parse(r) => req'[r].pc = AfterParse(req[r].kind) /\ docs'[r] = docs[r]
  BY <1>1 DEF Parse, Goto, RequestStates
<1>5. StepFails(r) => req'[r].pc \in {"undo", "fail"} /\ docs'[r] = docs[r]
  BY <1>1 DEF StepFails, Goto, AfterFailure, RequestStates
<1>6. Undo(r) => /\ req'[r].pc = "fail" /\ docs[r] = "indexing" /\ docs'[r] = "failed"
  <2>1. req[r].pc = "undo" => docs[r] = "indexing"
    BY DEF TypeOK
  <2> QED BY <1>1, <2>1 DEF Undo, At, Goto, RequestStates
<1>7. UndoFails(r) => req'[r].pc \in {"done", "fail"} /\ docs'[r] = docs[r]
  BY <1>1 DEF UndoFails, RequestStates
<1>8. Embed(r) => req'[r].pc = "store" /\ docs'[r] = docs[r]
  BY <1>1 DEF Embed, Goto, RequestStates
<1>9. Store(r) => req'[r].pc = "close" /\ docs'[r] = "indexed"
  BY <1>1 DEF Store, Goto, RequestStates
<1>10. Create(r) => /\ req'[r].pc = (IF req[r].kind \in Searchable THEN "embed" ELSE "close")
                    /\ docs'[r] = NewStatus(req[r].kind)
  BY <1>1 DEF Create, Holding, RequestStates
<1> QED BY <1>2, <1>3, <1>4, <1>5, <1>6, <1>7, <1>8, <1>9, <1>10

(* Where the text is not touched, the label is what matters.               *)
LEMMA LabelMoves ==
  ASSUME TextInv, NEW r \in Requests, Moves(r), req[r].pc # "new",
         TextTyped', rows' = rows, \A s \in Requests : s # r => work'[s] = work[s],
         req'[r].pc \notin {"new", "embed", "store"},
         docs[r] = "indexed" <=> docs'[r] = "indexed",
         req[r].kind \in Searchable /\ Holds(req'[r]) => DraftsOf(req[r].kind, req[r].identity) # <<>>
  PROVE  TextInv'
<1>1. InOrder(req[r], docs[r], work[r], rows[r])
  BY DEF TextInv
<1>2. req'[r].kind = req[r].kind /\ req'[r].identity = req[r].identity
  BY DEF Moves
<1>3. InOrder(req'[r], docs'[r], work'[r], rows[r])
  BY <1>1, <1>2, Ahead
<1>4. OnlyOf(r)
  BY DEF Moves, OnlyOf
<1> QED BY <1>3, <1>4, OneMoves

LEMMA StartInOrder ==
  ASSUME TypeOK, TextInv, NEW r \in Requests, NEW kind \in Kinds, NEW identity \in Identities,
         Start(r, kind, identity), work' = work, rows' = rows
  PROVE  TextInv'
<1>1. InOrder(req[r], docs[r], work[r], rows[r]) /\ req[r].pc = "new"
  BY DEF TextInv, Start, At
<1>2. req \in [Requests -> RequestStates] /\ req[r] \in RequestStates
  BY DEF TypeOK
<1>3. /\ req'[r].pc = First(kind) /\ req'[r].kind = kind /\ req'[r].identity = identity
      /\ docs' = docs /\ \A s \in Requests : s # r => req'[s] = req[s]
  BY <1>2 DEF Start, RequestStates
<1>4. docs[r] # "indexed" /\ rows[r] = <<>>
  BY <1>1 DEF InOrder
<1>5. First(kind) \in {"guard", "parse"} /\ (First(kind) = "guard" => kind # "url")
  BY DEF First
<1>6. ~Holds(req'[r])
  BY <1>3, <1>5 DEF Holds
<1>7. InOrder(req'[r], docs'[r], work'[r], rows'[r])
  BY <1>3, <1>4, <1>5, <1>6 DEF InOrder
<1>8. OnlyOf(r) /\ TextTyped'
  BY <1>3 DEF OnlyOf, TextInv, TextTyped
<1> QED BY <1>7, <1>8, OneMoves

LEMMA ParseInOrder ==
  ASSUME TypeOK, TextInv, NEW r \in Requests, ParseText(r)
  PROVE  TextInv'
<1>1. Parse(r) /\ Parsed(req[r].kind, req[r].identity) /\ work' = work /\ rows' = rows
      /\ req[r].pc = "parse"
  BY DEF ParseText, Parse, At
<1>2. Moves(r)
  BY <1>1, StepMoves
<1>3. req'[r].pc = AfterParse(req[r].kind) /\ docs'[r] = docs[r]
  BY <1>1, StepLabels
<1>4. req[r].identity \in Identities
  BY <1>1 DEF TextInv, InOrder
<1>5. req[r].kind \in Searchable => DraftsOf(req[r].kind, req[r].identity) # <<>>
  BY <1>1, <1>4, DraftsHold
<1>6. req'[r].pc \notin {"new", "embed", "store"}
  BY <1>3 DEF AfterParse
<1>7. TextTyped'
  BY <1>1 DEF TextInv, TextTyped
<1> QED BY <1>1, <1>2, <1>3, <1>5, <1>6, <1>7, LabelMoves

LEMMA ElsewhereInOrder ==
  ASSUME IInv, TextInv, NEW r \in Requests, Elsewhere(r)
  PROVE  TextInv'
<1>1. work' = work /\ rows' = rows /\ TextTyped' /\ TypeOK
  BY DEF Elsewhere, TextInv, TextTyped, IInv
<1>2. CASE \E kind \in Kinds, identity \in Identities : Start(r, kind, identity)
  BY <1>1, <1>2, StartInOrder
<1>3. CASE NoDuplicate(r)
  <2>1. Moves(r) /\ req[r].pc = "guard"
    BY <1>1, <1>3, StepMoves DEF NoDuplicate, At
  <2>2. req'[r].pc = AfterGuard(req[r].kind) /\ docs'[r] = docs[r]
    BY <1>1, <1>3, StepLabels
  <2>3. req'[r].pc \in {"create", "parse"} /\ (req'[r].pc = "create" => req[r].kind = "url")
    BY <2>2 DEF AfterGuard
  <2>4. req[r].kind \in Searchable /\ Holds(req'[r]) => DraftsOf(req[r].kind, req[r].identity) # <<>>
    BY <2>1, <2>3 DEF TextInv, InOrder, Holds
  <2> QED BY <1>1, <2>1, <2>2, <2>3, <2>4, LabelMoves
<1>4. CASE Duplicate(r) \/ Close(r) \/ Fail(r)
  <2>1. Moves(r) /\ req[r].pc # "new"
    BY <1>1, <1>4, StepMoves DEF Duplicate, Close, Fail, At
  <2>2. req'[r].pc \in {"close", "done"} /\ docs'[r] = docs[r]
    BY <1>1, <1>4, StepLabels
  <2>3. ~Holds(req'[r])
    BY <2>2 DEF Holds
  <2> QED BY <1>1, <2>1, <2>2, <2>3, LabelMoves
<1>5. CASE Undo(r)
  <2>1. Moves(r) /\ req[r].pc # "new"
    BY <1>1, <1>5, StepMoves DEF Undo, At
  <2>2. req'[r].pc = "fail" /\ docs[r] = "indexing" /\ docs'[r] = "failed"
    BY <1>1, <1>5, StepLabels
  <2>3. ~Holds(req'[r])
    BY <2>2 DEF Holds
  <2> QED BY <1>1, <2>1, <2>2, <2>3, LabelMoves
<1>6. CASE UndoFails(r)
  <2>1. Moves(r) /\ req[r].pc # "new"
    BY <1>1, <1>6, StepMoves DEF UndoFails, At
  <2>2. req'[r].pc \in {"done", "fail"} /\ docs'[r] = docs[r]
    BY <1>1, <1>6, StepLabels
  <2>3. ~Holds(req'[r])
    BY <2>2 DEF Holds
  <2> QED BY <1>1, <2>1, <2>2, <2>3, LabelMoves
<1> QED BY <1>2, <1>3, <1>4, <1>5, <1>6 DEF Elsewhere

LEMMA EndsInOrder ==
  ASSUME IInv, TextInv, NEW r \in Requests, Ends(r)
  PROVE  TextInv'
<1>1. /\ TypeOK /\ work' = [work EXCEPT ![r] = None] /\ rows' = rows
      /\ work \in [Requests -> Calls \cup {None}]
  BY DEF Ends, IInv, TextInv, TextTyped
<1>2. TextTyped' /\ \A s \in Requests : s # r => work'[s] = work[s]
  BY <1>1 DEF TextInv, TextTyped
<1>3. Moves(r) /\ req[r].pc # "new"
  BY <1>1, StepMoves DEF Ends, StepFails, Crash
<1>4. req'[r].pc \in {"undo", "fail", "close", "done"} /\ docs'[r] = docs[r]
  BY <1>1, StepLabels DEF Ends
<1>5. ~Holds(req'[r])
  BY <1>4 DEF Holds
<1> QED BY <1>1, <1>2, <1>3, <1>4, <1>5, LabelMoves

LEMMA CreateInOrder ==
  ASSUME IInv, TextInv, NEW r \in Requests, CreateAndChunk(r)
  PROVE  TextInv'
<1> DEFINE x == req[r]
           drafts == DraftsOf(req[r].kind, req[r].identity)
<1>1. /\ TypeOK /\ Create(r) /\ req[r].pc = "create" /\ rows' = rows
      /\ work' = [work EXCEPT ![r] = IF req[r].kind \in Searchable THEN NewCall ELSE None]
      /\ work \in [Requests -> Calls \cup {None}] /\ TextTyped
      /\ InOrder(req[r], docs[r], work[r], rows[r])
  BY DEF CreateAndChunk, Create, At, IInv, TextInv, TextTyped
<1>2. NewCall \in Calls
  <2>1. <<>> \in Seq(Chunks)
    BY EmptySeq
  <2> QED BY <2>1 DEF NewCall, Calls
<1>3. TextTyped' /\ (\A s \in Requests : s # r => work'[s] = work[s])
      /\ (req[r].kind \in Searchable => work'[r] = NewCall)
  BY <1>1, <1>2 DEF TextTyped
<1>4. Moves(r)
  BY <1>1, StepMoves
<1>5. /\ req'[r].pc = (IF req[r].kind \in Searchable THEN "embed" ELSE "close")
      /\ docs'[r] = NewStatus(req[r].kind)
  BY <1>1, StepLabels
<1>6. docs'[r] # "indexed"
  BY <1>5 DEF NewStatus
<1>7. docs[r] # "indexed"
  <2>1. req[r].source = None
    BY <1>1 DEF IInv, Local
  <2>2. docs[r] = None
    BY <1>1, <2>1, IngestionAssumption DEF TypeOK
  <2> QED BY <2>2, IngestionAssumption DEF Statuses
<1>8. rows[r] = <<>> /\ req[r].identity \in Identities
  BY <1>1, <1>7 DEF InOrder
<1>9. CASE req[r].kind \in Searchable
  <2>1. drafts # <<>> /\ drafts \in Seq(DraftSet)
    <3>1. Holds(req[r])
      BY <1>1 DEF Holds
    <3> QED BY <1>1, <1>8, <1>9, <3>1, DraftsHold DEF InOrder
  <2>2. /\ Len(PlanOf(drafts)) \in Nat /\ Len(PlanOf(drafts)) >= 1 /\ Arrived(drafts, 0) = <<>>
    <3> HIDE DEF drafts
    <3> QED BY <2>1, ArrivedGrows
  <2>3. NewCall.batch = 1 /\ NewCall.vectors = <<>>
    BY DEF NewCall
  <2>4. 1 \in 1..Len(PlanOf(drafts)) /\ 1 - 1 = 0
    <3> HIDE DEF drafts
    <3> QED BY <2>2
  <2> HIDE DEF drafts
  <2>5. /\ NewCall.batch \in 1..Len(PlanOf(drafts))
        /\ NewCall.vectors = Arrived(drafts, NewCall.batch - 1)
    BY <2>2, <2>3, <2>4
  <2>6. InOrder(req'[r], docs'[r], work'[r], rows'[r])
    <3>1. req'[r].pc = "embed" /\ req'[r].kind = req[r].kind /\ req'[r].identity = req[r].identity
      BY <1>4, <1>5, <1>9 DEF Moves
    <3>2. drafts = DraftsOf(req'[r].kind, req'[r].identity)
      BY <3>1 DEF drafts
    <3>3. work'[r] = NewCall /\ rows'[r] = <<>>
      BY <1>1, <1>3, <1>8, <1>9
    <3> QED BY <1>2, <1>6, <1>8, <2>1, <2>5, <3>1, <3>2, <3>3 DEF InOrder
  <2>7. OnlyOf(r)
    BY <1>1, <1>3, <1>4 DEF OnlyOf, Moves
  <2> QED BY <1>3, <2>6, <2>7, OneMoves
<1>10. CASE req[r].kind \notin Searchable
  <2>1. req'[r].pc = "close" /\ ~Holds(req'[r])
    BY <1>5, <1>10 DEF Holds
  <2> QED BY <1>1, <1>3, <1>4, <1>6, <1>7, <1>10, <2>1, LabelMoves
<1> QED BY <1>9, <1>10

(* What the orchestrator has in hand between chunking and storing.         *)
LEMMA InHand ==
  ASSUME IInv, TextInv, NEW r \in Requests, req[r].pc \in {"embed", "store"},
         NEW drafts, drafts = DraftsOf(req[r].kind, req[r].identity)
  PROVE  /\ req[r].kind \in Searchable /\ req[r].identity \in Identities
         /\ drafts \in Seq(DraftSet) /\ drafts # <<>>
         /\ DraftsFor(r) = drafts /\ PlanFor(r) = PlanOf(drafts)
<1>1. req[r].kind \in Searchable /\ req[r].identity \in Identities
  BY DEF IInv, Local, TextInv, InOrder
<1>2. drafts # <<>>
  <2>1. InOrder(req[r], docs[r], work[r], rows[r]) /\ Holds(req[r])
    BY DEF TextInv, Holds
  <2> QED BY <1>1, <2>1 DEF InOrder
<1>3. drafts \in Seq(DraftSet)
  BY <1>1, DraftsHold
<1>4. DraftsFor(r) = drafts
  BY <1>1 DEF DraftsFor, Drafts
<1>5. PlanFor(r) = PlanOf(drafts)
  <2>1. Drafts[req[r].kind][req[r].identity] = drafts
    BY <1>1 DEF Drafts
  <2>2. Plans[req[r].kind][req[r].identity] = PlanOf(Drafts[req[r].kind][req[r].identity])
    BY <1>1 DEF Plans
  <2> QED BY <2>1, <2>2 DEF PlanFor
<1> QED BY <1>1, <1>2, <1>3, <1>4, <1>5

LEMMA BatchInOrder ==
  ASSUME IInv, TextInv, NEW r \in Requests, BatchArrives(r)
  PROVE  TextInv'
<1>1. /\ TypeOK /\ req[r].pc = "embed" /\ rows' = rows
      /\ work \in [Requests -> Calls \cup {None}] /\ TextTyped
      /\ InOrder(req[r], docs[r], work[r], rows[r])
  BY DEF BatchArrives, At, IInv, TextInv, TextTyped
<1>2. PICK drafts : drafts = DraftsOf(req[r].kind, req[r].identity)
  OBVIOUS
<1>3. PICK plan : plan = PlanOf(drafts)
  OBVIOUS
<1>4. /\ drafts \in Seq(DraftSet) /\ drafts # <<>> /\ DraftsFor(r) = drafts /\ PlanFor(r) = plan
  BY <1>1, <1>2, <1>3, InHand
<1>5. PICK call \in Calls : call = work[r]
  BY <1>1 DEF InOrder
<1>6. PICK n, v, batch :
        /\ n = call.batch /\ v = call.vectors /\ n \in 1..Len(plan) /\ n \in Nat
        /\ v = Arrived(drafts, n - 1) /\ batch = plan[n] /\ v \in Seq(Chunks)
  BY <1>1, <1>2, <1>3, <1>5 DEF InOrder, Calls
<1>7. /\ Len(plan) \in Nat /\ Arrived(drafts, Len(plan)) = Texts(drafts)
      /\ Len(batch) \in Nat /\ Arrived(drafts, n) \in Seq(Chunks)
      /\ Arrived(drafts, n) = v \o [k \in 1..Len(batch) |-> drafts[batch[k]].text]
  BY <1>3, <1>4, <1>6, ArrivedGrows
<1>8. BatchOf(r) = batch /\ (LastBatch(r) <=> n = Len(plan))
  BY <1>4, <1>5, <1>6 DEF BatchOf, LastBatch
<1>9. PICK next : /\ next = [batch |-> n + (IF LastBatch(r) THEN 0 ELSE 1), attempt |-> 1,
                             vectors |-> Arrived(drafts, n)]
                  /\ work' = [work EXCEPT ![r] = next]
  <2>1. PICK response : /\ Accepted(response, Len(batch))
                        /\ work' = [work EXCEPT ![r] =
                             [batch |-> @.batch + (IF LastBatch(r) THEN 0 ELSE 1), attempt |-> 1,
                              vectors |-> @.vectors \o
                                [k \in DOMAIN response |-> DraftsFor(r)[BatchOf(r)[response[k]]].text]]]
    BY <1>8 DEF BatchArrives
  <2>2. response = [k \in 1..Len(batch) |-> k]
    BY <2>1 DEF Accepted
  <2>3. [k \in DOMAIN response |-> DraftsFor(r)[BatchOf(r)[response[k]]].text] =
          [k \in 1..Len(batch) |-> drafts[batch[k]].text]
    BY <1>4, <1>8, <2>2
  <2>4. work[r].batch = n /\ work[r].vectors = v
    BY <1>5, <1>6
  <2> QED BY <1>7, <2>1, <2>3, <2>4
<1>10. next \in Calls /\ next.batch = n + (IF LastBatch(r) THEN 0 ELSE 1)
       /\ next.vectors = Arrived(drafts, n)
  <2>1. n + (IF LastBatch(r) THEN 0 ELSE 1) \in Nat
    BY <1>6
  <2> QED BY <1>7, <1>9, <2>1 DEF Calls
<1>11. TextTyped' /\ work'[r] = next /\ \A s \in Requests : s # r => work'[s] = work[s]
  BY <1>1, <1>9, <1>10 DEF TextTyped
<1>12. drafts # <<>> /\ docs[r] = "indexing" /\ rows[r] = <<>> /\ req[r].identity \in Identities
  <2>1. docs[r] = "indexing"
    BY <1>1 DEF TypeOK
  <2>2. rows[r] = <<>>
    BY <1>1, <2>1 DEF InOrder
  <2>3. req[r].identity \in Identities
    BY <1>1 DEF InOrder
  <2> QED BY <1>4, <2>1, <2>2, <2>3
<1>13. CASE LastBatch(r)
  <2>1. Embed(r)
    BY <1>13 DEF BatchArrives
  <2>2. Moves(r) /\ req'[r].pc = "store" /\ docs'[r] = docs[r]
    BY <1>1, <2>1, StepMoves, StepLabels
  <2>3. next.vectors = Texts(drafts)
    BY <1>7, <1>8, <1>10, <1>13
  <2>4. drafts = DraftsOf(req'[r].kind, req'[r].identity) /\ req'[r].identity \in Identities
    BY <1>2, <1>12, <2>2 DEF Moves
  <2>5. InOrder(req'[r], docs'[r], work'[r], rows'[r])
    BY <1>1, <1>11, <1>12, <2>2, <2>3, <2>4 DEF InOrder
  <2>6. OnlyOf(r)
    BY <1>1, <1>11, <2>2 DEF OnlyOf, Moves
  <2> QED BY <1>11, <2>5, <2>6, OneMoves
<1>14. CASE ~LastBatch(r)
  <2>1. req' = req /\ docs' = docs
    BY <1>14 DEF BatchArrives, vars
  <2>2. next.batch \in 1..Len(plan) /\ next.batch - 1 = n
    <3>1. PICK m \in Nat : m = Len(plan)
      BY <1>7
    <3>2. n \in 1..m /\ n # m /\ next.batch = n + 1
      BY <1>6, <1>8, <1>10, <1>14, <3>1
    <3>3. n + 1 \in 1..m /\ (n + 1) - 1 = n
      BY <3>2
    <3> QED BY <3>1, <3>2, <3>3
  <2>3. next.vectors = Arrived(drafts, next.batch - 1)
    BY <1>10, <2>2
  <2>4. InOrder(req[r], docs[r], next, rows[r])
    BY <1>1, <1>2, <1>3, <1>10, <1>12, <2>2, <2>3 DEF InOrder
  <2>5. OnlyOf(r)
    BY <1>1, <1>11, <2>1 DEF OnlyOf
  <2> QED BY <1>1, <1>11, <2>1, <2>4, <2>5, OneMoves
<1> QED BY <1>13, <1>14

LEMMA RetryInOrder ==
  ASSUME TextInv, NEW r \in Requests, BatchRetried(r)
  PROVE  TextInv'
<1>1. /\ req[r].pc = "embed" /\ rows' = rows /\ req' = req /\ docs' = docs
      /\ work \in [Requests -> Calls \cup {None}] /\ TextTyped
      /\ InOrder(req[r], docs[r], work[r], rows[r])
      /\ work' = [work EXCEPT ![r].attempt = @ + 1]
  BY DEF BatchRetried, At, vars, TextInv, TextTyped
<1>2. PICK call \in Calls : call = work[r]
  BY <1>1 DEF InOrder
<1>3. PICK next : next = [call EXCEPT !.attempt = @ + 1]
  OBVIOUS
<1>4. next \in Calls /\ next.batch = call.batch /\ next.vectors = call.vectors
  BY <1>3 DEF Calls
<1>5. work' = [work EXCEPT ![r] = next]
  BY <1>1, <1>2, <1>3
<1>6. TextTyped' /\ work'[r] = next /\ \A s \in Requests : s # r => work'[s] = work[s]
  BY <1>1, <1>4, <1>5 DEF TextTyped
<1>7. InOrder(req[r], docs[r], next, rows[r])
  BY <1>1, <1>2, <1>4 DEF InOrder
<1>8. OnlyOf(r)
  BY <1>1, <1>6 DEF OnlyOf
<1> QED BY <1>1, <1>6, <1>7, <1>8, OneMoves

LEMMA StoreInOrder ==
  ASSUME IInv, TextInv, NEW r \in Requests, StoreRows(r)
  PROVE  TextInv'
<1>1. /\ TypeOK /\ Store(r) /\ req[r].pc = "store"
      /\ work' = [work EXCEPT ![r] = None]
      /\ work \in [Requests -> Calls \cup {None}]
      /\ rows \in [Requests -> Seq(Row)]
      /\ InOrder(req[r], docs[r], work[r], rows[r])
  BY DEF StoreRows, Store, At, IInv, TextInv, TextTyped
<1>2. PICK drafts : drafts = DraftsOf(req[r].kind, req[r].identity)
  OBVIOUS
<1>3. /\ req[r].kind \in Searchable /\ req[r].identity \in Identities
      /\ drafts \in Seq(DraftSet) /\ drafts # <<>> /\ DraftsFor(r) = drafts
  BY <1>1, <1>2, InHand
<1>4. work[r].vectors = Texts(drafts)
  BY <1>1, <1>2 DEF InOrder
<1>5. RowsOf(drafts) \in Seq(Row)
  <2>1. Len(drafts) \in Nat
    BY <1>3, TextsTyped
  <2>2. ASSUME NEW k \in 1..Len(drafts)
        PROVE  [text |-> drafts[k].text, locator |-> drafts[k].locator, vector |-> drafts[k].text] \in Row
    <3>1. drafts[k] \in DraftSet
      BY <1>3, TextsTyped
    <3> QED BY <3>1 DEF DraftSet, Row
  <2>3. [k \in 1..Len(drafts) |->
           [text |-> drafts[k].text, locator |-> drafts[k].locator, vector |-> drafts[k].text]] \in Seq(Row)
    BY <2>1, <2>2, IsASeq
  <2> QED BY <2>3 DEF RowsOf
<1>6. rows' = [rows EXCEPT ![r] = RowsOf(drafts)]
  <2>1. DOMAIN drafts = 1..Len(drafts) /\ \A k \in 1..Len(drafts) : Texts(drafts)[k] = drafts[k].text
    BY <1>3, TextsTyped
  <2>2. [k \in DOMAIN drafts |->
           [text |-> drafts[k].text, locator |-> drafts[k].locator, vector |-> Texts(drafts)[k]]]
          = RowsOf(drafts)
    BY <2>1 DEF RowsOf
  <2> QED BY <1>3, <1>4, <2>2 DEF StoreRows
<1>7. /\ TextTyped' /\ rows'[r] = RowsOf(drafts)
      /\ \A s \in Requests : s # r => work'[s] = work[s] /\ rows'[s] = rows[s]
  BY <1>1, <1>5, <1>6 DEF TextTyped
<1>8. Moves(r) /\ req'[r].pc = "close" /\ docs'[r] = "indexed"
  BY <1>1, StepMoves, StepLabels
<1>9. /\ req'[r].kind \in Searchable /\ req'[r].identity \in Identities
      /\ drafts = DraftsOf(req'[r].kind, req'[r].identity)
  BY <1>2, <1>3, <1>8 DEF Moves
<1>10. InOrder(req'[r], docs'[r], work'[r], rows'[r])
  BY <1>3, <1>7, <1>8, <1>9 DEF InOrder
<1>11. OnlyOf(r)
  BY <1>7, <1>8 DEF OnlyOf, Moves
<1> QED BY <1>7, <1>10, <1>11, OneMoves

LEMMA TextInvariance == IndexingSpec => []TextInv
<1>1. IndexingInit => TextInv
  <2> SUFFICES ASSUME IndexingInit PROVE TextInv
    OBVIOUS
  <2>1. TextTyped
    <3>1. <<>> \in Seq(Row)
      BY EmptySeq
    <3> QED BY <3>1 DEF IndexingInit, TextTyped
  <2>2. ASSUME NEW r \in Requests PROVE InOrder(req[r], docs[r], work[r], rows[r])
    <3>1. /\ req[r].pc = "new" /\ req[r].kind = None /\ docs[r] = None /\ rows[r] = <<>>
      BY DEF IndexingInit, Init, NewRequest
    <3>2. ~Holds(req[r]) /\ docs[r] # "indexed"
      BY <3>1, IngestionAssumption DEF Holds, Statuses
    <3> QED BY <3>1, <3>2 DEF InOrder
  <2> QED BY <2>1, <2>2 DEF TextInv
<1>2. ASSUME IInv, TextInv, [IndexingNext]_indexingVars PROVE TextInv'
  <2>1. CASE IndexingNext
    <3>1. PICK r \in Requests :
            \/ ParseText(r) \/ CreateAndChunk(r) \/ BatchArrives(r) \/ BatchRetried(r)
            \/ StoreRows(r) \/ Ends(r) \/ Elsewhere(r)
      BY <2>1 DEF IndexingNext
    <3>2. TypeOK
      BY <1>2 DEF IInv
    <3> QED BY <1>2, <3>1, <3>2, ParseInOrder, CreateInOrder, BatchInOrder, RetryInOrder,
               StoreInOrder, EndsInOrder, ElsewhereInOrder
  <2>2. CASE UNCHANGED indexingVars
    <3>1. req' = req /\ docs' = docs /\ work' = work /\ rows' = rows
      BY <2>2 DEF indexingVars, vars
    <3> QED BY <1>2, <3>1 DEF TextInv, TextTyped
  <2> QED BY <1>2, <2>1, <2>2
<1> QED BY <1>1, <1>2, ImplementsIngestion, Invariance, PTL DEF IndexingSpec

(* The rows retrieval will find are the source, for every source, limit    *)
(* and sequence of batches, retries, failures and crashes: each is within  *)
(* the size limit and has the vector of its own text, and together the     *)
(* rows that cite a page say what the page says, letter by letter.         *)
THEOREM RowsAreTrue == IndexingSpec => []RowsTrue
<1>1. ASSUME TextInv PROVE RowsTrue
  <2> SUFFICES
        ASSUME NEW r \in Requests
        PROVE  /\ rows[r] # <<>> <=> docs[r] = "indexed"
               /\ \A k \in DOMAIN rows[r] :
                    rows[r][k].vector = rows[r][k].text /\ Length(rows[r][k].text) <= MaxChunk
               /\ docs[r] = "indexed" /\ (req[r].kind = "image" => Unambiguous(req[r].identity)) =>
                    IF req[r].kind = "url"
                    THEN CitedLetters(r, 0) =
                           FlattenSeq([p \in DOMAIN PagesOf[req[r].identity] |->
                                         SourceLetters(req[r].identity, p)])
                    ELSE \A p \in DOMAIN PagesOf[req[r].identity] :
                           CitedLetters(r, p) = SourceLetters(req[r].identity, p)
    BY DEF RowsTrue
  <2>1. InOrder(req[r], docs[r], work[r], rows[r])
    BY <1>1 DEF TextInv
  <2>2. CASE docs[r] # "indexed"
    <3>1. rows[r] = <<>> /\ DOMAIN rows[r] = {}
      BY <2>1, <2>2 DEF InOrder
    <3> QED BY <2>2, <3>1
  <2>3. CASE docs[r] = "indexed"
    <3>1. PICK kind, h, drafts :
            /\ kind = req[r].kind /\ h = req[r].identity /\ drafts = DraftsOf(kind, h)
            /\ kind \in Searchable /\ h \in Identities
            /\ drafts # <<>> /\ rows[r] = RowsOf(drafts)
      BY <2>1, <2>3 DEF InOrder
    <3>2. drafts \in Seq(DraftSet)
      BY <3>1, DraftsHold
    <3>3. Len(drafts) \in Nat /\ DOMAIN drafts = 1..Len(drafts)
          /\ \A k \in 1..Len(drafts) : drafts[k].text \in Chunks /\ drafts[k] \in DraftSet
      BY <3>2, TextsTyped
    <3>4. /\ DOMAIN rows[r] = 1..Len(drafts)
          /\ \A k \in 1..Len(drafts) :
               /\ rows[r][k].text = drafts[k].text /\ rows[r][k].vector = drafts[k].text
               /\ rows[r][k].locator = drafts[k].locator
      BY SMTT(30), <3>1, <3>3 DEF RowsOf
    <3>5. rows[r] # <<>>
      <4>1. Len(drafts) # 0
        BY <3>1, <3>2, EmptySeq
      <4>2. 1 \in DOMAIN rows[r]
        BY <3>3, <3>4, <4>1
      <4> QED BY <4>2
    <3>6. \A k \in DOMAIN rows[r] :
            rows[r][k].vector = rows[r][k].text /\ Length(rows[r][k].text) <= MaxChunk
      BY <3>3, <3>4 DEF Chunks
    <3>7. \A p : CitedLetters(r, p) = Letters(Spread(Cite(p), drafts))
      <4> SUFFICES ASSUME NEW p PROVE CitedLetters(r, p) = Letters(Spread(Cite(p), drafts))
        OBVIOUS
      <4>1. [k \in DOMAIN rows[r] |->
               IF rows[r][k].locator.page = p THEN rows[r][k].text ELSE <<>>]
              = [k \in DOMAIN drafts |-> Cite(p)[drafts[k]]]
        <5>1. \A k \in 1..Len(drafts) :
                (IF rows[r][k].locator.page = p THEN rows[r][k].text ELSE <<>>) = Cite(p)[drafts[k]]
          BY <3>3, <3>4 DEF Cite
        <5> QED BY <3>3, <3>4, <5>1
      <4> QED BY <4>1 DEF CitedLetters, Spread, Applied
    <3>8. (kind = "image" => Unambiguous(h)) => DraftsTrue(kind, h)
      BY <3>1, DraftsAreTrue
    <3> QED BY <2>3, <3>1, <3>5, <3>6, <3>7, <3>8 DEF DraftsTrue
  <2> QED BY <2>2, <2>3
<1> QED BY <1>1, TextInvariance, PTL
==============================================================================
