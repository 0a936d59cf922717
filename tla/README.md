# Knowvia Agent in TLA+

A verification project for the Knowvia Agent: modules that model its stateful
parts, TLC configurations that check them on small instances, and theorems that
TLAPS checks for every instance. Paths such as `agent/runtime.py` are relative
to the Python package (`src/src/`); `docs/` and `tests/` are the repository's.

## 1. The system

Knowvia answers questions from indexed enterprise sources. A FastAPI process
serves the conversations, the memories, source ingestion and Notion indexing;
their state is in PostgreSQL. The requests of one process are tasks of one event
loop: database statements are synchronous calls, so a request excludes the
others of its process between two `await`s, and nothing but the database
excludes another process.

Knowledge, saved memories and conversation history are separate authorities: an
answer must say what it rests on. The Telegram bot, the supplement proposals
with their write-back to Notion and the RQ workers are kept as legacy code
(`docs/00-product-spec.md`, `docs/01-architecture.md`): `app/legacy.py` mounts
them, `app/main.py` does not. Their sessions are in Redis, under one lock per
session; RQ runs a job again whose process died, but not one whose error the
gateway has mapped to an answer.

| Component | State | Operations | Interacts with | What makes it correct |
|---|---|---|---|---|
| Conversations (`orchestrators/conversation_orchestrator.py`, `repositories/conversation_repository.py`) | sessions, messages with a sequence number unique in the session | send a message, list, title | agent, QA, memory | append-only order, question before work, no answer without a question |
| Long-term memory (`services/memory.py`) | memories, unique per owner and text | save, search, delete | embedding provider | one winner per text, a source that exists |
| Bounded agent (`agent/runtime.py`, `agent/tools.py`, `agent/reference_binding.py`) | the state of one run | ask the provider, call a tool, gates, audit | LLM provider, retriever, memory | evidence behind every answer, budgets, honest failures |
| API idempotency (`app/api_idempotency.py`, `services/api_idempotency.py`) | a row per key: running, succeeded, failed | claim, complete, replay | every ingestion request | one attempt and one outcome per key |
| Source ingestion (`orchestrators/*_ingestion_orchestrator.py`, `services/knowledge_indexing_service.py`, `services/embedding_batch_service.py`) | source documents and their status, chunks, workflow runs | look up, parse, chunk, create, embed in batches, store, undo, audit | parsers, OCR, embedding provider | whole sources or nothing, rows that say what the source says and where, true reports |
| Notion index (`orchestrators/notion_*_index_orchestrator.py`, `repositories/notion_*`, `tools/notion_api_reader_client.py`) | pages, blocks, chunks, workflow runs | discover, read request by request, chunk, embed, replace a page | Notion, embedding provider | one reading at a time, never back in time, every text kept |
| Retriever and QA (`rag/retriever.py`, `repositories/chunk_repository.py`, `orchestrators/qa_orchestrator.py`) | none (one question's run) | embed, search, judge, generate, audit | embedding and LLM provider, memory | best chunks of one store, answers from what was found |
| Workflow audit (`services/workflow_run_service.py`) | workflow_runs | start, succeed, fail, reconcile | every orchestrator | the audit agrees with what happened |
| Upload session (`services/telegram_session_store.py`, `orchestrators/telegram_ingestion_orchestrator.py`, `worker/telegram.py`) | a Redis session per album | collect, settle, pick a target, ingest, propose, preview | gateway, settle jobs, supplement proposal | every photo counts, one ingestion, one proposal, one preview |
| Update ledger and queue (`services/telegram_update_idempotency.py`, `queue/rq_queue_client.py`, `worker/telegram.py`) | a row per update, RQ jobs | claim, enqueue, run again, close | gateway | an update acts once, its outcome stays |
| Sync and index sessions (`services/telegram_sync_session_store.py`, `services/telegram_index_session_store.py`) | a Redis session each, one-shot buttons | toggle, confirm, cancel, complete | Notion index | one sync of the pages named, one full index |
| Supplement proposal (`orchestrators/supplement_propose_orchestrator.py`, `services/screenshot_quality.py`) | change requests | draft, repair, validate, store | LLM | what is stored rests on the source, whatever was repaired |
| Supplement review (`orchestrators/supplement_review_orchestrator.py`, `tools/notion_writer_tool.py`) | status of a change request, the page in Notion | accept, reject, edit later, change target | Notion, Notion index | one decision, appended once, indexed |
| Page picker (`services/notion_hierarchy.py`, `orchestrators/telegram_page_orchestrator.py`) | one view, its buttons | render, enter, go up, select | notion_pages | every page reachable, a button does what it says |
| Outcome recovery (`services/telegram_recovery.py`, `scripts/reconcile_telegram_outcome.py`) | none (repairs two rows) | inspect, preview again, reconcile | ledger, audit, review | repairs only what was delivered, once |
| Chunkers, parsers, OCR, clients, LLM providers, cost budget, MCP, readiness | none, or reports | pure functions, adapters | | |

The hard part everywhere is the same: a decision is read in one transaction,
something is awaited (a provider, an embedding, Notion, a queue), and the
decision is used in another, while other requests run, fail or die.
`PROJECT.json` lists the places under "hazards", with the properties about each.
Some have none: where the code does nothing against what can go wrong (an empty
scope, an operator's write over a late outcome, an exception that leaves a claim
until its TTL), the models have the step, the properties exempt exactly what it
leaves, and the note of the hazard says so.

## 2. The modules

Each module's header names its code; `PROJECT.json` maps its definitions to
lines. A definition with a suffix after its name, such as `SeqTaken_NoConstraint`
beside `SeqTaken`, is the definition with a plausible bug: it serves to show
that a property would notice it, and no action uses it.

    MessageLog  <-- implemented by --  Conversation
    OnceOnly    <-- implemented by --  ApiIdempotency
    KnowledgeIngestion  <-- extended and implemented by --  SourceIndexing
    NotionIndex         <-- extended and implemented by --  NotionReader
    SupplementProposal  <--  SupplementReview  <--  PagePicker  <--  OutcomeRecovery   (EXTENDS)
    AgentRun    QuestionAnswering    UploadSession    TelegramUpdates

**Conversation** (abstract specification: **MessageLog**). One session, its
owner's memories, and requests served by several processes. `req[r]` holds the
handler's place and what it has read: the question's number, the maximum it
read, the history window. `ReadLatest`, `ReadMax`, `InsertQuestion` and
`ListRecent` are the first transaction of `send_message`; `CheckMemory`,
`Embed`, `RecheckMemory` and `InsertMemory` are `save_memory`; `AnswerArrives`
and `InsertAnswer` are the provider's answer and the last transaction. Each
statement is a step, and `LoopFree` keeps two requests of one process from
interleaving between awaits. A unique constraint that is met is `Conflict`.
`Cancel` is a client that disconnects, `Crash` a process that dies.

**AgentRun**. One run of the agent: the tool loop (`ProviderCallsTools`,
`ProviderAnswers`, the backend's `FallbackTool`), the structured path (`Resolve`,
`Select`, the tools, `EvidenceReady`, `FinalAnswers`), the three tools, the
history the prompt may use, the scope of source kinds, and `Completed`, the gate
of `_complete_result`, with the workflow run that records the outcome. Reference
bindings are records `[source, said, found]`. The provider and the tools may
return anything their contract allows, or fail.

**ApiIdempotency** (abstract specification: **OnceOnly**). The middleware around
a mutating request: `Lookup`, `InsertRow` and its unique constraint, `Reread`,
`Handle`, `Complete`. The database may fail under each (`ClaimFails`: a 503, or
a plain 500 under the second look; `CompleteFails`), the process may die (`Lose`).

**KnowledgeIngestion**. Requests for sources of one identity, of the kinds the
orchestrators differ in: a PDF or an image is looked up before it is parsed, a
URL after, a text is only stored. `Create`, `Embed` and `Store` are transactions
of their own; `StepFails`, `Undo`, `UndoFails` and `Fail` are the error
handlers. Two fields of `req` only record history for the properties.

**SourceIndexing** extends it with the data: what OCR and the PDF parser make of
the pages (`OcrText`, `ImagePart`, `Parsed`), how several screenshots become one
text with headers and are told apart again (`Sectioned`, `SectionAt`), chunking
(`Split`), the plan of embedding batches (`PlanOf`) and their arrival one by one
(`BatchArrives`, `BatchRetried`), and the rows stored (`StoreRows`). A vector is
named by the text it embeds. Every step is a step of KnowledgeIngestion or
stutters, which is proved.

**NotionIndex**. `notion[p]` is the history of page p as people edit it (`Edit`)
and move blocks between pages (`Move`): what a run has read is a version of
this history, or a mixture of several. A run (`Start`, `StartFull`, `Discover`)
takes its pages one by one: `ReadPage` (the page with its `last_edited_time`),
`ReadBlocks`, `Embed`, `Persist`. The last is one action, because an advisory
lock on the page serializes the transaction; its guards are the stale check and
the unique block id, with `RefuseStale` and `RefuseTaken` for what they refuse.

**NotionReader** extends it with the requests to Notion: the pages of a listing
with their cursor and attempts (`DiscoverPages`, `FetchPage`, `FetchList`,
`FetchChildren`), the lines below a block and their paths (`BlockLines`, `Path`),
and `chunk_notion_page` (`ChunksOf`). Its steps are proved to be steps of
NotionIndex or stutters.

**QuestionAnswering**. One question, from its validation to what the caller and
the audit are told, while other processes store documents and index pages:
`Embed`, `SearchSaved`, `ReadByVector` or, as fallback, `ReadByWords`, `Judge`,
`Generate`, `Recall`, `Audit`, `Tell`, and every failure of these. `edition[s]`
is how often source s was stored; `Row` gives its chunks.

**Lists** has the two operators on lists that SourceIndexing, NotionReader and
QuestionAnswering share (`Kept`, the entries at some places, and `Total`), written
as recursive functions, since the provers cannot use the library's folds.

**UploadSession**. One album: a webhook job for every photo (`Store`,
`ClaimSettle`, `Enqueue`, `Receipt`), settle jobs (`Mark`, `Promote`,
`ClaimPicker`, `SendPicker`), commands and taps (`Show`, `Validate`,
`ClaimTarget`, `ClaimRetry`) and the work they lead to (`Ingest`, `RecordSource`,
`Propose`, `RecordProposal`, `ClaimPreview`, `SendPreview`, `CompletePreview`).
Each operation of the session store is one atomic step. `Crash` and
`CrashSettle` kill a job, which RQ may run again; `Breaks` is an error the gateway
maps, after which the job has "failed" and is not run again; `LostBy` records
which claim that leaves behind. `Expire` is the session's TTL.

**TelegramUpdates**. From a tap to its outcome: the webhook (`Receive`, `Insert`,
`Push`), the worker (`ClaimCallback`, then `Toggle`, `Confirm`, `SyncPages`,
`CompleteSync`, `CancelSync`, `ConfirmIndex`, `CancelIndex`, `StartIndex`,
`EnqueueIndex`), the reply, the audit and the ledger (`Succeed`, `Fail`), the job
of the full index (`RunIndex`, `FinishIndex`) and the operator's reconciliation
(`ReconcileRead`, `ReconcileWrite`).

**SupplementProposal**. A draft of the language model and its way to a pending
change request: checks of title, summary, concepts and notes against the anchors
of the source, at most one repair of the title and one of summary or body, `Store`.
A claim has a label (what stands before a colon) and a rest. Summary and concepts
need evidence and may name nothing new (`ClaimGrounded`); a note may instead be
engineering context (`IsContext`), which comes before the search for new
identifiers and does not look at the label. General Chinese that the source lacks
is advisory in a title (`TitleGrounded`).
**SupplementReview** adds the calls on pending requests and the page in Notion:
`Lookup`, `OpenTopic`, `WriteSection` (each may fail before or after Notion has
done it, and Notion may show it late), `Verify`, the index of the page, `Accept`
with lock and revalidation, `Reject`, `EditLater`, `ChangeTarget`.
**PagePicker** adds the view from which a new target is picked: the rows of
`notion_pages` made a tree (`Walk`, `CycleMembers`, `Hierarchy`), its buttons,
and `Navigate` and `SelectTarget`, which check a button against the rows of the
time it is pressed. **OutcomeRecovery** adds the operator's script for an update
whose proposal was stored but whose preview or acknowledgement failed: `Inspect`,
`BuildPreview`, `SendPreview`, `InspectAgain`, `Reconcile`.

How they fit together: ingestion and Notion indexing write disjoint rows of
`knowledge_chunks`, the agent and QuestionAnswering only read them, and an
idempotency key wraps a request without looking into it. Conversation uses an
agent run as one await with two outcomes (`AnswerArrives`); AgentRun shows what
such a run may return, and the run `agent_empty_answer` checks one thing
Conversation expects of it, that the answer can be stored. UploadSession uses
ingestion and proposal as one step each with their outcomes, and
TelegramUpdates the Notion index.

## 3. What TLC checks

| Run | Instance | States | What it shows |
|---|---|---|---|
| `conversation` | 3 requests, 2 processes, 5 texts (one per intent), 1 memory, 1 deletion, window of 3 | 979 thousand | dense sequences and honest answers (`LogHonest`), everything stored before it is used, memories with a source (`StoredBeforeUse`), what holds only among requests of one process (`CalmInOneProcess`), a retry uses the unanswered question, the rows implement `MessageLog` |
| `agent_safety` | 2 chunks, 1 memory, 3 messages, 4 scopes, limits (3,6), (2,2), (2,1), batches of 2 | 4.1 million | `EvidenceRules` (what an answer rests on), `EffectRules` (budgets, saves, what is stored and audited), `ReasonsHonest` (faults are not hidden) |
| `agent_memory_cited`, `agent_empty_answer` | the same | | two findings, see below |
| `api_idempotency` | 4 requests, 2 keys, one request with another payload | 15 thousand | one attempt and one outcome per key, the refinement of `OnceOnly`, every request is answered unless lost |
| `notion_index` | 2 pages, listings of 2, a toggle with texts below that moves, 2 runs, 2 edits | 1.6 million | pages of one reading and true reports (`PagesHonest`), every text in a chunk of its section (`TextKept`), never back in time |
| `notion_moved` | the same | | a finding, see below |
| `knowledge_ingestion` | 3 requests, 2 identities of 3 pages, batches of 2 inputs, 2 attempts | 847 thousand | whole sources, true replies, explained orphans, and rows whose text, locator and vector belong together (`RowsTrue`) |
| `question_answering` | 3 sources with 2 to 3 editions, 8 chunks, 26 questions | 829 thousand | the best chunks of one store, answers only from what was found (`AnswersFromOneStore`), caller and audit told the same (`OutcomeTold`) |
| `upload_session` | 2 photos, a tap, a command; 1 crash, error or expiry | 429 thousand | work once, the settled album is the one seen, claims end |
| `telegram_updates` | 3 deliveries, 4 scenarios, 1 fault, an operator | 220 thousand | one sync or index per session, outcomes stay, claims end |
| `supplement` | 2 requests, 3 pages, 3 calls, 12 scenarios, 3 minutes; any draft of 13 anchors, 10 titles and 9 claims | 1.1 million | grounded proposals (`StoredIsGrounded`), reviews (`ReviewsHold`), true records (`RecordsTell`), a picker that shows every page (`PickerWhole`) |

Every property of a passing run has a mutant in `PROJECT.json` that breaks it.

**Why the bounds are enough.** A conflict on a sequence number or a memory
needs two writers; the third request is the retry, the other writer, or the
one whose answer lands between. With a history window of 3 four messages
are enough to leave it. The agent's budget of 3 calls and 6 turns is the one of
`app/config.py`; the smaller settings are those that a decision with two facets
exceeds and that are too short for the structured path; a batch of two calls
and a budget of two or three reach every way of running out; the scopes are
none, empty, supported with an unsupported kind, and unsupported only. Three
requests on one key are owner, loser of the insert and replayer.

In the Notion model an old snapshot needs one writer that overtakes another, and
two edits between the reads and the writes; a page moved between two needs one
block. `PageSize` 2 (100 in the code) splits a listing of three, so that an edit
falls between its pages. `MaxChunk` 5 (1200) is one block that fits, two that do
not and one text that must be cut. In SourceIndexing `MaxChunk` 4, `MaxInputs` 2
and `MaxTokens` 4 (1200, 512, 250000) make sources of more than one chunk, batch
and part, with a word longer than a chunk; `MaxAttempts` 2 (3) is one retry.

QuestionAnswering asks for 1 to 3 chunks from a pool of at most 4 (20), so that
the pool is smaller than the candidates; `Floor` 30 is the code's, with chunks on
both sides of it and at equal distance. UploadSession and TelegramUpdates allow
one crash, lost push or expiry (`MaxFaults`) and two runs of a job (`MaxTries`; RQ
retries three times): a second run meets everything the first one left, and a
third finds the same state. `MaxSelected` 2 (10) is exceeded by a third page. The
scenarios of these two and of Supplement are the sets of calls that touch the
same record in conflicting ways; every order of their steps is explored.
`MaxMinutes` 3: Notion's `last_edited_time` has minutes, so that two edits may
share one or not. `MaxEdits`, `MaxForget`, `MaxBatch`, `MaxFaults`, `MaxTries` and
`MaxMinutes` are bounds of the models, the others are limits of the code.
`CHECK_DEADLOCK FALSE` is set where requests, runs and edits simply end;
QuestionAnswering has a step for the end and is checked for deadlock.

**Fairness.** `ApiIdempotency` assumes `WF(Serve(r))`: the event loop runs ready
tasks and provider clients have timeouts, so an await ends. `UploadSession`
and `TelegramUpdates` assume that a call that began goes on, that the workers
take every queued job, and that RQ runs a dead job again while it has retries.
Nothing is assumed of users, redeliveries, operators, crashes, expiry or edits;
liveness therefore says "or the holder of the claim died, or its job broke", which
is what the code gives, since nothing sweeps such a claim but its TTL. No fairness is
assumed of the other modules: they have no retry loop, and what a crash leaves
behind (a running workflow, a document in "indexing", a running key) stays.

## 4. What is proved

TLAPS checks these for any requests, processes, pages, texts and keys, and for
any values of the limits. A module of proofs stands beside each group of modules.
Every invariant and every action property that a passing run checks is stated by one
of these theorems. Hardly a safety rule is inductive as it stands: each entry names
what the invariant adds. The inductive invariants were first checked by TLC.

- **ConversationProof**: `TypeCorrect`, `SequenceDense`, `RowsImplementLog`,
  `AnswersAreReal`, `LogIsHonest`, `ReuseIsSafe`, `QuestionComesFirst`,
  `OneProcessIsCalm`. Density is not inductive: the number inserted was read
  earlier. The invariant adds that no number a request has read exceeds the
  maximum, so an insert the constraint admits is an append (`InsertAppends`), and
  that a request past its first transaction has a stored question. The refinement
  follows: such an insert appends to `Log`. For `StoredBeforeUse` it adds what a
  request keeps (`Notes`), that its question is stored when used (`Backed`), and
  that every report of a save had a row of its own (`Counted`). For
  `CalmInOneProcess` it adds that the requests of a process take turns
  (`Exclusive`), so what one read in a statement still holds in its next (`CalmOK`):
  the maximum read is the maximum, and an unanswered question is seen.
- **KnowledgeIngestionProof**: `TypeCorrect`, `SourcesWhole`, `RepliesAreTrue`,
  `GuardWorks`, `OrphansExplained`, `EverySourceAccounted`. Replies are about
  documents of other requests; the invariant says that a request about to report
  has a sound source (`Sound`) and that what it could find at its start is still
  indexed (`Guarded`). One lemma, `Step`'s conditions with `OthersKeep`, shows that
  a step of one request keeps this of all others: nothing indexed ever changes.
  Of SourceIndexing: `ImplementsIngestion`, by which `WholeSourcesIndexed` carries
  over: chunking and batches change nothing of the protocol; and `RowsAreTrue`. Its
  invariant (`TextInv`) says that a request in a batch has the vectors of the batches
  before it, and that the rows of an indexed document are its drafts. The rest is
  about what the code computes: splitting keeps every letter of every word, within
  the limit and in order; the batches of a plan are the drafts 1 to N in order; in the
  joined text of an album the headers are the only marks and each stands before its
  image, so that the section found for an image is that image's text, unless a name
  or a word could be taken for a header (`Unambiguous`).
- **NotionIndexProof**: `TypeCorrect`, `OneReadingStored`, `ReportsAreTrue`,
  `PagesAreHonest`, `NeverBehind`. What is stored is one reading: exactly one version
  if nobody edited meanwhile, else every block that stayed and perhaps some that
  came or went (`Between`). The argument is one of times: versions grow
  (`Growing`), what a run read lies between the time it began and the time of the
  blocks it read later (`Reading`), a stored label is at most the time of the
  stored content (`Labelled`), and the stale check lets labels only move forward
  (`Forward`). The lemma `Replaced` shows that deleting chunks through the block
  rows is right because of the unique block id. Of NotionReader:
  `ImplementsNotionIndex`, by which `ReadPagesAreHonest` and `ReadNeverBehind` carry
  over to the reader that goes through a listing page by page while people edit; and
  `TextIsKept`. Its invariant (`ReaderInv`) says which places a listing in progress has
  gathered: every one before the cursor that was shown all the time, none that never
  was, in order. About what the code computes: going down a block skips what is
  below its references and no more (`BlockLinesAre`), for the closed depth is that
  of a reference the next line may still be below; and a line is placed in a chunk
  of its section, a new one only when the section or the room ends (`SplitOK`, kept
  by `PlaceOK`), so that the chunks are all texts of the page, once and in order.
- **AnsweringProof**. Of AgentRun: `TypeCorrect`, `AnswersRestOnEvidence`,
  `EffectsAreBounded`, `ReasonsAreHonest`. What a result may say was decided where
  the run stood before: the invariant adds what each place implies of the decision,
  the evidence and the budget (`Places`), what the evidence is made of (`Evidence`),
  and what a result says of the run it ends (`Sound`). Of QuestionAnswering:
  `CallerAndAuditAgree`, with what each place implies of the audit and of the faults
  so far (`Fits`); `QuestionTyped`; and `AnsweredFromOneStore`, with what each place
  implies of mode, chunks and citations (`Way`) and that the store as it is stays among
  those seen (`Stores`). It rests on the ranking: there is one for every set of
  rows, since the number of better rows gives each a place of its own, and a pool of
  twice as many rows, or of the largest size, holds the best above the floor.
- **OnceOnlyProof**, about the two places where a request may arrive twice. Of
  ApiIdempotency: `KeysTyped`, `OneAttempt`, `OneOutcome`, `OutcomeOfOwnPayload`,
  `KeysKeepTheirRules`, `KeyImplementsOnceOnly`, `OnlyLossStrands`. The invariant adds
  that a key has one owner (`Owned`), what its row says of it (`RowOK`), and that
  everyone who was told an outcome was told the row's (`Answers`). A row stays
  "running" with a request that accounts for it, which stops doing so only by
  completing it (`AccountStays`). Of TelegramUpdates: `TypeCorrect`, `ActsOnce`,
  `RecordedOutcomesStay`, however often updates are delivered and jobs run. One
  delivery owns the row of an update (`Claims`); a job that synchronises finds the
  session processing and nothing synchronised before (`SyncHeld`); the same holds of
  the job that starts a full index, its workflow run and the operator (`IndexHeld`).
- **UploadSessionProof**: `TypeCorrect`, `WorksOnce`, `SettlesOnlyWhatItSaw`, for
  any number of photos, commands, crashes, errors, reruns and sessions. What one job may do
  rests on what the others no longer can: a session does not expire under a job
  (`Present`), its states imply a target, a picker, a proposal (`Album`), a job at
  work has it to itself and a source has one proposal (`Worked`), what may still be
  claimed was not sent (`Told`), and a settle job with the current version, as long
  as it is scheduled, saw every photo (`Versions`).
- **SupplementProof**, about SupplementProposal, SupplementReview, PagePicker and
  OutcomeRecovery together (`SpecWithRecovery`): `TypeCorrect`,
  `StoredProposalsGrounded`, `ReviewsAreSound`, `RecordsAreTrue`. The first says that
  no part of a stored screenshot proposal has a number, technical phrase or verdict
  of its own, and none a product, identifier or ASCII word but in the label of a note
  that is context: that exception is the code's. The invariant says
  what a draft at each place has passed (`Drafted`), what a call has done
  (`Shaped`), how the calls about one request know of each other's decisions
  (`Decisions`), that a snapshot later than an accept's own was begun after its
  section was shown (`Timely`), that only a call that found no section writes one
  (`Appended`), and what an operator has seen before repairing (`Repaired`).
  `PickerShowsAll` is about an algorithm: whatever parents the rows name,
  `_find_cycle_members` finds exactly the pages that are above themselves
  (`CyclesFound`, with what a walk adds to the walks before it), so that every way
  up ends at the root (`ReachesRoot`) and every page is reached on the way down
  (`OpensDown`). It is proved by induction, with the lemmas of ListLemmas.

**ListLemmas** holds what these proofs share: what `Kept`, `Total`, `FlattenSeq` and a
list with a function applied to its entries return, and induction. The library
states induction over the numbers with an operator as its parameter, which the
provers cannot instantiate. Its theorem that the order of the numbers is well founded
has no such parameter: from it follow induction for sets (`UpTo`), for lists
(`ListsUpTo`), and that a recursive function has the values its equations say
(`Recursion`). Whatever is proved of recursive data above rests on these.

The assumptions are the named `ASSUME`s of the modules, evaluated by TLC on every
run: constants have the shapes their comments say, and `None` and `Nothing` are no
values of the data. Those worth a second look: the rows of a store are finitely many
and have numbers as ids (`IdsAssumption`, a primary key); a question asks for at
most `MaxPool` chunks (`QuestionsAssumption`: `/qa` admits 1 to 20); a word has a
letter (`SourcesAssumption`: words are what a split at blanks leaves); a block has
one place on a page, and the lines below it are in preorder, so that the i-th line
is less than i deep (`ReaderAssumption`: they are read from a tree).

Only model-checked: `RequestsEnd` and `ClaimsEnd` (twice), which are liveness under
fairness and out of the provers' reach. The violations of section 5 are runs.

## 5. What the code does and its documents say otherwise

- `agent_memory_cited`: an empty final text after searches of both kinds is
  replaced by the saved memories verbatim, with the citations of Knowledge
  (`agent/runtime.py:1278`), which `docs/04-quality-and-guardrails.md:126` rules out.
- `agent_empty_answer`: in the tool loop an empty text can become a succeeded
  run with an empty answer, which `append_message` refuses to store.
- `notion_moved`: a block that moved from page A to page B makes every index of
  B fail until A is indexed again, because only B's rows are replaced and the
  block id is unique; a full index that lists B first never gets past it.

Met while modelling, and stated in the models as the code does it, since no
document promises more or no run is about it:

- Overlapping uploads of one file may both be indexed, a key whose owner dies
  stays "running", a cancelled run may have saved its memory, and with two
  processes a question may appear twice or meet a conflict (hence the guards of
  `CalmInOneProcess`).
- A scope without any kind the retriever supports (`[]`, `["source_document"]`) is
  taken for no scope by a tool call that names none (`_bounded_source_kinds`,
  `agent/tools.py:510`) and searches every kind, while the retriever and `/qa` find
  nothing with it (`tests/test_retriever.py:185`). On the structured path it ends in
  `invalid_arguments`, as does a question that exceeds 2000 characters with its
  reference bindings (`agent/runtime.py:958`).
- A chunk without an embedding is invisible to the vector query
  (`rag/retriever.py:133`) as long as any other matches; a section is matched by
  LIKE with its wildcards unescaped (`chunk_repository.py:526`); a failed memory
  search falls through to Knowledge silently (`qa_orchestrator.py:890`).
- Two accepts of one request that overlap both append, for each looks before the
  other has written; a repaired proposal is stored by `model_copy`, without the
  schema's validation.
- A note that is engineering context is accepted before new identifiers are looked
  for, and its label is stripped unread (`services/screenshot_quality.py:2204,2299`):
  "Kubernetes: production index query performance" passes where "index" is a concept
  and no screenshot names Kubernetes; without the colon it is refused. The comment
  on the words that pass (372-374) says unknown product names are still rejected.
- The bot answers "No Notion write was performed." also after a failed accept
  that did append (`telegram_review_orchestrator.py:187`), and a cancel says "No
  pages were changed" while a sync is running (`telegram_sync_orchestrator.py:155`).
  The session of a full index is not completed by the queued job
  (`telegram_index_orchestrator.py:220`). A root view whose buttons are all stale
  leaves the upload picker without a way on
  (`telegram_gateway_orchestrator.py:2674`).

## 6. What is abstracted, and what is not modelled

Abstractions of the modelled parts, beside those their headers name:

- **Conversation**: session creation is the initial state. A COMMIT that raises is
  taken not to have committed, here and in every module.
- **AgentRun**: prompts, relevance scores and context sizes are choices of the
  environment; scopes of page ids and section paths and the metrics are left out.
  A workflow service is always present.
- **SourceIndexing**: one token per character, with `MaxChunk <= MaxTokens`, so the
  limits of a single input never bite. Of OCR text only what decides its fate is
  modelled: whether some word is not a header, and whether a name could be taken
  for one. Upload limits, labels, previews and delays are left out, and so are the
  parsers of URLs and transcripts (a text with one part).
- **NotionIndex, NotionReader**: every page has a `last_edited_time`; the order of
  blocks and the lines below them are fixed, texts and the place of a block
  change. The attempts of one request are merged, and the children of a page's
  blocks are fetched in one step. A block's path leaves out its page's.
- **QuestionAnswering**: one question, of the owner "local" (questions share
  nothing but the chunks). A source's chunks and its status commit together, so
  eligibility never excludes a chunk. Validation errors are left out; a search of
  the memories is a choice.
- **UploadSession**: one album of one chat; PDFs and single photos follow the same
  path without a settle job and are left out. The preview's delivery mark is
  merged with its status. The session expires only while no job of it runs:
  it lives ten minutes after each write, a job three at most. An operation is atomic as long as it is
  shorter than the ten seconds after which its lock is given to another. `Crash` also stands for the
  exceptions that escape the worker: a failed update of the audit, and in a settle job
  any but the gateway's own. The bot's message about an error is left out.
- **TelegramUpdates**: resolving, validating and claiming a button are one step
  (only the claim changes anything, and its lock makes it atomic); what Telegram is told is only "answered". Slash
  commands and the buttons of other components are left out. A sync session does
  not expire while it is claimed. The operator reconciles the full index only.
- **SupplementProposal**: text is the anchors it names, of seven kinds; words the
  validator lets pass anywhere are no anchors. A part is one claim: its claims
  are judged one by one and all have to pass. Whether a claim has as many of the source's anchors
  as its languages ask for (`evidence`), and whether it has a marker, a concept and
  no absolute word (`bounded`), is given with the claim, as is whether concepts are
  covered and notes differ (`listed`). A "verdict" is by the list of words the part
  is checked with; counts, lengths and language are `form`.
- **SupplementReview**: time zone, date and topic are one step, `OpenTopic`. Snapshots of one minute may
  replace each other, as in the code.
- **PagePicker**: only the picker of a change of target; the upload's shares its
  code. One view at a time, whose buttons may be stale. The expiry of button
  tokens and the old paging buttons are left out.
- **OutcomeRecovery**: the reads of one inspection are one step; the operator names
  rows that belong together; only updates an operator will repair have an
  outcome. Reruns of the update itself are in TelegramUpdates.

Not modelled:

- Cost budget and tracker: decimal arithmetic on a caller's own usage, no state of
  its own. MCP server, readiness, metrics and observability: adapters and views.
- The parsers of URLs, PDFs and transcripts beyond what they hand on, the
  formatting of citations, prompt templates, the payloads of LLM and Telegram
  clients, listings for operators (`telegram_operator_orchestrator.py`): pure text
  functions and I/O.
- The mock backend, `eval/` and the remaining scripts: not part of the service.

## 7. Plan

Done: every component with state of its own is modelled (section 2), every rule the
runs check is proved for all instances, except for liveness (section 4). What
remains is refinement of detail: the gateway's dispatch of messages that are not
taps, and the PDFs and single photos that UploadSession leaves out.
