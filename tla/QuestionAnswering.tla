------------------------- MODULE QuestionAnswering -------------------------
(***************************************************************************)
(* One question answered by QAOrchestrator.answer_question, from its       *)
(* validation to what the caller is told and the workflow audit keeps,     *)
(* while other processes store documents and index Notion pages again.     *)
(* A question takes an answer from one of three places: the conversation   *)
(* (conversation_only), the saved memories, or the indexed chunks, by      *)
(* vector distance or, as a fallback, by words.                            *)
(*                                                                         *)
(* Questions share nothing but the chunks, so one question is modelled.    *)
(* Every statement reads the chunks committed at that moment, so the       *)
(* fallback may see another store than the vector query before it.         *)
(***************************************************************************)
EXTENDS Integers, Lists, SequencesExt

CONSTANTS Sources,     \* Notion pages and documents
          Rows,        \* row ids of knowledge_chunks
          Row,         \* what a row holds: a function on Rows
          Editions,    \* the row sets a source has, one after the other
          Questions,   \* the questions that may be asked
          MaxPool,     \* KNOWLEDGE_VECTOR_CANDIDATE_POOL_MAX
          Floor,       \* KNOWLEDGE_RELEVANCE_FLOOR, in percent
          Nothing

ASSUME SizesAssumption == MaxPool \in Nat \ {0} /\ Floor \in Nat
ASSUME IdsAssumption == Rows \subseteq Nat /\ IsFiniteSet(Rows)
ASSUME EditionsAssumption ==
  \A s \in Sources : Editions[s] \in Seq(SUBSET Rows) /\ Editions[s] # << >>
ASSUME RowsAssumption ==
  \A c \in Rows : Row[c].near \in Nat \cup {Nothing} /\ IsFiniteSet(Row[c].words)

(* QARequest: 1 <= top_k <= 20, the size of the pool.                      *)
ASSUME QuestionsAssumption ==
  \A q \in Questions : q.k \in 1..MaxPool /\ IsFiniteSet(q.words)

VARIABLES edition,   \* edition[s]: the edition of a source that is stored
          ask,       \* the question, and whether the database is PostgreSQL
          run,       \* the state of answer_question
          seen       \* the stores there have been since the question began

questionVars == <<edition, ask, run, seen>>

-----------------------------------------------------------------------------
(* The rows a question may use and how well they match it.                 *)

Stored == UNION {Editions[s][edition[s]] : s \in Sources}

KnowledgeKinds == {"notion", "pdf", "url", "image"}

AllowedKinds ==
  IF ask.kinds = Nothing THEN KnowledgeKinds ELSE ask.kinds \cap KnowledgeKinds

(* An empty list of pages or sections is no restriction; a document has no *)
(* page and lies in no section.                                            *)
Matching(rows) ==
  {c \in rows : /\ Row[c].kind \in AllowedKinds
                /\ ask.postgres => ~Row[c].synthetic
                /\ ask.pages = {} \/ Row[c].page \in ask.pages
                /\ ask.sections = {} \/ Row[c].sections \cap ask.sections # {}}

Embedded(rows) == {c \in Matching(rows) : Row[c].near # Nothing}

Near(c) == Row[c].near

(* The share of the question's words in the chunk counts 75 %, that of the *)
(* chunk's words in the question 25 %, the question as a phrase 15 % more; *)
(* in hundredths of a percent, rounded down.                               *)
Words(c) ==
  LET both == Cardinality(ask.words \cap Row[c].words)
      phrase == IF ask.text \in Row[c].quotes THEN 1500 ELSE 0
      of(whole, share) == IF whole = {} THEN 0 ELSE (share * both) \div Cardinality(whole)
  IN Min({of(ask.words, 7500) + of(Row[c].words, 2500) + phrase, 10000})

Better(score, c, d) == score[c] > score[d] \/ (score[c] = score[d] /\ c < d)

(* The rows, each at the place after all the better ones.                  *)
Ranked(score) ==
  [n \in 1..Cardinality(DOMAIN score) |->
     CHOOSE c \in DOMAIN score : Cardinality({d \in DOMAIN score : Better(score, d, c)}) = n - 1]

FirstOf(s, n) == SubSeq(s, 1, Min({n, Len(s)}))

PoolSize(k) == Min({2 * k, MaxPool})

Pool == FirstOf(Ranked([c \in Embedded(Stored) |-> Near(c)]), PoolSize(ask.k))

AboveFloor(pool) == FirstOf(Kept(pool, {i \in DOMAIN pool : Near(pool[i]) >= Floor}), ask.k)

WithWords(rows) == {c \in Matching(rows) : Words(c) > 0}

ByWords == FirstOf(Ranked([c \in WithWords(Stored) |-> Words(c)]), ask.k)

(* One citation per source and place, in the order of the chunks.          *)
Citations(chunks) ==
  LET place(i) == Row[chunks[i]].place
      new == {i \in DOMAIN chunks : \A j \in 1..(i - 1) : place(j) # place(i)}
  IN Kept([i \in DOMAIN chunks |-> place(i)], new)

-----------------------------------------------------------------------------
(* The state of a question.                                                *)

Works == {"embed", "memory", "vector", "words", "judge", "generate", "recall", "audit", "return"}
Codes == {"LLM_OUTPUT_INVALID", "LLM_PROVIDER_ERROR", "PROVIDER_NOT_FOUND",
          "PROMPT_TEMPLATE_INVALID", "QA_WORKFLOW_FAILED", "WORKFLOW_AUDIT_UPDATE_FAILED"}
Answers == {"answer", "memory", "recalled", "no_history", "insufficient"}

Modes == {"conversation", "memory", "vector", "words"}

(* Nothing is no result, no error code, no status of an audit and no mode. *)
NothingApart == Nothing \notin Answers \cup Codes \cup Modes \cup {"running", "succeeded", "failed"}

ASSUME NothingAssumption == NothingApart

NewRun == [pc |-> "new", vector |-> FALSE, mode |-> Nothing, why |-> Nothing, broken |-> FALSE,
           chunks |-> << >>, citations |-> << >>, ready |-> Nothing, result |-> Nothing,
           faults |-> {}, audit |-> Nothing, told |-> Nothing]

QuestionInit ==
  /\ edition = [s \in Sources |-> 1]
  /\ ask \in Questions
  /\ run = NewRun
  /\ seen = {}

Goto(pc) == run' = [run EXCEPT !.pc = pc]

Unread == run.pc \in {"embed", "memory", "vector", "words"}

(* A document is stored once, a page is indexed again, in one transaction. *)
Replace(s) ==
  /\ edition[s] < Len(Editions[s])
  /\ edition' = [edition EXCEPT ![s] = @ + 1]
  /\ seen' = IF Unread THEN seen \cup {Stored'} ELSE seen
  /\ UNCHANGED <<ask, run>>

(* The validated question is audited and its prompt is loaded.             *)
Start ==
  /\ run.pc = "new"
  /\ run' = [run EXCEPT !.audit = "running",
                        !.mode = IF ask.about = "conversation" THEN "conversation" ELSE Nothing,
                        !.pc = IF ask.about = "conversation" THEN "recall" ELSE "embed"]
  /\ seen' = {Stored}
  /\ UNCHANGED <<edition, ask>>

(* A result is audited first and told afterwards.                          *)
Conclude_Untold(r, result) == [r EXCEPT !.pc = "audit"]

Conclude(r, result) == [r EXCEPT !.result = result, !.pc = "audit"]

(* Every handler audits the failure; that write may fail silently.         *)
Fail(code, fault) ==
  \E audit \in {"failed", run.audit} :
    run' = [run EXCEPT !.pc = "done", !.told = code, !.audit = audit, !.faults = @ \cup {fault}]

PromptMissing ==
  /\ run.pc \in {"embed", "recall"}
  /\ Fail("PROMPT_TEMPLATE_INVALID", "prompt")
  /\ UNCHANGED <<edition, ask, seen>>

(* An embedding that cannot be had is done without.                        *)
NoEmbedding == {"EMBEDDING_PROVIDER_NOT_CONFIGURED", "EMBEDDING_PROVIDER_ERROR",
                "VECTOR_DIMENSION_MISMATCH"}

Embed ==
  /\ run.pc = "embed"
  /\ \/ run' = [run EXCEPT !.vector = TRUE, !.pc = "memory"]
     \/ \E why \in NoEmbedding :
          run' = [run EXCEPT !.why = why, !.pc = "memory", !.faults = @ \cup {"embedding"}]
  /\ UNCHANGED <<edition, ask, seen>>

(* Memories are searched for a question about memory, by its embedding     *)
(* only; a failed search counts as no memories.                            *)
SearchesMemory == ask.about = "memory" /\ run.vector

ReadChunks == IF run.vector /\ ask.postgres THEN "vector" ELSE "words"

SearchSaved ==
  /\ run.pc = "memory"
  /\ \/ /\ SearchesMemory
        /\ run' = Conclude([run EXCEPT !.mode = "memory"], "memory")
     \/ Goto(ReadChunks)
     \/ /\ SearchesMemory
        /\ run' = [run EXCEPT !.pc = ReadChunks, !.faults = @ \cup {"memory"}]
  /\ UNCHANGED <<edition, ask, seen>>

(* Nothing found ends the question before any provider is asked.           *)
Found(mode, why, chunks) ==
  LET r == [run EXCEPT !.mode = mode, !.why = why, !.chunks = chunks,
                       !.citations = Citations(chunks)]
  IN run' = IF r.citations = << >> THEN Conclude(r, "insufficient") ELSE [r EXCEPT !.pc = "judge"]

(* Rows that match but are all below the floor are no reason to fall       *)
(* back to words; no chunk with an embedding is.                           *)
FallsBack_BelowFloor(pool) == AboveFloor(pool) = << >>

FallsBack(pool) == pool = << >>

ReadByVector ==
  /\ run.pc = "vector"
  /\ IF FallsBack(Pool)
     THEN run' = [run EXCEPT !.pc = "words", !.why = "VECTOR_DATA_UNAVAILABLE"]
     ELSE Found("vector", Nothing, AboveFloor(Pool))
  /\ UNCHANGED <<edition, ask, seen>>

(* The fallback runs on the session whose statement failed: PostgreSQL     *)
(* refuses it if that statement aborted the transaction.                   *)
VectorFails ==
  /\ run.pc = "vector"
  /\ \E broken \in BOOLEAN :
       run' = [run EXCEPT !.pc = "words", !.why = "VECTOR_QUERY_FAILED", !.broken = broken,
                          !.faults = @ \cup {"vector"}]
  /\ UNCHANGED <<edition, ask, seen>>

ReadByWords ==
  /\ run.pc = "words"
  /\ ~run.broken
  /\ Found("words", IF run.why = "VECTOR_DATA_UNAVAILABLE" /\ Matching(Stored) = {} THEN Nothing ELSE run.why,
           ByWords)
  /\ UNCHANGED <<edition, ask, seen>>

ReadFails ==
  /\ run.pc = "words"
  /\ Fail("QA_WORKFLOW_FAILED", "database")
  /\ UNCHANGED <<edition, ask, seen>>

Judge_Advisory ==
  /\ run.pc = "judge"
  /\ \E ready \in BOOLEAN : run' = [run EXCEPT !.ready = ready, !.pc = "generate"]
  /\ UNCHANGED <<edition, ask, seen>>

(* The provider judges whether the chunks suffice; if not, the question is *)
(* not answered and nothing is cited.                                      *)
Judge ==
  /\ run.pc = "judge"
  /\ \/ run' = [run EXCEPT !.ready = TRUE, !.pc = "generate"]
     \/ run' = Conclude([run EXCEPT !.ready = FALSE, !.citations = << >>], "insufficient")
  /\ UNCHANGED <<edition, ask, seen>>

(* What the provider writes: a text, nothing, or the sentinel, which is    *)
(* refused now that the chunks were judged to suffice.                     *)
Texts == {"text", "empty", "sentinel"}

Generate ==
  /\ run.pc = "generate"
  /\ \E text \in Texts :
       IF text = "text" THEN run' = Conclude(run, "answer") ELSE Fail("LLM_OUTPUT_INVALID", text)
  /\ UNCHANGED <<edition, ask, seen>>

(* Without a conversation a fixed text says so; with one the provider      *)
(* answers from it, and its sentinel is an answer about the conversation.  *)
Recall ==
  /\ run.pc = "recall"
  /\ IF ask.history
     THEN \E text \in Texts :
            CASE text = "text" -> run' = Conclude(run, "recalled")
              [] text = "sentinel" -> run' = Conclude(run, "insufficient")
              [] OTHER -> Fail("LLM_OUTPUT_INVALID", text)
     ELSE run' = Conclude(run, "no_history")
  /\ UNCHANGED <<edition, ask, seen>>

AsksProvider == run.pc \in {"judge", "generate"} \/ (run.pc = "recall" /\ ask.history)

LLMFails_Disguised ==
  /\ AsksProvider
  /\ run' = Conclude([run EXCEPT !.faults = @ \cup {"provider"}], "insufficient")
  /\ UNCHANGED <<edition, ask, seen>>

LLMFails ==
  /\ AsksProvider
  /\ \/ \E code \in {"LLM_PROVIDER_ERROR", "PROVIDER_NOT_FOUND"} : Fail(code, "provider")
     \/ run.pc = "judge" /\ Fail("LLM_OUTPUT_INVALID", "contract")
  /\ UNCHANGED <<edition, ask, seen>>

Audit ==
  /\ run.pc = "audit"
  /\ run' = [run EXCEPT !.audit = "succeeded", !.pc = "return"]
  /\ UNCHANGED <<edition, ask, seen>>

(* A result that cannot be audited is not told, even if the write had      *)
(* reached the database.                                                   *)
AuditFails ==
  /\ run.pc = "audit"
  /\ \E audit \in {"running", "succeeded"} :
       run' = [run EXCEPT !.pc = "done", !.told = "WORKFLOW_AUDIT_UPDATE_FAILED",
                          !.audit = audit, !.faults = @ \cup {"audit"}]
  /\ UNCHANGED <<edition, ask, seen>>

Tell ==
  /\ run.pc = "return"
  /\ run' = [run EXCEPT !.told = run.result, !.pc = "done"]
  /\ UNCHANGED <<edition, ask, seen>>

(* The time limit of a queued question ends it at any point, also between  *)
(* the audit and the return: the failure is then written over the success. *)
Timeout ==
  /\ ask.queued
  /\ run.pc \in Works
  /\ Fail("QA_WORKFLOW_FAILED", "timeout")
  /\ UNCHANGED <<edition, ask, seen>>

(* The process dies, or the client of the request goes away.               *)
Crash ==
  /\ run.pc \in Works
  /\ Goto("lost")
  /\ UNCHANGED <<edition, ask, seen>>

Done == run.pc \in {"done", "lost"} /\ UNCHANGED questionVars

QuestionNext ==
  \/ \E s \in Sources : Replace(s)
  \/ Start \/ PromptMissing \/ Embed \/ SearchSaved
  \/ ReadByVector \/ VectorFails \/ ReadByWords \/ ReadFails
  \/ Judge \/ Generate \/ Recall \/ LLMFails
  \/ Audit \/ AuditFails \/ Tell \/ Timeout \/ Crash \/ Done

QuestionSpec == QuestionInit /\ [][QuestionNext]_questionVars

-----------------------------------------------------------------------------
(* Types, and what a question has at each end: a caller that is told       *)
(* anything is told a result or an error code of an audited run.           *)
QuestionTypeOK ==
  /\ \A s \in Sources : edition[s] \in 1..Len(Editions[s])
  /\ ask \in Questions
  /\ run.pc \in Works \cup {"new", "done", "lost"}
  /\ run.vector \in BOOLEAN /\ run.broken \in BOOLEAN
  /\ run.mode \in Modes \cup {Nothing}
  /\ run.why \in {Nothing, "VECTOR_DATA_UNAVAILABLE", "VECTOR_QUERY_FAILED"} \cup NoEmbedding
  /\ Range(run.chunks) \subseteq Rows
  /\ run.ready \in BOOLEAN \cup {Nothing}
  /\ run.result \in Answers \cup {Nothing}
  /\ run.audit \in {Nothing, "running", "succeeded", "failed"}
  /\ run.told \in Answers \cup Codes \cup {Nothing}
  /\ run.pc = "done" <=> run.told # Nothing
  /\ run.audit = Nothing <=> run.pc = "new"

(* s lists the k best of the scored rows, better ones first.               *)
BestOf(s, score, k) ==
  /\ Range(s) \subseteq DOMAIN score
  /\ Len(s) = Min({k, Cardinality(DOMAIN score)})
  /\ \A i, j \in DOMAIN s : i < j => Better(score, s[i], s[j])
  /\ \A c \in DOMAIN score \ Range(s), i \in DOMAIN s : Better(score, s[i], c)

(* What a question was given are the best k rows of ONE store there was    *)
(* while it ran, never a mixture of an old and a new edition: by vector    *)
(* the best above the floor, although only a pool of candidates is         *)
(* fetched; by words only if there was no embedding, no vector search, a   *)
(* store without any matching embedding, or a failed vector query.         *)
(* (ProductionChunkRetriever.retrieve_with_metadata.)                      *)
RetrievedFromOneStore ==
  /\ run.mode = "vector" =>
       \E store \in seen :
         /\ Embedded(store) # {}
         /\ LET near == {c \in Embedded(store) : Near(c) >= Floor}
            IN BestOf(run.chunks, [c \in near |-> Near(c)], ask.k)
  /\ run.mode = "words" =>
       /\ \E store \in seen :
            BestOf(run.chunks, [c \in WithWords(store) |-> Words(c)], ask.k)
       /\ \/ ~run.vector \/ ~ask.postgres \/ "vector" \in run.faults
          \/ \E store \in seen : Embedded(store) = {}

(* An answer from Knowledge was judged ready on the chunks it cites, cites *)
(* the place of every chunk once and nothing else; an answer from memory   *)
(* or the conversation cites nothing; "insufficient" means that nothing    *)
(* was found, or what was found was judged not to suffice and is not       *)
(* cited, or the conversation does not tell.                               *)
AnswersGrounded ==
  LET places == {Row[run.chunks[i]].place : i \in DOMAIN run.chunks}
  IN /\ run.told = "answer" =>
          /\ run.mode \in {"vector", "words"} /\ run.ready = TRUE
          /\ run.chunks # << >> /\ Len(run.chunks) <= ask.k
          /\ IsInjective(run.citations) /\ Range(run.citations) = places
     /\ run.told = "memory" => run.mode = "memory" /\ run.vector
     /\ run.told \in Answers \ {"answer"} => run.citations = << >>
     /\ run.told = "insufficient" =>
          run.chunks = << >> \/ run.ready = FALSE \/ run.mode = "conversation"

(* A question is answered from what one store holds, and from nothing      *)
(* else.                                                                   *)
AnswersFromOneStore == RetrievedFromOneStore /\ AnswersGrounded

(* The caller and the audit are told the same: a result only of a run      *)
(* audited as succeeded in which nothing failed that the question needs,   *)
(* and never "insufficient" for a fault; an error of a run audited as      *)
(* succeeded only if the audit itself or the time limit came in between.   *)
OutcomeTold ==
  /\ run.told \in Answers =>
       run.audit = "succeeded" /\ run.faults \subseteq {"embedding", "memory", "vector"}
  /\ run.told \in Codes => run.faults # {} /\
       (run.audit = "succeeded" => run.faults \cap {"audit", "timeout"} # {})
  /\ run.audit = "failed" => run.told \in Codes
=============================================================================
