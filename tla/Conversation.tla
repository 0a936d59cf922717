---------------------------- MODULE Conversation ----------------------------
(***************************************************************************)
(* One conversation session and its owner's long-term memories:            *)
(* ConversationOrchestrator.send_message, ConversationRepository and       *)
(* MemoryService.save_memory (also reached by POST /api/memories).         *)
(*                                                                         *)
(* A request runs in one API process.  Database statements are synchronous *)
(* calls on that process's event loop, so between two awaits (the          *)
(* embedding, the answering provider) a request excludes the other         *)
(* requests of its process, and only them: requests of another process     *)
(* interleave statement by statement (READ COMMITTED), and the unique      *)
(* constraints of the two tables are what separates them.                  *)
(***************************************************************************)
EXTENDS Naturals, FiniteSets

CONSTANTS
    Requests,      \* POST requests, retries included
    Processes,     \* API processes sharing the database
    Queries,       \* message texts
    KindOf,        \* [Queries -> Kinds], the intent the text is parsed to
    MemoryOf,      \* [Queries -> Memories], the normalized text it asks to save
    Memories,      \* normalized memory texts
    MessageLimit,  \* history window (message_limit)
    MaxForget,     \* bound: DELETE /api/memories calls
    NoContent,     \* the content of an answer, which nothing depends on
    None

Kinds == {"ask", "transform", "save", "badSave", "memory"}

ASSUME ConversationAssumption ==
    /\ KindOf \in [Queries -> Kinds]
    /\ MemoryOf \in [Queries -> Memories]
    /\ MessageLimit \in Nat \ {0}
    /\ MaxForget \in Nat
    /\ NoContent \notin Queries
    /\ None \notin Queries \union Processes

VARIABLES
    messages,  \* rows of conversation_messages
    title,     \* conversation_sessions.title
    memories,  \* rows of long_term_memories: the text and the question it came from
    forgotten, \* how many memories were deleted
    req        \* per request: where its handler stands and what it has read

vars == <<messages, title, memories, forgotten, req>>

-----------------------------------------------------------------------------
(* Rows and reads *)

Seqs == {m.seq : m \in messages}

MaxSeq ==
    IF messages = {} THEN 0
    ELSE CHOOSE n \in Seqs : \A k \in Seqs : k <= n

Latest_Question ==  \* mutant: the latest question, answered or not
    CHOOSE m \in messages : /\ m.role = "user"
                            /\ \A k \in messages : k.role = "user" => k.seq <= m.seq

Latest == CHOOSE m \in messages : m.seq = MaxSeq

(* uq_conversation_message_session_sequence. *)
SeqTaken_NoConstraint(n) == FALSE  \* mutant: the constraint is missing

SeqTaken(n) == n \in Seqs

(* list_messages(limit=message_limit): the last rows, as sequence numbers. *)
RecentOf_Oldest(rows) ==  \* mutant: the oldest rows instead of the latest
    {m.seq : m \in {x \in rows :
        Cardinality({y \in rows : y.seq < x.seq}) < MessageLimit}}

RecentOf(rows) ==
    {m.seq : m \in {x \in rows :
        Cardinality({y \in rows : y.seq > x.seq}) < MessageLimit}}

Stored(q) == \E m \in memories : m.content = MemoryOf[q]

(***************************************************************************)
(* The places where a handler is suspended at an await, and those where it *)
(* is inside a stretch of synchronous code.                                *)
(***************************************************************************)
Awaiting == {"embedding", "answering"}

InSync == {"readLatest", "readMaxForQuestion", "insertQuestion", "listRecent",
           "checkMemory", "recheckMemory", "insertMemory",
           "readMaxForAnswer", "insertAnswer"}

Ended == {"done", "rejected", "providerFailed", "conflict", "cancelled", "crashed"}

Fresh == [pc |-> "new", process |-> None, query |-> None, untitled |-> FALSE,
          question |-> 0, reused |-> FALSE, max |-> 0, recent |-> {},
          memory |-> "none"]

(* The event loop of r's process is not inside another request's code. *)
LoopFree(r) ==
    \A s \in Requests \ {r} :
        req[s].process = req[r].process => req[s].pc \notin InSync

Query(r) == req[r].query

Kind(r) == KindOf[Query(r)]

Goto(r, pc) == req' = [req EXCEPT ![r].pc = pc]

(* An IntegrityError: the transaction is rolled back, the request ends with 500. *)
Conflict_Ignored(r) == Goto(r, "answering")  \* mutant: the error is swallowed

Conflict(r) == Goto(r, "conflict")

Init ==
    /\ messages = {}
    /\ title = NoContent
    /\ memories = {}
    /\ forgotten = 0
    /\ req = [r \in Requests |-> Fresh]

-----------------------------------------------------------------------------
(* The first transaction: the question *)

(***************************************************************************)
(* A request arrives.  A chat message reads its session row (the title     *)
(* stays in the ORM identity map for the whole transaction); a direct      *)
(* memory request goes straight to the memory service.                     *)
(***************************************************************************)
Submit(r, p, q) ==
    /\ req[r].pc = "new"
    /\ \A s \in Requests : req[s].process = p => req[s].pc \notin InSync
    /\ req' = [req EXCEPT ![r] =
                  [@ EXCEPT !.process = p, !.query = q, !.untitled = (title = NoContent),
                            !.pc = IF KindOf[q] = "memory" THEN "checkMemory"
                                                           ELSE "readLatest"]]
    /\ UNCHANGED <<messages, title, memories, forgotten>>

(* The latest row is a question with the same text, so nobody has answered it. *)

PendingRetry_AnyQuestion(r) ==  \* mutant: the text is not compared
    messages # {} /\ Latest.role = "user"

PendingRetry(r) ==
    /\ messages # {}
    /\ Latest.role = "user"
    /\ Latest.content = Query(r)

PendingId_Lost == 0  \* mutant: user_message_id is not taken from the pending row

PendingId == Latest.seq

ReadLatest(r) ==
    /\ req[r].pc = "readLatest"
    /\ req' = [req EXCEPT ![r] =
                  IF PendingRetry(r)
                  THEN [@ EXCEPT !.pc = "listRecent", !.reused = TRUE,
                                 !.question = PendingId]
                  ELSE [@ EXCEPT !.pc = "readMaxForQuestion"]]
    /\ UNCHANGED <<messages, title, memories, forgotten>>

ReadMax(r) ==
    /\ req[r].pc \in {"readMaxForQuestion", "readMaxForAnswer"}
    /\ req' = [req EXCEPT ![r].max = MaxSeq,
                          ![r].pc = IF @ = "readMaxForQuestion" THEN "insertQuestion"
                                                                ELSE "insertAnswer"]
    /\ UNCHANGED <<messages, title, memories, forgotten>>

(***************************************************************************)
(* What send_message does once the question is stored and `recent` read.   *)
(* A transform request with no assistant message before it is answered     *)
(* with a fixed text; everything else but a save awaits the agent or QA.   *)
(***************************************************************************)
AfterQuestion(q, recent, rows) ==
    LET prior == {m \in rows : m.seq \in recent /\ \E n \in recent : n > m.seq}
    IN  CASE KindOf[q] = "badSave" -> "rejected"
          [] KindOf[q] = "save" -> "checkMemory"
          [] KindOf[q] = "transform" /\ \A m \in prior : m.role # "assistant" ->
                 "readMaxForAnswer"
          [] OTHER -> "answering"

(* append_message names an untitled session after the question it stores. *)
TitleAfter(r) == IF req[r].untitled THEN Query(r) ELSE title

(***************************************************************************)
(* append_message(role="user") at max + 1, list_messages and the commit.   *)
(* A second row at the same number violates                                *)
(* uq_conversation_message_session_sequence: the transaction rolls back    *)
(* and the request ends with 500.                                          *)
(***************************************************************************)
InsertQuestion(r) ==
    LET n == req[r].max + 1
        rows == messages \union {[seq |-> n, role |-> "user", content |-> Query(r),
                                  by |-> r, question |-> n]}
    IN  /\ req[r].pc = "insertQuestion"
        /\ \/ /\ SeqTaken(n)
              /\ Conflict(r)
              /\ UNCHANGED <<messages, title>>
           \/ /\ ~SeqTaken(n)
              /\ messages' = rows
              /\ title' = TitleAfter(r)
              /\ req' = [req EXCEPT ![r] =
                            [@ EXCEPT !.question = n, !.recent = RecentOf(rows),
                               !.pc = AfterQuestion(Query(r), RecentOf(rows), rows)]]
        /\ UNCHANGED <<memories, forgotten>>

ListRecent(r) ==
    /\ req[r].pc = "listRecent"
    /\ req' = [req EXCEPT ![r].recent = RecentOf(messages),
                          ![r].pc = AfterQuestion(Query(r), RecentOf(messages), messages)]
    /\ UNCHANGED <<messages, title, memories, forgotten>>

-----------------------------------------------------------------------------
(* MemoryService.save_memory *)

(* The save is settled: a chat request goes on to its confirmation. *)
Settle(r, status) ==
    req' = [req EXCEPT ![r] =
               [@ EXCEPT !.memory = status,
                         !.pc = IF Kind(r) = "memory" THEN "done" ELSE "readMaxForAnswer"]]

CheckMemory(r) ==
    /\ req[r].pc = "checkMemory"
    /\ IF Stored(Query(r)) THEN Settle(r, "already_saved") ELSE Goto(r, "embedding")
    /\ UNCHANGED <<messages, title, memories, forgotten>>

(* The embedding provider answers or fails; the second transaction starts. *)
Embed(r) ==
    /\ req[r].pc = "embedding"
    /\ \E pc \in {"recheckMemory", "providerFailed"} : Goto(r, pc)
    /\ UNCHANGED <<messages, title, memories, forgotten>>

(* Another request stored the memory during the embedding. *)
SavedMeanwhile(r) == Stored(Query(r))

RecheckMemory(r) ==
    /\ req[r].pc = "recheckMemory"
    /\ IF SavedMeanwhile(r) THEN Settle(r, "already_saved") ELSE Goto(r, "insertMemory")
    /\ UNCHANGED <<messages, title, memories, forgotten>>

(* uq_long_term_memory_owner_type_content, and the source a memory records. *)
MemoryTaken(r) == Stored(Query(r))

MemorySource(r) == req[r].question

InsertMemory(r) ==
    /\ req[r].pc = "insertMemory"
    /\ \/ /\ MemoryTaken(r)
          /\ Conflict(r)
          /\ UNCHANGED memories
       \/ /\ ~MemoryTaken(r)
          /\ memories' = memories \union 
                {[content |-> MemoryOf[Query(r)], question |-> MemorySource(r)]}
          /\ Settle(r, "saved")
    /\ UNCHANGED <<messages, title, forgotten>>

(* DELETE /api/memories/{id}, in a worker thread of any process. *)
ForgetMemory ==
    /\ forgotten < MaxForget
    /\ \E m \in memories : memories' = memories \ {m}
    /\ forgotten' = forgotten + 1
    /\ UNCHANGED <<messages, title, req>>

-----------------------------------------------------------------------------
(* The answer and the last transaction *)

(* The agent runtime or the QA orchestrator returns, or raises. *)
AnswerArrives(r) ==
    /\ req[r].pc = "answering"
    /\ \E pc \in {"readMaxForAnswer", "providerFailed"} : Goto(r, pc)
    /\ UNCHANGED <<messages, title, memories, forgotten>>

(* append_message(role="assistant"), commit, and the response. *)
InsertAnswer(r) ==
    LET n == req[r].max + 1
    IN  /\ req[r].pc = "insertAnswer"
        /\ \/ /\ SeqTaken(n)
              /\ Conflict(r)
              /\ UNCHANGED messages
           \/ /\ ~SeqTaken(n)
              /\ messages' = messages \union
                    {[seq |-> n, role |-> "assistant", content |-> NoContent,
                      by |-> r, question |-> req[r].question]}
              /\ Goto(r, "done")
        /\ UNCHANGED <<title, memories, forgotten>>

-----------------------------------------------------------------------------
(* Interruptions *)

(* The stream's client disconnects: the task is cancelled at its await. *)
Cancel(r) ==
    /\ req[r].pc \in Awaiting
    /\ Goto(r, "cancelled")
    /\ UNCHANGED <<messages, title, memories, forgotten>>

(* An API process dies; what its open transactions wrote is rolled back. *)
Crash(p) ==
    /\ \E r \in Requests : req[r].process = p /\ req[r].pc \notin Ended
    /\ req' = [r \in Requests |->
                  IF req[r].process = p /\ req[r].pc \notin Ended
                  THEN [req[r] EXCEPT !.pc = "crashed"] ELSE req[r]]
    /\ UNCHANGED <<messages, title, memories, forgotten>>

-----------------------------------------------------------------------------

Step(r) ==
    /\ LoopFree(r)
    /\ \/ ReadLatest(r)    \/ ReadMax(r)        \/ InsertQuestion(r)
       \/ ListRecent(r)    \/ CheckMemory(r)    \/ Embed(r)
       \/ RecheckMemory(r) \/ InsertMemory(r)   \/ AnswerArrives(r)
       \/ InsertAnswer(r)

Next ==
    \/ \E r \in Requests, p \in Processes, q \in Queries : Submit(r, p, q)
    \/ \E r \in Requests : Step(r) \/ Cancel(r)
    \/ \E p \in Processes : Crash(p)
    \/ ForgetMemory

Spec == Init /\ [][Next]_vars

-----------------------------------------------------------------------------
(* Properties *)

Rows == [seq : Nat \ {0}, role : {"user", "assistant"}, content : Queries \union {NoContent},
         by : Requests, question : Nat \ {0}]

RequestStates ==
    [pc : {"new"} \union InSync \union Awaiting \union Ended,
     process : Processes \union {None}, query : Queries \union {None},
     untitled : BOOLEAN, question : Nat, reused : BOOLEAN, max : Nat,
     recent : SUBSET Nat, memory : {"none", "saved", "already_saved"}]

TypeOK ==
    /\ messages \subseteq Rows
    /\ title \in Queries \union {NoContent}
    /\ memories \subseteq [content : Memories, question : Nat]
    /\ forgotten \in 0..MaxForget
    /\ req \in [Requests -> RequestStates]

(***************************************************************************)
(* Whatever the processes interleave and wherever they crash, the sequence *)
(* numbers of a conversation are 1..n with no hole and no duplicate: the   *)
(* "max + 1" read in one statement and inserted in another is protected    *)
(* only by the unique constraint.                                          *)
(***************************************************************************)
DenseSequence ==
    /\ Seqs = 1..MaxSeq
    /\ \A a, b \in messages : a.seq = b.seq => a = b

(***************************************************************************)
(* Every assistant row answers a question of its own request's text that   *)
(* was stored before it, and its request got that far with a provider      *)
(* result or a settled memory: no fake assistant message is ever stored.   *)
(***************************************************************************)
NoFakeAnswer ==
    \A m \in messages : m.role = "assistant" =>
        /\ req[m.by].pc = "done"
        /\ \E u \in messages :
              /\ u.role = "user" /\ u.seq = m.question /\ u.seq < m.seq
              /\ u.content = Query(m.by)

(* The log is whole and tells the truth.                                   *)
LogHonest == DenseSequence /\ NoFakeAnswer

(***************************************************************************)
(* The question is stored before any work starts: a handler that awaits a  *)
(* provider, touches the memories or has succeeded has a committed         *)
(* question, so a failure or a crash never loses what the user asked.      *)
(***************************************************************************)
QuestionFirst ==
    \A r \in Requests :
        /\ req[r].pc \in Awaiting \union {"checkMemory", "recheckMemory", "insertMemory",
                                        "readMaxForAnswer", "insertAnswer", "done",
                                        "providerFailed", "rejected", "cancelled"}
        /\ Kind(r) # "memory"
        => \E u \in messages : u.seq = req[r].question /\ u.role = "user"
                               /\ u.content = Query(r)

(***************************************************************************)
(* A memory saved from a chat names a stored question with that text, even *)
(* when the confirmation that follows it fails.                            *)
(***************************************************************************)
MemoryHasSource ==
    \A m \in memories : m.question # 0 =>
        \E u \in messages : u.seq = m.question /\ u.role = "user"
                               /\ MemoryOf[u.content] = m.content

(***************************************************************************)
(* The same text is reported "saved" at most once per stored copy:         *)
(* concurrent saves of one text agree on a single winner, and the          *)
(* others are told "already_saved" or fail.                                *)
(***************************************************************************)
SavedOnce ==
    \A t \in Memories :
        Cardinality({r \in Requests : req[r].memory = "saved" /\ MemoryOf[Query(r)] = t})
            <= forgotten + 1

(* What is done for a question, and what is kept of it, has the stored     *)
(* question behind it.                                                     *)
StoredBeforeUse == QuestionFirst /\ MemoryHasSource /\ SavedOnce

(***************************************************************************)
(* One process never stores a question twice in a row: a repeated question *)
(* whose predecessor has no answer yet continues that one.                 *)
(***************************************************************************)
NoRepeatedQuestion ==
    \A a, b \in messages :
        ~(/\ b.seq = a.seq + 1 /\ a.role = "user" /\ b.role = "user"
          /\ a.content = b.content)

(***************************************************************************)
(* In one process the history handed to the agent ends with the request's  *)
(* own question (send_message drops recent_messages[-1] as "the current    *)
(* question" and passes its number on).                                    *)
(***************************************************************************)
HistoryEndsWithQuestion ==
    \A r \in Requests :
        req[r].recent # {} =>
            /\ req[r].question \in req[r].recent
            /\ \A n \in req[r].recent : n <= req[r].question

(* Requests of one process never meet a unique constraint.                 *)
NoWriteConflict == \A r \in Requests : req[r].pc # "conflict"

(***************************************************************************)
(* As long as one process has served the conversation, its requests        *)
(* interleave only at awaits, and none of what two processes can do to     *)
(* each other happens.                                                     *)
(***************************************************************************)
OneProcess == Cardinality({req[r].process : r \in Requests} \ {None}) <= 1

CalmInOneProcess ==
    OneProcess => NoRepeatedQuestion /\ HistoryEndsWithQuestion /\ NoWriteConflict

(***************************************************************************)
(* A request takes over a stored question only while nobody has answered   *)
(* it: an answered question is asked anew.                                 *)
(***************************************************************************)
ReusesUnanswered ==
    [][\A r \in Requests : ~req[r].reused /\ req'[r].reused =>
          \A m \in messages : m.role = "assistant" => m.question # req'[r].question]_vars

(***************************************************************************)
(* The rows, in the order of their sequence numbers, are the log.          *)
(***************************************************************************)
Log == [n \in 1..MaxSeq |-> CHOOSE m \in messages : m.seq = n]

MessageLog == INSTANCE MessageLog WITH log <- Log

ImplementsLog == MessageLog!Spec
=============================================================================
