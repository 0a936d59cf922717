-------------------------- MODULE ConversationProof --------------------------
(***************************************************************************)
(* Proofs about Conversation for any requests, processes and texts: the    *)
(* sequence numbers stay dense, every answer follows its question, and the *)
(* rows implement the append-only MessageLog; what is done for a question  *)
(* has it stored, and one process does not disturb itself (at the end).    *)
(***************************************************************************)
EXTENDS Conversation, Sequences, TLAPS, FiniteSetTheorems

(* Where only a chat request can be. *)
ChatOnly == {"readLatest", "readMaxForQuestion", "insertQuestion", "listRecent",
             "answering", "readMaxForAnswer", "insertAnswer"}

StoredQuestion(rows, n, q) ==
    \E u \in rows : u.seq = n /\ u.role = "user" /\ u.content = q

(***************************************************************************)
(* The inductive invariant.  DenseSequence is not inductive by itself: an  *)
(* insert is at a number read earlier, so the numbers read must be known   *)
(* not to exceed the current maximum.  That an answer finds its question   *)
(* needs to know which requests have asked one: a chat request that saves, *)
(* is being answered or writes its answer, and never a direct save.        *)
(***************************************************************************)
Numbered == MaxSeq \in Nat /\ DenseSequence

RequestOK(x, rows, max) ==
    /\ IF x.pc = "new" THEN x.process = None ELSE x.query \in Queries
    /\ x.pc \in ChatOnly => KindOf[x.query] # "memory"
    /\ x.pc \in {"insertQuestion", "insertAnswer"} => x.max <= max
    /\ x.pc \in {"listRecent", "answering", "readMaxForAnswer", "insertAnswer"} =>
          StoredQuestion(rows, x.question, x.query)
    /\ /\ x.pc \in {"checkMemory", "embedding", "recheckMemory", "insertMemory"}
       /\ KindOf[x.query] # "memory"
       => StoredQuestion(rows, x.question, x.query)

IInv ==
    /\ TypeOK
    /\ Numbered
    /\ \A r \in Requests : RequestOK(req[r], messages, MaxSeq)

-----------------------------------------------------------------------------
(* The row at a sequence number is the only one. *)
LEMMA RowAt ==
    ASSUME NEW rows, NEW m \in rows,
           \A a, b \in rows : a.seq = b.seq => a = b
    PROVE  (CHOOSE x \in rows : x.seq = m.seq) = m
  OBVIOUS

(* The maximum of 1..n, when the numbers of the rows are exactly these. *)
LEMMA MaxOfDense ==
    ASSUME NEW n \in Nat, Seqs = 1..n
    PROVE  MaxSeq = n
<1>1. CASE n = 0
  <2>1. Seqs = {}
    BY <1>1
  <2>2. messages = {}
    BY <2>1 DEF Seqs
  <2> QED BY <1>1, <2>2 DEF MaxSeq
<1>2. CASE n # 0
  <2>1. n \in Seqs /\ \A k \in Seqs : k <= n
    BY <1>2
  <2>2. messages # {}
    BY <2>1 DEF Seqs
  <2>3. \A x \in Seqs : (\A k \in Seqs : k <= x) => x = n
    BY <2>1
  <2> QED BY <2>1, <2>2, <2>3 DEF MaxSeq
<1> QED BY <1>1, <1>2

(* An insert that the unique constraint admits is an append at the end. *)
LEMMA InsertAppends ==
    ASSUME TypeOK, Numbered, NEW row \in Rows, row.seq \notin Seqs,
           row.seq <= MaxSeq + 1, messages' = messages \union {row}
    PROVE  /\ row.seq = MaxSeq + 1
           /\ MaxSeq' = MaxSeq + 1
           /\ Numbered'
           /\ messages' \subseteq Rows
<1>1. row.seq = MaxSeq + 1
  BY DEF Numbered, DenseSequence, Rows
<1>2. Seqs' = Seqs \union {row.seq}
  BY DEF Seqs
<1>3. Seqs' = 1..(MaxSeq + 1)
  BY <1>1, <1>2 DEF Numbered, DenseSequence
<1>4. (MaxSeq + 1 \in Nat) /\ (Seqs' = 1..(MaxSeq + 1) => MaxSeq' = MaxSeq + 1)
  <2>1. MaxSeq + 1 \in Nat
    BY DEF Numbered
  <2>2. CASE messages' = {}
    BY <2>2
  <2>3. CASE messages' # {}
    <3>1. ASSUME Seqs' = 1..(MaxSeq + 1) PROVE MaxSeq' = MaxSeq + 1
      <4>1. MaxSeq' = CHOOSE n \in Seqs' : \A k \in Seqs' : k <= n
        BY <2>3 DEF MaxSeq
      <4>2. MaxSeq + 1 \in Seqs' /\ \A k \in Seqs' : k <= MaxSeq + 1
        BY <3>1, <2>1 DEF Numbered
      <4>3. \A x \in Seqs' : (\A k \in Seqs' : k <= x) => x = MaxSeq + 1
        BY <3>1, <2>1, <4>2 DEF Numbered
      <4> QED BY <4>1, <4>2, <4>3
    <3> QED BY <3>1, <2>1
  <2> QED BY <2>2, <2>3
<1>5. \A a, b \in messages' : a.seq = b.seq => a = b
  BY DEF Numbered, DenseSequence, Seqs
<1> QED BY <1>1, <1>3, <1>4, <1>5 DEF Numbered, DenseSequence, TypeOK

-----------------------------------------------------------------------------
(* The handler goes on to one of four places once its question is stored. *)
LEMMA AfterQuestionPlaces ==
    ASSUME NEW q \in Queries, NEW recent, NEW rows, KindOf[q] # "memory"
    PROVE  AfterQuestion(q, recent, rows)
               \in {"rejected", "checkMemory", "readMaxForAnswer", "answering"}
  BY DEF AfterQuestion

LEMMA RecentNumbers ==
    ASSUME NEW rows, rows \subseteq Rows
    PROVE  RecentOf(rows) \subseteq Nat
  BY DEF RecentOf, Rows

(* Replacing the fields of a request's record that the handlers assign. *)
LEMMA RecordUpdate ==
    ASSUME NEW x \in RequestStates,
           NEW pc \in {"new"} \union InSync \union Awaiting \union Ended
    PROVE  /\ [x EXCEPT !.pc = pc] \in RequestStates
           /\ \A max \in Nat : [x EXCEPT !.max = max, !.pc = pc] \in RequestStates
           /\ \A question \in Nat :
                 [x EXCEPT !.pc = pc, !.reused = TRUE, !.question = question] \in RequestStates
           /\ \A recent \in SUBSET Nat : [x EXCEPT !.recent = recent, !.pc = pc] \in RequestStates
           /\ \A question \in Nat, recent \in SUBSET Nat :
                 [x EXCEPT !.question = question, !.recent = recent, !.pc = pc] \in RequestStates
           /\ \A memory \in {"none", "saved", "already_saved"} :
                 [x EXCEPT !.memory = memory, !.pc = pc] \in RequestStates
           /\ \A p \in Processes, q \in Queries, untitled \in BOOLEAN :
                 [x EXCEPT !.process = p, !.query = q, !.untitled = untitled, !.pc = pc]
                     \in RequestStates
<1>1. [x EXCEPT !.pc = pc] \in RequestStates
  BY DEF RequestStates
<1>2. ASSUME NEW max \in Nat PROVE [x EXCEPT !.max = max, !.pc = pc] \in RequestStates
  BY DEF RequestStates
<1>3. ASSUME NEW question \in Nat
      PROVE  [x EXCEPT !.pc = pc, !.reused = TRUE, !.question = question] \in RequestStates
  BY DEF RequestStates
<1>4. ASSUME NEW recent \in SUBSET Nat
      PROVE  [x EXCEPT !.recent = recent, !.pc = pc] \in RequestStates
  BY DEF RequestStates
<1>5. ASSUME NEW question \in Nat, NEW recent \in SUBSET Nat
      PROVE  [x EXCEPT !.question = question, !.recent = recent, !.pc = pc] \in RequestStates
  BY DEF RequestStates
<1>6. ASSUME NEW memory \in {"none", "saved", "already_saved"}
      PROVE  [x EXCEPT !.memory = memory, !.pc = pc] \in RequestStates
  BY DEF RequestStates
<1>7. ASSUME NEW p \in Processes, NEW q \in Queries, NEW untitled \in BOOLEAN
      PROVE  [x EXCEPT !.process = p, !.query = q, !.untitled = untitled, !.pc = pc]
                 \in RequestStates
  BY DEF RequestStates
<1> QED BY <1>1, <1>2, <1>3, <1>4, <1>5, <1>6, <1>7

LEMMA InitIInv == Init => IInv
<1> SUFFICES ASSUME Init PROVE IInv
  OBVIOUS
<1>1. TypeOK
  BY ConversationAssumption DEF Init, TypeOK, Fresh, RequestStates, InSync, Awaiting, Ended
<1>2. MaxSeq = 0 /\ Seqs = {}
  BY DEF Init, MaxSeq, Seqs
<1>3. Numbered
  BY <1>2 DEF Init, Numbered, DenseSequence
<1>4. \A r \in Requests : req[r].pc = "new"
  BY DEF Init, Fresh
<1>5. \A r \in Requests : req[r].process = None
  BY DEF Init, Fresh
<1> QED BY <1>5, <1>1, <1>3, <1>4 DEF IInv, RequestOK, ChatOnly

(***************************************************************************)
(* A step of one request that removes no row keeps the invariant if the    *)
(* request's new record satisfies it: what the other requests have read    *)
(* and asked stays true.                                                   *)
(***************************************************************************)
LEMMA StepOfOne ==
    ASSUME IInv, NEW r \in Requests, NEW x \in RequestStates,
           req' = [req EXCEPT ![r] = x], RequestOK(x, messages', MaxSeq'),
           messages \subseteq messages', messages' \subseteq Rows,
           Numbered', MaxSeq <= MaxSeq',
           title' \in Queries \union {NoContent},
           memories' \subseteq [content : Memories, question : Nat],
           forgotten' \in 0..MaxForget
    PROVE  IInv'
<1>1. TypeOK'
  BY DEF IInv, TypeOK
<1>2. ASSUME NEW s \in Requests PROVE RequestOK(req'[s], messages', MaxSeq')
  <2>1. CASE s = r
    BY <2>1 DEF IInv, TypeOK
  <2>2. CASE s # r
    <3>1. req'[s] = req[s] /\ RequestOK(req[s], messages, MaxSeq) /\ req[s] \in RequestStates
      BY <2>2 DEF IInv, TypeOK
    <3>2. \A n, q : StoredQuestion(messages, n, q) => StoredQuestion(messages', n, q)
      BY DEF StoredQuestion
    <3>3. req[s].max <= MaxSeq => req[s].max <= MaxSeq'
      BY <3>1 DEF IInv, Numbered, RequestStates
    <3> QED BY <3>1, <3>2, <3>3 DEF RequestOK
  <2> QED BY <2>1, <2>2
<1> QED BY <1>1, <1>2 DEF IInv

LEMMA QuietStepOfOne ==
    ASSUME IInv, NEW r \in Requests, NEW x \in RequestStates,
           req' = [req EXCEPT ![r] = x], RequestOK(x, messages, MaxSeq),
           UNCHANGED <<messages, title, forgotten>>,
           memories' \subseteq [content : Memories, question : Nat]
    PROVE  IInv'
<1>1. messages' = messages /\ MaxSeq' = MaxSeq /\ Seqs' = Seqs
  BY DEF MaxSeq, Seqs
<1>2. Numbered'
  BY <1>1 DEF IInv, Numbered, DenseSequence
<1>4. RequestOK(x, messages', MaxSeq')
  BY <1>1
<1>5. messages \subseteq Rows /\ MaxSeq <= MaxSeq
  BY DEF IInv, TypeOK, Numbered
<1>6. title' \in Queries \union {NoContent} /\ forgotten' \in 0..MaxForget
  BY DEF IInv, TypeOK
<1>7. messages \subseteq messages' /\ messages' \subseteq Rows /\ MaxSeq <= MaxSeq'
  BY <1>1, <1>5
<1> QED BY <1>2, <1>4, <1>6, <1>7, StepOfOne

(***************************************************************************)
(* One case per action.                                                    *)
(***************************************************************************)
LEMMA NextIInv == IInv /\ [Next]_vars => IInv'
<1> SUFFICES ASSUME IInv, [Next]_vars PROVE IInv'
  OBVIOUS
<1> USE DEF InSync, Awaiting, Ended, ChatOnly
<1>t. /\ \A r \in Requests : req[r] \in RequestStates /\ RequestOK(req[r], messages, MaxSeq)
      /\ req \in [Requests -> RequestStates]
      /\ messages \subseteq Rows /\ MaxSeq \in Nat
      /\ memories \subseteq [content : Memories, question : Nat]
  BY DEF IInv, TypeOK, Numbered
<1>g. ASSUME NEW r \in Requests, NEW pc, Goto(r, pc),
             UNCHANGED <<messages, title, forgotten>>,
             memories' \subseteq [content : Memories, question : Nat],
             [req[r] EXCEPT !.pc = pc] \in RequestStates,
             RequestOK([req[r] EXCEPT !.pc = pc], messages, MaxSeq)
      PROVE  IInv'
  BY <1>g, <1>t, QuietStepOfOne DEF Goto
<1>1. ASSUME NEW r \in Requests, NEW p \in Processes, NEW q \in Queries, Submit(r, p, q)
      PROVE  IInv'
  <2> DEFINE x == [req[r] EXCEPT !.process = p, !.query = q, !.untitled = (title = NoContent),
                      !.pc = IF KindOf[q] = "memory" THEN "checkMemory" ELSE "readLatest"]
  <2>1. x \in RequestStates
    BY <1>t, RecordUpdate
  <2>2. RequestOK(x, messages, MaxSeq)
    BY <1>t, <1>1 DEF RequestOK, RequestStates
  <2>3. req' = [req EXCEPT ![r] = x]
    BY <1>1 DEF Submit
  <2> QED BY <1>1, <1>t, <2>1, <2>2, <2>3, QuietStepOfOne DEF Submit
<1>2. ASSUME NEW r \in Requests, ReadLatest(r) PROVE IInv'
  <2>1. CASE PendingRetry(r)
    <3> DEFINE x == [req[r] EXCEPT !.pc = "listRecent", !.reused = TRUE,
                                   !.question = PendingId]
    <3>1. Latest \in messages
      <4>1. MaxSeq \in Seqs
        BY <2>1, <1>t DEF PendingRetry, IInv, Numbered, DenseSequence, MaxSeq, Seqs
      <4> QED BY <4>1 DEF Latest, Seqs
    <3>2. x \in RequestStates
      <4>1. PendingId \in Nat
        BY <3>1, <1>t DEF Rows, PendingId
      <4> QED BY <4>1, <1>t, RecordUpdate
    <3>3. StoredQuestion(messages, PendingId, req[r].query)
      BY <2>1, <3>1 DEF StoredQuestion, PendingRetry, PendingId, Query
    <3>4. RequestOK(x, messages, MaxSeq)
      BY <1>t, <1>2, <3>3 DEF RequestOK, RequestStates, ReadLatest
    <3>5. req' = [req EXCEPT ![r] = x]
      BY <1>2, <2>1 DEF ReadLatest
    <3> QED BY <1>2, <1>t, <3>2, <3>4, <3>5, QuietStepOfOne DEF ReadLatest
  <2>2. CASE ~PendingRetry(r)
    <3> DEFINE x == [req[r] EXCEPT !.pc = "readMaxForQuestion"]
    <3>1. x \in RequestStates /\ RequestOK(x, messages, MaxSeq)
      BY <1>t, <1>2 DEF RequestStates, RequestOK, ReadLatest
    <3>2. req' = [req EXCEPT ![r] = x]
      BY <1>2, <2>2 DEF ReadLatest
    <3> QED BY <1>2, <1>t, <3>1, <3>2, QuietStepOfOne DEF ReadLatest
  <2> QED BY <2>1, <2>2
<1>3. ASSUME NEW r \in Requests, ReadMax(r) PROVE IInv'
  <2> DEFINE x == [req[r] EXCEPT !.max = MaxSeq,
                      !.pc = IF @ = "readMaxForQuestion" THEN "insertQuestion"
                                                         ELSE "insertAnswer"]
  <2>1. x \in RequestStates
    BY ZenonT(30), <1>t DEF RequestStates
  <2>2. RequestOK(x, messages, MaxSeq)
    BY <1>t, <1>3 DEF RequestOK, RequestStates, ReadMax
  <2>3. req' = [req EXCEPT ![r] = x]
    BY <1>3, <1>t DEF ReadMax, RequestStates
  <2> QED BY <1>3, <1>t, <2>1, <2>2, <2>3, QuietStepOfOne DEF ReadMax
<1>4. ASSUME NEW r \in Requests, InsertQuestion(r) PROVE IInv'
  <2> DEFINE n == req[r].max + 1
             row == [seq |-> n, role |-> "user", content |-> Query(r), by |-> r, question |-> n]
             rows == messages \union {row}
             x == [req[r] EXCEPT !.question = n, !.recent = RecentOf(rows),
                                 !.pc = AfterQuestion(Query(r), RecentOf(rows), rows)]
  <2>1. CASE SeqTaken(n) /\ Conflict(r) /\ UNCHANGED <<messages, title>>
    BY <1>4, <1>g, <1>t, <2>1 DEF InsertQuestion, Conflict, RequestStates, RequestOK
  <2>2. CASE /\ ~SeqTaken(n) /\ messages' = rows /\ title' = TitleAfter(r)
             /\ req' = [req EXCEPT ![r] = x]
    <3>1. row \in Rows /\ row.seq \notin Seqs /\ row.seq <= MaxSeq + 1
      BY <1>t, <1>4, <2>2 DEF Rows, InsertQuestion, RequestOK, RequestStates, SeqTaken, Query
    <3>2. Numbered' /\ MaxSeq' = MaxSeq + 1 /\ messages' \subseteq Rows
      BY <2>2, <3>1, InsertAppends DEF IInv
    <3>3. Query(r) \in Queries /\ KindOf[Query(r)] # "memory"
      BY <1>t, <1>4 DEF InsertQuestion, RequestOK, Query
    <3>4. x.pc \in {"rejected", "checkMemory", "readMaxForAnswer", "answering"}
      BY <3>3, <1>t, AfterQuestionPlaces DEF RequestStates
    <3>5. RecentOf(rows) \subseteq Nat
      BY <2>2, <3>2, RecentNumbers
    <3>6. x \in RequestStates
      <4>1. n \in Nat /\ AfterQuestion(Query(r), RecentOf(rows), rows)
                             \in {"rejected", "checkMemory", "readMaxForAnswer", "answering"}
        BY <3>3, <1>t, AfterQuestionPlaces DEF RequestStates
      <4> QED BY <4>1, <3>5, <1>t, RecordUpdate
    <3>7. StoredQuestion(rows, n, Query(r))
      <4>1. row \in rows /\ row.seq = n /\ row.role = "user" /\ row.content = Query(r)
        OBVIOUS
      <4> QED BY <4>1 DEF StoredQuestion
    <3>8. RequestOK(x, rows, MaxSeq + 1)
      <4>1. x.question = n /\ x.query = Query(r)
        BY <1>t DEF RequestStates, Query
      <4> QED BY <3>3, <3>4, <3>7, <4>1 DEF RequestOK
    <3>9. title' \in Queries \union {NoContent}
      BY <2>2, <3>3 DEF TitleAfter, IInv, TypeOK
    <3>10. UNCHANGED <<memories, forgotten>> /\ messages \subseteq messages'
           /\ MaxSeq <= MaxSeq' /\ forgotten' \in 0..MaxForget
      BY <1>4, <1>t, <2>2, <3>2 DEF InsertQuestion, IInv, TypeOK
    <3> QED BY <1>t, <2>2, <3>2, <3>6, <3>8, <3>9, <3>10, StepOfOne
  <2> QED BY <1>4, <2>1, <2>2 DEF InsertQuestion
<1>5. ASSUME NEW r \in Requests, ListRecent(r) PROVE IInv'
  <2> DEFINE x == [req[r] EXCEPT !.recent = RecentOf(messages),
                                 !.pc = AfterQuestion(Query(r), RecentOf(messages), messages)]
  <2>1. Query(r) \in Queries /\ KindOf[Query(r)] # "memory"
        /\ StoredQuestion(messages, req[r].question, req[r].query)
    BY <1>t, <1>5 DEF ListRecent, RequestOK, Query
  <2>2. x.pc \in {"rejected", "checkMemory", "readMaxForAnswer", "answering"}
    BY <2>1, <1>t, AfterQuestionPlaces DEF RequestStates
  <2>3. x \in RequestStates
    BY ZenonT(30), <2>1, <2>2, <1>t, RecentNumbers DEF RequestStates
  <2>4. RequestOK(x, messages, MaxSeq)
    <3>1. x.question = req[r].question /\ x.query = req[r].query
      BY <1>t DEF RequestStates
    <3> QED BY <2>1, <2>2, <3>1 DEF RequestOK, Query
  <2>5. req' = [req EXCEPT ![r] = x]
    BY <1>5, <1>t DEF ListRecent, RequestStates
  <2> QED BY <1>5, <1>t, <2>3, <2>4, <2>5, QuietStepOfOne DEF ListRecent
<1>s. ASSUME NEW r \in Requests, NEW status \in {"saved", "already_saved"},
             Settle(r, status), req[r].pc \in {"checkMemory", "recheckMemory", "insertMemory"},
             UNCHANGED <<messages, title, forgotten>>,
             memories' \subseteq [content : Memories, question : Nat]
      PROVE  IInv'
  <2> DEFINE x == [req[r] EXCEPT !.memory = status,
                      !.pc = IF Kind(r) = "memory" THEN "done" ELSE "readMaxForAnswer"]
  <2>1. x \in RequestStates
    BY <1>t, RecordUpdate
  <2>2. RequestOK(x, messages, MaxSeq)
    BY <1>t, <1>s DEF RequestOK, RequestStates, Kind, Query
  <2>3. req' = [req EXCEPT ![r] = x]
    BY <1>s DEF Settle
  <2> QED BY <1>s, <2>1, <2>2, <2>3, QuietStepOfOne
<1>6. ASSUME NEW r \in Requests, CheckMemory(r) PROVE IInv'
  <2>1. CASE Stored(Query(r))
    BY <1>6, <1>s, <1>t, <2>1 DEF CheckMemory
  <2>2. CASE ~Stored(Query(r))
    <3>1. [req[r] EXCEPT !.pc = "embedding"] \in RequestStates
      BY <1>t, RecordUpdate
    <3>2. RequestOK([req[r] EXCEPT !.pc = "embedding"], messages, MaxSeq)
      BY <1>6, <1>t DEF CheckMemory, RequestOK, RequestStates
    <3> QED BY <1>6, <1>g, <1>t, <2>2, <3>1, <3>2 DEF CheckMemory
  <2> QED BY <2>1, <2>2
<1>7. ASSUME NEW r \in Requests, Embed(r) PROVE IInv'
  <2>1. ASSUME NEW pc \in {"recheckMemory", "providerFailed"}
        PROVE  /\ [req[r] EXCEPT !.pc = pc] \in RequestStates
               /\ RequestOK([req[r] EXCEPT !.pc = pc], messages, MaxSeq)
    <3>1. [req[r] EXCEPT !.pc = pc] \in RequestStates
      BY <1>t, RecordUpdate
    <3> QED BY <1>7, <1>t, <3>1 DEF Embed, RequestOK, RequestStates
  <2> QED BY <1>7, <1>g, <1>t, <2>1 DEF Embed
<1>8. ASSUME NEW r \in Requests, RecheckMemory(r) PROVE IInv'
  <2>1. CASE SavedMeanwhile(r)
    BY <1>8, <1>s, <1>t, <2>1 DEF RecheckMemory
  <2>2. CASE ~SavedMeanwhile(r)
    <3>1. [req[r] EXCEPT !.pc = "insertMemory"] \in RequestStates
      BY <1>t, RecordUpdate
    <3>2. RequestOK([req[r] EXCEPT !.pc = "insertMemory"], messages, MaxSeq)
      BY <1>8, <1>t DEF RecheckMemory, RequestOK, RequestStates
    <3> QED BY <1>8, <1>g, <1>t, <2>2, <3>1, <3>2 DEF RecheckMemory
  <2> QED BY <2>1, <2>2
<1>c. ASSUME NEW r \in Requests, NEW pc \in {"conflict", "cancelled", "providerFailed"}
      PROVE  /\ [req[r] EXCEPT !.pc = pc] \in RequestStates
             /\ req[r].pc # "new" => RequestOK([req[r] EXCEPT !.pc = pc], messages, MaxSeq)
  <2>1. [req[r] EXCEPT !.pc = pc] \in RequestStates
    BY <1>t, RecordUpdate
  <2> QED BY <1>t, <2>1 DEF RequestOK, RequestStates
<1>9. ASSUME NEW r \in Requests, InsertMemory(r) PROVE IInv'
  <2>1. CASE Conflict(r) /\ UNCHANGED memories
    BY <1>9, <1>c, <1>g, <1>t, <2>1 DEF InsertMemory, Conflict
  <2>2. CASE /\ memories' = memories \union
                   {[content |-> MemoryOf[Query(r)], question |-> MemorySource(r)]}
             /\ Settle(r, "saved")
    <3>1. [content |-> MemoryOf[Query(r)], question |-> MemorySource(r)]
              \in [content : Memories, question : Nat]
      BY <1>9, <1>t, ConversationAssumption
      DEF InsertMemory, MemorySource, Query, RequestOK, RequestStates
    <3> QED BY <1>9, <1>s, <1>t, <2>2, <3>1 DEF InsertMemory
  <2> QED BY <1>9, <2>1, <2>2 DEF InsertMemory
<1>10. ASSUME NEW r \in Requests, AnswerArrives(r) PROVE IInv'
  <2>1. /\ [req[r] EXCEPT !.pc = "readMaxForAnswer"] \in RequestStates
        /\ RequestOK([req[r] EXCEPT !.pc = "readMaxForAnswer"], messages, MaxSeq)
    <3>1. [req[r] EXCEPT !.pc = "readMaxForAnswer"] \in RequestStates
      BY <1>t, RecordUpdate
    <3> QED BY <1>10, <1>t, <3>1 DEF AnswerArrives, RequestOK, RequestStates
  <2> QED BY <1>10, <1>c, <1>g, <1>t, <2>1 DEF AnswerArrives
<1>11. ASSUME NEW r \in Requests, InsertAnswer(r) PROVE IInv'
  <2> DEFINE n == req[r].max + 1
             row == [seq |-> n, role |-> "assistant", content |-> NoContent, by |-> r,
                     question |-> req[r].question]
             x == [req[r] EXCEPT !.pc = "done"]
  <2>1. CASE Conflict(r) /\ UNCHANGED messages
    BY <1>11, <1>c, <1>g, <1>t, <2>1 DEF InsertAnswer, Conflict
  <2>2. CASE ~SeqTaken(n) /\ messages' = messages \union {row} /\ Goto(r, "done")
    <3>1. StoredQuestion(messages, req[r].question, req[r].query) /\ req[r].max <= MaxSeq
      BY <1>11, <1>t DEF InsertAnswer, RequestOK
    <3>2. req[r].question \in Nat \ {0}
      BY <3>1, <1>t DEF StoredQuestion, Rows
    <3>3. row \in Rows /\ row.seq \notin Seqs /\ row.seq <= MaxSeq + 1
      BY <1>t, <2>2, <3>1, <3>2 DEF Rows, RequestStates, SeqTaken
    <3>4. Numbered' /\ MaxSeq' = MaxSeq + 1 /\ messages' \subseteq Rows
      BY <2>2, <3>3, InsertAppends DEF IInv
    <3>5. x \in RequestStates
      BY <1>t, RecordUpdate
    <3>6. RequestOK(x, messages', MaxSeq')
      BY <1>11, <1>t, <3>5 DEF InsertAnswer, RequestOK, RequestStates
    <3>7. req' = [req EXCEPT ![r] = x]
      BY <2>2 DEF Goto
    <3>8. UNCHANGED <<title, memories, forgotten>> /\ messages \subseteq messages'
          /\ MaxSeq <= MaxSeq'
      BY <1>11, <1>t, <2>2, <3>4 DEF InsertAnswer
    <3> QED BY <1>t, <3>4, <3>5, <3>6, <3>7, <3>8, StepOfOne DEF IInv, TypeOK
  <2> QED BY <1>11, <2>1, <2>2 DEF InsertAnswer
<1>12. ASSUME NEW r \in Requests, Cancel(r) PROVE IInv'
  BY <1>12, <1>c, <1>g, <1>t DEF Cancel
<1>q. ASSUME UNCHANGED messages PROVE MaxSeq' = MaxSeq /\ Numbered'
  <2>1. MaxSeq' = MaxSeq /\ Seqs' = Seqs
    BY <1>q DEF MaxSeq, Seqs
  <2> QED BY <1>q, <2>1 DEF IInv, Numbered, DenseSequence
<1>13. ASSUME NEW p \in Processes, Crash(p) PROVE IInv'
  <2>1. ASSUME NEW r \in Requests
        PROVE  req'[r] \in RequestStates /\ RequestOK(req'[r], messages, MaxSeq)
    <3> DEFINE x == [req[r] EXCEPT !.pc = "crashed"]
    <3>1. x \in RequestStates
      BY <1>t, RecordUpdate
    <3>2. CASE req[r].process = p /\ req[r].pc \notin Ended
      <4>1. req[r].pc # "new"
        BY <1>t, <3>2, ConversationAssumption DEF RequestOK
      <4>2. RequestOK(x, messages, MaxSeq)
        BY <1>t, <3>1, <4>1 DEF RequestOK, RequestStates
      <4> QED BY <1>13, <3>1, <3>2, <4>2 DEF Crash
    <3>3. CASE ~(req[r].process = p /\ req[r].pc \notin Ended)
      BY <1>13, <1>t, <3>3 DEF Crash
    <3> QED BY <3>2, <3>3
  <2>2. TypeOK'
    BY <1>13, <2>1 DEF Crash, IInv, TypeOK
  <2> QED BY <1>13, <1>q, <2>1, <2>2 DEF Crash, IInv
<1>14. CASE ForgetMemory
  <2>1. TypeOK'
    BY <1>14, ConversationAssumption DEF ForgetMemory, IInv, TypeOK
  <2> QED BY <1>14, <1>q, <2>1 DEF ForgetMemory, IInv
<1>15. CASE UNCHANGED vars
  <2>1. TypeOK'
    BY <1>15 DEF vars, IInv, TypeOK
  <2> QED BY <1>15, <1>q, <2>1 DEF vars, IInv
<1> QED BY <1>1, <1>2, <1>3, <1>4, <1>5, <1>6, <1>7, <1>8, <1>9, <1>10, <1>11, <1>12,
           <1>13, <1>14, <1>15 DEF Next, Step

(***************************************************************************)
(* The invariant holds in every reachable state.                           *)
(***************************************************************************)
THEOREM Invariance == Spec => []IInv
<1>1. Init => IInv
  BY InitIInv
<1>2. IInv /\ [Next]_vars => IInv'
  BY NextIInv
<1> QED BY <1>1, <1>2, PTL DEF Spec

(* Every state of every behaviour is well typed. *)
THEOREM TypeCorrect == Spec => []TypeOK
<1>1. IInv => TypeOK
  BY DEF IInv
<1> QED BY <1>1, Invariance, PTL

(***************************************************************************)
(* A conversation's sequence numbers are 1..n, each used once, whatever    *)
(* the processes interleave and wherever they crash.                       *)
(***************************************************************************)
THEOREM SequenceDense == Spec => []DenseSequence
<1>1. IInv => DenseSequence
  BY DEF IInv, Numbered
<1> QED BY <1>1, Invariance, PTL

-----------------------------------------------------------------------------
(* The rows implement the log. *)

LogFacts ==
    /\ Log \in Seq(Rows)
    /\ Len(Log) = MaxSeq
    /\ \A m \in messages : m.seq \in 1..MaxSeq /\ Log[m.seq] = m

LEMMA LogRows == IInv => LogFacts
<1> SUFFICES ASSUME IInv PROVE LogFacts
  OBVIOUS
<1>1. MaxSeq \in Nat /\ messages \subseteq Rows
  BY DEF IInv, TypeOK, Numbered
<1>2. ASSUME NEW m \in messages PROVE (CHOOSE x \in messages : x.seq = m.seq) = m
  BY RowAt DEF IInv, Numbered, DenseSequence
<1>3. ASSUME NEW n \in 1..MaxSeq PROVE (CHOOSE x \in messages : x.seq = n) \in Rows
  <2>1. PICK m \in messages : m.seq = n
    BY DEF IInv, Numbered, DenseSequence, Seqs
  <2> QED BY <1>1, <1>2, <2>1
<1>4. ASSUME NEW m \in messages PROVE m.seq \in 1..MaxSeq
  BY DEF IInv, Numbered, DenseSequence, Seqs
<1>5. Log \in [1..MaxSeq -> Rows]
  BY <1>3 DEF Log
<1>6. Log \in Seq(Rows) /\ Len(Log) = MaxSeq
  BY <1>1, <1>5
<1> QED BY <1>2, <1>4, <1>6 DEF Log, LogFacts

(* A row added after the last one is appended to the log. *)
LEMMA RowAppended ==
    ASSUME IInv, IInv', NEW row \in Rows, row.seq = MaxSeq + 1, MaxSeq' = MaxSeq + 1,
           messages' = messages \union {row}
    PROVE  Log' = Append(Log, row)
<1>1. /\ Log \in Seq(Rows) /\ Len(Log) = MaxSeq
      /\ \A m \in messages : m.seq \in 1..MaxSeq /\ Log[m.seq] = m
  BY LogRows DEF LogFacts
<1>2. /\ Log' \in Seq(Rows) /\ Len(Log') = MaxSeq + 1
      /\ \A m \in messages' : Log'[m.seq] = m
  <2>1. IInv' => LogFacts'
    BY LogRows, PTL
  <2> QED BY <2>1 DEF LogFacts
<1>3. ASSUME NEW n \in 1..MaxSeq PROVE Log'[n] = Log[n]
  <2>1. PICK m \in messages : m.seq = n
    BY DEF IInv, Numbered, DenseSequence, Seqs
  <2> QED BY <1>1, <1>2, <2>1
<1>4. Log'[MaxSeq + 1] = row
  BY <1>2
<1>5. MaxSeq \in Nat
  BY DEF IInv, Numbered
<1>6. Append(Log, row) \in Seq(Rows) /\ Len(Append(Log, row)) = MaxSeq + 1
  BY <1>1
<1>7. ASSUME NEW n \in 1..(MaxSeq + 1) PROVE Log'[n] = Append(Log, row)[n]
  BY <1>1, <1>3, <1>4, <1>5
<1> QED BY <1>2, <1>5, <1>6, <1>7

(***************************************************************************)
(* Every step of the detailed specification is a step of the log or leaves *)
(* it as it is: the conversation is append-only, and every answer refers   *)
(* to a question already in it.                                            *)
(***************************************************************************)
THEOREM RowsImplementLog == Spec => ImplementsLog
<1>1. Init => MessageLog!Init
  <2> SUFFICES ASSUME Init PROVE Log = << >>
    BY DEF MessageLog!Init
  <2>1. IInv /\ MaxSeq = 0
    BY InitIInv DEF Init, MaxSeq
  <2> QED BY <2>1, LogRows DEF LogFacts
<1>2. IInv /\ IInv' /\ [Next]_vars => [MessageLog!Next]_Log
  <2> SUFFICES ASSUME IInv, IInv', [Next]_vars PROVE MessageLog!Next \/ Log' = Log
    OBVIOUS
  <2>1. ASSUME messages' = messages PROVE Log' = Log
    BY <2>1 DEF Log, MaxSeq, Seqs
  <2>2. ASSUME NEW r \in Requests, InsertQuestion(r), messages' # messages
        PROVE  MessageLog!Next
    <3> DEFINE row == [seq |-> MaxSeq + 1, role |-> "user", content |-> Query(r),
                       by |-> r, question |-> MaxSeq + 1]
    <3>1. Query(r) \in Queries /\ req[r].max <= MaxSeq /\ req[r].max \in Nat
          /\ MaxSeq \in Nat
      BY <2>2 DEF InsertQuestion, IInv, RequestOK, TypeOK, RequestStates, Query, Numbered
    <3>2. ~SeqTaken(req[r].max + 1)
      BY <2>2 DEF InsertQuestion
    <3>3. req[r].max + 1 = MaxSeq + 1
      BY <3>1, <3>2 DEF SeqTaken, IInv, Numbered, DenseSequence
    <3>4. messages' = messages \union {row}
      BY <2>2, <3>3 DEF InsertQuestion
    <3>5. row \in Rows /\ row.seq \notin Seqs /\ row.seq <= MaxSeq + 1
      BY <3>1, <3>2, <3>3 DEF Rows, SeqTaken
    <3>6. MaxSeq' = MaxSeq + 1
      BY <3>4, <3>5, InsertAppends DEF IInv
    <3>7. Log' = Append(Log, row) /\ Len(Log) = MaxSeq
      BY <3>4, <3>5, <3>6, RowAppended, LogRows DEF LogFacts
    <3> QED BY <3>1, <3>7 DEF MessageLog!Next, MessageLog!AppendQuestion
  <2>3. ASSUME NEW r \in Requests, InsertAnswer(r), messages' # messages
        PROVE  MessageLog!Next
    <3> DEFINE q == req[r].question
               row == [seq |-> MaxSeq + 1, role |-> "assistant", content |-> NoContent,
                       by |-> r, question |-> q]
    <3>1. req[r].max <= MaxSeq /\ req[r].max \in Nat /\ MaxSeq \in Nat
          /\ StoredQuestion(messages, q, req[r].query)
      BY <2>3 DEF InsertAnswer, IInv, RequestOK, TypeOK, RequestStates, Numbered
    <3>2. ~SeqTaken(req[r].max + 1)
      BY <2>3 DEF InsertAnswer
    <3>3. req[r].max + 1 = MaxSeq + 1
      BY <3>1, <3>2 DEF SeqTaken, IInv, Numbered, DenseSequence
    <3>4. messages' = messages \union {row}
      BY <2>3, <3>3 DEF InsertAnswer
    <3>5. q \in 1..MaxSeq /\ Log[q].role = "user"
      BY <3>1, LogRows DEF StoredQuestion, LogFacts
    <3>6. row \in Rows /\ row.seq \notin Seqs /\ row.seq <= MaxSeq + 1
      BY <3>1, <3>2, <3>3, <3>5 DEF Rows, SeqTaken
    <3>7. MaxSeq' = MaxSeq + 1
      BY <3>4, <3>6, InsertAppends DEF IInv
    <3>8. Log' = Append(Log, row) /\ Len(Log) = MaxSeq /\ DOMAIN Log = 1..MaxSeq
      BY <3>4, <3>6, <3>7, RowAppended, LogRows DEF LogFacts
    <3> QED BY <3>5, <3>8 DEF MessageLog!Next, MessageLog!AppendAnswer
  <2>4. CASE UNCHANGED vars
    BY <2>1, <2>4 DEF vars
  <2>5. CASE \E r \in Requests : InsertQuestion(r) \/ InsertAnswer(r)
    BY <2>1, <2>2, <2>3, <2>5
  <2>6. CASE messages' = messages
    BY <2>1, <2>6
  <2> QED BY <2>4, <2>5, <2>6 DEF Next, Step, Submit, ReadLatest, ReadMax, ListRecent,
             CheckMemory, Embed, RecheckMemory, InsertMemory, AnswerArrives, Cancel, Crash,
             ForgetMemory
<1> QED BY <1>1, <1>2, Invariance, PTL DEF Spec, ImplementsLog, MessageLog!Spec

-----------------------------------------------------------------------------
(* Answers *)

(* The actions of one request leave every request that is done as it is. *)
LEMMA DoneStays ==
    ASSUME IInv, Next, NEW s \in Requests, req[s].pc = "done"
    PROVE  req'[s] = req[s]
<1>1. req \in [Requests -> RequestStates]
  BY DEF IInv, TypeOK
<1>2. ASSUME NEW r \in Requests, NEW p \in Processes, NEW q \in Queries, Submit(r, p, q)
      PROVE  req'[s] = req[s]
  BY <1>1, <1>2 DEF Submit
<1>3. ASSUME NEW r \in Requests, Step(r) \/ Cancel(r) PROVE req'[s] = req[s]
  <2>1. req[r].pc # "done" /\ \E x : req' = [req EXCEPT ![r] = x]
    <3>1. ASSUME NEW pc, Goto(r, pc) PROVE \E x : req' = [req EXCEPT ![r] = x]
      BY <3>1 DEF Goto
    <3>2. ASSUME NEW status, Settle(r, status) PROVE \E x : req' = [req EXCEPT ![r] = x]
      BY <3>2 DEF Settle
    <3>3. CASE ReadLatest(r)
      BY <3>3 DEF ReadLatest
    <3>4. CASE ReadMax(r) \/ ListRecent(r)
      BY <3>4 DEF ReadMax, ListRecent
    <3>5. CASE InsertQuestion(r)
      BY <3>5, <3>1 DEF InsertQuestion, Conflict
    <3>6. CASE InsertAnswer(r)
      BY <3>6, <3>1 DEF InsertAnswer, Conflict
    <3>7. CASE CheckMemory(r) \/ RecheckMemory(r)
      BY <3>7, <3>1, <3>2 DEF CheckMemory, RecheckMemory
    <3>8. CASE InsertMemory(r)
      BY <3>8, <3>1, <3>2 DEF InsertMemory, Conflict
    <3>9. CASE Embed(r) \/ AnswerArrives(r) \/ Cancel(r)
      BY <3>9, <3>1 DEF Embed, AnswerArrives, Cancel, Awaiting
    <3> QED BY <1>3, <3>3, <3>4, <3>5, <3>6, <3>7, <3>8, <3>9 DEF Step
  <2> QED BY <1>1, <2>1
<1>4. ASSUME NEW p \in Processes, Crash(p) PROVE req'[s] = req[s]
  BY <1>4 DEF Crash, Ended
<1>5. CASE ForgetMemory
  BY <1>5 DEF ForgetMemory
<1> QED BY <1>2, <1>3, <1>4, <1>5 DEF Next

(* Only InsertQuestion and InsertAnswer store rows. *)
LEMMA WhoStoresRows ==
    ASSUME [Next]_vars, messages' # messages
    PROVE  \E r \in Requests : InsertQuestion(r) \/ InsertAnswer(r)
  BY DEF Next, Step, Submit, ReadLatest, ReadMax, ListRecent, CheckMemory, Embed,
     RecheckMemory, InsertMemory, AnswerArrives, Cancel, Crash, ForgetMemory, vars

LEMMA NextNoFakeAnswer == IInv /\ NoFakeAnswer /\ [Next]_vars => NoFakeAnswer'
<1> SUFFICES ASSUME IInv, NoFakeAnswer, [Next]_vars,
                    NEW m \in messages', m.role = "assistant"
             PROVE  /\ req'[m.by].pc = "done"
                    /\ \E u \in messages' : /\ u.role = "user" /\ u.seq = m.question
                                            /\ u.seq < m.seq
                                            /\ u.content = req'[m.by].query
  BY DEF NoFakeAnswer, Query
<1>1. messages \subseteq Rows /\ req \in [Requests -> RequestStates]
  BY DEF IInv, TypeOK
<1>2. messages \subseteq messages'
  <2>1. CASE messages' = messages
    BY <2>1
  <2>2. CASE messages' # messages
    BY <2>2, WhoStoresRows DEF InsertQuestion, InsertAnswer
  <2> QED BY <2>1, <2>2
<1>3. CASE m \in messages
  <2>1. m.by \in Requests /\ req[m.by].pc = "done"
    BY <1>1, <1>3 DEF NoFakeAnswer, Rows
  <2>2. req'[m.by] = req[m.by]
    <3>1. CASE Next
      BY <2>1, <3>1, DoneStays
    <3>2. CASE UNCHANGED vars
      BY <3>2 DEF vars
    <3> QED BY <3>1, <3>2
  <2> QED BY <1>2, <1>3, <2>1, <2>2 DEF NoFakeAnswer, Query
<1>4. CASE m \notin messages
  <2>1. PICK r \in Requests : InsertQuestion(r) \/ InsertAnswer(r)
    BY <1>4, WhoStoresRows
  <2>2. InsertAnswer(r)
    BY <2>1, <1>4 DEF InsertQuestion
  <2>3. /\ m.seq = req[r].max + 1 /\ ~SeqTaken(m.seq) /\ m.by = r
        /\ m.question = req[r].question /\ Goto(r, "done")
    BY <1>4, <2>2 DEF InsertAnswer
  <2>4. req'[r].pc = "done" /\ req'[r].query = req[r].query
    BY <1>1, <2>3 DEF Goto, RequestStates
  <2>5. PICK u \in messages : u.seq = req[r].question /\ u.role = "user"
                              /\ u.content = req[r].query
    BY <2>2 DEF InsertAnswer, IInv, RequestOK, StoredQuestion
  <2>6. u.seq < m.seq
    <3>1. u.seq \in 1..MaxSeq /\ MaxSeq \in Nat /\ req[r].max \in Nat
      BY <1>1 DEF IInv, Numbered, DenseSequence, Seqs, RequestStates
    <3>2. m.seq \notin 1..MaxSeq
      BY <2>3 DEF SeqTaken, IInv, Numbered, DenseSequence
    <3> QED BY <2>3, <3>1, <3>2
  <2> QED BY <1>2, <2>3, <2>4, <2>5, <2>6
<1> QED BY <1>3, <1>4

(***************************************************************************)
(* No fake assistant message: every assistant row belongs to a request     *)
(* that succeeded and follows the stored question it answers.              *)
(***************************************************************************)
THEOREM AnswersAreReal == Spec => []NoFakeAnswer
<1>1. Init => NoFakeAnswer
  BY DEF Init, NoFakeAnswer
<1> QED BY <1>1, NextNoFakeAnswer, Invariance, PTL DEF Spec

(* The log is whole and tells the truth. *)
THEOREM LogIsHonest == Spec => []LogHonest
  BY SequenceDense, AnswersAreReal, PTL DEF LogHonest

(***************************************************************************)
(* A request that takes over a stored question takes one without an        *)
(* answer.                                                                 *)
(***************************************************************************)
THEOREM ReuseIsSafe == Spec => ReusesUnanswered
<1> DEFINE A == \A r \in Requests : ~req[r].reused /\ req'[r].reused =>
                  \A m \in messages : m.role = "assistant" => m.question # req'[r].question
<1>1. IInv /\ NoFakeAnswer /\ [Next]_vars => [A]_vars
  <2> SUFFICES ASSUME IInv, NoFakeAnswer, Next, NEW r \in Requests,
                      ~req[r].reused, req'[r].reused,
                      NEW m \in messages, m.role = "assistant"
               PROVE  m.question # req'[r].question
    OBVIOUS
  <2>1. req \in [Requests -> RequestStates] /\ messages \subseteq Rows
    BY DEF IInv, TypeOK
  <2>2. ReadLatest(r)
    <3>1. ASSUME NEW s \in Requests, s # r, Step(s) \/ Cancel(s) \/ req' = req
          PROVE  FALSE
      BY <2>1, <3>1 DEF Step, Cancel, Goto, Settle, Conflict, ReadLatest, ReadMax,
         InsertQuestion, ListRecent, CheckMemory, Embed, RecheckMemory, InsertMemory,
         AnswerArrives, InsertAnswer
    <3>2. ASSUME NEW p \in Processes, NEW q \in Queries, NEW s \in Requests, Submit(s, p, q)
          PROVE  FALSE
      BY <2>1, <3>2 DEF Submit, RequestStates
    <3>3. ASSUME NEW p \in Processes, Crash(p) PROVE FALSE
      BY <2>1, <3>3 DEF Crash, RequestStates
    <3>4. ~ForgetMemory
      BY DEF ForgetMemory
    <3>5. ASSUME NEW pc, Goto(r, pc) PROVE FALSE
      BY <2>1, <3>5 DEF Goto, RequestStates
    <3>6. ASSUME NEW status, Settle(r, status) PROVE FALSE
      BY <2>1, <3>6 DEF Settle, RequestStates
    <3>7. Step(r)
      BY <3>1, <3>2, <3>3, <3>4, <3>5 DEF Next, Cancel
    <3>8. ~ReadMax(r) /\ ~ListRecent(r)
      BY <2>1 DEF ReadMax, ListRecent, RequestStates
    <3>9. ~InsertQuestion(r)
      BY <2>1, <3>5 DEF InsertQuestion, Conflict, RequestStates
    <3> QED BY <3>5, <3>6, <3>7, <3>8, <3>9 DEF Step, Conflict, CheckMemory, Embed,
               RecheckMemory, InsertMemory, AnswerArrives, InsertAnswer
  <2>3. PendingRetry(r) /\ req'[r].question = Latest.seq
    BY <2>1, <2>2 DEF ReadLatest, PendingId, RequestStates
  <2>4. MaxSeq \in Seqs /\ m.seq \in 1..MaxSeq /\ MaxSeq \in Nat
    <3>1. MaxSeq \in Nat /\ Seqs = 1..MaxSeq
      BY DEF IInv, Numbered, DenseSequence
    <3>2. m.seq \in Seqs
      BY DEF Seqs
    <3> QED BY <3>1, <3>2
  <2>5. Latest.seq = MaxSeq
    BY <2>4 DEF Latest, Seqs
  <2>6. m.question < m.seq /\ m.question \in Nat
    BY <2>1 DEF NoFakeAnswer, Rows
  <2> QED BY <2>3, <2>4, <2>5, <2>6
<1> QED BY <1>1, Invariance, AnswersAreReal, PTL DEF Spec, ReusesUnanswered

-----------------------------------------------------------------------------
(***************************************************************************)
(* What is done for a question, and what one process cannot do to itself.  *)
(* Notes says what a request has read or kept at its place, Backed that    *)
(* its question is stored when it is used, Counted that each report of a   *)
(* save had a row of its own; Exclusive that the requests of a process     *)
(* take turns, and CalmOK what a request then knows of the rows: what it   *)
(* read in one statement still holds in the next.                          *)
(***************************************************************************)
Using == Awaiting \union {"checkMemory", "recheckMemory", "insertMemory", "readMaxForAnswer",
                          "insertAnswer", "done", "providerFailed", "rejected", "cancelled"}

Notes(x) ==
    /\ x.pc = "new" => x.question = 0 /\ x.memory = "none"
    /\ x.pc # "new" => x.process # None
    /\ x.pc # "new" /\ KindOf[x.query] = "memory" => x.question = 0
    /\ x.pc \in {"new", "readLatest"} => x.recent = {}

Backed(x, rows) ==
    x.pc \in Using /\ KindOf[x.query] # "memory" => StoredQuestion(rows, x.question, x.query)

Savers(t) == {r \in Requests : req[r].memory = "saved" /\ MemoryOf[Query(r)] = t}

Counted(t) ==
    /\ IsFiniteSet(Savers(t))
    /\ Cardinality(Savers(t))
          <= forgotten + (IF \E m \in memories : m.content = t THEN 1 ELSE 0)

Exclusive ==
    \A r, s \in Requests :
        r # s /\ req[r].process = req[s].process => ~(req[r].pc \in InSync /\ req[s].pc \in InSync)

Together ==
    \A r, s \in Requests :
        req[r].process # None /\ req[s].process # None => req[r].process = req[s].process

Pending(q) == messages # {} /\ Latest.role = "user" /\ Latest.content = q

CalmOK(x) ==
    /\ x.pc # "conflict"
    /\ x.pc \in {"insertQuestion", "insertAnswer"} => x.max = MaxSeq
    /\ x.pc \in {"readMaxForQuestion", "insertQuestion"} => ~Pending(x.query)
    /\ x.pc = "listRecent" => x.question = MaxSeq
    /\ x.pc = "insertMemory" => ~Stored(x.query)
    /\ x.recent # {} => x.question \in x.recent /\ \A n \in x.recent : n <= x.question

Kept ==
    /\ \A r \in Requests : Notes(req[r]) /\ Backed(req[r], messages)
    /\ MemoryHasSource
    /\ \A a, b \in memories : a.content = b.content => a = b
    /\ \A t \in Memories : Counted(t)

Calm == Together => NoRepeatedQuestion /\ \A r \in Requests : CalmOK(req[r])

Turns == Exclusive /\ Calm /\ IsFiniteSet({req[r].process : r \in Requests})

LEMMA InitKept == Init => Kept /\ Turns
<1> SUFFICES ASSUME Init PROVE Kept /\ Turns
  OBVIOUS
<1>1. \A r \in Requests : req[r] = Fresh
  BY DEF Init
<1>2. Fresh.pc = "new" /\ Fresh.question = 0 /\ Fresh.memory = "none" /\ Fresh.recent = {}
      /\ Fresh.process = None
  BY DEF Fresh
<1>3. Kept
  <2>1. ASSUME NEW t \in Memories PROVE Counted(t)
    <3>1. Savers(t) = {}
      BY <1>1, <1>2 DEF Savers
    <3>2. IsFiniteSet(Savers(t)) /\ Cardinality(Savers(t)) = 0
      BY <3>1, FS_EmptySet, Zenon
    <3>3. forgotten = 0 /\ memories = {}
      BY DEF Init
    <3> QED BY <3>2, <3>3 DEF Counted
  <2> QED BY <1>1, <1>2, <2>1 DEF Init, Kept, Notes, Backed, Using, Awaiting, MemoryHasSource
<1>4. Turns
  <2>1. {req[r].process : r \in Requests} \subseteq {None}
    BY <1>1, <1>2
  <2>2. IsFiniteSet({None})
    BY FS_Singleton
  <2>3. IsFiniteSet({req[r].process : r \in Requests})
    BY <2>1, <2>2, FS_Subset
  <2>4. Exclusive
    BY <1>1, <1>2 DEF Exclusive, InSync
  <2>5. Calm
    BY <1>1, <1>2 DEF Init, Calm, NoRepeatedQuestion, CalmOK
  <2> QED BY <2>3, <2>4, <2>5 DEF Turns
<1> QED BY <1>3, <1>4

(* The savers of a text only get more when a request is told "saved".      *)
LEMMA CountKept ==
    ASSUME TypeOK, Kept, TypeOK', UNCHANGED <<memories, forgotten>>,
           \A r \in Requests : req'[r].memory = "saved" =>
               req[r].memory = "saved" /\ req'[r].query = req[r].query
    PROVE  \A t \in Memories : Counted(t)'
<1> SUFFICES ASSUME NEW t \in Memories PROVE Counted(t)'
  OBVIOUS
<1>1. Savers(t)' \subseteq Savers(t)
  BY DEF Savers, Query
<1>2. IsFiniteSet(Savers(t)) /\ Counted(t)
  BY DEF Kept, Counted
<1>3. /\ IsFiniteSet(Savers(t)') /\ Cardinality(Savers(t)') <= Cardinality(Savers(t))
      /\ Cardinality(Savers(t)') \in Nat /\ Cardinality(Savers(t)) \in Nat
  BY <1>1, <1>2, FS_Subset, FS_CardinalityType
<1> QED BY <1>2, <1>3 DEF Counted, TypeOK

(* A step of one request that keeps the memories.                          *)
LEMMA KeptByOne ==
    ASSUME IInv, IInv', Kept, NEW r \in Requests, NEW x \in RequestStates,
           req' = [req EXCEPT ![r] = x], messages \subseteq messages',
           UNCHANGED <<memories, forgotten>>, Notes(x), Backed(x, messages'),
           x.memory = "saved" => req[r].memory = "saved" /\ x.query = req[r].query
    PROVE  Kept'
<1>1. req'[r] = x /\ \A s \in Requests \ {r} : req'[s] = req[s]
  BY DEF IInv, TypeOK
<1>2. \A n, q : StoredQuestion(messages, n, q) => StoredQuestion(messages', n, q)
  BY DEF StoredQuestion
<1>3. \A s \in Requests : Notes(req'[s]) /\ Backed(req'[s], messages')
  BY <1>1, <1>2 DEF Kept, Backed
<1>4. MemoryHasSource'
  BY DEF Kept, MemoryHasSource
<1>5. \A t \in Memories : Counted(t)'
  BY <1>1, CountKept DEF IInv
<1> QED BY <1>3, <1>4, <1>5 DEF Kept

(* A step of one request in its turn: the others of its process wait at an *)
(* await, where nothing they know of the rows can become wrong.            *)
LEMMA TurnsByOne ==
    ASSUME IInv, Kept, Turns, NEW r \in Requests, NEW x \in RequestStates,
           req' = [req EXCEPT ![r] = x], x.process = req[r].process, x.process # None,
           LoopFree(r) \/ x.pc \notin InSync,
           UNCHANGED <<messages, memories>> \/ (LoopFree(r) /\ req[r].pc \in InSync),
           Together => NoRepeatedQuestion' /\ CalmOK(x)'
    PROVE  Turns'
<1>1. req'[r] = x /\ \A s \in Requests \ {r} : req'[s] = req[s]
  BY DEF IInv, TypeOK
<1>2. \A s \in Requests : req'[s].process = req[s].process
  BY <1>1
<1>3. Exclusive'
  BY <1>1 DEF Turns, Exclusive, LoopFree
<1>4. Together' => Together
  BY <1>2 DEF Together
<1>5. ASSUME Together, NEW s \in Requests PROVE CalmOK(req[s])'
  <2>1. CASE s = r
    BY <1>1, <1>5, <2>1 DEF CalmOK
  <2>2. CASE s # r /\ UNCHANGED <<messages, memories>>
    <3>1. /\ MaxSeq' = MaxSeq /\ \A q : Pending(q)' = Pending(q) /\ Stored(q)' = Stored(q)
      BY <2>2 DEF MaxSeq, Seqs, Pending, Latest, Stored
    <3>2. CalmOK(req[s])
      BY <1>5 DEF Turns, Calm
    <3> QED BY <1>1, <2>2, <3>1, <3>2 DEF CalmOK
  <2>3. CASE s # r /\ req[r].pc \in InSync /\ LoopFree(r)
    <3>1. req[s].pc \notin InSync
      <4>1. CASE req[s].process = None
        BY <4>1 DEF Kept, Notes, InSync
      <4>2. CASE req[s].process # None
        BY <1>5, <2>3, <4>2 DEF Together, LoopFree
      <4> QED BY <4>1, <4>2
    <3>2. CalmOK(req[s])
      BY <1>5 DEF Turns, Calm
    <3> QED BY <1>1, <2>3, <3>1, <3>2 DEF CalmOK, InSync
  <2> QED BY <2>1, <2>2, <2>3
<1>6. {req'[s].process : s \in Requests} = {req[s].process : s \in Requests}
  BY <1>2
<1> QED BY <1>3, <1>4, <1>5, <1>6 DEF Turns, Calm

(* A move of one request that writes no row.                               *)
LEMMA MoveKept ==
    ASSUME IInv, IInv', Kept, Turns, NEW r \in Requests, NEW x \in RequestStates,
           req' = [req EXCEPT ![r] = x], UNCHANGED <<messages, memories, forgotten>>,
           LoopFree(r) \/ x.pc \notin InSync,
           req[r].pc # "new", x.pc \notin {"new", "readLatest"},
           x.process = req[r].process, x.query = req[r].query,
           x.question = req[r].question \/ KindOf[x.query] # "memory",
           x.memory = "saved" => req[r].memory = "saved",
           Backed(x, messages), Together => CalmOK(x)
    PROVE  Kept' /\ Turns'
<1>1. Notes(x)
  BY DEF Kept, Notes
<1>2. messages \subseteq messages' /\ Backed(x, messages')
  OBVIOUS
<1>3. Kept'
  BY <1>1, <1>2, KeptByOne
<1>4. x.process # None
  BY DEF Kept, Notes
<1>5. Together => NoRepeatedQuestion' /\ CalmOK(x)'
  <2>1. /\ MaxSeq' = MaxSeq /\ \A q : Pending(q)' = Pending(q) /\ Stored(q)' = Stored(q)
    BY DEF MaxSeq, Seqs, Pending, Latest, Stored
  <2>2. Together => NoRepeatedQuestion'
    BY DEF Turns, Calm, NoRepeatedQuestion
  <2> QED BY <2>1, <2>2 DEF CalmOK
<1>6. Turns'
  BY <1>4, <1>5, TurnsByOne
<1> QED BY <1>3, <1>6

(* What is known of one request.                                           *)
LEMMA OneRequest ==
    ASSUME IInv, Kept, Turns, NEW r \in Requests
    PROVE  /\ req[r] \in RequestStates /\ RequestOK(req[r], messages, MaxSeq)
           /\ Notes(req[r]) /\ Backed(req[r], messages)
           /\ Together => NoRepeatedQuestion /\ CalmOK(req[r])
           /\ MaxSeq \in Nat /\ Seqs = 1..MaxSeq /\ messages \subseteq Rows
  BY DEF IInv, TypeOK, Numbered, DenseSequence, Kept, Turns, Calm

LEMMA GotoKept ==
    ASSUME IInv, IInv', Kept, Turns, NEW r \in Requests,
           NEW pc \in {"embedding", "recheckMemory", "insertMemory", "providerFailed",
                       "readMaxForAnswer", "cancelled"},
           req[r].pc \in {"checkMemory", "embedding", "recheckMemory", "answering"},
           Goto(r, pc), LoopFree(r) \/ pc = "cancelled",
           pc = "insertMemory" => ~Stored(Query(r)),
           UNCHANGED <<messages, memories, forgotten>>
    PROVE  Kept' /\ Turns'
<1> USE OneRequest DEF InSync, Awaiting, Ended
<1>1. PICK x : x = [req[r] EXCEPT !.pc = pc]
  OBVIOUS
<1>2. x \in RequestStates
  BY <1>1, RecordUpdate
<1>3. /\ x.pc = pc /\ x.process = req[r].process /\ x.query = req[r].query
      /\ x.question = req[r].question /\ x.memory = req[r].memory /\ x.recent = req[r].recent
  BY <1>1 DEF RequestStates
<1>4. req' = [req EXCEPT ![r] = x]
  BY <1>1 DEF Goto
<1>5. Backed(x, messages)
  BY <1>3 DEF Backed, Using
<1>6. Together => CalmOK(x)
  BY <1>3 DEF CalmOK, Query
<1>7. x.pc \notin {"new", "readLatest"} /\ (LoopFree(r) \/ x.pc \notin InSync)
  BY <1>3
<1>8. req[r].pc # "new"
  OBVIOUS
<1> QED BY <1>2, <1>3, <1>4, <1>5, <1>6, <1>7, <1>8, MoveKept

(* A save that is settled by a row of somebody else.                       *)
LEMMA AlreadySavedKept ==
    ASSUME IInv, IInv', Kept, Turns, NEW r \in Requests, LoopFree(r),
           req[r].pc \in {"checkMemory", "recheckMemory"}, Settle(r, "already_saved"),
           UNCHANGED <<messages, memories, forgotten>>
    PROVE  Kept' /\ Turns'
<1> USE OneRequest DEF InSync, Awaiting, Ended
<1>1. PICK pc \in {"done", "readMaxForAnswer"} :
          req' = [req EXCEPT ![r] = [@ EXCEPT !.memory = "already_saved", !.pc = pc]]
  BY DEF Settle
<1>2. PICK x : x = [req[r] EXCEPT !.memory = "already_saved", !.pc = pc]
  OBVIOUS
<1>3. x \in RequestStates
  BY <1>2, RecordUpdate
<1>4. /\ x.pc = pc /\ x.process = req[r].process /\ x.query = req[r].query
      /\ x.question = req[r].question /\ x.memory = "already_saved"
      /\ x.recent = req[r].recent
  BY <1>2 DEF RequestStates
<1>5. req' = [req EXCEPT ![r] = x]
  BY <1>1, <1>2
<1>6. Backed(x, messages)
  BY <1>4 DEF Backed, Using
<1>7. Together => CalmOK(x)
  BY <1>4 DEF CalmOK
<1>8. x.pc \notin {"new", "readLatest"} /\ req[r].pc # "new"
  BY <1>4
<1> QED BY <1>3, <1>4, <1>5, <1>6, <1>7, <1>8, MoveKept

(* A conflict, which only a second process brings about.                   *)
LEMMA ConflictKept ==
    ASSUME IInv, IInv', Kept, Turns, NEW r \in Requests, LoopFree(r),
           req[r].pc # "new", Conflict(r), ~Together,
           UNCHANGED <<messages, memories, forgotten>>
    PROVE  Kept' /\ Turns'
<1> USE OneRequest DEF InSync, Awaiting, Ended
<1>1. PICK x : x = [req[r] EXCEPT !.pc = "conflict"]
  OBVIOUS
<1>2. x \in RequestStates
  BY <1>1, RecordUpdate
<1>3. /\ x.pc = "conflict" /\ x.process = req[r].process /\ x.query = req[r].query
      /\ x.question = req[r].question /\ x.memory = req[r].memory
  BY <1>1 DEF RequestStates
<1>4. req' = [req EXCEPT ![r] = x]
  BY <1>1 DEF Conflict, Goto
<1>5. Backed(x, messages)
  BY <1>3 DEF Backed, Using
<1> QED BY <1>2, <1>3, <1>4, <1>5, MoveKept

(* The window of the last rows has the last one.                           *)
LEMMA RecentEnds ==
    ASSUME NEW rows, NEW n \in Nat, NEW row \in rows, row.seq = n,
           \A m \in rows : m.seq \in Nat /\ m.seq <= n
    PROVE  n \in RecentOf(rows) /\ \A k \in RecentOf(rows) : k <= n
<1>1. {y \in rows : y.seq > row.seq} = {}
  OBVIOUS
<1>2. Cardinality({y \in rows : y.seq > row.seq}) = 0
  BY <1>1, FS_EmptySet, Zenon
<1>3. Cardinality({y \in rows : y.seq > row.seq}) < MessageLimit
  BY <1>2, ConversationAssumption
<1>4. row \in {x \in rows : Cardinality({y \in rows : y.seq > x.seq}) < MessageLimit}
  BY <1>3
<1> QED BY <1>4 DEF RecentOf

(* The latest row carries the largest number.                              *)
LEMMA LatestIsLast ==
    ASSUME IInv, messages # {}
    PROVE  Latest \in messages /\ Latest.seq = MaxSeq
<1>1. MaxSeq \in Nat /\ Seqs = 1..MaxSeq
  BY DEF IInv, Numbered, DenseSequence
<1>2. Seqs # {}
  BY DEF Seqs
<1>3. MaxSeq \in Seqs
  BY <1>1, <1>2
<1> QED BY <1>3 DEF Seqs, Latest

LEMMA ReadLatestKept ==
    ASSUME IInv, IInv', Kept, Turns, NEW r \in Requests, LoopFree(r), ReadLatest(r)
    PROVE  Kept' /\ Turns'
<1> USE OneRequest DEF InSync, Awaiting, Ended
<1>0. req[r].pc = "readLatest" /\ UNCHANGED <<messages, memories, forgotten>>
      /\ KindOf[req[r].query] # "memory" /\ req[r].recent = {}
  BY DEF ReadLatest, RequestOK, ChatOnly, Notes
<1>1. CASE PendingRetry(r)
  <2>1. Latest \in messages /\ PendingId = MaxSeq
    BY <1>1, LatestIsLast DEF PendingRetry, PendingId
  <2>2. PICK x : x = [req[r] EXCEPT !.pc = "listRecent", !.reused = TRUE,
                                    !.question = PendingId]
    OBVIOUS
  <2>3. x \in RequestStates
    BY <2>1, <2>2, RecordUpdate
  <2>4. /\ x.pc = "listRecent" /\ x.process = req[r].process /\ x.query = req[r].query
        /\ x.question = MaxSeq /\ x.memory = req[r].memory /\ x.recent = {}
    BY <1>0, <2>1, <2>2 DEF RequestStates
  <2>5. req' = [req EXCEPT ![r] = x]
    BY <1>1, <2>2 DEF ReadLatest
  <2>6. Backed(x, messages)
    BY <2>4 DEF Backed, Using
  <2>7. Together => CalmOK(x)
    BY <2>4 DEF CalmOK
  <2> QED BY <1>0, <2>3, <2>4, <2>5, <2>6, <2>7, MoveKept
<1>2. CASE ~PendingRetry(r)
  <2>2. PICK x : x = [req[r] EXCEPT !.pc = "readMaxForQuestion"]
    OBVIOUS
  <2>3. x \in RequestStates
    BY <2>2, RecordUpdate
  <2>4. /\ x.pc = "readMaxForQuestion" /\ x.process = req[r].process
        /\ x.query = req[r].query /\ x.question = req[r].question
        /\ x.memory = req[r].memory /\ x.recent = {}
    BY <1>0, <2>2 DEF RequestStates
  <2>5. req' = [req EXCEPT ![r] = x]
    BY <1>2, <2>2 DEF ReadLatest
  <2>6. Backed(x, messages)
    BY <2>4 DEF Backed, Using
  <2>7. Together => CalmOK(x)
    BY <1>2, <2>4 DEF CalmOK, PendingRetry, Pending, Query
  <2> QED BY <1>0, <2>3, <2>4, <2>5, <2>6, <2>7, MoveKept
<1> QED BY <1>1, <1>2

LEMMA ReadMaxKept ==
    ASSUME IInv, IInv', Kept, Turns, NEW r \in Requests, LoopFree(r), ReadMax(r)
    PROVE  Kept' /\ Turns'
<1> USE OneRequest DEF InSync, Awaiting, Ended
<1>0. /\ req[r].pc \in {"readMaxForQuestion", "readMaxForAnswer"}
      /\ UNCHANGED <<messages, memories, forgotten>>
  BY DEF ReadMax
<1>1. PICK pc \in {"insertQuestion", "insertAnswer"} :
          /\ req' = [req EXCEPT ![r] = [@ EXCEPT !.max = MaxSeq, !.pc = pc]]
          /\ req[r].pc = "readMaxForQuestion" <=> pc = "insertQuestion"
  BY <1>0 DEF ReadMax, RequestStates
<1>2. PICK x : x = [req[r] EXCEPT !.max = MaxSeq, !.pc = pc]
  OBVIOUS
<1>3. x \in RequestStates
  BY <1>2, RecordUpdate
<1>4. /\ x.pc = pc /\ x.process = req[r].process /\ x.query = req[r].query
      /\ x.question = req[r].question /\ x.memory = req[r].memory
      /\ x.recent = req[r].recent /\ x.max = MaxSeq
  BY <1>2 DEF RequestStates
<1>5. req' = [req EXCEPT ![r] = x]
  BY <1>1, <1>2
<1>6. Backed(x, messages)
  BY <1>0, <1>1, <1>4 DEF Backed, Using
<1>7. Together => CalmOK(x)
  BY <1>0, <1>1, <1>4 DEF CalmOK
<1>8. x.pc \notin {"new", "readLatest"} /\ req[r].pc # "new"
  BY <1>0, <1>4
<1> QED BY <1>0, <1>3, <1>4, <1>5, <1>6, <1>7, <1>8, MoveKept

LEMMA ListRecentKept ==
    ASSUME IInv, IInv', Kept, Turns, NEW r \in Requests, LoopFree(r), ListRecent(r)
    PROVE  Kept' /\ Turns'
<1> USE OneRequest DEF InSync, Awaiting, Ended
<1>0. /\ req[r].pc = "listRecent" /\ req[r].query \in Queries
      /\ UNCHANGED <<messages, memories, forgotten>>
      /\ KindOf[req[r].query] # "memory" /\ RecentOf(messages) \subseteq Nat
      /\ StoredQuestion(messages, req[r].question, req[r].query)
  BY RecentNumbers DEF ListRecent, RequestOK, ChatOnly
<1>1. PICK pc : pc = AfterQuestion(Query(r), RecentOf(messages), messages)
  OBVIOUS
<1>a. pc \in {"rejected", "checkMemory", "readMaxForAnswer", "answering"}
  BY <1>0, <1>1, AfterQuestionPlaces DEF Query
<1>2. PICK x : x = [req[r] EXCEPT !.recent = RecentOf(messages), !.pc = pc]
  OBVIOUS
<1>3. x \in RequestStates
  BY <1>0, <1>a, <1>2, RecordUpdate
<1>4. /\ x.pc = pc /\ x.process = req[r].process /\ x.query = req[r].query
      /\ x.question = req[r].question /\ x.memory = req[r].memory
      /\ x.recent = RecentOf(messages)
  BY <1>2 DEF RequestStates
<1>5. req' = [req EXCEPT ![r] = x]
  BY <1>1, <1>2 DEF ListRecent
<1>6. Backed(x, messages)
  BY <1>0, <1>4 DEF Backed
<1>7. ASSUME Together PROVE CalmOK(x)
  <2>1. x.question = MaxSeq
    BY <1>0, <1>4, <1>7 DEF CalmOK
  <2>2. PICK u \in messages : u.seq = MaxSeq
    BY <1>0, <1>4, <2>1 DEF StoredQuestion
  <2>3. \A m \in messages : m.seq \in Nat /\ m.seq <= MaxSeq
    <3>1. \A m \in messages : m.seq \in 1..MaxSeq
      BY DEF Seqs
    <3> QED BY <3>1
  <2>4. MaxSeq \in RecentOf(messages) /\ \A k \in RecentOf(messages) : k <= MaxSeq
    BY <2>2, <2>3, RecentEnds
  <2> QED BY <1>a, <1>4, <2>1, <2>4 DEF CalmOK
<1>8. x.pc \notin {"new", "readLatest"} /\ req[r].pc # "new"
  BY <1>0, <1>4, <1>a
<1> QED BY <1>0, <1>3, <1>4, <1>5, <1>6, <1>7, <1>8, MoveKept

(* The stretches of a save up to its insert, the provider calls and their  *)
(* cancellation.                                                           *)
LEMMA WaitsKept ==
    ASSUME IInv, IInv', Kept, Turns, NEW r \in Requests,
           \/ LoopFree(r) /\ (CheckMemory(r) \/ Embed(r) \/ RecheckMemory(r) \/ AnswerArrives(r))
           \/ Cancel(r)
    PROVE  Kept' /\ Turns'
<1>1. CASE LoopFree(r) /\ CheckMemory(r)
  BY <1>1, GotoKept, AlreadySavedKept DEF CheckMemory
<1>2. CASE LoopFree(r) /\ Embed(r)
  <2>1. PICK pc \in {"recheckMemory", "providerFailed"} : Goto(r, pc)
    BY <1>2 DEF Embed
  <2> QED BY <1>2, <2>1, GotoKept DEF Embed
<1>3. CASE LoopFree(r) /\ RecheckMemory(r)
  <2>1. CASE SavedMeanwhile(r)
    BY <1>3, <2>1, AlreadySavedKept DEF RecheckMemory
  <2>2. CASE ~SavedMeanwhile(r)
    BY <1>3, <2>2, GotoKept DEF RecheckMemory, SavedMeanwhile
  <2> QED BY <2>1, <2>2
<1>4. CASE LoopFree(r) /\ AnswerArrives(r)
  <2>1. PICK pc \in {"readMaxForAnswer", "providerFailed"} : Goto(r, pc)
    BY <1>4 DEF AnswerArrives
  <2> QED BY <1>4, <2>1, GotoKept DEF AnswerArrives
<1>5. CASE Cancel(r)
  BY <1>5, GotoKept DEF Cancel, Awaiting
<1> QED BY <1>1, <1>2, <1>3, <1>4, <1>5

(* In its turn, one process's insert is always at a free number.           *)
LEMMA FreeNumber ==
    ASSUME IInv, Kept, Turns, Together, NEW r \in Requests,
           req[r].pc \in {"insertQuestion", "insertAnswer"}
    PROVE  ~SeqTaken(req[r].max + 1)
<1>1. req[r].max = MaxSeq /\ MaxSeq \in Nat /\ Seqs = 1..MaxSeq
  BY OneRequest DEF CalmOK
<1> QED BY <1>1 DEF SeqTaken

(* What an insert adds to the log never repeats an unanswered question.    *)
LEMMA InsertRepeatsNothing ==
    ASSUME IInv, NoRepeatedQuestion, NEW row \in Rows, row.seq = MaxSeq + 1,
           messages' = messages \union {row},
           row.role = "user" => ~Pending(row.content)
    PROVE  NoRepeatedQuestion'
<1> SUFFICES ASSUME NEW a \in messages', NEW b \in messages',
                    b.seq = a.seq + 1, a.role = "user", b.role = "user",
                    a.content = b.content
             PROVE  FALSE
  BY DEF NoRepeatedQuestion
<1>1. /\ MaxSeq \in Nat /\ Seqs = 1..MaxSeq
      /\ \A m \in messages : m.seq \in 1..MaxSeq
      /\ \A m, k \in messages : m.seq = k.seq => m = k
  BY DEF IInv, Numbered, DenseSequence, Seqs
<1>2. CASE a \in messages /\ b \in messages
  BY <1>2 DEF NoRepeatedQuestion
<1>3. CASE a \in messages /\ b = row
  <2>1. a.seq = MaxSeq
    BY <1>1, <1>3
  <2>2. a = Latest
    BY <1>1, <1>3, <2>1, LatestIsLast
  <2> QED BY <1>3, <2>2 DEF Pending
<1>4. CASE a = row
  BY <1>1, <1>4
<1> QED BY <1>2, <1>3, <1>4

LEMMA InsertQuestionKept ==
    ASSUME IInv, IInv', Kept, Turns, NEW r \in Requests, LoopFree(r), InsertQuestion(r)
    PROVE  Kept' /\ Turns'
<1> USE OneRequest DEF InSync, Awaiting, Ended
<1>0. /\ req[r].pc = "insertQuestion" /\ req[r].query \in Queries
      /\ UNCHANGED <<memories, forgotten>> /\ req[r].max \in Nat
      /\ KindOf[req[r].query] # "memory" /\ req[r].max <= MaxSeq
  BY DEF InsertQuestion, RequestOK, ChatOnly, RequestStates
<1>1. CASE SeqTaken(req[r].max + 1) /\ Conflict(r) /\ UNCHANGED messages
  BY <1>0, <1>1, FreeNumber, ConflictKept
<1>2. ASSUME ~SeqTaken(req[r].max + 1),
             messages' = messages \union
                 {[seq |-> req[r].max + 1, role |-> "user", content |-> Query(r), by |-> r,
                   question |-> req[r].max + 1]},
             req' = [req EXCEPT ![r] =
                        [@ EXCEPT !.question = req[r].max + 1, !.recent = RecentOf(messages'),
                           !.pc = AfterQuestion(Query(r), RecentOf(messages'), messages')]]
      PROVE  Kept' /\ Turns'
  <2>1. PICK row \in Rows : /\ row.seq = req[r].max + 1 /\ row.role = "user"
                            /\ row.content = req[r].query
                            /\ messages' = messages \union {row}
    <3>1. PICK row : row = [seq |-> req[r].max + 1, role |-> "user", content |-> Query(r),
                            by |-> r, question |-> req[r].max + 1]
      OBVIOUS
    <3>2. row \in Rows
      BY <1>0, <3>1 DEF Rows, Query
    <3> QED BY <1>2, <3>1, <3>2 DEF Query
  <2>2. /\ row.seq = MaxSeq + 1 /\ MaxSeq' = MaxSeq + 1 /\ messages' \subseteq Rows
        /\ \A m \in messages' : m.seq \in Nat /\ m.seq <= row.seq
    <3>1. row.seq \notin Seqs /\ row.seq <= MaxSeq + 1
      BY <1>0, <1>2, <2>1 DEF SeqTaken
    <3>2. row.seq = MaxSeq + 1 /\ MaxSeq' = MaxSeq + 1 /\ messages' \subseteq Rows
      BY <2>1, <3>1, InsertAppends DEF IInv
    <3>3. \A m \in messages : m.seq \in 1..MaxSeq
      BY DEF Seqs
    <3> QED BY <2>1, <3>2, <3>3
  <2>3. PICK recent : recent = RecentOf(messages')
    OBVIOUS
  <2>4. recent \subseteq Nat /\ row.seq \in recent /\ \A k \in recent : k <= row.seq
    <3>1. RecentOf(messages') \subseteq Nat
      BY <2>2, RecentNumbers
    <3>2. row \in messages' /\ row.seq \in Nat
      BY <2>1, <2>2
    <3>3. row.seq \in RecentOf(messages') /\ \A k \in RecentOf(messages') : k <= row.seq
      BY <2>2, <3>2, RecentEnds
    <3> QED BY <2>3, <3>1, <3>3
  <2>5. PICK pc : pc = AfterQuestion(Query(r), recent, messages')
    OBVIOUS
  <2>6. pc \in {"rejected", "checkMemory", "readMaxForAnswer", "answering"}
    BY <1>0, <2>5, AfterQuestionPlaces DEF Query
  <2>7. PICK x : x = [req[r] EXCEPT !.question = row.seq, !.recent = recent, !.pc = pc]
    OBVIOUS
  <2>8. x \in RequestStates
    BY <2>2, <2>4, <2>6, <2>7, RecordUpdate
  <2>9. /\ x.pc = pc /\ x.process = req[r].process /\ x.query = req[r].query
        /\ x.question = row.seq /\ x.memory = req[r].memory /\ x.recent = recent
    BY <2>7 DEF RequestStates
  <2>10. req' = [req EXCEPT ![r] = x]
    BY <1>2, <2>1, <2>3, <2>5, <2>7
  <2>11. Backed(x, messages') /\ messages \subseteq messages'
    BY <2>1, <2>9 DEF Backed, StoredQuestion
  <2>12. Notes(x)
    BY <1>0, <2>6, <2>9 DEF Notes
  <2>13. Kept'
    BY <1>0, <2>8, <2>9, <2>10, <2>11, <2>12, KeptByOne
  <2>14. ASSUME Together PROVE NoRepeatedQuestion' /\ CalmOK(x)'
    <3>1. NoRepeatedQuestion /\ ~Pending(row.content)
      BY <1>0, <2>1, <2>14 DEF CalmOK
    <3>2. NoRepeatedQuestion'
      BY <2>1, <2>2, <3>1, InsertRepeatsNothing
    <3>3. CalmOK(x)'
      BY <2>4, <2>6, <2>9 DEF CalmOK
    <3> QED BY <3>2, <3>3
  <2>15. x.process = req[r].process /\ x.process # None /\ req[r].pc \in InSync
    BY <1>0, <2>9 DEF Notes
  <2>16. Turns'
    BY <2>8, <2>10, <2>14, <2>15, TurnsByOne
  <2> QED BY <2>13, <2>16
<1> QED BY <1>1, <1>2 DEF InsertQuestion

LEMMA InsertAnswerKept ==
    ASSUME IInv, IInv', Kept, Turns, NEW r \in Requests, LoopFree(r), InsertAnswer(r)
    PROVE  Kept' /\ Turns'
<1> USE OneRequest DEF InSync, Awaiting, Ended
<1>0. /\ req[r].pc = "insertAnswer" /\ req[r].question \in Nat
      /\ UNCHANGED <<memories, forgotten>> /\ req[r].max \in Nat
      /\ KindOf[req[r].query] # "memory" /\ req[r].max <= MaxSeq
  BY DEF InsertAnswer, RequestOK, ChatOnly, RequestStates
<1>1. CASE SeqTaken(req[r].max + 1) /\ Conflict(r) /\ UNCHANGED messages
  BY <1>0, <1>1, FreeNumber, ConflictKept
<1>2. ASSUME ~SeqTaken(req[r].max + 1),
             messages' = messages \union
                 {[seq |-> req[r].max + 1, role |-> "assistant", content |-> NoContent,
                   by |-> r, question |-> req[r].question]},
             Goto(r, "done")
      PROVE  Kept' /\ Turns'
  <2>1. PICK row \in Rows : /\ row.seq = req[r].max + 1 /\ row.role = "assistant"
                            /\ messages' = messages \union {row}
    <3>1. req[r].question \in Nat \ {0}
      <4>1. PICK u \in messages : u.seq = req[r].question
        BY <1>0 DEF Backed, Using, StoredQuestion
      <4> QED BY <4>1 DEF Rows
    <3>2. PICK row : row = [seq |-> req[r].max + 1, role |-> "assistant",
                            content |-> NoContent, by |-> r, question |-> req[r].question]
      OBVIOUS
    <3>3. row \in Rows
      BY <1>0, <3>1, <3>2 DEF Rows
    <3> QED BY <1>2, <3>2, <3>3
  <2>2. row.seq = MaxSeq + 1
    <3>1. row.seq \notin Seqs /\ row.seq <= MaxSeq + 1
      BY <1>0, <1>2, <2>1 DEF SeqTaken
    <3> QED BY <2>1, <3>1, InsertAppends DEF IInv
  <2>3. PICK x : x = [req[r] EXCEPT !.pc = "done"]
    OBVIOUS
  <2>4. x \in RequestStates
    BY <2>3, RecordUpdate
  <2>5. /\ x.pc = "done" /\ x.process = req[r].process /\ x.query = req[r].query
        /\ x.question = req[r].question /\ x.memory = req[r].memory
        /\ x.recent = req[r].recent
    BY <2>3 DEF RequestStates
  <2>6. req' = [req EXCEPT ![r] = x]
    BY <1>2, <2>3 DEF Goto
  <2>7. Backed(x, messages') /\ messages \subseteq messages'
    BY <1>0, <2>1, <2>5 DEF Backed, Using, StoredQuestion
  <2>8. Notes(x)
    BY <1>0, <2>5 DEF Notes
  <2>9. Kept'
    BY <1>0, <2>4, <2>5, <2>6, <2>7, <2>8, KeptByOne
  <2>10. ASSUME Together PROVE NoRepeatedQuestion' /\ CalmOK(x)'
    <3>1. NoRepeatedQuestion'
      BY <2>1, <2>2, <2>10, InsertRepeatsNothing
    <3>2. CalmOK(x)'
      BY <2>5, <2>10 DEF CalmOK
    <3> QED BY <3>1, <3>2
  <2>11. x.process = req[r].process /\ x.process # None /\ req[r].pc \in InSync
    BY <1>0, <2>5 DEF Notes
  <2>12. Turns'
    BY <2>4, <2>6, <2>10, <2>11, TurnsByOne
  <2> QED BY <2>9, <2>12
<1> QED BY <1>1, <1>2 DEF InsertAnswer

(* A save that stores its row takes the single winner's place.             *)
LEMMA WinnerCounted ==
    ASSUME IInv, Kept, IInv', NEW r \in Requests, ~Stored(Query(r)), req[r].query \in Queries,
           \A m \in memories' : m \in memories \/ m.content = MemoryOf[Query(r)],
           \E m \in memories' : m.content = MemoryOf[Query(r)],
           memories \subseteq memories', UNCHANGED forgotten,
           \A s \in Requests \ {r} : req'[s] = req[s],
           req'[r].query = req[r].query
    PROVE  \A t \in Memories : Counted(t)'
<1> SUFFICES ASSUME NEW t \in Memories PROVE Counted(t)'
  OBVIOUS
<1>0. /\ forgotten \in Nat /\ Counted(t) /\ IsFiniteSet(Savers(t))
      /\ Cardinality(Savers(t)) \in Nat
  BY FS_CardinalityType DEF Kept, Counted, IInv, TypeOK
<1>1. CASE t = MemoryOf[Query(r)]
  <2>1. Cardinality(Savers(t)) <= forgotten
    BY <1>0, <1>1 DEF Counted, Stored
  <2>2. Savers(t)' \subseteq Savers(t) \union {r}
    BY DEF Savers, Query
  <2>3. PICK more : more = Savers(t) \union {r}
    OBVIOUS
  <2>4. IsFiniteSet(more) /\ Cardinality(more) <= forgotten + 1 /\ Cardinality(more) \in Nat
    <3>1. IsFiniteSet(more) /\ (Cardinality(more) = Cardinality(Savers(t))
                              \/ Cardinality(more) = Cardinality(Savers(t)) + 1)
      BY <1>0, <2>3, FS_AddElement
    <3> QED BY <1>0, <2>1, <3>1
  <2>5. IsFiniteSet(Savers(t)') /\ Cardinality(Savers(t)') <= Cardinality(more)
        /\ Cardinality(Savers(t)') \in Nat
    BY <2>2, <2>3, <2>4, FS_Subset, FS_CardinalityType
  <2>6. Cardinality(Savers(t)') <= forgotten' + 1
    BY <1>0, <2>4, <2>5
  <2> QED BY <1>1, <2>5, <2>6 DEF Counted, Query
<1>2. CASE t # MemoryOf[Query(r)]
  <2>1. Savers(t)' = Savers(t)
    BY <1>2 DEF Savers, Query
  <2>2. (\E m \in memories' : m.content = t) <=> (\E m \in memories : m.content = t)
    BY <1>2
  <2> QED BY <1>0, <2>1, <2>2 DEF Counted
<1> QED BY <1>1, <1>2

LEMMA InsertMemoryKept ==
    ASSUME IInv, IInv', Kept, Turns, NEW r \in Requests, LoopFree(r), InsertMemory(r)
    PROVE  Kept' /\ Turns'
<1> USE OneRequest DEF InSync, Awaiting, Ended
<1>0. /\ req[r].pc = "insertMemory" /\ req[r].query \in Queries
      /\ UNCHANGED <<messages, forgotten>> /\ req[r].question \in Nat
  BY DEF InsertMemory, RequestOK, RequestStates
<1>1. CASE MemoryTaken(r) /\ Conflict(r) /\ UNCHANGED memories
  <2>1. ~Together
    BY <1>0, <1>1 DEF CalmOK, MemoryTaken, Query
  <2> QED BY <1>0, <1>1, <2>1, ConflictKept
<1>2. ASSUME ~Stored(Query(r)), Settle(r, "saved"),
             memories' = memories \union {[content |-> MemoryOf[Query(r)],
                                           question |-> req[r].question]}
      PROVE  Kept' /\ Turns'
  <2>1. PICK pc \in {"done", "readMaxForAnswer"} :
            req' = [req EXCEPT ![r] = [@ EXCEPT !.memory = "saved", !.pc = pc]]
    BY <1>2 DEF Settle
  <2>2. PICK x : x = [req[r] EXCEPT !.memory = "saved", !.pc = pc]
    OBVIOUS
  <2>3. x \in RequestStates
    BY <2>2, RecordUpdate
  <2>4. /\ x.pc = pc /\ x.process = req[r].process /\ x.query = req[r].query
        /\ x.question = req[r].question /\ x.recent = req[r].recent
    BY <2>2 DEF RequestStates
  <2>5. req' = [req EXCEPT ![r] = x]
    BY <2>1, <2>2
  <2>6. req'[r] = x /\ \A s \in Requests \ {r} : req'[s] = req[s]
    BY <2>5 DEF IInv, TypeOK
  <2>7. \A s \in Requests : Notes(req'[s]) /\ Backed(req'[s], messages')
    <3>1. Notes(x) /\ Backed(x, messages)
      BY <1>0, <2>4 DEF Notes, Backed, Using
    <3> QED BY <1>0, <2>6, <3>1 DEF Kept
  <2>8. PICK m \in memories' : /\ m.content = MemoryOf[Query(r)]
                               /\ m.question = req[r].question
                               /\ memories' = memories \union {m}
    BY <1>2
  <2>9. MemoryHasSource'
    <3>1. ASSUME m.question # 0
          PROVE  \E u \in messages : u.seq = m.question /\ u.role = "user"
                                     /\ MemoryOf[u.content] = m.content
      BY <1>0, <2>8, <3>1 DEF Notes, Backed, Using, StoredQuestion, Query
    <3> QED BY <1>0, <2>8, <3>1 DEF Kept, MemoryHasSource
  <2>10. \A a, b \in memories' : a.content = b.content => a = b
    BY <1>2, <2>8 DEF Kept, Stored
  <2>11. \A t \in Memories : Counted(t)'
    <3>1. /\ \A k \in memories' : k \in memories \/ k.content = MemoryOf[Query(r)]
          /\ memories \subseteq memories'
      BY <2>8
    <3> QED BY <1>0, <1>2, <2>4, <2>6, <2>8, <3>1, WinnerCounted
  <2>12. Kept'
    BY <2>7, <2>9, <2>10, <2>11 DEF Kept
  <2>13. ASSUME Together PROVE NoRepeatedQuestion' /\ CalmOK(x)'
    <3>1. NoRepeatedQuestion'
      BY <1>0, <2>13 DEF NoRepeatedQuestion
    <3>2. CalmOK(x)'
      BY <2>4, <2>13 DEF CalmOK
    <3> QED BY <3>1, <3>2
  <2>14. x.process = req[r].process /\ x.process # None /\ req[r].pc \in InSync
    BY <1>0, <2>4 DEF Notes
  <2>15. Turns'
    BY <2>3, <2>5, <2>13, <2>14, TurnsByOne
  <2> QED BY <2>12, <2>15
<1> QED BY <1>1, <1>2 DEF InsertMemory, MemoryTaken, MemorySource

LEMMA ForgetMemoryKept ==
    ASSUME IInv, IInv', Kept, Turns, ForgetMemory
    PROVE  Kept' /\ Turns'
<1>0. UNCHANGED <<messages, req>> /\ memories' \subseteq memories
      /\ forgotten' = forgotten + 1 /\ forgotten \in Nat
  BY DEF ForgetMemory, IInv, TypeOK
<1>1. ASSUME NEW t \in Memories PROVE Counted(t)'
  <2>1. Savers(t)' = Savers(t) /\ Counted(t)
    BY <1>0 DEF Savers, Query, Kept
  <2>2. IsFiniteSet(Savers(t)) /\ Cardinality(Savers(t)) \in Nat
    BY <2>1, FS_CardinalityType DEF Counted
  <2>3. Cardinality(Savers(t)) <= forgotten + 1
    BY <1>0, <2>1, <2>2 DEF Counted
  <2> QED BY <1>0, <2>1, <2>2, <2>3 DEF Counted
<1>2. Kept'
  BY <1>0, <1>1 DEF Kept, MemoryHasSource
<1>3. ASSUME Together PROVE NoRepeatedQuestion' /\ \A r \in Requests : CalmOK(req[r])'
  <2>1. NoRepeatedQuestion'
    BY <1>0, <1>3 DEF Turns, Calm, NoRepeatedQuestion
  <2>2. /\ MaxSeq' = MaxSeq /\ \A q : Pending(q)' = Pending(q)
        /\ \A q : Stored(q)' => Stored(q)
    BY <1>0 DEF MaxSeq, Seqs, Pending, Latest, Stored
  <2>3. ASSUME NEW r \in Requests PROVE CalmOK(req[r])'
    <3>1. CalmOK(req[r]) /\ req'[r] = req[r]
      BY <1>0, <1>3 DEF Turns, Calm
    <3> QED BY <2>2, <3>1 DEF CalmOK
  <2> QED BY <2>1, <2>3
<1>4. Turns'
  <2>1. Exclusive' /\ (Together' => Together)
    BY <1>0 DEF Turns, Exclusive, Together
  <2>2. IsFiniteSet({req'[r].process : r \in Requests})
    BY <1>0 DEF Turns
  <2> QED BY <1>3, <2>1, <2>2 DEF Turns, Calm
<1> QED BY <1>2, <1>4

LEMMA SubmitKept ==
    ASSUME IInv, IInv', Kept, Turns, NEW r \in Requests, NEW p \in Processes, NEW q \in Queries,
           Submit(r, p, q)
    PROVE  Kept' /\ Turns'
<1> USE OneRequest DEF InSync, Awaiting, Ended
<1>0. /\ req[r].pc = "new" /\ req[r].process = None /\ p # None
      /\ UNCHANGED <<messages, memories, forgotten>>
      /\ \A s \in Requests : req[s].process = p => req[s].pc \notin InSync
  BY ConversationAssumption DEF Submit, RequestOK
<1>1. PICK pc \in {"checkMemory", "readLatest"} :
          /\ pc = "checkMemory" <=> KindOf[q] = "memory"
          /\ req' = [req EXCEPT ![r] =
                        [@ EXCEPT !.process = p, !.query = q, !.untitled = (title = NoContent),
                                  !.pc = pc]]
  BY DEF Submit
<1>2. PICK x : x = [req[r] EXCEPT !.process = p, !.query = q,
                                  !.untitled = (title = NoContent), !.pc = pc]
  OBVIOUS
<1>3. x \in RequestStates
  BY <1>2, RecordUpdate
<1>4. /\ x.pc = pc /\ x.process = p /\ x.query = q /\ x.question = 0
      /\ x.memory = "none" /\ x.recent = {}
  BY <1>0, <1>2 DEF RequestStates, Notes
<1>5. req' = [req EXCEPT ![r] = x]
  BY <1>1, <1>2
<1>6. Notes(x) /\ Backed(x, messages') /\ messages \subseteq messages'
  BY <1>0, <1>1, <1>4 DEF Notes, Backed, Using
<1>7. Kept'
  BY <1>0, <1>3, <1>4, <1>5, <1>6, KeptByOne
<1>8. req'[r] = x /\ \A s \in Requests \ {r} : req'[s] = req[s]
  BY <1>5 DEF IInv, TypeOK
<1>9. Exclusive'
  BY <1>0, <1>4, <1>8 DEF Turns, Exclusive
<1>10. Together' => Together
  BY <1>0, <1>8 DEF Together
<1>11. ASSUME Together PROVE NoRepeatedQuestion' /\ \A s \in Requests : CalmOK(req[s])'
  <2>1. NoRepeatedQuestion'
    BY <1>0, <1>11 DEF NoRepeatedQuestion
  <2>2. /\ MaxSeq' = MaxSeq /\ \A t : Pending(t)' = Pending(t) /\ Stored(t)' = Stored(t)
    BY <1>0 DEF MaxSeq, Seqs, Pending, Latest, Stored
  <2>3. ASSUME NEW s \in Requests PROVE CalmOK(req[s])'
    <3>1. CASE s = r
      BY <1>4, <1>8, <3>1 DEF CalmOK
    <3>2. CASE s # r
      <4>1. CalmOK(req[s]) /\ req'[s] = req[s]
        BY <1>8, <1>11, <3>2
      <4> QED BY <2>2, <4>1 DEF CalmOK
    <3> QED BY <3>1, <3>2
  <2> QED BY <2>1, <2>3
<1>12. IsFiniteSet({req'[s].process : s \in Requests})
  <2>1. PICK more : more = {req[s].process : s \in Requests} \union {p}
    OBVIOUS
  <2>2. IsFiniteSet(more)
    BY <2>1, FS_AddElement DEF Turns
  <2>3. {req'[s].process : s \in Requests} \subseteq more
    BY <1>4, <1>8, <2>1
  <2> QED BY <2>2, <2>3, FS_Subset
<1> QED BY <1>7, <1>9, <1>10, <1>11, <1>12 DEF Turns, Calm

LEMMA CrashKept ==
    ASSUME IInv, IInv', Kept, Turns, NEW p \in Processes, Crash(p)
    PROVE  Kept' /\ Turns'
<1> USE DEF InSync, Awaiting, Ended
<1>0. /\ UNCHANGED <<messages, memories, forgotten>>
      /\ \A r \in Requests : req[r] \in RequestStates /\ req'[r] \in RequestStates
  BY DEF Crash, IInv, TypeOK
<1>1. ASSUME NEW r \in Requests
      PROVE  /\ req'[r].process = req[r].process /\ req'[r].query = req[r].query
             /\ req'[r].question = req[r].question /\ req'[r].recent = req[r].recent
             /\ req'[r].memory = req[r].memory
             /\ req'[r] = req[r] \/ (req'[r].pc = "crashed" /\ req[r].process = p)
  BY <1>0 DEF Crash, RequestStates
<1>2. Kept'
  <2>1. ASSUME NEW r \in Requests PROVE Notes(req'[r]) /\ Backed(req'[r], messages')
    <3>1. CASE req'[r] = req[r]
      BY <1>0, <3>1 DEF Kept
    <3>2. CASE req'[r].pc = "crashed" /\ req[r].process = p
      <4>1. p # None /\ req[r].pc # "new"
        BY <3>2, ConversationAssumption DEF IInv, RequestOK
      <4> QED BY <1>1, <3>2, <4>1 DEF Kept, Notes, Backed, Using
    <3> QED BY <1>1, <3>1, <3>2
  <2>2. \A t \in Memories : Counted(t)'
    BY <1>0, <1>1, CountKept DEF IInv
  <2> QED BY <1>0, <2>1, <2>2 DEF Kept, MemoryHasSource
<1>3. Exclusive' /\ (Together' => Together)
  <2>1. \A r \in Requests : req'[r].pc \in InSync => req[r].pc \in InSync
    BY <1>1
  <2> QED BY <1>1, <2>1 DEF Turns, Exclusive, Together
<1>4. ASSUME Together PROVE NoRepeatedQuestion' /\ \A r \in Requests : CalmOK(req[r])'
  <2>1. NoRepeatedQuestion'
    BY <1>0, <1>4 DEF Turns, Calm, NoRepeatedQuestion
  <2>2. /\ MaxSeq' = MaxSeq /\ \A t : Pending(t)' = Pending(t) /\ Stored(t)' = Stored(t)
    BY <1>0 DEF MaxSeq, Seqs, Pending, Latest, Stored
  <2>3. ASSUME NEW r \in Requests PROVE CalmOK(req[r])'
    <3>1. CalmOK(req[r])
      BY <1>4 DEF Turns, Calm
    <3>2. CASE req'[r] = req[r]
      BY <2>2, <3>1, <3>2 DEF CalmOK
    <3>3. CASE req'[r].pc = "crashed"
      BY <1>1, <3>1, <3>3 DEF CalmOK
    <3> QED BY <1>1, <3>2, <3>3
  <2> QED BY <2>1, <2>3
<1>5. {req'[r].process : r \in Requests} = {req[r].process : r \in Requests}
  BY <1>1
<1> QED BY <1>2, <1>3, <1>4, <1>5 DEF Turns, Calm

LEMMA NextKept ==
    ASSUME IInv, IInv', Kept, Turns, [Next]_vars
    PROVE  Kept' /\ Turns'
<1>1. ASSUME NEW r \in Requests, NEW p \in Processes, NEW q \in Queries, Submit(r, p, q)
      PROVE  Kept' /\ Turns'
  BY <1>1, SubmitKept
<1>2. ASSUME NEW r \in Requests, Step(r) PROVE Kept' /\ Turns'
  BY <1>2, ReadLatestKept, ReadMaxKept, InsertQuestionKept, ListRecentKept, WaitsKept,
     InsertMemoryKept, InsertAnswerKept DEF Step
<1>3. ASSUME NEW r \in Requests, Cancel(r) PROVE Kept' /\ Turns'
  BY <1>3, WaitsKept
<1>4. ASSUME NEW p \in Processes, Crash(p) PROVE Kept' /\ Turns'
  BY <1>4, CrashKept
<1>5. CASE ForgetMemory
  BY <1>5, ForgetMemoryKept
<1>6. CASE UNCHANGED vars
  <2>1. UNCHANGED <<messages, memories, forgotten, req>>
    BY <1>6 DEF vars
  <2>2. /\ MaxSeq' = MaxSeq /\ \A t : Pending(t)' = Pending(t) /\ Stored(t)' = Stored(t)
    BY <2>1 DEF MaxSeq, Seqs, Pending, Latest, Stored
  <2>3. \A t : Counted(t)' = Counted(t)
    BY <2>1 DEF Counted, Savers, Query
  <2>4. Kept'
    BY <2>1, <2>3 DEF Kept, MemoryHasSource
  <2>5. Together' = Together /\ Exclusive' /\ NoRepeatedQuestion' = NoRepeatedQuestion
    BY <2>1 DEF Together, Turns, Exclusive, NoRepeatedQuestion
  <2>6. \A r \in Requests : CalmOK(req[r]) => CalmOK(req[r])'
    BY <2>1, <2>2 DEF CalmOK
  <2>7. {req'[r].process : r \in Requests} = {req[r].process : r \in Requests}
    BY <2>1
  <2> QED BY <2>4, <2>5, <2>6, <2>7 DEF Turns, Calm
<1> QED BY <1>1, <1>2, <1>3, <1>4, <1>5, <1>6 DEF Next

LEMMA KeptHolds == Spec => [](Kept /\ Turns)
<1>1. IInv /\ IInv' /\ Kept /\ Turns /\ [Next]_vars => Kept' /\ Turns'
  BY NextKept
<1> QED BY <1>1, InitKept, Invariance, PTL DEF Spec

(***************************************************************************)
(* The question comes first: whatever a handler awaits, saves or answers,  *)
(* the question behind it is a committed row; a saved memory names it; and *)
(* a text is reported saved once per copy.                                 *)
(***************************************************************************)
THEOREM QuestionComesFirst == Spec => []StoredBeforeUse
<1>1. IInv /\ Kept => StoredBeforeUse
  <2> SUFFICES ASSUME IInv, Kept PROVE StoredBeforeUse
    OBVIOUS
  <2>1. QuestionFirst
    BY DEF Kept, Backed, QuestionFirst, Kind, Query, StoredQuestion, Using
  <2>2. ASSUME NEW t \in Memories
        PROVE  Cardinality({r \in Requests : req[r].memory = "saved" /\ MemoryOf[Query(r)] = t})
                   <= forgotten + 1
    <3>1. Counted(t) /\ forgotten \in Nat
      BY DEF Kept, IInv, TypeOK
    <3>2. Cardinality(Savers(t)) \in Nat
      BY <3>1, FS_CardinalityType DEF Counted
    <3>3. Cardinality(Savers(t)) <= forgotten + 1
      BY <3>1, <3>2 DEF Counted
    <3> QED BY <3>3 DEF Savers
  <2> QED BY <2>1, <2>2 DEF Kept, StoredBeforeUse, SavedOnce
<1> QED BY <1>1, Invariance, KeptHolds, PTL

(***************************************************************************)
(* As long as one process has served the conversation, no question is      *)
(* stored twice in a row, the history the agent is handed ends with its    *)
(* question, and no unique constraint is met.                              *)
(***************************************************************************)
THEOREM OneProcessIsCalm == Spec => []CalmInOneProcess
<1>1. Turns => CalmInOneProcess
  <2> SUFFICES ASSUME Turns, OneProcess PROVE NoRepeatedQuestion /\ HistoryEndsWithQuestion
                                              /\ NoWriteConflict
    BY DEF CalmInOneProcess
  <2> DEFINE used == {req[r].process : r \in Requests} \ {None}
  <2>1. IsFiniteSet(used) /\ Cardinality(used) \in Nat /\ Cardinality(used) <= 1
    <3>1. used \subseteq {req[r].process : r \in Requests}
      OBVIOUS
    <3>2. IsFiniteSet(used)
      BY <3>1, FS_Subset DEF Turns
    <3> QED BY <3>2, FS_CardinalityType DEF OneProcess
  <2>2. ASSUME NEW a \in used, NEW b \in used PROVE a = b
    <3> HIDE DEF used
    <3> SUFFICES ASSUME a # b PROVE FALSE
      OBVIOUS
    <3>1. IsFiniteSet({a}) /\ Cardinality({a}) = 1
      BY FS_Singleton
    <3>2. Cardinality({a} \union {b}) = 2 /\ IsFiniteSet({a} \union {b})
      BY <3>1, FS_AddElement
    <3>3. {a} \union {b} \subseteq used
      OBVIOUS
    <3>4. Cardinality({a} \union {b}) <= Cardinality(used)
      BY <2>1, <3>3, FS_Subset
    <3> QED BY <2>1, <3>2, <3>4
  <2>3. Together
    BY <2>2 DEF Together
  <2> QED BY <2>3 DEF Turns, Calm, CalmOK, HistoryEndsWithQuestion, NoWriteConflict
<1> QED BY <1>1, KeptHolds, PTL
=============================================================================
