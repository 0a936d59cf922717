------------------------ MODULE MCQuestionAnswering ------------------------
(***************************************************************************)
(* A small instance of QuestionAnswering for TLC: page A has three         *)
(* editions, page B two, and a document is stored in the meantime.         *)
(***************************************************************************)
EXTENDS QuestionAnswering

CONSTANTS A, B, doc, w1, w2, w3, here, there, inDoc, root, leaf

MCSources == {A, B, doc}

MCChunks == 1..8

MCEditions == [s \in MCSources |->
  CASE s = A -> <<{1, 2}, {3, 4}, {5}>> [] s = B -> <<{6}, {}>> [] OTHER -> <<{}, {7, 8}>>]

Chunk(kind, page, near, words, quotes, place, sections, synthetic) ==
  [kind |-> kind, page |-> page, near |-> near, words |-> words, quotes |-> quotes,
   place |-> place, sections |-> sections, synthetic |-> synthetic]

(* Rows 1 and 2 have one place; 3 and 7 are equally near; 4 has no         *)
(* embedding; 5 is below the floor.                                        *)
MCRow == <<
  Chunk("notion", A, 80, {w1, w2}, {"q1"}, here, {root, leaf}, FALSE),
  Chunk("notion", A, 60, {w2, w3}, {}, here, {root, leaf}, FALSE),
  Chunk("notion", A, 70, {w1, w2, w3}, {"q1"}, here, {root}, FALSE),
  Chunk("notion", A, Nothing, {w1}, {}, there, {root}, FALSE),
  Chunk("notion", A, 20, {w2}, {}, there, {root}, FALSE),
  Chunk("notion", B, 90, {w1}, {}, there, {leaf}, TRUE),
  Chunk("pdf", Nothing, 70, {w1}, {}, inDoc, {}, FALSE),
  Chunk("pdf", Nothing, 29, {w3}, {}, inDoc, {}, FALSE)>>

Question(about, k, kinds, pages, sections, history, queued) ==
  [about |-> about, k |-> k, kinds |-> kinds, pages |-> pages, sections |-> sections,
   words |-> {w1, w2}, text |-> "q1", postgres |-> TRUE, history |-> history,
   queued |-> queued]

MCQuestions ==
  {Question("knowledge", k, kinds, {}, {}, FALSE, FALSE) :
     k \in 1..3, kinds \in {Nothing, {"notion"}, {"pdf"}, {}}}
  \cup {Question("knowledge", 2, {"notion"}, pages, sections, FALSE, TRUE) :
     pages \in {{}, {A}, {B}}, sections \in {{}, {root}, {leaf}}}
  \cup {Question("memory", 2, Nothing, {}, {}, FALSE, FALSE)}
  \cup {[Question("knowledge", k, Nothing, {}, {}, FALSE, FALSE) EXCEPT !.postgres = FALSE] :
     k \in {1, 3}}
  \cup {Question("conversation", 2, Nothing, {}, {}, history, FALSE) : history \in BOOLEAN}
=============================================================================
