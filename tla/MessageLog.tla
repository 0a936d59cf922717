----------------------------- MODULE MessageLog -----------------------------
(***************************************************************************)
(* What one conversation promises its owner: an append-only log.  A        *)
(* question is appended at the end; an answer is appended at the end and   *)
(* refers to a question that is already there.  Nothing is removed,        *)
(* changed or inserted between two existing messages.  Conversation shows  *)
(* that the rows of conversation_messages implement this log.              *)
(***************************************************************************)
EXTENDS Naturals, Sequences

CONSTANTS Requests, Queries, NoContent

VARIABLE log

Init == log = <<>>

AppendQuestion(r, q) ==
    log' = Append(log, [seq |-> Len(log) + 1, role |-> "user", content |-> q,
                        by |-> r, question |-> Len(log) + 1])

AppendAnswer(r, n) ==
    /\ log[n].role = "user"
    /\ log' = Append(log, [seq |-> Len(log) + 1, role |-> "assistant",
                           content |-> NoContent, by |-> r, question |-> n])

Next ==
    \E r \in Requests :
        \/ \E q \in Queries : AppendQuestion(r, q)
        \/ \E n \in DOMAIN log : AppendAnswer(r, n)

Spec == Init /\ [][Next]_log
=============================================================================
