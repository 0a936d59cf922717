------------------------------ MODULE MCAgentRun ------------------------------
(* Instances of AgentRun for TLC: two chunks of different sources and one  *)
(* saved memory.                                                           *)
EXTENDS AgentRun

CONSTANTS c1, c2

MCChunks == {c1, c2}
MCSourceOf == [c \in MCChunks |-> IF c = c2 THEN "page_b" ELSE "page_a"]
(* The settings of config.py, and two smaller ones: a budget that a mixed  *)
(* task with two facets exceeds, and one turn, too few for the structured  *)
(* path.                                                                   *)
MCLimits == {[toolCalls |-> 3, iterations |-> 6], [toolCalls |-> 2, iterations |-> 2],
             [toolCalls |-> 2, iterations |-> 1]}
MCFacts == {"fact"}
MCKindOf == [c \in MCChunks |-> IF c = c2 THEN "pdf" ELSE "notion"]
MCScopes == {None, {}, {"pdf", "mail"}, {"mail"}}
(* The question, found again by a retry, is the third message.             *)
MCMessages == << [role |-> "user", sequence |-> 1], [role |-> "assistant", sequence |-> 2],
                 [role |-> "user", sequence |-> 3] >>
===============================================================================
