------------------------ MODULE MCKnowledgeIngestion ------------------------
(* Three requests of any kind for one of two sources.  The first is a long *)
(* one with a blank page and a word longer than a chunk; the images of the *)
(* second have a name with a "]" and a line that reads like a header.      *)
EXTENDS SourceIndexing

CONSTANTS q1, q2, q3, h1, h2

MCRequests == {q1, q2, q3}
MCIdentities == {h1, h2}

Plain(len) == [len |-> len, mark |-> 0]

MCPagesOf ==
  (h1 :> <<<<>>, <<Plain(2), Plain(2), Plain(5)>>, <<Plain(1)>>>>)
    @@ (h2 :> <<<<Plain(1)>>, <<Plain(1), [len |-> 1, mark |-> 3]>>, <<>>>>)

MCNameOf == (h1 :> <<"plain", "plain", "plain">>) @@ (h2 :> <<"plain", "bracketed", "browser">>)

Symmetry == Permutations(Requests)
==============================================================================
