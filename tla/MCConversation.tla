--------------------------- MODULE MCConversation ---------------------------
(***************************************************************************)
(* Conversation on small instances.  The texts are chosen so that every    *)
(* intent occurs and a chat save collides with a direct save of the same   *)
(* memory; the requests may repeat any text, so retries are included.      *)
(***************************************************************************)
EXTENDS Conversation, TLC

CONSTANTS r1, r2, r3, p1, p2, ask, transform, save, badSave, direct, tea

MCRequests == {r1, r2, r3}
TwoProcesses == {p1, p2}

MCQueries == {ask, transform, save, badSave, direct}

MCKindOf ==
    ask :> "ask" @@ transform :> "transform" @@ save :> "save"
        @@ badSave :> "badSave" @@ direct :> "memory"

MCMemoryOf == [q \in MCQueries |-> tea]

Symmetry == Permutations(MCRequests) \union Permutations(TwoProcesses)
=============================================================================
