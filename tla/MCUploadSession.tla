--------------------------- MODULE MCUploadSession ---------------------------
(* An album of two photos and a user who taps a page of the picker and, in   *)
(* one scenario each, names another page, asks for a retry, or asks for the  *)
(* picker of an album whose second photo is captioned with its target.       *)
EXTENDS UploadSession, TLC

CONSTANTS p1, p2, tap, command, T1, T2

MCJobs == {p1, p2, tap, command}
Scenario(second, other) ==
  (p1 :> "photo") @@ (p2 :> second) @@ (tap :> "tap") @@ (command :> other)
MCScenarios ==
  {Scenario("photo", "page"), Scenario("photo", "retry"), Scenario("direct", "show")}
MCTargetOf == [j \in MCJobs |-> IF j = command THEN T2 ELSE T1]
==============================================================================
