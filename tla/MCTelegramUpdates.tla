-------------------------- MODULE MCTelegramUpdates --------------------------
(* Three webhook calls: a toggle and the confirmations of two pickers; a tap  *)
(* beyond the limit, a confirmation and a cancellation; a confirmation that   *)
(* is delivered twice while the last page is deselected; a full index whose   *)
(* confirmation is delivered twice, and its cancellation.                     *)
EXTENDS TelegramUpdates, TLC

CONSTANTS A, B, C

MCDeliveries == 1..3
Button(kind, page, picker) == [kind |-> kind, page |-> page, picker |-> picker]
Scenario(session, selected, update, button) ==
  [session |-> session, selected |-> selected, update |-> update, button |-> button]
Confirmation(picker) == Button("confirm", None, picker)
Index == Button("index", None, 1)
MCScenarios == {
  Scenario("sync", {A}, <<"u1", "u2", "u3">>,
           <<Button("toggle", B, 1), Confirmation(1), Confirmation(2)>>),
  Scenario("sync", {A, B}, <<"u1", "u2", "u3">>,
           <<Button("toggle", C, 1), Confirmation(1), Button("cancel", None, 1)>>),
  Scenario("sync", {A}, <<"u1", "u1", "u2">>,
           <<Confirmation(1), Confirmation(1), Button("toggle", A, 1)>>),
  Scenario("index", {}, <<"u1", "u1", "u2">>,
           <<Index, Index, Button("index_cancel", None, 1)>>)}
==============================================================================
