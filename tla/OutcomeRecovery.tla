--------------------------- MODULE OutcomeRecovery ---------------------------
(***************************************************************************)
(* How an operator repairs an update whose proposal was stored but whose   *)
(* preview or acknowledgement did not reach the chat: the script           *)
(* reconcile_telegram_outcome with TelegramRecoveryService.                *)
(*                                                                         *)
(* The update left two rows in "failed": its workflow run and its ledger.  *)
(* The script looks at them and at the change request, sends the preview   *)
(* again (or trusts the operator that it arrived), looks again, and writes *)
(* both rows in one transaction.  Nothing is locked: reviews and a second  *)
(* operator go on between the steps.                                       *)
(***************************************************************************)
EXTENDS PagePicker

ASSUME OutcomeRecoveryAssumption ==
  None \notin [workflow : {"failed", "succeeded"}, ledger : {"failed", "succeeded"}]
               \cup {"first", "second"}

VARIABLES
  outcome,  \* outcome[c]: [workflow, ledger] of the update that stored c
  recovery  \* recovery[k]: where the script is; three fields only record history:
            \* "late", the look ("first" or "second") that came after a decision or
            \* another repair, "shown", a preview arrived, and "wrote"

recoveryVars == <<outcome, recovery>>

Actions == {"resend-preview", "reconcile-success"}

NewRecovery == [pc |-> "new", late |-> None, shown |-> FALSE, wrote |-> FALSE]

UpdateFailed == [workflow |-> "failed", ledger |-> "failed"]

(* Only the updates an operator is going to repair are of interest here.   *)
RecoveryInit ==
  /\ PickerInit
  /\ outcome = [c \in Requests |-> IF \E k \in Calls : Op(k) \in Actions /\ Request(k) = c
                                   THEN UpdateFailed ELSE None]
  /\ recovery = [k \in Calls |-> NewRecovery]

RecoveryGoes(k, pc) == recovery' = [recovery EXCEPT ![k].pc = pc]

OthersStay == UNCHANGED <<vars, pickerVars>>

------------------------------------------------------------------------------
(* TelegramRecoveryService.inspect                                         *)

Eligible_AnyReview(k) ==  \* mutant: the review is not looked at
  outcome[Request(k)] = UpdateFailed

Eligible(k) ==
  /\ outcome[Request(k)] = UpdateFailed
  /\ Row(k).status = "pending"
  /\ Row(k).target # None /\ index[Row(k).target] # None

Late(k, look) ==
  IF Row(k).status = "pending" /\ outcome[Request(k)] = UpdateFailed
  THEN recovery[k].late ELSE look

Inspect(k) ==
  /\ recovery[k].pc = "new" /\ Op(k) \in Actions
  /\ recovery' = [recovery EXCEPT
       ![k].pc = IF ~Eligible(k) THEN "done"
                 ELSE IF Op(k) = "resend-preview" THEN "preview" ELSE "inspect",
       ![k].late = Late(k, "first")]
  /\ UNCHANGED outcome /\ OthersStay

------------------------------------------------------------------------------
(* build_preview and send_preview                                          *)

BuildPreview(k) ==
  /\ recovery[k].pc = "preview"
  /\ RecoveryGoes(k, IF Row(k).status = "pending" /\ Parses(Request(k)) THEN "send" ELSE "done")
  /\ UNCHANGED outcome /\ OthersStay

(* What raises, or answers without a message id, may have been delivered.  *)
SendPreview(k) ==
  /\ recovery[k].pc = "send"
  /\ \E shown \in BOOLEAN, pc \in {"inspect", "done"} :
       /\ pc = "inspect" => shown
       /\ recovery' = [recovery EXCEPT ![k].pc = pc, ![k].shown = shown]
  /\ UNCHANGED outcome /\ OthersStay

------------------------------------------------------------------------------
(* reconcile_success                                                       *)

InspectAgain(k) ==
  /\ recovery[k].pc = "inspect"
  /\ recovery' = [recovery EXCEPT ![k].pc = IF Eligible(k) THEN "check" ELSE "done",
                                  ![k].late = Late(k, "second")]
  /\ UNCHANGED outcome /\ OthersStay

(* In the transaction that writes, only the ledger is asked for.           *)
CheckLedger(k) ==
  /\ recovery[k].pc = "check"
  /\ RecoveryGoes(k, IF outcome[Request(k)].ledger = "failed" THEN "write" ELSE "done")
  /\ UNCHANGED outcome /\ OthersStay

Written_LedgerOnly(c) ==  \* mutant: the workflow run is left to its own session
  [outcome EXCEPT ![c].ledger = "succeeded"]

(* Both rows and one commit.                                               *)
Written(c) == [outcome EXCEPT ![c] = [workflow |-> "succeeded", ledger |-> "succeeded"]]

Reconcile(k) ==
  /\ recovery[k].pc = "write"
  /\ outcome' = Written(Request(k))
  /\ recovery' = [recovery EXCEPT ![k].pc = "done", ![k].wrote = TRUE]
  /\ OthersStay

(* A read or the commit fails, or the script is stopped.                   *)
GivesUp(k) ==
  /\ recovery[k].pc \notin {"new", "done"}
  /\ RecoveryGoes(k, "done")
  /\ UNCHANGED outcome /\ OthersStay

RecoveryNext ==
  \E k \in Calls :
    \/ Inspect(k) \/ BuildPreview(k) \/ SendPreview(k)
    \/ InspectAgain(k) \/ CheckLedger(k) \/ Reconcile(k) \/ GivesUp(k)

NextWithRecovery == RecoveryNext \/ (NextWithPicker /\ UNCHANGED recoveryVars)

SpecWithRecovery == RecoveryInit /\ [][NextWithRecovery]_<<vars, pickerVars, recoveryVars>>

------------------------------------------------------------------------------
(* Properties.                                                             *)

(* A repair records what happened: both rows of the update end together;   *)
(* it writes only if both of its looks found the request undecided and the *)
(* update unrepaired; a second operator who comes later shows nothing; and *)
(* a preview that was to be sent again is recorded only if it arrived.     *)
RepairsTell ==
  /\ \A c \in Requests : outcome[c] # None => outcome[c].workflow = outcome[c].ledger
  /\ \A k \in Calls :
       /\ recovery[k].wrote => recovery[k].late = None
       /\ recovery[k].late = "first" => ~recovery[k].shown
       /\ recovery[k].wrote /\ Op(k) = "resend-preview" => recovery[k].shown

(* What is on record of a proposal, a review or a repair is what was done. *)
RecordsTell == AuditsTell /\ RepairsTell
==============================================================================
