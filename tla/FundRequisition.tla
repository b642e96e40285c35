--------------------------- MODULE FundRequisition ---------------------------
(***************************************************************************)
(* nn.fund.requisition: reserves a bucket's funds.  The amount is held on  *)
(* submit and stays held after approval, when bills may spend it; closing  *)
(* the requisition releases what no bill used.                             *)
(***************************************************************************)
EXTENDS ApprovalMixin, Sums

CONSTANT NBills

Bills == 1 .. NBills

ASSUME BillAssumption == NBills \in Nat

VARIABLE bills       \* bills[b]: a bill of a requisition (nn.fund.bill), or NoBill

NoBill == [state |-> "none"]

Requisition(r) == Kind[r] = "requisition"

(* What bill b has spent of requisition r. *)
PostedAmount(b, r) ==
  IF bills[b].state = "posted" THEN IF bills[b].requisition = r THEN bills[b].amount ELSE 0
                               ELSE 0
Billed(r) == SumTo([b \in Bills |-> PostedAmount(b, r)], NBills)

(* _compute_remaining_billable(), stored and recomputed on every change of *)
(* what it depends on.                                                     *)
RemainingBillable(r) ==
  IF docs[r].state = "approved" THEN docs[r].amount - Billed(r) ELSE 0

RequisitionHeld(r) ==
  Post(moves, "req_hold", {docs[r].source}, docs[r].amount)
RequisitionRelease(r) ==
  Post(moves, "req_release", {docs[r].source}, docs[r].amount)

(* _validate_submit(): no more than the bucket has available. *)
RequisitionValid(r) == docs[r].amount <= Available(moves, docs[r].source)

(* Mutant: cancels whatever was billed. *)
Reversible_Always(r) == TRUE

(* _post_on_reverse(): the bills have to be reversed first. *)
Reversible(r) == ~(Billed(r) > 0)

RequisitionSubmit(u, r) ==
  Requisition(r) /\ ActionSubmit(u, r, RequisitionValid(r), RequisitionHeld(r))
RequisitionApprove(u, r) == Requisition(r) /\ ActionApprove(u, r, moves)
RequisitionReject(u, r)  == Requisition(r) /\ ActionReject(u, r, RequisitionRelease(r))
RequisitionCancel(u, r)  == Requisition(r) /\ CancelPending(u, r, RequisitionRelease(r))
RequisitionCancelApproved(u, r) ==
  Requisition(r) /\ CancelApproved(u, r, Reversible(r), RequisitionRelease(r))

(* Mutant: releases the whole amount, billed or not. *)
Unused_WholeAmount(r) == RequisitionRelease(r)

(* action_close(): the ledger after releasing what is left to bill. *)
Unused(r) ==
  IF RemainingBillable(r) > 0
  THEN Post(moves, "req_release", {docs[r].source}, RemainingBillable(r))
  ELSE moves

ActionClose(u, r) ==
  /\ Requisition(r)
  /\ Exists(r)
  /\ docs[r].state = "approved"
  /\ CanWrite(u, docs[r].by)
  /\ moves' = Unused(r)
  /\ docs' = [docs EXCEPT ![r].state = "closed"]
  /\ UNCHANGED <<history, todo, active>>

=============================================================================
