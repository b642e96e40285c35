------------------------------ MODULE FundBill ------------------------------
(***************************************************************************)
(* nn.fund.bill: spends against an approved requisition.                   *)
(***************************************************************************)
EXTENDS FundRequisition

BillRecords ==
  [state : {"draft", "posted", "cancelled"}, requisition : Requests, amount : Amounts]

(* The bucket of a bill is its requisition's (related fields). *)
Bucket(b) == docs[bills[b].requisition].source

(* create(): the form offers approved requisitions only; the server        *)
(* accepts any the user can see, and leaves the check to action_post().    *)
BillCreate(u, b, r, amount) ==
  /\ bills[b] = NoBill
  /\ Requisition(r) /\ Exists(r)
  /\ CanCreate(u) /\ CanRead(u, docs[r].by)
  /\ bills' = [bills EXCEPT ![b] = [state |-> "draft", requisition |-> r, amount |-> amount]]
  /\ UNCHANGED <<moves, docs>>

(* The form view leaves requisition and amount editable in state draft; a  *)
(* bill has no record rule of its own, so any fund user may write it.      *)
BillEdit(u, b, r, amount) ==
  /\ bills[b].state = "draft"
  /\ Requisition(r) /\ Exists(r)
  /\ CanCreate(u)
  /\ r = bills[b].requisition \/ CanRead(u, docs[r].by)
  /\ bills' = [bills EXCEPT ![b].requisition = r, ![b].amount = amount]
  /\ UNCHANGED <<moves, docs>>

(* action_post() and action_reverse() also read the requisition.           *)
MayHandle(u, b) == CanCreate(u) /\ CanRead(u, docs[bills[b].requisition].by)

BillSpent(b) == Post(moves, "spend", {Bucket(b)}, bills[b].amount)

(* action_post() *)
BillPost(u, b) ==
  /\ bills[b].state = "draft"
  /\ MayHandle(u, b)
  /\ docs[bills[b].requisition].state = "approved"
  /\ bills[b].amount <= RemainingBillable(bills[b].requisition)
  /\ WithinBound(BillSpent(b))
  /\ moves' = BillSpent(b)
  /\ bills' = [bills EXCEPT ![b].state = "posted"]
  /\ UNCHANGED docs

BillReturned(b) == Post(moves, "reverse", {Bucket(b)}, bills[b].amount)

(* Mutant: reverses a bill again, or one that was cancelled as a draft. *)
BillReverse_Twice(u, b) ==
  /\ bills[b] # NoBill /\ bills[b].state # "draft"
  /\ MayHandle(u, b)
  /\ moves' = BillReturned(b)
  /\ bills' = [bills EXCEPT ![b].state = "cancelled"]
  /\ UNCHANGED docs

(* action_reverse(): whatever state the requisition is in by now. *)
BillReverse(u, b) ==
  /\ bills[b].state = "posted"
  /\ MayHandle(u, b)
  /\ moves' = BillReturned(b)
  /\ bills' = [bills EXCEPT ![b].state = "cancelled"]
  /\ UNCHANGED docs

(* action_cancel() *)
BillCancel(u, b) ==
  /\ bills[b].state = "draft"
  /\ CanCreate(u)
  /\ bills' = [bills EXCEPT ![b].state = "cancelled"]
  /\ UNCHANGED <<moves, docs>>

=============================================================================
