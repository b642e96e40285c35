---------------------------- MODULE FundTransfer ----------------------------
(***************************************************************************)
(* nn.fund.transfer: moves funds between two buckets.  The source holds    *)
(* the amount on submit and loses it to the destination on approval.       *)
(***************************************************************************)
EXTENDS ApprovalMixin

Transfer(r) == Kind[r] = "transfer"

TransferHeld(r) ==
  Post(moves, "transfer_hold", {docs[r].source}, docs[r].amount)
TransferSettle_AtTarget(r) ==             \* mutant: settles at the wrong end
  Post(Post(moves, "transfer_settle", {docs[r].target}, docs[r].amount),
       "transfer_in", {docs[r].target}, docs[r].amount)
TransferSettle(r) ==
  Post(Post(moves, "transfer_settle", {docs[r].source}, docs[r].amount),
       "transfer_in", {docs[r].target}, docs[r].amount)
TransferRelease(r) ==
  Post(moves, "transfer_release", {docs[r].source}, docs[r].amount)
TransferReverse_OneSided(r) ==            \* mutant: does not restore the source
  Post(moves, "transfer_in_reverse", {docs[r].target}, docs[r].amount)
TransferReverse(r) ==
  Post(Post(moves, "transfer_in_reverse", {docs[r].target}, docs[r].amount),
       "transfer_settle_reverse", {docs[r].source}, docs[r].amount)

(* Mutant: compares with what was allocated to the source. *)
TransferValid_Allocated(r) == docs[r].amount <= Allocated(moves, docs[r].source)

(* _validate_submit(): no more than the source has available. *)
TransferValid(r) == docs[r].amount <= Available(moves, docs[r].source)

TransferSubmit(u, r)  == Transfer(r) /\ ActionSubmit(u, r, TransferValid(r), TransferHeld(r))
TransferApprove(u, r) == Transfer(r) /\ ActionApprove(u, r, TransferSettle(r))
TransferReject(u, r)  == Transfer(r) /\ ActionReject(u, r, TransferRelease(r))
TransferCancel(u, r)  == Transfer(r) /\ CancelPending(u, r, TransferRelease(r))
TransferCancelApproved(u, r) ==
  Transfer(r) /\ CancelApproved(u, r, TRUE, TransferReverse(r))

=============================================================================
