--------------------------- MODULE FundAllocation ---------------------------
(***************************************************************************)
(* nn.fund.allocation: assigns an account's unassigned funds to a bucket.  *)
(* The amount is held on submit, assigned on approval, and goes back to    *)
(* the account on reject and cancel.                                       *)
(***************************************************************************)
EXTENDS ApprovalMixin

Allocation(r) == Kind[r] = "allocation"

(* _post_on_submit, _post_on_approve, _post_on_reject, _post_on_reverse *)
AllocationHold(r) ==
  Post(moves, "alloc_hold", {docs[r].source}, docs[r].amount)
AllocationAssign(r) ==
  Post(moves, "assign", {docs[r].source, docs[r].target}, docs[r].amount)
AllocationRelease_Forgotten(r) == moves   \* mutant: the hook posts nothing
AllocationRelease(r) ==
  Post(moves, "alloc_release", {docs[r].source}, docs[r].amount)
AllocationReverse_AccountOnly(r) ==       \* mutant: the line misses the bucket
  Post(moves, "assign_reverse", {docs[r].source}, docs[r].amount)
AllocationReverse(r) ==
  Post(moves, "assign_reverse", {docs[r].source, docs[r].target}, docs[r].amount)

(* _validate_submit(): no more than the account has unassigned. *)
AllocationValid(r) == docs[r].amount <= Unassigned(moves, docs[r].source)

AllocationSubmit(u, r) ==
  Allocation(r) /\ ActionSubmit(u, r, AllocationValid(r), AllocationHold(r))
AllocationApprove(u, r) == Allocation(r) /\ ActionApprove(u, r, AllocationAssign(r))
AllocationReject(u, r)  == Allocation(r) /\ ActionReject(u, r, AllocationRelease(r))
AllocationCancel(u, r)  == Allocation(r) /\ CancelPending(u, r, AllocationRelease(r))
AllocationCancelApproved(u, r) ==
  Allocation(r) /\ CancelApproved(u, r, TRUE, AllocationReverse(r))

=============================================================================
