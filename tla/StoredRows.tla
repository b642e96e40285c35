----------------------------- MODULE StoredRows -----------------------------
(***************************************************************************)
(* The database rows that calls update: the records of requests, bills and *)
(* deposits, and of accounts and buckets with their stored balances.       *)
(* Lines of the ledger and of the approval history are only ever inserted, *)
(* and have no row that two transactions could both write.                 *)
(***************************************************************************)
EXTENDS FundManagement

Rows ==
  ({"request"} \X Requests) \cup ({"bill"} \X Bills) \cup ({"deposit"} \X Deposits)
  \cup ({"place"} \X Places)

(* The stored balances: received, unassigned, on_hold and assigned; or     *)
(* allocated, available, requisition_hold, transfer_hold, spent,           *)
(* transfer_in and transfer_out.                                           *)
StoredBalances(m, p) ==
  IF p \in Accounts
  THEN << Received(m, p), Unassigned(m, p), OnHold(m, p), Assigned(m, p) >>
  ELSE << Allocated(m, p), Available(m, p), RequisitionHold(m, p), TransferHold(m, p),
          Spent(m, p), TransferIn(m, p), TransferOut(m, p) >>

(* Mutant: the balances of accounts are computed on demand, not stored. *)
Row_NoAccountBalances(k) ==
  CASE k[1] = "request" -> << docs[k[2]], RemainingBillable(k[2]) >>
    [] k[1] = "bill"    -> bills[k[2]]
    [] k[1] = "deposit" -> deposits[k[2]]
    [] k[1] = "place"   -> IF k[2] \in Accounts THEN <<>> ELSE StoredBalances(moves, k[2])

(* Mutant: the remaining billable amount is computed on demand, not stored. *)
Row_NoRemainder(k) ==
  CASE k[1] = "request" -> docs[k[2]]
    [] k[1] = "bill"    -> bills[k[2]]
    [] k[1] = "deposit" -> deposits[k[2]]
    [] k[1] = "place"   -> StoredBalances(moves, k[2])

(* What row k holds; the remaining billable amount is a stored field of a  *)
(* requisition's row.                                                      *)
Row(k) ==
  CASE k[1] = "request" -> << docs[k[2]], RemainingBillable(k[2]) >>
    [] k[1] = "bill"    -> bills[k[2]]
    [] k[1] = "deposit" -> deposits[k[2]]
    [] k[1] = "place"   -> StoredBalances(moves, k[2])

(* The rows a step updates: a recomputed field that keeps its value is not *)
(* written.                                                                *)
Updated == {k \in Rows : Row(k)' # Row(k)}

(* Verifying or confirming a deposit. *)
HandleDeposit(u, i) ==
  /\ ActionVerify(u, i) \/ ActionConfirm(u, i)
  /\ UNCHANGED <<docs, history, todo, active, bills>>

=============================================================================
