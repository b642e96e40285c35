---------------------------- MODULE FundDashboard ----------------------------
(***************************************************************************)
(* nn.fund.dashboard: figures computed from accounts, buckets and requests *)
(* whenever it is opened.  Its searches find what is not archived; here    *)
(* nothing is.                                                             *)
(***************************************************************************)
EXTENDS FundManagement

(* What the buckets' figures f come to together. *)
BucketTotal(f) == SumTo([p \in Places |-> IF p \in Buckets THEN f[p] ELSE 0], NPlaces)

(* _compute_kpis() *)
TotalReceived == SumTo([a \in Accounts |-> Received(moves, a)], NAccounts)
TotalAssigned == SumTo([a \in Accounts |-> Assigned(moves, a)], NAccounts)
TotalSpent    == BucketTotal([b \in Buckets |-> Spent(moves, b)])

PendingApprovals == Cardinality({r \in Requests : Pending(r)})

(* The dashboard, made of balances that different lines of the ledger add  *)
(* up to, agrees with the documents and with itself: the received money is *)
(* what was confirmed, the assigned money is what the buckets have in all  *)
(* their balances, the spent money is what the posted bills say, and the   *)
(* pending approvals are those on somebody's to-do list.                   *)
DashboardAgrees ==
  /\ TotalReceived = Confirmed
  /\ TotalAssigned = BucketTotal([b \in Buckets |-> Worth(b)])
  /\ TotalSpent = BucketTotal([b \in Buckets |-> PostedBills(b)])
  /\ PendingApprovals = Cardinality({r \in Requests : todo[r] # {}})

=============================================================================
