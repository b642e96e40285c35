--------------------------- MODULE FundManagement ---------------------------
(***************************************************************************)
(* The whole system: deposits let money into accounts, allocations assign  *)
(* it to buckets, transfers move it between buckets, requisitions reserve  *)
(* it and bills spend it, all through one ledger.                          *)
(***************************************************************************)
EXTENDS FundAllocation, FundTransfer, FundBill, IncomingFund

CONSTANT InitialRules     \* the approval rules in force at the start

ASSUME InitialRulesAssumption == InitialRules \subseteq 1 .. NRules

vars == <<moves, docs, history, todo, active, bills, deposits>>

Init ==
  /\ moves = EmptyLedger
  /\ docs = [r \in Requests |-> NoDoc]
  /\ history = [r \in Requests |-> <<>>]
  /\ todo = [r \in Requests |-> {}]
  /\ active = InitialRules
  /\ bills = [b \in Bills |-> NoBill]
  /\ deposits = [i \in Deposits |-> NoDeposit]

(* What users do with requests; the bills and deposits stay as they are.   *)
Prepare(u, r) ==
  \/ \E amount \in Amounts, ends \in Endpoints(Kind[r]) :
       Create(u, r, amount, ends) \/ EditDraft(u, r, amount, ends)
  \/ CancelDraft(u, r)
  \/ ActionResetToDraft(u, r)

Submit(u, r) == AllocationSubmit(u, r) \/ TransferSubmit(u, r) \/ RequisitionSubmit(u, r)
Approve(u, r) == AllocationApprove(u, r) \/ TransferApprove(u, r) \/ RequisitionApprove(u, r)
Reject(u, r) == AllocationReject(u, r) \/ TransferReject(u, r) \/ RequisitionReject(u, r)
Cancel(u, r) ==
  \/ AllocationCancel(u, r) \/ TransferCancel(u, r) \/ RequisitionCancel(u, r)
CancelFinal(u, r) ==
  \/ AllocationCancelApproved(u, r)
  \/ TransferCancelApproved(u, r)
  \/ RequisitionCancelApproved(u, r)

RequestStep(u, r) ==
  /\ \/ Prepare(u, r)
     \/ Submit(u, r)
     \/ Approve(u, r)
     \/ Reject(u, r)
     \/ Cancel(u, r)
     \/ CancelFinal(u, r)
     \/ ActionClose(u, r)
  /\ UNCHANGED <<bills, deposits>>

BillStep(u, b) ==
  /\ \/ \E r \in Requests, amount \in Amounts :
          BillCreate(u, b, r, amount) \/ BillEdit(u, b, r, amount)
     \/ BillPost(u, b)
     \/ BillReverse(u, b)
     \/ BillCancel(u, b)
  /\ UNCHANGED <<history, todo, active, deposits>>

DepositStep(u, i) ==
  DepositAction(u, i) /\ UNCHANGED <<docs, history, todo, active, bills>>

RuleStep(u, k) == ToggleRule(u, k) /\ UNCHANGED <<bills, deposits>>

Next ==
  \E u \in Users :
    \/ \E r \in Requests : RequestStep(u, r)
    \/ \E b \in Bills : BillStep(u, b)
    \/ \E i \in Deposits : DepositStep(u, i)
    \/ \E k \in EditableRules : RuleStep(u, k)

Spec == Init /\ [][Next]_vars

(* An approver alerted to a request eventually decides it. *)
Fairness == \A r \in Requests :
  WF_vars(\E u \in Users : (Approve(u, r) \/ Reject(u, r)) /\ UNCHANGED <<bills, deposits>>)

FairSpec == Spec /\ Fairness

-----------------------------------------------------------------------------
(* What the properties speak of. *)

PendingAmount(kind, p, r) ==
  IF Kind[r] = kind /\ Pending(r) /\ docs[r].source = p THEN docs[r].amount ELSE 0

(* What the pending requests of a kind hold at place p. *)
PendingHold(kind, p) == SumTo([r \in Requests |-> PendingAmount(kind, p, r)], NRequests)

(* What a requisition keeps from its bucket until it is rejected, cancelled *)
(* or closed: its amount while pending, what bills may still spend after    *)
(* approval.                                                                *)
ReservedAmount(p, r) ==
  IF Kind[r] # "requisition" \/ ~Exists(r) THEN 0
  ELSE IF docs[r].source # p THEN 0
  ELSE IF Pending(r) THEN docs[r].amount
  ELSE RemainingBillable(r)

Reserved(p) == SumTo([r \in Requests |-> ReservedAmount(p, r)], NRequests)

ApprovedAmount(p, r) ==
  IF Kind[r] = "allocation" /\ docs[r].state = "approved"
  THEN IF docs[r].target = p THEN docs[r].amount ELSE 0
  ELSE 0

(* What the approved allocations assign to bucket p. *)
ApprovedAllocations(p) == SumTo([r \in Requests |-> ApprovedAmount(p, r)], NRequests)

PostedAt(p, b) ==
  IF bills[b].state = "posted" THEN IF Bucket(b) = p THEN bills[b].amount ELSE 0 ELSE 0

(* What the posted bills have spent at bucket p. *)
PostedBills(p) == SumTo([b \in Bills |-> PostedAt(p, b)], NBills)

ConfirmedAmount(i) ==
  IF deposits[i].state = "confirmed" THEN deposits[i].amount ELSE 0

Confirmed == SumTo([i \in Deposits |-> ConfirmedAmount(i)], NDeposits)

(* The money found at place p, in whatever balance. *)
Worth(p) ==
  IF p \in Accounts THEN Unassigned(moves, p) + OnHold(moves, p)
  ELSE Available(moves, p) + RequisitionHold(moves, p)
       + TransferHold(moves, p) + Spent(moves, p)

(* How many levels of its chain a request has passed. *)
Passed(r) ==
  CASE docs[r].state = "gm_approval" -> 1
    [] docs[r].state = "md_approval" -> 2
    [] docs[r].state \in {"approved", "closed"} -> Len(Levels(r))
    [] OTHER -> 0

(* The states a decision leads to, and closing after it. *)
DecidedStates == {"gm_approval", "md_approval", "approved", "closed", "rejected"}

(* A line of the history of a request of user by, made by one who may.     *)
ByMember(line, by) ==
  /\ HasGroup(line.by, line.level)
  /\ line.by # by \/ HasGroup(line.by, "admin")

-----------------------------------------------------------------------------
(* Properties. *)

(* Every variable has its type; a request has the endpoints of its kind.   *)
TypeOK ==
  /\ moves \in Ledgers
  /\ \A r \in Requests : docs[r] \in Documents(Kind[r]) \cup {NoDoc}
  /\ DOMAIN docs = Requests
  /\ history \in [Requests -> Seq(Lines)]
  /\ todo \in [Requests -> SUBSET Users]
  /\ active \subseteq 1 .. NRules
  /\ bills \in [Bills -> BillRecords \cup {NoBill}]
  /\ deposits \in [Deposits -> DepositRecords \cup {NoDeposit}]

(* An account holds at least what its pending allocations were promised on *)
(* submit, so that each of them can be approved or released: no sequence   *)
(* of approvals, rejections, cancellations and resubmissions takes a hold  *)
(* that belongs to another request.                                        *)
AllocationHoldsCovered ==
  \A a \in Accounts : OnHold(moves, a) >= PendingHold("allocation", a)

(* The same for what a bucket holds for its pending transfers. *)
TransferHoldsCovered ==
  \A b \in Buckets : TransferHold(moves, b) >= PendingHold("transfer", b)

(* A bucket's requisition hold covers every pending requisition and what   *)
(* is left to bill on every approved one, across bills posted, reversed    *)
(* and cancelled in any order.                                             *)
RequisitionHoldsCovered ==
  \A b \in Buckets : RequisitionHold(moves, b) >= Reserved(b)

(* An account's unassigned and on-hold balances are never negative, what   *)
(* FundAccount._check_non_negative() asks, although it never runs.         *)
AccountsSolvent == \A a \in Accounts : NonNegativeAccount(moves, a)

(* What a bucket has spent is exactly what the posted bills of its         *)
(* requisitions add up to: a requisition never changes bucket under a      *)
(* posted bill, and a bill is spent and reversed at the same bucket.       *)
SpentIsPostedBills == \A b \in Buckets : Spent(moves, b) = PostedBills(b)

(* The bills posted against a requisition never exceed its amount, and a   *)
(* requisition that has posted bills is approved or closed (BR-24, BR-27). *)
BilledWithinApproved ==
  /\ \A r \in Requests : Requisition(r) /\ Exists(r) => Billed(r) <= docs[r].amount
  /\ \A b \in Bills : bills[b].state = "posted" =>
       docs[bills[b].requisition].state \in {"approved", "closed"}

(* No action creates or loses money: what the accounts and buckets hold in *)
(* all their balances together is what the confirmed deposits brought in   *)
(* (BR-01).                                                                *)
MoneyConserved == SumTo([p \in Places |-> Worth(p)], NPlaces) = Confirmed

(* No bucket balance is ever negative (Project._check_non_negative()).     *)
BucketsSolvent == \A b \in Buckets : NonNegativeBucket(moves, b)

(* The ledger agrees with the documents: exactly the approved allocations  *)
(* are assigned, and exactly the pending requests hold funds (BR-11).      *)
LedgerMatchesDocuments ==
  /\ \A a \in Accounts : OnHold(moves, a) = PendingHold("allocation", a)
  /\ \A b \in Buckets : /\ Allocated(moves, b) = ApprovedAllocations(b)
                         /\ TransferHold(moves, b) = PendingHold("transfer", b)

(* A requisition hold is never more than the requisitions reserve: what a  *)
(* reversed bill returns can be billed again (BR-30).                      *)
ReservationsUsable == \A b \in Buckets : RequisitionHold(moves, b) <= Reserved(b)

(* The last decisions in a request's history are approvals at the levels   *)
(* its state says it passed, in the order of the chain, each by a member   *)
(* of the level's group and none by the requester, unless an administrator *)
(* (BR-14, BR-15).  For rules that nobody changes on the way and chains    *)
(* that do not repeat a level.                                             *)
DecisionsInOrder ==
  \A r \in Requests : Exists(r) =>
    LET n == Passed(r)
        first == Len(history[r]) - n
    IN  /\ first >= 0
        /\ \A i \in 1 .. n :
             LET line == history[r][first + i]
             IN  /\ line.level = Levels(r)[i] /\ line.result = "approved"
                 /\ ByMember(line, docs[r].by)

(* A request that reached a later stage, or was decided, or had its money  *)
(* moved, was brought there by a decision: its newest line is an approval  *)
(* or a rejection as its state says, one that had its final effect posted  *)
(* has an approval however often it was resubmitted since, and each was    *)
(* made by a member of the group asked, not by the requester, unless an    *)
(* administrator (BR-15, BR-17).  Whatever happens to the rules, also for   *)
(* chains that repeat a level.                                             *)
DecisionsRecorded ==
  \A r \in Requests : Exists(r) =>
    /\ docs[r].state \in DecidedStates =>
         /\ history[r] # <<>>
         /\ ByMember(history[r][Len(history[r])], docs[r].by)
         /\ history[r][Len(history[r])].result =
              (IF docs[r].state = "rejected" THEN "rejected" ELSE "approved")
    /\ docs[r].posted =>
         \E i \in DOMAIN history[r] :
           history[r][i].result = "approved" /\ ByMember(history[r][i], docs[r].by)

(* To-dos follow the workflow: there are none before a request is          *)
(* submitted and once it is decided or withdrawn; while it is pending only *)
(* members of the group that decides now have one, and so has everybody    *)
(* who may decide it now, unless the group is beyond the limit of alerts.  *)
(* For rules that nobody changes on the way.                               *)
AlertsCurrent ==
  \A r \in Requests :
    /\ ~Exists(r) \/ ~Pending(r) => todo[r] = {}
    /\ Exists(r) => \A i \in CurrentLevel(r) :
         LET code == Levels(r)[i]
         IN  /\ todo[r] \subseteq Members(code)
             /\ Cardinality(Members(code)) <= ActivityLimit =>
                  {u \in Users : MayDecide(u, r, code)} \subseteq todo[r]

(* A request that was submitted does not stay pending, if those who were   *)
(* alerted to it act.                                                      *)
RequestsDecided == \A r \in Requests : Pending(r) ~> ~Pending(r)

=============================================================================
