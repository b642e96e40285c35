---------------------------- MODULE DashboardProofs ----------------------------
(***************************************************************************)
(* The dashboard's figures are sums over different lines of the ledger.    *)
(* That they agree follows from the conservation of money, from what the   *)
(* buckets spent being what the posted bills say, from deposits alone      *)
(* posting incoming money, and from to-dos following the states.           *)
(***************************************************************************)
EXTENDS FundDashboard, FundTreasuryProofs, ApprovalProofs, FiniteSetTheorems

-----------------------------------------------------------------------------
(* Only deposits bring money in. *)

ReceivedUntouched(m, n) == \A a \in Accounts : Received(n, a) = Received(m, a)

LEMMA NoIncomingLines ==
  ASSUME NEW m \in Ledgers, NEW type \in MoveTypes \ {"incoming"}, NEW places,
         NEW amount \in Nat
  PROVE  /\ ReceivedUntouched(m, Post(m, type, places, amount))
         /\ Post(m, type, places, amount) \in Ledgers
<1>1. /\ Post(m, type, places, amount) \in Ledgers
      /\ \A p \in Places : Post(m, type, places, amount)[p]["incoming"] = m[p]["incoming"]
  BY PostAdds DEF MoveTypes
<1>2. QED
  BY <1>1, PlacesAre DEF ReceivedUntouched, Received

LEMMA HooksReceiveNothing ==
  ASSUME TypeOK, NEW r \in Requests, Exists(r)
  PROVE  /\ ReceivedUntouched(moves, AllocationHold(r))
         /\ ReceivedUntouched(moves, AllocationAssign(r))
         /\ ReceivedUntouched(moves, AllocationRelease(r))
         /\ ReceivedUntouched(moves, AllocationReverse(r))
         /\ ReceivedUntouched(moves, TransferHeld(r))
         /\ ReceivedUntouched(moves, TransferSettle(r))
         /\ ReceivedUntouched(moves, TransferRelease(r))
         /\ ReceivedUntouched(moves, TransferReverse(r))
         /\ ReceivedUntouched(moves, RequisitionHeld(r))
         /\ ReceivedUntouched(moves, RequisitionRelease(r))
         /\ ReceivedUntouched(moves, Unused(r))
<1>1. moves \in Ledgers /\ docs[r].amount \in Nat
  BY Present, RequestAssumption DEF TypeOK, Documents
<1>2. /\ ReceivedUntouched(moves, AllocationHold(r))
      /\ ReceivedUntouched(moves, AllocationAssign(r))
      /\ ReceivedUntouched(moves, AllocationRelease(r))
      /\ ReceivedUntouched(moves, AllocationReverse(r))
  BY <1>1, NoIncomingLines
     DEF AllocationHold, AllocationAssign, AllocationRelease, AllocationReverse, MoveTypes
<1>3. /\ ReceivedUntouched(moves, TransferHeld(r))
      /\ ReceivedUntouched(moves, TransferRelease(r))
      /\ ReceivedUntouched(moves, RequisitionHeld(r))
      /\ ReceivedUntouched(moves, RequisitionRelease(r))
  BY <1>1, NoIncomingLines
     DEF TransferHeld, TransferRelease, RequisitionHeld, RequisitionRelease, MoveTypes
<1>4. ReceivedUntouched(moves, TransferSettle(r))
  <2>1. PICK n \in Ledgers : /\ ReceivedUntouched(moves, n)
                             /\ TransferSettle(r) = Post(n, "transfer_in", {docs[r].target},
                                                         docs[r].amount)
    BY <1>1, NoIncomingLines DEF TransferSettle, MoveTypes
  <2>2. ReceivedUntouched(n, TransferSettle(r))
    BY <1>1, <2>1, NoIncomingLines DEF MoveTypes
  <2>3. QED
    BY <2>1, <2>2 DEF ReceivedUntouched
<1>5. ReceivedUntouched(moves, TransferReverse(r))
  <2>1. PICK n \in Ledgers : /\ ReceivedUntouched(moves, n)
                             /\ TransferReverse(r) = Post(n, "transfer_settle_reverse",
                                                          {docs[r].source}, docs[r].amount)
    BY <1>1, NoIncomingLines DEF TransferReverse, MoveTypes
  <2>2. ReceivedUntouched(n, TransferReverse(r))
    BY <1>1, <2>1, NoIncomingLines DEF MoveTypes
  <2>3. QED
    BY <2>1, <2>2 DEF ReceivedUntouched
<1>6. ReceivedUntouched(moves, Unused(r))
  <2>1. CASE RemainingBillable(r) > 0
    <3>1. RemainingBillable(r) \in Nat
      BY <2>1, BilledType
    <3>2. QED
      BY <1>1, <2>1, <3>1, NoIncomingLines DEF Unused, MoveTypes
  <2>2. CASE ~(RemainingBillable(r) > 0)
    BY <2>2 DEF Unused, ReceivedUntouched
  <2>3. QED
    BY <2>1, <2>2
<1>7. QED
  BY <1>2, <1>3, <1>4, <1>5, <1>6

LEMMA RequestsReceiveNothing ==
  ASSUME TypeOK, NEW u \in Users, NEW r \in Requests, RequestStep(u, r)
  PROVE  ReceivedUntouched(moves, moves')
<1>1. ReceivedUntouched(moves, moves)
  BY DEF ReceivedUntouched
<1>2. CASE Prepare(u, r)
  BY <1>1, <1>2 DEF Prepare, Create, EditDraft, CancelDraft, ActionResetToDraft
<1>3. CASE Submit(u, r)
  BY <1>3, HooksReceiveNothing
     DEF Submit, AllocationSubmit, TransferSubmit, RequisitionSubmit, ActionSubmit
<1>4. CASE Approve(u, r)
  BY <1>1, <1>4, HooksReceiveNothing
     DEF Approve, AllocationApprove, TransferApprove, RequisitionApprove, ActionApprove
<1>5. CASE Reject(u, r)
  BY <1>5, HooksReceiveNothing
     DEF Reject, AllocationReject, TransferReject, RequisitionReject, ActionReject
<1>6. CASE Cancel(u, r)
  BY <1>6, HooksReceiveNothing
     DEF Cancel, AllocationCancel, TransferCancel, RequisitionCancel, CancelPending
<1>7. CASE CancelFinal(u, r)
  BY <1>7, HooksReceiveNothing
     DEF CancelFinal, AllocationCancelApproved, TransferCancelApproved,
         RequisitionCancelApproved, CancelApproved
<1>8. CASE ActionClose(u, r)
  BY <1>8, HooksReceiveNothing DEF ActionClose
<1>9. QED
  BY <1>2, <1>3, <1>4, <1>5, <1>6, <1>7, <1>8 DEF RequestStep

LEMMA BillsReceiveNothing ==
  ASSUME TypeOK, NEW u \in Users, NEW b \in Bills, BillStep(u, b)
  PROVE  ReceivedUntouched(moves, moves')
<1>1. moves \in Ledgers
  BY DEF TypeOK
<1>2. bills[b].state \in {"draft", "posted"} => bills[b].amount \in Nat
  BY BillType DEF TypeOK
<1>3. CASE BillPost(u, b)
  BY <1>1, <1>2, <1>3, NoIncomingLines DEF BillPost, BillSpent, MoveTypes
<1>4. CASE BillReverse(u, b)
  BY <1>1, <1>2, <1>4, NoIncomingLines DEF BillReverse, BillReturned, MoveTypes
<1>5. QED
  BY <1>3, <1>4 DEF BillStep, BillCreate, BillEdit, BillCancel, ReceivedUntouched

ReceivedInv == TotalReceived = Confirmed

(* A step that receives nothing and confirms nothing.                      *)
LEMMA ReceivedElsewhere ==
  ASSUME ReceivedInv, ReceivedUntouched(moves, moves'), deposits' = deposits
  PROVE  ReceivedInv'
<1>1. Confirmed' = Confirmed
  BY DEF Confirmed, ConfirmedAmount
<1>2. [a \in Accounts |-> Received(moves', a)] = [a \in Accounts |-> Received(moves, a)]
  BY DEF ReceivedUntouched
<1>3. QED
  BY <1>1, <1>2 DEF ReceivedInv, TotalReceived

LEMMA ReceivedStep ==
  ASSUME TypeOK, TypeOK', ReceivedInv, [Next]_vars
  PROVE  ReceivedInv'
<1>1. ASSUME NEW u \in Users, NEW r \in Requests, RequestStep(u, r)
      PROVE  ReceivedInv'
  BY <1>1, RequestsReceiveNothing, ReceivedElsewhere DEF RequestStep
<1>2. ASSUME NEW u \in Users, NEW b \in Bills, BillStep(u, b)
      PROVE  ReceivedInv'
  BY <1>2, BillsReceiveNothing, ReceivedElsewhere DEF BillStep
<1>3. ASSUME moves' = moves, Confirmed' = Confirmed
      PROVE  ReceivedInv'
  BY <1>3 DEF ReceivedInv, TotalReceived
<1>4. ASSUME NEW a \in Accounts, NEW x \in DepositAmounts,
             moves' = Post(moves, "incoming", {a}, x), Confirmed' = Confirmed + x
      PROVE  ReceivedInv'
  <2> DEFINE f == [b \in Accounts |-> Received(moves, b)]
             g == [b \in Accounts |-> Received(moves', b)]
  <2>1. x \in Nat /\ moves \in Ledgers /\ moves' \in Ledgers /\ NAccounts \in Nat
    BY DepositAssumption, LedgerAssumption DEF TypeOK
  <2>2. \A b \in Accounts :
          /\ Received(moves, b) \in Int
          /\ Received(moves', b) = IF b = a THEN Received(moves, b) + x ELSE Received(moves, b)
    <3>1. "incoming" \in MoveTypes
      BY DEF MoveTypes
    <3>2. \A p \in Places :
            moves'[p]["incoming"] = IF p \in {a} THEN moves[p]["incoming"] + x
                                                ELSE moves[p]["incoming"]
      BY <1>4, <2>1, <3>1, PostAdds
    <3>3. QED
      BY <2>1, <3>1, <3>2, TotalsAreNat, PlacesAre DEF Received
  <2>3. f \in [1 .. NAccounts -> Int] /\ g \in [1 .. NAccounts -> Int] /\ a \in 1 .. NAccounts
    BY <2>1, <2>2 DEF Accounts
  <2>4. f[a] \in Int /\ g[a] = f[a] + x /\ \A i \in 1 .. NAccounts : i # a => g[i] = f[i]
    BY <2>2 DEF Accounts
  <2>5. TotalReceived = SumTo(f, NAccounts) /\ TotalReceived' = SumTo(g, NAccounts)
    BY DEF TotalReceived
  <2> HIDE DEF f, g
  <2>6. SumTo(g, NAccounts) = SumTo(f, NAccounts) - f[a] + g[a]
    BY <2>1, <2>3, <2>4, SumChange
  <2>7. SumTo(f, NAccounts) \in Int
    BY <2>1, <2>3, SumToRec
  <2>8. QED
    BY <1>4, <2>1, <2>4, <2>5, <2>6, <2>7 DEF ReceivedInv
<1>5. ASSUME NEW u \in Users, NEW i \in Deposits, DepositStep(u, i)
      PROVE  ReceivedInv'
  BY <1>3, <1>4, <1>5, DepositEffect
<1>6. CASE moves' = moves /\ deposits' = deposits
  BY <1>6, ReceivedElsewhere DEF ReceivedUntouched
<1>7. QED
  BY <1>1, <1>2, <1>5, <1>6 DEF Next, vars, RuleStep, ToggleRule

LEMMA ReceivedInit ==
  ASSUME Init
  PROVE  ReceivedInv
<1>1. Confirmed = 0
  <2>1. \A i \in 1 .. NDeposits : [j \in Deposits |-> ConfirmedAmount(j)][i] = 0
    BY DEF Init, ConfirmedAmount, NoDeposit, Deposits
  <2>2. [j \in Deposits |-> ConfirmedAmount(j)] \in [1 .. NDeposits -> Int]
    BY <2>1 DEF Deposits
  <2>3. QED
    BY <2>1, <2>2, SumZero, DepositAssumption DEF Confirmed
<1>2. TotalReceived = 0
  <2> DEFINE f == [a \in Accounts |-> Received(moves, a)]
  <2>1. \A a \in 1 .. NAccounts : f[a] = 0
    BY PlacesAre DEF Init, EmptyLedger, Received, MoveTypes, Accounts
  <2>2. f \in [1 .. NAccounts -> Int]
    BY <2>1 DEF Accounts
  <2>3. QED
    BY <2>1, <2>2, SumZero, LedgerAssumption DEF TotalReceived
<1>3. QED
  BY <1>1, <1>2 DEF ReceivedInv

-----------------------------------------------------------------------------
(* What is not unassigned or held at an account is in the buckets. *)

LEMMA AssignedIsWorth ==
  ASSUME TypeOK, ReceivedInv, MoneyConserved
  PROVE  TotalAssigned = BucketTotal([b \in Buckets |-> Worth(b)])
<1> DEFINE worth == [p \in Places |-> Worth(p)]
           inBuckets == [p \in Places |->
                           IF p \in Buckets THEN [b \in Buckets |-> Worth(b)][p] ELSE 0]
           received == [a \in Accounts |-> Received(moves, a)]
           assigned == [a \in Accounts |-> Assigned(moves, a)]
           receivedAll == [p \in Places |-> IF p \in Accounts THEN Received(moves, p) ELSE 0]
           assignedAll == [p \in Places |-> IF p \in Accounts THEN Assigned(moves, p) ELSE 0]
           both == [p \in Places |-> worth[p] + assignedAll[p]]
<1>1. /\ NPlaces \in Nat /\ NAccounts \in 0 .. NPlaces /\ Places = 1 .. NPlaces
      /\ Accounts = 1 .. NAccounts /\ Buckets = (NAccounts + 1) .. NPlaces
      /\ moves \in Ledgers
  BY LedgerAssumption DEF TypeOK, NPlaces, Places, Accounts, Buckets
<1>2. \A p \in Places, t \in MoveTypes : moves[p][t] \in Nat
  BY <1>1, TotalsAreNat
<1>3. \A p \in Places : /\ Worth(p) \in Int
                        /\ Received(moves, p) \in Int /\ Assigned(moves, p) \in Int
  BY <1>2 DEF Worth, Unassigned, OnHold, Available, RequisitionHold, TransferHold, Spent,
              Allocated, TransferIn, TransferOut, Received, Assigned, MoveTypes
<1>4. \A p \in Accounts : Worth(p) = Received(moves, p) - Assigned(moves, p)
  BY <1>2, PlacesAre DEF Worth, Unassigned, OnHold, Received, Assigned, MoveTypes
<1>5. \A p \in Places : p \in Buckets <=> p \notin Accounts
  BY PlacesAre
<1>6. /\ worth \in [1 .. NPlaces -> Int] /\ inBuckets \in [1 .. NPlaces -> Int]
      /\ receivedAll \in [1 .. NPlaces -> Int] /\ assignedAll \in [1 .. NPlaces -> Int]
      /\ both \in [1 .. NPlaces -> Int]
  BY <1>1, <1>3
<1>7. received \in [1 .. NAccounts -> Int] /\ assigned \in [1 .. NAccounts -> Int]
  BY <1>1, <1>3, PlacesAre
<1>8. \A p \in 1 .. NPlaces : both[p] = worth[p] + assignedAll[p]
  BY <1>1
<1>9. \A p \in 1 .. NPlaces : both[p] = inBuckets[p] + receivedAll[p]
  BY <1>1, <1>3, <1>4, <1>5
<1>10. /\ \A p \in 1 .. NAccounts : /\ received[p] = receivedAll[p]
                                    /\ assigned[p] = assignedAll[p]
       /\ \A p \in (NAccounts + 1) .. NPlaces : receivedAll[p] = 0 /\ assignedAll[p] = 0
  BY <1>1, <1>5, PlacesAre
<1>11. /\ SumTo(worth, NPlaces) = TotalReceived
       /\ TotalReceived = SumTo(received, NAccounts)
       /\ TotalAssigned = SumTo(assigned, NAccounts)
       /\ BucketTotal([b \in Buckets |-> Worth(b)]) = SumTo(inBuckets, NPlaces)
  BY DEF ReceivedInv, MoneyConserved, TotalReceived, TotalAssigned, BucketTotal
<1> HIDE DEF worth, inBuckets, received, assigned, receivedAll, assignedAll, both
<1>12. SumTo(both, NPlaces) = SumTo(worth, NPlaces) + SumTo(assignedAll, NPlaces)
  BY <1>1, <1>6, <1>8, SumAdd
<1>13. SumTo(both, NPlaces) = SumTo(inBuckets, NPlaces) + SumTo(receivedAll, NPlaces)
  BY <1>1, <1>6, <1>9, SumAdd
<1>14. SumTo(receivedAll, NPlaces) = SumTo(received, NAccounts)
  BY <1>1, <1>6, <1>7, <1>10, SumExtend
<1>15. SumTo(assignedAll, NPlaces) = SumTo(assigned, NAccounts)
  BY <1>1, <1>6, <1>7, <1>10, SumExtend
<1>16. /\ SumTo(worth, NPlaces) \in Int /\ SumTo(inBuckets, NPlaces) \in Int
       /\ SumTo(assignedAll, NPlaces) \in Int
  <2>1. NPlaces \in 0 .. NPlaces
    BY <1>1
  <2>2. SumTo(worth, NPlaces) \in Int
    BY <1>1, <1>6, <2>1, SumToRec
  <2>3. SumTo(inBuckets, NPlaces) \in Int
    BY <1>1, <1>6, <2>1, SumToRec
  <2>4. SumTo(assignedAll, NPlaces) \in Int
    BY <1>1, <1>6, <2>1, SumToRec
  <2>5. QED
    BY <2>2, <2>3, <2>4
<1>17. SumTo(inBuckets, NPlaces) + SumTo(worth, NPlaces)
         = SumTo(worth, NPlaces) + SumTo(assignedAll, NPlaces)
  BY <1>11, <1>12, <1>13, <1>14
<1>18. SumTo(inBuckets, NPlaces) = SumTo(assignedAll, NPlaces)
  <2>1. \A x, y, z \in Int : x + y = y + z => x = z
    OBVIOUS
  <2>2. QED
    BY <1>16, <1>17, <2>1
<1>19. QED
  BY <1>11, <1>15, <1>18

-----------------------------------------------------------------------------
(* Somebody is alerted to a request exactly while it is pending. *)

(* Some member of every group that decides is alerted.                     *)
LEMMA SomebodyAlerted ==
  ASSUME NEW code, Members(code) # {}
  PROVE  Alerted(code) # {}
<1>1. Members(code) \subseteq Nat
  BY SecurityAssumption DEF Members, Users
<1>2. PICK u \in Members(code) : \A v \in Members(code) : u <= v
  BY <1>1, LeastNatural
<1>3. \A v \in Members(code) : ~(v < u)
  BY <1>1, <1>2
<1>4. {v \in Members(code) : v < u} = {}
  BY <1>3
<1>5. Cardinality({v \in Members(code) : v < u}) = 0
  BY <1>4, FS_EmptySet
<1>6. QED
  BY <1>5 DEF Alerted, ActivityLimit

AlertedIfPending == \A r \in Requests : Pending(r) <=> todo[r] # {}

LEMMA AlertedStep ==
  ASSUME TypeOK, TypeOK', AlertedIfPending, \A code \in LevelCodes : Members(code) # {},
         [Next]_vars
  PROVE  AlertedIfPending'
<1>1. SUFFICES ASSUME NEW q \in Requests
               PROVE  docs'[q].state \in PendingStates <=> todo'[q] # {}
  BY DEF AlertedIfPending, Pending
<1>2. docs[q].state \in PendingStates <=> todo[q] # {}
  BY DEF AlertedIfPending, Pending
<1>3. ASSUME NEW u \in Users, NEW r \in Requests, RequestStep(u, r)
      PROVE  docs'[q].state \in PendingStates <=> todo'[q] # {}
  <2>1. CASE q # r
    BY <1>2, <1>3, <2>1, WorkflowEffect
  <2>2. CASE q = r
    <3>1. PICK n \in 1 .. 3 : /\ Levels(r) \in [1 .. n -> LevelCodes]
                              /\ Len(Levels(r)) = n
      BY ChainType
    <3>2. \A i \in 1 .. n : Alerted(Levels(r)[i]) # {} /\ StageStates[i] \in PendingStates
      BY <3>1, SomebodyAlerted, StagesApart
    <3>3. CASE InPreparation(r) /\ docs'[r].state = "draft" /\ todo'[r] = todo[r]
      BY <1>2, <2>2, <3>3 DEF InPreparation, PendingStates
    <3>4. CASE docs'[r].state = "submitted" /\ todo'[r] = Alerted(Levels(r)[1])
      BY <2>2, <3>2, <3>4 DEF PendingStates
    <3>5. CASE \E i \in CurrentLevel(r) : Advances(u, r, i, LevelIndex(r, i) + 1)
      <4>1. PICK i \in CurrentLevel(r) : Advances(u, r, i, LevelIndex(r, i) + 1)
        BY <3>5
      <4>2. PICK next \in Nat : next >= 1 /\ Advances(u, r, i, next)
        <5>1. i \in 1 .. 3
          BY <3>1 DEF CurrentLevel
        <5>2. LevelIndex(r, i) \in 1 .. i
          BY <5>1, LevelIndexType
        <5>3. QED
          BY <4>1, <5>1, <5>2
      <4>3. CASE docs'[r].state = "approved" /\ todo'[r] = {}
        BY <2>2, <4>3 DEF PendingStates
      <4>4. CASE /\ next <= Len(Levels(r)) /\ docs'[r].state = StageStates[next]
                 /\ todo'[r] = Alerted(Levels(r)[next])
        <5>1. next \in 1 .. n
          BY <3>1, <4>2, <4>4
        <5>2. QED
          BY <2>2, <3>2, <4>4, <5>1
      <4>5. QED
        BY <4>2, <4>3, <4>4 DEF Advances
    <3>6. CASE docs'[r].state \in {"rejected", "cancelled"} /\ todo'[r] = {}
      BY <2>2, <3>6 DEF PendingStates
    <3>7. CASE docs[r].state = "approved" /\ docs'[r].state = "closed" /\ todo'[r] = todo[r]
      BY <1>2, <2>2, <3>7 DEF PendingStates
    <3>8. QED
      BY <1>3, <3>3, <3>4, <3>5, <3>6, <3>7, WorkflowEffect
  <2>3. QED
    BY <2>1, <2>2
<1>4. CASE UNCHANGED <<docs, todo>>
  BY <1>2, <1>4
<1>5. QED
  BY <1>3, <1>4, WorkflowElsewhere DEF Next, vars

-----------------------------------------------------------------------------
(* The dashboard agrees with the documents and with itself after any calls *)
(* of anybody, changes of rules included, if every group that decides has  *)
(* a member who can be alerted.                                            *)
THEOREM DashboardCorrect ==
  ASSUME \A code \in LevelCodes : Members(code) # {}
  PROVE  Spec => []DashboardAgrees
<1>1. Init => ReceivedInv /\ AlertedIfPending
  BY ReceivedInit DEF Init, AlertedIfPending, Pending, PendingStates, NoDoc
<1>2. TypeOK /\ TypeOK' /\ ReceivedInv /\ AlertedIfPending /\ [Next]_vars
        => (ReceivedInv /\ AlertedIfPending)'
  BY ReceivedStep, AlertedStep
<1>3. TypeOK /\ ReceivedInv /\ AlertedIfPending /\ MoneyConserved /\ SpentIsPostedBills
        => DashboardAgrees
  <2>1. SUFFICES ASSUME TypeOK, ReceivedInv, AlertedIfPending, MoneyConserved,
                        SpentIsPostedBills
                 PROVE  DashboardAgrees
    OBVIOUS
  <2>2. TotalReceived = Confirmed
    BY <2>1 DEF ReceivedInv
  <2>3. TotalAssigned = BucketTotal([b \in Buckets |-> Worth(b)])
    BY <2>1, AssignedIsWorth
  <2>4. TotalSpent = BucketTotal([b \in Buckets |-> PostedBills(b)])
    <3>1. [b \in Buckets |-> Spent(moves, b)] = [b \in Buckets |-> PostedBills(b)]
      BY <2>1 DEF SpentIsPostedBills
    <3>2. QED
      BY <3>1 DEF TotalSpent
  <2>5. PendingApprovals = Cardinality({r \in Requests : todo[r] # {}})
    <3>1. {r \in Requests : Pending(r)} = {r \in Requests : todo[r] # {}}
      BY <2>1 DEF AlertedIfPending
    <3>2. QED
      BY <3>1 DEF PendingApprovals
  <2>6. QED
    BY <2>2, <2>3, <2>4, <2>5 DEF DashboardAgrees
<1>4. QED
  BY <1>1, <1>2, <1>3, TypeCorrect, SpendingSafe, MoneyIsConserved, PTL DEF Spec
=============================================================================
