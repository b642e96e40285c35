------------------------- MODULE FundTreasuryProofs -------------------------
(***************************************************************************)
(* The fund management implements the treasury, and what the treasury      *)
(* promises therefore holds of its balances.                               *)
(***************************************************************************)
EXTENDS FundTreasury, BucketProofs

-----------------------------------------------------------------------------
(* What a line does to free, held and spent money. *)

FreeChange(type, p, x) ==
  IF p \in Accounts
  THEN Change(type, {"incoming", "alloc_release", "assign_reverse"}, {"alloc_hold"}, x)
  ELSE Change(type, {"assign", "transfer_in", "transfer_settle_reverse",
                     "req_release", "transfer_release"},
              {"assign_reverse", "transfer_in_reverse", "req_hold", "transfer_hold"}, x)

HeldChange(type, p, x) ==
  IF p \in Accounts
  THEN Change(type, {"alloc_hold"}, {"alloc_release", "assign"}, x)
  ELSE Change(type, {"req_hold", "reverse", "transfer_hold"},
              {"req_release", "spend", "transfer_release", "transfer_settle"}, x)

SpentChange(type, p, x) ==
  IF p \in Accounts THEN 0 ELSE Change(type, {"spend"}, {"reverse"}, x)

LEMMA MoneyPost ==
  ASSUME NEW m \in Ledgers, NEW type \in MoveTypes, NEW places, NEW x \in Nat, NEW p \in Places
  PROVE  LET n == Post(m, type, places, x)
             here(y) == IF p \in places THEN y ELSE 0
         IN  /\ FreeAt(m, p) \in Int /\ HeldAt(m, p) \in Int /\ SpentAt(m, p) \in Int
             /\ FreeAt(n, p) = FreeAt(m, p) + here(FreeChange(type, p, x))
             /\ HeldAt(n, p) = HeldAt(m, p) + here(HeldChange(type, p, x))
             /\ SpentAt(n, p) = SpentAt(m, p) + here(SpentChange(type, p, x))
<1> DEFINE n == Post(m, type, places, x)
<1>1. \A t \in MoveTypes : m[p][t] \in Nat
  BY TotalsAreNat
<1>2. \A t \in MoveTypes : n[p][t] = IF p \in places /\ t = type THEN m[p][t] + x ELSE m[p][t]
  BY PostAdds
<1> HIDE DEF n
<1>3. /\ FreeAt(m, p) \in Int /\ HeldAt(m, p) \in Int /\ SpentAt(m, p) \in Int
  BY <1>1 DEF FreeAt, HeldAt, SpentAt, Unassigned, OnHold, Available, RequisitionHold,
              TransferHold, Spent, Allocated, TransferIn, TransferOut, MoveTypes
<1>4. FreeAt(n, p) = FreeAt(m, p) + IF p \in places THEN FreeChange(type, p, x) ELSE 0
  <2>1. CASE p \in Accounts
    BY <1>1, <1>2, <2>1 DEF FreeAt, FreeChange, Change, Unassigned, MoveTypes
  <2>2. CASE p \notin Accounts
    BY <1>1, <1>2, <2>2 DEF FreeAt, FreeChange, Change, Available, Allocated, TransferIn,
       TransferOut, RequisitionHold, TransferHold, Spent, MoveTypes
  <2>3. QED
    BY <2>1, <2>2
<1>5. HeldAt(n, p) = HeldAt(m, p) + IF p \in places THEN HeldChange(type, p, x) ELSE 0
  <2>1. CASE p \in Accounts
    BY <1>1, <1>2, <2>1 DEF HeldAt, HeldChange, Change, OnHold, MoveTypes
  <2>2. CASE p \notin Accounts
    BY <1>1, <1>2, <2>2 DEF HeldAt, HeldChange, Change, RequisitionHold, TransferHold, MoveTypes
  <2>3. QED
    BY <2>1, <2>2
<1>6. SpentAt(n, p) = SpentAt(m, p) + IF p \in places THEN SpentChange(type, p, x) ELSE 0
  BY <1>1, <1>2 DEF SpentAt, SpentChange, Change, Spent, MoveTypes
<1>7. QED
  BY <1>3, <1>4, <1>5, <1>6 DEF n

(* From ledger m to ledger n, the free money changes by fs at s and by ft  *)
(* at t, the held and the spent money by hs and ss at s.                   *)
Shift(m, n, s, t, fs, ft, hs, ss) ==
  \A p \in Places :
    /\ FreeAt(n, p) = IF p = s THEN FreeAt(m, p) + fs
                      ELSE IF p = t THEN FreeAt(m, p) + ft ELSE FreeAt(m, p)
    /\ HeldAt(n, p) = IF p = s THEN HeldAt(m, p) + hs ELSE HeldAt(m, p)
    /\ SpentAt(n, p) = IF p = s THEN SpentAt(m, p) + ss ELSE SpentAt(m, p)

LEMMA MoneyType ==
  ASSUME NEW m \in Ledgers, NEW p \in Places
  PROVE  FreeAt(m, p) \in Int /\ HeldAt(m, p) \in Int /\ SpentAt(m, p) \in Int
<1>1. \A t \in MoveTypes : m[p][t] \in Nat
  BY TotalsAreNat
<1>2. QED
  BY <1>1 DEF FreeAt, HeldAt, SpentAt, Unassigned, OnHold, Available, RequisitionHold,
              TransferHold, Spent, Allocated, TransferIn, TransferOut, MoveTypes

(* What the hooks of an allocation shift. *)
LEMMA AllocationShifts ==
  ASSUME TypeOK, NEW r \in Requests, Exists(r), Allocation(r)
  PROVE  LET s == docs[r].source
             t == docs[r].target
             x == docs[r].amount
         IN  /\ Shift(moves, AllocationHold(r), s, t, -x, 0, x, 0)
             /\ Shift(moves, AllocationAssign(r), s, t, 0, x, -x, 0)
             /\ Shift(moves, AllocationRelease(r), s, t, x, 0, -x, 0)
             /\ Shift(moves, AllocationReverse(r), s, t, x, -x, 0, 0)
<1> DEFINE s == docs[r].source
           t == docs[r].target
           x == docs[r].amount
<1>1. docs[r] \in Documents(Kind[r]) /\ moves \in Ledgers
  BY Present DEF TypeOK
<1>2. x \in Nat /\ s \in Accounts /\ t \in Buckets
  BY <1>1, RequestAssumption DEF Documents, Endpoints, Allocation
<1>3. s \in Places /\ t \in Places /\ s # t /\ t \notin Accounts
  BY <1>2, PlacesAre
<1> HIDE DEF s, t, x
<1>4. Shift(moves, Post(moves, "alloc_hold", {s}, x), s, t, -x, 0, x, 0)
  BY <1>1, <1>2, <1>3, MoneyPost DEF Shift, MoveTypes, FreeChange, HeldChange, SpentChange, Change
<1>5. Shift(moves, Post(moves, "assign", {s, t}, x), s, t, 0, x, -x, 0)
  BY <1>1, <1>2, <1>3, MoneyPost DEF Shift, MoveTypes, FreeChange, HeldChange, SpentChange, Change
<1>6. Shift(moves, Post(moves, "alloc_release", {s}, x), s, t, x, 0, -x, 0)
  BY <1>1, <1>2, <1>3, MoneyPost DEF Shift, MoveTypes, FreeChange, HeldChange, SpentChange, Change
<1>7. Shift(moves, Post(moves, "assign_reverse", {s, t}, x), s, t, x, -x, 0, 0)
  BY <1>1, <1>2, <1>3, MoneyPost DEF Shift, MoveTypes, FreeChange, HeldChange, SpentChange, Change
<1>8. QED
  BY <1>4, <1>5, <1>6, <1>7
     DEF s, t, x, AllocationHold, AllocationAssign, AllocationRelease, AllocationReverse

(* What the hooks of a transfer shift; two of them post two lines.         *)
LEMMA TransferShifts ==
  ASSUME TypeOK, NEW r \in Requests, Exists(r), Transfer(r)
  PROVE  LET s == docs[r].source
             t == docs[r].target
             x == docs[r].amount
         IN  /\ Shift(moves, TransferHeld(r), s, t, -x, 0, x, 0)
             /\ Shift(moves, TransferSettle(r), s, t, 0, x, -x, 0)
             /\ Shift(moves, TransferRelease(r), s, t, x, 0, -x, 0)
             /\ Shift(moves, TransferReverse(r), s, t, x, -x, 0, 0)
<1> DEFINE s == docs[r].source
           t == docs[r].target
           x == docs[r].amount
           settled == Post(moves, "transfer_settle", {s}, x)
           returned == Post(moves, "transfer_in_reverse", {t}, x)
<1>1. docs[r] \in Documents(Kind[r]) /\ moves \in Ledgers
  BY Present DEF TypeOK
<1>2. x \in Nat /\ s \in Buckets /\ t \in Buckets /\ s # t
  BY <1>1, RequestAssumption DEF Documents, Endpoints, Transfer
<1>3. s \in Places /\ t \in Places /\ s \notin Accounts /\ t \notin Accounts
  BY <1>2, PlacesAre
<1> HIDE DEF s, t, x
<1>4. Shift(moves, Post(moves, "transfer_hold", {s}, x), s, t, -x, 0, x, 0)
  BY <1>1, <1>2, <1>3, MoneyPost DEF Shift, MoveTypes, FreeChange, HeldChange, SpentChange, Change
<1>5. Shift(moves, Post(moves, "transfer_release", {s}, x), s, t, x, 0, -x, 0)
  BY <1>1, <1>2, <1>3, MoneyPost DEF Shift, MoveTypes, FreeChange, HeldChange, SpentChange, Change
<1>6. settled \in Ledgers /\ returned \in Ledgers
  BY <1>1, <1>2, PostAdds DEF MoveTypes
<1>7. Shift(moves, settled, s, t, 0, 0, -x, 0) /\ Shift(moves, returned, s, t, 0, -x, 0, 0)
  <2>1. Shift(moves, settled, s, t, 0, 0, -x, 0)
    BY <1>1, <1>2, <1>3, MoneyPost
       DEF Shift, MoveTypes, FreeChange, HeldChange, SpentChange, Change
  <2>2. Shift(moves, returned, s, t, 0, -x, 0, 0)
    BY <1>1, <1>2, <1>3, MoneyPost
       DEF Shift, MoveTypes, FreeChange, HeldChange, SpentChange, Change
  <2>3. QED
    BY <2>1, <2>2
<1>8. \A p \in Places : /\ FreeAt(moves, p) \in Int /\ HeldAt(moves, p) \in Int
                        /\ SpentAt(moves, p) \in Int
  BY <1>1, MoneyType
<1> HIDE DEF settled, returned
<1>9. Shift(settled, Post(settled, "transfer_in", {t}, x), s, t, 0, x, 0, 0)
  BY <1>2, <1>3, <1>6, MoneyPost DEF Shift, MoveTypes, FreeChange, HeldChange, SpentChange, Change
<1>10. Shift(returned, Post(returned, "transfer_settle_reverse", {s}, x), s, t, x, 0, 0, 0)
  BY <1>2, <1>3, <1>6, MoneyPost DEF Shift, MoveTypes, FreeChange, HeldChange, SpentChange, Change
<1>11. Shift(moves, Post(settled, "transfer_in", {t}, x), s, t, 0, x, -x, 0)
  BY <1>2, <1>7, <1>8, <1>9 DEF Shift
<1>12. Shift(moves, Post(returned, "transfer_settle_reverse", {s}, x), s, t, x, -x, 0, 0)
  BY <1>2, <1>7, <1>8, <1>10 DEF Shift
<1>13. QED
  BY <1>4, <1>5, <1>11, <1>12
     DEF s, t, x, settled, returned, TransferHeld, TransferSettle, TransferRelease, TransferReverse

(* What the lines of requisitions, bills and deposits shift. *)
LEMMA OneLineShifts ==
  ASSUME NEW m \in Ledgers, NEW x \in Nat
  PROVE  /\ \A s \in Buckets :
              /\ Shift(m, Post(m, "req_hold", {s}, x), s, s, -x, 0, x, 0)
              /\ Shift(m, Post(m, "req_release", {s}, x), s, s, x, 0, -x, 0)
              /\ Shift(m, Post(m, "spend", {s}, x), s, s, 0, 0, -x, x)
              /\ Shift(m, Post(m, "reverse", {s}, x), s, s, 0, 0, x, -x)
         /\ \A a \in Accounts : Shift(m, Post(m, "incoming", {a}, x), a, a, x, 0, 0, 0)
<1>1. ASSUME NEW s \in Buckets
      PROVE  /\ Shift(m, Post(m, "req_hold", {s}, x), s, s, -x, 0, x, 0)
             /\ Shift(m, Post(m, "req_release", {s}, x), s, s, x, 0, -x, 0)
             /\ Shift(m, Post(m, "spend", {s}, x), s, s, 0, 0, -x, x)
             /\ Shift(m, Post(m, "reverse", {s}, x), s, s, 0, 0, x, -x)
  <2>1. s \in Places /\ s \notin Accounts
    BY PlacesAre
  <2>2. Shift(m, Post(m, "req_hold", {s}, x), s, s, -x, 0, x, 0)
    BY <2>1, MoneyPost DEF Shift, MoveTypes, FreeChange, HeldChange, SpentChange, Change
  <2>3. Shift(m, Post(m, "req_release", {s}, x), s, s, x, 0, -x, 0)
    BY <2>1, MoneyPost DEF Shift, MoveTypes, FreeChange, HeldChange, SpentChange, Change
  <2>4. Shift(m, Post(m, "spend", {s}, x), s, s, 0, 0, -x, x)
    BY <2>1, MoneyPost DEF Shift, MoveTypes, FreeChange, HeldChange, SpentChange, Change
  <2>5. Shift(m, Post(m, "reverse", {s}, x), s, s, 0, 0, x, -x)
    BY <2>1, MoneyPost DEF Shift, MoveTypes, FreeChange, HeldChange, SpentChange, Change
  <2>6. QED
    BY <2>2, <2>3, <2>4, <2>5
<1>2. ASSUME NEW a \in Accounts
      PROVE  Shift(m, Post(m, "incoming", {a}, x), a, a, x, 0, 0, 0)
  BY <1>2, MoneyPost DEF Shift, MoveTypes, FreeChange, HeldChange, SpentChange, Change
<1>3. QED
  BY <1>1, <1>2

-----------------------------------------------------------------------------
(* Steps of the treasury. *)

(* A shift between two ledgers is a step of the treasury. *)
LEMMA ShiftSteps ==
  ASSUME TypeOK, NEW s \in Places, NEW t \in Places, NEW x \in Nat
  PROVE  /\ /\ Shift(moves, moves', s, t, x, 0, 0, 0)
            /\ Confirmed' = Confirmed + x
            => T!Receive(s, x)
         /\ /\ Shift(moves, moves', s, t, -x, 0, x, 0)
            /\ Confirmed' = Confirmed /\ x <= FreeAt(moves, s)
            => T!Hold(s, x)
         /\ /\ Shift(moves, moves', s, t, x, 0, -x, 0)
            /\ Confirmed' = Confirmed /\ x <= HeldAt(moves, s)
            => T!Release(s, x)
         /\ /\ Shift(moves, moves', s, t, 0, x, -x, 0)
            /\ Confirmed' = Confirmed /\ x <= HeldAt(moves, s) /\ s # t
            => T!Move(s, t, x)
         /\ /\ Shift(moves, moves', s, t, x, -x, 0, 0)
            /\ Confirmed' = Confirmed /\ s # t /\ \E u \in Users : HasGroup(u, "admin")
            => T!Undo(s, t, x)
         /\ /\ Shift(moves, moves', s, t, 0, 0, -x, x)
            /\ Confirmed' = Confirmed /\ x <= HeldAt(moves, s)
            => T!Spend(s, x)
         /\ /\ Shift(moves, moves', s, t, 0, 0, x, -x)
            /\ Confirmed' = Confirmed /\ x <= SpentAt(moves, s)
            => T!Refund(s, x)
         /\ moves' = moves /\ Confirmed' = Confirmed => T!Paperwork
<1>1. \A p \in Places : /\ FreeAt(moves, p) \in Int /\ HeldAt(moves, p) \in Int
                        /\ SpentAt(moves, p) \in Int
  BY MoneyType DEF TypeOK
<1>2. ASSUME Shift(moves, moves', s, t, x, 0, 0, 0), Confirmed' = Confirmed + x
      PROVE  T!Receive(s, x)
  <2>1. \A p \in Places :
          /\ FreeAt(moves', p) = IF p = s THEN FreeAt(moves, p) + x ELSE FreeAt(moves, p)
          /\ HeldAt(moves', p) = HeldAt(moves, p)
          /\ SpentAt(moves', p) = SpentAt(moves, p)
    BY <1>1, <1>2 DEF Shift
  <2>2. QED
    BY <1>2, <2>1 DEF T!Receive
<1>3. ASSUME Shift(moves, moves', s, t, -x, 0, x, 0), Confirmed' = Confirmed, x <= FreeAt(moves, s)
      PROVE  T!Hold(s, x)
  <2>1. \A p \in Places :
          /\ FreeAt(moves', p) = IF p = s THEN FreeAt(moves, p) - x ELSE FreeAt(moves, p)
          /\ HeldAt(moves', p) = IF p = s THEN HeldAt(moves, p) + x ELSE HeldAt(moves, p)
          /\ SpentAt(moves', p) = SpentAt(moves, p)
    BY <1>1, <1>3 DEF Shift
  <2>2. QED
    BY <1>3, <2>1 DEF T!Hold
<1>4. ASSUME Shift(moves, moves', s, t, x, 0, -x, 0), Confirmed' = Confirmed, x <= HeldAt(moves, s)
      PROVE  T!Release(s, x)
  <2>1. \A p \in Places :
          /\ FreeAt(moves', p) = IF p = s THEN FreeAt(moves, p) + x ELSE FreeAt(moves, p)
          /\ HeldAt(moves', p) = IF p = s THEN HeldAt(moves, p) - x ELSE HeldAt(moves, p)
          /\ SpentAt(moves', p) = SpentAt(moves, p)
    BY <1>1, <1>4 DEF Shift
  <2>2. QED
    BY <1>4, <2>1 DEF T!Release
<1>5. ASSUME Shift(moves, moves', s, t, 0, x, -x, 0), Confirmed' = Confirmed,
             x <= HeldAt(moves, s), s # t
      PROVE  T!Move(s, t, x)
  <2>1. \A p \in Places :
          /\ FreeAt(moves', p) = IF p = t THEN FreeAt(moves, p) + x ELSE FreeAt(moves, p)
          /\ HeldAt(moves', p) = IF p = s THEN HeldAt(moves, p) - x ELSE HeldAt(moves, p)
          /\ SpentAt(moves', p) = SpentAt(moves, p)
    BY <1>1, <1>5 DEF Shift
  <2>2. QED
    BY <1>5, <2>1 DEF T!Move
<1>6. ASSUME Shift(moves, moves', s, t, x, -x, 0, 0), Confirmed' = Confirmed,
             s # t, \E u \in Users : HasGroup(u, "admin")
      PROVE  T!Undo(s, t, x)
  <2>1. \A p \in Places :
          /\ FreeAt(moves', p) = IF p = s THEN FreeAt(moves, p) + x
                                ELSE IF p = t THEN FreeAt(moves, p) - x ELSE FreeAt(moves, p)
          /\ HeldAt(moves', p) = HeldAt(moves, p)
          /\ SpentAt(moves', p) = SpentAt(moves, p)
    BY <1>1, <1>6 DEF Shift
  <2>2. QED
    BY <1>6, <2>1 DEF T!Undo
<1>7. ASSUME Shift(moves, moves', s, t, 0, 0, -x, x), Confirmed' = Confirmed, x <= HeldAt(moves, s)
      PROVE  T!Spend(s, x)
  <2>1. \A p \in Places :
          /\ FreeAt(moves', p) = FreeAt(moves, p)
          /\ HeldAt(moves', p) = IF p = s THEN HeldAt(moves, p) - x ELSE HeldAt(moves, p)
          /\ SpentAt(moves', p) = IF p = s THEN SpentAt(moves, p) + x ELSE SpentAt(moves, p)
    BY <1>1, <1>7 DEF Shift
  <2>2. QED
    BY <1>7, <2>1 DEF T!Spend
<1>8. ASSUME Shift(moves, moves', s, t, 0, 0, x, -x), Confirmed' = Confirmed, x <= SpentAt(moves, s)
      PROVE  T!Refund(s, x)
  <2>1. \A p \in Places :
          /\ FreeAt(moves', p) = FreeAt(moves, p)
          /\ HeldAt(moves', p) = IF p = s THEN HeldAt(moves, p) + x ELSE HeldAt(moves, p)
          /\ SpentAt(moves', p) = IF p = s THEN SpentAt(moves, p) - x ELSE SpentAt(moves, p)
    BY <1>1, <1>8 DEF Shift
  <2>2. QED
    BY <1>8, <2>1 DEF T!Refund
<1>9. ASSUME moves' = moves, Confirmed' = Confirmed
      PROVE  T!Paperwork
  BY <1>9 DEF T!Paperwork, T!vars
<1>10. QED
  BY <1>2, <1>3, <1>4, <1>5, <1>6, <1>7, <1>8, <1>9

-----------------------------------------------------------------------------
(* Why each step finds the money it takes. *)

CoverInv == TypeOK /\ AccountInv /\ TransferHoldsCovered /\ SpendingInv

(* No requisition reserves a negative amount, nor more than all together.  *)
LEMMA ReservedShares ==
  ASSUME TypeOK, SpendingInv, NEW p
  PROVE  /\ Reserved(p) \in Nat
         /\ \A r \in Requests : /\ ReservedAmount(p, r) \in Nat
                                /\ ReservedAmount(p, r) <= Reserved(p)
<1> DEFINE f == [r \in Requests |-> ReservedAmount(p, r)]
<1>1. \A r \in Requests : ReservedAmount(p, r) \in Nat
  <2>1. SUFFICES ASSUME NEW r \in Requests, Requisition(r), Exists(r)
                 PROVE  docs[r].amount \in Nat /\ RemainingBillable(r) \in Nat
    BY DEF ReservedAmount, Requisition
  <2>2. docs[r].amount \in Nat /\ Billed(r) \in Nat
    BY <2>1, Present, BilledType, RequestAssumption DEF Documents
  <2>3. Billed(r) <= docs[r].amount
    BY <2>1 DEF SpendingInv, BilledWithinApproved
  <2>4. QED
    BY <2>2, <2>3 DEF RemainingBillable
<1>2. f \in [1 .. NRequests -> Nat]
  BY <1>1 DEF Requests
<1>3. SumTo(f, NRequests) \in Nat /\ \A r \in 1 .. NRequests : f[r] <= SumTo(f, NRequests)
  BY <1>2, SumNat, RequestAssumption
<1>4. QED
  BY <1>1, <1>3 DEF Requests, Reserved

(* What is pending is part of what is held for the pending requests. *)
LEMMA PendingShares ==
  ASSUME TypeOK, NEW kind, NEW p, NEW r \in Requests
  PROVE  PendingAmount(kind, p, r) <= PendingHold(kind, p)
<1> DEFINE f == [q \in Requests |-> PendingAmount(kind, p, q)]
<1>1. f \in [1 .. NRequests -> Nat]
  BY PendingHoldType DEF Requests
<1>2. \A q \in 1 .. NRequests : f[q] <= SumTo(f, NRequests)
  BY <1>1, SumNat, RequestAssumption
<1>3. QED
  BY <1>2 DEF Requests, PendingHold

(* What a posted bill spent is part of what its bucket has spent. *)
LEMMA PostedShares ==
  ASSUME TypeOK, NEW p, NEW b \in Bills
  PROVE  PostedAt(p, b) <= PostedBills(p)
<1> DEFINE f == [c \in Bills |-> PostedAt(p, c)]
<1>1. f \in [1 .. NBills -> Nat]
  BY BillType DEF PostedAt, TypeOK, Bills
<1>2. \A c \in 1 .. NBills : f[c] <= SumTo(f, NBills)
  BY <1>1, SumNat, BillAssumption
<1>3. QED
  BY <1>2 DEF Bills, PostedBills

LEMMA MoneyCovered ==
  ASSUME CoverInv, NEW r \in Requests, Exists(r)
  PROVE  LET s == docs[r].source
         IN  /\ s \in Places
             /\ Pending(r) => docs[r].amount <= HeldAt(moves, s)
             /\ Requisition(r) /\ docs[r].state = "approved" =>
                  RemainingBillable(r) <= HeldAt(moves, s)
<1> DEFINE s == docs[r].source
<1>1. docs[r] \in Documents(Kind[r]) /\ TypeOK
  BY Present DEF CoverInv
<1>2. s \in Places /\ docs[r].amount \in Nat /\ RemainingBillable(r) \in Int
  BY <1>1, BilledType, RequestAssumption DEF Documents
<1>3. CASE Allocation(r)
  <2>1. s \in Accounts
    BY <1>1, <1>3 DEF Documents, Endpoints, Allocation
  <2>2. OnHold(moves, s) >= PendingHold("allocation", s)
    BY <2>1 DEF CoverInv, AccountInv
  <2>3. Pending(r) => docs[r].amount <= PendingHold("allocation", s)
    <3>1. PendingAmount("allocation", s, r) <= PendingHold("allocation", s)
      BY <1>1, PendingShares
    <3>2. QED
      BY <1>3, <3>1 DEF PendingAmount, Allocation
  <2>4. OnHold(moves, s) \in Int /\ PendingHold("allocation", s) \in Int
    BY <1>1, <2>1, BalancesType, PendingHoldType DEF TypeOK
  <2>5. QED
    BY <1>2, <1>3, <2>1, <2>2, <2>3, <2>4 DEF HeldAt, Allocation, Requisition
<1>4. CASE ~Allocation(r)
  <2>1. s \in Buckets /\ s \notin Accounts
    BY <1>1, <1>4, PlacesAre, RequestAssumption DEF Documents, Endpoints, Allocation, Kinds
  <2>2. /\ RequisitionHold(moves, s) \in Int /\ TransferHold(moves, s) \in Int
        /\ RequisitionHold(moves, s) >= Reserved(s)
        /\ TransferHold(moves, s) >= PendingHold("transfer", s)
    BY <1>1, <2>1, BalancesType
       DEF TypeOK, CoverInv, SpendingInv, RequisitionHoldsCovered, TransferHoldsCovered
  <2>3. Reserved(s) \in Nat /\ PendingHold("transfer", s) \in Nat
    BY <1>1, ReservedShares, PendingHoldType DEF CoverInv
  <2>4. /\ RequisitionHold(moves, s) <= HeldAt(moves, s)
        /\ TransferHold(moves, s) <= HeldAt(moves, s)
        /\ HeldAt(moves, s) \in Int
    BY <2>1, <2>2, <2>3 DEF HeldAt
  <2>5. CASE Transfer(r)
    <3>1. PendingAmount("transfer", s, r) <= PendingHold("transfer", s)
      BY <1>1, PendingShares
    <3>2. Pending(r) => docs[r].amount <= PendingHold("transfer", s)
      BY <2>5, <3>1 DEF PendingAmount, Transfer
    <3>3. QED
      BY <1>2, <2>2, <2>3, <2>4, <2>5, <3>2 DEF Transfer, Requisition
  <2>6. CASE Requisition(r)
    <3>1. ReservedAmount(s, r) <= Reserved(s)
      BY <1>1, ReservedShares DEF CoverInv
    <3>2. /\ Pending(r) => docs[r].amount <= Reserved(s)
          /\ docs[r].state = "approved" => RemainingBillable(r) <= Reserved(s)
      BY <2>6, <3>1 DEF ReservedAmount, Requisition, Pending, PendingStates
    <3>3. QED
      BY <1>2, <2>2, <2>3, <2>4, <3>2
  <2>7. QED
    BY <1>4, <2>5, <2>6, RequestAssumption DEF Allocation, Transfer, Requisition, Kinds
<1>5. QED
  BY <1>3, <1>4

-----------------------------------------------------------------------------
(* The steps of the system. *)

(* Amounts of requests, and parts of them, are quantities. *)
LEMMA AmountsAreQuantities ==
  ASSUME NEW amount \in Amounts
  PROVE  /\ amount \in Nat /\ amount \in Quantities
         /\ \A x \in Nat : 0 < x /\ x <= amount => x \in Quantities
<1>1. amount \in Nat /\ 0 < amount
  BY RequestAssumption
<1>2. 1 .. amount \subseteq Quantities
  BY QuantitiesAssumption
<1>3. QED
  BY <1>1, <1>2

(* A step of an allocation or a transfer. *)
LEMMA EndsMoney ==
  ASSUME CoverInv, NEW u \in Users, NEW r \in Requests, RequestStep(u, r), ~Requisition(r)
  PROVE  T!Next
<1> DEFINE s == docs[r].source
           t == docs[r].target
           x == docs[r].amount
<1>1. TypeOK /\ Confirmed' = Confirmed
  BY DEF CoverInv, RequestStep, Confirmed, ConfirmedAmount
<1>2. CASE Prepare(u, r) \/ ActionClose(u, r)
  <2>1. moves' = moves
    BY <1>2 DEF Prepare, Create, EditDraft, CancelDraft, ActionResetToDraft, ActionClose
  <2>2. CASE Places = {}
    BY <1>1, <2>1 DEF T!Next, T!Paperwork, T!vars
  <2>3. CASE Places # {}
    BY <1>1, <2>1, <2>3, ShiftSteps DEF T!Next
  <2>4. QED
    BY <2>2, <2>3
<1>3. CASE ~(Prepare(u, r) \/ ActionClose(u, r))
  <2>1. Exists(r)
    BY <1>1, <1>3, StateEffect
  <2>2. docs[r] \in Documents(Kind[r])
    BY <1>1, <2>1, Present
  <2>3. s \in Places /\ t \in Places /\ s # t /\ x \in Amounts
    BY <2>2, PlacesAre, RequestAssumption DEF Documents, Endpoints, Requisition, Kinds
  <2>4. x \in Nat /\ x \in Quantities
    BY <2>3, AmountsAreQuantities
  <2>5. \E hold, settle, release, reverse :
          /\ Shift(moves, hold, s, t, -x, 0, x, 0)
          /\ Shift(moves, settle, s, t, 0, x, -x, 0)
          /\ Shift(moves, release, s, t, x, 0, -x, 0)
          /\ Shift(moves, reverse, s, t, x, -x, 0, 0)
          /\ Submit(u, r) => moves' = hold /\ x <= FreeAt(moves, s)
          /\ Approve(u, r) => moves' \in {moves, settle}
          /\ Reject(u, r) \/ Cancel(u, r) => moves' = release
          /\ CancelFinal(u, r) => moves' = reverse
    <3>1. CASE Allocation(r)
      <4>1. s \in Accounts
        BY <2>2, <3>1 DEF Documents, Endpoints, Allocation
      <4>2. Submit(u, r) => moves' = AllocationHold(r) /\ x <= FreeAt(moves, s)
        BY <3>1, <4>1 DEF Submit, AllocationSubmit, TransferSubmit, RequisitionSubmit, ActionSubmit,
           AllocationValid, Allocation, Transfer, Requisition, FreeAt
      <4>3. Approve(u, r) => moves' \in {moves, AllocationAssign(r)}
        BY <3>1 DEF Approve, AllocationApprove, TransferApprove, RequisitionApprove,
           ActionApprove, Allocation, Transfer, Requisition
      <4>4. /\ Reject(u, r) \/ Cancel(u, r) => moves' = AllocationRelease(r)
            /\ CancelFinal(u, r) => moves' = AllocationReverse(r)
        BY <3>1 DEF Reject, AllocationReject, TransferReject, RequisitionReject, ActionReject,
           Cancel, AllocationCancel, TransferCancel, RequisitionCancel, CancelPending,
           CancelFinal, AllocationCancelApproved, TransferCancelApproved,
           RequisitionCancelApproved, CancelApproved, Allocation, Transfer, Requisition
      <4>5. QED
        BY <1>1, <2>1, <3>1, <4>2, <4>3, <4>4, AllocationShifts
    <3>2. CASE Transfer(r)
      <4>1. s \notin Accounts
        BY <2>2, <2>3, <3>2, PlacesAre DEF Documents, Endpoints, Transfer
      <4>2. Submit(u, r) => moves' = TransferHeld(r) /\ x <= FreeAt(moves, s)
        BY <3>2, <4>1 DEF Submit, AllocationSubmit, TransferSubmit, RequisitionSubmit, ActionSubmit,
           TransferValid, Allocation, Transfer, Requisition, FreeAt
      <4>3. Approve(u, r) => moves' \in {moves, TransferSettle(r)}
        BY <3>2 DEF Approve, AllocationApprove, TransferApprove, RequisitionApprove,
           ActionApprove, Allocation, Transfer, Requisition
      <4>4. /\ Reject(u, r) \/ Cancel(u, r) => moves' = TransferRelease(r)
            /\ CancelFinal(u, r) => moves' = TransferReverse(r)
        BY <3>2 DEF Reject, AllocationReject, TransferReject, RequisitionReject, ActionReject,
           Cancel, AllocationCancel, TransferCancel, RequisitionCancel, CancelPending,
           CancelFinal, AllocationCancelApproved, TransferCancelApproved,
           RequisitionCancelApproved, CancelApproved, Allocation, Transfer, Requisition
      <4>5. QED
        BY <1>1, <2>1, <3>2, <4>2, <4>3, <4>4, TransferShifts
    <3>3. QED
      BY <3>1, <3>2, RequestAssumption DEF Allocation, Transfer, Requisition, Kinds
  <2>6. \/ Submit(u, r)
        \/ (Approve(u, r) \/ Reject(u, r) \/ Cancel(u, r)) /\ x <= HeldAt(moves, s)
        \/ CancelFinal(u, r)
    BY <1>1, <1>3, <2>1, StateEffect, MoneyCovered
  <2>7. CancelFinal(u, r) => \E v \in Users : HasGroup(v, "admin")
    BY DEF CancelFinal, AllocationCancelApproved, TransferCancelApproved,
           RequisitionCancelApproved, CancelApproved
  <2> HIDE DEF s, t, x
  <2>8. T!Hold(s, x) \/ T!Move(s, t, x) \/ T!Release(s, x) \/ T!Undo(s, t, x) \/ T!Paperwork
    BY <1>1, <1>3, <2>3, <2>4, <2>5, <2>6, <2>7, ShiftSteps DEF RequestStep
  <2>9. QED
    BY <2>3, <2>4, <2>8 DEF T!Next, T!Places, Places
<1>4. QED
  BY <1>2, <1>3

(* A step of a requisition. *)
LEMMA RequisitionMoney ==
  ASSUME CoverInv, NEW u \in Users, NEW r \in Requests, RequestStep(u, r), Requisition(r)
  PROVE  T!Next
<1> DEFINE s == docs[r].source
           x == docs[r].amount
           rest == RemainingBillable(r)
<1>1. TypeOK /\ Confirmed' = Confirmed /\ moves \in Ledgers
  BY DEF CoverInv, TypeOK, RequestStep, Confirmed, ConfirmedAmount
<1>2. ASSUME moves' = moves PROVE T!Next
  BY <1>1, <1>2 DEF T!Next, T!Paperwork, T!vars
<1>3. CASE Prepare(u, r)
  BY <1>2, <1>3 DEF Prepare, Create, EditDraft, CancelDraft, ActionResetToDraft
<1>4. CASE Approve(u, r)
  BY <1>2, <1>4 DEF Approve, AllocationApprove, TransferApprove, RequisitionApprove,
                    ActionApprove, Allocation, Transfer, Requisition
<1>5. CASE ~Prepare(u, r) /\ ~Approve(u, r)
  <2>1. Exists(r)
    BY <1>1, <1>5, StateEffect
  <2>2. docs[r] \in Documents(Kind[r])
    BY <1>1, <2>1, Present
  <2>3. s \in Buckets /\ s \in Places /\ s \notin Accounts /\ x \in Amounts
    BY <2>2, PlacesAre DEF Documents, Endpoints, Requisition
  <2>4. x \in Nat /\ x \in Quantities /\ rest \in Int
    BY <1>1, <2>1, <2>3, AmountsAreQuantities, BilledType
  <2>5. Billed(r) \in Nat /\ (docs[r].state = "approved" => rest = x - Billed(r))
    BY <1>1, BilledType DEF RemainingBillable
  <2>6. CASE Submit(u, r)
    <3>1. moves' = RequisitionHeld(r) /\ x <= FreeAt(moves, s)
      BY <2>3, <2>6 DEF Submit, AllocationSubmit, TransferSubmit, RequisitionSubmit, ActionSubmit,
         RequisitionValid, Allocation, Transfer, Requisition, FreeAt
    <3>2. Shift(moves, moves', s, s, -x, 0, x, 0)
      BY <1>1, <2>3, <2>4, <3>1, OneLineShifts DEF RequisitionHeld
    <3>3. T!Hold(s, x)
      BY <1>1, <2>3, <2>4, <3>1, <3>2, ShiftSteps
    <3>4. QED
      BY <2>3, <2>4, <3>3 DEF T!Next, T!Places, Places
  <2>7. CASE \/ (Reject(u, r) \/ Cancel(u, r)) /\ Pending(r)
             \/ CancelFinal(u, r) /\ docs[r].state = "approved"
    <3>1. moves' = RequisitionRelease(r) /\ (CancelFinal(u, r) => ~(Billed(r) > 0))
      BY <2>7 DEF Reject, AllocationReject, TransferReject, RequisitionReject, ActionReject,
         Cancel, AllocationCancel, TransferCancel, RequisitionCancel, CancelPending,
         CancelFinal, AllocationCancelApproved, TransferCancelApproved,
         RequisitionCancelApproved, CancelApproved, Reversible, Allocation, Transfer, Requisition
    <3>2. x <= HeldAt(moves, s)
      <4>1. CASE Pending(r)
        BY <2>1, <4>1, MoneyCovered
      <4>2. CASE ~Pending(r)
        <5>1. rest = x
          BY <2>4, <2>5, <2>7, <3>1, <4>2
        <5>2. QED
          BY <2>1, <2>7, <4>2, <5>1, MoneyCovered
      <4>3. QED
        BY <4>1, <4>2
    <3>3. Shift(moves, moves', s, s, x, 0, -x, 0)
      BY <1>1, <2>3, <2>4, <3>1, OneLineShifts DEF RequisitionRelease
    <3>4. T!Release(s, x)
      BY <1>1, <2>3, <2>4, <3>2, <3>3, ShiftSteps
    <3>5. QED
      BY <2>3, <2>4, <3>4 DEF T!Next, T!Places, Places
  <2>8. CASE ActionClose(u, r) /\ docs[r].state = "approved"
    <3>1. CASE rest > 0
      <4>1. moves' = Post(moves, "req_release", {s}, rest)
        BY <2>8, <3>1 DEF ActionClose, Unused
      <4>2. rest \in Nat /\ rest <= x /\ rest <= HeldAt(moves, s)
        BY <2>1, <2>4, <2>5, <2>8, <3>1, MoneyCovered
      <4>3. rest \in Quantities
        BY <2>3, <3>1, <4>2, AmountsAreQuantities
      <4> HIDE DEF rest, s
      <4>4. Shift(moves, moves', s, s, rest, 0, -rest, 0)
        BY <1>1, <2>3, <4>1, <4>2, OneLineShifts
      <4>5. T!Release(s, rest)
        BY <1>1, <2>3, <4>2, <4>4, ShiftSteps
      <4>6. QED
        BY <2>3, <4>3, <4>5 DEF T!Next, T!Places, Places
    <3>2. CASE ~(rest > 0)
      BY <1>2, <2>8, <3>2 DEF ActionClose, Unused
    <3>3. QED
      BY <3>1, <3>2
  <2>9. QED
    BY <1>1, <1>5, <2>6, <2>7, <2>8, StateEffect
<1>6. QED
  BY <1>3, <1>4, <1>5

(* A step of a bill. *)
LEMMA BillMoney ==
  ASSUME CoverInv, NEW u \in Users, NEW b \in Bills, BillStep(u, b)
  PROVE  T!Next
<1> DEFINE r == bills[b].requisition
           s == Bucket(b)
           x == bills[b].amount
<1>1. TypeOK /\ Confirmed' = Confirmed /\ moves \in Ledgers /\ BillsOfRequisitions
  BY DEF CoverInv, SpendingInv, TypeOK, BillStep, Confirmed, ConfirmedAmount
<1>2. CASE moves' = moves
  BY <1>1, <1>2 DEF T!Next, T!Paperwork, T!vars
<1>3. CASE bills[b].state \in {"draft", "posted"} /\ moves' # moves
  <2>1. /\ bills[b] \in BillRecords /\ bills[b] # NoBill
        /\ r \in Requests /\ x \in Amounts
    BY <1>1, <1>3, BillType DEF TypeOK, BillRecords
  <2>2. Requisition(r) /\ Exists(r)
    BY <1>1, <2>1 DEF BillsOfRequisitions
  <2>3. docs[r] \in Documents(Kind[r]) /\ s = docs[r].source
    BY <1>1, <2>1, <2>2, Present DEF Bucket
  <2>4. s \in Buckets /\ s \in Places /\ s \notin Accounts
    BY <2>2, <2>3, PlacesAre DEF Documents, Endpoints, Requisition
  <2>5. x \in Nat /\ x \in Quantities
    BY <2>1, AmountsAreQuantities
  <2>6. CASE BillPost(u, b)
    <3>1. /\ moves' = Post(moves, "spend", {s}, x)
          /\ docs[r].state = "approved" /\ x <= RemainingBillable(r)
      BY <2>6 DEF BillPost, BillSpent
    <3>2. RemainingBillable(r) <= HeldAt(moves, s)
      BY <2>1, <2>2, <2>3, <3>1, MoneyCovered
    <3>3. RemainingBillable(r) \in Int /\ HeldAt(moves, s) \in Int
      BY <1>1, <2>1, <2>2, <2>4, BilledType, MoneyType
    <3>4. x <= HeldAt(moves, s)
      BY <2>5, <3>1, <3>2, <3>3
    <3> HIDE DEF s, x
    <3>5. Shift(moves, moves', s, s, 0, 0, -x, x)
      BY <1>1, <2>4, <2>5, <3>1, OneLineShifts
    <3>6. T!Spend(s, x)
      BY <1>1, <2>4, <2>5, <3>4, <3>5, ShiftSteps
    <3>7. QED
      BY <2>4, <2>5, <3>6 DEF T!Next, T!Places, Places
  <2>7. CASE BillReverse(u, b)
    <3>1. moves' = Post(moves, "reverse", {s}, x) /\ bills[b].state = "posted"
      BY <2>7 DEF BillReverse, BillReturned
    <3>2. x <= SpentAt(moves, s)
      <4>1. PostedAt(s, b) <= PostedBills(s)
        BY <1>1, PostedShares
      <4>2. PostedAt(s, b) = x
        BY <3>1 DEF PostedAt
      <4>3. SpentAt(moves, s) = PostedBills(s)
        BY <2>4 DEF SpentAt, CoverInv, SpendingInv, SpentIsPostedBills
      <4>4. QED
        BY <4>1, <4>2, <4>3
    <3> HIDE DEF s, x
    <3>3. Shift(moves, moves', s, s, 0, 0, x, -x)
      BY <1>1, <2>4, <2>5, <3>1, OneLineShifts
    <3>4. T!Refund(s, x)
      BY <1>1, <2>4, <2>5, <3>2, <3>3, ShiftSteps
    <3>5. QED
      BY <2>4, <2>5, <3>4 DEF T!Next, T!Places, Places
  <2>8. QED
    BY <1>1, <1>3, <2>6, <2>7, BillEffect
<1>4. QED
  BY <1>1, <1>2, <1>3, BillEffect

(* What the deposits brought in. *)
LEMMA ConfirmedType ==
  ASSUME NEW D \in [Deposits -> DepositRecords \cup {NoDeposit}], NEW i \in Deposits
  PROVE  (IF D[i].state = "confirmed" THEN D[i].amount ELSE 0) \in Nat
<1>1. D[i] \in DepositRecords \/ D[i] = NoDeposit
  OBVIOUS
<1>2. CASE D[i] = NoDeposit
  BY <1>2 DEF NoDeposit
<1>3. CASE D[i] \in DepositRecords
  <2>1. D[i].amount \in Nat
    BY <1>3, DepositAssumption DEF DepositRecords
  <2>2. QED
    BY <2>1
<1>4. QED
  BY <1>1, <1>2, <1>3

(* A step of a deposit changes what it alone counts for. *)
LEMMA ConfirmedChange ==
  ASSUME TypeOK, TypeOK', NEW i \in Deposits,
         \A j \in Deposits \ {i} : deposits'[j] = deposits[j]
  PROVE  /\ ConfirmedAmount(i) \in Int /\ ConfirmedAmount(i)' \in Int
         /\ Confirmed \in Int
         /\ Confirmed' = Confirmed - ConfirmedAmount(i) + ConfirmedAmount(i)'
<1> DEFINE f == [j \in Deposits |-> ConfirmedAmount(j)]
           g == [j \in Deposits |-> ConfirmedAmount(j)']
<1>1. \A j \in Deposits : ConfirmedAmount(j) \in Nat /\ ConfirmedAmount(j)' \in Nat
  BY ConfirmedType DEF TypeOK, ConfirmedAmount
<1>2. /\ f \in [1 .. NDeposits -> Int] /\ g \in [1 .. NDeposits -> Int]
      /\ NDeposits \in Nat /\ i \in 1 .. NDeposits
  BY <1>1, DepositAssumption DEF Deposits
<1>3. \A j \in 1 .. NDeposits : j # i => g[j] = f[j]
  BY DEF Deposits, ConfirmedAmount
<1>4. f[i] = ConfirmedAmount(i) /\ g[i] = ConfirmedAmount(i)'
  OBVIOUS
<1>5. Confirmed = SumTo(f, NDeposits) /\ Confirmed' = SumTo(g, NDeposits)
  BY DEF Confirmed
<1> HIDE DEF f, g
<1>6. SumTo(g, NDeposits) = SumTo(f, NDeposits) - f[i] + g[i]
  BY <1>2, <1>3, SumChange
<1>7. SumTo(f, NDeposits) \in Int
  <2>1. NDeposits \in 0 .. NDeposits
    BY <1>2
  <2>2. QED
    BY <1>2, <2>1, SumToRec
<1>8. QED
  BY <1>1, <1>4, <1>5, <1>6, <1>7

(* A step of a deposit lets in the money it confirms, or none. *)
LEMMA DepositEffect ==
  ASSUME TypeOK, TypeOK', NEW u \in Users, NEW i \in Deposits, DepositStep(u, i)
  PROVE  \/ moves' = moves /\ Confirmed' = Confirmed
         \/ \E a \in Accounts, x \in DepositAmounts :
              moves' = Post(moves, "incoming", {a}, x) /\ Confirmed' = Confirmed + x
<1> DEFINE Effect == \/ moves' = moves /\ Confirmed' = Confirmed
                     \/ \E a \in Accounts, x \in DepositAmounts :
                          moves' = Post(moves, "incoming", {a}, x) /\ Confirmed' = Confirmed + x
<1>1. deposits \in [Deposits -> DepositRecords \cup {NoDeposit}]
  BY DEF TypeOK
<1>2. \A j \in Deposits \ {i} : deposits'[j] = deposits[j]
  BY <1>1 DEF DepositStep, DepositAction, KeyInDeposit, EmailDeposit, CreateDeposit,
              InsertDeposit, EditDeposit, ActionVerify, ActionConfirm
<1>3. /\ ConfirmedAmount(i) \in Int /\ ConfirmedAmount(i)' \in Int /\ Confirmed \in Int
      /\ Confirmed' = Confirmed - ConfirmedAmount(i) + ConfirmedAmount(i)'
  BY <1>2, ConfirmedChange
<1>4. ASSUME moves' = moves, ConfirmedAmount(i) = 0, ConfirmedAmount(i)' = 0
      PROVE  Effect
  BY <1>3, <1>4
<1>5. ASSUME NEW state \in {"draft", "pending"}, NEW a, NEW amount, NEW ref,
             InsertDeposit(i, state, a, amount, ref)
      PROVE  Effect
  <2>1. moves' = moves /\ deposits[i].state = "none" /\ deposits'[i].state = state
    BY <1>1, <1>5 DEF InsertDeposit, NoDeposit
  <2>2. QED
    BY <1>4, <2>1 DEF ConfirmedAmount
<1>6. ASSUME NEW a, NEW amount, NEW ref, EditDeposit(u, i, a, amount, ref)
      PROVE  Effect
  <2>1. deposits[i] \in DepositRecords
    BY <1>1, <1>6 DEF EditDeposit, NoDeposit
  <2>2. moves' = moves /\ deposits[i].state = "draft" /\ deposits'[i].state = "draft"
    BY <1>1, <1>6, <2>1 DEF EditDeposit, DepositRecords
  <2>3. QED
    BY <1>4, <2>2 DEF ConfirmedAmount
<1>7. CASE ActionVerify(u, i)
  <2>1. deposits[i] \in DepositRecords
    BY <1>1, <1>7 DEF ActionVerify, NoDeposit
  <2>2. moves' = moves /\ deposits[i].state = "pending" /\ deposits'[i].state = "draft"
    BY <1>1, <1>7, <2>1 DEF ActionVerify, DepositRecords
  <2>3. QED
    BY <1>4, <2>2 DEF ConfirmedAmount
<1>8. CASE ActionConfirm(u, i)
  <2> DEFINE a == deposits[i].account
             x == deposits[i].amount
  <2>1. deposits[i] \in DepositRecords
    BY <1>1, <1>8 DEF ActionConfirm, NoDeposit
  <2>2. a \in Accounts /\ x \in DepositAmounts /\ x \in Nat
    BY <2>1, DepositAssumption DEF DepositRecords
  <2>3. moves' = Post(moves, "incoming", {a}, x)
    BY <1>8 DEF ActionConfirm
  <2>4. deposits[i].state = "draft" /\ deposits'[i].state = "confirmed"
        /\ deposits'[i].amount = x
    BY <1>1, <1>8, <2>1 DEF ActionConfirm, DepositRecords
  <2>5. ConfirmedAmount(i) = 0 /\ ConfirmedAmount(i)' = x
    BY <2>4 DEF ConfirmedAmount
  <2> HIDE DEF a, x
  <2>6. Confirmed' = Confirmed + x
    BY <1>3, <2>2, <2>5
  <2>7. QED
    BY <2>2, <2>3, <2>6
<1>9. QED
  BY <1>5, <1>6, <1>7, <1>8
     DEF DepositStep, DepositAction, KeyInDeposit, EmailDeposit, CreateDeposit

(* A step of a deposit. *)
LEMMA DepositMoney ==
  ASSUME CoverInv, TypeOK', NEW u \in Users, NEW i \in Deposits, DepositStep(u, i)
  PROVE  T!Next
<1>1. TypeOK /\ moves \in Ledgers
  BY DEF CoverInv, TypeOK
<1>2. CASE moves' = moves /\ Confirmed' = Confirmed
  BY <1>2 DEF T!Next, T!Paperwork, T!vars
<1>3. ASSUME NEW a \in Accounts, NEW x \in DepositAmounts,
             moves' = Post(moves, "incoming", {a}, x), Confirmed' = Confirmed + x
      PROVE  T!Next
  <2>1. a \in Places /\ x \in Nat /\ x \in Quantities
    BY DepositAssumption, QuantitiesAssumption, PlacesAre
  <2>2. Shift(moves, moves', a, a, x, 0, 0, 0)
    BY <1>1, <1>3, <2>1, OneLineShifts
  <2>3. T!Receive(a, x)
    BY <1>1, <1>3, <2>1, <2>2, ShiftSteps
  <2>4. QED
    BY <2>1, <2>3 DEF T!Next, T!Places, Places
<1>4. QED
  BY <1>1, <1>2, <1>3, DepositEffect

-----------------------------------------------------------------------------
(* The refinement. *)

LEMMA TreasuryInit ==
  ASSUME Init
  PROVE  T!Init
<1>1. \A p \in Places, t \in MoveTypes : moves[p][t] = 0
  BY DEF Init, EmptyLedger
<1>2. \A p \in Places : FreeAt(moves, p) = 0 /\ HeldAt(moves, p) = 0 /\ SpentAt(moves, p) = 0
  BY <1>1 DEF FreeAt, HeldAt, SpentAt, Unassigned, OnHold, Available, RequisitionHold,
              TransferHold, Spent, Allocated, TransferIn, TransferOut, MoveTypes
<1>3. \A i \in 1 .. NDeposits : [j \in Deposits |-> ConfirmedAmount(j)][i] = 0
  BY DEF Init, ConfirmedAmount, NoDeposit, Deposits
<1>4. [j \in Deposits |-> ConfirmedAmount(j)] \in [1 .. NDeposits -> Int]
  BY <1>3 DEF Deposits
<1>5. Confirmed = 0
  BY <1>3, <1>4, SumZero, DepositAssumption DEF Confirmed
<1>6. QED
  BY <1>2, <1>5 DEF T!Init, T!Nothing, T!Places, Places

(* What the steps rely on always holds. *)
LEMMA Covered == Spec => []CoverInv
<1>1. Init => SpendingInv
  BY SpendingInit
<1>2. TypeOK /\ TypeOK' /\ SpendingInv /\ [Next]_vars => SpendingInv'
  BY SpendingStep
<1>3. TypeOK /\ AllocationHoldsCovered /\ AccountsSolvent /\ TransferHoldsCovered /\ SpendingInv
      => CoverInv
  BY DEF CoverInv, AccountInv, AllocationHoldsCovered, AccountsSolvent, NonNegativeAccount
<1>4. QED
  BY <1>1, <1>2, <1>3, TypeCorrect, AccountsSafe, TransfersCovered, PTL DEF Spec

LEMMA TreasuryNext ==
  ASSUME TypeOK', CoverInv, [Next]_vars
  PROVE  [T!Next]_(T!vars)
<1>1. ASSUME moves' = moves, deposits' = deposits
      PROVE  T!Next
  <2>1. Confirmed' = Confirmed
    BY <1>1 DEF Confirmed, ConfirmedAmount
  <2>2. QED
    BY <1>1, <2>1 DEF T!Next, T!Paperwork, T!vars
<1>2. ASSUME NEW u \in Users, NEW r \in Requests, RequestStep(u, r)
      PROVE  T!Next
  BY <1>2, EndsMoney, RequisitionMoney
<1>3. ASSUME NEW u \in Users, NEW b \in Bills, BillStep(u, b)
      PROVE  T!Next
  BY <1>3, BillMoney
<1>4. ASSUME NEW u \in Users, NEW i \in Deposits, DepositStep(u, i)
      PROVE  T!Next
  BY <1>4, DepositMoney
<1>5. ASSUME NEW u \in Users, NEW k \in EditableRules, RuleStep(u, k)
      PROVE  T!Next
  BY <1>1, <1>5 DEF RuleStep, ToggleRule
<1>6. CASE UNCHANGED vars
  BY <1>1, <1>6 DEF vars
<1>7. QED
  BY <1>2, <1>3, <1>4, <1>5, <1>6 DEF Next

(* Every step of every user, administrators included and in any order, has *)
(* one of the effects the treasury allows: money is only ever held if it   *)
(* is free, released, moved or spent if it is held, and refunded if it was *)
(* spent.                                                                  *)
THEOREM TreasuryImplemented == Spec => ImplementsTreasury
<1>1. Init => T!Init
  BY TreasuryInit
<1>2. CoverInv /\ CoverInv' /\ [Next]_vars => [T!Next]_(T!vars)
  BY TreasuryNext DEF CoverInv
<1>3. QED
  BY <1>1, <1>2, Covered, PTL DEF Spec, ImplementsTreasury, T!Spec

-----------------------------------------------------------------------------
(* What the treasury promises. *)

TP == INSTANCE TreasuryProofs WITH
        NPlaces <- NPlaces,
        Quantities <- Quantities,
        MayUndo <- \E u \in Users : HasGroup(u, "admin"),
        free <- [p \in Places |-> FreeAt(moves, p)],
        held <- [p \in Places |-> HeldAt(moves, p)],
        spent <- [p \in Places |-> SpentAt(moves, p)],
        income <- Confirmed

LEMMA TreasuryConstants == TP!ConstantsOK
BY LedgerAssumption, QuantitiesAssumption DEF TP!ConstantsOK, NPlaces

LEMMA TreasurySteps ==
  /\ T!Init => TP!Init
  /\ [T!Next]_(T!vars) => [TP!Next]_(TP!vars)
<1>1. T!Init => TP!Init
  BY DEF T!Init, TP!Init, T!Nothing, TP!Nothing, T!Places, TP!Places
<1>2. [T!Next]_(T!vars) => [TP!Next]_(TP!vars)
  BY DEF T!Next, T!vars, T!Places, T!Paperwork, T!Receive, T!Hold, T!Release, T!Spend,
         T!Refund, T!Move, T!Undo, TP!Next, TP!vars, TP!Places, TP!Paperwork, TP!Receive,
         TP!Hold, TP!Release, TP!Spend, TP!Refund, TP!Move, TP!Undo
<1>3. QED
  BY <1>1, <1>2

(* The promise of BR-04 that Project._check_non_negative() repeats: without *)
(* an administrator, who alone can take an approved allocation or transfer *)
(* back, no balance of a bucket is ever negative.  With one, some are.     *)
THEOREM BucketsStaySolvent ==
  ASSUME \A u \in Users : ~HasGroup(u, "admin")
  PROVE  Spec => []BucketsSolvent
<1>1. TP!Spec => []TP!Solvent
  BY TreasuryConstants, TP!TreasurySafe, PTL
<1>2. CoverInv /\ TP!Solvent => BucketsSolvent
  <2>1. SUFFICES ASSUME CoverInv, TP!Solvent, NEW b \in Buckets
                 PROVE  NonNegativeBucket(moves, b)
    BY DEF BucketsSolvent
  <2>2. TypeOK /\ moves \in Ledgers /\ b \in Places /\ b \notin Accounts
    BY <2>1, PlacesAre DEF CoverInv, TypeOK
  <2>3. Available(moves, b) >= 0 /\ Spent(moves, b) >= 0
    BY <2>1, <2>2 DEF TP!Solvent, TP!Places, Places, FreeAt, SpentAt
  <2>4. /\ RequisitionHold(moves, b) \in Int /\ TransferHold(moves, b) \in Int
        /\ RequisitionHold(moves, b) >= Reserved(b)
        /\ TransferHold(moves, b) >= PendingHold("transfer", b)
    BY <2>1, <2>2, BalancesType
       DEF CoverInv, SpendingInv, RequisitionHoldsCovered, TransferHoldsCovered
  <2>5. Reserved(b) \in Nat /\ PendingHold("transfer", b) \in Nat
    BY <2>1, <2>2, ReservedShares, PendingHoldType DEF CoverInv
  <2>6. QED
    BY <2>3, <2>4, <2>5 DEF NonNegativeBucket
<1>3. QED
  BY <1>1, <1>2, TreasurySteps, TreasuryImplemented, Covered, PTL
     DEF ImplementsTreasury, T!Spec, TP!Spec

(* No call of anybody creates or loses money (BR-01): what the accounts    *)
(* and buckets hold in all their balances is what the confirmed deposits   *)
(* brought in.                                                             *)
THEOREM MoneyIsConserved == Spec => []MoneyConserved
<1>1. TP!Spec => []TP!Conserved
  BY TreasuryConstants, TP!TreasurySafe, PTL
<1>2. TypeOK /\ TP!Conserved => MoneyConserved
  <2>1. SUFFICES ASSUME TypeOK, TP!Conserved PROVE MoneyConserved
    OBVIOUS
  <2>2. \A p \in Places : Worth(p) = FreeAt(moves, p) + HeldAt(moves, p) + SpentAt(moves, p)
    <3>1. SUFFICES ASSUME NEW p \in Places
                   PROVE  Worth(p) = FreeAt(moves, p) + HeldAt(moves, p) + SpentAt(moves, p)
      OBVIOUS
    <3>2. FreeAt(moves, p) \in Int /\ HeldAt(moves, p) \in Int /\ SpentAt(moves, p) \in Int
      BY <2>1, MoneyType DEF TypeOK
    <3>3. CASE p \in Accounts
      BY <3>2, <3>3 DEF Worth, FreeAt, HeldAt, SpentAt
    <3>4. CASE p \notin Accounts
      <4>1. moves \in Ledgers
        BY <2>1 DEF TypeOK
      <4>2. \A t \in MoveTypes : moves[p][t] \in Nat
        BY <4>1, TotalsAreNat
      <4>3. /\ Available(moves, p) \in Int /\ RequisitionHold(moves, p) \in Int
            /\ TransferHold(moves, p) \in Int /\ Spent(moves, p) \in Int
        BY <4>2 DEF Available, Allocated, TransferIn, TransferOut, RequisitionHold,
                    TransferHold, Spent, MoveTypes
      <4>4. QED
        BY <3>4, <4>3 DEF Worth, FreeAt, HeldAt, SpentAt
    <3>5. QED
      BY <3>3, <3>4
  <2>3. [p \in Places |-> Worth(p)] =
        [p \in Places |-> [q \in Places |-> FreeAt(moves, q)][p]
                           + [q \in Places |-> HeldAt(moves, q)][p]
                           + [q \in Places |-> SpentAt(moves, q)][p]]
    BY <2>2
  <2>4. \A g, n : TP!SumTo(g, n) = SumTo(g, n)
    BY DEF SumTo, TP!SumTo
  <2>5. TP!Places = Places
    BY DEF TP!Places, Places
  <2>6. QED
    BY <2>1, <2>3, <2>4, <2>5 DEF MoneyConserved, TP!Conserved
<1>3. QED
  BY <1>1, <1>2, TreasurySteps, TypeCorrect, TreasuryImplemented, PTL
     DEF ImplementsTreasury, T!Spec, TP!Spec

=============================================================================
