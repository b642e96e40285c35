---------------------------- MODULE BucketProofs ----------------------------
(***************************************************************************)
(* What buckets hold for requisitions and have spent on bills; and that,   *)
(* where nobody is an administrator, the ledger says exactly what the      *)
(* documents say.                                                          *)
(***************************************************************************)
EXTENDS FundManagementProofs

-----------------------------------------------------------------------------
(* The balances. *)

(* The lines that leave requisition holds and spent money as they are.     *)
SpendingUntouched(m, n) ==
  \A b \in Buckets : /\ RequisitionHold(n, b) = RequisitionHold(m, b)
                     /\ Spent(n, b) = Spent(m, b)

LEMMA NoSpendingLines ==
  ASSUME NEW m \in Ledgers, NEW type \in MoveTypes, NEW places, NEW amount \in Nat,
         type \notin {"req_hold", "req_release", "spend", "reverse"}
  PROVE  SpendingUntouched(m, Post(m, type, places, amount))
<1> DEFINE n == Post(m, type, places, amount)
<1>1. SUFFICES ASSUME NEW b \in Buckets
               PROVE  RequisitionHold(n, b) = RequisitionHold(m, b) /\ Spent(n, b) = Spent(m, b)
  BY DEF SpendingUntouched
<1>2. /\ Change(type, {"req_hold", "reverse"}, {"req_release", "spend"}, amount) = 0
      /\ Change(type, {"spend"}, {"reverse"}, amount) = 0
  BY DEF Change
<1>3. QED
  BY <1>2, BucketPost

(* The hooks of a requisition move its amount at its bucket, and closing   *)
(* it what is left to bill.                                                *)
LEMMA RequisitionHooks ==
  ASSUME TypeOK, NEW r \in Requests, Exists(r), NEW b \in Buckets
  PROVE  LET here(x) == IF docs[r].source = b THEN x ELSE 0
         IN  /\ RequisitionHold(moves, b) \in Int
             /\ RequisitionHold(RequisitionHeld(r), b)
                  = RequisitionHold(moves, b) + here(docs[r].amount)
             /\ RequisitionHold(RequisitionRelease(r), b)
                  = RequisitionHold(moves, b) - here(docs[r].amount)
             /\ RemainingBillable(r) >= 0 =>
                  RequisitionHold(Unused(r), b)
                    = RequisitionHold(moves, b) - here(RemainingBillable(r))
             /\ Spent(RequisitionHeld(r), b) = Spent(moves, b)
             /\ Spent(RequisitionRelease(r), b) = Spent(moves, b)
             /\ Spent(Unused(r), b) = Spent(moves, b)
<1> DEFINE amount == docs[r].amount
           s == docs[r].source
           rest == RemainingBillable(r)
           here(x) == IF s = b THEN x ELSE 0
<1>1. moves \in Ledgers /\ amount \in Nat /\ rest \in Int
  BY Present, BilledType, RequestAssumption DEF TypeOK, Documents
<1>2. RequisitionHold(moves, b) \in Int /\ Spent(moves, b) \in Int
  BY <1>1, BalancesType
<1>3. b \in {s} <=> s = b
  OBVIOUS
<1>4. ASSUME NEW x \in Nat
      PROVE  /\ RequisitionHold(Post(moves, "req_hold", {s}, x), b)
                  = RequisitionHold(moves, b) + here(x)
             /\ RequisitionHold(Post(moves, "req_release", {s}, x), b)
                  = RequisitionHold(moves, b) + here(-x)
             /\ Spent(Post(moves, "req_hold", {s}, x), b) = Spent(moves, b)
             /\ Spent(Post(moves, "req_release", {s}, x), b) = Spent(moves, b)
  BY <1>1, <1>2, <1>3, BucketPost DEF MoveTypes, Change
<1>5. /\ RequisitionHold(RequisitionHeld(r), b) = RequisitionHold(moves, b) + here(amount)
      /\ RequisitionHold(RequisitionRelease(r), b) = RequisitionHold(moves, b) + here(-amount)
      /\ Spent(RequisitionHeld(r), b) = Spent(moves, b)
      /\ Spent(RequisitionRelease(r), b) = Spent(moves, b)
  BY <1>1, <1>4 DEF RequisitionHeld, RequisitionRelease
<1>6. CASE rest > 0
  <2>1. rest \in Nat /\ Unused(r) = Post(moves, "req_release", {s}, rest)
    BY <1>1, <1>6 DEF Unused
  <2> HIDE DEF rest, amount, s
  <2>2. /\ RequisitionHold(Unused(r), b) = RequisitionHold(moves, b) + here(-rest)
        /\ Spent(Unused(r), b) = Spent(moves, b)
    BY <1>4, <2>1
  <2>3. QED
    BY <1>1, <1>2, <1>5, <2>2 DEF rest, amount, s
<1>7. CASE ~(rest > 0)
  <2>1. Unused(r) = moves
    BY <1>7 DEF Unused
  <2>2. rest >= 0 => rest = 0
    BY <1>1, <1>7
  <2> HIDE DEF rest, amount, s
  <2>3. QED
    BY <1>1, <1>2, <1>5, <2>1, <2>2 DEF rest, amount, s
<1>8. QED
  BY <1>6, <1>7

(* The other kinds of request leave requisition holds and spent money alone. *)
LEMMA NoSpendingHooks ==
  ASSUME TypeOK, NEW u \in Users, NEW r \in Requests, RequestStep(u, r), ~Requisition(r)
  PROVE  SpendingUntouched(moves, moves')
<1> DEFINE s == docs[r].source
           t == docs[r].target
           x == docs[r].amount
<1>1. moves \in Ledgers /\ (Exists(r) => x \in Nat)
  BY Present, RequestAssumption DEF TypeOK, Documents
<1>2. SpendingUntouched(moves, moves)
  BY DEF SpendingUntouched
<1>3. ASSUME Exists(r)
      PROVE  /\ SpendingUntouched(moves, AllocationHold(r))
             /\ SpendingUntouched(moves, AllocationAssign(r))
             /\ SpendingUntouched(moves, AllocationRelease(r))
             /\ SpendingUntouched(moves, AllocationReverse(r))
             /\ SpendingUntouched(moves, TransferHeld(r))
             /\ SpendingUntouched(moves, TransferRelease(r))
  BY <1>1, <1>3, NoSpendingLines
     DEF AllocationHold, AllocationAssign, AllocationRelease, AllocationReverse,
         TransferHeld, TransferRelease, MoveTypes
<1>4. ASSUME Exists(r)
      PROVE  /\ SpendingUntouched(moves, TransferSettle(r))
             /\ SpendingUntouched(moves, TransferReverse(r))
  <2> DEFINE settled == Post(moves, "transfer_settle", {s}, x)
             returned == Post(moves, "transfer_in_reverse", {t}, x)
  <2>1. settled \in Ledgers /\ returned \in Ledgers
    BY <1>1, <1>4, PostAdds DEF MoveTypes
  <2>2. SpendingUntouched(moves, settled) /\ SpendingUntouched(moves, returned)
    BY <1>1, <1>4, NoSpendingLines DEF MoveTypes
  <2>3. SpendingUntouched(settled, TransferSettle(r))
    BY <1>1, <1>4, <2>1, NoSpendingLines DEF TransferSettle, MoveTypes
  <2>4. SpendingUntouched(returned, TransferReverse(r))
    BY <1>1, <1>4, <2>1, NoSpendingLines DEF TransferReverse, MoveTypes
  <2>5. QED
    BY <2>2, <2>3, <2>4 DEF SpendingUntouched
<1>5. CASE Prepare(u, r)
  BY <1>2, <1>5 DEF Prepare, Create, EditDraft, CancelDraft, ActionResetToDraft
<1>6. CASE Submit(u, r)
  BY <1>3, <1>6
     DEF Submit, AllocationSubmit, TransferSubmit, RequisitionSubmit, ActionSubmit
<1>7. CASE Approve(u, r)
  BY <1>2, <1>3, <1>4, <1>7
     DEF Approve, AllocationApprove, TransferApprove, RequisitionApprove, ActionApprove
<1>8. CASE Reject(u, r)
  BY <1>3, <1>8 DEF Reject, AllocationReject, TransferReject, RequisitionReject, ActionReject
<1>9. CASE Cancel(u, r)
  BY <1>3, <1>9
     DEF Cancel, AllocationCancel, TransferCancel, RequisitionCancel, CancelPending
<1>10. CASE CancelFinal(u, r)
  BY <1>3, <1>4, <1>10
     DEF CancelFinal, AllocationCancelApproved, TransferCancelApproved,
         RequisitionCancelApproved, CancelApproved
<1>11. CASE ActionClose(u, r)
  BY <1>11 DEF ActionClose
<1>12. QED
  BY <1>5, <1>6, <1>7, <1>8, <1>9, <1>10, <1>11 DEF RequestStep

-----------------------------------------------------------------------------
(* What a step does to a request, by the states it leads through. *)

FinalStates == {"approved", "closed"}
IdleStates == {"none", "draft", "rejected", "cancelled"}

(* What follows a level that is not the last is the second or third stage. *)
LEMMA NextStage ==
  ASSUME TypeOK, NEW r \in Requests, Exists(r), NEW i \in CurrentLevel(r),
         LevelIndex(r, i) + 1 <= Len(Levels(r))
  PROVE  LevelIndex(r, i) + 1 \in 2 .. 3
<1>1. PICK n \in 1 .. 3 : Levels(r) \in [1 .. n -> LevelCodes]
  BY LevelsType DEF TypeOK, Levels
<1>2. Len(Levels(r)) \in 1 .. 3 /\ i \in 1 .. 3
  BY <1>1 DEF CurrentLevel
<1>3. LevelIndex(r, i) \in 1 .. i
  BY <1>2, LevelIndexType
<1> DEFINE k == LevelIndex(r, i)
           len == Len(Levels(r))
<1> HIDE DEF k, len
<1>4. k \in 1 .. i /\ i \in 1 .. 3 /\ len \in 1 .. 3 /\ k + 1 <= len
  BY <1>2, <1>3 DEF k, len
<1>5. k + 1 \in 2 .. 3
  BY <1>4
<1>6. QED
  BY <1>5 DEF k

(* The state says whether a request is being prepared, pending or final,   *)
(* and only a request that is prepared changes its terms.                  *)
LEMMA StateEffect ==
  ASSUME TypeOK, NEW u \in Users, NEW r \in Requests, RequestStep(u, r)
  PROVE  /\ \A q \in Requests \ {r} : docs'[q] = docs[q]
         /\ \/ /\ Prepare(u, r) /\ moves' = moves
               /\ docs[r].state \in IdleStates
               /\ docs'[r].state \in {"draft", "cancelled"}
            \/ /\ Submit(u, r) /\ Exists(r) /\ SameTerms(docs[r], docs'[r])
               /\ docs[r].state = "draft" /\ docs'[r].state = "submitted"
            \/ /\ Approve(u, r) /\ Exists(r) /\ SameTerms(docs[r], docs'[r])
               /\ Pending(r)
               /\ \/ Pending(r)' /\ moves' = moves
                  \/ docs'[r].state = "approved"
            \/ /\ Reject(u, r) \/ Cancel(u, r)
               /\ Exists(r) /\ SameTerms(docs[r], docs'[r])
               /\ Pending(r) /\ docs'[r].state \in {"rejected", "cancelled"}
            \/ /\ CancelFinal(u, r) /\ Exists(r) /\ SameTerms(docs[r], docs'[r])
               /\ docs[r].state = "approved" /\ docs'[r].state = "cancelled"
            \/ /\ ActionClose(u, r) /\ Exists(r) /\ SameTerms(docs[r], docs'[r])
               /\ docs[r].state = "approved" /\ docs'[r].state = "closed"
<1>1. /\ DOMAIN docs = Requests
      /\ Exists(r) => docs[r] \in [state : States, amount : Amounts, source : Places,
                                   target : Places \cup {NoPlace}, by : Users,
                                   posted : BOOLEAN]
  BY Present DEF TypeOK, Documents
<1>2. \A q \in Requests \ {r} : docs'[q] = docs[q]
  BY RequestEffect
<1>3. CASE Prepare(u, r)
  <2>1. CASE \E amount \in Amounts, ends \in Endpoints(Kind[r]) : Create(u, r, amount, ends)
    BY <1>1, <1>2, <1>3, <2>1 DEF Create, Exists, NoDoc, IdleStates
  <2>2. CASE \E amount \in Amounts, ends \in Endpoints(Kind[r]) : EditDraft(u, r, amount, ends)
    BY <1>1, <1>2, <1>3, <2>2 DEF EditDraft, IdleStates
  <2>3. CASE CancelDraft(u, r)
    BY <1>1, <1>2, <1>3, <2>3 DEF CancelDraft, IdleStates
  <2>4. CASE ActionResetToDraft(u, r)
    BY <1>1, <1>2, <1>3, <2>4 DEF ActionResetToDraft, IdleStates
  <2>5. QED
    BY <1>3, <2>1, <2>2, <2>3, <2>4 DEF Prepare
<1>4. CASE Submit(u, r)
  BY <1>1, <1>2, <1>4
     DEF Submit, AllocationSubmit, TransferSubmit, RequisitionSubmit, ActionSubmit, SameTerms
<1>5. CASE Approve(u, r)
  <2>1. PICK final : ActionApprove(u, r, final)
    BY <1>5 DEF Approve, AllocationApprove, TransferApprove, RequisitionApprove
  <2>2. Exists(r)
    BY <2>1 DEF ActionApprove
  <2>3. PICK i \in CurrentLevel(r) :
          LET next == LevelIndex(r, i) + 1
          IN  \/ docs' = [docs EXCEPT ![r].state = "approved", ![r].posted = TRUE]
              \/ /\ next <= Len(Levels(r))
                 /\ docs' = [docs EXCEPT ![r].state = StageStates[next]]
                 /\ moves' = moves
    BY <2>1 DEF ActionApprove
  <2>4. i \in 1 .. 3 /\ StageStates[i] = docs[r].state
    BY <2>2, <2>3, HistoryType DEF CurrentLevel, Results
  <2>5. Pending(r)
    BY <2>4 DEF Pending, PendingStates, StageStates
  <2>6. CASE docs' = [docs EXCEPT ![r].state = "approved", ![r].posted = TRUE]
    BY <1>1, <1>2, <1>5, <2>2, <2>5, <2>6 DEF SameTerms
  <2>7. CASE /\ LevelIndex(r, i) + 1 <= Len(Levels(r))
             /\ docs' = [docs EXCEPT ![r].state = StageStates[LevelIndex(r, i) + 1]]
             /\ moves' = moves
    <3>1. LevelIndex(r, i) + 1 \in 2 .. 3
      BY <2>2, <2>3, <2>7, NextStage
    <3>2. StageStates[LevelIndex(r, i) + 1] \in PendingStates
      BY <3>1 DEF StageStates, PendingStates
    <3>3. Pending(r)'
      BY <1>1, <2>2, <2>7, <3>2 DEF Pending
    <3>4. QED
      BY <1>1, <1>2, <1>5, <2>2, <2>5, <2>7, <3>3 DEF SameTerms
  <2>8. QED
    BY <2>3, <2>6, <2>7
<1>6. CASE Reject(u, r) \/ Cancel(u, r)
  <2>1. /\ Exists(r)
        /\ docs' = [docs EXCEPT ![r].state = "rejected"]
             \/ docs' = [docs EXCEPT ![r].state = "cancelled"]
    BY <1>6 DEF Reject, AllocationReject, TransferReject, RequisitionReject, ActionReject,
                Cancel, AllocationCancel, TransferCancel, RequisitionCancel, CancelPending
  <2>2. Pending(r)
    <3>1. CASE Reject(u, r)
      <4>1. PICK i \in CurrentLevel(r) : TRUE
        BY <3>1 DEF Reject, AllocationReject, TransferReject, RequisitionReject, ActionReject
      <4>2. i \in 1 .. 3 /\ StageStates[i] = docs[r].state
        BY <2>1, <4>1, HistoryType DEF CurrentLevel, Results
      <4>3. QED
        BY <4>2 DEF Pending, PendingStates, StageStates
    <3>2. CASE Cancel(u, r)
      BY <3>2 DEF Cancel, AllocationCancel, TransferCancel, RequisitionCancel, CancelPending
    <3>3. QED
      BY <1>6, <3>1, <3>2
  <2>3. QED
    BY <1>1, <1>2, <1>6, <2>1, <2>2 DEF SameTerms, IdleStates
<1>7. CASE CancelFinal(u, r)
  BY <1>1, <1>2, <1>7
     DEF CancelFinal, AllocationCancelApproved, TransferCancelApproved,
         RequisitionCancelApproved, CancelApproved, SameTerms
<1>8. CASE ActionClose(u, r)
  BY <1>1, <1>2, <1>8 DEF ActionClose, SameTerms
<1>9. QED
  BY <1>3, <1>4, <1>5, <1>6, <1>7, <1>8 DEF RequestStep

-----------------------------------------------------------------------------
(* What is billed, reserved and spent. *)

(* Bills are of requisitions that exist. *)
BillsOfRequisitions ==
  \A b \in Bills : bills[b] # NoBill =>
    Requisition(bills[b].requisition) /\ Exists(bills[b].requisition)

SpendingInv ==
  /\ RequisitionHoldsCovered
  /\ SpentIsPostedBills
  /\ BilledWithinApproved
  /\ BillsOfRequisitions

Unbilled(r) ==
  \A b \in Bills : bills[b].state = "posted" => bills[b].requisition # r

(* A bill has an amount, and a requisition. *)
LEMMA BillType ==
  ASSUME NEW bill \in BillRecords \cup {NoBill}
  PROVE  bill.state \in {"draft", "posted", "cancelled"} =>
           /\ bill # NoBill
           /\ bill \in BillRecords
           /\ bill.amount \in Nat \ {0}
           /\ bill.requisition \in Requests
<1>1. NoBill.state = "none"
  BY DEF NoBill
<1>2. QED
  BY <1>1, RequestAssumption DEF BillRecords

(* Each bill's share of what is billed. *)
LEMMA BilledShares ==
  ASSUME TypeOK, NEW r \in Requests
  PROVE  /\ Billed(r) \in Nat
         /\ \A b \in Bills : /\ PostedAmount(b, r) \in Nat
                             /\ PostedAmount(b, r) <= Billed(r)
<1> DEFINE f == [b \in Bills |-> PostedAmount(b, r)]
<1>1. \A b \in Bills : PostedAmount(b, r) \in Nat
  BY BillType DEF PostedAmount, TypeOK
<1>2. f \in [1 .. NBills -> Nat]
  BY <1>1 DEF Bills
<1>3. \A b \in 1 .. NBills : f[b] <= SumTo(f, NBills)
  BY <1>2, SumNat, BillAssumption
<1>4. \A b \in Bills : PostedAmount(b, r) <= Billed(r)
  BY <1>3 DEF Bills, Billed
<1>5. QED
  BY <1>1, <1>4, BilledType

(* Nothing is billed if no bill is posted. *)
LEMMA BilledZero ==
  ASSUME TypeOK, NEW r \in Requests
  PROVE  Unbilled(r) <=> Billed(r) = 0
<1> DEFINE f == [b \in Bills |-> PostedAmount(b, r)]
<1>1. ASSUME Unbilled(r) PROVE Billed(r) = 0
  <2>1. f \in [1 .. NBills -> Int]
    BY BilledShares DEF Bills
  <2>2. \A b \in 1 .. NBills : f[b] = 0
    BY <1>1 DEF Bills, Unbilled, PostedAmount
  <2>3. SumTo(f, NBills) = 0
    BY <2>1, <2>2, SumZero, BillAssumption
  <2>4. QED
    BY <2>3 DEF Billed
<1>2. ASSUME Billed(r) = 0 PROVE Unbilled(r)
  <2>1. SUFFICES ASSUME NEW b \in Bills, bills[b].state = "posted", bills[b].requisition = r
                 PROVE  FALSE
    BY DEF Unbilled
  <2>2. PostedAmount(b, r) = bills[b].amount /\ bills[b].amount \in Nat \ {0}
    BY <2>1, BillType DEF PostedAmount, TypeOK
  <2>3. PostedAmount(b, r) <= 0
    BY <1>2, BilledShares
  <2>4. QED
    BY <2>2, <2>3
<1>3. QED
  BY <1>1, <1>2

(* Posting or reversing one bill changes what is billed by its amount.     *)
LEMMA BilledChange ==
  ASSUME TypeOK, TypeOK', NEW b \in Bills, NEW r \in Requests,
         \A c \in Bills \ {b} : bills'[c] = bills[c]
  PROVE  /\ Billed(r) \in Nat /\ Billed(r)' \in Nat
         /\ PostedAmount(b, r) \in Nat /\ PostedAmount(b, r)' \in Nat
         /\ Billed(r)' = Billed(r) - PostedAmount(b, r) + PostedAmount(b, r)'
<1> DEFINE f == [c \in Bills |-> PostedAmount(c, r)]
           g == [c \in Bills |-> PostedAmount(c, r)']
<1>1. \A c \in Bills : PostedAmount(c, r) \in Nat
  BY BilledShares
<1>2. \A c \in Bills : PostedAmount(c, r)' \in Nat
  BY BillType DEF PostedAmount, TypeOK
<1>3. \A c \in 1 .. NBills : c # b => g[c] = f[c]
  BY DEF Bills, PostedAmount
<1>4. /\ f \in [1 .. NBills -> Int] /\ g \in [1 .. NBills -> Int]
      /\ g \in [1 .. NBills -> Nat]
  BY <1>1, <1>2 DEF Bills
<1>5. SumTo(g, NBills) = SumTo(f, NBills) - f[b] + g[b]
  BY <1>3, <1>4, SumChange, BillAssumption DEF Bills
<1>6. Billed(r) = SumTo(f, NBills) /\ Billed(r)' = SumTo(g, NBills)
  BY DEF Billed
<1>7. Billed(r)' \in Nat
  BY <1>4, <1>6, SumNat, BillAssumption
<1>8. QED
  BY <1>1, <1>2, <1>5, <1>6, <1>7, BilledShares

(* What is reserved is an integer, and a step of one request, or of its    *)
(* bills, changes it by what changes in its share.                         *)
LEMMA ReservedChange ==
  ASSUME TypeOK, TypeOK', NEW r \in Requests, NEW p,
         \A q \in Requests \ {r} : ReservedAmount(p, q)' = ReservedAmount(p, q)
  PROVE  /\ Reserved(p) \in Int
         /\ ReservedAmount(p, r) \in Int /\ ReservedAmount(p, r)' \in Int
         /\ Reserved(p)' = Reserved(p) - ReservedAmount(p, r) + ReservedAmount(p, r)'
<1> DEFINE f == [q \in Requests |-> ReservedAmount(p, q)]
           g == [q \in Requests |-> ReservedAmount(p, q)']
<1>1. \A q \in Requests : ReservedAmount(p, q) \in Int
  <2>1. \A q \in Requests : Exists(q) => docs[q].amount \in Nat
    BY Present, RequestAssumption DEF Documents
  <2>2. QED
    BY <2>1, BilledType DEF ReservedAmount
<1>2. ReservedAmount(p, r)' \in Int
  <2>1. Exists(r)' => docs'[r].amount \in Nat
    <3>1. Exists(r)' => docs'[r] \in Documents(Kind[r])
      BY DEF TypeOK, Exists
    <3>2. QED
      BY <3>1, RequestAssumption DEF Documents
  <2>2. Billed(r)' \in Int
    <3> DEFINE h == [c \in Bills |-> PostedAmount(c, r)']
    <3>1. h \in [1 .. NBills -> Nat]
      BY BillType DEF PostedAmount, TypeOK, Bills
    <3>2. Billed(r)' = SumTo(h, NBills)
      BY DEF Billed
    <3>3. QED
      BY <3>1, <3>2, SumNat, BillAssumption
  <2>3. QED
    BY <2>1, <2>2 DEF ReservedAmount, RemainingBillable
<1>3. \A q \in 1 .. NRequests : q # r => g[q] = f[q]
  BY DEF Requests
<1>4. f \in [1 .. NRequests -> Int] /\ g \in [1 .. NRequests -> Int]
  BY <1>1, <1>2 DEF Requests
<1>5. SumTo(g, NRequests) = SumTo(f, NRequests) - f[r] + g[r]
  BY <1>3, <1>4, SumChange, RequestAssumption DEF Requests
<1>6. SumTo(f, NRequests) \in Int
  <2>1. NRequests \in Nat /\ NRequests \in 0 .. NRequests
    BY RequestAssumption
  <2> HIDE DEF f
  <2>2. QED
    BY <1>4, <2>1, SumToRec
<1>7. Reserved(p) = SumTo(f, NRequests) /\ Reserved(p)' = SumTo(g, NRequests)
  BY DEF Reserved
<1>8. QED
  BY <1>1, <1>2, <1>5, <1>6, <1>7

(* What the posted bills come to at a bucket changes with each bill.       *)
LEMMA PostedBillsChange ==
  ASSUME TypeOK, TypeOK', NEW b \in Bills, NEW p, docs' = docs,
         \A c \in Bills \ {b} : bills'[c] = bills[c]
  PROVE  /\ PostedBills(p) \in Int
         /\ PostedAt(p, b) \in Int /\ PostedAt(p, b)' \in Int
         /\ PostedBills(p)' = PostedBills(p) - PostedAt(p, b) + PostedAt(p, b)'
<1> DEFINE f == [c \in Bills |-> PostedAt(p, c)]
           g == [c \in Bills |-> PostedAt(p, c)']
<1>1. \A c \in Bills : PostedAt(p, c) \in Int
  BY BillType DEF PostedAt, TypeOK
<1>2. \A c \in Bills : PostedAt(p, c)' \in Int
  BY BillType DEF PostedAt, TypeOK
<1>3. \A c \in 1 .. NBills : c # b => g[c] = f[c]
  BY DEF Bills, PostedAt, Bucket
<1>4. f \in [1 .. NBills -> Int] /\ g \in [1 .. NBills -> Int]
  BY <1>1, <1>2 DEF Bills
<1>5. SumTo(g, NBills) = SumTo(f, NBills) - f[b] + g[b]
  BY <1>3, <1>4, SumChange, BillAssumption DEF Bills
<1>6. SumTo(f, NBills) \in Int
  BY <1>4, SumToRec, BillAssumption
<1>7. PostedBills(p) = SumTo(f, NBills) /\ PostedBills(p)' = SumTo(g, NBills)
  BY DEF PostedBills
<1>8. QED
  BY <1>1, <1>2, <1>5, <1>6, <1>7

-----------------------------------------------------------------------------
(* The invariant. *)

(* Only an approved or closed requisition has posted bills. *)
LEMMA UnbilledUnlessFinal ==
  ASSUME TypeOK, BilledWithinApproved, NEW r \in Requests, docs[r].state \notin FinalStates
  PROVE  Unbilled(r) /\ Billed(r) = 0
<1>1. Unbilled(r)
  BY DEF BilledWithinApproved, Unbilled, FinalStates
<1>2. QED
  BY <1>1, BilledZero

(* What changes on documents moves no bill to another bucket. *)
LEMMA BillsStand ==
  ASSUME TypeOK, TypeOK', BilledWithinApproved, BillsOfRequisitions,
         NEW u \in Users, NEW r \in Requests, RequestStep(u, r)
  PROVE  /\ BilledWithinApproved' /\ BillsOfRequisitions'
         /\ \A q : Billed(q)' = Billed(q)
         /\ \A p : PostedBills(p)' = PostedBills(p)
<1>1. bills' = bills
  BY DEF RequestStep
<1>2. \A q : Billed(q)' = Billed(q)
  BY <1>1 DEF Billed, PostedAmount
<1>3. \A q \in Requests \ {r} : docs'[q] = docs[q]
  BY StateEffect
<1>4. \A q \in Requests : Exists(q) => Exists(q)'
  <2>1. Exists(r) => docs'[r] # NoDoc
    BY StateEffect DEF NoDoc, Pending, PendingStates, SameTerms
  <2>2. QED
    BY <1>3, <2>1 DEF Exists
<1>5. BillsOfRequisitions'
  BY <1>1, <1>4, BillType DEF BillsOfRequisitions, TypeOK, BillRecords
<1>6. CASE Prepare(u, r) /\ docs[r].state \in IdleStates
  <2>1. Unbilled(r) /\ Billed(r) = 0
    BY <1>6, UnbilledUnlessFinal DEF IdleStates, FinalStates
  <2>2. Exists(r)' => docs'[r].amount \in Nat
    <3>1. Exists(r)' => docs'[r] \in Documents(Kind[r])
      BY DEF TypeOK, Exists
    <3>2. QED
      BY <3>1, RequestAssumption DEF Documents
  <2>3. \A q \in Requests : Requisition(q) /\ Exists(q)' => Billed(q)' <= docs'[q].amount
    BY <1>2, <1>3, <2>1, <2>2 DEF BilledWithinApproved, Exists
  <2>4. \A b \in Bills : bills[b].state = "posted" =>
          /\ bills[b].requisition \in Requests \ {r}
          /\ docs'[bills[b].requisition] = docs[bills[b].requisition]
    BY <1>3, <2>1, BillType DEF Unbilled, TypeOK
  <2>5. \A p : PostedBills(p)' = PostedBills(p)
    BY <1>1, <2>4 DEF PostedBills, PostedAt, Bucket
  <2>6. QED
    BY <1>1, <1>2, <1>5, <2>3, <2>4, <2>5 DEF BilledWithinApproved
<1>7. CASE /\ Exists(r) /\ SameTerms(docs[r], docs'[r])
           /\ docs[r].state \in FinalStates => docs'[r].state \in FinalStates \/ Billed(r) = 0
  <2>1. \A q \in Requests : Requisition(q) /\ Exists(q)' => Billed(q)' <= docs'[q].amount
    BY <1>2, <1>3, <1>7 DEF BilledWithinApproved, Exists, SameTerms
  <2>2. ASSUME NEW b \in Bills, bills[b].state = "posted"
        PROVE  /\ docs'[bills[b].requisition].source = docs[bills[b].requisition].source
               /\ docs'[bills[b].requisition].state \in FinalStates
    <3>1. bills[b].requisition \in Requests /\ docs[bills[b].requisition].state \in FinalStates
      BY <2>2, BillType DEF BilledWithinApproved, TypeOK, FinalStates
    <3>2. CASE bills[b].requisition = r
      <4>1. Billed(r) # 0
        BY <2>2, <3>2, BilledZero DEF Unbilled
      <4>2. QED
        BY <1>7, <3>1, <3>2, <4>1 DEF SameTerms
    <3>3. CASE bills[b].requisition # r
      BY <1>3, <3>1, <3>3
    <3>4. QED
      BY <3>2, <3>3
  <2>3. \A p : PostedBills(p)' = PostedBills(p)
    BY <1>1, <2>2 DEF PostedBills, PostedAt, Bucket
  <2>4. QED
    BY <1>1, <1>2, <1>5, <2>1, <2>2, <2>3 DEF BilledWithinApproved, FinalStates
<1>8. ASSUME CancelFinal(u, r), Requisition(r) PROVE Billed(r) = 0
  <2>1. ~(Billed(r) > 0)
    BY <1>8 DEF CancelFinal, AllocationCancelApproved, TransferCancelApproved,
                RequisitionCancelApproved, CancelApproved, Reversible,
                Allocation, Transfer, Requisition
  <2>2. QED
    BY <2>1, BilledType
<1>9. ASSUME ~Requisition(r) PROVE Billed(r) = 0
  <2>1. Unbilled(r)
    BY <1>9, BillType DEF Unbilled, BillsOfRequisitions, TypeOK
  <2>2. QED
    BY <2>1, BilledZero
<1>10. QED
  BY <1>6, <1>7, <1>8, <1>9, StateEffect DEF Pending, PendingStates, FinalStates

(* A requisition's hold follows what it reserves, through its states.      *)
LEMMA RequisitionStep ==
  ASSUME TypeOK, TypeOK', SpendingInv, NEW u \in Users, NEW r \in Requests,
         RequestStep(u, r), Requisition(r), NEW b \in Buckets
  PROVE  /\ RequisitionHold(moves', b) >= Reserved(b)'
         /\ Spent(moves', b) = Spent(moves, b)
<1> DEFINE kept == Reserved(b)
           mine == ReservedAmount(b, r)
           hold == RequisitionHold(moves, b)
           amount == docs[r].amount
           rest == amount - Billed(r)
           here(x) == IF docs[r].source = b THEN x ELSE 0
<1>1. \A q : Billed(q)' = Billed(q)
  BY BillsStand DEF SpendingInv
<1>2. \A q \in Requests \ {r} : docs'[q] = docs[q]
  BY StateEffect
<1>3. \A q \in Requests \ {r} : ReservedAmount(b, q)' = ReservedAmount(b, q)
  BY <1>1, <1>2 DEF ReservedAmount, Exists, Pending, RemainingBillable
<1>4. /\ kept \in Int /\ mine \in Int /\ mine' \in Int
      /\ kept' = kept - mine + mine'
  BY <1>3, ReservedChange
<1>5. hold \in Int /\ hold >= kept
  BY BalancesType DEF TypeOK, SpendingInv, RequisitionHoldsCovered
<1>6. Billed(r) \in Nat /\ (Exists(r) => amount \in Nat /\ rest \in Int /\ rest >= 0)
  <2>1. Exists(r) => amount \in Nat
    BY Present, RequestAssumption DEF Documents
  <2>2. Exists(r) => Billed(r) <= amount
    BY DEF SpendingInv, BilledWithinApproved
  <2>3. QED
    BY <2>1, <2>2, BilledType
<1>7. docs[r].state \notin FinalStates => Billed(r) = 0
  BY UnbilledUnlessFinal DEF SpendingInv
<1>8. /\ docs[r].state \in IdleStates \cup {"closed"} => mine = 0
      /\ docs'[r].state \in IdleStates \cup {"closed"} => mine' = 0
  BY DEF ReservedAmount, RemainingBillable, Pending, PendingStates, IdleStates
<1>9. /\ Exists(r) /\ Pending(r) => mine = here(amount)
      /\ Exists(r) /\ docs[r].state = "approved" => mine = here(rest)
  BY DEF ReservedAmount, RemainingBillable, Pending, PendingStates, Requisition
<1>10. Exists(r) /\ SameTerms(docs[r], docs'[r]) =>
         /\ Pending(r)' => mine' = here(amount)
         /\ docs'[r].state = "approved" => mine' = here(rest)
  <2>1. Pending(r)' \/ docs'[r].state = "approved" => Exists(r)'
    BY DEF Exists, Pending, PendingStates, NoDoc
  <2>2. QED
    BY <1>1, <2>1 DEF ReservedAmount, RemainingBillable, Pending, PendingStates, Requisition,
                      SameTerms
<1> HIDE DEF kept, mine, hold, amount
<1>11. CASE /\ Prepare(u, r) /\ moves' = moves
            /\ docs[r].state \in IdleStates /\ docs'[r].state \in {"draft", "cancelled"}
  BY <1>4, <1>5, <1>8, <1>11 DEF IdleStates, kept, hold
<1>12. CASE /\ Submit(u, r) /\ Exists(r) /\ SameTerms(docs[r], docs'[r])
            /\ docs[r].state = "draft" /\ docs'[r].state = "submitted"
  <2>1. moves' = RequisitionHeld(r)
    BY <1>12 DEF Submit, AllocationSubmit, TransferSubmit, RequisitionSubmit, ActionSubmit,
                 Allocation, Transfer, Requisition
  <2>2. /\ RequisitionHold(moves', b) = hold + here(amount)
        /\ Spent(moves', b) = Spent(moves, b)
    BY <1>12, <2>1, RequisitionHooks DEF hold, amount
  <2>3. mine = 0 /\ mine' = here(amount)
    BY <1>8, <1>10, <1>12 DEF IdleStates, Pending, PendingStates
  <2>4. QED
    BY <1>4, <1>5, <1>6, <1>12, <2>2, <2>3 DEF kept
<1>13. CASE /\ Approve(u, r) /\ Exists(r) /\ SameTerms(docs[r], docs'[r])
            /\ Pending(r)
            /\ \/ Pending(r)' /\ moves' = moves
               \/ docs'[r].state = "approved"
  <2>1. moves' = moves
    BY <1>13 DEF Approve, AllocationApprove, TransferApprove, RequisitionApprove,
                 ActionApprove, Allocation, Transfer, Requisition
  <2>2. docs[r].state \notin FinalStates
    BY <1>13 DEF Pending, PendingStates, FinalStates
  <2>3. mine = here(amount) /\ mine' \in {here(amount), here(rest)}
    BY <1>9, <1>10, <1>13
  <2>4. rest = amount
    BY <1>6, <1>7, <1>13, <2>2
  <2>5. QED
    BY <1>4, <1>5, <2>1, <2>3, <2>4 DEF kept, hold
<1>14. CASE /\ Reject(u, r) \/ Cancel(u, r)
            /\ Exists(r) /\ SameTerms(docs[r], docs'[r])
            /\ Pending(r) /\ docs'[r].state \in {"rejected", "cancelled"}
  <2>1. moves' = RequisitionRelease(r)
    BY <1>14 DEF Reject, AllocationReject, TransferReject, RequisitionReject, ActionReject,
                 Cancel, AllocationCancel, TransferCancel, RequisitionCancel, CancelPending,
                 Allocation, Transfer, Requisition
  <2>2. /\ RequisitionHold(moves', b) = hold - here(amount)
        /\ Spent(moves', b) = Spent(moves, b)
    BY <1>14, <2>1, RequisitionHooks DEF hold, amount
  <2>3. mine = here(amount) /\ mine' = 0
    BY <1>8, <1>9, <1>14 DEF IdleStates
  <2>4. QED
    BY <1>4, <1>5, <1>6, <1>14, <2>2, <2>3 DEF kept
<1>15. CASE /\ CancelFinal(u, r) /\ Exists(r) /\ SameTerms(docs[r], docs'[r])
            /\ docs[r].state = "approved" /\ docs'[r].state = "cancelled"
  <2>1. moves' = RequisitionRelease(r) /\ ~(Billed(r) > 0)
    BY <1>15 DEF CancelFinal, AllocationCancelApproved, TransferCancelApproved,
                 RequisitionCancelApproved, CancelApproved, Reversible,
                 Allocation, Transfer, Requisition
  <2>2. /\ RequisitionHold(moves', b) = hold - here(amount)
        /\ Spent(moves', b) = Spent(moves, b)
    BY <1>15, <2>1, RequisitionHooks DEF hold, amount
  <2>3. mine = here(rest) /\ mine' = 0
    BY <1>8, <1>9, <1>15 DEF IdleStates
  <2>4. rest = amount
    BY <1>6, <1>15, <2>1
  <2>5. QED
    BY <1>4, <1>5, <1>6, <1>15, <2>2, <2>3, <2>4 DEF kept
<1>16. CASE /\ ActionClose(u, r) /\ Exists(r) /\ SameTerms(docs[r], docs'[r])
            /\ docs[r].state = "approved" /\ docs'[r].state = "closed"
  <2>1. moves' = Unused(r) /\ RemainingBillable(r) = rest
    BY <1>16 DEF ActionClose, RemainingBillable, amount
  <2>2. /\ RequisitionHold(moves', b) = hold - here(rest)
        /\ Spent(moves', b) = Spent(moves, b)
    BY <1>6, <1>16, <2>1, RequisitionHooks DEF hold
  <2>3. mine = here(rest) /\ mine' = 0
    BY <1>8, <1>9, <1>16
  <2>4. QED
    BY <1>4, <1>5, <1>6, <1>16, <2>2, <2>3 DEF kept
<1>17. QED
  BY <1>11, <1>12, <1>13, <1>14, <1>15, <1>16, StateEffect

(* A bill is written, posted or reversed, and is always of a requisition.  *)
LEMMA BillEffect ==
  ASSUME TypeOK, BillsOfRequisitions, NEW u \in Users, NEW b \in Bills, BillStep(u, b)
  PROVE  /\ \A c \in Bills \ {b} : bills'[c] = bills[c]
         /\ docs' = docs
         /\ bills'[b] # NoBill => /\ bills'[b].requisition \in Requests
                                  /\ Requisition(bills'[b].requisition)
                                  /\ Exists(bills'[b].requisition)
         /\ \/ /\ moves' = moves
               /\ bills[b].state # "posted" /\ bills'[b].state # "posted"
            \/ /\ BillPost(u, b)
               /\ bills[b].state = "draft" /\ bills'[b].state = "posted"
               /\ bills'[b].amount = bills[b].amount
               /\ bills'[b].requisition = bills[b].requisition
            \/ /\ BillReverse(u, b)
               /\ bills[b].state = "posted" /\ bills'[b].state = "cancelled"
               /\ bills'[b].amount = bills[b].amount
               /\ bills'[b].requisition = bills[b].requisition
<1>1. bills \in [Bills -> BillRecords \cup {NoBill}]
  BY DEF TypeOK
<1>2. bills[b].state \in {"draft", "posted"} =>
        /\ bills[b] \in BillRecords
        /\ bills[b].requisition \in Requests
        /\ Requisition(bills[b].requisition) /\ Exists(bills[b].requisition)
  BY <1>1, BillType DEF BillsOfRequisitions
<1>3. docs' = docs
  BY DEF BillStep, BillCreate, BillEdit, BillPost, BillReverse, BillCancel
<1>4. CASE \E r \in Requests, amount \in Amounts :
             BillCreate(u, b, r, amount) \/ BillEdit(u, b, r, amount)
  <2>1. PICK r \in Requests, amount \in Amounts :
          BillCreate(u, b, r, amount) \/ BillEdit(u, b, r, amount)
    BY <1>4
  <2>2. CASE BillCreate(u, b, r, amount)
    BY <1>1, <1>3, <2>2 DEF BillCreate, NoBill
  <2>3. CASE BillEdit(u, b, r, amount)
    <3>1. bills'[b].state = "draft" /\ bills'[b].requisition = r
      BY <1>1, <1>2, <2>3 DEF BillEdit, BillRecords
    <3>2. QED
      BY <1>1, <1>3, <2>3, <3>1 DEF BillEdit
  <2>4. QED
    BY <2>1, <2>2, <2>3
<1>5. CASE BillPost(u, b)
  BY <1>1, <1>2, <1>3, <1>5 DEF BillPost, BillRecords
<1>6. CASE BillReverse(u, b)
  BY <1>1, <1>2, <1>3, <1>6 DEF BillReverse, BillRecords
<1>7. CASE BillCancel(u, b)
  BY <1>1, <1>2, <1>3, <1>7 DEF BillCancel, BillRecords
<1>8. QED
  BY <1>4, <1>5, <1>6, <1>7 DEF BillStep

(* Posting a bill spends what its requisition has left, reversing it       *)
(* returns it to the hold.                                                 *)
LEMMA BillHooks ==
  ASSUME TypeOK, NEW b \in Bills, bills[b].state \in {"draft", "posted"}, NEW p \in Buckets
  PROVE  LET here == IF Bucket(b) = p THEN bills[b].amount ELSE 0
         IN  /\ RequisitionHold(BillSpent(b), p) = RequisitionHold(moves, p) - here
             /\ Spent(BillSpent(b), p) = Spent(moves, p) + here
             /\ RequisitionHold(BillReturned(b), p) = RequisitionHold(moves, p) + here
             /\ Spent(BillReturned(b), p) = Spent(moves, p) - here
<1> DEFINE amount == bills[b].amount
           here(x) == IF Bucket(b) = p THEN x ELSE 0
<1>1. moves \in Ledgers /\ amount \in Nat
  BY BillType DEF TypeOK
<1>2. RequisitionHold(moves, p) \in Int /\ Spent(moves, p) \in Int
  BY <1>1, BalancesType
<1>3. p \in {Bucket(b)} <=> Bucket(b) = p
  OBVIOUS
<1> HIDE DEF amount
<1>4. /\ RequisitionHold(Post(moves, "spend", {Bucket(b)}, amount), p)
           = RequisitionHold(moves, p) + here(-amount)
      /\ Spent(Post(moves, "spend", {Bucket(b)}, amount), p) = Spent(moves, p) + here(amount)
      /\ RequisitionHold(Post(moves, "reverse", {Bucket(b)}, amount), p)
           = RequisitionHold(moves, p) + here(amount)
      /\ Spent(Post(moves, "reverse", {Bucket(b)}, amount), p) = Spent(moves, p) + here(-amount)
  BY <1>1, <1>3, BucketPost DEF MoveTypes, Change
<1>5. QED
  BY <1>1, <1>2, <1>4 DEF amount, BillSpent, BillReturned

(* Posting and reversing a bill, in whatever state its requisition is.     *)
LEMMA PostedStep ==
  ASSUME TypeOK, TypeOK', SpendingInv, NEW u \in Users, NEW b \in Bills, BillStep(u, b),
         BillPost(u, b) \/ BillReverse(u, b), NEW p
  PROVE  /\ p \in Buckets => /\ RequisitionHold(moves', p) >= Reserved(p)'
                            /\ Spent(moves', p) = PostedBills(p)'
         /\ \A q \in Requests : Requisition(q) /\ Exists(q) => Billed(q)' <= docs[q].amount
<1>1. bills[b] \in BillRecords /\ bills[b] # NoBill /\ bills \in [Bills -> BillRecords \cup {NoBill}]
  BY BillType DEF BillPost, BillReverse, TypeOK
<1>2. PICK r \in Requests, x \in Nat :
        r = bills[b].requisition /\ x = bills[b].amount
  BY <1>1, RequestAssumption DEF BillRecords
<1> DEFINE here(n) == IF docs[r].source = p THEN n ELSE 0
           hold == RequisitionHold(moves, p)
           spending == Spent(moves, p)
<1>3. Requisition(r) /\ Exists(r) /\ docs[r].amount \in Nat
  <2>1. Requisition(r) /\ Exists(r)
    BY <1>1, <1>2 DEF SpendingInv, BillsOfRequisitions
  <2>2. QED
    BY <2>1, Present, RequestAssumption DEF Documents
<1>4. /\ \A c \in Bills \ {b} : bills'[c] = bills[c]
      /\ docs' = docs
      /\ bills'[b].amount = x /\ bills'[b].requisition = r
      /\ \/ BillPost(u, b) /\ bills[b].state = "draft" /\ bills'[b].state = "posted"
         \/ BillReverse(u, b) /\ bills[b].state = "posted" /\ bills'[b].state = "cancelled"
  BY <1>1, <1>2 DEF BillPost, BillReverse, BillRecords
<1>5. /\ Billed(r) \in Nat /\ Billed(r)' \in Nat
      /\ Billed(r)' = Billed(r) - PostedAmount(b, r) + PostedAmount(b, r)'
  BY <1>4, BilledChange
<1>6. \A q \in Requests \ {r} : Billed(q)' = Billed(q)
  <2>1. SUFFICES ASSUME NEW q \in Requests \ {r} PROVE Billed(q)' = Billed(q)
    OBVIOUS
  <2>2. PostedAmount(b, q) = 0 /\ PostedAmount(b, q)' = 0
    BY <1>2, <1>4 DEF PostedAmount
  <2>3. QED
    BY <1>4, <2>2, BilledChange
<1>7. \A q \in Requests \ {r} : ReservedAmount(p, q)' = ReservedAmount(p, q)
  BY <1>4, <1>6 DEF ReservedAmount, RemainingBillable, Exists, Pending
<1>8. /\ Reserved(p) \in Int /\ ReservedAmount(p, r) \in Int /\ ReservedAmount(p, r)' \in Int
      /\ Reserved(p)' = Reserved(p) - ReservedAmount(p, r) + ReservedAmount(p, r)'
  BY <1>7, ReservedChange
<1>9. /\ PostedBills(p) \in Int /\ PostedAt(p, b) \in Int /\ PostedAt(p, b)' \in Int
      /\ PostedBills(p)' = PostedBills(p) - PostedAt(p, b) + PostedAt(p, b)'
  BY <1>4, PostedBillsChange
<1>10. p \in Buckets => /\ hold \in Int /\ hold >= Reserved(p)
                       /\ spending \in Int /\ spending = PostedBills(p)
  BY BalancesType DEF TypeOK, SpendingInv, RequisitionHoldsCovered, SpentIsPostedBills
<1>11. \A q \in Requests : Requisition(q) /\ Exists(q) => Billed(q) <= docs[q].amount
  BY DEF SpendingInv, BilledWithinApproved
<1>12. CASE BillPost(u, b) /\ bills[b].state = "draft" /\ bills'[b].state = "posted"
  <2>1. /\ docs[r].state = "approved" /\ x <= docs[r].amount - Billed(r)
        /\ moves' = BillSpent(b)
    BY <1>2, <1>12 DEF BillPost, RemainingBillable
  <2>2. Billed(r)' = Billed(r) + x
    BY <1>2, <1>4, <1>5, <1>12 DEF PostedAmount
  <2>3. ReservedAmount(p, r)' = ReservedAmount(p, r) - here(x)
    <3>1. /\ ReservedAmount(p, r) = here(docs[r].amount - Billed(r))
          /\ ReservedAmount(p, r)' = here(docs[r].amount - Billed(r)')
      BY <1>3, <1>4, <2>1
         DEF ReservedAmount, RemainingBillable, Pending, PendingStates, Exists, Requisition
    <3>2. QED
      BY <1>2, <1>3, <1>5, <2>2, <3>1
  <2>4. PostedAt(p, b) = 0 /\ PostedAt(p, b)' = here(x)
    BY <1>2, <1>4, <1>12 DEF PostedAt, Bucket
  <2>5. p \in Buckets => /\ RequisitionHold(moves', p) = hold - here(x)
                        /\ Spent(moves', p) = spending + here(x)
    BY <1>2, <1>12, <2>1, BillHooks DEF Bucket
  <2> HIDE DEF hold, spending
  <2>6. p \in Buckets => /\ RequisitionHold(moves', p) >= Reserved(p)'
                        /\ Spent(moves', p) = PostedBills(p)'
    BY <1>8, <1>9, <1>10, <2>3, <2>4, <2>5
  <2>7. \A q \in Requests : Requisition(q) /\ Exists(q) => Billed(q)' <= docs[q].amount
    <3>1. Billed(r)' <= docs[r].amount
      BY <1>2, <1>3, <1>5, <2>1, <2>2
    <3>2. QED
      BY <1>6, <1>11, <3>1
  <2>8. QED
    BY <2>6, <2>7
<1>13. CASE BillReverse(u, b) /\ bills[b].state = "posted" /\ bills'[b].state = "cancelled"
  <2>1. /\ docs[r].state \in FinalStates /\ moves' = BillReturned(b)
    BY <1>2, <1>13 DEF BillReverse, SpendingInv, BilledWithinApproved, FinalStates
  <2>2. Billed(r)' = Billed(r) - x
    BY <1>2, <1>4, <1>5, <1>13 DEF PostedAmount
  <2>3. ReservedAmount(p, r)' \in {ReservedAmount(p, r), ReservedAmount(p, r) + here(x)}
    <3>1. CASE docs[r].state = "approved"
      <4>1. /\ ReservedAmount(p, r) = here(docs[r].amount - Billed(r))
            /\ ReservedAmount(p, r)' = here(docs[r].amount - Billed(r)')
        BY <1>3, <1>4, <3>1
           DEF ReservedAmount, RemainingBillable, Pending, PendingStates, Exists, Requisition
      <4>2. QED
        BY <1>2, <1>3, <1>5, <2>2, <4>1
    <3>2. CASE docs[r].state = "closed"
      BY <1>3, <1>4, <3>2
         DEF ReservedAmount, RemainingBillable, Pending, PendingStates, Exists, Requisition
    <3>3. QED
      BY <2>1, <3>1, <3>2 DEF FinalStates
  <2>4. PostedAt(p, b) = here(x) /\ PostedAt(p, b)' = 0
    BY <1>2, <1>4, <1>13 DEF PostedAt, Bucket
  <2>5. p \in Buckets => /\ RequisitionHold(moves', p) = hold + here(x)
                        /\ Spent(moves', p) = spending - here(x)
    BY <1>2, <1>13, <2>1, BillHooks DEF Bucket
  <2> HIDE DEF hold, spending
  <2>6. p \in Buckets => /\ RequisitionHold(moves', p) >= Reserved(p)'
                        /\ Spent(moves', p) = PostedBills(p)'
    BY <1>2, <1>8, <1>9, <1>10, <2>3, <2>4, <2>5
  <2>7. \A q \in Requests : Requisition(q) /\ Exists(q) => Billed(q)' <= docs[q].amount
    <3>1. Billed(r)' <= Billed(r)
      BY <1>2, <1>5, <2>2
    <3>2. Billed(r)' <= docs[r].amount
      BY <1>3, <1>5, <1>11, <3>1
    <3>3. QED
      BY <1>6, <1>11, <3>2
  <2>8. QED
    BY <2>6, <2>7
<1>14. QED
  BY <1>4, <1>12, <1>13

(* A step of a bill. *)
LEMMA BillSpending ==
  ASSUME TypeOK, TypeOK', SpendingInv, NEW u \in Users, NEW b \in Bills, BillStep(u, b)
  PROVE  SpendingInv'
<1>1. /\ \A c \in Bills \ {b} : bills'[c] = bills[c]
      /\ docs' = docs
  BY BillEffect DEF SpendingInv
<1>2. BillsOfRequisitions'
  BY <1>1, BillEffect DEF SpendingInv, BillsOfRequisitions, Exists
<1>3. CASE /\ moves' = moves
           /\ bills[b].state # "posted" /\ bills'[b].state # "posted"
  <2>1. \A c \in Bills : /\ bills'[c].state = "posted" <=> bills[c].state = "posted"
                         /\ bills[c].state = "posted" => bills'[c] = bills[c]
    BY <1>1, <1>3
  <2>2. \A q : Billed(q)' = Billed(q)
    <3>1. \A q : \A c \in Bills : PostedAmount(c, q)' = PostedAmount(c, q)
      BY <2>1 DEF PostedAmount
    <3>2. QED
      BY <3>1 DEF Billed
  <2>3. \A p : PostedBills(p)' = PostedBills(p)
    <3>1. \A p : \A c \in Bills : PostedAt(p, c)' = PostedAt(p, c)
      BY <1>1, <2>1 DEF PostedAt, Bucket
    <3>2. QED
      BY <3>1 DEF PostedBills
  <2>4. \A p : Reserved(p)' = Reserved(p)
    BY <1>1, <2>2 DEF Reserved, ReservedAmount, RemainingBillable, Exists, Pending
  <2>5. BilledWithinApproved'
    BY <1>1, <2>1, <2>2 DEF SpendingInv, BilledWithinApproved, Exists
  <2>6. QED
    BY <1>2, <1>3, <2>3, <2>4, <2>5
       DEF SpendingInv, RequisitionHoldsCovered, SpentIsPostedBills
<1>4. CASE BillPost(u, b) \/ BillReverse(u, b)
  <2>1. \A p \in Buckets : /\ RequisitionHold(moves', p) >= Reserved(p)'
                           /\ Spent(moves', p) = PostedBills(p)'
    BY <1>4, PostedStep
  <2>2. \A q \in Requests : Requisition(q) /\ Exists(q)' => Billed(q)' <= docs'[q].amount
    BY <1>1, <1>4, PostedStep DEF Exists
  <2>3. \A c \in Bills : bills'[c].state = "posted" =>
          docs'[bills'[c].requisition].state \in {"approved", "closed"}
    <3>1. ASSUME NEW c \in Bills \ {b}, bills'[c].state = "posted"
          PROVE  docs'[bills'[c].requisition].state \in {"approved", "closed"}
      BY <1>1, <3>1 DEF SpendingInv, BilledWithinApproved
    <3>2. bills'[b].state = "posted" =>
            docs'[bills'[b].requisition].state \in {"approved", "closed"}
      BY <1>1, <1>4, BillEffect DEF SpendingInv, BillPost, BillReverse
    <3>3. QED
      BY <3>1, <3>2
  <2>4. QED
    BY <1>2, <2>1, <2>2, <2>3
       DEF SpendingInv, RequisitionHoldsCovered, SpentIsPostedBills, BilledWithinApproved
<1>5. QED
  BY <1>3, <1>4, BillEffect DEF SpendingInv

(* A step of the system. *)
LEMMA SpendingStep ==
  ASSUME TypeOK, TypeOK', SpendingInv, [Next]_vars
  PROVE  SpendingInv'
<1>1. ASSUME NEW u \in Users, NEW r \in Requests, RequestStep(u, r)
      PROVE  SpendingInv'
  <2>1. /\ BilledWithinApproved' /\ BillsOfRequisitions'
        /\ \A q : Billed(q)' = Billed(q)
        /\ \A p : PostedBills(p)' = PostedBills(p)
    BY <1>1, BillsStand DEF SpendingInv
  <2>2. ASSUME NEW b \in Buckets
        PROVE  RequisitionHold(moves', b) >= Reserved(b)' /\ Spent(moves', b) = Spent(moves, b)
    <3>1. CASE Requisition(r)
      BY <1>1, <3>1, RequisitionStep
    <3>2. CASE ~Requisition(r)
      <4>1. /\ RequisitionHold(moves', b) = RequisitionHold(moves, b)
            /\ Spent(moves', b) = Spent(moves, b)
        BY <1>1, <3>2, NoSpendingHooks DEF SpendingUntouched
      <4>2. \A q \in Requests \ {r} : docs'[q] = docs[q]
        BY <1>1, StateEffect
      <4>3. \A q \in Requests : ReservedAmount(b, q)' = ReservedAmount(b, q)
        BY <2>1, <3>2, <4>2
           DEF ReservedAmount, Requisition, Exists, Pending, RemainingBillable
      <4>4. Reserved(b)' = Reserved(b)
        BY <4>3 DEF Reserved
      <4>5. QED
        BY <4>1, <4>4 DEF SpendingInv, RequisitionHoldsCovered
    <3>3. QED
      BY <3>1, <3>2
  <2>3. QED
    BY <2>1, <2>2 DEF SpendingInv, RequisitionHoldsCovered, SpentIsPostedBills
<1>2. ASSUME NEW u \in Users, NEW b \in Bills, BillStep(u, b) PROVE SpendingInv'
  BY <1>2, BillSpending
<1>3. ASSUME docs' = docs, bills' = bills, SpendingUntouched(moves, moves')
      PROVE  SpendingInv'
  <2>1. \A q : Billed(q)' = Billed(q)
    BY <1>3 DEF Billed, PostedAmount
  <2>2. \A p : PostedBills(p)' = PostedBills(p)
    BY <1>3 DEF PostedBills, PostedAt, Bucket
  <2>3. \A p : Reserved(p)' = Reserved(p)
    BY <1>3, <2>1 DEF Reserved, ReservedAmount, RemainingBillable, Exists, Pending
  <2>4. BilledWithinApproved' /\ BillsOfRequisitions'
    BY <1>3, <2>1 DEF SpendingInv, BilledWithinApproved, BillsOfRequisitions, Exists
  <2>5. QED
    BY <1>3, <2>2, <2>3, <2>4
       DEF SpendingInv, RequisitionHoldsCovered, SpentIsPostedBills, SpendingUntouched
<1>4. SpendingUntouched(moves, moves)
  BY DEF SpendingUntouched
<1>5. ASSUME NEW u \in Users, NEW i \in Deposits, DepositStep(u, i) PROVE SpendingInv'
  <2>1. SpendingUntouched(moves, moves')
    <3>1. CASE ActionConfirm(u, i)
      <4>1. deposits[i] \in DepositRecords
        BY <3>1 DEF ActionConfirm, NoDeposit, TypeOK
      <4>2. deposits[i].amount \in Nat
        BY <4>1, DepositAssumption DEF DepositRecords
      <4>3. QED
        BY <3>1, <4>2, NoSpendingLines DEF ActionConfirm, MoveTypes, TypeOK
    <3>2. CASE ~ActionConfirm(u, i)
      BY <1>4, <1>5, <3>2
         DEF DepositStep, DepositAction, KeyInDeposit, EmailDeposit, EditDeposit, ActionVerify,
             CreateDeposit, InsertDeposit
    <3>3. QED
      BY <3>1, <3>2
  <2>2. QED
    BY <1>3, <1>5, <2>1 DEF DepositStep
<1>6. ASSUME NEW u \in Users, NEW k \in EditableRules, RuleStep(u, k) PROVE SpendingInv'
  BY <1>3, <1>4, <1>6 DEF RuleStep, ToggleRule
<1>7. CASE UNCHANGED vars
  BY <1>3, <1>4, <1>7 DEF vars
<1>8. QED
  BY <1>1, <1>2, <1>5, <1>6, <1>7 DEF Next

LEMMA SpendingInit ==
  ASSUME Init
  PROVE  SpendingInv
<1>1. \A q : Billed(q) = 0
  <2>1. SUFFICES ASSUME NEW q PROVE Billed(q) = 0
    OBVIOUS
  <2>2. [b \in Bills |-> PostedAmount(b, q)] \in [1 .. NBills -> Int]
        /\ \A b \in 1 .. NBills : [c \in Bills |-> PostedAmount(c, q)][b] = 0
    BY DEF Init, NoBill, PostedAmount, Bills
  <2>3. QED
    BY <2>2, SumZero, BillAssumption DEF Billed
<1>2. \A p : PostedBills(p) = 0
  <2>1. SUFFICES ASSUME NEW p PROVE PostedBills(p) = 0
    OBVIOUS
  <2>2. [b \in Bills |-> PostedAt(p, b)] \in [1 .. NBills -> Int]
        /\ \A b \in 1 .. NBills : [c \in Bills |-> PostedAt(p, c)][b] = 0
    BY DEF Init, NoBill, PostedAt, Bills
  <2>3. QED
    BY <2>2, SumZero, BillAssumption DEF PostedBills
<1>3. \A p : Reserved(p) = 0
  <2>1. SUFFICES ASSUME NEW p PROVE Reserved(p) = 0
    OBVIOUS
  <2>2. [r \in Requests |-> ReservedAmount(p, r)] \in [1 .. NRequests -> Int]
        /\ \A r \in 1 .. NRequests : [q \in Requests |-> ReservedAmount(p, q)][r] = 0
    BY DEF Init, NoDoc, ReservedAmount, Exists, Requests
  <2>3. QED
    BY <2>2, SumZero, RequestAssumption DEF Reserved
<1>4. ASSUME NEW b \in Buckets PROVE RequisitionHold(moves, b) = 0 /\ Spent(moves, b) = 0
  <2>1. b \in Places
    BY LedgerAssumption DEF Buckets, Places, NPlaces
  <2>2. QED
    BY <2>1 DEF Init, EmptyLedger, RequisitionHold, Spent, MoveTypes
<1>5. BilledWithinApproved /\ BillsOfRequisitions
  BY DEF Init, NoDoc, NoBill, Exists, BilledWithinApproved, BillsOfRequisitions
<1>6. QED
  BY <1>2, <1>3, <1>4, <1>5 DEF SpendingInv, RequisitionHoldsCovered, SpentIsPostedBills

(* Whatever the users do, administrators included: a bucket's requisition  *)
(* hold covers what its requisitions may still spend, what it has spent is *)
(* what its posted bills come to, and bills never exceed the approved      *)
(* amount of their requisition.                                            *)
THEOREM SpendingSafe ==
  Spec => [](RequisitionHoldsCovered /\ SpentIsPostedBills /\ BilledWithinApproved)
<1>1. Init => SpendingInv
  BY SpendingInit
<1>2. TypeOK /\ TypeOK' /\ SpendingInv /\ [Next]_vars => SpendingInv'
  BY SpendingStep
<1>3. SpendingInv => RequisitionHoldsCovered /\ SpentIsPostedBills /\ BilledWithinApproved
  BY DEF SpendingInv
<1>4. QED
  BY <1>1, <1>2, <1>3, TypeCorrect, PTL DEF Spec

-----------------------------------------------------------------------------
(* The ledger and the documents, where nobody is an administrator: an      *)
(* approved request stays approved, so that each request posts its final   *)
(* effect at most once and only in the step that approves it.              *)

PostedOnceFinal ==
  \A r \in Requests : Exists(r) /\ docs[r].posted => docs[r].state \in FinalStates

MatchInv == LedgerMatchesDocuments /\ PostedOnceFinal

(* The lines that leave what is allocated as it is. *)
AllocatedUntouched(m, n) == \A b \in Buckets : Allocated(n, b) = Allocated(m, b)

LEMMA AllocatedPost ==
  ASSUME NEW m \in Ledgers, NEW type \in MoveTypes, NEW places, NEW amount \in Nat,
         NEW b \in Buckets
  PROVE  LET n == Post(m, type, places, amount)
             here(x) == IF b \in places THEN x ELSE 0
         IN  /\ Allocated(m, b) \in Int
             /\ Allocated(n, b)
                  = Allocated(m, b) + here(Change(type, {"assign"}, {"assign_reverse"}, amount))
<1> DEFINE n == Post(m, type, places, amount)
<1>1. b \in Places
  BY PlacesAre
<1>2. \A t \in MoveTypes : m[b][t] \in Nat
  BY <1>1, TotalsAreNat
<1>3. \A t \in MoveTypes :
        n[b][t] = IF b \in places /\ t = type THEN m[b][t] + amount ELSE m[b][t]
  BY <1>1, PostAdds
<1> HIDE DEF n
<1>4. Allocated(m, b) \in Int
  BY <1>2 DEF Allocated, MoveTypes
<1>5. Allocated(n, b) = Allocated(m, b)
        + IF b \in places THEN Change(type, {"assign"}, {"assign_reverse"}, amount) ELSE 0
  BY <1>2, <1>3 DEF Allocated, MoveTypes, Change
<1>6. QED
  BY <1>4, <1>5 DEF n

LEMMA NoAllocatedLines ==
  ASSUME NEW m \in Ledgers, NEW type \in MoveTypes, NEW places, NEW amount \in Nat,
         type \notin {"assign", "assign_reverse"}
  PROVE  AllocatedUntouched(m, Post(m, type, places, amount))
<1>1. SUFFICES ASSUME NEW b \in Buckets
               PROVE  Allocated(Post(m, type, places, amount), b) = Allocated(m, b)
  BY DEF AllocatedUntouched
<1>2. Change(type, {"assign"}, {"assign_reverse"}, amount) = 0
  BY DEF Change
<1>3. QED
  BY <1>2, AllocatedPost

(* What the hooks do to it: only an allocation's approval and its reversal *)
(* change it.                                                              *)
LEMMA AllocatedHooks ==
  ASSUME TypeOK, NEW r \in Requests, Exists(r)
  PROVE  /\ AllocatedUntouched(moves, AllocationHold(r))
         /\ AllocatedUntouched(moves, AllocationRelease(r))
         /\ Allocation(r) => \A b \in Buckets :
              Allocated(AllocationAssign(r), b)
                = Allocated(moves, b) + IF docs[r].target = b THEN docs[r].amount ELSE 0
         /\ AllocatedUntouched(moves, TransferHeld(r))
         /\ AllocatedUntouched(moves, TransferSettle(r))
         /\ AllocatedUntouched(moves, TransferRelease(r))
         /\ AllocatedUntouched(moves, RequisitionHeld(r))
         /\ AllocatedUntouched(moves, RequisitionRelease(r))
         /\ AllocatedUntouched(moves, Unused(r))
<1> DEFINE s == docs[r].source
           x == docs[r].amount
           settled == Post(moves, "transfer_settle", {s}, x)
<1>1. moves \in Ledgers /\ x \in Nat /\ RemainingBillable(r) \in Int
  BY Present, BilledType, RequestAssumption DEF TypeOK, Documents
<1>2. /\ AllocatedUntouched(moves, AllocationHold(r))
      /\ AllocatedUntouched(moves, AllocationRelease(r))
      /\ AllocatedUntouched(moves, TransferHeld(r))
      /\ AllocatedUntouched(moves, TransferRelease(r))
      /\ AllocatedUntouched(moves, RequisitionHeld(r))
      /\ AllocatedUntouched(moves, RequisitionRelease(r))
      /\ AllocatedUntouched(moves, settled)
  BY <1>1, NoAllocatedLines
     DEF AllocationHold, AllocationRelease, TransferHeld, TransferRelease,
         RequisitionHeld, RequisitionRelease, MoveTypes
<1>3. AllocatedUntouched(moves, TransferSettle(r))
  <2>1. settled \in Ledgers
    BY <1>1, PostAdds DEF MoveTypes
  <2>2. AllocatedUntouched(settled, TransferSettle(r))
    BY <1>1, <2>1, NoAllocatedLines DEF TransferSettle, MoveTypes
  <2>3. QED
    BY <1>2, <2>2 DEF AllocatedUntouched
<1>4. AllocatedUntouched(moves, Unused(r))
  <2>1. CASE RemainingBillable(r) > 0
    <3>1. RemainingBillable(r) \in Nat
      BY <1>1, <2>1
    <3>2. QED
      BY <1>1, <2>1, <3>1, NoAllocatedLines DEF Unused, MoveTypes
  <2>2. QED
    BY <2>1 DEF Unused, AllocatedUntouched
<1>5. ASSUME Allocation(r), NEW b \in Buckets
      PROVE  Allocated(AllocationAssign(r), b)
               = Allocated(moves, b) + IF docs[r].target = b THEN x ELSE 0
  <2>1. s \in Accounts
    BY <1>5, Present DEF Documents, Endpoints, Allocation
  <2>2. b # s
    BY <2>1, PlacesAre
  <2>3. b \in {s, docs[r].target} <=> docs[r].target = b
    BY <2>2
  <2>4. Change("assign", {"assign"}, {"assign_reverse"}, x) = x
    BY DEF Change
  <2>5. QED
    BY <1>1, <2>3, <2>4, AllocatedPost DEF AllocationAssign, MoveTypes
<1>6. QED
  BY <1>2, <1>3, <1>4, <1>5

(* What is approved at a bucket, after the step of one request.            *)
LEMMA ApprovedChange ==
  ASSUME TypeOK, TypeOK', NEW r \in Requests, NEW p,
         \A q \in Requests \ {r} : docs'[q] = docs[q]
  PROVE  /\ ApprovedAllocations(p) \in Nat
         /\ ApprovedAmount(p, r) \in Nat /\ ApprovedAmount(p, r)' \in Nat
         /\ ApprovedAllocations(p)' = ApprovedAllocations(p)
              - ApprovedAmount(p, r) + ApprovedAmount(p, r)'
<1> DEFINE f == [q \in Requests |-> ApprovedAmount(p, q)]
           g == [q \in Requests |-> ApprovedAmount(p, q)']
<1>1. ASSUME NEW q \in Requests, NEW d \in Documents(Kind[q]) \cup {NoDoc}
      PROVE  d.state = "approved" => d.amount \in Nat
  <2>1. d.state = "approved" => d # NoDoc
    BY DEF NoDoc
  <2>2. QED
    BY <1>1, <2>1, RequestAssumption DEF Documents
<1>2. \A q \in Requests : ApprovedAmount(p, q) \in Nat
  BY <1>1 DEF ApprovedAmount, TypeOK
<1>3. \A q \in Requests : ApprovedAmount(p, q)' \in Nat
  BY <1>1 DEF ApprovedAmount, TypeOK
<1>4. \A q \in 1 .. NRequests : q # r => g[q] = f[q]
  BY DEF Requests, ApprovedAmount
<1>5. f \in [1 .. NRequests -> Nat] /\ f \in [1 .. NRequests -> Int]
      /\ g \in [1 .. NRequests -> Int]
  BY <1>2, <1>3 DEF Requests
<1>6. SumTo(g, NRequests) = SumTo(f, NRequests) - f[r] + g[r]
  BY <1>4, <1>5, SumChange, RequestAssumption DEF Requests
<1>7. SumTo(f, NRequests) \in Nat
  BY <1>5, SumNat, RequestAssumption
<1>8. /\ ApprovedAllocations(p) = SumTo(f, NRequests)
      /\ ApprovedAllocations(p)' = SumTo(g, NRequests)
  BY DEF ApprovedAllocations
<1>9. QED
  BY <1>2, <1>3, <1>6, <1>7, <1>8

(* An approval decides a pending request. *)
LEMMA ApprovalOfPending ==
  ASSUME TypeOK, NEW u \in Users, NEW r \in Requests, Approve(u, r)
  PROVE  Exists(r) /\ Pending(r)
<1>1. PICK final : ActionApprove(u, r, final)
  BY DEF Approve, AllocationApprove, TransferApprove, RequisitionApprove
<1>2. PICK i \in CurrentLevel(r) : TRUE
  BY <1>1 DEF ActionApprove
<1>3. i \in 1 .. 3 /\ StageStates[i] = docs[r].state
  BY <1>1, <1>2, HistoryType DEF ActionApprove, CurrentLevel, Results
<1>4. QED
  BY <1>1, <1>3 DEF ActionApprove, Pending, PendingStates, StageStates

(* What an approval posts, of a request that has posted nothing yet.       *)
LEMMA ApprovalPosts ==
  ASSUME TypeOK, NEW u \in Users, NEW r \in Requests, Approve(u, r), ~docs[r].posted
  PROVE  \/ Pending(r)' /\ moves' = moves /\ docs'[r].posted = docs[r].posted
         \/ /\ docs'[r].state = "approved"
            /\ Allocation(r) => moves' = AllocationAssign(r)
            /\ Transfer(r) => moves' = TransferSettle(r)
            /\ Requisition(r) => moves' = moves
<1>1. PICK final : /\ ActionApprove(u, r, final)
                   /\ Allocation(r) => final = AllocationAssign(r)
                   /\ Transfer(r) => final = TransferSettle(r)
                   /\ Requisition(r) => final = moves
  BY DEF Approve, AllocationApprove, TransferApprove, RequisitionApprove,
         Allocation, Transfer, Requisition
<1>2. Exists(r) /\ docs[r] \in Documents(Kind[r]) /\ DOMAIN docs = Requests
  BY <1>1, Present DEF ActionApprove, TypeOK
<1>3. PICK i \in CurrentLevel(r) :
        LET next == LevelIndex(r, i) + 1
        IN  \/ /\ moves' = IF docs[r].posted THEN moves ELSE final
               /\ docs' = [docs EXCEPT ![r].state = "approved", ![r].posted = TRUE]
            \/ /\ next <= Len(Levels(r))
               /\ docs' = [docs EXCEPT ![r].state = StageStates[next]]
               /\ moves' = moves
  BY <1>1 DEF ActionApprove
<1>4. CASE /\ moves' = IF docs[r].posted THEN moves ELSE final
           /\ docs' = [docs EXCEPT ![r].state = "approved", ![r].posted = TRUE]
  <2>1. moves' = final
    BY <1>4
  <2>2. docs'[r].state = "approved"
    BY <1>2, <1>4 DEF Documents
  <2>3. QED
    BY <1>1, <2>1, <2>2
<1>5. CASE /\ LevelIndex(r, i) + 1 <= Len(Levels(r))
           /\ docs' = [docs EXCEPT ![r].state = StageStates[LevelIndex(r, i) + 1]]
           /\ moves' = moves
  <2>1. LevelIndex(r, i) + 1 \in 2 .. 3
    BY <1>2, <1>3, <1>5, NextStage
  <2>2. StageStates[LevelIndex(r, i) + 1] \in PendingStates
    BY <2>1 DEF StageStates, PendingStates
  <2>3. /\ docs'[r].state = StageStates[LevelIndex(r, i) + 1]
        /\ docs'[r].posted = docs[r].posted
    BY <1>2, <1>5 DEF Documents
  <2>4. QED
    BY <1>5, <2>2, <2>3 DEF Pending
<1>6. QED
  BY <1>3, <1>4, <1>5

(* Only an approval says that a request has posted its final effect.       *)
LEMMA PostedEffect ==
  ASSUME TypeOK, NEW u \in Users, NEW r \in Requests, RequestStep(u, r), ~Approve(u, r),
         Exists(r)', docs'[r].posted
  PROVE  Exists(r) /\ docs[r].posted
<1>1. /\ DOMAIN docs = Requests
      /\ Exists(r) => docs[r] \in [state : States, amount : Amounts, source : Places,
                                   target : Places \cup {NoPlace}, by : Users,
                                   posted : BOOLEAN]
  BY Present DEF TypeOK, Documents
<1>2. CASE \E amount \in Amounts, ends \in Endpoints(Kind[r]) : Create(u, r, amount, ends)
  BY <1>1, <1>2 DEF Create
<1>3. CASE \E amount \in Amounts, ends \in Endpoints(Kind[r]) : EditDraft(u, r, amount, ends)
  BY <1>1, <1>3 DEF EditDraft
<1>4. CASE Exists(r) /\ \E s : docs' = [docs EXCEPT ![r].state = s]
  BY <1>1, <1>4
<1>5. CASE CancelDraft(u, r) \/ ActionResetToDraft(u, r)
  BY <1>4, <1>5 DEF CancelDraft, ActionResetToDraft
<1>6. CASE Submit(u, r)
  BY <1>4, <1>6
     DEF Submit, AllocationSubmit, TransferSubmit, RequisitionSubmit, ActionSubmit
<1>7. CASE Reject(u, r)
  BY <1>4, <1>7
     DEF Reject, AllocationReject, TransferReject, RequisitionReject, ActionReject
<1>8. CASE Cancel(u, r)
  BY <1>4, <1>8
     DEF Cancel, AllocationCancel, TransferCancel, RequisitionCancel, CancelPending
<1>9. CASE CancelFinal(u, r)
  BY <1>4, <1>9
     DEF CancelFinal, AllocationCancelApproved, TransferCancelApproved,
         RequisitionCancelApproved, CancelApproved
<1>10. CASE ActionClose(u, r)
  BY <1>4, <1>10 DEF ActionClose
<1>11. QED
  BY <1>2, <1>3, <1>5, <1>6, <1>7, <1>8, <1>9, <1>10 DEF RequestStep, Prepare

(* Without an administrator nothing that was approved is cancelled.        *)
LEMMA ApprovedStays ==
  ASSUME TypeOK, NEW u \in Users, NEW r \in Requests, RequestStep(u, r), PostedOnceFinal,
         ~HasGroup(u, "admin")
  PROVE  /\ ~CancelFinal(u, r)
         /\ PostedOnceFinal'
         /\ Exists(r) /\ docs[r].state \notin FinalStates => ~docs[r].posted
<1>1. ~CancelFinal(u, r)
  BY DEF CancelFinal, AllocationCancelApproved, TransferCancelApproved,
         RequisitionCancelApproved, CancelApproved
<1>2. Exists(r) /\ docs[r].state \notin FinalStates => ~docs[r].posted
  BY DEF PostedOnceFinal
<1>3. \A q \in Requests \ {r} : docs'[q] = docs[q]
  BY StateEffect
<1>4. ASSUME Exists(r)', docs'[r].posted PROVE docs'[r].state \in FinalStates
  <2>1. CASE Approve(u, r)
    <3>1. Exists(r) /\ Pending(r)
      BY <2>1, ApprovalOfPending
    <3>2. ~docs[r].posted
      BY <1>2, <3>1 DEF Pending, PendingStates, FinalStates
    <3>3. QED
      BY <1>4, <2>1, <3>2, ApprovalPosts DEF FinalStates
  <2>2. CASE ~Approve(u, r)
    <3>1. Exists(r) /\ docs[r].posted /\ docs[r].state \in FinalStates
      BY <1>4, <2>2, PostedEffect DEF PostedOnceFinal
    <3>2. CASE ActionClose(u, r) /\ docs'[r].state = "closed"
      BY <3>2 DEF FinalStates
    <3>3. QED
      BY <1>1, <2>2, <3>1, <3>2, StateEffect
         DEF FinalStates, IdleStates, Pending, PendingStates
  <2>3. QED
    BY <2>1, <2>2
<1>5. PostedOnceFinal'
  BY <1>3, <1>4 DEF PostedOnceFinal, Exists
<1>6. QED
  BY <1>1, <1>2, <1>5

(* A step of an allocation. *)
LEMMA AllocationMatches ==
  ASSUME TypeOK, TypeOK', MatchInv, NEW u \in Users, NEW r \in Requests,
         RequestStep(u, r), Allocation(r), ~HasGroup(u, "admin")
  PROVE  /\ \A a \in Accounts : OnHold(moves', a) = PendingHold("allocation", a)'
         /\ \A b \in Buckets : Allocated(moves', b) = ApprovedAllocations(b)'
<1> DEFINE heldAt(a) == IF docs[r].source = a THEN docs[r].amount ELSE 0
           givenAt(b) == IF docs[r].target = b THEN docs[r].amount ELSE 0
<1>1. ASSUME NEW a \in Accounts
      PROVE  /\ PendingHold("allocation", a)' = OnHold(moves, a)
                  - PendingAmount("allocation", a, r) + PendingAmount("allocation", a, r)'
             /\ PendingAmount("allocation", a, r) = IF Pending(r) THEN heldAt(a) ELSE 0
             /\ ~Pending(r)' => PendingAmount("allocation", a, r)' = 0
             /\ SameTerms(docs[r], docs'[r]) =>
                  PendingAmount("allocation", a, r)' = IF Pending(r)' THEN heldAt(a) ELSE 0
             /\ OnHold(moves, a) \in Int /\ (Exists(r) => heldAt(a) \in Nat)
  <2>1. OnHold(moves, a) = PendingHold("allocation", a)
    BY DEF MatchInv, LedgerMatchesDocuments
  <2>2. PendingHold("allocation", a)' = PendingHold("allocation", a)
          - PendingAmount("allocation", a, r) + PendingAmount("allocation", a, r)'
    BY RequestEffect, PendingHoldChange
  <2>3. OnHold(moves, a) \in Int /\ (Exists(r) => heldAt(a) \in Nat)
    BY BalancesType, Present, RequestAssumption DEF TypeOK, Documents
  <2>4. QED
    BY <2>1, <2>2, <2>3 DEF PendingAmount, Allocation, Pending, SameTerms
<1>2. ASSUME NEW b \in Buckets
      PROVE  /\ ApprovedAllocations(b)' = Allocated(moves, b)
                  - ApprovedAmount(b, r) + ApprovedAmount(b, r)'
             /\ docs[r].state # "approved" => ApprovedAmount(b, r) = 0
             /\ docs'[r].state # "approved" => ApprovedAmount(b, r)' = 0
             /\ SameTerms(docs[r], docs'[r]) /\ docs'[r].state = "approved" =>
                  ApprovedAmount(b, r)' = givenAt(b)
             /\ Allocated(moves, b) \in Int /\ (Exists(r) => givenAt(b) \in Nat)
  <2>1. Allocated(moves, b) = ApprovedAllocations(b)
    BY DEF MatchInv, LedgerMatchesDocuments
  <2>2. /\ ApprovedAllocations(b) \in Nat
        /\ ApprovedAllocations(b)' = ApprovedAllocations(b)
             - ApprovedAmount(b, r) + ApprovedAmount(b, r)'
    BY RequestEffect, ApprovedChange
  <2>3. Exists(r) => givenAt(b) \in Nat
    BY Present, RequestAssumption DEF Documents
  <2>4. QED
    BY <2>1, <2>2, <2>3 DEF ApprovedAmount, Allocation, SameTerms
<1>3. ~CancelFinal(u, r) /\ (Exists(r) /\ docs[r].state \notin FinalStates => ~docs[r].posted)
  BY ApprovedStays DEF MatchInv
<1>4. ~ActionClose(u, r)
  BY DEF ActionClose, Allocation, Requisition
<1> HIDE DEF heldAt, givenAt
<1>5. CASE /\ Prepare(u, r) /\ moves' = moves /\ docs[r].state \in IdleStates
           /\ docs'[r].state \in {"draft", "cancelled"}
  <2>1. /\ ~Pending(r) /\ ~Pending(r)'
        /\ docs[r].state # "approved" /\ docs'[r].state # "approved"
    BY <1>5 DEF IdleStates, Pending, PendingStates
  <2>2. QED
    BY <1>1, <1>2, <1>5, <2>1
<1>6. CASE /\ Submit(u, r) /\ Exists(r) /\ SameTerms(docs[r], docs'[r])
           /\ docs[r].state = "draft" /\ docs'[r].state = "submitted"
  <2>1. /\ ~Pending(r) /\ Pending(r)'
        /\ docs[r].state # "approved" /\ docs'[r].state # "approved"
    BY <1>6 DEF Pending, PendingStates
  <2>2. moves' = AllocationHold(r)
    BY <1>6 DEF Submit, AllocationSubmit, TransferSubmit, RequisitionSubmit, ActionSubmit,
                Allocation, Transfer, Requisition
  <2>3. /\ \A a \in Accounts : OnHold(moves', a) = OnHold(moves, a) + heldAt(a)
        /\ \A b \in Buckets : Allocated(moves', b) = Allocated(moves, b)
    BY <1>6, <2>2, AllocationHooks, AllocatedHooks DEF heldAt, AllocatedUntouched
  <2>4. QED
    BY <1>1, <1>2, <1>6, <2>1, <2>3
<1>7. CASE Approve(u, r) /\ Exists(r) /\ SameTerms(docs[r], docs'[r]) /\ Pending(r)
  <2>1. ~docs[r].posted /\ docs[r].state # "approved"
    BY <1>3, <1>7 DEF Pending, PendingStates, FinalStates
  <2>2. CASE Pending(r)' /\ moves' = moves
    <3>1. docs'[r].state # "approved"
      BY <2>2 DEF Pending, PendingStates
    <3>2. QED
      BY <1>1, <1>2, <1>7, <2>1, <2>2, <3>1
  <2>3. CASE docs'[r].state = "approved" /\ moves' = AllocationAssign(r)
    <3>1. ~Pending(r)'
      BY <2>3 DEF Pending, PendingStates
    <3>2. /\ \A a \in Accounts : OnHold(moves', a) = OnHold(moves, a) - heldAt(a)
          /\ \A b \in Buckets : Allocated(moves', b) = Allocated(moves, b) + givenAt(b)
      BY <1>7, <2>3, AllocationHooks, AllocatedHooks DEF heldAt, givenAt
    <3>3. QED
      BY <1>1, <1>2, <1>7, <2>1, <2>3, <3>1, <3>2
  <2>4. QED
    BY <1>7, <2>1, <2>2, <2>3, ApprovalPosts
<1>8. CASE /\ Reject(u, r) \/ Cancel(u, r)
           /\ Exists(r) /\ SameTerms(docs[r], docs'[r])
           /\ Pending(r) /\ docs'[r].state \in {"rejected", "cancelled"}
  <2>1. /\ ~Pending(r)'
        /\ docs[r].state # "approved" /\ docs'[r].state # "approved"
    BY <1>8 DEF Pending, PendingStates
  <2>2. moves' = AllocationRelease(r)
    BY <1>8 DEF Reject, AllocationReject, TransferReject, RequisitionReject, ActionReject,
                Cancel, AllocationCancel, TransferCancel, RequisitionCancel, CancelPending,
                Allocation, Transfer, Requisition
  <2>3. /\ \A a \in Accounts : OnHold(moves', a) = OnHold(moves, a) - heldAt(a)
        /\ \A b \in Buckets : Allocated(moves', b) = Allocated(moves, b)
    BY <1>8, <2>2, AllocationHooks, AllocatedHooks DEF heldAt, AllocatedUntouched
  <2>4. QED
    BY <1>1, <1>2, <1>8, <2>1, <2>3
<1>9. QED
  BY <1>3, <1>4, <1>5, <1>6, <1>7, <1>8, StateEffect

(* A step of a transfer. *)
LEMMA TransferMatches ==
  ASSUME TypeOK, TypeOK', MatchInv, NEW u \in Users, NEW r \in Requests,
         RequestStep(u, r), Transfer(r), ~HasGroup(u, "admin")
  PROVE  \A b \in Buckets : TransferHold(moves', b) = PendingHold("transfer", b)'
<1> DEFINE heldAt(b) == IF docs[r].source = b THEN docs[r].amount ELSE 0
<1>1. ASSUME NEW b \in Buckets
      PROVE  /\ PendingHold("transfer", b)' = TransferHold(moves, b)
                  - PendingAmount("transfer", b, r) + PendingAmount("transfer", b, r)'
             /\ PendingAmount("transfer", b, r) = IF Pending(r) THEN heldAt(b) ELSE 0
             /\ ~Pending(r)' => PendingAmount("transfer", b, r)' = 0
             /\ SameTerms(docs[r], docs'[r]) =>
                  PendingAmount("transfer", b, r)' = IF Pending(r)' THEN heldAt(b) ELSE 0
             /\ TransferHold(moves, b) \in Int /\ (Exists(r) => heldAt(b) \in Nat)
  <2>1. TransferHold(moves, b) = PendingHold("transfer", b)
    BY DEF MatchInv, LedgerMatchesDocuments
  <2>2. PendingHold("transfer", b)' = PendingHold("transfer", b)
          - PendingAmount("transfer", b, r) + PendingAmount("transfer", b, r)'
    BY RequestEffect, PendingHoldChange
  <2>3. TransferHold(moves, b) \in Int /\ (Exists(r) => heldAt(b) \in Nat)
    BY BalancesType, Present, RequestAssumption DEF TypeOK, Documents
  <2>4. QED
    BY <2>1, <2>2, <2>3 DEF PendingAmount, Transfer, Pending, SameTerms
<1>2. ~CancelFinal(u, r) /\ (Exists(r) /\ docs[r].state \notin FinalStates => ~docs[r].posted)
  BY ApprovedStays DEF MatchInv
<1>3. ~ActionClose(u, r)
  BY DEF ActionClose, Transfer, Requisition
<1> HIDE DEF heldAt
<1>4. CASE Prepare(u, r) /\ ~Pending(r) /\ ~Pending(r)' /\ moves' = moves
  BY <1>1, <1>4
<1>5. CASE Submit(u, r) /\ ~Pending(r) /\ Pending(r)' /\ SameTerms(docs[r], docs'[r])
  <2>1. Exists(r) /\ moves' = TransferHeld(r)
    BY <1>5 DEF Submit, AllocationSubmit, TransferSubmit, RequisitionSubmit, ActionSubmit,
                Allocation, Transfer, Requisition
  <2>2. \A b \in Buckets : TransferHold(moves', b) = TransferHold(moves, b) + heldAt(b)
    BY <2>1, TransferHooks DEF heldAt
  <2>3. QED
    BY <1>1, <1>5, <2>1, <2>2
<1>6. CASE Approve(u, r) /\ Pending(r) /\ SameTerms(docs[r], docs'[r])
  <2>1. Exists(r) /\ ~docs[r].posted
    BY <1>2, <1>6, ApprovalOfPending DEF Pending, PendingStates, FinalStates
  <2>2. CASE Pending(r)' /\ moves' = moves
    BY <1>1, <1>6, <2>1, <2>2
  <2>3. CASE docs'[r].state = "approved" /\ moves' = TransferSettle(r)
    <3>1. ~Pending(r)'
      BY <2>3 DEF Pending, PendingStates
    <3>2. \A b \in Buckets : TransferHold(moves', b) = TransferHold(moves, b) - heldAt(b)
      BY <2>1, <2>3, TransferHooks DEF heldAt
    <3>3. QED
      BY <1>1, <1>6, <2>1, <3>1, <3>2
  <2>4. QED
    BY <1>6, <2>1, <2>2, <2>3, ApprovalPosts
<1>7. CASE (Reject(u, r) \/ Cancel(u, r)) /\ Pending(r) /\ ~Pending(r)'
  <2>1. Exists(r) /\ moves' = TransferRelease(r)
    BY <1>7 DEF Reject, AllocationReject, TransferReject, RequisitionReject, ActionReject,
                Cancel, AllocationCancel, TransferCancel, RequisitionCancel, CancelPending,
                Allocation, Transfer, Requisition
  <2>2. \A b \in Buckets : TransferHold(moves', b) = TransferHold(moves, b) - heldAt(b)
    BY <2>1, TransferHooks DEF heldAt
  <2>3. QED
    BY <1>1, <1>7, <2>1, <2>2
<1>8. QED
  BY <1>2, <1>3, <1>4, <1>5, <1>6, <1>7, RequestEffect

(* What the other steps leave as it is. *)
LEMMA OtherMatches ==
  ASSUME TypeOK, NEW u \in Users
  PROVE  /\ \A r \in Requests :
              RequestStep(u, r) /\ ~Allocation(r) /\ ~CancelFinal(u, r) =>
                AllocatedUntouched(moves, moves')
         /\ \A b \in Bills : BillStep(u, b) => AllocatedUntouched(moves, moves')
         /\ \A i \in Deposits : DepositStep(u, i) => AllocatedUntouched(moves, moves')
<1>1. AllocatedUntouched(moves, moves) /\ moves \in Ledgers
  BY DEF AllocatedUntouched, TypeOK
<1>2. ASSUME NEW r \in Requests, RequestStep(u, r), ~Allocation(r), ~CancelFinal(u, r)
      PROVE  AllocatedUntouched(moves, moves')
  <2>1. CASE Prepare(u, r)
    BY <1>1, <2>1 DEF Prepare, Create, EditDraft, CancelDraft, ActionResetToDraft
  <2>2. CASE Submit(u, r)
    BY <1>2, <2>2, AllocatedHooks
       DEF Submit, AllocationSubmit, TransferSubmit, RequisitionSubmit, ActionSubmit
  <2>3. CASE Approve(u, r)
    BY <1>1, <1>2, <2>3, AllocatedHooks
       DEF Approve, AllocationApprove, TransferApprove, RequisitionApprove, ActionApprove
  <2>4. CASE Reject(u, r)
    BY <1>2, <2>4, AllocatedHooks
       DEF Reject, AllocationReject, TransferReject, RequisitionReject, ActionReject
  <2>5. CASE Cancel(u, r)
    BY <1>2, <2>5, AllocatedHooks
       DEF Cancel, AllocationCancel, TransferCancel, RequisitionCancel, CancelPending
  <2>6. CASE ActionClose(u, r)
    BY <2>6, AllocatedHooks DEF ActionClose
  <2>7. QED
    BY <1>2, <2>1, <2>2, <2>3, <2>4, <2>5, <2>6 DEF RequestStep
<1>3. ASSUME NEW b \in Bills, BillStep(u, b) PROVE AllocatedUntouched(moves, moves')
  <2>1. bills[b] \in BillRecords \cup {NoBill}
    BY DEF TypeOK
  <2>2. CASE BillPost(u, b)
    BY <1>1, <2>1, <2>2, BillType, NoAllocatedLines DEF BillPost, BillSpent, MoveTypes
  <2>3. CASE BillReverse(u, b)
    BY <1>1, <2>1, <2>3, BillType, NoAllocatedLines DEF BillReverse, BillReturned, MoveTypes
  <2>4. QED
    BY <1>1, <1>3, <2>2, <2>3 DEF BillStep, BillCreate, BillEdit, BillCancel
<1>4. ASSUME NEW i \in Deposits, DepositStep(u, i) PROVE AllocatedUntouched(moves, moves')
  <2>1. CASE ActionConfirm(u, i)
    <3>1. deposits[i] \in DepositRecords
      BY <2>1 DEF ActionConfirm, NoDeposit, TypeOK
    <3>2. deposits[i].amount \in Nat
      BY <3>1, DepositAssumption DEF DepositRecords
    <3>3. QED
      BY <1>1, <2>1, <3>2, NoAllocatedLines DEF ActionConfirm, MoveTypes
  <2>2. CASE ~ActionConfirm(u, i)
    BY <1>1, <1>4, <2>2
       DEF DepositStep, DepositAction, KeyInDeposit, EmailDeposit, EditDeposit, ActionVerify,
           CreateDeposit, InsertDeposit
  <2>3. QED
    BY <2>1, <2>2
<1>5. QED
  BY <1>2, <1>3, <1>4

(* A step of the system. *)
LEMMA MatchStep ==
  ASSUME TypeOK, TypeOK', MatchInv, [Next]_vars, \A u \in Users : ~HasGroup(u, "admin")
  PROVE  MatchInv'
<1>1. ASSUME NEW u \in Users, NEW r \in Requests, RequestStep(u, r) PROVE MatchInv'
  <2>1. \A q \in Requests \ {r} : docs'[q] = docs[q]
    BY <1>1, StateEffect
  <2>2. ~CancelFinal(u, r) /\ PostedOnceFinal'
    BY <1>1, ApprovedStays DEF MatchInv
  <2>3. /\ \A a \in Accounts : OnHold(moves', a) = PendingHold("allocation", a)'
        /\ \A b \in Buckets : Allocated(moves', b) = ApprovedAllocations(b)'
    <3>1. CASE Allocation(r)
      BY <1>1, <3>1, AllocationMatches
    <3>2. CASE ~Allocation(r)
      <4>1. ASSUME NEW a \in Accounts
            PROVE  OnHold(moves', a) = PendingHold("allocation", a)'
        <5>1. OnHold(moves', a) = OnHold(moves, a)
          BY <1>1, <3>2, OtherRequests DEF AccountsUntouched
        <5>2. \A q \in Requests :
                PendingAmount("allocation", a, q)' = PendingAmount("allocation", a, q)
          BY <2>1, <3>2 DEF PendingAmount, Allocation, Pending
        <5>3. PendingHold("allocation", a)' = PendingHold("allocation", a)
          BY <5>2 DEF PendingHold
        <5>4. QED
          BY <5>1, <5>3 DEF MatchInv, LedgerMatchesDocuments
      <4>2. ASSUME NEW b \in Buckets
            PROVE  Allocated(moves', b) = ApprovedAllocations(b)'
        <5>1. Allocated(moves', b) = Allocated(moves, b)
          BY <1>1, <2>2, <3>2, OtherMatches DEF AllocatedUntouched
        <5>2. \A q \in Requests : ApprovedAmount(b, q)' = ApprovedAmount(b, q)
          BY <2>1, <3>2 DEF ApprovedAmount, Allocation
        <5>3. ApprovedAllocations(b)' = ApprovedAllocations(b)
          BY <5>2 DEF ApprovedAllocations
        <5>4. QED
          BY <5>1, <5>3 DEF MatchInv, LedgerMatchesDocuments
      <4>3. QED
        BY <4>1, <4>2
    <3>3. QED
      BY <3>1, <3>2
  <2>4. \A b \in Buckets : TransferHold(moves', b) = PendingHold("transfer", b)'
    <3>1. CASE Transfer(r)
      BY <1>1, <3>1, TransferMatches
    <3>2. ASSUME ~Transfer(r), NEW b \in Buckets
          PROVE  TransferHold(moves', b) = PendingHold("transfer", b)'
      <4>1. TransferHold(moves', b) = TransferHold(moves, b)
        BY <1>1, <3>2, OtherRequests DEF TransferHoldsUntouched
      <4>2. \A q \in Requests :
              PendingAmount("transfer", b, q)' = PendingAmount("transfer", b, q)
        BY <2>1, <3>2 DEF PendingAmount, Transfer, Pending
      <4>3. PendingHold("transfer", b)' = PendingHold("transfer", b)
        BY <4>2 DEF PendingHold
      <4>4. QED
        BY <4>1, <4>3 DEF MatchInv, LedgerMatchesDocuments
    <3>3. QED
      BY <3>1, <3>2
  <2>5. QED
    BY <2>2, <2>3, <2>4 DEF MatchInv, LedgerMatchesDocuments
<1>2. ASSUME docs' = docs, AllocatedUntouched(moves, moves'),
             TransferHoldsUntouched(moves, moves'),
             \A a \in Accounts : OnHold(moves', a) = OnHold(moves, a)
      PROVE  MatchInv'
  <2>1. \A kind, p : PendingHold(kind, p)' = PendingHold(kind, p)
    BY <1>2 DEF PendingHold, PendingAmount, Pending
  <2>2. \A p : ApprovedAllocations(p)' = ApprovedAllocations(p)
    BY <1>2 DEF ApprovedAllocations, ApprovedAmount
  <2>3. PostedOnceFinal'
    BY <1>2 DEF MatchInv, PostedOnceFinal, Exists
  <2>4. QED
    BY <1>2, <2>1, <2>2, <2>3
       DEF MatchInv, LedgerMatchesDocuments, AllocatedUntouched, TransferHoldsUntouched
<1>3. ASSUME NEW u \in Users, NEW b \in Bills, BillStep(u, b) PROVE MatchInv'
  BY <1>2, <1>3, BillsAndDeposits, OtherMatches DEF AccountsUntouched
<1>4. ASSUME NEW u \in Users, NEW i \in Deposits, DepositStep(u, i) PROVE MatchInv'
  BY <1>2, <1>4, BillsAndDeposits, OtherMatches
<1>5. ASSUME NEW u \in Users, NEW k \in EditableRules, RuleStep(u, k) PROVE MatchInv'
  BY <1>5 DEF RuleStep, ToggleRule
<1>6. CASE UNCHANGED vars
  BY <1>2, <1>6 DEF vars, AllocatedUntouched, TransferHoldsUntouched
<1>7. QED
  BY <1>1, <1>3, <1>4, <1>5, <1>6 DEF Next

LEMMA MatchInit ==
  ASSUME Init
  PROVE  MatchInv
<1>1. \A kind, p : PendingHold(kind, p) = 0
  <2>1. SUFFICES ASSUME NEW kind, NEW p PROVE PendingHold(kind, p) = 0
    OBVIOUS
  <2>2. /\ [q \in Requests |-> PendingAmount(kind, p, q)] \in [1 .. NRequests -> Int]
        /\ \A r \in 1 .. NRequests : [q \in Requests |-> PendingAmount(kind, p, q)][r] = 0
    BY DEF Init, Requests, PendingAmount, Pending, PendingStates, NoDoc
  <2>3. QED
    BY <2>2, SumZero, RequestAssumption DEF PendingHold
<1>2. \A p : ApprovedAllocations(p) = 0
  <2>1. SUFFICES ASSUME NEW p PROVE ApprovedAllocations(p) = 0
    OBVIOUS
  <2>2. /\ [q \in Requests |-> ApprovedAmount(p, q)] \in [1 .. NRequests -> Int]
        /\ \A r \in 1 .. NRequests : [q \in Requests |-> ApprovedAmount(p, q)][r] = 0
    BY DEF Init, Requests, ApprovedAmount, NoDoc
  <2>3. QED
    BY <2>2, SumZero, RequestAssumption DEF ApprovedAllocations
<1>3. /\ \A a \in Accounts : OnHold(moves, a) = 0
      /\ \A b \in Buckets : Allocated(moves, b) = 0 /\ TransferHold(moves, b) = 0
  BY PlacesAre DEF Init, EmptyLedger, OnHold, Allocated, TransferHold, MoveTypes
<1>4. PostedOnceFinal
  BY DEF Init, PostedOnceFinal, Exists
<1>5. QED
  BY <1>1, <1>2, <1>3, <1>4 DEF MatchInv, LedgerMatchesDocuments

(* Where nobody is an administrator, the ledger says what the documents    *)
(* say: what is allocated to a bucket is what the approved allocations     *)
(* come to, and what is on hold is exactly what pending requests were      *)
(* promised.  Only an administrator can cancel an approved request, which  *)
(* is then approved again without posting anything (the Reapproval run).   *)
THEOREM LedgerAgrees ==
  ASSUME \A u \in Users : ~HasGroup(u, "admin")
  PROVE  Spec => []LedgerMatchesDocuments
<1>1. Init => MatchInv
  BY MatchInit
<1>2. TypeOK /\ TypeOK' /\ MatchInv /\ [Next]_vars => MatchInv'
  BY MatchStep
<1>3. MatchInv => LedgerMatchesDocuments
  BY DEF MatchInv
<1>4. QED
  BY <1>1, <1>2, <1>3, TypeCorrect, PTL DEF Spec
=============================================================================
