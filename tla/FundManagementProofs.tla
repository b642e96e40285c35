------------------------ MODULE FundManagementProofs ------------------------
(***************************************************************************)
(* The fund management system keeps its types; accounts and buckets cover  *)
(* what their pending allocations and transfers were promised, and         *)
(* accounts stay solvent.                                                  *)
(***************************************************************************)
EXTENDS FundManagement, SumsProofs

-----------------------------------------------------------------------------
(* What one more line does to the ledger, and to each balance computed     *)
(* from it.                                                                *)

(* A place is an account or a bucket. *)
LEMMA PlacesAre ==
  /\ NPlaces \in Nat /\ Places = 1 .. NPlaces
  /\ Accounts \subseteq Places /\ Buckets \subseteq Places
  /\ \A p \in Places : p \in Buckets <=> p \notin Accounts
BY LedgerAssumption DEF NPlaces, Places, Accounts, Buckets

(* A line adds its amount to one total of each place it refers to. *)
LEMMA PostAdds ==
  ASSUME NEW m \in Ledgers, NEW type \in MoveTypes, NEW places, NEW amount \in Nat
  PROVE  /\ Post(m, type, places, amount) \in Ledgers
         /\ \A p \in Places, t \in MoveTypes :
              Post(m, type, places, amount)[p][t] =
                IF p \in places /\ t = type THEN m[p][t] + amount ELSE m[p][t]
BY DEF Post, Ledgers

(* What a line of a type adds to a balance that adds up the types in plus  *)
(* and subtracts those in minus.                                           *)
Change(type, plus, minus, amount) ==
  IF type \in plus THEN amount ELSE IF type \in minus THEN -amount ELSE 0

(* Totals are natural numbers. *)
LEMMA TotalsAreNat ==
  ASSUME NEW m \in Ledgers, NEW p \in Places, NEW t \in MoveTypes
  PROVE  m[p][t] \in Nat
BY DEF Ledgers

(* The balances of an account. *)
LEMMA AccountPost ==
  ASSUME NEW m \in Ledgers, NEW type \in MoveTypes, NEW places, NEW amount \in Nat,
         NEW a \in Accounts
  PROVE  LET n == Post(m, type, places, amount)
             here(x) == IF a \in places THEN x ELSE 0
         IN  /\ OnHold(m, a) \in Int /\ Unassigned(m, a) \in Int
             /\ OnHold(n, a) = OnHold(m, a)
                  + here(Change(type, {"alloc_hold"}, {"alloc_release", "assign"}, amount))
             /\ Unassigned(n, a) = Unassigned(m, a)
                  + here(Change(type, {"incoming", "alloc_release", "assign_reverse"},
                                {"alloc_hold"}, amount))
<1> DEFINE n == Post(m, type, places, amount)
<1>1. a \in Places
  BY LedgerAssumption DEF Accounts, Places, NPlaces
<1>2. \A t \in MoveTypes : m[a][t] \in Nat
  BY <1>1, TotalsAreNat
<1>3. \A t \in MoveTypes :
        n[a][t] = IF a \in places /\ t = type THEN m[a][t] + amount ELSE m[a][t]
  BY <1>1, PostAdds
<1> HIDE DEF n
<1>4. OnHold(m, a) \in Int /\ Unassigned(m, a) \in Int
  BY <1>2 DEF OnHold, Unassigned, MoveTypes
<1>5. OnHold(n, a) = OnHold(m, a)
        + IF a \in places
          THEN Change(type, {"alloc_hold"}, {"alloc_release", "assign"}, amount) ELSE 0
  BY <1>2, <1>3 DEF OnHold, MoveTypes, Change
<1>6. Unassigned(n, a) = Unassigned(m, a)
        + IF a \in places
          THEN Change(type, {"incoming", "alloc_release", "assign_reverse"},
                      {"alloc_hold"}, amount) ELSE 0
  BY <1>2, <1>3 DEF Unassigned, MoveTypes, Change
<1>7. QED
  BY <1>4, <1>5, <1>6 DEF n

(* Balances are integers. *)
LEMMA BalancesType ==
  ASSUME NEW m \in Ledgers
  PROVE  /\ \A a \in Accounts : OnHold(m, a) \in Int /\ Unassigned(m, a) \in Int
         /\ \A b \in Buckets : /\ TransferHold(m, b) \in Int /\ RequisitionHold(m, b) \in Int
                                /\ Spent(m, b) \in Int
<1>1. \A p \in Places, t \in MoveTypes : m[p][t] \in Nat
  BY TotalsAreNat
<1>2. Accounts \subseteq Places /\ Buckets \subseteq Places
  BY LedgerAssumption DEF Accounts, Buckets, Places, NPlaces
<1>3. \A a \in Accounts : OnHold(m, a) \in Int /\ Unassigned(m, a) \in Int
  BY <1>1, <1>2 DEF OnHold, Unassigned, MoveTypes
<1>4. \A b \in Buckets : /\ TransferHold(m, b) \in Int /\ RequisitionHold(m, b) \in Int
                         /\ Spent(m, b) \in Int
  BY <1>1, <1>2 DEF TransferHold, RequisitionHold, Spent, MoveTypes
<1>5. QED
  BY <1>3, <1>4

(* What a bucket holds and has spent. *)
LEMMA BucketPost ==
  ASSUME NEW m \in Ledgers, NEW type \in MoveTypes, NEW places, NEW amount \in Nat,
         NEW b \in Buckets
  PROVE  LET n == Post(m, type, places, amount)
             here(x) == IF b \in places THEN x ELSE 0
         IN  /\ TransferHold(m, b) \in Int /\ RequisitionHold(m, b) \in Int
             /\ Spent(m, b) \in Int
             /\ TransferHold(n, b) = TransferHold(m, b)
                  + here(Change(type, {"transfer_hold"},
                                {"transfer_release", "transfer_settle"}, amount))
             /\ RequisitionHold(n, b) = RequisitionHold(m, b)
                  + here(Change(type, {"req_hold", "reverse"}, {"req_release", "spend"}, amount))
             /\ Spent(n, b) = Spent(m, b) + here(Change(type, {"spend"}, {"reverse"}, amount))
<1> DEFINE n == Post(m, type, places, amount)
<1>1. b \in Places
  BY LedgerAssumption DEF Buckets, Places, NPlaces
<1>2. \A t \in MoveTypes : m[b][t] \in Nat
  BY <1>1, TotalsAreNat
<1>3. \A t \in MoveTypes :
        n[b][t] = IF b \in places /\ t = type THEN m[b][t] + amount ELSE m[b][t]
  BY <1>1, PostAdds
<1> HIDE DEF n
<1>4. /\ TransferHold(m, b) \in Int /\ RequisitionHold(m, b) \in Int
      /\ Spent(m, b) \in Int
  BY <1>2 DEF TransferHold, RequisitionHold, Spent, MoveTypes
<1>5. TransferHold(n, b) = TransferHold(m, b)
        + IF b \in places
          THEN Change(type, {"transfer_hold"}, {"transfer_release", "transfer_settle"}, amount)
          ELSE 0
  BY <1>2, <1>3 DEF TransferHold, MoveTypes, Change
<1>6. RequisitionHold(n, b) = RequisitionHold(m, b)
        + IF b \in places
          THEN Change(type, {"req_hold", "reverse"}, {"req_release", "spend"}, amount) ELSE 0
  BY <1>2, <1>3 DEF RequisitionHold, MoveTypes, Change
<1>7. Spent(n, b) = Spent(m, b)
        + IF b \in places THEN Change(type, {"spend"}, {"reverse"}, amount) ELSE 0
  BY <1>2, <1>3 DEF Spent, MoveTypes, Change
<1>8. QED
  BY <1>4, <1>5, <1>6, <1>7 DEF n

(* The lines that leave the balances of accounts, and the transfer holds   *)
(* of buckets, as they are.                                                *)
AccountsUntouched(m, n) ==
  \A a \in Accounts : OnHold(n, a) = OnHold(m, a) /\ Unassigned(n, a) = Unassigned(m, a)
TransferHoldsUntouched(m, n) ==
  \A b \in Buckets : TransferHold(n, b) = TransferHold(m, b)

LEMMA OtherLines ==
  ASSUME NEW m \in Ledgers, NEW type \in MoveTypes, NEW places, NEW amount \in Nat
  PROVE  /\ type \notin {"incoming", "alloc_hold", "alloc_release", "assign", "assign_reverse"}
              => AccountsUntouched(m, Post(m, type, places, amount))
         /\ type \notin {"transfer_hold", "transfer_release", "transfer_settle"}
              => TransferHoldsUntouched(m, Post(m, type, places, amount))
<1> DEFINE n == Post(m, type, places, amount)
<1>1. ASSUME type \notin {"incoming", "alloc_hold", "alloc_release", "assign", "assign_reverse"},
             NEW a \in Accounts
      PROVE  OnHold(n, a) = OnHold(m, a) /\ Unassigned(n, a) = Unassigned(m, a)
  <2>1. Change(type, {"alloc_hold"}, {"alloc_release", "assign"}, amount) = 0
    BY <1>1 DEF Change
  <2>2. Change(type, {"incoming", "alloc_release", "assign_reverse"}, {"alloc_hold"}, amount) = 0
    BY <1>1 DEF Change
  <2>3. QED
    BY <2>1, <2>2, AccountPost
<1>2. ASSUME type \notin {"transfer_hold", "transfer_release", "transfer_settle"},
             NEW b \in Buckets
      PROVE  TransferHold(n, b) = TransferHold(m, b)
  <2>1. Change(type, {"transfer_hold"}, {"transfer_release", "transfer_settle"}, amount) = 0
    BY <1>2 DEF Change
  <2>2. QED
    BY <2>1, BucketPost
<1>3. QED
  BY <1>1, <1>2 DEF AccountsUntouched, TransferHoldsUntouched

-----------------------------------------------------------------------------
(* The operators the actions are built from. *)

(* A chain has one to three levels. *)
LEMMA LevelsType ==
  ASSUME NEW rules \in SUBSET (1 .. NRules), NEW kind, NEW amount
  PROVE  ApprovalLevels(rules, kind, amount) \in UNION {[1 .. n -> LevelCodes] : n \in 1 .. 3}
<1> DEFINE best == {k \in MatchFor(rules, kind, amount) : Catalogue[k].levels # <<>>}
<1>1. CASE best = {}
  <2>1. DefaultLevels \in [1 .. 2 -> LevelCodes]
    BY DEF DefaultLevels, LevelCodes
  <2>2. QED
    BY <1>1, <2>1 DEF ApprovalLevels
<1>2. CASE best # {}
  <2>1. PICK k \in best : ApprovalLevels(rules, kind, amount) = Catalogue[k].levels
    BY <1>2 DEF ApprovalLevels
  <2>2. k \in 1 .. NRules /\ Catalogue[k].levels # <<>>
    BY <2>1 DEF MatchFor
  <2>3. Catalogue[k].levels \in {<<>>} \cup UNION {[1 .. n -> LevelCodes] : n \in 1 .. 3}
    BY <2>2, RuleAssumption DEF IsRule
  <2>4. QED
    BY <2>1, <2>2, <2>3
<1>3. QED
  BY <1>1, <1>2

(* The index of a level's code is at most the level's own. *)
LEMMA LevelIndexType ==
  ASSUME NEW r \in Requests, NEW i \in 1 .. 3
  PROVE  LevelIndex(r, i) \in 1 .. i
<1> DEFINE Same == {j \in 1 .. i : Levels(r)[j] = Levels(r)[i]}
<1>1. Same # {} /\ Same \subseteq Nat
  <2>1. i \in Same
    OBVIOUS
  <2>2. QED
    BY <2>1
<1>2. PICK j \in Same : \A h \in Same : j <= h
  BY <1>1, LeastNatural
<1>3. \A h \in 1 .. (j - 1) : Levels(r)[h] # Levels(r)[i]
  <2>1. TAKE h \in 1 .. (j - 1)
  <2>2. h \in 1 .. i /\ h < j /\ h \in Nat /\ j \in Nat
    OBVIOUS
  <2>3. h \notin Same
    BY <1>2, <2>2
  <2>4. QED
    BY <2>2, <2>3
<1>4. QED
  BY <1>3 DEF LevelIndex

(* What the hooks leave is a ledger. *)
LEMMA HooksType ==
  ASSUME TypeOK, NEW r \in Requests, Exists(r)
  PROVE  /\ Allocation(r) => /\ AllocationHold(r) \in Ledgers
                             /\ AllocationAssign(r) \in Ledgers
                             /\ AllocationRelease(r) \in Ledgers
                             /\ AllocationReverse(r) \in Ledgers
         /\ Transfer(r) => /\ TransferHeld(r) \in Ledgers
                           /\ TransferSettle(r) \in Ledgers
                           /\ TransferRelease(r) \in Ledgers
                           /\ TransferReverse(r) \in Ledgers
         /\ Requisition(r) => /\ RequisitionHeld(r) \in Ledgers
                              /\ RequisitionRelease(r) \in Ledgers
<1>1. docs[r] \in Documents(Kind[r]) /\ moves \in Ledgers
  BY DEF TypeOK, Exists
<1>2. docs[r].source \in Places /\ docs[r].amount \in Nat
  BY <1>1, RequestAssumption DEF Documents
<1>3. Allocation(r) \/ Transfer(r) => docs[r].target \in Places
  BY <1>1, LedgerAssumption
     DEF Documents, Endpoints, Allocation, Transfer, Buckets, Accounts, Places, NPlaces
<1>4. ASSUME Allocation(r)
      PROVE  /\ AllocationHold(r) \in Ledgers
             /\ AllocationAssign(r) \in Ledgers
             /\ AllocationRelease(r) \in Ledgers
             /\ AllocationReverse(r) \in Ledgers
  <2> DEFINE ends == {docs[r].source, docs[r].target}
  <2>1. {docs[r].source} \in SUBSET Places /\ ends \in SUBSET Places
    BY <1>2, <1>3, <1>4
  <2> HIDE DEF ends
  <2>2. AllocationHold(r) \in Ledgers /\ AllocationRelease(r) \in Ledgers
    BY <1>1, <1>2, <2>1, PostAdds DEF AllocationHold, AllocationRelease, MoveTypes
  <2>3. Post(moves, "assign", ends, docs[r].amount) \in Ledgers
    BY <1>1, <1>2, <2>1, PostAdds DEF MoveTypes
  <2>4. Post(moves, "assign_reverse", ends, docs[r].amount) \in Ledgers
    BY <1>1, <1>2, <2>1, PostAdds DEF MoveTypes
  <2>5. QED
    BY <2>2, <2>3, <2>4 DEF AllocationAssign, AllocationReverse, ends
<1>5. ASSUME Transfer(r)
      PROVE  /\ TransferHeld(r) \in Ledgers
             /\ TransferSettle(r) \in Ledgers
             /\ TransferRelease(r) \in Ledgers
             /\ TransferReverse(r) \in Ledgers
  <2>1. {docs[r].source} \in SUBSET Places /\ {docs[r].target} \in SUBSET Places
    BY <1>2, <1>3, <1>5
  <2>2. TransferHeld(r) \in Ledgers /\ TransferRelease(r) \in Ledgers
    BY <1>1, <1>2, <2>1, PostAdds DEF TransferHeld, TransferRelease, MoveTypes
  <2>3. Post(moves, "transfer_settle", {docs[r].source}, docs[r].amount) \in Ledgers
    BY <1>1, <1>2, <2>1, PostAdds DEF MoveTypes
  <2>4. Post(moves, "transfer_in_reverse", {docs[r].target}, docs[r].amount) \in Ledgers
    BY <1>1, <1>2, <2>1, PostAdds DEF MoveTypes
  <2>5. TransferSettle(r) \in Ledgers
    BY <1>2, <2>1, <2>3, PostAdds DEF TransferSettle, MoveTypes
  <2>6. TransferReverse(r) \in Ledgers
    BY <1>2, <2>1, <2>4, PostAdds DEF TransferReverse, MoveTypes
  <2>7. QED
    BY <2>2, <2>5, <2>6
<1>6. Requisition(r) => /\ RequisitionHeld(r) \in Ledgers
                        /\ RequisitionRelease(r) \in Ledgers
  BY <1>1, <1>2, PostAdds DEF RequisitionHeld, RequisitionRelease, MoveTypes
<1>7. QED
  BY <1>4, <1>5, <1>6

-----------------------------------------------------------------------------
(* Type correctness. *)

(* The constants that stand for states and for no record are no documents. *)
LEMMA Present ==
  ASSUME TypeOK, NEW r \in Requests
  PROVE  /\ Exists(r) => docs[r] \in Documents(Kind[r])
         /\ docs[r].state \in States => Exists(r)
BY DEF TypeOK, Exists, NoDoc, States

(* Writing the state of a request leaves it a request of its kind. *)
LEMMA StateWritten ==
  ASSUME TypeOK, NEW r \in Requests, Exists(r), NEW s \in States,
         s = "closed" => Kind[r] = "requisition",
         NEW flag \in BOOLEAN
  PROVE  /\ [docs[r] EXCEPT !.state = s] \in Documents(Kind[r])
         /\ [docs[r] EXCEPT !.state = s, !.posted = flag] \in Documents(Kind[r])
BY DEF TypeOK, Exists, Documents

(* A request's next document decides the type of the array of documents. *)
LEMMA DocsType ==
  ASSUME TypeOK, NEW r \in Requests, NEW d \in Documents(Kind[r]) \cup {NoDoc},
         docs' = [docs EXCEPT ![r] = d]
  PROVE  /\ \A q \in Requests : docs'[q] \in Documents(Kind[q]) \cup {NoDoc}
         /\ DOMAIN docs' = Requests
BY DEF TypeOK

(* An approval or rejection adds a line to the history. *)
LEMMA HistoryType ==
  ASSUME TypeOK, NEW u \in Users, NEW r \in Requests, Exists(r),
         NEW i \in CurrentLevel(r), NEW result \in Results
  PROVE  /\ [history EXCEPT ![r] = Append(@, Decision(u, Levels(r)[i], result))]
               \in [Requests -> Seq(Lines)]
         /\ i \in 1 .. 3
         /\ Levels(r) \in UNION {[1 .. n -> LevelCodes] : n \in 1 .. 3}
<1>1. Levels(r) \in UNION {[1 .. n -> LevelCodes] : n \in 1 .. 3}
  BY LevelsType DEF TypeOK, Levels
<1>2. PICK n \in 1 .. 3 : Levels(r) \in [1 .. n -> LevelCodes]
  BY <1>1
<1>3. i \in 1 .. n
  BY <1>2 DEF CurrentLevel
<1>4. i \in 1 .. 3
  BY <1>2, <1>3
<1>5. Decision(u, Levels(r)[i], result) \in Lines
  BY <1>2, <1>3 DEF Decision, Lines
<1>6. QED
  BY <1>1, <1>4, <1>5 DEF TypeOK

(* What is billed of a requisition is a natural number. *)
LEMMA BilledType ==
  ASSUME TypeOK, NEW r \in Requests
  PROVE  /\ Billed(r) \in Nat
         /\ Exists(r) => RemainingBillable(r) \in Int
<1>1. [b \in Bills |-> PostedAmount(b, r)] \in [1 .. NBills -> Nat]
  <2>1. SUFFICES ASSUME NEW b \in Bills PROVE PostedAmount(b, r) \in Nat
    BY DEF Bills
  <2>2. bills[b] \in BillRecords \cup {NoBill}
    BY DEF TypeOK
  <2>3. CASE bills[b].state = "posted"
    <3>1. bills[b] \in BillRecords
      BY <2>2, <2>3 DEF NoBill
    <3>2. bills[b].amount \in Nat
      BY <3>1, RequestAssumption DEF BillRecords
    <3>3. QED
      BY <3>2 DEF PostedAmount
  <2>4. QED
    BY <2>3 DEF PostedAmount
<1>2. Billed(r) \in Nat
  BY <1>1, SumNat, BillAssumption DEF Billed
<1>3. Exists(r) => docs[r].amount \in Nat
  BY Present, RequestAssumption DEF Documents
<1>4. QED
  BY <1>2, <1>3 DEF RemainingBillable

(* The ledger after a request's step, which posts what a hook leaves.      *)
LEMMA RequestLedgerType ==
  ASSUME TypeOK, NEW u \in Users, NEW r \in Requests, RequestStep(u, r)
  PROVE  moves' \in Ledgers
<1>1. moves \in Ledgers
  BY DEF TypeOK
<1>2. CASE Prepare(u, r)
  BY <1>1, <1>2 DEF Prepare, Create, EditDraft, CancelDraft, ActionResetToDraft
<1>3. CASE Submit(u, r)
  BY <1>3, HooksType DEF Submit, AllocationSubmit, TransferSubmit, RequisitionSubmit, ActionSubmit
<1>4. CASE Approve(u, r)
  BY <1>1, <1>4, HooksType
     DEF Approve, AllocationApprove, TransferApprove, RequisitionApprove, ActionApprove
<1>5. CASE Reject(u, r)
  BY <1>5, HooksType
     DEF Reject, AllocationReject, TransferReject, RequisitionReject, ActionReject
<1>6. CASE Cancel(u, r)
  BY <1>6, HooksType
     DEF Cancel, AllocationCancel, TransferCancel, RequisitionCancel, CancelPending
<1>7. CASE CancelFinal(u, r)
  BY <1>7, HooksType
     DEF CancelFinal, AllocationCancelApproved, TransferCancelApproved,
         RequisitionCancelApproved, CancelApproved
<1>8. CASE ActionClose(u, r)
  <2>1. docs[r].source \in Places /\ docs[r] \in Documents(Kind[r])
    BY <1>8, Present DEF ActionClose, Documents
  <2>2. Unused(r) \in Ledgers
    <3>1. RemainingBillable(r) \in Int /\ moves \in Ledgers
      BY <1>1, <1>8, BilledType DEF ActionClose
    <3>2. CASE RemainingBillable(r) > 0
      <4>1. RemainingBillable(r) \in Nat
        BY <3>1, <3>2
      <4>2. QED
        BY <2>1, <3>1, <3>2, <4>1, PostAdds DEF Unused, MoveTypes
    <3>3. QED
      BY <3>1, <3>2 DEF Unused
  <2>3. QED
    BY <1>8, <2>2 DEF ActionClose
<1>9. QED
  BY <1>2, <1>3, <1>4, <1>5, <1>6, <1>7, <1>8 DEF RequestStep

(* The documents after a request's step. *)
LEMMA RequestDocsType ==
  ASSUME TypeOK, NEW u \in Users, NEW r \in Requests, RequestStep(u, r)
  PROVE  /\ \A q \in Requests : docs'[q] \in Documents(Kind[q]) \cup {NoDoc}
         /\ DOMAIN docs' = Requests
<1>1. SUFFICES \E d \in Documents(Kind[r]) \cup {NoDoc} : docs' = [docs EXCEPT ![r] = d]
  BY DocsType
<1>2. CASE Prepare(u, r)
  <2>1. CASE \E amount \in Amounts, ends \in Endpoints(Kind[r]) :
               Create(u, r, amount, ends) \/ EditDraft(u, r, amount, ends)
    <3>1. PICK amount \in Amounts, ends \in Endpoints(Kind[r]) :
            Create(u, r, amount, ends) \/ EditDraft(u, r, amount, ends)
      BY <2>1
    <3>2. <<ends[1], ends[2]>> \in Endpoints(Kind[r]) /\ ends[1] \in Places
          /\ ends[2] \in Places \cup {NoPlace}
      BY LedgerAssumption, RequestAssumption
         DEF Endpoints, Kinds, Accounts, Buckets, Places, NPlaces
    <3>3. CASE Create(u, r, amount, ends)
      <4> DEFINE d == [state |-> "draft", amount |-> amount, source |-> ends[1],
                       target |-> ends[2], by |-> u, posted |-> FALSE]
      <4>1. d \in Documents(Kind[r])
        BY <3>2 DEF Documents, States
      <4>2. QED
        BY <3>3, <4>1 DEF Create
    <3>4. CASE EditDraft(u, r, amount, ends)
      <4> DEFINE d == [docs[r] EXCEPT !.amount = amount, !.source = ends[1], !.target = ends[2]]
      <4>1. docs[r] \in Documents(Kind[r])
        BY <3>4, Present DEF EditDraft
      <4>2. d \in Documents(Kind[r])
        BY <3>2, <4>1 DEF Documents
      <4>3. docs' = [docs EXCEPT ![r] = d]
        BY <3>4 DEF EditDraft
      <4>4. QED
        BY <4>2, <4>3
    <3>5. QED
      BY <3>1, <3>3, <3>4
  <2>2. CASE CancelDraft(u, r)
    BY <2>2, StateWritten DEF CancelDraft, States
  <2>3. CASE ActionResetToDraft(u, r)
    BY <2>3, StateWritten DEF ActionResetToDraft, States
  <2>4. QED
    BY <1>2, <2>1, <2>2, <2>3 DEF Prepare
<1>3. CASE Submit(u, r)
  BY <1>3, StateWritten
     DEF Submit, AllocationSubmit, TransferSubmit, RequisitionSubmit, ActionSubmit, States
<1>4. CASE Approve(u, r)
  <2>1. PICK final : ActionApprove(u, r, final)
    BY <1>4 DEF Approve, AllocationApprove, TransferApprove, RequisitionApprove
  <2>2. PICK i \in CurrentLevel(r) :
          LET next == LevelIndex(r, i) + 1
          IN  \/ docs' = [docs EXCEPT ![r].state = "approved", ![r].posted = TRUE]
              \/ next <= Len(Levels(r)) /\ docs' = [docs EXCEPT ![r].state = StageStates[next]]
    BY <2>1 DEF ActionApprove
  <2>3. Exists(r)
    BY <2>1 DEF ActionApprove
  <2>4. CASE docs' = [docs EXCEPT ![r].state = "approved", ![r].posted = TRUE]
    BY <2>3, <2>4, StateWritten DEF States
  <2>5. CASE /\ LevelIndex(r, i) + 1 <= Len(Levels(r))
             /\ docs' = [docs EXCEPT ![r].state = StageStates[LevelIndex(r, i) + 1]]
    <3> DEFINE next == LevelIndex(r, i) + 1
    <3>1. i \in 1 .. 3 /\ Levels(r) \in UNION {[1 .. n -> LevelCodes] : n \in 1 .. 3}
      BY <2>3, HistoryType DEF Results
    <3>2. Len(Levels(r)) \in 1 .. 3
      BY <3>1
    <3>3. next \in 2 .. 3
      <4>1. LevelIndex(r, i) \in 1 .. i
        BY <3>1, LevelIndexType
      <4>2. LevelIndex(r, i) + 1 <= Len(Levels(r))
        BY <2>5
      <4>3. \A j, n \in 1 .. 3 : \A k \in 1 .. j : k + 1 <= n => k + 1 \in 2 .. 3
        OBVIOUS
      <4>4. QED
        BY <3>1, <3>2, <4>1, <4>2, <4>3
    <3>4. StageStates[next] \in {"gm_approval", "md_approval"}
      BY <3>3 DEF StageStates
    <3>5. QED
      BY <2>3, <2>5, <3>4, StateWritten DEF States
  <2>6. QED
    BY <2>2, <2>4, <2>5
<1>5. CASE Reject(u, r)
  BY <1>5, StateWritten
     DEF Reject, AllocationReject, TransferReject, RequisitionReject, ActionReject, States
<1>6. CASE Cancel(u, r)
  BY <1>6, StateWritten
     DEF Cancel, AllocationCancel, TransferCancel, RequisitionCancel, CancelPending, States
<1>7. CASE CancelFinal(u, r)
  BY <1>7, StateWritten
     DEF CancelFinal, AllocationCancelApproved, TransferCancelApproved,
         RequisitionCancelApproved, CancelApproved, States
<1>8. CASE ActionClose(u, r)
  BY <1>8, StateWritten DEF ActionClose, Requisition, States
<1>9. QED
  BY <1>2, <1>3, <1>4, <1>5, <1>6, <1>7, <1>8 DEF RequestStep

(* A step of a request preserves the types. *)
LEMMA RequestStepType ==
  ASSUME TypeOK, NEW u \in Users, NEW r \in Requests, RequestStep(u, r)
  PROVE  TypeOK'
<1>1. moves' \in Ledgers
  BY RequestLedgerType
<1>2. (\A q \in Requests : docs'[q] \in Documents(Kind[q]) \cup {NoDoc})
      /\ DOMAIN docs' = Requests
  BY RequestDocsType
<1>3. /\ history' \in [Requests -> Seq(Lines)]
      /\ todo' \in [Requests -> SUBSET Users]
      /\ active' \subseteq 1 .. NRules
  <2>1. \A code : Alerted(code) \subseteq Users
    BY DEF Alerted, Members
  <2>3. CASE Prepare(u, r)
    BY <2>3, <2>1 DEF Prepare, Create, EditDraft, CancelDraft, ActionResetToDraft, TypeOK
  <2>4. CASE Submit(u, r)
    <3>1. PICK valid, hold : ActionSubmit(u, r, valid, hold)
      BY <2>4 DEF Submit, AllocationSubmit, TransferSubmit, RequisitionSubmit
    <3>2. todo' = [todo EXCEPT ![r] = Alerted(Levels(r)[1])]
      BY <3>1 DEF ActionSubmit
    <3>3. history' = history /\ active' = active
      BY <3>1 DEF ActionSubmit
    <3>4. QED
      BY <2>1, <3>2, <3>3 DEF TypeOK
  <2>5. CASE Approve(u, r)
    <3>1. PICK final : ActionApprove(u, r, final)
      BY <2>5 DEF Approve, AllocationApprove, TransferApprove, RequisitionApprove
    <3>2. PICK i \in CurrentLevel(r) :
            /\ history' = [history EXCEPT ![r] =
                             Append(@, Decision(u, Levels(r)[i], "approved"))]
            /\ \E set \in SUBSET Users : todo' = [todo EXCEPT ![r] = set]
      BY <3>1, <2>1 DEF ActionApprove
    <3>3. history' \in [Requests -> Seq(Lines)]
      BY <3>1, <3>2, HistoryType DEF ActionApprove, Results
    <3>4. todo' \in [Requests -> SUBSET Users]
      BY <3>2 DEF TypeOK
    <3>5. QED
      BY <3>1, <3>3, <3>4 DEF ActionApprove, TypeOK
  <2>6. CASE Reject(u, r)
    <3>1. PICK released : ActionReject(u, r, released)
      BY <2>6 DEF Reject, AllocationReject, TransferReject, RequisitionReject
    <3>2. PICK i \in CurrentLevel(r) :
            history' = [history EXCEPT ![r] =
                          Append(@, Decision(u, Levels(r)[i], "rejected"))]
      BY <3>1 DEF ActionReject
    <3>3. history' \in [Requests -> Seq(Lines)]
      BY <3>1, <3>2, HistoryType DEF ActionReject, Results
    <3>4. QED
      BY <3>1, <3>3 DEF ActionReject, TypeOK
  <2>7. CASE Cancel(u, r)
    BY <2>7 DEF Cancel, AllocationCancel, TransferCancel, RequisitionCancel,
                CancelPending, TypeOK
  <2>8. CASE CancelFinal(u, r)
    BY <2>8 DEF CancelFinal, AllocationCancelApproved, TransferCancelApproved,
                RequisitionCancelApproved, CancelApproved, TypeOK
  <2>9. CASE ActionClose(u, r)
    BY <2>9 DEF ActionClose, TypeOK
  <2>10. QED
    BY <2>3, <2>4, <2>5, <2>6, <2>7, <2>8, <2>9 DEF RequestStep
<1>4. UNCHANGED <<bills, deposits>>
  BY DEF RequestStep
<1>5. QED
  BY <1>1, <1>2, <1>3, <1>4 DEF TypeOK

(* A step of a bill preserves the types. *)
LEMMA BillStepType ==
  ASSUME TypeOK, NEW u \in Users, NEW b \in Bills, BillStep(u, b)
  PROVE  TypeOK'
<1>1. bills[b] \in BillRecords \cup {NoBill} /\ moves \in Ledgers
  BY DEF TypeOK
<1>2. bills[b].state \in {"draft", "posted"} =>
        /\ bills[b] \in BillRecords
        /\ BillSpent(b) \in Ledgers /\ BillReturned(b) \in Ledgers
  <2>1. ASSUME bills[b].state \in {"draft", "posted"}
        PROVE  bills[b] \in BillRecords
    BY <1>1, <2>1 DEF NoBill
  <2>2. ASSUME bills[b] \in BillRecords
        PROVE  BillSpent(b) \in Ledgers /\ BillReturned(b) \in Ledgers
    <3>1. bills[b].amount \in Nat
      BY <2>2, RequestAssumption DEF BillRecords
    <3>2. QED
      BY <1>1, <3>1, PostAdds DEF BillSpent, BillReturned, MoveTypes
  <2>3. QED
    BY <2>1, <2>2
<1>3. moves' \in Ledgers
  BY <1>1, <1>2 DEF BillStep, BillCreate, BillEdit, BillPost, BillReverse, BillCancel
<1>4. bills' \in [Bills -> BillRecords \cup {NoBill}]
  <2>1. bills \in [Bills -> BillRecords \cup {NoBill}]
    BY DEF TypeOK
  <2>2. CASE \E r \in Requests, amount \in Amounts :
               BillCreate(u, b, r, amount) \/ BillEdit(u, b, r, amount)
    <3>1. PICK r \in Requests, amount \in Amounts :
            BillCreate(u, b, r, amount) \/ BillEdit(u, b, r, amount)
      BY <2>2
    <3>2. CASE BillCreate(u, b, r, amount)
      BY <2>1, <3>2 DEF BillCreate, BillRecords
    <3>3. CASE BillEdit(u, b, r, amount)
      BY <2>1, <3>3, <1>2 DEF BillEdit, BillRecords
    <3>4. QED
      BY <3>1, <3>2, <3>3
  <2>3. CASE BillPost(u, b)
    BY <2>1, <2>3, <1>2 DEF BillPost, BillRecords
  <2>4. CASE BillReverse(u, b)
    BY <2>1, <2>4, <1>2 DEF BillReverse, BillRecords
  <2>5. CASE BillCancel(u, b)
    BY <2>1, <2>5, <1>2 DEF BillCancel, BillRecords
  <2>6. QED
    BY <2>2, <2>3, <2>4, <2>5 DEF BillStep
<1>5. UNCHANGED <<docs, history, todo, active, deposits>>
  BY DEF BillStep, BillCreate, BillEdit, BillPost, BillReverse, BillCancel
<1>6. QED
  BY <1>3, <1>4, <1>5 DEF TypeOK

(* A step of a deposit preserves the types. *)
LEMMA DepositStepType ==
  ASSUME TypeOK, NEW u \in Users, NEW i \in Deposits, DepositStep(u, i)
  PROVE  TypeOK'
<1>1. /\ deposits \in [Deposits -> DepositRecords \cup {NoDeposit}]
      /\ moves \in Ledgers
      /\ UNCHANGED <<docs, history, todo, active, bills>>
  BY DEF TypeOK, DepositStep
<1>2. CASE \E a \in Accounts, amount \in DepositAmounts, ref \in References :
             \/ KeyInDeposit(u, i, a, amount, ref)
             \/ EmailDeposit(i, a, amount, ref)
             \/ EditDeposit(u, i, a, amount, ref)
  <2>1. PICK a \in Accounts, amount \in DepositAmounts, ref \in References :
             \/ KeyInDeposit(u, i, a, amount, ref)
             \/ EmailDeposit(i, a, amount, ref)
             \/ EditDeposit(u, i, a, amount, ref)
    BY <1>2
  <2>2. CASE KeyInDeposit(u, i, a, amount, ref) \/ EmailDeposit(i, a, amount, ref)
    <3>1. \E state \in {"draft", "pending"} : InsertDeposit(i, state, a, amount, ref)
      BY <2>2 DEF KeyInDeposit, EmailDeposit, CreateDeposit
    <3>2. QED
      BY <1>1, <2>1, <3>1 DEF InsertDeposit, DepositRecords, TypeOK
  <2>3. CASE EditDeposit(u, i, a, amount, ref)
    <3>1. deposits[i] \in DepositRecords
      BY <1>1, <2>3 DEF EditDeposit, NoDeposit
    <3>2. QED
      BY <1>1, <2>3, <3>1 DEF EditDeposit, DepositRecords, TypeOK
  <2>4. QED
    BY <2>1, <2>2, <2>3
<1>3. CASE ActionVerify(u, i)
  <2>1. deposits[i] \in DepositRecords
    BY <1>1, <1>3 DEF ActionVerify, NoDeposit
  <2>2. QED
    BY <1>1, <1>3, <2>1 DEF ActionVerify, DepositRecords, TypeOK
<1>4. CASE ActionConfirm(u, i)
  <2>1. deposits[i] \in DepositRecords
    BY <1>1, <1>4 DEF ActionConfirm, NoDeposit
  <2>2. deposits[i].amount \in Nat
    BY <2>1, DepositAssumption DEF DepositRecords
  <2>3. moves' \in Ledgers
    BY <1>1, <1>4, <2>2, PostAdds DEF ActionConfirm, MoveTypes
  <2>4. QED
    BY <1>1, <1>4, <2>1, <2>3 DEF ActionConfirm, DepositRecords, TypeOK
<1>5. QED
  BY <1>2, <1>3, <1>4 DEF DepositStep, DepositAction

(* Every variable has its type, whatever the users do, with any number of  *)
(* requests, bills and deposits, any rules and any membership of groups.   *)
THEOREM TypeCorrect == Spec => []TypeOK
<1>1. Init => TypeOK
  <2>1. EmptyLedger \in Ledgers
    BY DEF EmptyLedger, Ledgers
  <2>2. QED
    BY <2>1, InitialRulesAssumption DEF Init, TypeOK
<1>2. TypeOK /\ [Next]_vars => TypeOK'
  <2>1. SUFFICES ASSUME TypeOK, [Next]_vars PROVE TypeOK'
    OBVIOUS
  <2>2. ASSUME NEW u \in Users, NEW r \in Requests, RequestStep(u, r) PROVE TypeOK'
    BY <2>1, <2>2, RequestStepType
  <2>3. ASSUME NEW u \in Users, NEW b \in Bills, BillStep(u, b) PROVE TypeOK'
    BY <2>1, <2>3, BillStepType
  <2>4. ASSUME NEW u \in Users, NEW i \in Deposits, DepositStep(u, i) PROVE TypeOK'
    BY <2>1, <2>4, DepositStepType
  <2>5. ASSUME NEW u \in Users, NEW k \in EditableRules, RuleStep(u, k) PROVE TypeOK'
    BY <2>1, <2>5, RequestAssumption DEF RuleStep, ToggleRule, TypeOK
  <2>6. CASE UNCHANGED vars
    BY <2>1, <2>6 DEF vars, TypeOK
  <2>7. QED
    BY <2>1, <2>2, <2>3, <2>4, <2>5, <2>6 DEF Next
<1>3. QED
  BY <1>1, <1>2, PTL DEF Spec

-----------------------------------------------------------------------------
(* What a step does to the request it is about. *)

SameTerms(d, e) == d.amount = e.amount /\ d.source = e.source /\ d.target = e.target

(* A request is pending from its submission to its decision or withdrawal, *)
(* and keeps its amount and its ends all the while.                        *)
LEMMA RequestEffect ==
  ASSUME TypeOK, NEW u \in Users, NEW r \in Requests, RequestStep(u, r)
  PROVE  /\ \A q \in Requests \ {r} : docs'[q] = docs[q]
         /\ \/ Prepare(u, r) /\ ~Pending(r) /\ ~Pending(r)' /\ moves' = moves
            \/ Submit(u, r) /\ ~Pending(r) /\ Pending(r)' /\ SameTerms(docs[r], docs'[r])
            \/ /\ Approve(u, r) /\ Pending(r) /\ SameTerms(docs[r], docs'[r])
               /\ ~Pending(r)' \/ moves' = moves
            \/ (Reject(u, r) \/ Cancel(u, r)) /\ Pending(r) /\ ~Pending(r)'
            \/ (CancelFinal(u, r) \/ ActionClose(u, r)) /\ ~Pending(r) /\ ~Pending(r)'
<1>1. /\ DOMAIN docs = Requests
      /\ Exists(r) => docs[r] \in [state : States, amount : Amounts, source : Places,
                                   target : Places \cup {NoPlace}, by : Users,
                                   posted : BOOLEAN]
  BY Present DEF TypeOK, Documents
<1>2. CASE Prepare(u, r)
  <2>1. CASE \E amount \in Amounts, ends \in Endpoints(Kind[r]) : Create(u, r, amount, ends)
    BY <1>1, <1>2, <2>1 DEF Create, Pending, PendingStates, Exists, NoDoc
  <2>2. CASE \E amount \in Amounts, ends \in Endpoints(Kind[r]) : EditDraft(u, r, amount, ends)
    BY <1>1, <1>2, <2>2 DEF EditDraft, Pending, PendingStates
  <2>3. CASE CancelDraft(u, r)
    BY <1>1, <1>2, <2>3 DEF CancelDraft, Pending, PendingStates
  <2>4. CASE ActionResetToDraft(u, r)
    BY <1>1, <1>2, <2>4 DEF ActionResetToDraft, Pending, PendingStates
  <2>5. QED
    BY <1>2, <2>1, <2>2, <2>3, <2>4 DEF Prepare
<1>3. CASE Submit(u, r)
  BY <1>1, <1>3 DEF Submit, AllocationSubmit, TransferSubmit, RequisitionSubmit, ActionSubmit,
                    Pending, PendingStates, SameTerms
<1>4. CASE Approve(u, r)
  <2>1. PICK final : ActionApprove(u, r, final)
    BY <1>4 DEF Approve, AllocationApprove, TransferApprove, RequisitionApprove
  <2>2. Pending(r)
    <3>1. PICK i \in CurrentLevel(r) : TRUE
      BY <2>1 DEF ActionApprove
    <3>2. i \in 1 .. 3 /\ StageStates[i] = docs[r].state
      BY <2>1, <3>1, HistoryType DEF ActionApprove, CurrentLevel, Results
    <3>3. QED
      BY <3>2 DEF Pending, PendingStates, StageStates
  <2>3. CASE docs' = [docs EXCEPT ![r].state = "approved", ![r].posted = TRUE]
    BY <1>1, <1>4, <2>2, <2>3 DEF Pending, PendingStates, SameTerms
  <2>4. CASE \E s : docs' = [docs EXCEPT ![r].state = s] /\ moves' = moves
    BY <1>1, <1>4, <2>2, <2>4 DEF SameTerms
  <2>5. QED
    BY <2>1, <2>3, <2>4 DEF ActionApprove
<1>5. CASE Reject(u, r)
  <2>1. PICK released : ActionReject(u, r, released)
    BY <1>5 DEF Reject, AllocationReject, TransferReject, RequisitionReject
  <2>2. PICK i \in CurrentLevel(r) : TRUE
    BY <2>1 DEF ActionReject
  <2>3. i \in 1 .. 3 /\ StageStates[i] = docs[r].state
    BY <2>1, <2>2, HistoryType DEF ActionReject, CurrentLevel, Results
  <2>4. QED
    BY <1>1, <1>5, <2>1, <2>3 DEF ActionReject, Pending, PendingStates, StageStates
<1>6. CASE Cancel(u, r)
  BY <1>1, <1>6 DEF Cancel, AllocationCancel, TransferCancel, RequisitionCancel, CancelPending,
                    Pending, PendingStates
<1>7. CASE CancelFinal(u, r)
  BY <1>1, <1>7 DEF CancelFinal, AllocationCancelApproved, TransferCancelApproved,
                    RequisitionCancelApproved, CancelApproved, Pending, PendingStates
<1>8. CASE ActionClose(u, r)
  BY <1>1, <1>8 DEF ActionClose, Pending, PendingStates
<1>9. QED
  BY <1>2, <1>3, <1>4, <1>5, <1>6, <1>7, <1>8 DEF RequestStep

(* What is pending is a natural number. *)
LEMMA PendingHoldType ==
  ASSUME TypeOK, NEW kind, NEW p
  PROVE  /\ \A q \in Requests : PendingAmount(kind, p, q) \in Nat
         /\ PendingHold(kind, p) \in Nat
<1>1. \A q \in Requests : Exists(q) => docs[q].amount \in Nat
  BY Present, RequestAssumption DEF Documents
<1>2. \A q \in Requests : Pending(q) => Exists(q)
  BY Present DEF Pending, PendingStates, States
<1>3. \A q \in Requests : PendingAmount(kind, p, q) \in Nat
  BY <1>1, <1>2 DEF PendingAmount
<1>4. [q \in Requests |-> PendingAmount(kind, p, q)] \in [1 .. NRequests -> Nat]
  BY <1>3 DEF Requests
<1>5. PendingHold(kind, p) \in Nat
  BY <1>4, SumNat, RequestAssumption DEF PendingHold
<1>6. QED
  BY <1>3, <1>5

(* A step of one request changes what it alone counts for in a hold.       *)
LEMMA PendingHoldChange ==
  ASSUME TypeOK, TypeOK', NEW r \in Requests, NEW kind, NEW p,
         \A q \in Requests \ {r} : docs'[q] = docs[q]
  PROVE  /\ PendingHold(kind, p) \in Nat
         /\ PendingAmount(kind, p, r) \in Nat /\ PendingAmount(kind, p, r)' \in Nat
         /\ PendingHold(kind, p)' = PendingHold(kind, p)
              - PendingAmount(kind, p, r) + PendingAmount(kind, p, r)'
<1> DEFINE f == [q \in Requests |-> PendingAmount(kind, p, q)]
           g == [q \in Requests |-> PendingAmount(kind, p, q)']
<1>1. (\A q \in Requests : PendingAmount(kind, p, q) \in Nat) /\ PendingHold(kind, p) \in Nat
  BY PendingHoldType
<1>2. \A q \in Requests : PendingAmount(kind, p, q)' \in Nat
  <2>1. \A q \in Requests : docs'[q] \in Documents(Kind[q]) \cup {NoDoc}
    BY DEF TypeOK
  <2>2. \A q \in Requests : docs'[q].state \in PendingStates => docs'[q] # NoDoc
    BY DEF PendingStates, NoDoc
  <2>3. \A q \in Requests : docs'[q].state \in PendingStates => docs'[q].amount \in Nat
    BY <2>1, <2>2, RequestAssumption DEF Documents
  <2>4. QED
    BY <2>3 DEF PendingAmount, Pending
<1>3. \A q \in 1 .. NRequests : q # r => g[q] = f[q]
  BY DEF Requests, PendingAmount, Pending
<1>4. f \in [1 .. NRequests -> Nat] /\ f \in [1 .. NRequests -> Int]
      /\ g \in [1 .. NRequests -> Int]
  BY <1>1, <1>2 DEF Requests
<1>6. SumTo(g, NRequests) = SumTo(f, NRequests) - f[r] + g[r]
  BY <1>3, <1>4, SumChange, RequestAssumption DEF Requests
<1>7. PendingHold(kind, p) = SumTo(f, NRequests) /\ PendingHold(kind, p)' = SumTo(g, NRequests)
  BY DEF PendingHold
<1>8. QED
  BY <1>1, <1>2, <1>6, <1>7

-----------------------------------------------------------------------------
(* What the hooks do to the balances. *)

(* The hooks of an allocation move its amount at its account.              *)
LEMMA AllocationHooks ==
  ASSUME TypeOK, NEW r \in Requests, Exists(r), Allocation(r), NEW a \in Accounts
  PROVE  LET here == IF docs[r].source = a THEN docs[r].amount ELSE 0
         IN  /\ OnHold(moves, a) \in Int /\ Unassigned(moves, a) \in Int
             /\ OnHold(AllocationHold(r), a) = OnHold(moves, a) + here
             /\ Unassigned(AllocationHold(r), a) = Unassigned(moves, a) - here
             /\ OnHold(AllocationAssign(r), a) = OnHold(moves, a) - here
             /\ Unassigned(AllocationAssign(r), a) = Unassigned(moves, a)
             /\ OnHold(AllocationRelease(r), a) = OnHold(moves, a) - here
             /\ Unassigned(AllocationRelease(r), a) = Unassigned(moves, a) + here
             /\ OnHold(AllocationReverse(r), a) = OnHold(moves, a)
             /\ Unassigned(AllocationReverse(r), a) = Unassigned(moves, a) + here
<1> DEFINE amount == docs[r].amount
           ends == {docs[r].source, docs[r].target}
           here(x) == IF docs[r].source = a THEN x ELSE 0
<1>1. docs[r] \in Documents(Kind[r]) /\ moves \in Ledgers
  BY Present DEF TypeOK
<1>2. amount \in Nat
  BY <1>1, RequestAssumption DEF Documents
<1>3. docs[r].target \in Buckets
  BY <1>1 DEF Documents, Endpoints, Allocation
<1>4. a \notin Buckets
  BY LedgerAssumption DEF Accounts, Buckets, NPlaces
<1>5. (a \in ends <=> docs[r].source = a) /\ (a \in {docs[r].source} <=> docs[r].source = a)
  BY <1>3, <1>4
<1>6. /\ OnHold(moves, a) \in Int /\ Unassigned(moves, a) \in Int
      /\ OnHold(AllocationHold(r), a) = OnHold(moves, a) + here(amount)
      /\ Unassigned(AllocationHold(r), a) = Unassigned(moves, a) + here(-amount)
  BY <1>1, <1>2, <1>5, AccountPost DEF AllocationHold, Change, MoveTypes
<1>7. /\ OnHold(AllocationAssign(r), a) = OnHold(moves, a) + here(-amount)
      /\ Unassigned(AllocationAssign(r), a) = Unassigned(moves, a) + here(0)
  BY <1>1, <1>2, <1>5, AccountPost DEF AllocationAssign, Change, MoveTypes
<1>8. /\ OnHold(AllocationRelease(r), a) = OnHold(moves, a) + here(-amount)
      /\ Unassigned(AllocationRelease(r), a) = Unassigned(moves, a) + here(amount)
  BY <1>1, <1>2, <1>5, AccountPost DEF AllocationRelease, Change, MoveTypes
<1>9. /\ OnHold(AllocationReverse(r), a) = OnHold(moves, a) + here(0)
      /\ Unassigned(AllocationReverse(r), a) = Unassigned(moves, a) + here(amount)
  BY <1>1, <1>2, <1>5, AccountPost DEF AllocationReverse, Change, MoveTypes
<1>10. QED
  BY <1>2, <1>6, <1>7, <1>8, <1>9

(* The hooks of a transfer move its amount at its source.                  *)
LEMMA TransferHooks ==
  ASSUME TypeOK, NEW r \in Requests, Exists(r), Transfer(r), NEW b \in Buckets
  PROVE  LET here == IF docs[r].source = b THEN docs[r].amount ELSE 0
         IN  /\ TransferHold(moves, b) \in Int
             /\ TransferHold(TransferHeld(r), b) = TransferHold(moves, b) + here
             /\ TransferHold(TransferSettle(r), b) = TransferHold(moves, b) - here
             /\ TransferHold(TransferRelease(r), b) = TransferHold(moves, b) - here
             /\ TransferHold(TransferReverse(r), b) = TransferHold(moves, b)
<1> DEFINE amount == docs[r].amount
           here(x) == IF docs[r].source = b THEN x ELSE 0
           settled == Post(moves, "transfer_settle", {docs[r].source}, amount)
           returned == Post(moves, "transfer_in_reverse", {docs[r].target}, amount)
<1>1. docs[r] \in Documents(Kind[r]) /\ moves \in Ledgers
  BY Present DEF TypeOK
<1>2. amount \in Nat
  BY <1>1, RequestAssumption DEF Documents
<1>3. settled \in Ledgers /\ returned \in Ledgers
  BY <1>1, <1>2, PostAdds DEF MoveTypes
<1>4. /\ TransferHold(moves, b) \in Int
      /\ TransferHold(TransferHeld(r), b) = TransferHold(moves, b) + here(amount)
      /\ TransferHold(TransferRelease(r), b) = TransferHold(moves, b) + here(-amount)
      /\ TransferHold(settled, b) = TransferHold(moves, b) + here(-amount)
  BY <1>1, <1>2, BucketPost DEF TransferHeld, TransferRelease, Change, MoveTypes
<1>5. /\ TransferHold(returned, b) = TransferHold(moves, b)
  BY <1>1, <1>2, OtherLines DEF MoveTypes, TransferHoldsUntouched
<1>6. TransferHold(TransferSettle(r), b) = TransferHold(settled, b)
  BY <1>2, <1>3, OtherLines DEF MoveTypes, TransferHoldsUntouched, TransferSettle
<1>7. TransferHold(TransferReverse(r), b) = TransferHold(returned, b)
  BY <1>2, <1>3, OtherLines DEF MoveTypes, TransferHoldsUntouched, TransferReverse
<1>8. QED
  BY <1>2, <1>4, <1>5, <1>6, <1>7

(* The hooks of the other kinds leave these balances alone.                *)
LEMMA OtherHooks ==
  ASSUME TypeOK, NEW r \in Requests, Exists(r)
  PROVE  /\ Transfer(r) => /\ AccountsUntouched(moves, TransferHeld(r))
                           /\ AccountsUntouched(moves, TransferSettle(r))
                           /\ AccountsUntouched(moves, TransferRelease(r))
                           /\ AccountsUntouched(moves, TransferReverse(r))
         /\ /\ AccountsUntouched(moves, RequisitionHeld(r))
            /\ AccountsUntouched(moves, RequisitionRelease(r))
            /\ AccountsUntouched(moves, Unused(r))
            /\ TransferHoldsUntouched(moves, RequisitionHeld(r))
            /\ TransferHoldsUntouched(moves, RequisitionRelease(r))
            /\ TransferHoldsUntouched(moves, Unused(r))
         /\ /\ TransferHoldsUntouched(moves, AllocationHold(r))
            /\ TransferHoldsUntouched(moves, AllocationAssign(r))
            /\ TransferHoldsUntouched(moves, AllocationRelease(r))
            /\ TransferHoldsUntouched(moves, AllocationReverse(r))
<1>1. moves \in Ledgers /\ docs[r].amount \in Nat /\ docs[r].source \in Places
  BY Present, RequestAssumption DEF TypeOK, Documents
<1>2. AccountsUntouched(moves, moves) /\ TransferHoldsUntouched(moves, moves)
  BY DEF AccountsUntouched, TransferHoldsUntouched
<1>3. ASSUME Transfer(r)
      PROVE  /\ AccountsUntouched(moves, TransferHeld(r))
             /\ AccountsUntouched(moves, TransferSettle(r))
             /\ AccountsUntouched(moves, TransferRelease(r))
             /\ AccountsUntouched(moves, TransferReverse(r))
  <2> DEFINE settled == Post(moves, "transfer_settle", {docs[r].source}, docs[r].amount)
             returned == Post(moves, "transfer_in_reverse", {docs[r].target}, docs[r].amount)
  <2>1. settled \in Ledgers /\ returned \in Ledgers
    BY <1>1, PostAdds DEF MoveTypes
  <2>2. /\ AccountsUntouched(moves, TransferHeld(r))
        /\ AccountsUntouched(moves, TransferRelease(r))
        /\ AccountsUntouched(moves, settled)
        /\ AccountsUntouched(moves, returned)
    BY <1>1, OtherLines DEF TransferHeld, TransferRelease, MoveTypes
  <2>3. AccountsUntouched(settled, TransferSettle(r))
    BY <1>1, <2>1, OtherLines DEF TransferSettle, MoveTypes
  <2>4. AccountsUntouched(returned, TransferReverse(r))
    BY <1>1, <2>1, OtherLines DEF TransferReverse, MoveTypes
  <2>5. QED
    BY <2>2, <2>3, <2>4 DEF AccountsUntouched
<1>4. /\ AccountsUntouched(moves, RequisitionHeld(r))
      /\ AccountsUntouched(moves, RequisitionRelease(r))
      /\ TransferHoldsUntouched(moves, RequisitionHeld(r))
      /\ TransferHoldsUntouched(moves, RequisitionRelease(r))
  BY <1>1, OtherLines DEF RequisitionHeld, RequisitionRelease, MoveTypes
<1>5. AccountsUntouched(moves, Unused(r)) /\ TransferHoldsUntouched(moves, Unused(r))
  <2>1. RemainingBillable(r) > 0 => RemainingBillable(r) \in Nat
    BY BilledType
  <2>2. CASE RemainingBillable(r) > 0
    BY <1>1, <2>1, <2>2, OtherLines DEF Unused, MoveTypes
  <2>3. QED
    BY <1>2, <2>2 DEF Unused
<1>6. /\ TransferHoldsUntouched(moves, AllocationHold(r))
      /\ TransferHoldsUntouched(moves, AllocationAssign(r))
      /\ TransferHoldsUntouched(moves, AllocationRelease(r))
      /\ TransferHoldsUntouched(moves, AllocationReverse(r))
  BY <1>1, OtherLines
     DEF AllocationHold, AllocationAssign, AllocationRelease, AllocationReverse, MoveTypes
<1>7. QED
  BY <1>3, <1>4, <1>5, <1>6

(* A step of a request of another kind leaves these balances alone.        *)
LEMMA OtherRequests ==
  ASSUME TypeOK, NEW u \in Users, NEW r \in Requests, RequestStep(u, r)
  PROVE  /\ ~Allocation(r) => AccountsUntouched(moves, moves')
         /\ ~Transfer(r) => TransferHoldsUntouched(moves, moves')
<1>1. AccountsUntouched(moves, moves) /\ TransferHoldsUntouched(moves, moves)
  BY DEF AccountsUntouched, TransferHoldsUntouched
<1>2. CASE Prepare(u, r)
  BY <1>1, <1>2 DEF Prepare, Create, EditDraft, CancelDraft, ActionResetToDraft
<1>3. CASE Submit(u, r)
  BY <1>3, OtherHooks
     DEF Submit, AllocationSubmit, TransferSubmit, RequisitionSubmit, ActionSubmit
<1>4. CASE Approve(u, r)
  BY <1>1, <1>4, OtherHooks
     DEF Approve, AllocationApprove, TransferApprove, RequisitionApprove, ActionApprove
<1>5. CASE Reject(u, r)
  BY <1>5, OtherHooks
     DEF Reject, AllocationReject, TransferReject, RequisitionReject, ActionReject
<1>6. CASE Cancel(u, r)
  BY <1>6, OtherHooks
     DEF Cancel, AllocationCancel, TransferCancel, RequisitionCancel, CancelPending
<1>7. CASE CancelFinal(u, r)
  BY <1>7, OtherHooks
     DEF CancelFinal, AllocationCancelApproved, TransferCancelApproved,
         RequisitionCancelApproved, CancelApproved
<1>8. CASE ActionClose(u, r)
  BY <1>8, OtherHooks DEF ActionClose
<1>9. QED
  BY <1>2, <1>3, <1>4, <1>5, <1>6, <1>7, <1>8 DEF RequestStep

(* So do the bills; and a deposit only adds to what is unassigned.         *)
LEMMA BillsAndDeposits ==
  ASSUME TypeOK, NEW u \in Users
  PROVE  /\ \A b \in Bills : BillStep(u, b) =>
              /\ AccountsUntouched(moves, moves')
              /\ TransferHoldsUntouched(moves, moves')
              /\ docs' = docs
         /\ \A i \in Deposits : DepositStep(u, i) =>
              /\ \A a \in Accounts : /\ OnHold(moves', a) = OnHold(moves, a)
                                     /\ Unassigned(moves', a) >= Unassigned(moves, a)
              /\ TransferHoldsUntouched(moves, moves')
              /\ docs' = docs
<1>1. moves \in Ledgers
  BY DEF TypeOK
<1>2. AccountsUntouched(moves, moves) /\ TransferHoldsUntouched(moves, moves)
  BY DEF AccountsUntouched, TransferHoldsUntouched
<1>3. ASSUME NEW b \in Bills, BillStep(u, b)
      PROVE  /\ AccountsUntouched(moves, moves')
             /\ TransferHoldsUntouched(moves, moves')
             /\ docs' = docs
  <2>1. ASSUME bills[b].state \in {"draft", "posted"} PROVE bills[b].amount \in Nat
    <3>1. bills[b] \in BillRecords
      BY <2>1 DEF TypeOK, NoBill
    <3>2. QED
      BY <3>1, RequestAssumption DEF BillRecords
  <2>2. CASE BillPost(u, b)
    BY <1>1, <2>1, <2>2, OtherLines DEF BillPost, BillSpent, MoveTypes
  <2>3. CASE BillReverse(u, b)
    BY <1>1, <2>1, <2>3, OtherLines DEF BillReverse, BillReturned, MoveTypes
  <2>4. QED
    BY <1>2, <1>3, <2>2, <2>3 DEF BillStep, BillCreate, BillEdit, BillCancel
<1>4. ASSUME NEW i \in Deposits, DepositStep(u, i)
      PROVE  /\ \A a \in Accounts : /\ OnHold(moves', a) = OnHold(moves, a)
                                    /\ Unassigned(moves', a) >= Unassigned(moves, a)
             /\ TransferHoldsUntouched(moves, moves')
             /\ docs' = docs
  <2>1. CASE ActionConfirm(u, i)
    <3>1. deposits[i].amount \in Nat
      <4>1. deposits[i] \in DepositRecords
        BY <2>1 DEF TypeOK, NoDeposit, ActionConfirm
      <4>2. QED
        BY <4>1, DepositAssumption DEF DepositRecords
    <3>2. moves' = Post(moves, "incoming", {deposits[i].account}, deposits[i].amount)
      BY <2>1 DEF ActionConfirm
    <3>3. TransferHoldsUntouched(moves, moves')
      BY <1>1, <3>1, <3>2, OtherLines DEF MoveTypes
    <3>4. ASSUME NEW a \in Accounts
          PROVE  /\ OnHold(moves', a) = OnHold(moves, a)
                 /\ Unassigned(moves', a) >= Unassigned(moves, a)
      BY <1>1, <3>1, <3>2, AccountPost DEF MoveTypes, Change
    <3>5. QED
      BY <1>4, <3>3, <3>4 DEF DepositStep, DepositAction
  <2>2. CASE moves' = moves
    <3>1. \A a \in Accounts : Unassigned(moves, a) \in Int
      BY <1>1, BalancesType
    <3>2. QED
      BY <1>2, <1>4, <2>2, <3>1 DEF DepositStep, DepositAction
  <2>3. QED
    BY <1>4, <2>1, <2>2
       DEF DepositStep, DepositAction, KeyInDeposit, EmailDeposit, CreateDeposit,
           InsertDeposit, EditDeposit, ActionVerify
<1>5. QED
  BY <1>3, <1>4

-----------------------------------------------------------------------------
(* Accounts. *)

(* The inductive invariant: that on-hold balances are not negative follows *)
(* from their covering the pending allocations, and unassigned balances    *)
(* stay so because an allocation is validated on submit and withdrawn at   *)
(* most once afterwards.                                                   *)
AccountInv ==
  \A a \in Accounts : /\ OnHold(moves, a) >= PendingHold("allocation", a)
                      /\ Unassigned(moves, a) >= 0

(* A step of an allocation. *)
LEMMA AllocationStep ==
  ASSUME TypeOK, TypeOK', AccountInv, NEW u \in Users, NEW r \in Requests,
         RequestStep(u, r), Allocation(r)
  PROVE  AccountInv'
<1> SUFFICES ASSUME NEW a \in Accounts
             PROVE  /\ OnHold(moves', a) >= PendingHold("allocation", a)'
                    /\ Unassigned(moves', a) >= 0
  BY DEF AccountInv
<1> DEFINE held == PendingHold("allocation", a)
           mine == PendingAmount("allocation", a, r)
           here == IF docs[r].source = a THEN docs[r].amount ELSE 0
<1>1. /\ held \in Nat /\ mine \in Nat /\ mine' \in Nat
      /\ held' = held - mine + mine'
  BY RequestEffect, PendingHoldChange
<1>2. OnHold(moves, a) \in Int /\ Unassigned(moves, a) \in Int
  BY BalancesType DEF TypeOK
<1>3. OnHold(moves, a) >= held /\ Unassigned(moves, a) >= 0
  BY DEF AccountInv
<1>4. Pending(r) => Exists(r)
  BY Present DEF Pending, PendingStates, States
<1>5. Exists(r) => here \in Nat
  BY Present, RequestAssumption DEF Documents
<1>6. mine = IF Pending(r) THEN here ELSE 0
  BY DEF PendingAmount, Allocation
<1>7. /\ ~Pending(r)' => mine' = 0
      /\ SameTerms(docs[r], docs'[r]) => mine' = IF Pending(r)' THEN here ELSE 0
  BY DEF PendingAmount, Allocation, Pending, SameTerms
<1> HIDE DEF held, mine, here
<1>8. CASE Prepare(u, r) /\ ~Pending(r) /\ ~Pending(r)' /\ moves' = moves
  BY <1>1, <1>2, <1>3, <1>6, <1>7, <1>8 DEF held
<1>9. CASE Submit(u, r) /\ ~Pending(r) /\ Pending(r)' /\ SameTerms(docs[r], docs'[r])
  <2>1. /\ Exists(r) /\ moves' = AllocationHold(r)
        /\ docs[r].amount <= Unassigned(moves, docs[r].source)
    BY <1>9 DEF Submit, AllocationSubmit, TransferSubmit, RequisitionSubmit, ActionSubmit,
                Allocation, Transfer, Requisition, AllocationValid
  <2>2. /\ OnHold(moves', a) = OnHold(moves, a) + here
        /\ Unassigned(moves', a) = Unassigned(moves, a) - here
    BY <2>1, AllocationHooks DEF here
  <2>3. here <= Unassigned(moves, a)
    BY <2>1, <1>3 DEF here
  <2>4. QED
    BY <1>1, <1>2, <1>3, <1>5, <1>6, <1>7, <1>9, <2>1, <2>2, <2>3 DEF held
<1>10. CASE /\ Approve(u, r) /\ Pending(r) /\ SameTerms(docs[r], docs'[r])
            /\ ~Pending(r)' \/ moves' = moves
  <2>1. moves' \in {moves, AllocationAssign(r)}
    BY <1>10 DEF Approve, AllocationApprove, TransferApprove, RequisitionApprove,
                 ActionApprove, Allocation, Transfer, Requisition
  <2>2. /\ OnHold(AllocationAssign(r), a) = OnHold(moves, a) - here
        /\ Unassigned(AllocationAssign(r), a) = Unassigned(moves, a)
    BY <1>4, <1>10, AllocationHooks DEF here
  <2>3. OnHold(moves', a) >= OnHold(moves, a) - here /\ Unassigned(moves', a) >= 0
    BY <1>2, <1>3, <1>4, <1>5, <1>10, <2>1, <2>2
  <2>4. CASE moves' = moves
    BY <1>1, <1>2, <1>3, <1>4, <1>5, <1>6, <1>7, <1>10, <2>4 DEF held
  <2>5. CASE ~Pending(r)'
    BY <1>1, <1>2, <1>3, <1>4, <1>5, <1>6, <1>7, <1>10, <2>1, <2>2, <2>5 DEF held
  <2>6. QED
    BY <1>10, <2>4, <2>5
<1>11. CASE (Reject(u, r) \/ Cancel(u, r)) /\ Pending(r) /\ ~Pending(r)'
  <2>1. moves' = AllocationRelease(r)
    BY <1>11 DEF Reject, AllocationReject, TransferReject, RequisitionReject, ActionReject,
                 Cancel, AllocationCancel, TransferCancel, RequisitionCancel, CancelPending,
                 Allocation, Transfer, Requisition
  <2>2. /\ OnHold(moves', a) = OnHold(moves, a) - here
        /\ Unassigned(moves', a) = Unassigned(moves, a) + here
    BY <1>4, <1>11, <2>1, AllocationHooks DEF here
  <2>3. QED
    BY <1>1, <1>2, <1>3, <1>4, <1>5, <1>6, <1>7, <1>11, <2>2 DEF held
<1>12. CASE (CancelFinal(u, r) \/ ActionClose(u, r)) /\ ~Pending(r) /\ ~Pending(r)'
  <2>1. Exists(r) /\ moves' = AllocationReverse(r)
    BY <1>12 DEF CancelFinal, AllocationCancelApproved, TransferCancelApproved,
                 RequisitionCancelApproved, CancelApproved, ActionClose,
                 Allocation, Transfer, Requisition
  <2>2. /\ OnHold(moves', a) = OnHold(moves, a)
        /\ Unassigned(moves', a) = Unassigned(moves, a) + here
    BY <2>1, AllocationHooks DEF here
  <2>3. QED
    BY <1>1, <1>2, <1>3, <1>5, <1>6, <1>7, <1>12, <2>1, <2>2 DEF held
<1>13. QED
  BY <1>8, <1>9, <1>10, <1>11, <1>12, RequestEffect

(* A step of the system. *)
LEMMA AccountInvStep ==
  ASSUME TypeOK, TypeOK', AccountInv, [Next]_vars
  PROVE  AccountInv'
<1>1. \A a \in Accounts : /\ OnHold(moves, a) \in Int /\ Unassigned(moves, a) \in Int
                          /\ OnHold(moves', a) \in Int /\ Unassigned(moves', a) \in Int
  BY BalancesType DEF TypeOK
<1>2. ASSUME NEW u \in Users, NEW r \in Requests, RequestStep(u, r)
      PROVE  AccountInv'
  <2>1. CASE Allocation(r)
    BY <1>2, <2>1, AllocationStep
  <2>2. CASE ~Allocation(r)
    <3>1. SUFFICES ASSUME NEW a \in Accounts
                   PROVE  /\ OnHold(moves', a) >= PendingHold("allocation", a)'
                          /\ Unassigned(moves', a) >= 0
      BY DEF AccountInv
    <3>2. OnHold(moves', a) = OnHold(moves, a) /\ Unassigned(moves', a) = Unassigned(moves, a)
      BY <1>2, <2>2, OtherRequests DEF AccountsUntouched
    <3>3. PendingAmount("allocation", a, r) = 0 /\ PendingAmount("allocation", a, r)' = 0
      BY <2>2 DEF PendingAmount, Allocation
    <3>4. PendingHold("allocation", a)' = PendingHold("allocation", a)
      BY <1>2, <3>3, RequestEffect, PendingHoldChange
    <3>5. QED
      BY <3>2, <3>4 DEF AccountInv
  <2>3. QED
    BY <2>1, <2>2
<1>3. ASSUME docs' = docs,
             \A a \in Accounts : /\ OnHold(moves', a) = OnHold(moves, a)
                                 /\ Unassigned(moves', a) >= Unassigned(moves, a)
      PROVE  AccountInv'
  <2>1. \A a : PendingHold("allocation", a)' = PendingHold("allocation", a)
    BY <1>3 DEF PendingHold, PendingAmount, Pending
  <2>2. QED
    BY <1>1, <1>3, <2>1 DEF AccountInv
<1>4. ASSUME NEW u \in Users, NEW b \in Bills, BillStep(u, b) PROVE AccountInv'
  BY <1>1, <1>3, <1>4, BillsAndDeposits DEF AccountsUntouched
<1>5. ASSUME NEW u \in Users, NEW i \in Deposits, DepositStep(u, i) PROVE AccountInv'
  BY <1>3, <1>5, BillsAndDeposits
<1>6. ASSUME NEW u \in Users, NEW k \in EditableRules, RuleStep(u, k) PROVE AccountInv'
  BY <1>1, <1>3, <1>6 DEF RuleStep, ToggleRule
<1>7. CASE UNCHANGED vars
  BY <1>1, <1>3, <1>7 DEF vars
<1>8. QED
  BY <1>2, <1>4, <1>5, <1>6, <1>7 DEF Next

(* Whatever the users do and in whatever order, and however the approval   *)
(* rules are changed meanwhile, an account's on-hold balance covers its    *)
(* pending allocations and neither of its balances is ever negative, even  *)
(* though the constraint that asks this never runs.                        *)
THEOREM AccountsSafe == Spec => [](AllocationHoldsCovered /\ AccountsSolvent)
<1>1. Init => AccountInv
  <2>1. SUFFICES ASSUME Init, NEW a \in Accounts
                 PROVE  OnHold(moves, a) >= PendingHold("allocation", a)
                        /\ Unassigned(moves, a) >= 0
    BY DEF AccountInv
  <2>2. a \in Places
    BY LedgerAssumption DEF Accounts, Places, NPlaces
  <2>3. OnHold(moves, a) = 0 /\ Unassigned(moves, a) = 0
    BY <2>1, <2>2 DEF Init, EmptyLedger, OnHold, Unassigned, MoveTypes
  <2>4. \A r \in 1 .. NRequests : [q \in Requests |-> PendingAmount("allocation", a, q)][r] = 0
    BY <2>1 DEF Init, Requests, PendingAmount, Pending, PendingStates, NoDoc
  <2>5. PendingHold("allocation", a) = 0
    BY <2>4, SumZero, RequestAssumption DEF PendingHold, Requests
  <2>6. QED
    BY <2>3, <2>5
<1>2. TypeOK /\ TypeOK' /\ AccountInv /\ [Next]_vars => AccountInv'
  BY AccountInvStep
<1>3. TypeOK /\ AccountInv => AllocationHoldsCovered /\ AccountsSolvent
  <2>1. SUFFICES ASSUME TypeOK, AccountInv, NEW a \in Accounts
                 PROVE  /\ OnHold(moves, a) >= PendingHold("allocation", a)
                        /\ Unassigned(moves, a) >= 0 /\ OnHold(moves, a) >= 0
    BY DEF AllocationHoldsCovered, AccountsSolvent, NonNegativeAccount
  <2>2. PendingHold("allocation", a) \in Nat
    BY <2>1, PendingHoldType
  <2>3. OnHold(moves, a) \in Int
    BY <2>1, BalancesType DEF TypeOK
  <2>4. QED
    BY <2>1, <2>2, <2>3 DEF AccountInv
<1>4. QED
  BY <1>1, <1>2, <1>3, TypeCorrect, PTL DEF Spec

-----------------------------------------------------------------------------
(* Transfers. *)

(* A step of a transfer. *)
LEMMA TransferStep ==
  ASSUME TypeOK, TypeOK', TransferHoldsCovered, NEW u \in Users, NEW r \in Requests,
         RequestStep(u, r), Transfer(r)
  PROVE  TransferHoldsCovered'
<1> SUFFICES ASSUME NEW b \in Buckets
             PROVE  TransferHold(moves', b) >= PendingHold("transfer", b)'
  BY DEF TransferHoldsCovered
<1> DEFINE held == PendingHold("transfer", b)
           mine == PendingAmount("transfer", b, r)
           here == IF docs[r].source = b THEN docs[r].amount ELSE 0
<1>1. /\ held \in Nat /\ mine \in Nat /\ mine' \in Nat
      /\ held' = held - mine + mine'
  BY RequestEffect, PendingHoldChange
<1>2. TransferHold(moves, b) \in Int /\ TransferHold(moves, b) >= held
  BY BalancesType DEF TypeOK, TransferHoldsCovered
<1>3. Pending(r) => Exists(r)
  BY Present DEF Pending, PendingStates, States
<1>4. Exists(r) => here \in Nat
  BY Present, RequestAssumption DEF Documents
<1>5. mine = IF Pending(r) THEN here ELSE 0
  BY DEF PendingAmount, Transfer
<1>6. /\ ~Pending(r)' => mine' = 0
      /\ SameTerms(docs[r], docs'[r]) => mine' = IF Pending(r)' THEN here ELSE 0
  BY DEF PendingAmount, Transfer, Pending, SameTerms
<1> HIDE DEF held, mine, here
<1>7. CASE Prepare(u, r) /\ ~Pending(r) /\ ~Pending(r)' /\ moves' = moves
  BY <1>1, <1>2, <1>5, <1>6, <1>7 DEF held
<1>8. CASE Submit(u, r) /\ ~Pending(r) /\ Pending(r)' /\ SameTerms(docs[r], docs'[r])
  <2>1. Exists(r) /\ moves' = TransferHeld(r)
    BY <1>8 DEF Submit, AllocationSubmit, TransferSubmit, RequisitionSubmit, ActionSubmit,
                Allocation, Transfer, Requisition
  <2>2. TransferHold(moves', b) = TransferHold(moves, b) + here
    BY <2>1, TransferHooks DEF here
  <2>3. QED
    BY <1>1, <1>2, <1>4, <1>5, <1>6, <1>8, <2>1, <2>2 DEF held
<1>9. CASE /\ Approve(u, r) /\ Pending(r) /\ SameTerms(docs[r], docs'[r])
           /\ ~Pending(r)' \/ moves' = moves
  <2>1. moves' \in {moves, TransferSettle(r)}
    BY <1>9 DEF Approve, AllocationApprove, TransferApprove, RequisitionApprove,
                ActionApprove, Allocation, Transfer, Requisition
  <2>2. TransferHold(TransferSettle(r), b) = TransferHold(moves, b) - here
    BY <1>3, <1>9, TransferHooks DEF here
  <2>3. CASE moves' = moves
    BY <1>1, <1>2, <1>3, <1>4, <1>5, <1>6, <1>9, <2>3 DEF held
  <2>4. CASE ~Pending(r)'
    BY <1>1, <1>2, <1>3, <1>4, <1>5, <1>6, <1>9, <2>1, <2>2, <2>4 DEF held
  <2>5. QED
    BY <1>9, <2>3, <2>4
<1>10. CASE (Reject(u, r) \/ Cancel(u, r)) /\ Pending(r) /\ ~Pending(r)'
  <2>1. moves' = TransferRelease(r)
    BY <1>10 DEF Reject, AllocationReject, TransferReject, RequisitionReject, ActionReject,
                 Cancel, AllocationCancel, TransferCancel, RequisitionCancel, CancelPending,
                 Allocation, Transfer, Requisition
  <2>2. TransferHold(moves', b) = TransferHold(moves, b) - here
    BY <1>3, <1>10, <2>1, TransferHooks DEF here
  <2>3. QED
    BY <1>1, <1>2, <1>3, <1>4, <1>5, <1>6, <1>10, <2>2 DEF held
<1>11. CASE (CancelFinal(u, r) \/ ActionClose(u, r)) /\ ~Pending(r) /\ ~Pending(r)'
  <2>1. Exists(r) /\ moves' = TransferReverse(r)
    BY <1>11 DEF CancelFinal, AllocationCancelApproved, TransferCancelApproved,
                 RequisitionCancelApproved, CancelApproved, ActionClose,
                 Allocation, Transfer, Requisition
  <2>2. TransferHold(moves', b) = TransferHold(moves, b)
    BY <2>1, TransferHooks
  <2>3. QED
    BY <1>1, <1>2, <1>5, <1>6, <1>11, <2>2 DEF held
<1>12. QED
  BY <1>7, <1>8, <1>9, <1>10, <1>11, RequestEffect

(* Whatever the users do, a bucket's transfer hold covers its pending      *)
(* transfers: each of them can still be settled or given back.             *)
THEOREM TransfersCovered == Spec => []TransferHoldsCovered
<1>1. Init => TransferHoldsCovered
  <2>1. SUFFICES ASSUME Init, NEW b \in Buckets
                 PROVE  TransferHold(moves, b) >= PendingHold("transfer", b)
    BY DEF TransferHoldsCovered
  <2>2. b \in Places
    BY LedgerAssumption DEF Buckets, Places, NPlaces
  <2>3. TransferHold(moves, b) = 0
    BY <2>1, <2>2 DEF Init, EmptyLedger, TransferHold, MoveTypes
  <2>4. \A r \in 1 .. NRequests : [q \in Requests |-> PendingAmount("transfer", b, q)][r] = 0
    BY <2>1 DEF Init, Requests, PendingAmount, Pending, PendingStates, NoDoc
  <2>5. PendingHold("transfer", b) = 0
    BY <2>4, SumZero, RequestAssumption DEF PendingHold, Requests
  <2>6. QED
    BY <2>3, <2>5
<1>2. TypeOK /\ TypeOK' /\ TransferHoldsCovered /\ [Next]_vars => TransferHoldsCovered'
  <2>1. SUFFICES ASSUME TypeOK, TypeOK', TransferHoldsCovered, [Next]_vars
                 PROVE  TransferHoldsCovered'
    OBVIOUS
  <2>2. ASSUME NEW u \in Users, NEW r \in Requests, RequestStep(u, r)
        PROVE  TransferHoldsCovered'
    <3>1. CASE Transfer(r)
      BY <2>1, <2>2, <3>1, TransferStep
    <3>2. CASE ~Transfer(r)
      <4>1. SUFFICES ASSUME NEW b \in Buckets
                     PROVE  TransferHold(moves', b) >= PendingHold("transfer", b)'
        BY DEF TransferHoldsCovered
      <4>2. TransferHold(moves', b) = TransferHold(moves, b)
        BY <2>1, <2>2, <3>2, OtherRequests DEF TransferHoldsUntouched
      <4>3. PendingAmount("transfer", b, r) = 0 /\ PendingAmount("transfer", b, r)' = 0
        BY <3>2 DEF PendingAmount, Transfer
      <4>4. PendingHold("transfer", b)' = PendingHold("transfer", b)
        BY <2>1, <2>2, <4>3, RequestEffect, PendingHoldChange
      <4>5. QED
        BY <2>1, <4>2, <4>4 DEF TransferHoldsCovered
    <3>3. QED
      BY <3>1, <3>2
  <2>3. ASSUME docs' = docs, TransferHoldsUntouched(moves, moves')
        PROVE  TransferHoldsCovered'
    <3>1. \A b : PendingHold("transfer", b)' = PendingHold("transfer", b)
      BY <2>3 DEF PendingHold, PendingAmount, Pending
    <3>2. QED
      BY <2>1, <2>3, <3>1 DEF TransferHoldsCovered, TransferHoldsUntouched
  <2>4. TransferHoldsUntouched(moves, moves)
    BY DEF TransferHoldsUntouched
  <2>5. ASSUME NEW u \in Users, NEW b \in Bills, BillStep(u, b) PROVE TransferHoldsCovered'
    BY <2>1, <2>3, <2>5, BillsAndDeposits
  <2>6. ASSUME NEW u \in Users, NEW i \in Deposits, DepositStep(u, i)
        PROVE  TransferHoldsCovered'
    BY <2>1, <2>3, <2>6, BillsAndDeposits
  <2>7. ASSUME NEW u \in Users, NEW k \in EditableRules, RuleStep(u, k)
        PROVE  TransferHoldsCovered'
    BY <2>3, <2>4, <2>7 DEF RuleStep, ToggleRule
  <2>8. CASE UNCHANGED vars
    BY <2>3, <2>4, <2>8 DEF vars
  <2>9. QED
    BY <2>1, <2>2, <2>5, <2>6, <2>7, <2>8 DEF Next
<1>3. QED
  BY <1>1, <1>2, TypeCorrect, PTL DEF Spec
=============================================================================
