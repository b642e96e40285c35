---------------------------- MODULE ApprovalProofs ----------------------------
(***************************************************************************)
(* The approval workflow: decisions are made in the order of the chain, by *)
(* those who may make them, and to-dos follow the stages.                  *)
(***************************************************************************)
EXTENDS FundManagementProofs, FiniteSetTheorems

-----------------------------------------------------------------------------
(* Chains. *)

(* No rule has a level twice, which _check_line_count does not ask.        *)
DistinctLevels ==
  \A k \in 1 .. NRules : \A i, j \in DOMAIN Catalogue[k].levels :
    Catalogue[k].levels[i] = Catalogue[k].levels[j] => i = j

LEMMA DistinctChain ==
  ASSUME DistinctLevels, NEW rules \in SUBSET (1 .. NRules), NEW kind, NEW amount
  PROVE  LET chain == ApprovalLevels(rules, kind, amount)
         IN  \A i, j \in DOMAIN chain : chain[i] = chain[j] => i = j
<1> DEFINE best == {k \in MatchFor(rules, kind, amount) : Catalogue[k].levels # <<>>}
<1>1. CASE best = {}
  BY <1>1 DEF ApprovalLevels, DefaultLevels
<1>2. CASE best # {}
  <2>1. PICK k \in best : ApprovalLevels(rules, kind, amount) = Catalogue[k].levels
    BY <1>2 DEF ApprovalLevels
  <2>2. k \in 1 .. NRules
    BY <2>1 DEF MatchFor
  <2>3. QED
    BY <2>1, <2>2 DEF DistinctLevels
<1>3. QED
  BY <1>1, <1>2

(* Every level of a chain decides in a state of its own. *)
LEMMA StagesApart ==
  ASSUME NEW n \in 1 .. 3, NEW chain \in [1 .. n -> LevelCodes]
  PROVE  /\ Len(chain) = n /\ DOMAIN chain = 1 .. n
         /\ \A i \in 1 .. n : StageStates[i] \in PendingStates
         /\ \A i, j \in 1 .. n : StageStates[i] = StageStates[j] => i = j
<1>1. Len(chain) = n /\ DOMAIN chain = 1 .. n
  OBVIOUS
<1>2. \A i \in 1 .. 3 : StageStates[i] \in PendingStates
  BY DEF StageStates, PendingStates
<1>3. \A i, j \in 1 .. 3 : StageStates[i] = StageStates[j] => i = j
  BY DEF StageStates
<1>4. 1 .. n \subseteq 1 .. 3
  OBVIOUS
<1>5. QED
  BY <1>1, <1>2, <1>3, <1>4

(* The chain of a request, and the level that decides about it now. *)
LEMMA ChainType ==
  ASSUME TypeOK, NEW r \in Requests
  PROVE  \E n \in 1 .. 3 : Levels(r) \in [1 .. n -> LevelCodes]
BY LevelsType DEF TypeOK, Levels

(* Without repeated levels, the index of a level's code is the level.      *)
LEMMA OwnIndex ==
  ASSUME TypeOK, DistinctLevels, NEW r \in Requests, NEW i \in CurrentLevel(r)
  PROVE  /\ i \in 1 .. Len(Levels(r)) /\ i \in 1 .. 3
         /\ docs[r].state = StageStates[i] /\ LevelIndex(r, i) = i
<1>1. PICK n \in 1 .. 3 : Levels(r) \in [1 .. n -> LevelCodes]
  BY ChainType
<1>2. i \in 1 .. n /\ i \in 1 .. 3 /\ Len(Levels(r)) = n /\ docs[r].state = StageStates[i]
  BY <1>1 DEF CurrentLevel
<1>3. \A j, k \in 1 .. n : Levels(r)[j] = Levels(r)[k] => j = k
  BY <1>1, DistinctChain DEF TypeOK, Levels
<1>4. \A j \in 1 .. i : j \in 1 .. n
  BY <1>2
<1>5. i \in 1 .. i
  BY <1>2
<1>6. \A h \in 1 .. (i - 1) : h \in 1 .. n /\ h # i
  BY <1>2
<1>7. \A h \in 1 .. (i - 1) : Levels(r)[h] # Levels(r)[i]
  BY <1>2, <1>3, <1>6
<1>8. QED
  BY <1>2, <1>3, <1>4, <1>5, <1>7 DEF LevelIndex
-----------------------------------------------------------------------------
(* What a step does to a request's place in the workflow. *)

InPreparation(r) == docs[r].state \in {"none", "draft", "rejected", "cancelled"}

(* u approves at level i, and the request goes on to level next.           *)
Advances(u, r, i, next) ==
  /\ MayDecide(u, r, Levels(r)[i])
  /\ history'[r] = Append(history[r], Decision(u, Levels(r)[i], "approved"))
  /\ docs'[r].amount = docs[r].amount /\ docs'[r].by = docs[r].by
  /\ \/ /\ next > Len(Levels(r)) /\ docs'[r].state = "approved" /\ todo'[r] = {}
     \/ /\ next <= Len(Levels(r)) /\ docs'[r].state = StageStates[next]
        /\ todo'[r] = Alerted(Levels(r)[next])

LEMMA WorkflowEffect ==
  ASSUME TypeOK, NEW u \in Users, NEW r \in Requests, RequestStep(u, r)
  PROVE  /\ active' = active
         /\ \A q \in Requests \ {r} :
              docs'[q] = docs[q] /\ history'[q] = history[q] /\ todo'[q] = todo[q]
         /\ \/ /\ InPreparation(r) /\ docs'[r].state = "draft"
               /\ todo'[r] = todo[r] /\ history'[r] = history[r]
            \/ /\ docs[r].state = "draft" /\ docs'[r].state = "submitted"
               /\ docs'[r].amount = docs[r].amount /\ history'[r] = history[r]
               /\ todo'[r] = Alerted(Levels(r)[1])
            \/ \E i \in CurrentLevel(r) : Advances(u, r, i, LevelIndex(r, i) + 1)
            \/ /\ docs'[r].state \in {"rejected", "cancelled"} /\ todo'[r] = {}
               /\ history'[r] = history[r] \/ docs'[r].state = "rejected"
            \/ /\ docs[r].state = "approved" /\ docs'[r].state = "closed"
               /\ docs'[r].amount = docs[r].amount /\ docs'[r].by = docs[r].by
               /\ todo'[r] = todo[r] /\ history'[r] = history[r]
<1>1. /\ DOMAIN docs = Requests /\ DOMAIN history = Requests /\ DOMAIN todo = Requests
      /\ Exists(r) => docs[r] \in [state : States, amount : Amounts, source : Places,
                                   target : Places \cup {NoPlace}, by : Users,
                                   posted : BOOLEAN]
  BY Present DEF TypeOK, Documents
<1>2. CASE Prepare(u, r)
  <2>1. CASE \E amount \in Amounts, ends \in Endpoints(Kind[r]) : Create(u, r, amount, ends)
    BY <1>1, <2>1 DEF Create, Exists, NoDoc, InPreparation
  <2>2. CASE \E amount \in Amounts, ends \in Endpoints(Kind[r]) : EditDraft(u, r, amount, ends)
    BY <1>1, <2>2 DEF EditDraft, InPreparation
  <2>3. CASE CancelDraft(u, r)
    BY <1>1, <2>3 DEF CancelDraft
  <2>4. CASE ActionResetToDraft(u, r)
    BY <1>1, <2>4 DEF ActionResetToDraft, InPreparation
  <2>5. QED
    BY <1>2, <2>1, <2>2, <2>3, <2>4 DEF Prepare
<1>3. CASE Submit(u, r)
  <2>1. PICK valid, hold : ActionSubmit(u, r, valid, hold)
    BY <1>3 DEF Submit, AllocationSubmit, TransferSubmit, RequisitionSubmit
  <2>2. QED
    BY <1>1, <2>1 DEF ActionSubmit
<1>4. CASE Approve(u, r)
  <2>1. PICK final : ActionApprove(u, r, final)
    BY <1>4 DEF Approve, AllocationApprove, TransferApprove, RequisitionApprove
  <2>2. PICK i \in CurrentLevel(r) :
          LET code == Levels(r)[i]
              next == LevelIndex(r, i) + 1
          IN  /\ MayDecide(u, r, code)
              /\ history' = [history EXCEPT ![r] = Append(@, Decision(u, code, "approved"))]
              /\ \/ /\ next > Len(Levels(r))
                    /\ docs' = [docs EXCEPT ![r].state = "approved", ![r].posted = TRUE]
                    /\ todo' = [todo EXCEPT ![r] = {}]
                 \/ /\ next <= Len(Levels(r))
                    /\ docs' = [docs EXCEPT ![r].state = StageStates[next]]
                    /\ todo' = [todo EXCEPT ![r] = Alerted(Levels(r)[next])]
    BY <2>1 DEF ActionApprove
  <2>3. active' = active /\ Exists(r)
    BY <2>1 DEF ActionApprove
  <2> DEFINE next == LevelIndex(r, i) + 1
  <2> HIDE DEF next
  <2>4. \/ /\ next > Len(Levels(r))
           /\ docs' = [docs EXCEPT ![r].state = "approved", ![r].posted = TRUE]
           /\ todo' = [todo EXCEPT ![r] = {}]
        \/ /\ next <= Len(Levels(r))
           /\ docs' = [docs EXCEPT ![r].state = StageStates[next]]
           /\ todo' = [todo EXCEPT ![r] = Alerted(Levels(r)[next])]
    BY <2>2 DEF next
  <2>5. /\ docs'[r].amount = docs[r].amount /\ docs'[r].by = docs[r].by
        /\ \/ /\ next > Len(Levels(r)) /\ docs'[r].state = "approved" /\ todo'[r] = {}
           \/ /\ next <= Len(Levels(r)) /\ docs'[r].state = StageStates[next]
              /\ todo'[r] = Alerted(Levels(r)[next])
    BY <1>1, <2>3, <2>4
  <2>6. /\ MayDecide(u, r, Levels(r)[i])
        /\ history'[r] = Append(history[r], Decision(u, Levels(r)[i], "approved"))
    BY <1>1, <2>2
  <2>7. Advances(u, r, i, LevelIndex(r, i) + 1)
    BY <2>5, <2>6 DEF Advances, next
  <2>8. \A q \in Requests \ {r} :
          docs'[q] = docs[q] /\ history'[q] = history[q] /\ todo'[q] = todo[q]
    BY <1>1, <2>2, <2>4
  <2>9. QED
    BY <2>3, <2>7, <2>8
<1>5. CASE Reject(u, r)
  <2>1. PICK released : ActionReject(u, r, released)
    BY <1>5 DEF Reject, AllocationReject, TransferReject, RequisitionReject
  <2>2. QED
    BY <1>1, <2>1 DEF ActionReject
<1>6. CASE Cancel(u, r)
  <2>1. PICK released : CancelPending(u, r, released)
    BY <1>6 DEF Cancel, AllocationCancel, TransferCancel, RequisitionCancel
  <2>2. QED
    BY <1>1, <2>1 DEF CancelPending
<1>7. CASE CancelFinal(u, r)
  <2>1. PICK reversible, reversed : CancelApproved(u, r, reversible, reversed)
    BY <1>7 DEF CancelFinal, AllocationCancelApproved, TransferCancelApproved,
                RequisitionCancelApproved
  <2>2. QED
    BY <1>1, <2>1 DEF CancelApproved
<1>8. CASE ActionClose(u, r)
  BY <1>1, <1>8 DEF ActionClose
<1>9. QED
  BY <1>2, <1>3, <1>4, <1>5, <1>6, <1>7, <1>8 DEF RequestStep

(* The other steps leave the workflow alone, but for changes of rules.     *)
LEMMA WorkflowElsewhere ==
  ASSUME TypeOK, NEW u \in Users
  PROVE  /\ \A b \in Bills : BillStep(u, b) => UNCHANGED <<docs, history, todo, active>>
         /\ \A i \in Deposits : DepositStep(u, i) => UNCHANGED <<docs, history, todo, active>>
         /\ \A k \in EditableRules : RuleStep(u, k) => UNCHANGED <<docs, history, todo>>
BY BillsAndDeposits DEF BillStep, DepositStep, RuleStep, ToggleRule

-----------------------------------------------------------------------------
(* Decisions are recorded. *)

(* An approval among the lines of history h of a request of user by. *)
Approved(h, by) == \E i \in DOMAIN h : h[i].result = "approved" /\ ByMember(h[i], by)

(* The newest line of h has this result. *)
Newest(h, result, by) == h # <<>> /\ ByMember(h[Len(h)], by) /\ h[Len(h)].result = result

(* DecisionsRecorded of a request of user by, from the fields it is about. *)
Recorded(h, state, posted, by) ==
  /\ state \in DecidedStates =>
       Newest(h, IF state = "rejected" THEN "rejected" ELSE "approved", by)
  /\ posted => Approved(h, by)

LEMMA RecordGrows ==
  ASSUME NEW h \in Seq(Lines), NEW by, NEW u \in Users, NEW code \in LevelCodes,
         NEW result \in Results, HasGroup(u, code), u # by \/ HasGroup(u, "admin"),
         NEW longer, longer = Append(h, Decision(u, code, result))
  PROVE  /\ Newest(longer, result, by)
         /\ result = "approved" => Approved(longer, by)
         /\ Approved(h, by) => Approved(longer, by)
<1> DEFINE line == Decision(u, code, result)
<1>1. line \in Lines
  BY DEF Decision, Lines
<1>2. /\ Len(longer) = Len(h) + 1 /\ Len(h) \in Nat /\ longer \in Seq(Lines)
      /\ DOMAIN longer = 1 .. Len(longer) /\ DOMAIN h = 1 .. Len(h)
      /\ longer[Len(h) + 1] = line
      /\ \A i \in 1 .. Len(h) : longer[i] = h[i]
  BY <1>1
<1>3. line.level = code /\ line.result = result /\ line.by = u
  BY DEF Decision
<1>4. ByMember(line, by)
  BY <1>3 DEF ByMember
<1> HIDE DEF line
<1>5. longer # <<>> /\ longer[Len(longer)] = line /\ Len(longer) \in DOMAIN longer
  BY <1>2
<1>6. ASSUME Approved(h, by)
      PROVE  Approved(longer, by)
  <2>1. PICK i \in 1 .. Len(h) : h[i].result = "approved" /\ ByMember(h[i], by)
    BY <1>2, <1>6 DEF Approved
  <2>2. i \in DOMAIN longer /\ longer[i] = h[i]
    BY <1>2
  <2>3. QED
    BY <2>1, <2>2 DEF Approved
<1>7. result = "approved" => Approved(longer, by)
  BY <1>3, <1>4, <1>5 DEF Approved
<1>8. QED
  BY <1>3, <1>4, <1>5, <1>6, <1>7 DEF Newest

(* What is not a decision: it leaves the history alone, and the request in *)
(* a state that says nothing of decisions, or closed.                      *)
Undecided(r) ==
  /\ history'[r] = history[r]
  /\ \/ docs'[r].state = "draft" /\ ~docs'[r].posted
     \/ /\ Exists(r)
        /\ docs'[r].by = docs[r].by /\ docs'[r].posted = docs[r].posted
        /\ \/ docs'[r].state \notin DecidedStates
           \/ docs[r].state = "approved" /\ docs'[r].state = "closed"

(* A decision of user u. *)
Decided(u, r, code, result) ==
  /\ Exists(r) /\ docs'[r].by = docs[r].by
  /\ HasGroup(u, code)
  /\ u # docs[r].by \/ HasGroup(u, "admin")
  /\ history'[r] = Append(history[r], Decision(u, code, result))
  /\ result = "rejected" <=> docs'[r].state = "rejected"
  /\ result = "rejected" => docs'[r].posted = docs[r].posted

LEMMA DecisionEffect ==
  ASSUME TypeOK, NEW u \in Users, NEW r \in Requests, RequestStep(u, r)
  PROVE  \/ Undecided(r)
         \/ \E code \in LevelCodes, result \in Results : Decided(u, r, code, result)
<1>1. /\ DOMAIN docs = Requests /\ DOMAIN history = Requests
      /\ Exists(r) => docs[r] \in [state : States, amount : Amounts, source : Places,
                                   target : Places \cup {NoPlace}, by : Users,
                                   posted : BOOLEAN]
  BY Present DEF TypeOK, Documents
<1>2. PICK n \in 1 .. 3 : Levels(r) \in [1 .. n -> LevelCodes] /\ Len(Levels(r)) = n
  BY ChainType
<1>3. CASE Prepare(u, r)
  <2>1. CASE \E amount \in Amounts, ends \in Endpoints(Kind[r]) : Create(u, r, amount, ends)
    BY <1>1, <2>1 DEF Create, Undecided
  <2>2. CASE \E amount \in Amounts, ends \in Endpoints(Kind[r]) : EditDraft(u, r, amount, ends)
    BY <1>1, <2>2 DEF EditDraft, Undecided, DecidedStates
  <2>3. CASE CancelDraft(u, r)
    BY <1>1, <2>3 DEF CancelDraft, Undecided, DecidedStates
  <2>4. CASE ActionResetToDraft(u, r)
    BY <1>1, <2>4 DEF ActionResetToDraft, Undecided, DecidedStates
  <2>5. QED
    BY <1>3, <2>1, <2>2, <2>3, <2>4 DEF Prepare
<1>4. CASE Submit(u, r)
  <2>1. PICK valid, hold : ActionSubmit(u, r, valid, hold)
    BY <1>4 DEF Submit, AllocationSubmit, TransferSubmit, RequisitionSubmit
  <2>2. QED
    BY <1>1, <2>1 DEF ActionSubmit, Undecided, DecidedStates
<1>5. CASE Approve(u, r)
  <2>1. PICK final : ActionApprove(u, r, final)
    BY <1>5 DEF Approve, AllocationApprove, TransferApprove, RequisitionApprove
  <2>2. PICK i \in CurrentLevel(r) :
          /\ MayDecide(u, r, Levels(r)[i])
          /\ history' = [history EXCEPT ![r] = Append(@, Decision(u, Levels(r)[i], "approved"))]
          /\ \/ docs' = [docs EXCEPT ![r].state = "approved", ![r].posted = TRUE]
             \/ /\ LevelIndex(r, i) + 1 <= Len(Levels(r))
                /\ docs' = [docs EXCEPT ![r].state = StageStates[LevelIndex(r, i) + 1]]
    BY <2>1 DEF ActionApprove
  <2>3. i \in 1 .. n /\ Levels(r)[i] \in LevelCodes
    BY <1>2 DEF CurrentLevel
  <2>4. PICK next \in Nat : next >= 1 /\ next = LevelIndex(r, i) + 1
    <3>1. LevelIndex(r, i) \in 1 .. i
      BY <2>3, LevelIndexType
    <3>2. QED
      BY <2>3, <3>1
  <2>5. next <= Len(Levels(r)) => StageStates[next] \in PendingStates
    BY <1>2, <2>4 DEF StageStates, PendingStates
  <2>6. docs'[r].by = docs[r].by /\ docs'[r].state # "rejected"
    BY <1>1, <2>1, <2>2, <2>4, <2>5 DEF PendingStates, ActionApprove
  <2>7. Decided(u, r, Levels(r)[i], "approved")
    BY <1>1, <2>1, <2>2, <2>6 DEF Decided, MayDecide, ActionApprove
  <2>8. QED
    BY <2>3, <2>7 DEF Results
<1>6. CASE Reject(u, r)
  <2>1. PICK released : ActionReject(u, r, released)
    BY <1>6 DEF Reject, AllocationReject, TransferReject, RequisitionReject
  <2>2. PICK i \in CurrentLevel(r) :
          /\ MayDecide(u, r, Levels(r)[i])
          /\ history' = [history EXCEPT ![r] = Append(@, Decision(u, Levels(r)[i], "rejected"))]
    BY <2>1 DEF ActionReject
  <2>3. Levels(r)[i] \in LevelCodes
    BY <1>2 DEF CurrentLevel
  <2>4. Decided(u, r, Levels(r)[i], "rejected")
    BY <1>1, <2>1, <2>2 DEF Decided, MayDecide, ActionReject
  <2>5. QED
    BY <2>3, <2>4 DEF Results
<1>7. CASE Cancel(u, r)
  <2>1. PICK released : CancelPending(u, r, released)
    BY <1>7 DEF Cancel, AllocationCancel, TransferCancel, RequisitionCancel
  <2>2. QED
    BY <1>1, <2>1 DEF CancelPending, Undecided, DecidedStates
<1>8. CASE CancelFinal(u, r)
  <2>1. PICK reversible, reversed : CancelApproved(u, r, reversible, reversed)
    BY <1>8 DEF CancelFinal, AllocationCancelApproved, TransferCancelApproved,
                RequisitionCancelApproved
  <2>2. QED
    BY <1>1, <2>1 DEF CancelApproved, Undecided, DecidedStates
<1>9. CASE ActionClose(u, r)
  BY <1>1, <1>9 DEF ActionClose, Undecided
<1>10. QED
  BY <1>3, <1>4, <1>5, <1>6, <1>7, <1>8, <1>9 DEF RequestStep

RecordedInv ==
  \A r \in Requests :
    Exists(r) => Recorded(history[r], docs[r].state, docs[r].posted, docs[r].by)

LEMMA RecordedStep ==
  ASSUME TypeOK, RecordedInv, [Next]_vars
  PROVE  RecordedInv'
<1>1. SUFFICES ASSUME NEW q \in Requests, Exists(q)'
               PROVE  Recorded(history'[q], docs'[q].state, docs'[q].posted, docs'[q].by)
  BY DEF RecordedInv
<1>2. ASSUME docs'[q] = docs[q], history'[q] = history[q]
      PROVE  Recorded(history'[q], docs'[q].state, docs'[q].posted, docs'[q].by)
  BY <1>1, <1>2 DEF RecordedInv, Exists
<1>3. ASSUME NEW u \in Users, NEW r \in Requests, RequestStep(u, r)
      PROVE  Recorded(history'[q], docs'[q].state, docs'[q].posted, docs'[q].by)
  <2>1. CASE q # r
    BY <1>2, <1>3, <2>1, WorkflowEffect
  <2>2. CASE q = r /\ Undecided(r)
    <3>1. CASE docs'[r].state = "draft" /\ ~docs'[r].posted
      BY <2>2, <3>1 DEF Recorded, DecidedStates
    <3>2. CASE /\ Exists(r)
               /\ docs'[r].by = docs[r].by /\ docs'[r].posted = docs[r].posted
               /\ \/ docs'[r].state \notin DecidedStates
                  \/ docs[r].state = "approved" /\ docs'[r].state = "closed"
      <4>1. Recorded(history[r], docs[r].state, docs[r].posted, docs[r].by)
        BY <3>2 DEF RecordedInv
      <4>2. QED
        BY <2>2, <3>2, <4>1 DEF Undecided, Recorded, DecidedStates
    <3>3. QED
      BY <2>2, <3>1, <3>2 DEF Undecided
  <2>3. CASE q = r /\ \E code \in LevelCodes, result \in Results : Decided(u, r, code, result)
    <3>1. PICK code \in LevelCodes, result \in Results : Decided(u, r, code, result)
      BY <2>3
    <3>2. history[r] \in Seq(Lines)
      BY DEF TypeOK
    <3>3. Recorded(history[r], docs[r].state, docs[r].posted, docs[r].by)
      BY <3>1 DEF RecordedInv, Decided
    <3>4. /\ Newest(history'[r], result, docs[r].by)
          /\ result = "approved" => Approved(history'[r], docs[r].by)
          /\ Approved(history[r], docs[r].by) => Approved(history'[r], docs[r].by)
      <4>1. /\ history'[r] = Append(history[r], Decision(u, code, result))
            /\ HasGroup(u, code)
            /\ u # docs[r].by \/ HasGroup(u, "admin")
        BY <3>1 DEF Decided
      <4>2. QED
        BY <3>2, <4>1, RecordGrows
    <3>5. docs'[r].posted => result = "approved" \/ Approved(history[r], docs[r].by)
      BY <3>1, <3>3 DEF Decided, Recorded, Results
    <3>6. QED
      BY <2>3, <3>1, <3>4, <3>5 DEF Decided, Recorded, Results
  <2>4. QED
    BY <1>3, <2>1, <2>2, <2>3, DecisionEffect
<1>4. CASE UNCHANGED <<docs, history>>
  BY <1>2, <1>4
<1>5. QED
  BY <1>3, <1>4, WorkflowElsewhere DEF Next, vars

(* However rules change and whatever chains they have, also with a level   *)
(* twice, and however often a request is withdrawn and submitted again: no *)
(* request is in a state that only a decision leads to, and none has moved *)
(* money, without that decision on record by one who was entitled to it.   *)
THEOREM DecisionsAreRecorded == Spec => []DecisionsRecorded
<1>1. Init => RecordedInv
  BY DEF Init, RecordedInv, Exists
<1>2. TypeOK /\ RecordedInv /\ [Next]_vars => RecordedInv'
  BY RecordedStep
<1>3. RecordedInv => DecisionsRecorded
  BY DEF RecordedInv, Recorded, Newest, Approved, DecisionsRecorded
<1>4. QED
  BY <1>1, <1>2, <1>3, TypeCorrect, PTL DEF Spec
-----------------------------------------------------------------------------
(* To-dos follow the stages. *)

(* While no rule changes, neither does the chain of a request that is not  *)
(* written to.                                                             *)
LEMMA SameRequest ==
  ASSUME NEW q \in Requests, active' = active, docs'[q] = docs[q]
  PROVE  /\ Exists(q)' = Exists(q) /\ Levels(q)' = Levels(q)
         /\ CurrentLevel(q)' = CurrentLevel(q) /\ Passed(q)' = Passed(q)
BY DEF Exists, Levels, CurrentLevel, Passed

(* Who is to be alerted in state s of a request with that chain. *)
AlertedIn(chain, s) ==
  UNION {Alerted(chain[i]) : i \in {j \in DOMAIN chain : StageStates[j] = s}}

(* Nobody before submission and after the decision, else the current level. *)
LEMMA AlertedAre ==
  ASSUME NEW n \in 1 .. 3, NEW chain \in [1 .. n -> LevelCodes]
  PROVE  /\ \A s : s \notin PendingStates => AlertedIn(chain, s) = {}
         /\ \A k \in 1 .. n : AlertedIn(chain, StageStates[k]) = Alerted(chain[k])
<1>1. ASSUME NEW s, s \notin PendingStates
      PROVE  AlertedIn(chain, s) = {}
  <2>1. \A j \in DOMAIN chain : StageStates[j] \in PendingStates
    BY StagesApart
  <2>2. {j \in DOMAIN chain : StageStates[j] = s} = {}
    BY <1>1, <2>1
  <2>3. QED
    BY <2>2 DEF AlertedIn
<1>2. ASSUME NEW k \in 1 .. n
      PROVE  AlertedIn(chain, StageStates[k]) = Alerted(chain[k])
  <2>1. \A j \in DOMAIN chain : StageStates[j] = StageStates[k] <=> j = k
    BY StagesApart
  <2>2. k \in DOMAIN chain
    BY StagesApart
  <2>3. {j \in DOMAIN chain : StageStates[j] = StageStates[k]} = {k}
    BY <2>1, <2>2
  <2>4. QED
    BY <2>3 DEF AlertedIn
<1>3. QED
  BY <1>1, <1>2

AlertsInv == \A r \in Requests : todo[r] = AlertedIn(Levels(r), docs[r].state)

LEMMA AlertsStep ==
  ASSUME TypeOK, TypeOK', AlertsInv, EditableRules = {}, [Next]_vars
  PROVE  AlertsInv'
<1>1. SUFFICES ASSUME NEW q \in Requests
               PROVE  todo'[q] = AlertedIn(Levels(q)', docs'[q].state)
  BY DEF AlertsInv
<1>2. todo[q] = AlertedIn(Levels(q), docs[q].state)
  BY DEF AlertsInv
<1>3. ASSUME active' = active, docs'[q] = docs[q], todo'[q] = todo[q]
      PROVE  todo'[q] = AlertedIn(Levels(q)', docs'[q].state)
  BY <1>2, <1>3, SameRequest
<1>4. ASSUME NEW u \in Users, NEW r \in Requests, RequestStep(u, r)
      PROVE  todo'[q] = AlertedIn(Levels(q)', docs'[q].state)
  <2>1. CASE q # r
    BY <1>3, <1>4, <2>1, WorkflowEffect
  <2>2. CASE q = r
    <3>1. PICK n \in 1 .. 3 : Levels(r)' \in [1 .. n -> LevelCodes]
      BY LevelsType DEF TypeOK, Levels
    <3>2. PICK m \in 1 .. 3 : Levels(r) \in [1 .. m -> LevelCodes]
      BY ChainType
    <3>3. docs'[r].amount = docs[r].amount => Levels(r)' = Levels(r)
      BY <1>4, WorkflowEffect DEF Levels
    <3>4. CASE /\ InPreparation(r) /\ docs'[r].state = "draft" /\ todo'[r] = todo[r]
      <4>1. docs[r].state \notin PendingStates /\ docs'[r].state \notin PendingStates
        BY <3>4 DEF InPreparation, PendingStates
      <4>2. AlertedIn(Levels(r), docs[r].state) = {} /\ AlertedIn(Levels(r)', docs'[r].state) = {}
        BY <3>1, <3>2, <4>1, AlertedAre
      <4>3. QED
        BY <1>2, <2>2, <3>4, <4>2
    <3>5. CASE /\ docs'[r].state = "submitted" /\ docs'[r].amount = docs[r].amount
               /\ todo'[r] = Alerted(Levels(r)[1])
      <4>1. StageStates[1] = "submitted" /\ 1 \in 1 .. n
        BY DEF StageStates
      <4>2. AlertedIn(Levels(r)', docs'[r].state) = Alerted(Levels(r)'[1])
        BY <3>1, <3>5, <4>1, AlertedAre
      <4>3. QED
        BY <2>2, <3>3, <3>5, <4>2
    <3>6. CASE \E i \in CurrentLevel(r) : Advances(u, r, i, LevelIndex(r, i) + 1)
      <4>1. PICK i \in CurrentLevel(r) : Advances(u, r, i, LevelIndex(r, i) + 1)
        BY <3>6
      <4>2. PICK next \in Nat : next >= 1 /\ Advances(u, r, i, next)
        <5>1. i \in 1 .. 3
          BY <3>2 DEF CurrentLevel
        <5>2. LevelIndex(r, i) \in 1 .. i
          BY <5>1, LevelIndexType
        <5>3. QED
          BY <4>1, <5>1, <5>2
      <4>3. CASE docs'[r].state = "approved" /\ todo'[r] = {}
        BY <2>2, <3>1, <4>3, AlertedAre DEF PendingStates
      <4>4. CASE /\ next <= Len(Levels(r)) /\ docs'[r].state = StageStates[next]
                 /\ todo'[r] = Alerted(Levels(r)[next])
        <5>1. Levels(r)' = Levels(r)
          BY <3>3, <4>2 DEF Advances
        <5>2. next \in 1 .. n
          BY <3>1, <4>2, <4>4, <5>1, StagesApart
        <5>3. AlertedIn(Levels(r)', docs'[r].state) = Alerted(Levels(r)'[next])
          BY <3>1, <4>4, <5>2, AlertedAre
        <5>4. QED
          BY <2>2, <4>4, <5>1, <5>3
      <4>5. QED
        BY <4>2, <4>3, <4>4 DEF Advances
    <3>7. CASE docs'[r].state \in {"rejected", "cancelled"} /\ todo'[r] = {}
      BY <2>2, <3>1, <3>7, AlertedAre DEF PendingStates
    <3>8. CASE docs[r].state = "approved" /\ docs'[r].state = "closed" /\ todo'[r] = todo[r]
      BY <1>2, <2>2, <3>1, <3>2, <3>8, AlertedAre DEF PendingStates
    <3>9. QED
      BY <1>4, <3>4, <3>5, <3>6, <3>7, <3>8, WorkflowEffect
  <2>3. QED
    BY <2>1, <2>2
<1>5. CASE UNCHANGED <<docs, history, todo, active>>
  BY <1>3, <1>5
<1>6. QED
  BY <1>4, <1>5, WorkflowElsewhere DEF Next, vars

(* Everybody in a group is alerted unless it is beyond the limit.          *)
LEMMA AllAlerted ==
  ASSUME NEW code, Cardinality(Members(code)) <= ActivityLimit
  PROVE  Alerted(code) = Members(code)
<1>1. IsFiniteSet(Members(code)) /\ Members(code) \subseteq Users
  <2>1. IsFiniteSet(1 .. NUsers)
    BY SecurityAssumption, FS_Interval
  <2>2. QED
    BY <2>1, FS_Subset DEF Members, Users
<1>2. ASSUME NEW u \in Members(code)
      PROVE  Cardinality({v \in Members(code) : v < u}) < ActivityLimit
  <2>1. PICK S : S = {v \in Members(code) : v < u}
    OBVIOUS
  <2>2. S \subseteq Members(code) /\ S # Members(code)
    <3>1. u \in Int
      BY <1>1, SecurityAssumption DEF Users
    <3>2. u \notin S
      BY <2>1, <3>1
    <3>3. QED
      BY <2>1, <3>2
  <2>3. Cardinality(S) <= Cardinality(Members(code)) /\ Cardinality(S) # Cardinality(Members(code))
    BY <1>1, <2>2, FS_Subset
  <2>4. Cardinality(S) \in Nat /\ Cardinality(Members(code)) \in Nat
    BY <1>1, <2>2, FS_Subset, FS_CardinalityType
  <2>5. QED
    BY <2>1, <2>3, <2>4 DEF ActivityLimit
<1>3. QED
  BY <1>2 DEF Alerted

(* While nobody edits the rules, whatever is submitted, decided, withdrawn *)
(* and submitted again: there are to-dos on pending requests only, none    *)
(* for anybody outside the group that decides now, and one for everybody   *)
(* who may decide now if that group has not more members than the limit.   *)
THEOREM AlertsAreCurrent ==
  ASSUME EditableRules = {}
  PROVE  Spec => []AlertsCurrent
<1>1. TypeOK /\ Init => AlertsInv
  <2>1. SUFFICES ASSUME TypeOK, Init, NEW r \in Requests
                 PROVE  AlertedIn(Levels(r), "none") = {}
    BY DEF Init, AlertsInv, NoDoc
  <2>2. QED
    BY <2>1, ChainType, AlertedAre DEF PendingStates
<1>2. TypeOK /\ TypeOK' /\ AlertsInv /\ [Next]_vars => AlertsInv'
  BY AlertsStep
<1>3. TypeOK /\ AlertsInv => AlertsCurrent
  <2>1. SUFFICES ASSUME TypeOK, AlertsInv, NEW r \in Requests
                 PROVE  /\ ~Exists(r) \/ ~Pending(r) => todo[r] = {}
                        /\ Exists(r) => \A i \in CurrentLevel(r) :
                             LET code == Levels(r)[i]
                             IN  /\ todo[r] \subseteq Members(code)
                                 /\ Cardinality(Members(code)) <= ActivityLimit =>
                                      {u \in Users : MayDecide(u, r, code)} \subseteq todo[r]
    BY DEF AlertsCurrent
  <2>2. PICK n \in 1 .. 3 : Levels(r) \in [1 .. n -> LevelCodes]
    BY <2>1, ChainType
  <2>3. todo[r] = AlertedIn(Levels(r), docs[r].state)
    BY <2>1 DEF AlertsInv
  <2>4. ASSUME ~Exists(r) \/ ~Pending(r)
        PROVE  todo[r] = {}
    <3>1. docs[r].state \notin PendingStates
      BY <2>4 DEF Exists, NoDoc, Pending, PendingStates
    <3>2. AlertedIn(Levels(r), docs[r].state) = {}
      BY <2>2, <3>1, AlertedAre
    <3>3. QED
      BY <2>3, <3>2
  <2>5. ASSUME NEW i \in CurrentLevel(r)
        PROVE  /\ todo[r] \subseteq Members(Levels(r)[i])
               /\ Cardinality(Members(Levels(r)[i])) <= ActivityLimit =>
                    {u \in Users : MayDecide(u, r, Levels(r)[i])} \subseteq todo[r]
    <3>1. i \in 1 .. n /\ docs[r].state = StageStates[i]
      BY <2>2 DEF CurrentLevel
    <3>2. todo[r] = Alerted(Levels(r)[i])
      BY <2>2, <2>3, <3>1, AlertedAre
    <3>3. todo[r] \subseteq Members(Levels(r)[i])
      BY <3>2 DEF Alerted
    <3>4. \A u \in Users : MayDecide(u, r, Levels(r)[i]) => u \in Members(Levels(r)[i])
      BY DEF MayDecide, Members
    <3>5. QED
      BY <3>2, <3>3, <3>4, AllAlerted
  <2>6. QED
    BY <2>4, <2>5
<1>4. QED
  BY <1>1, <1>2, <1>3, TypeCorrect, PTL DEF Spec
-----------------------------------------------------------------------------
(* Decisions are made in order. *)

LEMMA StagesPassed ==
  ASSUME NEW r \in Requests, NEW i \in 1 .. 3
  PROVE  /\ docs[r].state = StageStates[i] => Passed(r) = i - 1 /\ Pending(r)
         /\ docs[r].state \in {"none", "draft", "rejected", "cancelled"} => Passed(r) = 0 /\ ~Pending(r)
         /\ docs[r].state \in {"approved", "closed"} => Passed(r) = Len(Levels(r)) /\ ~Pending(r)
BY DEF StageStates, Passed, Pending, PendingStates

(* The last n lines of history h are approvals at the first n levels of a  *)
(* chain, by those who may give them on a request of user by.              *)
InOrder(h, chain, n, by) ==
  /\ Len(h) - n >= 0
  /\ \A i \in 1 .. n :
       LET line == h[Len(h) - n + i]
       IN  /\ line.level = chain[i] /\ line.result = "approved"
           /\ HasGroup(line.by, line.level)
           /\ line.by # by \/ HasGroup(line.by, "admin")

LEMMA OrderOfNone ==
  ASSUME NEW h \in Seq(Lines), NEW chain, NEW by
  PROVE  InOrder(h, chain, 0, by)
BY DEF InOrder

LEMMA OrderGrows ==
  ASSUME NEW h \in Seq(Lines), NEW n \in Nat, NEW chain, NEW by, InOrder(h, chain, n, by),
         NEW u \in Users, NEW code \in LevelCodes, code = chain[n + 1], HasGroup(u, code),
         u # by \/ HasGroup(u, "admin")
  PROVE  InOrder(Append(h, Decision(u, code, "approved")), chain, n + 1, by)
<1> DEFINE line == Decision(u, code, "approved")
           longer == Append(h, line)
<1>1. line \in Lines
  BY DEF Decision, Lines, Results
<1>2. /\ Len(longer) = Len(h) + 1 /\ Len(h) \in Nat
      /\ longer[Len(h) + 1] = line
      /\ \A i \in 1 .. Len(h) : longer[i] = h[i]
  BY <1>1
<1>3. line.level = code /\ line.result = "approved" /\ line.by = u
  BY DEF Decision
<1> HIDE DEF line, longer
<1>4. Len(h) - n >= 0 /\ Len(longer) - (n + 1) = Len(h) - n
  BY <1>2 DEF InOrder
<1>5. ASSUME NEW i \in 1 .. n + 1
      PROVE  LET it == longer[Len(longer) - (n + 1) + i]
             IN  /\ it.level = chain[i] /\ it.result = "approved"
                 /\ HasGroup(it.by, it.level)
                 /\ it.by # by \/ HasGroup(it.by, "admin")
  <2>1. CASE i = n + 1
    <3>1. Len(longer) - (n + 1) + i = Len(h) + 1
      BY <1>2, <2>1
    <3>2. QED
      BY <1>2, <1>3, <2>1, <3>1
  <2>2. CASE i # n + 1
    <3>1. i \in 1 .. n /\ Len(h) - n + i \in 1 .. Len(h)
      BY <1>2, <1>4, <2>2
    <3>2. longer[Len(longer) - (n + 1) + i] = h[Len(h) - n + i]
      BY <1>2, <1>4, <3>1
    <3>3. QED
      BY <3>1, <3>2 DEF InOrder
  <2>3. QED
    BY <2>1, <2>2
<1>6. QED
  BY <1>4, <1>5 DEF InOrder, longer, line

OrderInv ==
  \A r \in Requests : Exists(r) => InOrder(history[r], Levels(r), Passed(r), docs[r].by)

LEMMA OrderStep ==
  ASSUME TypeOK, TypeOK', OrderInv, EditableRules = {}, DistinctLevels, [Next]_vars
  PROVE  OrderInv'
<1>1. SUFFICES ASSUME NEW q \in Requests, Exists(q)'
               PROVE  InOrder(history'[q], Levels(q)', Passed(q)', docs'[q].by)
  BY DEF OrderInv
<1>2. ASSUME active' = active, docs'[q] = docs[q], history'[q] = history[q]
      PROVE  InOrder(history'[q], Levels(q)', Passed(q)', docs'[q].by)
  <2>1. Exists(q)
    BY <1>1, <1>2, SameRequest
  <2>2. QED
    BY <1>2, <2>1, SameRequest DEF OrderInv
<1>3. ASSUME NEW u \in Users, NEW r \in Requests, RequestStep(u, r)
      PROVE  InOrder(history'[q], Levels(q)', Passed(q)', docs'[q].by)
  <2>1. CASE q # r
    BY <1>2, <1>3, <2>1, WorkflowEffect
  <2>2. CASE q = r
    <3>1. history[r] \in Seq(Lines) /\ history'[r] \in Seq(Lines)
      BY DEF TypeOK
    <3>2. CASE docs'[r].state \in {"draft", "submitted", "rejected", "cancelled"}
      <4>1. Passed(r)' = 0
        BY <3>2 DEF Passed
      <4>2. QED
        BY <2>2, <3>1, <4>1, OrderOfNone
    <3>3. docs'[r].amount = docs[r].amount => Levels(r)' = Levels(r)
      BY <1>3, WorkflowEffect DEF Levels
    <3>4. CASE /\ docs[r].state = "approved" /\ docs'[r].state = "closed"
               /\ docs'[r].amount = docs[r].amount /\ docs'[r].by = docs[r].by
               /\ history'[r] = history[r]
      <4>1. Exists(r)
        BY <3>4 DEF Exists, NoDoc
      <4>2. Passed(r)' = Passed(r)
        BY <3>3, <3>4 DEF Passed
      <4>3. QED
        BY <2>2, <3>3, <3>4, <4>1, <4>2 DEF OrderInv
    <3>5. CASE \E i \in CurrentLevel(r) : Advances(u, r, i, LevelIndex(r, i) + 1)
      <4>1. PICK i \in CurrentLevel(r) : Advances(u, r, i, LevelIndex(r, i) + 1)
        BY <3>5
      <4>2. /\ i \in 1 .. Len(Levels(r)) /\ i \in 1 .. 3
            /\ docs[r].state = StageStates[i] /\ LevelIndex(r, i) = i
        BY OwnIndex
      <4>3. PICK n \in 1 .. 3 : Levels(r) \in [1 .. n -> LevelCodes] /\ Len(Levels(r)) = n
        BY ChainType
      <4>4. Levels(r)' = Levels(r) /\ docs'[r].by = docs[r].by
        BY <3>3, <4>1 DEF Advances
      <4>5. Passed(r) = i - 1 /\ Exists(r)
        <5>1. Passed(r) = i - 1 /\ Pending(r)
          BY <4>2, StagesPassed
        <5>2. QED
          BY <5>1 DEF Pending, PendingStates, Exists, NoDoc
      <4>6. Passed(r)' = i
        <5>1. CASE i + 1 > Len(Levels(r)) /\ docs'[r].state = "approved"
          <6>1. i = Len(Levels(r))
            BY <4>2, <4>3, <5>1
          <6>2. QED
            BY <4>4, <5>1, <6>1 DEF Passed
        <5>2. CASE i + 1 <= Len(Levels(r)) /\ docs'[r].state = StageStates[i + 1]
          <6>1. i + 1 \in 1 .. 3
            BY <4>2, <4>3, <5>2
          <6>2. QED
            BY <4>2, <5>2, <6>1 DEF Passed, StageStates
        <5>3. QED
          BY <4>1, <4>2, <5>1, <5>2 DEF Advances
      <4>7. InOrder(history[r], Levels(r), i - 1, docs[r].by)
        BY <4>5 DEF OrderInv
      <4>8. /\ Levels(r)[i] \in LevelCodes /\ HasGroup(u, Levels(r)[i])
            /\ u # docs[r].by \/ HasGroup(u, "admin")
            /\ history'[r] = Append(history[r], Decision(u, Levels(r)[i], "approved"))
        BY <4>1, <4>2, <4>3 DEF Advances, MayDecide
      <4>9. i - 1 \in Nat /\ (i - 1) + 1 = i
        BY <4>2
      <4>10. InOrder(history'[r], Levels(r), i, docs[r].by)
        BY <3>1, <4>7, <4>8, <4>9, OrderGrows
      <4>11. QED
        BY <2>2, <4>4, <4>6, <4>10
    <3>6. QED
      BY <1>3, <3>2, <3>4, <3>5, WorkflowEffect
  <2>3. QED
    BY <2>1, <2>2
<1>4. CASE UNCHANGED <<docs, history, todo, active>>
  BY <1>2, <1>4
<1>5. QED
  BY <1>3, <1>4, WorkflowElsewhere DEF Next, vars

(* While nobody edits the rules, and if none has a level twice: whatever   *)
(* was rejected, withdrawn, edited and submitted again before, a request   *)
(* has the state it has because its last decisions approved it at each     *)
(* level of its chain in turn, each by a member of the level's group who   *)
(* was not the requester or is an administrator.                           *)
THEOREM DecisionsAreInOrder ==
  ASSUME EditableRules = {}, DistinctLevels
  PROVE  Spec => []DecisionsInOrder
<1>1. Init => OrderInv
  BY DEF Init, OrderInv, Exists
<1>2. TypeOK /\ TypeOK' /\ OrderInv /\ [Next]_vars => OrderInv'
  BY OrderStep
<1>3. OrderInv => DecisionsInOrder
  BY DEF OrderInv, InOrder, DecisionsInOrder, ByMember
<1>4. QED
  BY <1>1, <1>2, <1>3, TypeCorrect, PTL DEF Spec
=============================================================================
