---------------------------- MODULE ApprovalMixin ----------------------------
(***************************************************************************)
(* nn.approval.mixin: the workflow shared by allocations, requisitions and *)
(* transfers.  The three kinds of request are one array of documents;      *)
(* their modules pass the mixin what their hooks do: whether the request   *)
(* passes _validate_submit, and the ledger after the lines a hook posts.   *)
(*                                                                         *)
(* Every action is one call by user u on one record, hence one database    *)
(* transaction: an exception on the way undoes it all, so the conditions   *)
(* for an exception are guards.  The code's loops over several records are *)
(* sequences of these actions.                                             *)
(***************************************************************************)
EXTENDS FundMovement, FundSecurity, ApprovalRule

CONSTANTS
  NRequests,
  Kind,              \* Kind[r]: which of the three models request r belongs to
  Amounts,           \* the amounts users enter
  EditableRules,     \* the rules administrators archive and restore meanwhile
  MaxDecisions       \* bound on the length of a request's approval history

Requests == 1 .. NRequests

ASSUME RequestAssumption ==
  /\ NRequests \in Nat
  /\ Kind \in [Requests -> Kinds]
  /\ Amounts \subseteq Nat \ {0}
  /\ EditableRules \subseteq 1 .. NRules
  /\ MaxDecisions \in Nat

VARIABLES
  docs,              \* docs[r]: the request, or NoDoc before it is created
  history,           \* history[r]: its approval lines, oldest first
  todo,              \* todo[r]: the users with a to-do activity on it
  active             \* the approval rules in force

mixinVars == <<docs, history, todo, active>>

States == {"draft", "submitted", "gm_approval", "md_approval",
           "approved", "rejected", "cancelled", "closed"}
PendingStates == {"submitted", "gm_approval", "md_approval"}
Results == {"approved", "rejected"}
Lines == [level : LevelCodes, result : Results, by : Users]

NoDoc == [state |-> "none"]
NoPlace == 0

(***************************************************************************)
(* The two ends of a request: an allocation goes from an account to a      *)
(* bucket, a transfer from a bucket to another (_check_endpoints), and a   *)
(* requisition has one bucket.                                             *)
(***************************************************************************)
Endpoints(kind) ==
  CASE kind = "allocation"  -> Accounts \X Buckets
    [] kind = "transfer"    -> {e \in Buckets \X Buckets : e[1] # e[2]}
    [] kind = "requisition" -> Buckets \X {NoPlace}

Documents(kind) ==
  {d \in [state : States, amount : Amounts, source : Places,
          target : Places \cup {NoPlace}, by : Users, posted : BOOLEAN] :
     /\ <<d.source, d.target>> \in Endpoints(kind)
     /\ d.state = "closed" => kind = "requisition"}

Exists(r)  == docs[r] # NoDoc
Pending(r) == docs[r].state \in PendingStates
Levels(r)  == ApprovalLevels(active, Kind[r], docs[r].amount)

(* _schedule_approval_activity() replaces the to-dos by one for each of    *)
(* the first ActivityLimit users of the group.                             *)
ActivityLimit == 20
Alerted(code) ==
  {u \in Members(code) : Cardinality({v \in Members(code) : v < u}) < ActivityLimit}

(* Mutant: the self-approval test is the wrong way round. *)
MayDecide_OwnOnly(u, r, code) == HasGroup(u, code) /\ u = docs[r].by

(* Mutant: forgets the requester. *)
MayDecide_OwnToo(u, r, code) == CanRead(u, docs[r].by) /\ HasGroup(u, code)

(* _check_approver(), for a request the caller can read. *)
MayDecide(u, r, code) ==
  /\ CanRead(u, docs[r].by)
  /\ HasGroup(u, code)
  /\ u # docs[r].by \/ HasGroup(u, "admin")

Decision(u, code, result) == [level |-> code, result |-> result, by |-> u]

-----------------------------------------------------------------------------

(* create(): a user raises a request in their own name. *)
Create(u, r, amount, ends) ==
  /\ ~Exists(r)
  /\ CanCreate(u)
  /\ docs' = [docs EXCEPT ![r] =
                [state |-> "draft", amount |-> amount, source |-> ends[1],
                 target |-> ends[2], by |-> u, posted |-> FALSE]]
  /\ UNCHANGED <<moves, history, todo, active>>

(* Mutant: writes the source into both ends. *)
EditDraft_SameEnds(u, r, amount, ends) ==
  /\ Exists(r)
  /\ docs[r].state = "draft"
  /\ CanWrite(u, docs[r].by)
  /\ docs' = [docs EXCEPT ![r].amount = amount, ![r].source = ends[1],
                          ![r].target = ends[1]]
  /\ UNCHANGED <<moves, history, todo, active>>

(* The form view leaves amount and endpoints editable in state draft.      *)
EditDraft(u, r, amount, ends) ==
  /\ Exists(r)
  /\ docs[r].state = "draft"
  /\ CanWrite(u, docs[r].by)
  /\ docs' = [docs EXCEPT ![r].amount = amount, ![r].source = ends[1],
                          ![r].target = ends[2]]
  /\ UNCHANGED <<moves, history, todo, active>>

(* action_submit(): hold is the ledger after _post_on_submit().            *)
ActionSubmit(u, r, valid, hold) ==
  /\ Exists(r)
  /\ docs[r].state = "draft"
  /\ CanWrite(u, docs[r].by)
  /\ valid
  /\ WithinBound(hold)
  /\ docs' = [docs EXCEPT ![r].state = "submitted"]
  /\ moves' = hold
  /\ todo' = [todo EXCEPT ![r] = Alerted(Levels(r)[1])]
  /\ UNCHANGED <<history, active>>

(* codes.index(level[0]): the first level with the code of level i. *)
LevelIndex(r, i) ==
  CHOOSE j \in 1 .. i : /\ Levels(r)[j] = Levels(r)[i]
                        /\ \A h \in 1 .. (j - 1) : Levels(r)[h] # Levels(r)[i]

(* Mutant: any level of the chain may decide at any time. *)
CurrentLevel_AnyLevel(r) == IF Pending(r) THEN DOMAIN Levels(r) ELSE {}

(* _current_level(): the levels that decide in the request's state. *)
CurrentLevel(r) == {i \in DOMAIN Levels(r) : StageStates[i] = docs[r].state}

(***************************************************************************)
(* action_approve(): a decision at the current level.  After the last      *)
(* level the final effect is posted, unless the flag posted says that it   *)
(* already was; final is the ledger after _post_on_approve().              *)
(***************************************************************************)
ActionApprove(u, r, final) ==
  /\ Exists(r)
  /\ Len(history[r]) < MaxDecisions
  /\ \E i \in CurrentLevel(r) :
       LET code == Levels(r)[i]
           next == LevelIndex(r, i) + 1
       IN  /\ MayDecide(u, r, code)
           /\ history' = [history EXCEPT ![r] = Append(@, Decision(u, code, "approved"))]
           /\ \/ /\ next > Len(Levels(r))
                 /\ moves' = IF docs[r].posted THEN moves ELSE final
                 /\ docs' = [docs EXCEPT ![r].state = "approved", ![r].posted = TRUE]
                 /\ todo' = [todo EXCEPT ![r] = {}]
              \/ /\ next <= Len(Levels(r))
                 /\ docs' = [docs EXCEPT ![r].state = StageStates[next]]
                 /\ todo' = [todo EXCEPT ![r] = Alerted(Levels(r)[next])]
                 /\ UNCHANGED moves
  /\ UNCHANGED active

(* Mutant: leaves the to-dos of a rejected request. *)
ActionReject_KeepsAlerts(u, r, released) ==
  /\ Exists(r)
  /\ Len(history[r]) < MaxDecisions
  /\ \E i \in CurrentLevel(r) :
       /\ MayDecide(u, r, Levels(r)[i])
       /\ history' = [history EXCEPT ![r] = Append(@, Decision(u, Levels(r)[i], "rejected"))]
  /\ docs' = [docs EXCEPT ![r].state = "rejected"]
  /\ moves' = released
  /\ UNCHANGED <<todo, active>>

(* action_reject(): released is the ledger after _post_on_reject().        *)
ActionReject(u, r, released) ==
  /\ Exists(r)
  /\ Len(history[r]) < MaxDecisions
  /\ \E i \in CurrentLevel(r) :
       /\ MayDecide(u, r, Levels(r)[i])
       /\ history' = [history EXCEPT ![r] = Append(@, Decision(u, Levels(r)[i], "rejected"))]
  /\ docs' = [docs EXCEPT ![r].state = "rejected"]
  /\ moves' = released
  /\ todo' = [todo EXCEPT ![r] = {}]
  /\ UNCHANGED active

(* action_cancel() of an approved request, by an administrator: reversible *)
(* and reversed are what _post_on_reverse() requires and leaves.           *)
CancelApproved(u, r, reversible, reversed) ==
  /\ Exists(r)
  /\ docs[r].state = "approved"
  /\ HasGroup(u, "admin")
  /\ reversible
  /\ docs' = [docs EXCEPT ![r].state = "cancelled"]
  /\ moves' = reversed
  /\ todo' = [todo EXCEPT ![r] = {}]
  /\ UNCHANGED <<history, active>>

(* Mutant: releases the hold of an approved request, too. *)
CancelPending_OrApproved(u, r, released) ==
  /\ Exists(r)
  /\ Pending(r) \/ docs[r].state = "approved"
  /\ CanWrite(u, docs[r].by)
  /\ docs' = [docs EXCEPT ![r].state = "cancelled"]
  /\ moves' = released
  /\ todo' = [todo EXCEPT ![r] = {}]
  /\ UNCHANGED <<history, active>>

(* action_cancel() before approval: a pending request gives its hold back. *)
CancelPending(u, r, released) ==
  /\ Exists(r)
  /\ Pending(r)
  /\ CanWrite(u, docs[r].by)
  /\ docs' = [docs EXCEPT ![r].state = "cancelled"]
  /\ moves' = released
  /\ todo' = [todo EXCEPT ![r] = {}]
  /\ UNCHANGED <<history, active>>

CancelDraft(u, r) ==
  /\ Exists(r)
  /\ docs[r].state = "draft"
  /\ CanWrite(u, docs[r].by)
  /\ docs' = [docs EXCEPT ![r].state = "cancelled"]
  /\ todo' = [todo EXCEPT ![r] = {}]
  /\ UNCHANGED <<moves, history, active>>

(* action_reset_to_draft(); the flag posted stays as it is. *)
ActionResetToDraft(u, r) ==
  /\ Exists(r)
  /\ docs[r].state \in {"rejected", "cancelled"}
  /\ CanWrite(u, docs[r].by)
  /\ docs' = [docs EXCEPT ![r].state = "draft"]
  /\ UNCHANGED <<moves, history, todo, active>>

(* An administrator archives or restores an approval rule. *)
ToggleRule(u, k) ==
  /\ HasGroup(u, "admin")
  /\ active' = IF k \in active THEN active \ {k} ELSE active \cup {k}
  /\ UNCHANGED <<moves, docs, history, todo>>

=============================================================================
