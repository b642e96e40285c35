---------------------------- MODULE FundMovement ----------------------------
(***************************************************************************)
(* The ledger (nn.fund.movement) and the balances computed from it on the  *)
(* fund accounts and on the buckets, which are the projects and the        *)
(* expense heads.                                                          *)
(*                                                                         *)
(* A ledger line has a type, a positive amount, and refers to an account,  *)
(* to a bucket, or to both.  Lines are only ever added, and every balance  *)
(* is a difference of sums of lines of one type, so the ledger is kept as  *)
(* the total amount of the lines of each type that refer to each place:    *)
(* what is lost is the order of the lines and how many of them make up a   *)
(* total, which no computation of the code depends on.                     *)
(***************************************************************************)
EXTENDS Integers, FiniteSets

CONSTANTS
  NAccounts,         \* nn.fund.account
  NBuckets,          \* nn.project and nn.expense.head together
  MaxTotal           \* bound: no hold, spend or deposit total grows beyond this

ASSUME LedgerAssumption ==
  /\ NAccounts \in Nat
  /\ NBuckets \in Nat
  /\ MaxTotal \in Nat

VARIABLE moves       \* moves[p][t]: total of the lines of type t that refer to p

(* Numbered in one row, the accounts first, so that they can be summed over. *)
NPlaces == NAccounts + NBuckets
Places == 1 .. NPlaces
Accounts == 1 .. NAccounts
Buckets == (NAccounts + 1) .. NPlaces

MoveTypes ==
  {"incoming", "alloc_hold", "alloc_release", "assign", "assign_reverse",
   "req_hold", "req_release", "spend", "reverse",
   "transfer_hold", "transfer_release", "transfer_settle",
   "transfer_settle_reverse", "transfer_in", "transfer_in_reverse"}

Ledgers == [Places -> [MoveTypes -> Nat]]

EmptyLedger == [p \in Places |-> [t \in MoveTypes |-> 0]]

(***************************************************************************)
(* _post(): the ledger m with one more line.  A line of an allocation      *)
(* refers to the account and to the bucket, all others to one place.       *)
(***************************************************************************)
Post(m, type, places, amount) ==
  [p \in Places |-> IF p \in places THEN [m[p] EXCEPT ![type] = @ + amount]
                                    ELSE m[p]]

(***************************************************************************)
(* FundAccount._compute_balances().                                        *)
(***************************************************************************)
Received(m, a)   == m[a]["incoming"]
Unassigned(m, a) == m[a]["incoming"] - m[a]["alloc_hold"]
                    + m[a]["alloc_release"] + m[a]["assign_reverse"]
OnHold(m, a)     == m[a]["alloc_hold"] - m[a]["alloc_release"] - m[a]["assign"]
Assigned(m, a)   == m[a]["assign"] - m[a]["assign_reverse"]

(***************************************************************************)
(* bucket_sums(), shared by projects and expense heads.                    *)
(***************************************************************************)
Allocated(m, b)       == m[b]["assign"] - m[b]["assign_reverse"]
TransferIn(m, b)      == m[b]["transfer_in"] - m[b]["transfer_in_reverse"]
TransferOut(m, b)     == m[b]["transfer_settle"] - m[b]["transfer_settle_reverse"]
RequisitionHold(m, b) == m[b]["req_hold"] - m[b]["req_release"]
                         - m[b]["spend"] + m[b]["reverse"]
TransferHold(m, b)    == m[b]["transfer_hold"] - m[b]["transfer_release"]
                         - m[b]["transfer_settle"]
Spent(m, b)           == m[b]["spend"] - m[b]["reverse"]
Available(m, b)       == Allocated(m, b) + TransferIn(m, b) - TransferOut(m, b)
                         - RequisitionHold(m, b) - TransferHold(m, b) - Spent(m, b)

(***************************************************************************)
(* _check_non_negative() of the account and of the two bucket models.      *)
(*                                                                         *)
(* It is declared with @api.constrains("movement_ids"), the inverse of the *)
(* line's many2one field.  The framework runs a constraint when a field it *)
(* names is written on, or recomputed for, a record of its own model.      *)
(* _post() creates a record of another model, so it does not run there,    *)
(* and no action is guarded by it, whatever the comments of the            *)
(* _post_on_reverse hooks expect: these two are properties to check.       *)
(***************************************************************************)
NonNegativeAccount(m, a) == Unassigned(m, a) >= 0 /\ OnHold(m, a) >= 0
NonNegativeBucket(m, b) ==
  /\ Available(m, b) >= 0
  /\ RequisitionHold(m, b) >= 0
  /\ TransferHold(m, b) >= 0
  /\ Spent(m, b) >= 0

(* Not in the code: keeps the instances TLC explores finite. *)
WithinBound(m) == \A p \in Places, t \in MoveTypes : m[p][t] <= MaxTotal

=============================================================================
