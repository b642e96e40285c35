---------------------------- MODULE IncomingFund ----------------------------
(***************************************************************************)
(* nn.incoming.fund: a deposit, keyed in by finance (draft) or made from a *)
(* bank email (pending, until finance verifies it).  Confirming it posts   *)
(* the one line that lets money into the system.                           *)
(***************************************************************************)
EXTENDS FundMovement, FundSecurity

CONSTANTS
  NDeposits,
  DepositAmounts,
  References         \* transaction references

Deposits == 1 .. NDeposits

ASSUME DepositAssumption ==
  /\ NDeposits \in Nat
  /\ DepositAmounts \subseteq Nat \ {0}

VARIABLE deposits

NoDeposit == [state |-> "none"]
DepositRecords ==
  [state : {"pending", "draft", "confirmed"}, account : Accounts,
   amount : DepositAmounts, reference : References]

(* The database's UNIQUE(fund_account_id, transaction_reference).          *)
Unique(i, account, reference) ==
  \A j \in Deposits \ {i} : deposits[j] # NoDeposit =>
    ~(deposits[j].account = account /\ deposits[j].reference = reference)

InsertDeposit(i, state, account, amount, reference) ==
  /\ deposits[i] = NoDeposit
  /\ deposits' = [deposits EXCEPT ![i] = [state |-> state, account |-> account,
                                          amount |-> amount, reference |-> reference]]
  /\ UNCHANGED moves

(* create(), by finance (draft) or from an email (pending).                *)
CreateDeposit(i, state, account, amount, reference) ==
  /\ Unique(i, account, reference)
  /\ InsertDeposit(i, state, account, amount, reference)

KeyInDeposit(u, i, account, amount, reference) ==
  /\ HasGroup(u, "finance")
  /\ CreateDeposit(i, "draft", account, amount, reference)

(* _try_import() searches the deposits of all accounts for the reference.  *)
Referenced(reference) ==
  \E i \in Deposits : deposits[i] # NoDeposit /\ deposits[i].reference = reference

(* What an email becomes, if its reference is new.  Here the search and    *)
(* the create are one step; BankEmail has them apart, since two emails may *)
(* be processed at the same time.                                          *)
EmailDeposit(i, account, amount, reference) ==
  /\ ~Referenced(reference)
  /\ CreateDeposit(i, "pending", account, amount, reference)

(* The form view leaves a draft deposit editable.                          *)
EditDeposit(u, i, account, amount, reference) ==
  /\ HasGroup(u, "finance")
  /\ deposits[i].state = "draft"
  /\ Unique(i, account, reference)
  /\ deposits' = [deposits EXCEPT ![i].account = account, ![i].amount = amount,
                                  ![i].reference = reference]
  /\ UNCHANGED moves

(* action_verify() *)
ActionVerify(u, i) ==
  /\ HasGroup(u, "finance")
  /\ deposits[i].state = "pending"
  /\ deposits' = [deposits EXCEPT ![i].state = "draft"]
  /\ UNCHANGED moves

(* action_confirm() *)
ActionConfirm(u, i) ==
  LET after == Post(moves, "incoming", {deposits[i].account}, deposits[i].amount)
  IN  /\ HasGroup(u, "finance")
      /\ deposits[i].state = "draft"
      /\ WithinBound(after)
      /\ moves' = after
      /\ deposits' = [deposits EXCEPT ![i].state = "confirmed"]

(* What happens to deposits. *)
DepositAction(u, i) ==
  \/ \E a \in Accounts, amount \in DepositAmounts, ref \in References :
       \/ KeyInDeposit(u, i, a, amount, ref)
       \/ EmailDeposit(i, a, amount, ref)
       \/ EditDeposit(u, i, a, amount, ref)
  \/ ActionVerify(u, i)
  \/ ActionConfirm(u, i)

=============================================================================
