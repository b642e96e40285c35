------------------------------ MODULE BankEmail ------------------------------
(***************************************************************************)
(* nn.bank.email: the bank's credit alerts, received through the mail      *)
(* gateway, and the pending deposits made from them.                       *)
(*                                                                         *)
(* The gateway, the users who import by hand and the users who handle      *)
(* deposits run in database transactions of their own, under PostgreSQL's  *)
(* repeatable read: everything a call reads is read from the snapshot with *)
(* which it began, and at its end its writes stand unless they break a     *)
(* constraint or a row was written by another transaction meanwhile.       *)
(* Processing an email is therefore two steps, Begin and Commit or Abort;  *)
(* the other calls on deposits and emails are short, and one step each.    *)
(***************************************************************************)
EXTENDS IncomingFund, Sequences
LOCAL INSTANCE SequencesExt

CONSTANTS
  NMessages,      \* messages, numbered; the number stands for the Message-ID
  NSamples,       \* the last of them are those that "Ingest sample" makes up
  Alert,          \* Alert[m]: what _parse_bank_email() finds in message m
  AccountKey,     \* AccountKey[a]: digits of account_ref, <<>> for none
  AccountBank,    \* AccountBank[a]: bank_name of account a
  Workers         \* transactions that may run at the same time

Messages == 1 .. NMessages
NoBank == "no bank"
NoAccount == 0
NoDepositId == 0

ASSUME AlertAssumption ==
  /\ NMessages \in Nat /\ NSamples \in 0 .. NMessages
  /\ \A m \in Messages :
       /\ Alert[m].parses \in BOOLEAN
       /\ Alert[m].amount \in DepositAmounts \cup {0}
       /\ Alert[m].reference \in References
  /\ \A m \in (NMessages - NSamples + 1) .. NMessages : Alert[m].parses

VARIABLES
  emails,         \* emails[m]: the record of message m, or NoEmail
  handled,        \* the messages the gateway has handed over, and forgotten
  tx              \* tx[w]: the transaction of worker w, or Idle

emailVars == <<emails, handled, tx, deposits, moves>>

NoEmail == [state |-> "none"]
Email(state, account) == [state |-> state, account |-> account, deposit |-> NoDepositId]
EmailRecords ==
  [state : {"parsed", "imported", "duplicate", "failed"},
   account : Accounts \cup {NoAccount}, deposit : Deposits \cup {NoDepositId}]

Idle == [message |-> 0]

-----------------------------------------------------------------------------

FirstOf(accounts) == CHOOSE a \in accounts : \A other \in accounts : a <= other

(***************************************************************************)
(* _guess_account(): the first account, in the order of their names, whose *)
(* digits end the alert's account number; else the first of its bank.      *)
(***************************************************************************)
GuessAccount(m) ==
  LET byNumber == {a \in Accounts : /\ AccountKey[a] # <<>>
                                    /\ IsSuffix(AccountKey[a], Alert[m].digits)}
      byBank == {a \in Accounts : Alert[m].bank # NoBank /\ AccountBank[a] = Alert[m].bank}
  IN  CASE byNumber # {}                 -> FirstOf(byNumber)
        [] byNumber = {} /\ byBank # {}  -> FirstOf(byBank)
        [] OTHER                         -> NoAccount

(* Mutant: imports without an account to import into. *)
TryImport_Unrouted(m, account) ==
  IF Referenced(Alert[m].reference) THEN Email("duplicate", account)
  ELSE Email("imported", IF account # NoAccount THEN account ELSE GuessAccount(m))

(* _try_import(), as far as it reads: what is to become of message m, for  *)
(* which finance chose the account, or NoAccount.                          *)
TryImport(m, account) ==
  LET target == IF account # NoAccount THEN account ELSE GuessAccount(m)
  IN  CASE Referenced(Alert[m].reference) -> Email("duplicate", account)
        [] ~Referenced(Alert[m].reference) /\ target = NoAccount -> Email("parsed", NoAccount)
        [] OTHER -> Email("imported", target)

(* _receive_email() of a message that has no record yet. *)
ReceiveEmail(m) ==
  IF Alert[m].parses THEN TryImport(m, NoAccount) ELSE Email("failed", NoAccount)

Begin(w, m, after) ==
  /\ tx[w] = Idle
  /\ tx' = [tx EXCEPT ![w] = [message |-> m, before |-> emails[m], after |-> after]]
  /\ UNCHANGED <<emails, handled, deposits, moves>>

(* message_new(): the gateway delivers a message, for the first time or    *)
(* again.  One that has a record is skipped, which changes nothing.        *)
MessageNew(w, m) == emails[m] = NoEmail /\ Begin(w, m, ReceiveEmail(m))

(* action_ingest_sample(): makes up a message, numbered after the count of *)
(* the emails there are, and receives it.                                  *)
IngestSample(u, w) ==
  LET n == Cardinality({m \in Messages : emails[m] # NoEmail}) + 1
  IN  /\ CanCreate(u)
      /\ n <= NSamples
      /\ MessageNew(w, NMessages - NSamples + n)

(* The form view leaves the account of a parsed email editable.            *)
AssignAccount(u, m, a) ==
  /\ HasGroup(u, "finance")
  /\ emails[m].state = "parsed"
  /\ emails' = [emails EXCEPT ![m].account = a]
  /\ UNCHANGED <<handled, tx, deposits, moves>>

(* Mutant: does not look at the email's state. *)
ActionImport_AnyState(u, w, m) ==
  /\ HasGroup(u, "finance")
  /\ emails[m] # NoEmail
  /\ emails[m].account # NoAccount
  /\ Begin(w, m, TryImport(m, emails[m].account))

(* action_import() *)
ActionImport(u, w, m) ==
  /\ HasGroup(u, "finance")
  /\ emails[m].state = "parsed"
  /\ emails[m].account # NoAccount
  /\ Begin(w, m, TryImport(m, emails[m].account))

Overtaken_Never(t) == FALSE     \* mutant: the last writer wins

(* The row written was written by another transaction, which includes that *)
(* a record with this Message-ID appeared: UNIQUE(message_id).             *)
Overtaken(t) == emails[t.message] # t.before

(* The deposit breaks CHECK(amount > 0) or UNIQUE(fund_account_id,         *)
(* transaction_reference).                                                 *)
BadDeposit(t) ==
  /\ t.after.state = "imported"
  /\ \/ ~(Alert[t.message].amount > 0)
     \/ ~Unique(0, t.after.account, Alert[t.message].reference)

NewDeposit == {i \in Deposits : deposits[i] = NoDeposit /\ \A j \in 1 .. (i - 1) : deposits[j] # NoDeposit}

Commit(w) ==
  LET t == tx[w]
      alert == Alert[t.message]
  IN  /\ t # Idle
      /\ ~Overtaken(t)
      /\ ~BadDeposit(t)
      /\ \/ /\ t.after.state # "imported"
            /\ emails' = [emails EXCEPT ![t.message] = t.after]
            /\ UNCHANGED <<deposits, moves>>
         \/ /\ t.after.state = "imported"
            /\ \E i \in NewDeposit :
                 /\ InsertDeposit(i, "pending", t.after.account, alert.amount, alert.reference)
                 /\ emails' = [emails EXCEPT ![t.message] = [t.after EXCEPT !.deposit = i]]
      /\ handled' = handled \cup {t.message}
      /\ tx' = [tx EXCEPT ![w] = Idle]

(* An exception undoes the call, the record of the email included.  A      *)
(* deadlock or serialization failure is retried, which is a new Begin; a   *)
(* broken constraint is not.  Either way the gateway marks the message as  *)
(* seen.                                                                   *)
Abort(w) ==
  /\ tx[w] # Idle
  /\ Overtaken(tx[w]) \/ BadDeposit(tx[w])
  /\ handled' = handled \cup {tx[w].message}
  /\ tx' = [tx EXCEPT ![w] = Idle]
  /\ UNCHANGED <<emails, deposits, moves>>

(* What finance does with deposits meanwhile.                              *)
FinanceStep(u) ==
  /\ \/ \E a \in Accounts, amount \in DepositAmounts, ref \in References :
          \/ \E i \in NewDeposit : KeyInDeposit(u, i, a, amount, ref)
          \/ \E i \in Deposits : EditDeposit(u, i, a, amount, ref)
     \/ \E i \in Deposits : ActionVerify(u, i) \/ ActionConfirm(u, i)
  /\ UNCHANGED <<emails, handled, tx>>

EmailInit ==
  /\ moves = EmptyLedger
  /\ deposits = [i \in Deposits |-> NoDeposit]
  /\ emails = [m \in Messages |-> NoEmail]
  /\ handled = {}
  /\ tx = [w \in Workers |-> Idle]

EmailNext ==
  \/ \E w \in Workers :
       \/ \E m \in 1 .. (NMessages - NSamples) : MessageNew(w, m)
       \/ \E u \in Users : IngestSample(u, w) \/ \E m \in Messages : ActionImport(u, w, m)
       \/ Commit(w)
       \/ Abort(w)
  \/ \E u \in Users : \/ \E m \in Messages, a \in Accounts : AssignAccount(u, m, a)
                      \/ FinanceStep(u)

EmailSpec == EmailInit /\ [][EmailNext]_emailVars

-----------------------------------------------------------------------------
(* Properties. *)

Imported(m) == emails[m].state = "imported"

(* Every variable has its type. *)
EmailTypeOK ==
  /\ emails \in [Messages -> EmailRecords \cup {NoEmail}]
  /\ deposits \in [Deposits -> DepositRecords \cup {NoDeposit}]
  /\ moves \in Ledgers
  /\ handled \subseteq Messages
  /\ \A w \in Workers : tx[w] # Idle =>
       tx[w] \in [message : Messages, before : EmailRecords \cup {NoEmail}, after : EmailRecords]

(* Emails and the deposits made of them match one to one, however imports  *)
(* by the gateway and by several users overlap: an imported email has a    *)
(* deposit of its own, no other email has one, every deposit that awaits   *)
(* verification has its email, and it still says what the email said.      *)
EmailsMatchDeposits ==
  /\ \A m \in Messages : emails[m] # NoEmail =>
       (emails[m].state = "imported" <=> emails[m].deposit # NoDepositId)
  /\ \A m, n \in Messages :
       Imported(m) /\ Imported(n) /\ emails[m].deposit = emails[n].deposit => m = n
  /\ \A i \in Deposits : deposits[i].state = "pending" =>
       \E m \in Messages :
         /\ Imported(m)
         /\ emails[m].deposit = i
         /\ deposits[i].account = emails[m].account
         /\ deposits[i].amount = Alert[m].amount
         /\ deposits[i].reference = Alert[m].reference

(* What became of an email stands: neither a second delivery nor a late or *)
(* simultaneous import changes one that is imported, duplicate or failed.  *)
EmailsFinal ==
  [][\A m \in Messages :
       emails[m].state \in {"imported", "duplicate", "failed"} => emails'[m] = emails[m]]_emailVars

(* What the documentation says and the code does not do. *)

(* The docstring of the module: every email is recorded, those that cannot *)
(* be imported are flagged or logged, and none is dropped silently.        *)
EveryEmailRecorded == \A m \in handled : emails[m] # NoEmail

(* The same docstring: "duplicate transaction references are flagged"      *)
(* (bank_email.py:8).  Of several alerts of one credit one becomes a       *)
(* deposit, so no two deposits that await verification, in which nobody    *)
(* can have edited anything, have the same reference.                      *)
DuplicatesFlagged ==
  \A i, j \in Deposits :
    /\ deposits[i].state = "pending"
    /\ deposits[j].state = "pending"
    /\ deposits[i].reference = deposits[j].reference
    => i = j

=============================================================================
