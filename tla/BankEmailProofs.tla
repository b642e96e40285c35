--------------------------- MODULE BankEmailProofs ---------------------------
(***************************************************************************)
(* The mailbox: emails and the deposits made of them match, however the    *)
(* gateway's and the users' transactions overlap.                          *)
(***************************************************************************)
EXTENDS BankEmail, SumsProofs, FiniteSetTheorems

-----------------------------------------------------------------------------

(* The first of some accounts is one of them. *)
LEMMA FirstIsOne ==
  ASSUME NEW accounts \in SUBSET Accounts, accounts # {}
  PROVE  FirstOf(accounts) \in Accounts
<1>1. accounts \subseteq Nat
  BY LedgerAssumption DEF Accounts
<1>2. PICK a \in accounts : \A other \in accounts : a <= other
  BY <1>1, LeastNatural
<1>3. FirstOf(accounts) \in accounts
  BY <1>2 DEF FirstOf
<1>4. QED
  BY <1>3

(* An email is routed to an account, or to none. *)
LEMMA GuessType ==
  ASSUME NEW m \in Messages
  PROVE  GuessAccount(m) \in Accounts \cup {NoAccount}
BY FirstIsOne DEF GuessAccount

-----------------------------------------------------------------------------
(* The inductive invariant: what a transaction is to write, it decided on  *)
(* a message that had no record, or a parsed one; and an imported email    *)
(* keeps its deposit, so that a new deposit is of no other email.          *)

WritesOf(t) ==
  /\ t.before = NoEmail \/ t.before.state = "parsed"
  /\ t.after.deposit = NoDepositId
  /\ t.after.state = "imported" => t.after.account # NoAccount

EmailInv ==
  /\ EmailTypeOK
  /\ DOMAIN tx = Workers
  /\ \A w \in Workers : tx[w] # Idle => WritesOf(tx[w])
  /\ EmailsMatchDeposits
  /\ \A m \in Messages : Imported(m) => deposits[emails[m].deposit] # NoDeposit

-----------------------------------------------------------------------------
(* The steps. *)

(* What is to become of an email is a record, without a deposit yet, and   *)
(* one is imported only into an account.                                   *)
LEMMA TryImportType ==
  ASSUME NEW m \in Messages, NEW account \in Accounts \cup {NoAccount}
  PROVE  LET e == TryImport(m, account)
         IN  /\ e \in EmailRecords
             /\ e.deposit = NoDepositId
             /\ e.state = "imported" => e.account # NoAccount
<1> DEFINE target == IF account # NoAccount THEN account ELSE GuessAccount(m)
<1>1. target \in Accounts \cup {NoAccount}
  BY GuessType
<1> HIDE DEF target
<1>2. \/ TryImport(m, account) = Email("duplicate", account)
      \/ TryImport(m, account) = Email("parsed", NoAccount)
      \/ TryImport(m, account) = Email("imported", target) /\ target # NoAccount
  BY DEF TryImport, target
<1>3. QED
  BY <1>1, <1>2 DEF Email, EmailRecords

(* A transaction that begins. *)
LEMMA Begins ==
  ASSUME EmailInv, NEW w \in Workers, NEW m \in Messages, NEW e \in EmailRecords,
         Begin(w, m, e),
         emails[m] = NoEmail \/ emails[m].state = "parsed",
         e.deposit = NoDepositId, e.state = "imported" => e.account # NoAccount
  PROVE  EmailInv'
<1>1. UNCHANGED <<emails, handled, deposits, moves>>
  BY DEF Begin
<1>2. tx' = [tx EXCEPT ![w] = [message |-> m, before |-> emails[m], after |-> e]]
  BY DEF Begin
<1>3. emails[m] \in EmailRecords \cup {NoEmail}
  BY DEF EmailInv, EmailTypeOK
<1>4. DOMAIN tx' = Workers
  BY <1>2 DEF EmailInv
<1>5. ASSUME NEW v \in Workers, tx'[v] # Idle
      PROVE  /\ tx'[v] \in [message : Messages, before : EmailRecords \cup {NoEmail},
                            after : EmailRecords]
             /\ WritesOf(tx'[v])
  <2>1. CASE v = w
    <3>1. tx'[v] = [message |-> m, before |-> emails[m], after |-> e]
      BY <1>2, <2>1 DEF EmailInv
    <3>2. QED
      BY <1>3, <3>1 DEF WritesOf
  <2>2. CASE v # w
    <3>1. tx'[v] = tx[v]
      BY <1>2, <2>2 DEF EmailInv
    <3>2. QED
      BY <1>5, <3>1 DEF EmailInv, EmailTypeOK
  <2>3. QED
    BY <2>1, <2>2
<1>6. EmailTypeOK'
  BY <1>1, <1>5 DEF EmailInv, EmailTypeOK
<1>7. EmailsMatchDeposits'
  BY <1>1 DEF EmailInv, EmailsMatchDeposits, Imported
<1>8. QED
  BY <1>1, <1>4, <1>5, <1>6, <1>7 DEF EmailInv, Imported

(* A transaction that ends leaves the others as they are.                  *)
LEMMA Ends ==
  ASSUME EmailInv, NEW w \in Workers, tx[w] # Idle,
         tx' = [tx EXCEPT ![w] = Idle], handled' = handled \cup {tx[w].message}
  PROVE  /\ DOMAIN tx' = Workers
         /\ handled' \subseteq Messages
         /\ \A v \in Workers : tx'[v] # Idle =>
              /\ tx'[v] \in [message : Messages, before : EmailRecords \cup {NoEmail},
                             after : EmailRecords]
              /\ WritesOf(tx'[v])
<1>1. tx[w].message \in Messages
  BY DEF EmailInv, EmailTypeOK
<1>2. DOMAIN tx' = Workers /\ handled' \subseteq Messages
  BY <1>1 DEF EmailInv, EmailTypeOK
<1>3. \A v \in Workers : tx'[v] = IF v = w THEN Idle ELSE tx[v]
  BY DEF EmailInv
<1>4. QED
  BY <1>2, <1>3 DEF EmailInv, EmailTypeOK

(* What one more line leaves is a ledger. *)
LEMMA LineType ==
  ASSUME NEW m \in Ledgers, NEW type \in MoveTypes, NEW places, NEW amount \in Nat
  PROVE  Post(m, type, places, amount) \in Ledgers
BY DEF Post, Ledgers

(* What finance does with deposits: none comes to await verification, none *)
(* that does changes, and none disappears.                                 *)
LEMMA FinanceEffect ==
  ASSUME EmailTypeOK, NEW u \in Users, FinanceStep(u)
  PROVE  /\ deposits' \in [Deposits -> DepositRecords \cup {NoDeposit}]
         /\ moves' \in Ledgers
         /\ \A i \in Deposits : /\ deposits'[i].state = "pending" => deposits'[i] = deposits[i]
                                /\ deposits[i] # NoDeposit => deposits'[i] # NoDeposit
<1>1. /\ deposits \in [Deposits -> DepositRecords \cup {NoDeposit}]
      /\ moves \in Ledgers
      /\ NoDeposit \notin DepositRecords
      /\ \A d \in DepositRecords \cup {NoDeposit} :
           d.state \in {"pending", "draft"} => d \in DepositRecords
  BY DEF EmailTypeOK, DepositRecords, NoDeposit
<1>2. ASSUME NEW i \in Deposits, NEW d \in DepositRecords, d.state # "pending",
             deposits' = [deposits EXCEPT ![i] = d]
      PROVE  /\ deposits' \in [Deposits -> DepositRecords \cup {NoDeposit}]
             /\ \A j \in Deposits : /\ deposits'[j].state = "pending" => deposits'[j] = deposits[j]
                                    /\ deposits[j] # NoDeposit => deposits'[j] # NoDeposit
  BY <1>1, <1>2
<1>3. ASSUME NEW a \in Accounts, NEW amount \in DepositAmounts, NEW ref \in References,
             NEW i \in Deposits, KeyInDeposit(u, i, a, amount, ref)
      PROVE  /\ deposits' \in [Deposits -> DepositRecords \cup {NoDeposit}]
             /\ moves' \in Ledgers
             /\ \A j \in Deposits : /\ deposits'[j].state = "pending" => deposits'[j] = deposits[j]
                                    /\ deposits[j] # NoDeposit => deposits'[j] # NoDeposit
  <2> DEFINE d == [state |-> "draft", account |-> a, amount |-> amount, reference |-> ref]
  <2>1. deposits' = [deposits EXCEPT ![i] = d] /\ moves' = moves
    BY <1>3 DEF KeyInDeposit, CreateDeposit, InsertDeposit
  <2>2. d \in DepositRecords /\ d.state # "pending"
    BY DEF DepositRecords
  <2> HIDE DEF d
  <2>3. QED
    BY <1>1, <1>2, <2>1, <2>2
<1>4. ASSUME NEW a \in Accounts, NEW amount \in DepositAmounts, NEW ref \in References,
             NEW i \in Deposits, EditDeposit(u, i, a, amount, ref)
      PROVE  /\ deposits' \in [Deposits -> DepositRecords \cup {NoDeposit}]
             /\ moves' \in Ledgers
             /\ \A j \in Deposits : /\ deposits'[j].state = "pending" => deposits'[j] = deposits[j]
                                    /\ deposits[j] # NoDeposit => deposits'[j] # NoDeposit
  <2> DEFINE d == [deposits[i] EXCEPT !.account = a, !.amount = amount, !.reference = ref]
  <2>1. deposits' = [deposits EXCEPT ![i] = d] /\ moves' = moves
    BY <1>4 DEF EditDeposit
  <2>2. deposits[i] \in DepositRecords /\ deposits[i].state = "draft"
    BY <1>1, <1>4 DEF EditDeposit
  <2>3. d \in DepositRecords /\ d.state # "pending"
    BY <2>2 DEF DepositRecords
  <2> HIDE DEF d
  <2>4. QED
    BY <1>1, <1>2, <2>1, <2>3
<1>5. ASSUME NEW i \in Deposits, ActionVerify(u, i)
      PROVE  /\ deposits' \in [Deposits -> DepositRecords \cup {NoDeposit}]
             /\ moves' \in Ledgers
             /\ \A j \in Deposits : /\ deposits'[j].state = "pending" => deposits'[j] = deposits[j]
                                    /\ deposits[j] # NoDeposit => deposits'[j] # NoDeposit
  <2> DEFINE d == [deposits[i] EXCEPT !.state = "draft"]
  <2>1. deposits' = [deposits EXCEPT ![i] = d] /\ moves' = moves
    BY <1>5 DEF ActionVerify
  <2>2. deposits[i] \in DepositRecords
    BY <1>1, <1>5 DEF ActionVerify
  <2>3. d \in DepositRecords /\ d.state # "pending"
    BY <2>2 DEF DepositRecords
  <2> HIDE DEF d
  <2>4. QED
    BY <1>1, <1>2, <2>1, <2>3
<1>6. ASSUME NEW i \in Deposits, ActionConfirm(u, i)
      PROVE  /\ deposits' \in [Deposits -> DepositRecords \cup {NoDeposit}]
             /\ moves' \in Ledgers
             /\ \A j \in Deposits : /\ deposits'[j].state = "pending" => deposits'[j] = deposits[j]
                                    /\ deposits[j] # NoDeposit => deposits'[j] # NoDeposit
  <2> DEFINE d == [deposits[i] EXCEPT !.state = "confirmed"]
  <2>1. deposits' = [deposits EXCEPT ![i] = d]
    BY <1>6 DEF ActionConfirm
  <2>2. deposits[i] \in DepositRecords
    BY <1>1, <1>6 DEF ActionConfirm
  <2>3. d \in DepositRecords /\ d.state # "pending"
    BY <2>2 DEF DepositRecords
  <2> HIDE DEF d
  <2>4. deposits[i].amount \in Nat
    BY <2>2, DepositAssumption DEF DepositRecords
  <2>5. moves' = Post(moves, "incoming", {deposits[i].account}, deposits[i].amount)
    BY <1>6 DEF ActionConfirm
  <2>6. moves' \in Ledgers
    BY <1>1, <2>4, <2>5, LineType DEF MoveTypes
  <2>7. QED
    BY <1>2, <2>1, <2>3, <2>6
<1>7. QED
  BY <1>3, <1>4, <1>5, <1>6 DEF FinanceStep, NewDeposit

(* A commit writes one email, which was not imported before.  If it is     *)
(* imported now, a deposit that was not there says what the email says.    *)
LEMMA CommitEffect ==
  ASSUME EmailInv, NEW w \in Workers, Commit(w)
  PROVE  \E m \in Messages, e \in EmailRecords :
           /\ emails' = [emails EXCEPT ![m] = e]
           /\ emails[m] = NoEmail \/ emails[m].state = "parsed"
           /\ \/ /\ e.state # "imported" /\ e.deposit = NoDepositId
                 /\ UNCHANGED <<deposits, moves>>
              \/ \E i \in Deposits :
                   /\ e.state = "imported" /\ e.deposit = i
                   /\ e.account \in Accounts /\ Alert[m].amount \in DepositAmounts
                   /\ CreateDeposit(i, "pending", e.account, Alert[m].amount, Alert[m].reference)
<1> DEFINE m == tx[w].message
           after == tx[w].after
<1>1. /\ tx[w] \in [message : Messages, before : EmailRecords \cup {NoEmail},
                    after : EmailRecords]
      /\ WritesOf(tx[w])
  BY DEF EmailInv, EmailTypeOK, Commit
<1>2. m \in Messages /\ after \in EmailRecords /\ after.deposit = NoDepositId
  BY <1>1 DEF WritesOf
<1>3. emails[m] = NoEmail \/ emails[m].state = "parsed"
  BY <1>1 DEF Commit, Overtaken, WritesOf
<1>4. CASE /\ after.state # "imported"
           /\ emails' = [emails EXCEPT ![m] = after]
           /\ UNCHANGED <<deposits, moves>>
  BY <1>2, <1>3, <1>4
<1>5. ASSUME after.state = "imported", NEW i \in NewDeposit,
             InsertDeposit(i, "pending", after.account, Alert[m].amount, Alert[m].reference),
             emails' = [emails EXCEPT ![m] = [after EXCEPT !.deposit = i]]
      PROVE  \E e \in EmailRecords :
               /\ emails' = [emails EXCEPT ![m] = e]
               /\ \E j \in Deposits :
                    /\ e.state = "imported" /\ e.deposit = j
                    /\ e.account \in Accounts /\ Alert[m].amount \in DepositAmounts
                    /\ CreateDeposit(j, "pending", e.account, Alert[m].amount, Alert[m].reference)
  <2> DEFINE e == [after EXCEPT !.deposit = i]
  <2>1. i \in Deposits
    BY DEF NewDeposit
  <2>2. /\ e \in EmailRecords
        /\ e.state = "imported" /\ e.deposit = i /\ e.account = after.account
    BY <1>2, <1>5, <2>1 DEF EmailRecords
  <2>3. e.account \in Accounts
    BY <1>1, <1>2, <1>5, <2>2 DEF WritesOf, EmailRecords
  <2>4. /\ Alert[m].amount > 0
        /\ Unique(0, after.account, Alert[m].reference)
    BY <1>5 DEF Commit, BadDeposit
  <2>5. Alert[m].amount \in DepositAmounts
    BY <1>2, <2>4, AlertAssumption, DepositAssumption
  <2>6. 0 \notin Deposits
    BY DepositAssumption DEF Deposits
  <2>7. Unique(i, after.account, Alert[m].reference)
    BY <2>4, <2>6 DEF Unique
  <2>8. CreateDeposit(i, "pending", e.account, Alert[m].amount, Alert[m].reference)
    BY <1>5, <2>2, <2>7 DEF CreateDeposit
  <2> HIDE DEF e
  <2>9. emails' = [emails EXCEPT ![m] = e]
    BY <1>5 DEF e
  <2>10. QED
    BY <2>1, <2>2, <2>3, <2>5, <2>8, <2>9
<1>6. \/ /\ after.state # "imported"
         /\ emails' = [emails EXCEPT ![m] = after]
         /\ UNCHANGED <<deposits, moves>>
      \/ /\ after.state = "imported"
         /\ \E i \in NewDeposit :
              /\ InsertDeposit(i, "pending", after.account, Alert[m].amount, Alert[m].reference)
              /\ emails' = [emails EXCEPT ![m] = [after EXCEPT !.deposit = i]]
  BY DEF Commit
<1> HIDE DEF m, after
<1>7. QED
  BY <1>2, <1>3, <1>4, <1>5, <1>6

(* A commit. *)
LEMMA Commits ==
  ASSUME EmailInv, NEW w \in Workers, Commit(w)
  PROVE  EmailInv'
<1>1. PICK m \in Messages, e \in EmailRecords :
        /\ emails' = [emails EXCEPT ![m] = e]
        /\ emails[m] = NoEmail \/ emails[m].state = "parsed"
        /\ \/ /\ e.state # "imported" /\ e.deposit = NoDepositId
              /\ UNCHANGED <<deposits, moves>>
           \/ \E i \in Deposits :
                /\ e.state = "imported" /\ e.deposit = i
                /\ e.account \in Accounts /\ Alert[m].amount \in DepositAmounts
                /\ CreateDeposit(i, "pending", e.account, Alert[m].amount, Alert[m].reference)
  BY CommitEffect
<1>2. /\ DOMAIN tx' = Workers
      /\ handled' \subseteq Messages
      /\ \A v \in Workers : tx'[v] # Idle =>
           /\ tx'[v] \in [message : Messages, before : EmailRecords \cup {NoEmail},
                          after : EmailRecords]
           /\ WritesOf(tx'[v])
  BY Ends DEF Commit
<1>3. /\ emails \in [Messages -> EmailRecords \cup {NoEmail}]
      /\ deposits \in [Deposits -> DepositRecords \cup {NoDeposit}]
      /\ moves \in Ledgers
  BY DEF EmailInv, EmailTypeOK
<1>4. /\ emails'[m] = e
      /\ \A n \in Messages \ {m} : emails'[n] = emails[n]
      /\ emails' \in [Messages -> EmailRecords \cup {NoEmail}]
      /\ ~Imported(m)
  BY <1>1, <1>3 DEF Imported, NoEmail
<1>5. \A n \in Messages : Imported(n) =>
        emails[n].deposit \in Deposits /\ deposits[emails[n].deposit] # NoDeposit
  <2>1. TAKE n \in Messages
  <2>2. HAVE Imported(n)
  <2>3. emails[n] \in EmailRecords
    BY <1>3, <2>2 DEF Imported, NoEmail
  <2>4. emails[n].deposit # NoDepositId
    BY <2>2, <2>3 DEF EmailInv, EmailsMatchDeposits, Imported, NoEmail
  <2>5. QED
    BY <2>2, <2>3, <2>4 DEF EmailInv, EmailRecords
<1>6. CASE /\ e.state # "imported" /\ e.deposit = NoDepositId
           /\ UNCHANGED <<deposits, moves>>
  <2>1. ~Imported(m)' /\ \A n \in Messages : Imported(n)' <=> Imported(n)
    BY <1>4, <1>6 DEF Imported
  <2>2. EmailTypeOK'
    BY <1>2, <1>3, <1>4, <1>6 DEF EmailTypeOK
  <2>3. \A n \in Messages : emails'[n] # NoEmail =>
          (emails'[n].state = "imported" <=> emails'[n].deposit # NoDepositId)
    BY <1>4, <1>6 DEF EmailInv, EmailsMatchDeposits
  <2>4. \A n \in Messages : Imported(n) => emails'[n] = emails[n]
    BY <1>4
  <2>5. EmailsMatchDeposits'
    BY <1>6, <2>1, <2>3, <2>4 DEF EmailInv, EmailsMatchDeposits
  <2>6. QED
    BY <1>2, <1>6, <2>1, <2>2, <2>4, <2>5 DEF EmailInv
<1>7. ASSUME NEW i \in Deposits, e.state = "imported", e.deposit = i,
             e.account \in Accounts, Alert[m].amount \in DepositAmounts,
             CreateDeposit(i, "pending", e.account, Alert[m].amount, Alert[m].reference)
      PROVE  EmailInv'
  <2> DEFINE d == [state |-> "pending", account |-> e.account,
                   amount |-> Alert[m].amount, reference |-> Alert[m].reference]
  <2>1. /\ deposits[i] = NoDeposit /\ moves' = moves
        /\ deposits' = [deposits EXCEPT ![i] = d]
    BY <1>7 DEF CreateDeposit, InsertDeposit
  <2>2. d \in DepositRecords /\ d # NoDeposit
    BY <1>7, AlertAssumption DEF DepositRecords, NoDeposit
  <2>3. /\ deposits'[i] = d
        /\ \A j \in Deposits \ {i} : deposits'[j] = deposits[j]
        /\ deposits' \in [Deposits -> DepositRecords \cup {NoDeposit}]
    BY <1>3, <2>1, <2>2
  <2>4. EmailTypeOK'
    BY <1>2, <1>3, <1>4, <2>1, <2>3 DEF EmailTypeOK
  <2>5. i # NoDepositId
    BY DepositAssumption DEF Deposits, NoDepositId
  <2>6. \A n \in Messages \ {m} : Imported(n)' => Imported(n) /\ emails'[n].deposit # i
    BY <1>4, <1>5, <2>1 DEF Imported
  <2>7. \A n \in Messages : Imported(n) => Imported(n)' /\ emails'[n] = emails[n] /\ n # m
    BY <1>4 DEF Imported
  <2>8. \A n \in Messages : emails'[n] # NoEmail =>
          (emails'[n].state = "imported" <=> emails'[n].deposit # NoDepositId)
    BY <1>4, <1>7, <2>5 DEF EmailInv, EmailsMatchDeposits
  <2>9. \A n, k \in Messages :
          Imported(n)' /\ Imported(k)' /\ emails'[n].deposit = emails'[k].deposit => n = k
    <3>1. TAKE n, k \in Messages
    <3>2. CASE n = m \/ k = m
      BY <1>4, <1>7, <2>6, <3>2
    <3>3. CASE n # m /\ k # m
      BY <1>4, <2>6, <3>3 DEF EmailInv, EmailsMatchDeposits
    <3>4. QED
      BY <3>2, <3>3
  <2>10. ASSUME NEW j \in Deposits, deposits'[j].state = "pending"
         PROVE  \E n \in Messages :
                  /\ Imported(n)' /\ emails'[n].deposit = j
                  /\ deposits'[j].account = emails'[n].account
                  /\ deposits'[j].amount = Alert[n].amount
                  /\ deposits'[j].reference = Alert[n].reference
    <3>1. CASE j = i
      BY <1>4, <1>7, <2>3, <3>1 DEF Imported
    <3>2. CASE j # i
      <4>1. deposits'[j] = deposits[j]
        BY <2>3, <3>2
      <4>2. PICK n \in Messages :
              /\ Imported(n) /\ emails[n].deposit = j
              /\ deposits[j].account = emails[n].account
              /\ deposits[j].amount = Alert[n].amount
              /\ deposits[j].reference = Alert[n].reference
        BY <2>10, <4>1 DEF EmailInv, EmailsMatchDeposits
      <4>3. QED
        BY <2>7, <4>1, <4>2
    <3>3. QED
      BY <3>1, <3>2
  <2> HIDE DEF d
  <2>11. EmailsMatchDeposits'
    BY <2>8, <2>9, <2>10 DEF EmailsMatchDeposits
  <2>12. \A n \in Messages : Imported(n)' => deposits'[emails'[n].deposit] # NoDeposit
    BY <1>4, <1>5, <1>7, <2>2, <2>3, <2>6
  <2>13. QED
    BY <1>2, <2>4, <2>11, <2>12 DEF EmailInv
<1>8. QED
  BY <1>1, <1>6, <1>7

(* A step of the mailbox. *)
LEMMA EmailStep ==
  ASSUME EmailInv, [EmailNext]_emailVars
  PROVE  EmailInv'
<1>1. /\ emails \in [Messages -> EmailRecords \cup {NoEmail}]
      /\ \A m \in Messages : emails[m].state = "parsed" => emails[m] \in EmailRecords
  BY DEF EmailInv, EmailTypeOK, NoEmail
<1>2. ASSUME NEW w \in Workers, NEW m \in Messages, MessageNew(w, m)
      PROVE  EmailInv'
  <2> DEFINE e == ReceiveEmail(m)
  <2>1. e = TryImport(m, NoAccount) \/ e = Email("failed", NoAccount)
    BY DEF ReceiveEmail
  <2>2. /\ e \in EmailRecords /\ e.deposit = NoDepositId
        /\ e.state = "imported" => e.account # NoAccount
    <3>1. CASE e = TryImport(m, NoAccount)
      BY <3>1, TryImportType
    <3>2. CASE e = Email("failed", NoAccount)
      BY <3>2 DEF Email, EmailRecords
    <3>3. QED
      BY <2>1, <3>1, <3>2
  <2>3. emails[m] = NoEmail /\ Begin(w, m, e)
    BY <1>2 DEF MessageNew
  <2> HIDE DEF e
  <2>4. QED
    BY <2>2, <2>3, Begins
<1>3. ASSUME NEW u \in Users, NEW w \in Workers, IngestSample(u, w)
      PROVE  EmailInv'
  <2> DEFINE n == Cardinality({m \in Messages : emails[m] # NoEmail}) + 1
  <2>1. n <= NSamples /\ MessageNew(w, NMessages - NSamples + n)
    BY <1>3 DEF IngestSample
  <2>2. n \in Nat \ {0}
    <3>1. IsFiniteSet(Messages)
      BY AlertAssumption, FS_Interval DEF Messages
    <3>2. IsFiniteSet({m \in Messages : emails[m] # NoEmail})
      BY <3>1, FS_Subset
    <3>3. QED
      BY <3>2, FS_CardinalityType
  <2> HIDE DEF n
  <2>3. NMessages - NSamples + n \in Messages
    BY <2>1, <2>2, AlertAssumption DEF Messages
  <2>4. QED
    BY <1>2, <2>1, <2>3
<1>4. ASSUME NEW u \in Users, NEW w \in Workers, NEW m \in Messages, ActionImport(u, w, m)
      PROVE  EmailInv'
  <2>1. /\ emails[m].state = "parsed"
        /\ Begin(w, m, TryImport(m, emails[m].account))
    BY <1>4 DEF ActionImport
  <2>2. emails[m].account \in Accounts \cup {NoAccount}
    BY <1>1, <2>1 DEF EmailRecords
  <2>3. QED
    BY <2>1, <2>2, TryImportType, Begins
<1>5. ASSUME NEW w \in Workers, Abort(w) PROVE EmailInv'
  <2>1. UNCHANGED <<emails, deposits, moves>>
    BY <1>5 DEF Abort
  <2>2. EmailTypeOK' /\ DOMAIN tx' = Workers /\ \A v \in Workers : tx'[v] # Idle => WritesOf(tx'[v])
    BY <1>5, <2>1, Ends DEF Abort, EmailTypeOK, EmailInv
  <2>3. QED
    BY <2>1, <2>2 DEF EmailInv, EmailsMatchDeposits, Imported
<1>6. ASSUME NEW u \in Users, NEW m \in Messages, NEW a \in Accounts, AssignAccount(u, m, a)
      PROVE  EmailInv'
  <2>1. /\ emails[m].state = "parsed" /\ emails[m] \in EmailRecords
        /\ emails' = [emails EXCEPT ![m].account = a]
        /\ UNCHANGED <<handled, tx, deposits, moves>>
    BY <1>1, <1>6 DEF AssignAccount
  <2>2. /\ emails'[m] \in EmailRecords
        /\ emails'[m].state = "parsed" /\ emails'[m].deposit = emails[m].deposit
        /\ \A n \in Messages \ {m} : emails'[n] = emails[n]
        /\ emails' \in [Messages -> EmailRecords \cup {NoEmail}]
    BY <1>1, <2>1 DEF EmailRecords
  <2>3. \A n \in Messages :
          /\ Imported(n)' <=> Imported(n)
          /\ Imported(n) => emails'[n] = emails[n]
    BY <2>1, <2>2 DEF Imported
  <2>4. \A n \in Messages : emails'[n] # NoEmail =>
          (emails'[n].state = "imported" <=> emails'[n].deposit # NoDepositId)
    BY <2>1, <2>2 DEF EmailInv, EmailsMatchDeposits, NoEmail
  <2>5. EmailsMatchDeposits'
    <3>1. deposits' = deposits
      BY <2>1
    <3>2. \A n, k \in Messages :
            Imported(n)' /\ Imported(k)' /\ emails'[n].deposit = emails'[k].deposit => n = k
      BY <2>3 DEF EmailInv, EmailsMatchDeposits
    <3>3. ASSUME NEW i \in Deposits, deposits[i].state = "pending"
          PROVE  \E n \in Messages :
                   /\ Imported(n)' /\ emails'[n].deposit = i
                   /\ deposits[i].account = emails'[n].account
                   /\ deposits[i].amount = Alert[n].amount
                   /\ deposits[i].reference = Alert[n].reference
      BY <2>3, <3>3 DEF EmailInv, EmailsMatchDeposits
    <3>4. QED
      BY <2>4, <3>1, <3>2, <3>3 DEF EmailsMatchDeposits
  <2>6. EmailTypeOK'
    BY <2>1, <2>2 DEF EmailInv, EmailTypeOK
  <2>7. QED
    BY <2>1, <2>3, <2>5, <2>6 DEF EmailInv
<1>7. ASSUME NEW u \in Users, FinanceStep(u) PROVE EmailInv'
  <2>1. /\ deposits' \in [Deposits -> DepositRecords \cup {NoDeposit}]
        /\ moves' \in Ledgers
        /\ \A i \in Deposits :
             /\ deposits'[i].state = "pending" => deposits'[i] = deposits[i]
             /\ deposits[i] # NoDeposit => deposits'[i] # NoDeposit
    BY <1>7, FinanceEffect DEF EmailInv
  <2>2. UNCHANGED <<emails, handled, tx>>
    BY <1>7 DEF FinanceStep
  <2>3. EmailTypeOK'
    BY <2>1, <2>2 DEF EmailInv, EmailTypeOK
  <2>4. EmailsMatchDeposits'
    BY <2>1, <2>2 DEF EmailInv, EmailsMatchDeposits, Imported
  <2>5. \A m \in Messages : Imported(m) => emails[m].deposit \in Deposits
    BY <1>1 DEF EmailInv, EmailsMatchDeposits, Imported, EmailRecords, NoEmail
  <2>6. QED
    BY <2>1, <2>2, <2>3, <2>4, <2>5 DEF EmailInv, Imported
<1>8. CASE UNCHANGED emailVars
  BY <1>8 DEF emailVars, EmailInv, EmailTypeOK, EmailsMatchDeposits, Imported
<1>9. \A m \in 1 .. (NMessages - NSamples) : m \in Messages
  BY AlertAssumption DEF Messages
<1>10. QED
  BY <1>2, <1>3, <1>4, <1>5, <1>6, <1>7, <1>8, <1>9, Commits DEF EmailNext

LEMMA EmailInvariant == EmailSpec => []EmailInv
<1>1. EmailInit => EmailInv
  BY DEF EmailInit, EmailInv, EmailTypeOK, EmailsMatchDeposits, Imported,
         EmptyLedger, Ledgers, NoEmail, NoDeposit
<1>2. EmailInv /\ [EmailNext]_emailVars => EmailInv'
  BY EmailStep
<1>3. QED
  BY <1>1, <1>2, PTL DEF EmailSpec

(* However the gateway's deliveries and redeliveries, the imports by hand  *)
(* and the work of finance on the deposits overlap: an imported email has  *)
(* a deposit of its own, no other email has one, and every deposit that    *)
(* awaits verification says what its email said.                           *)
THEOREM EmailsSafe == EmailSpec => [](EmailTypeOK /\ EmailsMatchDeposits)
<1>1. EmailInv => EmailTypeOK /\ EmailsMatchDeposits
  BY DEF EmailInv
<1>2. QED
  BY <1>1, EmailInvariant, PTL

(* What became of an email stands. *)
THEOREM EmailsStand == EmailSpec => EmailsFinal
<1>1. ASSUME EmailInv, [EmailNext]_emailVars, NEW m \in Messages,
             emails[m].state \in {"imported", "duplicate", "failed"}
      PROVE  emails'[m] = emails[m]
  <2>1. emails \in [Messages -> EmailRecords \cup {NoEmail}]
    BY <1>1 DEF EmailInv, EmailTypeOK
  <2>2. CASE \E w \in Workers : Commit(w)
    <3>1. PICK w \in Workers : Commit(w)
      BY <2>2
    <3>2. PICK n \in Messages, e \in EmailRecords :
            /\ emails' = [emails EXCEPT ![n] = e]
            /\ emails[n] = NoEmail \/ emails[n].state = "parsed"
      BY <1>1, <3>1, CommitEffect
    <3>3. n # m
      BY <1>1, <3>2 DEF NoEmail
    <3>4. QED
      BY <2>1, <3>2, <3>3
  <2>3. CASE \E u \in Users, n \in Messages, a \in Accounts : AssignAccount(u, n, a)
    BY <1>1, <2>1, <2>3 DEF AssignAccount
  <2>4. CASE emails' = emails
    BY <2>4
  <2>5. QED
    BY <1>1, <2>2, <2>3, <2>4
       DEF EmailNext, emailVars, MessageNew, IngestSample, ActionImport, Begin, Abort, FinanceStep
<1>2. EmailInv /\ [EmailNext]_emailVars =>
        [\A m \in Messages :
           emails[m].state \in {"imported", "duplicate", "failed"} => emails'[m] = emails[m]]_emailVars
  BY <1>1
<1>3. QED
  BY <1>2, EmailInvariant, PTL DEF EmailSpec, EmailsFinal

=============================================================================
