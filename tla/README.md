# Fund management, specified in TLA+

A verification project for `addons/nn_fund_management`, the Odoo 17 module that
receives, allocates, requisitions, bills and transfers funds with an approval
workflow on top of an append-only ledger. The modules here are translated from
its Python sources and access rules; TLC checks them on small instances, and
TLAPS proves the main results for every value of the constants.

    tlc -config Accounts.cfg MCFundManagement      one run; Emails, EmailDropped and
                                                   SameCredit are of MCBankEmail,
                                                   Overlaps of MCTransactions, the
                                                   others likewise
    tlapm BucketProofs.tla                         the proofs of a module

## 1. The system

Money enters *fund accounts* as confirmed deposits, is *allocated* to *buckets*
(projects and expense heads), *transferred* between buckets, *requisitioned*
from a bucket, and *billed* against a requisition. Nothing stores a balance by
hand: every money event is an immutable line of `nn.fund.movement`, and balances
are sums of lines.

| Component | State | Operations | What makes it correct |
|---|---|---|---|
| Ledger (`fund_movement.py`) | the lines | `_post`; `write`, `unlink` raise | lines only accumulate |
| Balances (`fund_account.py`, `bucket_balance.py`, `project.py`, `expense_head.py`) | computed from the ledger | `_compute_balances`, `bucket_sums`, `_check_non_negative` | never negative; money is conserved |
| Approval rules (`approval_rule.py`) | rules with amount bands and levels, active or not | `_match_for`; configuration by administrators | the right chain for every request |
| Approval workflow (`approval_mixin.py`, `approval_line.py`) | per request: state, `posted`, history, to-dos | `action_submit`, `action_approve`, `action_reject`, `action_cancel`, `action_reset_to_draft` | decisions in order, by the right people, each with its ledger lines once |
| Allocations, transfers (`fund_allocation.py`, `fund_transfer.py`) | a request with amount and two ends | the hooks `_validate_submit`, `_post_on_submit/approve/reject/reverse` | a hold for every pending request, none for others |
| Requisitions (`fund_requisition.py`) | a request, its remaining billable amount | the hooks, `action_close` | the hold covers what may still be billed |
| Bills (`fund_bill.py`) | draft, posted, cancelled | `action_post`, `action_reverse`, `action_cancel` | never more than the requisition; spent is what posted bills say |
| Incoming funds (`incoming_fund.py`) | pending, draft, confirmed | create, `action_verify`, `action_confirm` | each deposit enters the ledger once |
| Bank emails (`bank_email.py`) | parsed, imported, duplicate, failed | `_receive_email`, `_try_import`, `action_import` | a transaction becomes one deposit |
| Security (`security/`) | groups, access rights, record rules | – | who may do what |
| Dashboard (`fund_dashboard.py`) | – | `_compute_kpis` and lists | its figures agree with the documents |
| Views, styles, seed data, deployment | – | display, installation | – |

**Interaction.** The three request models inherit `nn.approval.mixin` and give
it their hooks; the hooks post lines; stored balances are recomputed from the
lines and read by the next `_validate_submit`. Bills post lines on behalf of a
requisition and change its remaining billable amount; closing a requisition
reads that amount. Rules are looked up again at *every* step of a request. An
email becomes a pending deposit.

**Where it is hard.** Each call is one database transaction. What interleaves is
first of all whole calls: of several users, on several requests that compete for one
balance, with a request's second life after cancel and reset, with bills posted
and reversed around closing and cancelling, and with administrators changing the
rules that determine the chain of a pending request. Calls also overlap: Odoo
runs them under PostgreSQL's REPEATABLE READ, takes no lock on what it compares
with, and relies on two calls updating one row. Bank emails are delivered again,
routed to different accounts, and imported by the gateway and by hand at the same
time. The list of hazards, each at its line, is in `PROJECT.json`.

## 2. The modules

| Module | Models | State |
|---|---|---|
| `FundMovement` | ledger, balances, non-negativity | `moves` |
| `FundSecurity` | groups, access rights, record rules | – |
| `ApprovalRule` | rule matching and ranking, chains | – |
| `ApprovalMixin` | the workflow, one action per call | `docs`, `history`, `todo`, `active` |
| `FundAllocation`, `FundTransfer` | hooks of the two kinds, passed to the workflow | – |
| `FundRequisition` | hooks, remaining billable, `action_close` | `bills` |
| `FundBill` | the bills' actions | – |
| `IncomingFund` | the deposits' actions, with their uniqueness constraint | `deposits` |
| `FundManagement` | all of them together: `Init`, `Next`, fairness, the properties | – |
| `FundDashboard` | the dashboard's totals | – |
| `Treasury` | the abstract promise: money at places, free, held or spent | `free`, `held`, `spent`, `income` |
| `FundTreasury` | the refinement mapping from `FundManagement` to `Treasury` | – |
| `BankEmail` | the mailbox, composed with `IncomingFund`, in overlapping transactions | `emails`, `handled`, `tx` |
| `StoredRows` | which database rows a call updates | – |
| `Transactions` | `FundManagement` with one call that overlaps with others | the snapshot `xMoves`, `xDocs`, ..., `writes`, `stale`, `overlap` |
| `MCFundManagement`, `MCBankEmail`, `MCTransactions` | values for TLC | – |
| `Sums` | sums over documents, as a recursive function | – |
| `SumsProofs`, `FundManagementProofs`, `BucketProofs`, `TreasuryProofs`, `FundTreasuryProofs`, `ApprovalProofs`, `DashboardProofs`, `BankEmailProofs` | lemmas and theorems | – |

How state corresponds to the code:

* `moves[p][t]` is the total of the ledger lines of type `t` that refer to place
  `p`. The code only ever adds lines and only ever sums them by type, so the
  totals determine every balance. Places are numbered, accounts first. A line of
  an allocation refers to the account and to the bucket, as in `_post`.
* `docs[r]` is the record of a request: `state`, `amount`, its ends, who
  requested it, and the flag `posted`. `Kind[r]` says of which model it is.
  `history[r]` are its `nn.approval.line` records, `todo[r]` the users with a
  to-do activity on it, `active` the rules with `active = True`.
* Level `i` of a chain decides in state `StageStates[i]`. A request's chain is
  never stored: `Levels(r)` is computed from `active`, in the code and here.
* `bills[b]`, `deposits[i]` are the records of the two models, or the constants
  `NoBill`, `NoDeposit` before they exist.
* `emails[m]` is the `nn.bank.email` record of message `m`, or `NoEmail`. The
  number `m` stands for the Message-ID, so a redelivery is another attempt at
  the same `m`, and two alerts of one credit are two messages with one
  `reference`. `Alert[m]` is what the parser finds in the message.

How actions correspond: one action per public method and per kind of caller.
An exception undoes the transaction, so the conditions that
raise are guards; the order of statements within a call then does not show, only
its total effect. A call on several records is a sequence of steps. The hooks
are operators that give the ledger after their lines (`AllocationHold(r)`, ...);
the mixin's action gets them as arguments, as the Python class gets them by
inheritance. `action_cancel` is three actions, for an approved request, a
pending one and a draft.

**The constraint that does not run.** `_check_non_negative` is declared with
`@api.constrains("movement_ids")`. The framework runs a constraint after a
`create` or `write` on the constrained model that names one of its fields. A
line is created on `nn.fund.movement`, with the inverse field, and the stored
balances recomputed from it are not fields the constraint names, so it does not
run. No action is guarded by it. That account balances are never negative all the
same is proved; that bucket balances are not holds only without administrators.

**Overlapping calls.** In `FundManagement` a call is one step. `Transactions`
justifies this. One call at a time, the *slow* one, begins on a snapshot (`Start`),
reads and writes there while other calls run in the database (`Meanwhile`), and
ends: with `Commit` if none of the rows it updated was updated meanwhile, else with
`Abort`, after which the framework's retry is a new `Start`. That is REPEATABLE
READ, in which the first updater wins; reads are not watched. `StoredRows` says
which rows there are and which of them a step updates: those of the request, bill
or deposit it writes, and those of the accounts and buckets whose stored balances
its lines change. A line itself is inserted and conflicts with nothing.
`ActsAtomically` is that `Transactions`, with the snapshot hidden, implements
`FundManagement!Spec`: a committed call is a step that was possible at that moment.
It is not so by construction. A call may have read rows it does not
write; without the stored balance on an account's row, or without the stored
remaining billable amount on a requisition's, the property fails (the mutants show
it).

**Emails.** `BankEmail` has the same distinction for the mailbox, for any number
of workers: `MessageNew`, `IngestSample` and `ActionImport` begin a transaction,
decide what is to become of the message by what they read then, and `Commit` or
`Abort` ends it. It aborts if the email's row was written meanwhile, which includes
that a record with the same Message-ID appeared (`Overtaken`), or if the new deposit
breaks a constraint of the database (`BadDeposit`). Deposits are shared with
`IncomingFund`, whose actions finance performs meanwhile (`FinanceStep`).
`IncomingFund!EmailDeposit` is what an email becomes if it is processed on its own: it
searches the reference and creates the deposit in one step. In `BankEmail` the search
belongs to the beginning of a transaction and the creation to its end, which
makes a difference (`SameCredit`, below).

**The refinement.** `FundTreasury` maps, for a place `p`, `free[p]` to the unassigned
or available balance, `held[p]` to the account's hold or the bucket's two holds
together, `spent[p]` to what the bucket spent, and `income` to the confirmed
deposits. `MayUndo` is whether anybody is an administrator, since only they may
cancel what was approved. `ImplementsTreasury == T!Spec` then says that every call,
whatever lines it posts, does one of eight things to money, within what is free,
held or spent at that moment. `Quantities` are the amounts users enter and what
bills leave of them.

## 3. What TLC checks

| Run | Instance | Shows |
|---|---|---|
| `Accounts` | 2 allocations, 1 account, 1 bucket, 4 users; 2 rules archived and restored by an administrator, one for both amounts and a longer one, with a level twice, that outranks it for amount 2; 54,000 states | `TypeOK`; holds are covered (`AllocationHoldsCovered`), accounts solvent (`AccountsSolvent`), money conserved (`MoneyConserved`), through approval, cancellation, reset and a second life; whatever happens to the rules under way, a request gets to a later stage, to a decision and to its final effect only by a recorded decision of somebody entitled to it (`DecisionsRecorded`); `ImplementsTreasury` |
| `Buckets` | one unit of money, 2 buckets, an allocation, a transfer, a requisition, 2 bills, one user who may do everything; 100,000 states | `TransferHoldsCovered`; what a bucket spent is what the posted bills of its own requisitions say, also when a requisition is cancelled, reset, and approved at the other bucket around its bills (`SpentIsPostedBills`); `MoneyConserved` across reversals of every kind; `ImplementsTreasury` |
| `Requisitions` | allocation, requisition, 2 bills; 263,000 states | `RequisitionHoldsCovered`, `BilledWithinApproved`, and the dashboard's totals agree with the documents (`DashboardAgrees`) |
| `NoAdmin` | one request of each kind and a bill, 2 buckets, no administrator; 37,000 states | ledger and documents agree exactly (`LedgerMatchesDocuments`), `BucketsSolvent`, `ImplementsTreasury` without `Undo` |
| `Approvals` | one request, chains of 1 to 3 levels selected by kind and amount, 5 users, fairness; 4,500 states | `DecisionsInOrder` (the history is the chain's, in order, by members, not by the requester), whoever may decide a request has a to-do on it, and nobody outside the group asked (`AlertsCurrent`); every submitted request leaves the pending states (`RequestsDecided`) |
| `Emails` (`MCBankEmail`) | 4 messages: one credit announced twice, one routed by its bank, a newsletter; one of them is the sample; 2 accounts, 2 deposits, 2 workers; 608,000 states | `EmailTypeOK`; emails and deposits match one to one (`EmailsMatchDeposits`); what became of an email stands (`EmailsFinal`) |
| `Overlaps` (`MCTransactions`) | 2 allocations compete, a requisition with a bill, a deposit; 160,000 states | `AccountsSolvent`, `ActsAtomically` |

**Bounds.** `MaxTotal` caps the totals of the ledger after a hold, a bill or a
deposit (`WithinBound`, in these guards only, so that nothing that gives money back
is ever blocked by the bound), `MaxDecisions` caps the length of a history. Requests
can be cancelled, reset and resubmitted as long as the totals allow. The bounds are
enough for the cases that matter: two requests suffice to compete
for a balance; amounts 1 and 2 against 2 or 3 units of money make validations
fail and succeed; totals of 2 and 3 let a request be submitted again after each
way of ending; two bills against one requisition give partial billing. `Buckets` has one
unit of money and totals of 1, since it is about where money is, not about how much:
the unit can be held once at each place by each kind of request, and spent once in each
bucket, in one behaviour; second lives at the same place are left to `Accounts` and
`Requisitions`. What depends on more than that is left to the proofs. `MaxOverlap`, the calls that end
while the slow one runs, is 1 in `Overlaps`; with 2 the properties hold as well
(534,000 states). One call is enough to change a row the slow call read, to
change one it writes, or to do both. In `Emails` two workers give every pair of overlapping imports, of one
message or of two, and they are interchangeable, hence the symmetry; no property of
that run is a liveness property.

`CHECK_DEADLOCK FALSE` is set where the program really stops: in `NoAdmin` and
`BillAfterClose` every request may be approved or closed and every deposit
confirmed, with nobody left who may undo anything; in `Emails`, `EmailDropped` and
`SameCredit` every message may be handled and every deposit confirmed; in `Overlaps` also the
amounts are spent up to the bound, with the history at its bound.

**Fairness.** `FairSpec`, in `Approvals`, assumes, for each request, weak fairness of approving
or rejecting it. The code raises a to-do for the members of the current level's
group, and nothing else drives a decision: no timeout, no escalation. Liveness is
thus conditional on approvers who act on their to-dos, on there being one who
may (the run has a member other than the requester at each level, or an
administrator), and on rules that do not change. Nothing is
assumed of requesters, bills, deposits or rules.

### Where code and documentation disagree

Each is a run that TLC must find violated; `PROJECT.json` quotes the lines.

| Run | What happens |
|---|---|
| `Reapproval` | `posted` is never reset. Approve, cancel, reset to draft, submit, approve: the second approval posts nothing, so an approved allocation has nothing assigned and its hold is stuck. |
| `CancelCommitted` | Cancelling an approved allocation whose bucket has committed the money makes the bucket's available balance negative. |
| `BillAfterClose` | A bill reversed after its requisition was closed leaves a hold nothing can use or release. |
| `EmailDropped` | An alert of amount 0 is recorded, its deposit breaks `CHECK(amount > 0)`, and the record is undone with it: the alert is dropped silently. |
| `SameCredit` | Two alerts of one credit, routed to different accounts and processed at the same time, both find no duplicate; two deposits are created, since uniqueness is per account. |

Others have no run:

* A chain that names a level twice, which `approval_rule.py:51` accepts, loops: `codes.index()`
  (`approval_mixin.py:207`) finds the first, so the approval at the second one takes
  the request back, and it is never approved. The docstring of the rules (line 18) says that
  a request is approved through the ordered lines.
* A rule may have the MD decide before the GM: only the number of levels is
  constrained, while BR-13 (`business-rules.md:25`) and the repository's README
  (line 141) say that the order is enforced.
* Administrators may delete confirmed deposits, posted bills and approved requests
  (`ir.model.access.csv:26`, 30 to 42): no `unlink` but the ledger's forbids it, as BR-40 asks, and
  the lines in the ledger stay.
* The shipped bands (`data/approval_rule_data.xml`)
  overlap: exactly 50,000 goes to the rule named "50,001 to 200,000".
* Only the first 20 members of a group are alerted, where the docstring of
  `_schedule_approval_activity` says everyone.
* An approver who is a fund user
  as well falls under the fund users' record rule, and cannot open the requests of
  others they have to approve (`CanRead` in `FundSecurity`).
* The comment on the sample data (`fund_account.py:183`) says 120,000 stay
  unassigned; the allocations add up to 960,000 of 1,000,000.

## 4. What is proved

For every value of the constants that satisfies the named assumptions (sizes are
natural numbers, amounts positive, the catalogue consists of rules as
`IsRule` describes them), with or without administrators, and with rules changing
at any time, unless a theorem says otherwise:

| Theorem | States | Needs |
|---|---|---|
| `TypeCorrect` | `TypeOK` | |
| `AccountsSafe` | `AllocationHoldsCovered`, `AccountsSolvent` | |
| `TransfersCovered` | `TransferHoldsCovered` | |
| `SpendingSafe` | `RequisitionHoldsCovered`, `SpentIsPostedBills`, `BilledWithinApproved` | |
| `TreasuryImplemented` | `ImplementsTreasury` | |
| `MoneyIsConserved` | `MoneyConserved` | |
| `BucketsStaySolvent` | `BucketsSolvent` | nobody is an administrator |
| `LedgerAgrees` | `LedgerMatchesDocuments` | nobody is an administrator |
| `DashboardCorrect` | `DashboardAgrees` | every group that decides has a member |
| `DecisionsAreRecorded` | `DecisionsRecorded` | |
| `AlertsAreCurrent` | `AlertsCurrent` | nobody edits rules |
| `DecisionsAreInOrder` | `DecisionsInOrder` | nobody edits rules, none has a level twice |
| `EmailsSafe` | `EmailTypeOK`, `EmailsMatchDeposits` | |
| `EmailsStand` | `EmailsFinal` | |

Each hypothesis in the last column is one without which the property is false of the code,
or may be. Administrators can cancel an approved allocation whose money is
committed, and have a request approved twice (`CancelCommitted`, `Reapproval`). An
empty group leaves a pending request with nobody alerted. A chain that repeats
a level goes back, so the request's state no longer says how many
levels approved it. A rule edited on the way changes the
chain that a request is read against. The runs of these properties satisfy the
hypotheses, so they are not void. `DecisionsAreRecorded` says what is left of the
approval when neither holds.

**Accounts and transfers** (`FundManagementProofs`).
`TypeCorrect` needs that the index of a level is at most its position, hence the next
stage exists, and that bills add up to a natural number.
`AccountsSolvent` alone is not inductive: releasing a hold
subtracts from the on-hold balance, and that it stays non-negative follows only
from its covering *all* pending allocations. The inductive invariant
`AccountInv` says this and that unassigned balances are not negative.
`RequestEffect` reduces the steps of a request to five kinds by what they do to
its being pending, `PendingHoldChange` says that the sum changes by one
summand, `AllocationHooks` and `OtherHooks` what the lines do to the balances.
The inequality is needed: after a reapproval the balance exceeds the sum.
`TransfersCovered` follows the same argument with `TransferHooks`.

**Requisitions and bills** (`BucketProofs`). The three properties need each other and are
proved as one, `SpendingInv`, with the fact that bills refer to requisitions that exist
(`BillsOfRequisitions`). A bill returns money to a hold that may have been released,
so the hold has to cover what is reserved, whose summands (`ReservedAmount`)
are natural numbers only if nothing was billed beyond the amount; a requisition
keeps its bucket, where its bills were spent, only because posted bills belong to
approved or closed requisitions, which nobody edits. `StateEffect` and
`BillEffect` reduce the steps to what they do to states.

**Ledger and documents** (`BucketProofs`). `LedgerAgrees` is an equality where the hold
theorems have an inequality, and holds only as long as every approval posts. The
inductive invariant `MatchInv` adds `PostedOnceFinal`: a request with the flag `posted` is
approved or closed. Only an administrator's cancellation breaks that.

**The refinement** (`FundTreasuryProofs`). `CoverInv` joins the invariants above: each bound
that a step of `Treasury` asks for is one of them, read at one summand
(`MoneyCovered`: what a pending request or a bill takes is at most what its place
holds). `Shift` says what a line or a pair of lines does to free, held and spent money,
`ShiftSteps` which step of the treasury that is, `EndsMoney`, `RequisitionMoney`,
`BillMoney` and `DepositMoney` go through the calls. What `TreasurySafe`
(`TreasuryProofs`) proves of a treasury of any size, that all money came in from
outside and that no place is ever short where nothing may be taken back, then holds
of the program: that is how `MoneyIsConserved` and `BucketsStaySolvent` are
proved. `Quantities`, a constant of `FundTreasury`, is not in the program: it only has
to contain the amounts users enter and whatever is less.

**The dashboard** (`DashboardProofs`). Its totals add up different lines, so that they
agree is not said by any one call. Received is confirmed since only deposits post
incoming lines (`ReceivedInv`). Assigned is what buckets have in all their balances
since money is conserved and an account has what it received less what it assigned
(`AssignedIsWorth`). Somebody is alerted exactly while a request is pending
(`AlertedIfPending`, which, unlike `AlertsCurrent`, survives changes of rules).

**Approval** (`ApprovalProofs`). `WorkflowEffect` reduces the calls to five effects on state, history
and to-dos. Three theorems stand on it.
`DecisionsRecorded` speaks of the history alone, and is inductive with the
type: `DecisionEffect` says of a decision who makes it and what it
leaves, wherever `LevelIndex` puts the request, `RecordGrows` that a history only grows,
and `RecordedStep` puts them together. `AlertsInv` and `OrderInv` are the other two
properties in terms of the chain and the state alone, which is the form
in which they are inductive; `AllAlerted` says that a group within the limit is
alerted as a whole, `OrderGrows` adds one decision, and `OwnIndex` is
where repeated levels would matter to the order.

**Emails** (`BankEmailProofs`). `EmailsMatchDeposits` is not inductive: what a transaction is going to commit
was decided before. `EmailInv` adds, for every open transaction, that the record it
decided on was new or parsed when it began, has no deposit yet and is imported only
into an account (`WritesOf`), and that an imported email's deposit exists. That two
transactions do not both commit then follows from the row they share. The theorems
cover any number of workers.

`SumsProofs` proves what the sums need (existence and uniqueness of partial sums,
change of one summand, sums of sums, of naturals and of zeros) by least counterexample.

Only model-checked:

* `RequestsDecided`, since liveness under fairness is beyond the prover;
* `ActsAtomically`, the refinement of overlapping calls: its invariant has to say
  of a call that is under way that it could still be made now, call by call;
* what `_match_for` selects, which the type of chains and their levels is proved of
  and nothing else.

The five runs that expect a violation have no theorem, being about what is not true.

## 5. What is not modelled

* Time, dates, attachments, chatter messages and mails, sequences of names.
* Amounts are natural numbers: currency rounding (`compare_amounts`) is exact
  here. One currency and one company.
* Users, groups, accounts and buckets are fixed: none is created, archived or
  given other groups. Users marking to-dos as done.
* What the regular expressions of `bank_email.py` find in a message is given, as
  `Alert`; how a found amount, reference and account number are used is modelled.
* Forms that stay open while somebody else acts. Which fields may be edited in
  which state is said by the views only, and `write()` does not look at the state:
  a form opened in draft and saved after the request was submitted changes the amount
  under its hold. The model lets a form be saved in the states in which it offers
  the fields; without that none of the hold properties would survive.
* Cards that are dragged. The kanban views of requests, bills and deposits group them by
  `state` (`fund_allocation_views.xml:93`, `fund_requisition_views.xml:98`,
  `fund_transfer_views.xml:95`, `fund_bill_views.xml:67`, `incoming_fund_views.xml:72`),
  which is writable, and do not forbid dragging: whoever may write a record can move it to another
  state without any of the methods, hence without hold, approval or ledger line.
  The model has the methods only, and its properties are about those.
* Deleting requests, bills and deposits, which only administrators may. With it no property
  that compares the ledger with documents would survive.
* Duplicating a record. Of an email, `incoming_fund_id` is not copied and `state` is
  (`bank_email.py:72`): the duplicate of an imported email is imported without a
  deposit, against `EmailsMatchDeposits`. A deposit's `state` is copied as well, but its duplicate
  has the same account and reference, which the database refuses.
* Approval lines written by hand. The GM and MD groups may write
  `nn.approval.line` (`ir.model.access.csv:19` and 20), administrators may also create and delete
  them. In the model a line is only ever added, by a decision;
  `DecisionsInOrder` and `DecisionsRecorded` are about histories nobody edited.
* Deleting emails, and how the sample is numbered (`bank_email.py:255`, by the count of
  emails): the sample is one message here, so that a number is taken after a
  deletion, or by two users at once, is something `EmailsFinal` cannot show.
* As the slow call of `Transactions`: creating a record, saving the form of a deposit (the
  database checks its uniqueness at the end), and changing rules. Rules are read
  and not written by requests, so nothing keeps a change of rules and an approval
  that overlap apart; `Overlaps` fixes the rules.
* Two slow calls at once. Each is compared with the short ones only.
* Of the dashboard, the lists and those figures that are like the ones modelled.
* Seed data and its script (`fund_account.py`), views, styles, deployment.

## 6. Plan

Done: the ledger, security, rules, workflow, the three requests, bills and
deposits and their composition; the mailbox; overlapping calls; the
dashboard; the treasury and the refinement; the proofs of all safety properties that
hold and of all action properties but one.

Further work, in this order:

1. `ActsAtomically` proved, for fixed rules and chains without repeated levels: what a
   call read is still so when it commits, because it wrote the row or because
   nothing can change it (a requisition closed under a posted bill).
2. `_match_for` against a reference definition over all small catalogues.
