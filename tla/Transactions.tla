---------------------------- MODULE Transactions ----------------------------
(***************************************************************************)
(* Calls that overlap.  In FundManagement every call is one step; here one *)
(* call at a time, on a request, a bill or a deposit, is not: it begins,   *)
(* other calls run from begin to end, and it commits or aborts.            *)
(* Everything it reads is as it was when it began (PostgreSQL's repeatable *)
(* read, in which Odoo runs), and it commits only if no row it updates was *)
(* updated meanwhile.  An aborted call is retried by the framework: it may *)
(* begin again.                                                            *)
(*                                                                         *)
(* Nothing in the code locks a balance before comparing with it.  What     *)
(* keeps two calls from spending one amount is that posting a line updates *)
(* a stored balance, and that the row of that balance is also the one      *)
(* whose balance was read.  ActsAtomically says that this is enough.       *)
(***************************************************************************)
EXTENDS StoredRows

CONSTANT MaxOverlap      \* bound: how many calls end while the slow one runs

ASSUME OverlapAssumption == MaxOverlap \in Nat

VARIABLES
  \* the database as the slow call left its snapshot:
  xMoves, xDocs, xHistory, xTodo, xBills, xDeposits,
  writes,         \* the rows it updated, {} before it begins
  stale,          \* whether one of them was updated meanwhile
  overlap

own == <<xMoves, xDocs, xHistory, xTodo, xBills, xDeposits>>
txVars == <<vars, own, writes, stale, overlap>>

(* The same system on the slow call's snapshot. *)
Slow == INSTANCE StoredRows WITH
          moves <- xMoves, docs <- xDocs, history <- xHistory, todo <- xTodo, bills <- xBills,
          deposits <- xDeposits

(* Between slow calls the snapshot is the database. *)
Fresh ==
  /\ xMoves = moves
  /\ xDocs = docs
  /\ xHistory = history
  /\ xTodo = todo
  /\ xBills = bills
  /\ xDeposits = deposits

Refreshed ==
  /\ xMoves' = moves'
  /\ xDocs' = docs'
  /\ xHistory' = history'
  /\ xTodo' = todo'
  /\ xBills' = bills'
  /\ xDeposits' = deposits'
  /\ writes' = {}
  /\ stale' = FALSE
  /\ overlap' = 0

TxInit == Init /\ Fresh /\ writes = {} /\ stale = FALSE /\ overlap = 0

(* A call begins, reads, and writes to its snapshot.  Saving the form of a *)
(* deposit is left out: the database checks its uniqueness at the end.     *)
Start ==
  /\ writes = {}
  /\ \E u \in Users :
       \/ \E r \in Requests : Exists(r) /\ Slow!RequestStep(u, r)
       \/ \E b \in Bills : bills[b] # NoBill /\ Slow!BillStep(u, b)
       \/ \E i \in Deposits : Slow!HandleDeposit(u, i)
  /\ writes' = Slow!Updated
  /\ UNCHANGED <<vars, stale, overlap>>

(* A call that does not overlap with a slow one. *)
Alone == writes = {} /\ Next /\ Refreshed

(* A call that ends while the slow one runs. *)
Meanwhile ==
  /\ writes # {}
  /\ overlap < MaxOverlap
  /\ Next
  /\ stale' = (stale \/ Updated \cap writes # {})
  /\ overlap' = overlap + 1
  /\ UNCHANGED <<own, writes>>

(* The rows the slow call updated and the lines it inserted stand.         *)
Commit ==
  /\ writes # {}
  /\ ~stale
  /\ moves' = [p \in Places |-> IF <<"place", p>> \in writes THEN xMoves[p] ELSE moves[p]]
  /\ docs' = [r \in Requests |-> IF <<"request", r>> \in writes THEN xDocs[r] ELSE docs[r]]
  /\ history' = [r \in Requests |-> IF <<"request", r>> \in writes THEN xHistory[r] ELSE history[r]]
  /\ todo' = [r \in Requests |-> IF <<"request", r>> \in writes THEN xTodo[r] ELSE todo[r]]
  /\ bills' = [b \in Bills |-> IF <<"bill", b>> \in writes THEN xBills[b] ELSE bills[b]]
  /\ deposits' = [i \in Deposits |-> IF <<"deposit", i>> \in writes THEN xDeposits[i] ELSE deposits[i]]
  /\ UNCHANGED active
  /\ Refreshed

Abort ==
  /\ writes # {}
  /\ stale
  /\ UNCHANGED vars
  /\ Refreshed

TxNext == Start \/ Alone \/ Meanwhile \/ Commit \/ Abort

TxSpec == TxInit /\ [][TxNext]_txVars

-----------------------------------------------------------------------------
(* Properties. *)

(* To everybody else, a slow call happens at once when it commits, or not  *)
(* at all: what was true of the balances, the bills and the request it     *)
(* read is still true then, although only the rows it writes are watched.  *)
(* For approval rules that nobody changes meanwhile.                       *)
ActsAtomically == Spec

=============================================================================
