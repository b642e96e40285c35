------------------------------ MODULE Treasury ------------------------------
(***************************************************************************)
(* What the fund management promises of money, without requests, ledger    *)
(* lines or approvals: at each place some money is free, some is held for  *)
(* a purpose and some is spent.  Money comes in from outside; it can be    *)
(* held only if it is free, and released, moved or spent only if it is     *)
(* held.  Whether an administrator may take moved money back, even if it   *)
(* has been committed again, is a parameter.                               *)
(***************************************************************************)
EXTENDS Sums

CONSTANTS
  NPlaces,
  Quantities,     \* the amounts in which money changes hands
  MayUndo

(* What the constants are; FundTreasury gives them such values.             *)
ConstantsOK ==
  /\ NPlaces \in Nat
  /\ Quantities \subseteq Nat \ {0}
  /\ MayUndo \in BOOLEAN

VARIABLES free, held, spent, income

vars == <<free, held, spent, income>>

Places == 1 .. NPlaces
Nothing == [p \in Places |-> 0]

Init == free = Nothing /\ held = Nothing /\ spent = Nothing /\ income = 0

Receive(p, n) ==
  /\ free' = [free EXCEPT ![p] = @ + n]
  /\ income' = income + n
  /\ UNCHANGED <<held, spent>>

Hold(p, n) ==
  /\ n <= free[p]
  /\ free' = [free EXCEPT ![p] = @ - n]
  /\ held' = [held EXCEPT ![p] = @ + n]
  /\ UNCHANGED <<spent, income>>

Release(p, n) ==
  /\ n <= held[p]
  /\ free' = [free EXCEPT ![p] = @ + n]
  /\ held' = [held EXCEPT ![p] = @ - n]
  /\ UNCHANGED <<spent, income>>

(* Held money goes to another place, where it is free. *)
Move(p, q, n) ==
  /\ p # q
  /\ n <= held[p]
  /\ free' = [free EXCEPT ![q] = @ + n]
  /\ held' = [held EXCEPT ![p] = @ - n]
  /\ UNCHANGED <<spent, income>>

(* Taken back from q, whether q still has it or not. *)
Undo(p, q, n) ==
  /\ MayUndo
  /\ p # q
  /\ free' = [free EXCEPT ![p] = @ + n, ![q] = @ - n]
  /\ UNCHANGED <<held, spent, income>>

Spend(p, n) ==
  /\ n <= held[p]
  /\ held' = [held EXCEPT ![p] = @ - n]
  /\ spent' = [spent EXCEPT ![p] = @ + n]
  /\ UNCHANGED <<free, income>>

Refund(p, n) ==
  /\ n <= spent[p]
  /\ held' = [held EXCEPT ![p] = @ + n]
  /\ spent' = [spent EXCEPT ![p] = @ - n]
  /\ UNCHANGED <<free, income>>

(* Most of what users do moves no money. *)
Paperwork == UNCHANGED vars

Next ==
  \/ Paperwork
  \/ \E p \in Places, n \in Quantities :
       \/ Receive(p, n) \/ Hold(p, n) \/ Release(p, n) \/ Spend(p, n) \/ Refund(p, n)
       \/ \E q \in Places : Move(p, q, n) \/ Undo(p, q, n)

Spec == Init /\ [][Next]_vars

(* All the money there is came in from outside. *)
Conserved == SumTo([p \in Places |-> free[p] + held[p] + spent[p]], NPlaces) = income

(* Without undoing, no place is ever short of money. *)
Solvent == ~MayUndo => \A p \in Places : free[p] >= 0 /\ held[p] >= 0 /\ spent[p] >= 0

=============================================================================
