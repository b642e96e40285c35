----------------------------- MODULE MCBankEmail -----------------------------
(***************************************************************************)
(* Values of the constants for TLC: alerts of two accounts at one bank.    *)
(***************************************************************************)
EXTENDS BankEmail, TLC

OneFinance == <<{"finance"}>>

(* Account 1 matches any number that ends in 4, account 2 one in 3 4.      *)
Keys  == << <<4>>, <<3, 4>> >>
Banks == << NoBank, "City Bank" >>

(* A credit, announced twice: routed the first time by account number, and *)
(* the second time, without a number, left to finance; another one that is *)
(* routed by its bank; and a newsletter.                                   *)
Alerts ==
  << [parses |-> TRUE, amount |-> 1, reference |-> "t1", digits |-> <<3, 4>>, bank |-> NoBank],
     [parses |-> TRUE, amount |-> 1, reference |-> "t1", digits |-> <<>>, bank |-> NoBank],
     [parses |-> FALSE, amount |-> 0, reference |-> "t1", digits |-> <<>>, bank |-> NoBank],
     [parses |-> TRUE, amount |-> 1, reference |-> "t2", digits |-> <<7>>, bank |-> "City Bank"] >>

(* A credit announced by two alerts, which name its account in two ways.   *)
TwoAlerts ==
  << [parses |-> TRUE, amount |-> 1, reference |-> "t1", digits |-> <<3, 4>>, bank |-> NoBank],
     [parses |-> TRUE, amount |-> 1, reference |-> "t1", digits |-> <<>>, bank |-> "City Bank"] >>

(* Workers are interchangeable. *)
Symmetry == Permutations(Workers)

(* An alert of a card check: credited with 0.00. *)
ZeroAlert ==
  << [parses |-> TRUE, amount |-> 0, reference |-> "t1", digits |-> <<3, 4>>, bank |-> NoBank] >>

=============================================================================
