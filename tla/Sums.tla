-------------------------------- MODULE Sums --------------------------------
(***************************************************************************)
(* The sum of the values f[1], ..., f[n].  Documents and bills carry       *)
(* integer database ids 1, 2, ..., so "sum(x.amount for x in xs if ...)"   *)
(* is a sum over 1..n of a function that is 0 where the condition fails.   *)
(*                                                                         *)
(* The recursion is a recursive function, not a RECURSIVE operator, so     *)
(* that SumsProofs can prove facts about it.                               *)
(***************************************************************************)
EXTENDS Integers

SumTo(f, n) ==
  LET s[i \in 0 .. n] == IF i = 0 THEN 0 ELSE s[i - 1] + f[i]
  IN  s[n]

=============================================================================
