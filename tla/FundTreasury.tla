---------------------------- MODULE FundTreasury ----------------------------
(***************************************************************************)
(* The fund management is a treasury: the refinement mapping, from the     *)
(* balances the code computes to the money of module Treasury.             *)
(***************************************************************************)
EXTENDS FundManagement

(* The amounts users enter, and what is left of them after some bills. *)
CONSTANT Quantities

ASSUME QuantitiesAssumption ==
  /\ Quantities \subseteq Nat \ {0}
  /\ DepositAmounts \subseteq Quantities
  /\ \A amount \in Amounts : 1 .. amount \subseteq Quantities

FreeAt(m, p) == IF p \in Accounts THEN Unassigned(m, p) ELSE Available(m, p)
HeldAt(m, p) ==
  IF p \in Accounts THEN OnHold(m, p) ELSE RequisitionHold(m, p) + TransferHold(m, p)
SpentAt(m, p) == IF p \in Accounts THEN 0 ELSE Spent(m, p)

T == INSTANCE Treasury WITH
       NPlaces <- NPlaces,
       Quantities <- Quantities,
       MayUndo <- \E u \in Users : HasGroup(u, "admin"),
       free <- [p \in Places |-> FreeAt(moves, p)],
       held <- [p \in Places |-> HeldAt(moves, p)],
       spent <- [p \in Places |-> SpentAt(moves, p)],
       income <- Confirmed

(* Whatever is submitted, approved, rejected, billed, reversed, closed and *)
(* resubmitted, each call has one of the treasury's effects or none: holds *)
(* are taken from free money, and released, moved or spent once, from what *)
(* is really held; bills refund no more than was spent; and only an        *)
(* administrator can take back what may have been committed since.         *)
ImplementsTreasury == T!Spec

=============================================================================
