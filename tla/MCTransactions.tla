--------------------------- MODULE MCTransactions ---------------------------
(***************************************************************************)
(* Values of the constants for TLC: two allocations compete for an         *)
(* account, a requisition is cancelled or closed while it is billed.       *)
(***************************************************************************)
EXTENDS Transactions

Everything == <<{"fund_user", "finance", "gm", "md", "admin"}>>
TwoAndOne == <<"allocation", "allocation", "requisition">>
GMOnly == << [kind |-> AnyKind, company |-> AnyCompany, min |-> 0, max |-> 0,
              sequence |-> 10, levels |-> <<"gm">>] >>

=============================================================================
