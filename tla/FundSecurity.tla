---------------------------- MODULE FundSecurity ----------------------------
(***************************************************************************)
(* The security groups, and who may read or write a request: the model     *)
(* access rights (ir.model.access.csv) combined with the record rules.     *)
(* One company; the multi-company rules then restrict nothing.             *)
(***************************************************************************)
EXTENDS Integers, FiniteSets

CONSTANTS
  NUsers,        \* res.users, numbered in the order in which a group lists them
  Membership     \* Membership[u]: the groups u was given

Groups == {"fund_user", "finance", "admin", "gm", "md"}
Users == 1 .. NUsers

ASSUME SecurityAssumption ==
  /\ NUsers \in Nat
  /\ Membership \in [Users -> SUBSET Groups]

(* The operational hierarchy: admin implies finance implies fund user. *)
HasGroup(u, g) ==
  \/ g \in Membership[u]
  \/ g = "finance" /\ "admin" \in Membership[u]
  \/ g = "fund_user" /\ Membership[u] \cap {"finance", "admin"} # {}

Members(g) == {u \in Users : HasGroup(u, g)}

(* A fund user sees only what they requested, finance sees everything, and *)
(* an approver who is not a fund user is subject to no record rule.        *)
CanRead(u, requester) ==
  \/ HasGroup(u, "finance")
  \/ HasGroup(u, "fund_user") /\ u = requester
  \/ ~HasGroup(u, "fund_user") /\ (HasGroup(u, "gm") \/ HasGroup(u, "md"))

CanWrite(u, requester) ==
  HasGroup(u, "fund_user") /\ (HasGroup(u, "finance") \/ u = requester)

CanCreate(u) == HasGroup(u, "fund_user")

=============================================================================
