-------------------------- MODULE MCFundManagement --------------------------
(***************************************************************************)
(* Values of the constants for TLC.  Users: one who raises requests, one   *)
(* for each level, an administrator.                                       *)
(***************************************************************************)
EXTENDS FundTreasury, FundDashboard

(* User 1 raises requests and deposits; user 2 approves at every level,    *)
(* with or without being an administrator.                                 *)
RequesterAndChief == <<{"fund_user", "finance"}, {"gm", "md", "admin"}>>
WithoutAdmin      == <<{"fund_user", "finance"}, {"gm", "md"}>>

(* A single user, for what does not depend on who does it.                 *)
Chief == <<{"gm", "admin"}>>

(* One user for each level, and finance users that raise requests too.     *)
Departments == <<{"fund_user"}, {"gm"}, {"finance"}, {"md"}, {"admin", "gm"}>>
Minimal     == <<{"finance"}, {"gm"}, {"md"}, {"admin"}>>

Allocations  == [r \in Requests |-> "allocation"]
Requisitions == [r \in Requests |-> IF r = 1 THEN "allocation" ELSE "requisition"]
OneOfEach    == <<"allocation", "transfer", "requisition">>

Rule(kind, min, max, sequence, levels) ==
  [kind |-> kind, company |-> AnyCompany, min |-> min, max |-> max,
   sequence |-> sequence, levels |-> levels]

NoRules == <<>>

(* Chains of one, two and three levels, by amount; for amount 2 the rule   *)
(* for allocations outranks the one for every kind.                        *)
Chains ==
  << Rule(AnyKind, 0, 2, 10, <<"gm">>),
     Rule("allocation", 2, 2, 20, <<"gm", "finance">>),
     Rule(AnyKind, 3, 0, 30, <<"gm", "finance", "md">>),
     Rule("transfer", 0, 0, 5, <<"md">>) >>

(* Chains that overlap, one of them with a level twice: what is left of a  *)
(* chain changes with the rules.                                           *)
Competing ==
  << Rule(AnyKind, 0, 0, 10, <<"gm">>),
     Rule(AnyKind, 2, 0, 20, <<"gm", "finance", "gm">>) >>

GMOnly == << Rule(AnyKind, 0, 0, 10, <<"gm">>) >>

=============================================================================
