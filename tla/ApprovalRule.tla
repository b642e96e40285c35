---------------------------- MODULE ApprovalRule ----------------------------
(***************************************************************************)
(* nn.approval.rule: which approval chain a request goes through.  Rules   *)
(* are configured by an administrator; the one that fits a request best    *)
(* gives the chain, and without one the chain is GM, then MD.              *)
(*                                                                         *)
(* Catalogue[k], with k the database id, is a rule that exists in the      *)
(* database; the rules in force are those of a set of ids (field active).  *)
(***************************************************************************)
EXTENDS Integers, Sequences, FiniteSets

CONSTANTS
  NRules,
  Catalogue,     \* [1..NRules -> Rules]
  Company        \* the company of the requests

AnyKind == "any"
AnyCompany == "any company"
Kinds == {"allocation", "requisition", "transfer"}
LevelCodes == {"gm", "finance", "md"}

(* The state in which level i of a chain decides. *)
StageStates == <<"submitted", "gm_approval", "md_approval">>

(* A rule; max = 0 is a band without an upper end.  _check_line_count and  *)
(* _check_band allow at most three levels and no band with max below min;  *)
(* a rule created without lines escapes the former, and has no levels.     *)
IsRule(rule) ==
  /\ rule.kind \in Kinds \cup {AnyKind}
  /\ rule.sequence \in Nat /\ rule.min \in Nat /\ rule.max \in Nat
  /\ rule.max # 0 => rule.min <= rule.max
  /\ rule.levels \in {<<>>} \cup UNION {[1 .. n -> LevelCodes] : n \in 1 .. 3}

ASSUME RuleAssumption ==
  /\ NRules \in Nat
  /\ \A k \in 1 .. NRules : IsRule(Catalogue[k])

DefaultLevels == <<"gm", "md">>

Fits(k, kind, amount) ==
  LET rule == Catalogue[k]
  IN  /\ rule.min <= amount
      /\ rule.kind \in {kind, AnyKind}
      /\ rule.max = 0 \/ amount <= rule.max
      /\ rule.company \in {Company, AnyCompany}

(***************************************************************************)
(* The order of candidates.sort(): a rule for this kind, then one for this *)
(* company, then the higher minimum, then the lower sequence.  The sort is *)
(* stable on a search ordered by sequence, minimum and id, so the lower id *)
(* breaks a tie.                                                           *)
(***************************************************************************)
RankKey(k) ==
  LET rule == Catalogue[k]
  IN  << IF rule.kind # AnyKind THEN 1 ELSE 0,
         IF rule.company # AnyCompany THEN 1 ELSE 0,
         rule.min, -rule.sequence, -k >>

Outranks(k, j) ==
  \E i \in 1 .. 5 : /\ RankKey(k)[i] > RankKey(j)[i]
                    /\ \A h \in 1 .. (i - 1) : RankKey(k)[h] = RankKey(j)[h]

(* _match_for(): the best of the rules in force, as a set of at most one.  *)
MatchFor(active, kind, amount) ==
  {k \in active : /\ Fits(k, kind, amount)
                  /\ \A j \in active \ {k} : Fits(j, kind, amount) => Outranks(k, j)}

(* _approval_levels(): the codes of the chain; level i decides in state    *)
(* StageStates[i], for a rule's chain and for the default one alike.       *)
ApprovalLevels(active, kind, amount) ==
  LET best == {k \in MatchFor(active, kind, amount) : Catalogue[k].levels # <<>>}
  IN  IF best = {} THEN DefaultLevels ELSE Catalogue[CHOOSE k \in best : TRUE].levels

=============================================================================
