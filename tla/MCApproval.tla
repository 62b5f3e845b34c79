---------------------------- MODULE MCApproval ----------------------------
(***************************************************************************)
(* Two managers.  Approval.cfg has a safe and a leaking manifest, a        *)
(* consent that lapses after a tick and one that outlasts the clock;       *)
(* ApprovalCases.cfg has two cases with the same content and version;      *)
(* ApprovalLive.cfg has persistent managers and as many tokens as its      *)
(* changes, expiries and faults can cost them.                             *)
(***************************************************************************)
EXTENDS Approval, TLC

Lapses      == "short" :> 0 @@ "long" :> 9
Leaked      == {[manifest |-> "leaky", consents |-> "long"]}
OneConsent  == "long" :> 9

Symmetry     == Permutations(Managers)
CaseSymmetry == Permutations(Managers) \cup Permutations(CaseIds)
=============================================================================
