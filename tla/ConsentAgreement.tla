--------------------------- MODULE ConsentAgreement ---------------------------
(***************************************************************************)
(* The coverage preview, which gates Freeze, and the checker, which gates  *)
(* approval, are two readings of the same grants.  Here they look at one   *)
(* segment and its grants while the clock runs, and the properties say how *)
(* far they agree.                                                         *)
(***************************************************************************)
EXTENDS Consents

CONSTANTS
    GrantSets,      \* the sets of stored grants to look at
    Uses,           \* intended uses
    SegmentIds,
    MaxTime         \* bound: the tick at which the clock stops

ASSUME AgreementAssumption ==
    /\ GrantSets \subseteq SUBSET Grant
    /\ \A G \in GrantSets : \A g \in G : UTC(g.from) = g.from /\ UTC(g.to) = g.to
    /\ Uses \subseteq Strings /\ SegmentIds \subseteq Strings
    /\ MaxTime \in Nat

VARIABLES consents, use, id, clock

vars == <<consents, use, id, clock>>

Init ==
    /\ consents \in GrantSets
    /\ use \in Uses
    /\ id \in SegmentIds
    /\ clock = 0

Tick ==
    /\ clock < MaxTime
    /\ clock' = clock + 1
    /\ UNCHANGED <<consents, use, id>>

Spec == Init /\ [][Tick]_vars

-----------------------------------------------------------------------------
Coverage == CoverageAt(consents, use, id, clock)
Rules    == BrokenConsentRules(consents, use, id, clock)

(* What passes the checker would have passed the preview, whatever white   *)
(* space is in scopes and uses and wherever in a millisecond the check     *)
(* falls: approval never rests on a grant that could not have opened the   *)
(* freeze.  The one exception is a segment whose own id has white space    *)
(* around it, which AddSegment stores untrimmed.                           *)
CheckerNoLooser ==
    Trim[id] = id /\ Rules = {} => Coverage = "covered"

(* Nothing in the grants is written with white space around it. *)
Plain ==
    /\ Trim[id] = id
    /\ \A g \in consents : \A v \in g.scope \cup g.uses : Trim[v] = v

(* Where no string is padded and the clock is on a millisecond, the        *)
(* preview tells which consent rule the check will find broken.            *)
PreviewPredictsCheck ==
    Plain /\ UTC(clock) = clock =>
        Rules = CASE Coverage = "covered"      -> {}
                  [] Coverage = "missing"      -> {RuleMissingConsent}
                  [] Coverage = "use_conflict" -> {RuleUseConflict}
                  [] Coverage \in {"expired", "not_yet_valid"} -> {RuleConsentExpired}
=============================================================================
