------------------------------ MODULE Consents ------------------------------
(***************************************************************************)
(* What a consent grant permits, as the two places of the code that ask    *)
(* decide it:                                                              *)
(*                                                                         *)
(*   - domain/coverage.go, the preview that gates Freeze.  It truncates    *)
(*     the clock to milliseconds and trims every scope and use it reads;   *)
(*   - assurance/rules.go, the checker that gates approval.  It compares   *)
(*     the untruncated clock, and takes scopes and the wildcard use as     *)
(*     they are stored.                                                    *)
(*                                                                         *)
(* A string is a member of Strings and Trim is strings.TrimSpace on them,  *)
(* so that "s1" and " s1 " can be two strings with one trimmed form.       *)
(* Strings that differ in letter case only are one member: both places     *)
(* compare uses with strings.EqualFold.  Time is counted in clock ticks,   *)
(* TicksPerMs of them to the millisecond.                                  *)
(***************************************************************************)
EXTENDS Integers

CONSTANTS
    Strings,        \* every string a request can carry
    Blank,          \* the empty string
    Any,            \* "*"
    Trim,           \* strings.TrimSpace
    Leaky,          \* the strings that contain a sensitive marker
    TicksPerMs      \* clock ticks in a millisecond

ASSUME StringsAssumption ==
    /\ Blank \in Strings /\ Any \in Strings /\ Blank # Any
    /\ Trim \in [Strings -> Strings]
    /\ \A x \in Strings : Trim[Trim[x]] = Trim[x]
    /\ Trim[Blank] = Blank /\ Trim[Any] = Any
    /\ Leaky \subseteq Strings

ASSUME ClockAssumption == TicksPerMs \in Nat \ {0}

(* A grant as stored.  prohibited stands for the restrictions: whether one *)
(* of them contains a marker of "no public release", a test that both      *)
(* places make alike.  signed stands for SignedBy # "".                    *)
Grant == [id : Strings, scope : SUBSET Strings, uses : SUBSET Strings,
          prohibited : BOOLEAN, signed : BOOLEAN, from : Nat, to : Nat]

(* domain.UTC: the clock, truncated to the millisecond. *)
UTC(t) == t - (t % TicksPerMs)

Current(g, t) == g.from <= t /\ t <= g.to

-----------------------------------------------------------------------------
(* domain/coverage.go *)

ScopeContains(g, id) == \E v \in g.scope : Trim[v] = Any \/ Trim[v] = id

UseAllowed(g, use) ==
    /\ ~g.prohibited
    /\ \E u \in g.uses : Trim[u] = Any \/ Trim[u] = Trim[use]

(* The status the coverage preview gives a segment. *)
CoverageAt(consents, use, id, clock) ==
    LET t == UTC(clock)
        candidates == {g \in consents : ScopeContains(g, id)}
        current == {g \in candidates : Current(g, t)}
    IN  CASE \E g \in current : UseAllowed(g, use)  -> "covered"
          [] current # {} /\ \A g \in current : ~UseAllowed(g, use)
                                                    -> "use_conflict"
          [] current = {} /\ \E g \in candidates : t < g.from
                                                    -> "not_yet_valid"
          [] current = {} /\ candidates # {} /\ \A g \in candidates : g.from <= t
                                                    -> "expired"
          [] candidates = {}                        -> "missing"

-----------------------------------------------------------------------------
(* assurance/rules.go *)

RuleMissingConsent == "CONSENT_MISSING"
RuleUseConflict    == "CONSENT_USE_CONFLICT"
RuleConsentExpired == "CONSENT_EXPIRED"
RuleSensitiveRaw   == "SENSITIVE_UNREMEDIATED"
RuleMaskLeak       == "MASK_LEAK"

TextRules    == {RuleSensitiveRaw, RuleMaskLeak}
ConsentRules == {RuleMissingConsent, RuleUseConflict, RuleConsentExpired}
RuleCodes    == TextRules \cup ConsentRules

ApplicableConsents(consents, id) ==
    {g \in consents : Any \in g.scope \/ id \in g.scope}

(* Mutant: a ban on publication is not looked at. *)
CheckerAllows_IgnoresBan(g, use) == \E u \in g.uses : u = Any \/ Trim[u] = Trim[use]

CheckerAllows(g, use) ==
    /\ ~g.prohibited
    /\ \E u \in g.uses : u = Any \/ Trim[u] = Trim[use]

(* Mutant: the grant that allows the use need not be current. *)
BrokenConsentRules_AnyGrant(consents, use, id, t) ==
    LET grants == ApplicableConsents(consents, id)
        valid == {g \in grants : Current(g, t)}
    IN  {r \in ConsentRules :
            \/ r = RuleMissingConsent /\ grants = {}
            \/ r = RuleConsentExpired /\ grants # {} /\ valid = {}
            \/ r = RuleUseConflict /\ valid # {}
                 /\ \A g \in grants : ~CheckerAllows(g, use)}

(* The consent rules a segment breaks at time t. *)
BrokenConsentRules(consents, use, id, t) ==
    LET grants == ApplicableConsents(consents, id)
        valid == {g \in grants : Current(g, t)}
    IN  {r \in ConsentRules :
            \/ r = RuleMissingConsent /\ grants = {}
            \/ r = RuleConsentExpired /\ grants # {} /\ valid = {}
            \/ r = RuleUseConflict /\ valid # {}
                 /\ \A g \in valid : ~CheckerAllows(g, use)}

(* The text rules a segment breaks.  A tag other than "none" is sensitive, *)
(* a missing or an unknown one included.                                   *)
BrokenTextRules(s) ==
    {r \in TextRules :
        \/ /\ r = RuleSensitiveRaw
           /\ s.tag # "none"
           /\ Trim[s.disposition] = Blank \/ Trim[s.proposed] = Trim[s.source]
        \/ r = RuleMaskLeak /\ s.proposed \in Leaky}

(* Mutant: the loop continues with the next segment after a consent rule. *)
BrokenRules_StopsEarly(s, consents, use, t) ==
    IF BrokenConsentRules(consents, use, s.id, t) # {}
    THEN BrokenConsentRules(consents, use, s.id, t)
    ELSE BrokenTextRules(s)

BrokenRules(s, consents, use, t) ==
    BrokenConsentRules(consents, use, s.id, t) \cup BrokenTextRules(s)
=============================================================================
