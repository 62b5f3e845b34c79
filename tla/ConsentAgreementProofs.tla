------------------------ MODULE ConsentAgreementProofs ------------------------
(***************************************************************************)
(* The checker is no looser than the preview, and the preview predicts it  *)
(* where nothing is padded, for every set of stored grants and every clock.*)
(***************************************************************************)
EXTENDS ConsentAgreement, ConsentsProofs

IInv ==
    /\ consents \in GrantSets
    /\ use \in Uses
    /\ id \in SegmentIds
    /\ clock \in Nat

LEMMA IInvInvariant == Spec => []IInv
<1>1. Init => IInv
  BY DEF Init, IInv
<1>2. IInv /\ [Tick]_vars => IInv'
  BY DEF IInv, Tick, vars
<1> QED
  BY <1>1, <1>2, PTL DEF Spec

(* Whatever grants a case holds, a segment the checker finds no consent    *)
(* rule broken for is covered in the preview at the same moment.           *)
THEOREM CheckerIsNoLooser == Spec => []CheckerNoLooser
<1>1. IInv => CheckerNoLooser
  <2> SUFFICES ASSUME IInv, Trim[id] = id, Rules = {}
               PROVE  Coverage = "covered"
    BY DEF CheckerNoLooser
  <2>1. /\ consents \in SUBSET Grant
        /\ \A g \in consents : Truncated(g)
        /\ use \in Strings /\ id \in Strings /\ clock \in Nat
    BY AgreementAssumption DEF IInv, Truncated
  <2> QED
    BY <2>1, CleanMeansCovered DEF Rules, Coverage
<1> QED
  BY <1>1, IInvInvariant, PTL

(* Without padded strings the preview and the checker ask the same of a    *)
(* grant.                                                                  *)
LEMMA PlainReadings ==
    ASSUME IInv, Plain
    PROVE  /\ \A g \in consents : ScopeContains(g, id) <=> Any \in g.scope \/ id \in g.scope
           /\ \A g \in consents : UseAllowed(g, use) <=> CheckerAllows(g, use)
<1>1. ASSUME NEW g \in consents
      PROVE  ScopeContains(g, id) <=> Any \in g.scope \/ id \in g.scope
  BY DEF Plain, ScopeContains
<1>2. ASSUME NEW g \in consents
      PROVE  UseAllowed(g, use) <=> CheckerAllows(g, use)
  BY DEF Plain, UseAllowed, CheckerAllows
<1> QED
  BY <1>1, <1>2

(* Where no string is padded and the clock is on a millisecond, each       *)
(* answer of the preview names the consent rule the check finds broken,    *)
(* however many grants in whatever periods a case holds.                   *)
THEOREM PreviewPredicts == Spec => []PreviewPredictsCheck
<1>1. IInv => PreviewPredictsCheck
  <2> SUFFICES ASSUME IInv, Plain, UTC(clock) = clock
               PROVE  Rules = CASE Coverage = "covered"      -> {}
                                [] Coverage = "missing"      -> {RuleMissingConsent}
                                [] Coverage = "use_conflict" -> {RuleUseConflict}
                                [] Coverage \in {"expired", "not_yet_valid"} ->
                                      {RuleConsentExpired}
    BY DEF PreviewPredictsCheck
  <2> DEFINE candidates == {g \in consents : ScopeContains(g, id)}
             current == {g \in candidates : Current(g, clock)}
             allowing == {g \in current : UseAllowed(g, use)}
             waiting == {g \in candidates : clock < g.from}
  <2>1. candidates = ApplicableConsents(consents, id)
    BY PlainReadings DEF ApplicableConsents
  <2>2. /\ candidates = {} => waiting = {} /\ current = {}
        /\ current = {} => allowing = {}
    OBVIOUS
  <2>3. allowing = {g \in current : CheckerAllows(g, use)}
    BY PlainReadings
  <2>4. \A g \in candidates : clock \in Nat /\ g.from \in Nat
    BY AgreementAssumption DEF IInv, Grant
  <2>5. Coverage = CASE allowing # {} -> "covered"
                     [] current # {} /\ allowing = {} -> "use_conflict"
                     [] current = {} /\ waiting # {} -> "not_yet_valid"
                     [] current = {} /\ candidates # {} /\ waiting = {} -> "expired"
                     [] candidates = {} -> "missing"
    <3>1. (\E g \in current : UseAllowed(g, use)) <=> allowing # {}
      OBVIOUS
    <3>2. (\A g \in current : ~UseAllowed(g, use)) <=> allowing = {}
      OBVIOUS
    <3>3. (\E g \in candidates : clock < g.from) <=> waiting # {}
      OBVIOUS
    <3>4. (\A g \in candidates : g.from <= clock) <=> waiting = {}
      BY <2>4
    <3> QED
      BY <3>1, <3>2, <3>3, <3>4 DEF Coverage, CoverageAt
  <2>6. Rules = {r \in ConsentRules :
                    \/ r = RuleMissingConsent /\ candidates = {}
                    \/ r = RuleConsentExpired /\ candidates # {} /\ current = {}
                    \/ r = RuleUseConflict /\ current # {} /\ allowing = {}}
    BY <2>1, <2>3 DEF Rules, BrokenConsentRules
  <2> HIDE DEF candidates, current, allowing, waiting
  <2>7. CASE allowing # {}
    BY <2>2, <2>5, <2>6, <2>7 DEF ConsentRules
  <2>8. CASE allowing = {} /\ current # {}
    BY <2>2, <2>5, <2>6, <2>8 DEF ConsentRules
  <2>9. CASE current = {} /\ candidates # {}
    BY <2>2, <2>5, <2>6, <2>9 DEF ConsentRules
  <2>10. CASE candidates = {}
    BY <2>2, <2>5, <2>6, <2>10 DEF ConsentRules
  <2> QED
    BY <2>7, <2>8, <2>9, <2>10
<1> QED
  BY <1>1, IInvInvariant, PTL
=============================================================================
