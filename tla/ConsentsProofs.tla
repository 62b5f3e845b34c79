---------------------------- MODULE ConsentsProofs ----------------------------
(***************************************************************************)
(* Truncation to the millisecond and what it does to the validity of       *)
(* grants, for every length of the millisecond and every set of grants.    *)
(***************************************************************************)
EXTENDS Consents, TLAPS

LEMMA UTCType ==
    ASSUME NEW t \in Nat
    PROVE  UTC(t) \in Nat /\ UTC(t) <= t
  BY ClockAssumption DEF UTC

LEMMA UTCIsMultiple ==
    ASSUME NEW t \in Nat
    PROVE  t \div TicksPerMs \in Nat /\ UTC(t) = TicksPerMs * (t \div TicksPerMs)
  BY ClockAssumption DEF UTC

LEMMA UTCIdempotent ==
    ASSUME NEW t \in Nat
    PROVE  UTC(UTC(t)) = UTC(t)
<1>1. UTC(t) % TicksPerMs = 0
  BY UTCIsMultiple, ClockAssumption
<1> QED
  BY <1>1, UTCType, ClockAssumption DEF UTC

(* A truncated time that has passed has passed on the truncated clock too. *)
LEMMA UTCAfterTruncated ==
    ASSUME NEW s \in Nat, NEW t \in Nat, UTC(s) = s, s <= t
    PROVE  s <= UTC(t)
<1> DEFINE p == s \div TicksPerMs
           q == t \div TicksPerMs
<1>1. p \in Nat /\ q \in Nat /\ s = TicksPerMs * p /\ UTC(t) = TicksPerMs * q
  BY UTCIsMultiple
<1>2. t < UTC(t) + TicksPerMs
  BY ClockAssumption DEF UTC
<1>3. ASSUME q < p PROVE FALSE
  <2>1. TicksPerMs * q + TicksPerMs <= TicksPerMs * p
    BY <1>1, <1>3, ClockAssumption
  <2> QED
    BY <2>1, <1>1, <1>2, UTCType, ClockAssumption
<1>4. p <= q
  BY <1>1, <1>3
<1>5. TicksPerMs * p <= TicksPerMs * q
  BY <1>1, <1>4, ClockAssumption
<1> QED
  BY <1>5, <1>1

(* The dates of a grant are on a millisecond, as AddConsent stores them. *)
Truncated(g) == UTC(g.from) = g.from /\ UTC(g.to) = g.to

(* A grant that is current is current at the start of the millisecond. *)
LEMMA CurrentWhenTruncated ==
    ASSUME NEW g \in Grant, Truncated(g), NEW t \in Nat, Current(g, t)
    PROVE  Current(g, UTC(t))
<1>1. g.from \in Nat /\ g.to \in Nat
  BY DEF Grant
<1>2. g.from <= UTC(t)
  BY <1>1, UTCAfterTruncated DEF Truncated, Current
<1> QED
  BY <1>1, <1>2, UTCType DEF Current

(* A segment without broken consent rules has a grant that is current,     *)
(* names the segment and allows the use.                                   *)
LEMMA CleanMeansGranted ==
    ASSUME NEW consents, NEW use, NEW id, NEW t,
           BrokenConsentRules(consents, use, id, t) = {}
    PROVE  \E g \in ApplicableConsents(consents, id) :
               Current(g, t) /\ CheckerAllows(g, use)
<1> DEFINE grants == ApplicableConsents(consents, id)
           valid == {g \in grants : Current(g, t)}
<1>1. grants # {}
  BY DEF BrokenConsentRules, ConsentRules
<1>2. valid # {}
  BY <1>1 DEF BrokenConsentRules, ConsentRules
<1>3. ~ \A g \in valid : ~CheckerAllows(g, use)
  BY <1>2 DEF BrokenConsentRules, ConsentRules
<1> QED
  BY <1>3

LEMMA GrantedMeansClean ==
    ASSUME NEW consents, NEW use, NEW id, NEW t,
           NEW g \in ApplicableConsents(consents, id),
           Current(g, t), CheckerAllows(g, use)
    PROVE  BrokenConsentRules(consents, use, id, t) = {}
  BY DEF BrokenConsentRules, ConsentRules

(* A segment that breaks no consent rule breaks none at the start of the   *)
(* millisecond, the time its credential carries.                           *)
LEMMA CleanAtMillisecond ==
    ASSUME NEW consents \in SUBSET Grant, \A g \in consents : Truncated(g),
           NEW use, NEW id, NEW t \in Nat,
           BrokenConsentRules(consents, use, id, t) = {}
    PROVE  BrokenConsentRules(consents, use, id, UTC(t)) = {}
<1>1. PICK g \in ApplicableConsents(consents, id) :
          Current(g, t) /\ CheckerAllows(g, use)
  BY CleanMeansGranted
<1>2. g \in Grant /\ Truncated(g)
  BY <1>1 DEF ApplicableConsents
<1>3. Current(g, UTC(t))
  BY <1>1, <1>2, CurrentWhenTruncated
<1> QED
  BY <1>1, <1>3, GrantedMeansClean

(* What passes the checker passes the coverage preview. *)
LEMMA CleanMeansCovered ==
    ASSUME NEW consents \in SUBSET Grant, \A g \in consents : Truncated(g),
           NEW use \in Strings, NEW id \in Strings, Trim[id] = id, NEW t \in Nat,
           BrokenConsentRules(consents, use, id, t) = {}
    PROVE  CoverageAt(consents, use, id, t) = "covered"
<1>1. PICK g \in ApplicableConsents(consents, id) :
          Current(g, t) /\ CheckerAllows(g, use)
  BY CleanMeansGranted
<1>2. g \in consents /\ g \in Grant /\ Truncated(g)
  BY <1>1 DEF ApplicableConsents
<1>3. Current(g, UTC(t))
  BY <1>1, <1>2, CurrentWhenTruncated
<1>4. ScopeContains(g, id)
  BY <1>1, StringsAssumption DEF ApplicableConsents, ScopeContains
<1>5. UseAllowed(g, use)
  BY <1>1, StringsAssumption DEF CheckerAllows, UseAllowed
<1> DEFINE candidates == {h \in consents : ScopeContains(h, id)}
           current == {h \in candidates : Current(h, UTC(t))}
<1>6. g \in current
  BY <1>2, <1>3, <1>4
<1>7. /\ \E h \in current : UseAllowed(h, use)
      /\ ~(\A h \in current : ~UseAllowed(h, use))
      /\ current # {} /\ candidates # {}
  BY <1>5, <1>6
<1> QED
  BY <1>7 DEF CoverageAt
=============================================================================
