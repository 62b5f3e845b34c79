----------------------------- MODULE UserProofs -----------------------------
(***************************************************************************)
(* Theorems about the users of a case: the roles that send its commands    *)
(* (Roles) and the tabs that send them (Workbench).                        *)
(***************************************************************************)
EXTENDS Roles, Workbench, ReleaseCaseProofs

-----------------------------------------------------------------------------
(* Roles *)

(* A reviewer marked what is marked, and what has left the draft, was      *)
(* revised or was approved has been by a role that may.                    *)
RolesInv ==
    /\ revisions # <<>> => "return" \in By("reviewer") /\ "remediate" \in By("organizer")
    /\ state # "draft" => "freeze" \in By("organizer")
    /\ state = "approved" => "approve" \in By("reviewer") \cup By("release_manager")
    /\ \A f \in findings : f.returned => "return" \in By("reviewer")

(* A check marks nothing and revises nothing. *)
LEMMA CheckMarksNothing ==
    ASSUME ReviewInv, Command("check")
    PROVE  /\ state' = state
           /\ \A g \in findings' : g.returned => \E f \in findings : f.returned
           /\ revisions' # <<>> => revisions # <<>>
<1>1. ASSUME NEW targets \in SUBSET Strings, NEW t
      PROVE  \A g \in Check(targets, t) : g.returned => \E f \in findings : f.returned
  <2> DEFINE broken == Broken(targets, t)
             checked == Check(targets, t)
  <2>1. /\ \A g \in checked :
              /\ g \in Finding /\ g.segment \in targets
              /\ <<g.segment, g.rule>> \in broken => g.status = "open"
              /\ <<g.segment, g.rule>> \notin broken => g.status = "closed"
              /\ \/ /\ <<g.segment, g.rule>> \in broken /\ ~g.returned
                    /\ \A f \in findings : <<f.segment, f.rule>> # <<g.segment, g.rule>>
                 \/ \E f \in findings : f.segment = g.segment /\ f.rule = g.rule
                                        /\ f.returned = g.returned
        /\ \A k \in broken : \E g \in checked : g.segment = k[1] /\ g.rule = k[2]
        /\ \A f \in findings : f.segment \in targets =>
              \E g \in checked : g.segment = f.segment /\ g.rule = f.rule
                                 /\ g.returned = f.returned
        /\ \A g, h \in checked : g.segment = h.segment /\ g.rule = h.rule => g = h
    BY CheckParts
  <2> HIDE DEF broken, checked
  <2>2. \A g \in checked : g.returned => \E f \in findings : f.returned
    BY <2>1
  <2> QED
    BY <2>2 DEF checked
<1>2. CASE RunFullCheck
  <2>1. state' = state /\ findings' = Check(Strings, now) /\ revisions' = revisions
    BY <1>2, Zenon DEF RunFullCheck
  <2>2. Strings \in SUBSET Strings
    OBVIOUS
  <2> QED
    BY <1>1, <2>1, <2>2
<1>3. ASSUME NEW targets \in SUBSET Ids(segments), RunTargetedCheck(targets)
      PROVE  /\ state' = state
             /\ \A g \in findings' : g.returned => \E f \in findings : f.returned
             /\ revisions' # <<>> => revisions # <<>>
  <2>1. /\ state' = state /\ revisions' = Annotated(targets, Check(targets, now))
        /\ findings' = {f \in findings : f.segment \notin targets} \cup Check(targets, now)
    BY <1>3, Zenon DEF RunTargetedCheck
  <2>2. targets \in SUBSET Strings
    BY DEF Ids, ReviewInv, TypeOK, Segment
  <2>3. revisions = <<>> => revisions' = <<>>
    BY <2>1 DEF Annotated
  <2> QED
    BY <1>1, <2>1, <2>2, <2>3
<1> QED
  BY <1>2, <1>3, Zenon DEF Command

LEMMA RolesStep ==
    ASSUME ReviewInv, RolesInv, RNext
    PROVE  RolesInv'
<1>1. CASE Tick /\ UNCHANGED acted
  <2>1. acted' = acted /\ state' = state /\ findings' = findings /\ revisions' = revisions
    BY <1>1, Zenon DEF Tick, reviewVars
  <2> QED
    BY <2>1 DEF RolesInv, By
<1>2. ASSUME NEW deed \in Deeds, NEW role \in Allowed(deed), Command(deed),
             acted' = acted \cup {<<deed, role>>}
      PROVE  RolesInv'
  <2>1. /\ \A r : By(r) \subseteq By(r)'
        /\ deed \in By(role)'
    BY <1>2 DEF By
  <2>2. CASE deed = "edit"
    <3>1. state = "draft" /\ state' = "draft" /\ UNCHANGED reviewVars
      BY <1>2, <2>2, Zenon DEF Command, Edit, UpdateMetadata, AddSegment, AddSegmentsBatch,
         UpdateSegment, DeleteSegment, ReplaceConsent
    <3> QED
      BY <2>1, <3>1 DEF RolesInv, reviewVars
  <2>3. CASE deed = "freeze"
    <3>1. role = "organizer" /\ state' = "frozen" /\ UNCHANGED reviewVars
      BY <1>2, <2>3, Zenon DEF Command, Freeze, Allowed
    <3> QED
      BY <2>1, <2>3, <3>1 DEF RolesInv, reviewVars
  <2>4. CASE deed = "add_consent"
    <3>1. /\ state \in {"draft", "frozen", "remediation"}
          /\ state' = IF state = "draft" THEN "draft" ELSE "remediation"
          /\ UNCHANGED reviewVars
      BY <1>2, <2>4, Zenon DEF Command, AddConsent
    <3> QED
      BY <2>1, <3>1 DEF RolesInv, reviewVars
  <2>5. CASE deed = "check"
    BY <1>2, <2>1, <2>5, CheckMarksNothing DEF RolesInv
  <2>6. CASE deed = "return"
    <3>1. /\ role = "reviewer" /\ InReview
          /\ state' = "remediation" /\ revisions' = revisions
      BY <1>2, <2>6, Zenon DEF Command, ReturnFinding, ReturnFindingsBatch, Allowed
    <3> QED
      BY <2>1, <2>6, <3>1 DEF RolesInv, InReview
  <2>7. CASE deed = "remediate"
    <3>1. role = "organizer"
      BY <1>2, <2>7 DEF Allowed
    <3>2. PICK s \in segments, text \in TextInputs, note \in NoteInputs :
              Remediate(s, text, note)
      BY <1>2, <2>7, Zenon DEF Command
    <3>3. InReview /\ state' = "remediation" /\ HasReturnedOpenFinding(s.id)
      BY <3>2, Zenon DEF Remediate
    <3>4. \E f \in findings : f.returned
      BY <3>3 DEF HasReturnedOpenFinding
    <3> QED
      BY <2>1, <2>7, <3>1, <3>3, <3>4 DEF RolesInv, InReview
  <2>8. CASE deed = "approve"
    <3>1. /\ role \in {"reviewer", "release_manager"} /\ InReview
          /\ UNCHANGED <<findings, revisions>>
      BY <1>2, <2>8, Zenon DEF Command, Approve, SealAt, Allowed
    <3> QED
      BY <2>1, <2>8, <3>1 DEF RolesInv, InReview
  <2> QED
    BY <2>2, <2>3, <2>4, <2>5, <2>6, <2>7, <2>8 DEF Deeds
<1> QED
  BY <1>1, <1>2 DEF RNext

(* What a role sends is a command of the case. *)
LEMMA RNextIsNext == RNext => Next
<1> SUFFICES ASSUME NEW deed \in Deeds, Command(deed) PROVE Next
  BY DEF RNext, Next
<1>1. CASE deed = "return"
  BY <1>1, Zenon DEF Command, Next, Review
<1>2. CASE deed = "remediate" \/ deed = "approve" \/ deed = "check"
  BY <1>2, Zenon DEF Command, Next, Review
<1>3. CASE deed = "edit" \/ deed = "freeze" \/ deed = "add_consent"
  BY <1>3, Zenon DEF Command, Next, Draft
<1> QED
  BY <1>1, <1>2, <1>3 DEF Deeds

(* Whatever is published was submitted by an organizer, and was approved   *)
(* by another role; a reviewer returned what was revised and every case    *)
(* with a sensitive segment, whoever checked in between.                   *)
THEOREM NobodyAlone == RSpec => []NoRoleAlone
<1> DEFINE IInv == ReviewInv /\ RolesInv
<1>1. RInit => IInv
  <2> SUFFICES ASSUME RInit PROVE ReviewInv /\ RolesInv
    OBVIOUS
  <2>1. Init
    BY DEF RInit
  <2>2. ReviewInv
    BY <2>1, InitType, TimelineInit, CaseInit DEF ReviewInv
  <2>3. RolesInv
    BY <2>1 DEF Init, RolesInv
  <2> QED
    BY <2>2, <2>3
<1>2. IInv /\ [RNext]_roleVars => IInv'
  <2> SUFFICES ASSUME ReviewInv, RolesInv, [RNext]_roleVars PROVE ReviewInv' /\ RolesInv'
    OBVIOUS
  <2>1. CASE RNext
    BY <2>1, RNextIsNext, NextReview, RolesStep
  <2>2. CASE UNCHANGED roleVars
    <3>1. vars' = vars /\ acted' = acted
      BY <2>2 DEF roleVars
    <3>2. state' = state /\ findings' = findings /\ revisions' = revisions
      BY <3>1 DEF vars, reviewVars
    <3>3. RolesInv'
      BY <3>1, <3>2 DEF RolesInv, By
    <3> QED
      BY <3>1, <3>3, NextReview
  <2> QED
    BY <2>1, <2>2
<1>3. IInv => NoRoleAlone
  <2> SUFFICES ASSUME ReviewInv, RolesInv PROVE NoRoleAlone
    OBVIOUS
  <2>1. state = "approved" /\ SensitiveSegments # {} => "return" \in By("reviewer")
    <3> SUFFICES ASSUME state = "approved", NEW s \in SensitiveSegments
                 PROVE  "return" \in By("reviewer")
      OBVIOUS
    <3>1. SensitiveWasReturned
      BY ReviewedIsReturned
    <3>2. PICK f \in findings : f.returned
      BY <3>1 DEF SensitiveWasReturned, SensitiveSegments
    <3> QED
      BY <3>2 DEF RolesInv
  <2> QED
    BY <2>1 DEF NoRoleAlone, RolesInv
<1> HIDE DEF IInv
<1> QED
  BY <1>1, <1>2, <1>3, PTL DEF RSpec

-----------------------------------------------------------------------------
(* Commands, seen from a tab *)

(* Every command counts a version and stamps its time. *)
LEMMA BumpOrIdle ==
    ASSUME [Next]_vars
    PROVE  \/ Bump
           \/ /\ UNCHANGED <<state, version, updatedAt, draftVars, consents, reviewVars>>
              /\ now' \in {now, now + 1}
<1>1. Edit => Bump
  BY Zenon DEF Edit, UpdateMetadata, AddSegment, AddSegmentsBatch, UpdateSegment,
     DeleteSegment, ReplaceConsent
<1>2. Freeze => Bump
  BY Zenon DEF Freeze
<1>3. Review => Bump
  BY Zenon DEF Review, RunFullCheck, RunTargetedCheck, ReturnFinding, ReturnFindingsBatch,
     Remediate, Approve, SealAt
<1>4. (\E g \in GrantInputs : AddConsent(g)) => Bump
  BY Zenon DEF AddConsent
<1>5. CASE Tick
  BY <1>5, Zenon DEF Tick
<1>6. CASE UNCHANGED vars
  BY <1>6 DEF vars
<1> QED
  BY <1>1, <1>2, <1>3, <1>4, <1>5, <1>6, Zenon DEF Next, Draft

LEMMA RevisionsChange ==
    ASSUME [Next]_vars
    PROVE  \/ \E targets \in SUBSET Ids(segments) : RunTargetedCheck(targets)
           \/ \E s \in segments, proposed \in TextInputs, explanation \in NoteInputs :
                 Remediate(s, proposed, explanation)
           \/ UNCHANGED revisions
<1>1. Edit \/ Freeze => UNCHANGED reviewVars
  BY Zenon DEF Edit, Freeze, UpdateMetadata, AddSegment, AddSegmentsBatch, UpdateSegment,
     DeleteSegment, ReplaceConsent
<1>2. (\E g \in GrantInputs : AddConsent(g)) \/ Tick => UNCHANGED reviewVars
  BY Zenon DEF AddConsent, Tick
<1>3. \/ RunFullCheck
      \/ \E f \in findings, note \in NoteInputs : ReturnFinding(f, note)
      \/ \E batch \in SUBSET findings, note \in NoteInputs : ReturnFindingsBatch(batch, note)
      \/ \E t \in ApprovalTimes : Approve(t)
      => UNCHANGED revisions
  BY Zenon DEF RunFullCheck, ReturnFinding, ReturnFindingsBatch, Approve, SealAt
<1>4. UNCHANGED vars => UNCHANGED reviewVars
  BY DEF vars
<1>5. UNCHANGED reviewVars => UNCHANGED revisions
  BY DEF reviewVars
<1> QED
  BY <1>1, <1>2, <1>3, <1>4, <1>5, Zenon DEF Next, Draft, Review

(* A recheck of one segment notes something on its latest revision that    *)
(* was not rechecked, and on no other.                                     *)
LEMMA AnnotatedParts ==
    ASSUME ReviewInv, TypeOK', NEW targets, NEW checked,
           revisions' = Annotated(targets, checked)
    PROVE  /\ DOMAIN revisions' = DOMAIN revisions
           /\ \A i \in DOMAIN revisions :
                 /\ revisions'[i].submittedVersion = revisions[i].submittedVersion
                 /\ revisions'[i].segment = revisions[i].segment
                 /\ revisions'[i].rechecked = (revisions[i].rechecked \/ Latest(i, targets))
<1>1. DOMAIN revisions = 1 .. Len(revisions) /\ revisions \in [1 .. Len(revisions) -> Revision]
  BY RevisionDomain DEF ReviewInv, TypeOK
<1>2. DOMAIN revisions' = DOMAIN revisions
  BY <1>1 DEF Annotated
<1>3. ASSUME NEW i \in DOMAIN revisions
      PROVE  /\ revisions'[i].submittedVersion = revisions[i].submittedVersion
             /\ revisions'[i].segment = revisions[i].segment
             /\ revisions'[i].rechecked = (revisions[i].rechecked \/ Latest(i, targets))
  <2> DEFINE before == OpenRules(findings, revisions[i].segment)
             after  == OpenRules(checked, revisions[i].segment)
             r == revisions[i]
             noted == [r EXCEPT !.rechecked = TRUE, !.closed = before \ after,
                                !.remaining = before \cap after, !.new = after \ before]
  <2>1. revisions'[i] = IF Latest(i, targets) THEN noted ELSE r
    BY <1>1 DEF Annotated
  <2>2. r \in Revision
    BY <1>1
  <2> HIDE DEF before, after, r
  <2>3. noted.submittedVersion = r.submittedVersion /\ noted.segment = r.segment /\ noted.rechecked
    BY <2>2 DEF Revision
  <2>4. r.rechecked \in BOOLEAN /\ noted.rechecked = TRUE
    BY <2>2 DEF Revision
  <2> HIDE DEF noted
  <2>5. CASE Latest(i, targets)
    BY <2>1, <2>3, <2>4, <2>5 DEF r
  <2>6. CASE ~Latest(i, targets)
    BY <2>1, <2>4, <2>6 DEF r
  <2> QED
    BY <2>5, <2>6
<1> QED
  BY <1>2, <1>3

(* Revisions are submitted one version after the other. *)
SubmitInv ==
    /\ \A i \in DOMAIN revisions : revisions[i].submittedVersion < version
    /\ \A i, j \in DOMAIN revisions :
          i < j => revisions[i].submittedVersion < revisions[j].submittedVersion

ClockInv == updatedAt <= now

LEMMA ClockStep ==
    ASSUME TypeOK, ClockInv, [Next]_vars
    PROVE  ClockInv'
<1>1. CASE Bump
  BY <1>1, UTCType DEF Bump, ClockInv, TypeOK
<1>2. CASE updatedAt' = updatedAt /\ now' \in {now, now + 1}
  BY <1>2 DEF ClockInv, TypeOK
<1> QED
  BY <1>1, <1>2, BumpOrIdle

LEMMA SubmitStep ==
    ASSUME ReviewInv, TypeOK', SubmitInv, [Next]_vars
    PROVE  SubmitInv'
<1>1. version \in Nat /\ version' \in {version, version + 1}
  BY BumpOrIdle DEF Bump, ReviewInv, TypeOK
<1>2. \A i \in DOMAIN revisions : revisions[i].submittedVersion \in Nat
  <2>1. \A i \in DOMAIN revisions : revisions[i] \in Revision
    BY RevisionDomain DEF ReviewInv, TypeOK
  <2> QED
    BY <2>1 DEF Revision
<1>3. CASE UNCHANGED revisions
  BY <1>1, <1>2, <1>3 DEF SubmitInv
<1>4. ASSUME NEW targets \in SUBSET Ids(segments), RunTargetedCheck(targets)
      PROVE  SubmitInv'
  <2>1. revisions' = Annotated(targets, Check(targets, now))
    BY <1>4, Zenon DEF RunTargetedCheck
  <2>2. /\ DOMAIN revisions' = DOMAIN revisions
        /\ \A i \in DOMAIN revisions :
              revisions'[i].submittedVersion = revisions[i].submittedVersion
    BY <2>1, AnnotatedParts
  <2> QED
    BY <1>1, <1>2, <2>2 DEF SubmitInv
<1>5. ASSUME NEW s \in segments, NEW proposed \in TextInputs, NEW explanation \in NoteInputs,
             Remediate(s, proposed, explanation)
      PROVE  SubmitInv'
  <2> DEFINE v == NewRevision(s, proposed, explanation)
             n == Len(revisions) + 1
  <2>1. revisions' = Append(revisions, v) /\ version' = version + 1
    BY <1>5, Zenon DEF Remediate, Bump
  <2>2. v.submittedVersion = version
    BY DEF NewRevision
  <2> HIDE DEF v
  <2>3. /\ n \in Nat \ {0} /\ DOMAIN revisions = 1 .. n - 1 /\ DOMAIN revisions' = 1 .. n
        /\ \A i \in 1 .. n - 1 : revisions'[i] = revisions[i]
        /\ revisions'[n] = v
    BY <2>1, AppendProperties, LenProperties DEF ReviewInv, TypeOK
  <2> HIDE DEF n
  <2>4. \A i \in 1 .. n : i \in 1 .. n - 1 \/ i = n
    BY <2>3
  <2>5. \A i \in DOMAIN revisions' : revisions'[i].submittedVersion < version'
    BY <1>1, <1>2, <2>1, <2>2, <2>3, <2>4 DEF SubmitInv
  <2>6. ASSUME NEW i \in DOMAIN revisions', NEW j \in DOMAIN revisions', i < j
        PROVE  revisions'[i].submittedVersion < revisions'[j].submittedVersion
    <3>1. i \in 1 .. n - 1
      BY <2>3, <2>6
    <3> QED
      BY <2>2, <2>3, <2>4, <2>6, <3>1 DEF SubmitInv
  <2> QED
    BY <2>5, <2>6 DEF SubmitInv
<1> QED
  BY <1>3, <1>4, <1>5, RevisionsChange

-----------------------------------------------------------------------------
(* Tabs *)

(* The view v offers what the case allows. *)
Agrees(v) ==
    /\ v.at <= now
    /\ "edit" \in v.offered => state = "draft"
    /\ "freeze" \in v.offered => state = "draft" /\ (v.at = now => CanFreeze)
    /\ "check" \in v.offered => state = "frozen"
    /\ "remediate" \in v.offered => state = "remediation"
    /\ "add_consent" \in v.offered => state \in {"frozen", "remediation"}
    /\ v.blocked => ~NoOpenBlocker(findings)

(* A view is of a version the case had, and says nothing of later ones. *)
KnownView(v) == v.version <= version /\ (v.version = version => Agrees(v))

ViewsInv == \A t \in Tabs : KnownView(tab[t].shown) /\ KnownView(tab[t].answer)

(* A tab that still has a segment to recheck waits for its remediation to  *)
(* be answered, or sends the recheck with the version of that answer.      *)
Rechecks(r) ==
    r.recheck # Blank =>
        \/ r.sent = "remediate" /\ r.phase = "answered"
        \/ r.sent = "targeted_check" /\ r.phase \in {"sent", "refused"} /\ r.shown = r.answer

BusyInv == \A t \in Tabs : Rechecks(tab[t])

(* A revision that was not rechecked belongs to the tab whose remediation  *)
(* it was, as the version of the answer tells, or its user was told.       *)
Owns(r, v) ==
    \/ v.segment \in r.told
    \/ r.recheck = v.segment /\ r.answer.version = v.submittedVersion + 1

OwnedInv ==
    \A i \in DOMAIN revisions :
        ~revisions[i].rechecked => \E t \in Tabs : Owns(tab[t], revisions[i])

CaseSide == ReviewInv /\ ClockInv /\ SubmitInv
TabSide  == TabsOK /\ ViewsInv /\ BusyInv /\ OwnedInv
WorkInv  == CaseSide /\ TabSide

LEMMA CaseViewType == TypeOK => CaseView \in View
<1> SUFFICES ASSUME TypeOK PROVE CaseView \in View
  OBVIOUS
<1>1. Offered \in SUBSET Actions
  BY Zenon DEF Offered, Actions, TypeOK
<1> QED
  BY <1>1 DEF CaseView, View, TypeOK

LEMMA CaseViewKnown == CaseSide => KnownView(CaseView)
<1> SUFFICES ASSUME CaseSide PROVE KnownView(CaseView)
  OBVIOUS
<1> DEFINE v == CaseView
<1>1. state \in {"draft", "frozen", "remediation", "approved"} /\ version \in Nat /\ now \in Nat
  BY DEF CaseSide, ReviewInv, TypeOK
<1>2. v.version = version /\ v.offered = Offered /\ v.at = IF state = "draft" THEN now ELSE 0
  BY DEF CaseView
<1>3. v.blocked => ~NoOpenBlocker(findings)
  BY Zenon DEF CaseView
<1> HIDE DEF v
<1>4. v.at <= now /\ v.version <= version
  BY <1>1, <1>2
<1>5. /\ "edit" \in Offered => state = "draft"
      /\ "freeze" \in Offered => state = "draft" /\ CanFreeze
      /\ "check" \in Offered => state = "frozen"
      /\ "remediate" \in Offered => state = "remediation"
      /\ "add_consent" \in Offered => state \in {"frozen", "remediation"}
  <2>1. CASE state = "draft"
    <3>1. Offered = {"edit"} \cup (IF CanFreeze THEN {"freeze"} ELSE {})
      BY <2>1 DEF Offered
    <3> QED
      BY <2>1, <3>1
  <2>2. CASE state = "frozen"
    <3>1. Offered = {"check", "return", "approve", "add_consent"}
      BY <2>2 DEF Offered
    <3> QED
      BY <2>2, <3>1
  <2>3. CASE state = "remediation"
    <3>1. Offered = {"remediate", "targeted_check", "approve", "add_consent"}
      BY <2>3 DEF Offered
    <3> QED
      BY <2>3, <3>1
  <2>4. CASE state = "approved"
    <3>1. Offered = {"verify_credential"}
      BY <2>4 DEF Offered
    <3> QED
      BY <2>4, <3>1
  <2> QED
    BY <1>1, <2>1, <2>2, <2>3, <2>4
<1>6. Agrees(v)
  BY <1>2, <1>3, <1>4, <1>5, Zenon DEF Agrees
<1>7. KnownView(v)
  BY <1>4, <1>6, Zenon DEF KnownView
<1> QED
  BY <1>7 DEF v

(* The same of the case a command leaves. *)
LEMMA CaseViewThen == CaseSide' => KnownView(CaseView)' /\ (CaseView \in View)'
<1>1. CaseSide => KnownView(CaseView) /\ CaseView \in View
  BY CaseViewKnown, CaseViewType DEF CaseSide, ReviewInv
<1> QED
  BY <1>1, PTL

LEMMA CaseSideStep == CaseSide /\ [Next]_vars => CaseSide'
<1> SUFFICES ASSUME CaseSide, [Next]_vars PROVE CaseSide'
  OBVIOUS
<1>1. ReviewInv'
  BY NextReview DEF CaseSide
<1>2. TypeOK /\ TypeOK'
  BY <1>1 DEF CaseSide, ReviewInv
<1> QED
  BY <1>1, <1>2, ClockStep, SubmitStep DEF CaseSide

(* What a tab shows goes stale with a command, or stays as true as it was. *)
LEMMA KnownStays ==
    ASSUME CaseSide, [Next]_vars, NEW v \in View, KnownView(v)
    PROVE  KnownView(v)'
<1>1. v.version \in Nat /\ v.at \in Nat /\ version \in Nat /\ now \in Nat
  BY DEF View, CaseSide, ReviewInv, TypeOK
<1>2. CASE Bump
  BY <1>1, <1>2 DEF Bump, KnownView
<1>3. CASE /\ UNCHANGED <<state, version, updatedAt, draftVars, consents, reviewVars>>
           /\ now' \in {now, now + 1}
  <2>1. /\ state' = state /\ version' = version /\ segments' = segments
        /\ intendedUse' = intendedUse /\ consents' = consents /\ findings' = findings
    BY <1>3 DEF draftVars, reviewVars
  <2>2. now' = now => CanFreeze' = CanFreeze
    BY <2>1 DEF CanFreeze
  <2> QED
    BY <1>1, <1>3, <2>1, <2>2 DEF KnownView, Agrees
<1> QED
  BY <1>2, <1>3, BumpOrIdle

(* A tab changes, whether the case does or not. *)
LEMMA TabStep ==
    ASSUME WorkInv, [Next]_vars, NEW t \in Tabs, NEW r \in Tab,
           tab' = [tab EXCEPT ![t] = r], lost' \in 0 .. MaxLost,
           KnownView(r.shown)', KnownView(r.answer)', Rechecks(r)
    PROVE  TabsOK' /\ ViewsInv' /\ BusyInv'
<1>1. tab \in [Tabs -> Tab]
  BY DEF WorkInv, TabSide, TabsOK
<1>2. \A u \in Tabs : tab'[u] = IF u = t THEN r ELSE tab[u]
  BY <1>1
<1>3. TabsOK'
  BY <1>1 DEF TabsOK
<1>4. BusyInv'
  BY <1>2 DEF BusyInv, WorkInv, TabSide
<1>5. ASSUME NEW u \in Tabs, u # t
      PROVE  KnownView(tab[u].shown)' /\ KnownView(tab[u].answer)'
  <2> DEFINE v == tab[u].shown
             w == tab[u].answer
  <2>1. v \in View /\ w \in View
    BY <1>1 DEF Tab
  <2>2. KnownView(v) /\ KnownView(w)
    BY DEF WorkInv, TabSide, ViewsInv
  <2>3. tab'[u] = tab[u]
    BY <1>2, <1>5
  <2> QED
    BY <2>1, <2>2, <2>3, KnownStays DEF WorkInv
<1> QED
  BY <1>2, <1>3, <1>4, <1>5 DEF ViewsInv

(* Only a segment with an id is revised. *)
LEMMA RevisedIsNamed ==
    ASSUME ReviewInv
    PROVE  \A i \in DOMAIN revisions : revisions[i].segment # Blank
<1>1. \A f \in findings : f.segment # Blank
  BY DEF ReviewInv, CaseInv, FindingsAreKeyed, Identified, Ids
<1> QED
  BY <1>1 DEF ReviewInv, CaseInv, ReturnedInv

(* The tab of a revision stays its owner, or tells its user, if it does    *)
(* not forget what it was about to recheck.                                *)
Keeps(old, new) ==
    /\ old.told \subseteq new.told
    /\ \/ old.recheck = Blank
       \/ old.recheck \in new.told
       \/ new.recheck = old.recheck /\ new.answer = old.answer

LEMMA OwnersStay ==
    ASSUME ReviewInv, OwnedInv, NEW t \in Tabs, NEW r, tab \in [Tabs -> Tab],
           tab' = [tab EXCEPT ![t] = r], Keeps(tab[t], r)
    PROVE  \A i \in DOMAIN revisions :
              ~revisions[i].rechecked => \E u \in Tabs : Owns(tab'[u], revisions[i])
<1> SUFFICES ASSUME NEW i \in DOMAIN revisions, ~revisions[i].rechecked
             PROVE  \E u \in Tabs : Owns(tab'[u], revisions[i])
  OBVIOUS
<1>1. PICK u \in Tabs : Owns(tab[u], revisions[i])
  BY DEF OwnedInv
<1>2. revisions[i].segment # Blank
  BY RevisedIsNamed
<1>3. tab'[t] = r /\ (u # t => tab'[u] = tab[u])
  OBVIOUS
<1>4. CASE u = t
  <2>1. Owns(r, revisions[i])
    BY <1>1, <1>2, <1>4 DEF Owns, Keeps
  <2> QED
    BY <1>3, <2>1
<1>5. CASE u # t
  BY <1>1, <1>3, <1>5
<1> QED
  BY <1>4, <1>5

(* A tab changes and the case does not. *)
LEMMA TabMoves ==
    ASSUME WorkInv, UNCHANGED caseVars, NEW t \in Tabs, NEW r \in Tab,
           tab' = [tab EXCEPT ![t] = r], lost' \in 0 .. MaxLost,
           KnownView(r.shown), KnownView(r.answer), Rechecks(r), Keeps(tab[t], r)
    PROVE  WorkInv'
<1>1. [Next]_vars
  BY DEF caseVars
<1>2. r.shown \in View /\ r.answer \in View
  BY DEF Tab
<1>3. CaseSide /\ CaseSide'
  BY <1>1, CaseSideStep DEF WorkInv
<1>4. KnownView(r.shown)' /\ KnownView(r.answer)'
  BY <1>1, <1>2, <1>3, KnownStays
<1>5. TabsOK' /\ ViewsInv' /\ BusyInv'
  BY <1>1, <1>4, TabStep
<1>6. revisions' = revisions
  BY DEF caseVars, vars, reviewVars
<1>7. OwnedInv'
  BY <1>3, <1>6, OwnersStay DEF WorkInv, TabSide, TabsOK, OwnedInv, CaseSide
<1> QED
  BY <1>3, <1>5, <1>7 DEF WorkInv, TabSide

(* What the invariants say of one tab. *)
LEMMA TabParts ==
    ASSUME WorkInv, NEW t \in Tabs
    PROVE  /\ tab[t] \in Tab /\ lost \in 0 .. MaxLost
           /\ KnownView(tab[t].shown) /\ KnownView(tab[t].answer)
           /\ Rechecks(tab[t])
           /\ tab[t].shown \in View /\ tab[t].answer \in View
           /\ tab[t].recheck \in Strings /\ tab[t].told \in SUBSET Strings
BY DEF WorkInv, TabSide, TabsOK, ViewsInv, BusyInv, Tab

LEMMA ReadyParts ==
    ASSUME WorkInv, NEW t \in Tabs, NEW view \in View
    PROVE  /\ Ready(t, view) \in Tab
           /\ Ready(t, view).shown = view /\ Ready(t, view).answer = view
           /\ Ready(t, view).recheck = Blank /\ Ready(t, view).told = tab[t].told
<1>1. tab[t] \in Tab /\ Blank \in Strings
  BY TabParts, StringsAssumption
<1> QED
  BY <1>1 DEF Ready, Tab

LEMMA ClickStep ==
    ASSUME WorkInv, NEW t \in Tabs, NEW action \in Actions, Click(t, action)
    PROVE  WorkInv'
<1> DEFINE new == [tab[t] EXCEPT !.phase = "sent", !.sent = action]
<1>1. /\ tab[t] \in Tab /\ lost \in 0 .. MaxLost
      /\ KnownView(tab[t].shown) /\ KnownView(tab[t].answer)
      /\ Rechecks(tab[t]) /\ tab[t].phase = "ready"
  BY TabParts DEF Click
<1>2. /\ new \in Tab /\ new.shown = tab[t].shown /\ new.answer = tab[t].answer
      /\ new.recheck = tab[t].recheck /\ new.told = tab[t].told
  BY <1>1 DEF Tab
<1>3. tab' = [tab EXCEPT ![t] = new] /\ UNCHANGED <<caseVars, lost>>
  BY DEF Click, Set
<1> HIDE DEF new
<1>4. PICK r \in Tab : r = new
  BY <1>2
<1>5. Rechecks(r) /\ Keeps(tab[t], r)
  BY <1>1, <1>2, <1>4 DEF Rechecks, Keeps
<1> QED
  BY <1>1, <1>2, <1>3, <1>4, <1>5, TabMoves

LEMMA ReloadStep ==
    ASSUME WorkInv, NEW t \in Tabs, Reload(t)
    PROVE  WorkInv'
<1> DEFINE new == Ready(t, CaseView)
<1>1. /\ tab[t].phase = "ready" /\ tab' = [tab EXCEPT ![t] = new]
      /\ UNCHANGED <<caseVars, lost>>
  BY DEF Reload, Set
<1>2. CaseView \in View /\ KnownView(CaseView)
  BY CaseViewType, CaseViewKnown DEF WorkInv, CaseSide, ReviewInv
<1>3. /\ new \in Tab /\ new.shown = CaseView /\ new.answer = CaseView
      /\ new.recheck = Blank /\ new.told = tab[t].told
  BY <1>2, ReadyParts
<1> HIDE DEF new
<1>4. PICK r \in Tab : r = new
  BY <1>3
<1>5. lost \in 0 .. MaxLost /\ Rechecks(tab[t])
  BY TabParts
<1>6. Rechecks(r) /\ Keeps(tab[t], r)
  BY <1>1, <1>3, <1>4, <1>5 DEF Rechecks, Keeps
<1> QED
  BY <1>1, <1>2, <1>3, <1>4, <1>5, <1>6, TabMoves

LEMMA ReceiveStep ==
    ASSUME WorkInv, NEW t \in Tabs, Receive(t)
    PROVE  WorkInv'
<1>1. /\ tab[t] \in Tab /\ lost \in 0 .. MaxLost
      /\ KnownView(tab[t].answer) /\ tab[t].answer \in View
      /\ Rechecks(tab[t]) /\ tab[t].phase = "answered"
      /\ UNCHANGED <<caseVars, lost>>
  BY TabParts DEF Receive
<1>2. CASE tab[t].sent = "remediate"
  <2> DEFINE new == [tab[t] EXCEPT !.shown = tab[t].answer, !.phase = "sent",
                                   !.sent = "targeted_check"]
  <2>1. tab' = [tab EXCEPT ![t] = new]
    BY <1>2 DEF Receive, Set
  <2>2. /\ new \in Tab /\ new.shown = tab[t].answer /\ new.answer = tab[t].answer
        /\ new.recheck = tab[t].recheck /\ new.told = tab[t].told
        /\ new.phase = "sent" /\ new.sent = "targeted_check"
    BY <1>1 DEF Tab, Actions
  <2> HIDE DEF new
  <2>3. PICK r \in Tab : r = new
    BY <2>2
  <2>4. Rechecks(r) /\ Keeps(tab[t], r)
    BY <2>2, <2>3 DEF Rechecks, Keeps
  <2> QED
    BY <1>1, <2>1, <2>2, <2>3, <2>4, TabMoves
<1>3. CASE tab[t].sent # "remediate"
  <2> DEFINE new == Ready(t, tab[t].answer)
  <2>1. tab' = [tab EXCEPT ![t] = new]
    BY <1>3 DEF Receive, Set
  <2>2. /\ new \in Tab /\ new.shown = tab[t].answer /\ new.answer = tab[t].answer
        /\ new.recheck = Blank /\ new.told = tab[t].told
    BY <1>1, ReadyParts
  <2> HIDE DEF new
  <2>3. PICK r \in Tab : r = new
    BY <2>2
  <2>4. Rechecks(r) /\ Keeps(tab[t], r)
    BY <1>1, <1>3, <2>2, <2>3 DEF Rechecks, Keeps
  <2> QED
    BY <1>1, <2>1, <2>2, <2>3, <2>4, TabMoves
<1> QED
  BY <1>2, <1>3

LEMMA FailStep ==
    ASSUME WorkInv, NEW t \in Tabs, Fail(t), UNCHANGED caseVars, lost' \in 0 .. MaxLost
    PROVE  WorkInv'
<1> DEFINE calm == Ready(t, tab[t].shown)
           told == tab[t].told \cup (IF tab[t].recheck = Blank THEN {} ELSE {tab[t].recheck})
           new  == [calm EXCEPT !.told = told]
<1>1. /\ KnownView(tab[t].shown) /\ tab[t].shown \in View
      /\ tab[t].recheck \in Strings /\ tab[t].told \in SUBSET Strings
  BY TabParts
<1>2. /\ calm \in Tab /\ calm.shown = tab[t].shown /\ calm.answer = tab[t].shown
      /\ calm.recheck = Blank /\ calm.told = tab[t].told
  BY <1>1, ReadyParts
<1>3. told \in SUBSET Strings
  BY <1>1
<1>4. tab' = [tab EXCEPT ![t] = new]
  BY <1>2 DEF Fail, Set
<1>5. tab[t].told \subseteq told /\ (tab[t].recheck = Blank \/ tab[t].recheck \in told)
  OBVIOUS
<1> HIDE DEF calm, told
<1>6. /\ new \in Tab /\ new.shown = tab[t].shown /\ new.answer = tab[t].shown
      /\ new.recheck = Blank /\ new.told = told
  BY <1>2, <1>3 DEF Tab
<1> HIDE DEF new
<1>7. PICK r \in Tab : r = new
  BY <1>6
<1>8. Rechecks(r) /\ Keeps(tab[t], r)
  BY <1>5, <1>6, <1>7 DEF Rechecks, Keeps
<1> QED
  BY <1>1, <1>4, <1>6, <1>7, <1>8, TabMoves

LEMMA RefuseStep ==
    ASSUME WorkInv, NEW t \in Tabs, Refuse(t)
    PROVE  WorkInv'
<1> DEFINE new == [tab[t] EXCEPT !.phase = "refused"]
<1>1. /\ tab[t] \in Tab /\ lost \in 0 .. MaxLost
      /\ KnownView(tab[t].shown) /\ KnownView(tab[t].answer)
      /\ Rechecks(tab[t]) /\ tab[t].phase = "sent"
  BY TabParts DEF Refuse
<1>2. /\ new \in Tab /\ new.shown = tab[t].shown /\ new.answer = tab[t].answer
      /\ new.recheck = tab[t].recheck /\ new.told = tab[t].told
      /\ new.phase = "refused" /\ new.sent = tab[t].sent
  BY <1>1 DEF Tab
<1>3. tab' = [tab EXCEPT ![t] = new] /\ UNCHANGED <<caseVars, lost>>
  BY DEF Refuse, Set
<1> HIDE DEF new
<1>4. PICK r \in Tab : r = new
  BY <1>2
<1>5. Rechecks(r) /\ Keeps(tab[t], r)
  BY <1>1, <1>2, <1>4 DEF Rechecks, Keeps
<1> QED
  BY <1>1, <1>2, <1>3, <1>4, <1>5, TabMoves

(* The clock ticks, or nothing happens. *)
LEMMA TabsWait ==
    ASSUME WorkInv, [Next]_vars, UNCHANGED <<tab, lost, revisions>>
    PROVE  WorkInv'
<1>1. CaseSide' /\ CaseSide
  BY CaseSideStep DEF WorkInv
<1>2. ASSUME NEW t \in Tabs
      PROVE  KnownView(tab[t].shown)' /\ KnownView(tab[t].answer)'
  <2>1. PICK v \in View : v = tab[t].shown
    BY TabParts
  <2>2. PICK w \in View : w = tab[t].answer
    BY TabParts
  <2>3. KnownView(v) /\ KnownView(w)
    BY <2>1, <2>2, TabParts
  <2>4. KnownView(v)' /\ KnownView(w)'
    BY <1>1, <2>3, KnownStays
  <2>5. tab' = tab
    OBVIOUS
  <2> QED
    BY <2>1, <2>2, <2>4, <2>5
<1>3. ViewsInv'
  BY <1>2 DEF ViewsInv
<1> QED
  BY <1>1, <1>3 DEF WorkInv, TabSide, TabsOK, BusyInv, OwnedInv

(* A command is answered. *)
LEMMA AnswerStep ==
    ASSUME WorkInv, [Next]_vars, NEW t \in Tabs, NEW recheck \in Strings,
           tab[t].phase = "sent", recheck # Blank => tab[t].sent = "remediate",
           Answer(t, recheck), UNCHANGED lost
    PROVE  /\ CaseSide' /\ TabsOK' /\ ViewsInv' /\ BusyInv'
           /\ \E r \in Tab :
                 /\ tab' = [tab EXCEPT ![t] = r]
                 /\ r.told = tab[t].told /\ r.recheck = recheck
                 /\ r.answer.version = version'
<1> DEFINE view == CaseView'
           new  == [tab[t] EXCEPT !.answer = view, !.phase = "answered", !.recheck = recheck]
<1>1. CaseSide'
  BY CaseSideStep DEF WorkInv
<1>2. view \in View
  BY <1>1, CaseViewThen
<1>3. view.version = version'
  BY DEF CaseView
<1>4. tab' = [tab EXCEPT ![t] = new]
  BY DEF Answer, Set
<1> HIDE DEF view
<1>5. /\ tab[t] \in Tab /\ lost \in 0 .. MaxLost /\ tab[t].shown \in View
      /\ KnownView(tab[t].shown)
  BY TabParts
<1>6. /\ new \in Tab /\ new.shown = tab[t].shown /\ new.answer = view
      /\ new.recheck = recheck /\ new.told = tab[t].told
      /\ new.phase = "answered" /\ new.sent = tab[t].sent
  BY <1>2, <1>5 DEF Tab
<1> HIDE DEF new
<1>7. PICK r \in Tab : r = new
  BY <1>6
<1>8. r.shown \in View /\ KnownView(r.shown)
  BY <1>5, <1>6, <1>7
<1>9. KnownView(r.shown)'
  BY <1>8, KnownStays DEF WorkInv
<1>10. KnownView(r.answer)'
  <2>1. r.answer = CaseView'
    BY <1>6, <1>7 DEF view
  <2> QED
    BY <1>1, <2>1, CaseViewThen DEF KnownView, Agrees
<1>11. Rechecks(r)
  BY <1>6, <1>7 DEF Rechecks
<1>12. TabsOK' /\ ViewsInv' /\ BusyInv'
  BY <1>4, <1>5, <1>7, <1>9, <1>10, <1>11, TabStep
<1> QED
  BY <1>1, <1>3, <1>4, <1>6, <1>7, <1>12

(* A command that submits no remediation and rechecks none. *)
LEMMA ServePlainly ==
    ASSUME WorkInv, [Next]_vars, NEW t \in Tabs, tab[t].phase = "sent",
           tab[t].sent # "targeted_check", Answer(t, Blank), UNCHANGED <<lost, revisions>>
    PROVE  WorkInv'
<1>1. Blank \in Strings
  BY StringsAssumption
<1>2. PICK r \in Tab : tab' = [tab EXCEPT ![t] = r] /\ r.told = tab[t].told
  BY <1>1, AnswerStep
<1>3. CaseSide' /\ TabsOK' /\ ViewsInv' /\ BusyInv'
  BY <1>1, AnswerStep
<1>4. Keeps(tab[t], r)
  BY <1>2, TabParts DEF Rechecks, Keeps
<1>5. OwnedInv'
  BY <1>2, <1>4, OwnersStay DEF WorkInv, TabSide, TabsOK, OwnedInv, CaseSide
<1> QED
  BY <1>3, <1>5 DEF WorkInv, TabSide

(* A remediation: its revision is the new one of the tab. *)
LEMMA ServeRemediation ==
    ASSUME WorkInv, [Next]_vars, NEW t \in Tabs, tab[t].phase = "sent",
           tab[t].sent = "remediate", NEW s \in segments, NEW text \in TextInputs,
           NEW note \in NoteInputs, Remediate(s, text, note), Answer(t, s.id), UNCHANGED lost
    PROVE  WorkInv'
<1>1. s.id \in Strings
  BY DEF WorkInv, CaseSide, ReviewInv, TypeOK, Segment
<1>2. PICK r \in Tab : /\ tab' = [tab EXCEPT ![t] = r]
                       /\ r.told = tab[t].told /\ r.recheck = s.id
                       /\ r.answer.version = version'
  BY <1>1, AnswerStep
<1>3. CaseSide' /\ TabsOK' /\ ViewsInv' /\ BusyInv'
  BY <1>1, AnswerStep
<1>4. Keeps(tab[t], r)
  BY <1>2, TabParts DEF Rechecks, Keeps
<1>5. \A i \in DOMAIN revisions :
         ~revisions[i].rechecked => \E u \in Tabs : Owns(tab'[u], revisions[i])
  BY <1>2, <1>4, OwnersStay DEF WorkInv, TabSide, TabsOK, CaseSide
<1> DEFINE v == NewRevision(s, text, note)
           n == Len(revisions) + 1
<1>6. revisions' = Append(revisions, v) /\ version' = version + 1
  BY Zenon DEF Remediate, Bump
<1>7. v.submittedVersion = version /\ v.segment = s.id
  BY DEF NewRevision
<1> HIDE DEF v
<1>8. /\ n \in Nat \ {0} /\ DOMAIN revisions = 1 .. n - 1 /\ DOMAIN revisions' = 1 .. n
      /\ \A i \in 1 .. n - 1 : revisions'[i] = revisions[i]
      /\ revisions'[n] = v
  BY <1>6, AppendProperties, LenProperties DEF WorkInv, CaseSide, ReviewInv, TypeOK
<1> HIDE DEF n
<1>9. \A i \in 1 .. n : i \in 1 .. n - 1 \/ i = n
  BY <1>8
<1>10. tab'[t] = r
  BY <1>2 DEF WorkInv, TabSide, TabsOK
<1>11. Owns(tab'[t], v)
  BY <1>2, <1>6, <1>7, <1>10 DEF Owns
<1>12. OwnedInv'
  BY <1>5, <1>8, <1>9, <1>11 DEF OwnedInv
<1> QED
  BY <1>3, <1>12 DEF WorkInv, TabSide

(* A recheck: the tab sends the version its remediation was answered with, *)
(* so that the revision is the last one, and the one that is rechecked.    *)
LEMMA ServeRecheck ==
    ASSUME WorkInv, [Next]_vars, NEW t \in Tabs, tab[t].phase = "sent",
           tab[t].sent = "targeted_check", tab[t].shown.version = version,
           RunTargetedCheck({tab[t].recheck}), Answer(t, Blank), UNCHANGED lost
    PROVE  WorkInv'
<1> DEFINE targets == {tab[t].recheck}
<1>1. Blank \in Strings
  BY StringsAssumption
<1>2. PICK r \in Tab : tab' = [tab EXCEPT ![t] = r] /\ r.told = tab[t].told
  BY <1>1, AnswerStep
<1>3. CaseSide' /\ TabsOK' /\ ViewsInv' /\ BusyInv'
  BY <1>1, AnswerStep
<1>4. revisions' = Annotated(targets, Check(targets, now))
  BY Zenon DEF RunTargetedCheck
<1>5. ReviewInv /\ TypeOK'
  BY <1>3 DEF WorkInv, CaseSide, ReviewInv
<1> HIDE DEF targets
<1>6. /\ DOMAIN revisions' = DOMAIN revisions
      /\ \A i \in DOMAIN revisions :
            /\ revisions'[i].submittedVersion = revisions[i].submittedVersion
            /\ revisions'[i].segment = revisions[i].segment
            /\ revisions'[i].rechecked = (revisions[i].rechecked \/ Latest(i, targets))
  BY <1>4, <1>5, AnnotatedParts
<1>7. \A u \in Tabs : tab'[u] = IF u = t THEN r ELSE tab[u]
  BY <1>2 DEF WorkInv, TabSide, TabsOK
<1>8. ASSUME NEW i \in DOMAIN revisions, ~revisions'[i].rechecked
      PROVE  \E u \in Tabs : Owns(tab'[u], revisions'[i])
  <2>1. ~revisions[i].rechecked /\ ~Latest(i, targets)
    BY <1>6, <1>8
  <2>2. PICK u \in Tabs : Owns(tab[u], revisions[i])
    BY <2>1 DEF WorkInv, TabSide, OwnedInv
  <2>3. revisions[i].segment # Blank
    BY <1>5, RevisedIsNamed
  <2>4. CASE u # t
    <3>1. Owns(tab'[u], revisions'[i])
      BY <1>6, <1>7, <2>2, <2>4 DEF Owns
    <3> QED
      BY <3>1
  <2>5. CASE u = t /\ revisions[i].segment \in tab[t].told
    <3>1. Owns(tab'[t], revisions'[i])
      BY <1>2, <1>6, <1>7, <2>5 DEF Owns
    <3> QED
      BY <3>1
  <2>6. CASE /\ revisions[i].segment = tab[t].recheck
             /\ tab[t].answer.version = revisions[i].submittedVersion + 1
    <3>1. tab[t].shown = tab[t].answer
      BY <2>3, <2>6, TabParts DEF Rechecks
    <3>2. revisions[i].submittedVersion + 1 = version
      BY <2>6, <3>1
    <3>3. /\ version \in Nat /\ DOMAIN revisions = 1 .. Len(revisions) /\ Len(revisions) \in Nat
          /\ \A j \in DOMAIN revisions : revisions[j].submittedVersion \in Nat
      <4>1. TypeOK
        BY <1>5 DEF ReviewInv
      <4>2. \A j \in DOMAIN revisions : revisions[j] \in Revision
        BY <4>1, RevisionDomain DEF TypeOK
      <4> QED
        BY <4>1, <4>2, RevisionDomain DEF TypeOK, Revision
    <3>4. \A j \in i + 1 .. Len(revisions) : FALSE
      <4> SUFFICES ASSUME NEW j \in i + 1 .. Len(revisions) PROVE FALSE
        OBVIOUS
      <4>1. j \in DOMAIN revisions /\ i < j
        BY <3>3
      <4>2. /\ revisions[j].submittedVersion < version
            /\ revisions[i].submittedVersion < revisions[j].submittedVersion
        BY <4>1 DEF WorkInv, CaseSide, SubmitInv
      <4> QED
        BY <3>2, <3>3, <4>1, <4>2
    <3>5. Latest(i, targets)
      BY <2>1, <2>6, <3>4 DEF Latest, targets
    <3> QED
      BY <2>1, <3>5
  <2> QED
    BY <2>2, <2>4, <2>5, <2>6 DEF Owns
<1>9. OwnedInv'
  BY <1>6, <1>8 DEF OwnedInv
<1> QED
  BY <1>3, <1>9 DEF WorkInv, TabSide

LEMMA ServeStep ==
    ASSUME WorkInv, NEW t \in Tabs, Serve(t)
    PROVE  Next /\ WorkInv'
<1>1. /\ tab[t].phase = "sent" /\ tab[t].shown.version = version /\ UNCHANGED lost
  BY DEF Serve
<1>2. ASSUME Next, UNCHANGED revisions, tab[t].sent # "targeted_check", Answer(t, Blank)
      PROVE  Next /\ WorkInv'
  BY <1>1, <1>2, ServePlainly
<1>3. CASE tab[t].sent = "edit" /\ Edit /\ Answer(t, Blank)
  <2>1. UNCHANGED revisions
    BY <1>3, Zenon DEF Edit, UpdateMetadata, AddSegment, AddSegmentsBatch, UpdateSegment,
       DeleteSegment, ReplaceConsent, reviewVars
  <2> QED
    BY <1>2, <1>3, <2>1 DEF Next, Draft
<1>4. CASE /\ tab[t].sent = "add_consent" /\ Answer(t, Blank)
           /\ \E g \in GrantInputs : AddConsent(g)
  <2>1. UNCHANGED revisions
    BY <1>4, Zenon DEF AddConsent, reviewVars
  <2> QED
    BY <1>2, <1>4, <2>1 DEF Next
<1>5. CASE tab[t].sent = "freeze" /\ Freeze /\ Answer(t, Blank)
  <2>1. UNCHANGED revisions
    BY <1>5, Zenon DEF Freeze, reviewVars
  <2> QED
    BY <1>2, <1>5, <2>1 DEF Next, Draft
<1>6. CASE tab[t].sent = "check" /\ RunFullCheck /\ Answer(t, Blank)
  <2>1. UNCHANGED revisions
    BY <1>6, Zenon DEF RunFullCheck
  <2> QED
    BY <1>2, <1>6, <2>1 DEF Next, Review
<1>7. CASE tab[t].sent = "return" /\ Return /\ Answer(t, Blank)
  <2>1. UNCHANGED revisions
    BY <1>7, Zenon DEF Return, ReturnFinding, ReturnFindingsBatch
  <2>2. Next
    BY <1>7, Zenon DEF Return, Next, Review
  <2> QED
    BY <1>2, <1>7, <2>1, <2>2
<1>8. CASE tab[t].sent = "approve" /\ Approve(now) /\ Answer(t, Blank)
  <2>1. UNCHANGED revisions
    BY <1>8, Zenon DEF Approve, SealAt
  <2>2. now \in ApprovalTimes
    BY DEF ApprovalTimes, WorkInv, CaseSide, ClockInv, ReviewInv, TypeOK
  <2> QED
    BY <1>2, <1>8, <2>1, <2>2 DEF Next, Review
<1>9. ASSUME tab[t].sent = "remediate", NEW s \in segments, NEW text \in TextInputs,
             NEW note \in NoteInputs, Remediate(s, text, note), Answer(t, s.id)
      PROVE  Next /\ WorkInv'
  <2>1. Next
    BY <1>9, Zenon DEF Next, Review
  <2> QED
    BY <1>1, <1>9, <2>1, ServeRemediation
<1>10. CASE /\ tab[t].sent = "targeted_check" /\ Answer(t, Blank)
            /\ RunTargetedCheck({tab[t].recheck})
  <2>1. {tab[t].recheck} \in SUBSET Ids(segments)
    BY <1>10 DEF RunTargetedCheck
  <2>2. Next
    BY <1>10, <2>1, Zenon DEF Next, Review
  <2> QED
    BY <1>1, <1>10, <2>2, ServeRecheck
<1> QED
  BY <1>3, <1>4, <1>5, <1>6, <1>7, <1>8, <1>9, <1>10, Zenon DEF Serve

LEMMA WorkInit == WInit => WorkInv
<1> SUFFICES ASSUME WInit PROVE WorkInv
  OBVIOUS
<1>1. Init
  BY DEF WInit
<1>2. ReviewInv
  BY <1>1, InitType, TimelineInit, CaseInit DEF ReviewInv
<1>3. ClockInv /\ revisions = <<>>
  <2>1. UTC(0) <= 0
    BY UTCType
  <2> QED
    BY <1>1, <2>1 DEF Init, ClockInv
<1>4. CaseSide
  BY <1>2, <1>3 DEF CaseSide, SubmitInv
<1>5. CaseView \in View /\ KnownView(CaseView) /\ Blank \in Strings
  BY <1>2, <1>4, CaseViewType, CaseViewKnown, StringsAssumption DEF ReviewInv
<1>6. /\ Fresh \in Tab /\ Fresh.shown = CaseView /\ Fresh.answer = CaseView
      /\ Fresh.recheck = Blank
  BY <1>5 DEF Fresh, Tab
<1>7. tab = [t \in Tabs |-> Fresh] /\ lost = 0
  BY DEF WInit
<1>8. TabsOK
  BY <1>6, <1>7, LostAssumption DEF TabsOK
<1>9. ViewsInv /\ BusyInv
  BY <1>5, <1>6, <1>7 DEF ViewsInv, BusyInv, Rechecks
<1>10. OwnedInv
  BY <1>3 DEF OwnedInv
<1> QED
  BY <1>4, <1>8, <1>9, <1>10 DEF WorkInv, TabSide

LEMMA WorkStep == WorkInv /\ [WNext]_allVars => WorkInv'
<1> SUFFICES ASSUME WorkInv, [WNext]_allVars PROVE WorkInv'
  OBVIOUS
<1>1. ASSUME NEW t \in Tabs, NEW action \in Actions, Click(t, action) PROVE WorkInv'
  BY <1>1, ClickStep
<1>2. ASSUME NEW t \in Tabs, Reload(t) PROVE WorkInv'
  BY <1>2, ReloadStep
<1>3. ASSUME NEW t \in Tabs, Receive(t) PROVE WorkInv'
  BY <1>3, ReceiveStep
<1>4. ASSUME NEW t \in Tabs, ReceiveError(t) PROVE WorkInv'
  <2>1. Fail(t) /\ UNCHANGED caseVars /\ lost' \in 0 .. MaxLost
    BY <1>4, TabParts DEF ReceiveError
  <2> QED
    BY <2>1, FailStep
<1>5. ASSUME NEW t \in Tabs, Lose(t) PROVE WorkInv'
  <2>1. lost' \in 0 .. MaxLost
    BY <1>5, TabParts, LostAssumption DEF Lose
  <2>2. Fail(t) /\ UNCHANGED caseVars
    BY <1>5 DEF Lose
  <2> QED
    BY <2>1, <2>2, FailStep
<1>6. ASSUME NEW t \in Tabs, Serve(t) PROVE WorkInv'
  BY <1>6, ServeStep
<1>7. ASSUME NEW t \in Tabs, Refuse(t) PROVE WorkInv'
  BY <1>7, RefuseStep
<1>8. CASE Tick /\ UNCHANGED <<tab, lost>>
  <2>1. Next /\ UNCHANGED revisions
    BY <1>8, Zenon DEF Next, Tick, reviewVars
  <2> QED
    BY <1>8, <2>1, TabsWait
<1>9. CASE UNCHANGED allVars
  <2>1. UNCHANGED vars /\ UNCHANGED <<tab, lost>>
    BY <1>9 DEF allVars, caseVars
  <2>2. UNCHANGED revisions
    BY <2>1 DEF vars, reviewVars
  <2> QED
    BY <2>1, <2>2, TabsWait
<1> QED
  BY <1>1, <1>2, <1>3, <1>4, <1>5, <1>6, <1>7, <1>8, <1>9, Zenon DEF WNext

LEMMA WorkInvariance == WSpec => []WorkInv
BY WorkInit, WorkStep, PTL DEF WSpec

-----------------------------------------------------------------------------
(* What users of the tabs can rely on *)

(* A tab is always in one of the states render and mutate of app.js put it *)
(* in, with views the server built.                                        *)
THEOREM TabsAreTyped == WSpec => []TabsOK
<1>1. WorkInv => TabsOK
  BY DEF WorkInv, TabSide
<1> QED
  BY <1>1, WorkInvariance, PTL

(* Who has findings open to return is in review: nothing is found in a     *)
(* draft, and nothing is left open by an approval.                         *)
LEMMA OpenIsInReview ==
    ASSUME ReviewInv, ~NoOpenBlocker(findings)
    PROVE  InReview /\ \E f \in findings : f.status = "open"
BY DEF ReviewInv, TypeOK, CaseInv, DraftInv, ApprovedIsClean, NoOpenBlocker, InReview

(* A button is enabled only by a view that offers its command, and a view  *)
(* of the current version offers what the case allows (view.go:25 and      *)
(* render of app.js), whatever other tabs did.                             *)
THEOREM ButtonsWork == WSpec => []EnabledIsAccepted
<1>1. WorkInv => EnabledIsAccepted
  <2> SUFFICES ASSUME WorkInv, NEW t \in Tabs, tab[t].shown.version = version
               PROVE  LET enabled == Enabled(tab[t].shown) IN
                      /\ "edit" \in enabled => state = "draft"
                      /\ "freeze" \in enabled /\ tab[t].shown.at = now =>
                             /\ segments # {} /\ ValidTimeline(segments)
                             /\ \A s \in segments :
                                    CoverageAt(consents, intendedUse, s.id, now) = "covered"
                      /\ "check" \in enabled => InReview
                      /\ "return" \in enabled => InReview /\ \E f \in findings : f.status = "open"
                      /\ "remediate" \in enabled => state = "remediation"
                      /\ "add_consent" \in enabled => state # "approved"
    BY DEF EnabledIsAccepted
  <2> DEFINE v == tab[t].shown
  <2>1. ReviewInv /\ Agrees(v)
    BY TabParts DEF WorkInv, CaseSide, KnownView
  <2>2. v.blocked \in BOOLEAN
    BY TabParts DEF View
  <2> HIDE DEF v
  <2>3. \A a \in {"edit", "freeze", "check", "remediate"} :
           a \in Enabled(v) => a \in v.offered
    BY DEF Enabled
  <2>4. "add_consent" \in Enabled(v) => "edit" \in v.offered \/ "add_consent" \in v.offered
    BY DEF Enabled
  <2>5. "return" \in Enabled(v) => v.blocked
    BY <2>2 DEF Enabled
  <2>6. "freeze" \in v.offered /\ v.at = now =>
           /\ segments # {} /\ ValidTimeline(segments)
           /\ \A s \in segments : CoverageAt(consents, intendedUse, s.id, now) = "covered"
    <3>1. ValidTimeline(segments)
      BY <2>1, DisjointIsValid DEF ReviewInv, TimelineInv
    <3> QED
      BY <2>1, <3>1 DEF Agrees, CanFreeze
  <2>7. "return" \in Enabled(v) => InReview /\ \E f \in findings : f.status = "open"
    BY <2>1, <2>5, OpenIsInReview DEF Agrees
  <2> QED
    BY <2>1, <2>3, <2>4, <2>6, <2>7 DEF Agrees, InReview, v
<1> QED
  BY <1>1, WorkInvariance, PTL

(* "Submit the remediation and recheck" leaves no revision unchecked       *)
(* behind the back of its author (app.js:8), however many segments, tabs   *)
(* and lost answers there are.                                             *)
THEOREM RecheckOrTold == WSpec => []NoSilentRecheck
<1>1. WorkInv => NoSilentRecheck
  BY DEF WorkInv, TabSide, OwnedInv, Owns, NoSilentRecheck
<1> QED
  BY <1>1, WorkInvariance, PTL

=============================================================================
