-------------------------- MODULE ReleaseCaseProofs --------------------------
(***************************************************************************)
(* Theorems about ReleaseCase, for all inputs, bounds and lengths of the   *)
(* millisecond: first types and the timeline, then findings, revisions,    *)
(* approval and publication, and the refinement of the lifecycle.          *)
(*                                                                         *)
(* The properties of the second part lean on each other, so one inductive  *)
(* invariant, ReviewInv, has them all: a sensitive segment was revised     *)
(* because its disposition is not blank, it has a disposition because of   *)
(* its revisions, and the revisions of a segment are of that segment alone *)
(* because no two have one id.                                             *)
(***************************************************************************)
EXTENDS ReleaseCaseRefinement, ConsentsProofs, SequenceTheorems, FiniteSetTheorems,
        WellFoundedInduction

-----------------------------------------------------------------------------
(* What the timeline's neighbours tell *)

(* Every segment has a start of 0 or more and an end after it. *)
WellTimed(S) == \A s \in S : s.start \in Nat /\ s.end \in Int /\ s.end > s.start

LEMMA LeastNat ==
    ASSUME NEW T, T \subseteq Nat, T # {}
    PROVE  \E x \in T : \A y \in T : x <= y
<1> DEFINE R == OpToRel(<, Nat)
<1>1. PICK x \in T : \A y \in T : ~(<<y, x>> \in R)
  <2>1. IsWellFoundedOn(R, Nat)
    BY NatLessThanWellFounded
  <2> QED
    BY <2>1, WFMin
<1>2. ASSUME NEW y \in T PROVE x <= y
  <2>1. ~(<<y, x>> \in OpToRel(<, Nat))
    BY <1>1, <1>2
  <2>2. ~(y < x)
    BY <2>1 DEF OpToRel
  <2> QED
    BY <2>2
<1> QED
  BY <1>2

(* Of the segments that start after s and not after t, the first one is    *)
(* s's neighbour: if s reached into t, s would reach into its neighbour.   *)
LEMMA NeighboursSuffice ==
    ASSUME NEW S, WellTimed(S),
           \A s, t \in S : Adjacent(S, s, t) => s.end <= t.start
    PROVE  Disjoint(S)
<1> SUFFICES ASSUME NEW s \in S, NEW t \in S, s # t, s.start <= t.start
             PROVE  s.end <= t.start
  <2>1. \A s, t \in S : s.start <= t.start \/ t.start <= s.start
    BY DEF WellTimed
  <2> QED
    BY <2>1 DEF Disjoint
<1>1. CASE s.start = t.start
  BY <1>1 DEF Adjacent, WellTimed
<1>2. CASE s.start # t.start
  <2> DEFINE Between == {u \in S : s.start < u.start /\ u.start <= t.start}
             Starts == {u.start : u \in Between}
  <2>1. t \in Between
    BY <1>2 DEF WellTimed
  <2>2. Starts \subseteq Nat /\ Starts # {}
    BY <2>1 DEF WellTimed
  <2>3. PICK x \in Starts : \A y \in Starts : x <= y
    <3> HIDE DEF Starts
    <3> QED
      BY <2>2, LeastNat
  <2>4. PICK u \in Between : u.start = x
    BY <2>3
  <2>5. Adjacent(S, s, u)
    <3>1. ASSUME NEW v \in S, s.start < v.start, v.start < u.start
          PROVE  FALSE
      <4>1. v \in Between
        BY <2>4, <3>1 DEF WellTimed
      <4>2. u.start <= v.start
        BY <4>1, <2>3, <2>4
      <4> QED
        BY <4>2, <3>1 DEF WellTimed
    <3> QED
      BY <3>1, <2>4 DEF Adjacent, WellTimed
  <2>6. s.end <= u.start
    BY <2>5, <2>4
  <2> QED
    BY <2>6, <2>4 DEF WellTimed
<1> QED
  BY <1>1, <1>2

(* A timeline that passes the code's comparison of neighbours has no two   *)
(* overlapping segments at all.                                            *)
LEMMA ValidTimelineIsDisjoint ==
    ASSUME NEW S, \A s \in S : s.start \in Int /\ s.end \in Int, ValidTimeline(S)
    PROVE  WellTimed(S) /\ Disjoint(S)
<1>1. WellTimed(S)
  BY DEF WellTimed, ValidTimeline
<1> QED
  BY <1>1, NeighboursSuffice DEF ValidTimeline

(* And the other way round: a disjoint timeline passes. *)
LEMMA DisjointIsValid ==
    ASSUME NEW S, WellTimed(S), Disjoint(S)
    PROVE  ValidTimeline(S)
<1>1. ASSUME NEW s \in S, NEW t \in S, s # t, s.start <= t.start
      PROVE  s.end <= t.start
  BY <1>1 DEF WellTimed, Disjoint
<1> QED
  BY <1>1 DEF WellTimed, ValidTimeline, Adjacent

(* A subset of a disjoint timeline is one. *)
LEMMA SubsetDisjoint ==
    ASSUME NEW S, NEW T, T \subseteq S, WellTimed(S), Disjoint(S)
    PROVE  WellTimed(T) /\ Disjoint(T)
  BY DEF WellTimed, Disjoint

-----------------------------------------------------------------------------
(* What the helpers return *)

(* Renumbering keeps the type and everything but the numbers. *)
Renumbered(s, S) ==
    [s EXCEPT !.sequence = 1 + Cardinality({u \in S : u.start < s.start})]

LEMMA RenumberedFields ==
    ASSUME NEW S \in SUBSET Segment, IsFiniteSet(S), NEW s \in S
    PROVE  /\ Renumbered(s, S) \in Segment
           /\ Renumbered(s, S).id = s.id
           /\ Renumbered(s, S).start = s.start
           /\ Renumbered(s, S).end = s.end
           /\ Renumbered(s, S).proposed = s.proposed
           /\ Renumbered(s, S).disposition = s.disposition
<1> DEFINE earlier == {u \in S : u.start < s.start}
<1>1. Cardinality(earlier) \in Nat
  BY FS_Subset, FS_CardinalityType
<1>2. s \in Segment
  OBVIOUS
<1> HIDE DEF earlier
<1>3. Renumbered(s, S) = [s EXCEPT !.sequence = 1 + Cardinality(earlier)]
  BY DEF Renumbered, earlier
<1> QED
  BY <1>1, <1>2, <1>3 DEF Segment

LEMMA ResequenceType ==
    ASSUME NEW S \in SUBSET Segment, IsFiniteSet(S)
    PROVE  Resequence(S) \in SUBSET Segment /\ IsFiniteSet(Resequence(S))
<1>1. Resequence(S) = {Renumbered(s, S) : s \in S}
  BY DEF Resequence, Renumbered
<1>2. Resequence(S) \in SUBSET Segment
  BY <1>1, RenumberedFields
<1>3. [s \in S |-> Renumbered(s, S)] \in Surjection(S, Resequence(S))
  BY <1>1 DEF Surjection
<1> QED
  BY <1>2, <1>3, FS_Surjection

LEMMA ResequenceTimeline ==
    ASSUME NEW S \in SUBSET Segment, IsFiniteSet(S), WellTimed(S), Disjoint(S)
    PROVE  WellTimed(Resequence(S)) /\ Disjoint(Resequence(S))
<1>1. Resequence(S) = {Renumbered(s, S) : s \in S}
  BY DEF Resequence, Renumbered
<1>2. WellTimed(Resequence(S))
  BY <1>1, RenumberedFields DEF WellTimed
<1>3. ASSUME NEW s \in Resequence(S), NEW t \in Resequence(S), s # t
      PROVE  s.end <= t.start \/ t.end <= s.start
  <2>1. PICK p \in S : s = Renumbered(p, S)
    BY <1>1
  <2>2. PICK q \in S : t = Renumbered(q, S)
    BY <1>1
  <2>3. p # q
    BY <1>3, <2>1, <2>2
  <2>4. p.end <= q.start \/ q.end <= p.start
    BY <2>3 DEF Disjoint
  <2> QED
    BY <2>1, <2>2, <2>4, RenumberedFields
<1> QED
  BY <1>2, <1>3 DEF Disjoint

LEMMA NewSegmentType ==
    ASSUME NEW in \in SegmentInputs, Trim[in.source] # Blank
    PROVE  NewSegment(in) \in Segment
<1>1. in \in SegmentInput
  BY InputsAssumption
<1>2. in.source \in Strings /\ in.proposed \in Strings
  BY <1>1 DEF SegmentInput
<1>3. Trim[in.source] \in Text
  BY <1>2, StringsAssumption DEF Text
<1>4. Trim[in.proposed] # Blank => Trim[in.proposed] \in Text
  BY <1>2, StringsAssumption DEF Text
<1> QED
  BY <1>1, <1>3, <1>4 DEF NewSegment, Segment, SegmentInput

LEMMA StoredGrantType ==
    ASSUME NEW g \in GrantInputs
    PROVE  StoredGrant(g) \in Grant /\ Truncated(StoredGrant(g))
<1>1. g \in Grant
  BY InputsAssumption
<1>2. g.from \in Nat /\ g.to \in Nat
  BY <1>1 DEF Grant
<1>3. /\ UTC(g.from) \in Nat /\ UTC(g.to) \in Nat
      /\ UTC(UTC(g.from)) = UTC(g.from) /\ UTC(UTC(g.to)) = UTC(g.to)
  BY <1>2, UTCType, UTCIdempotent
<1> QED
  BY <1>1, <1>3 DEF StoredGrant, Grant, Truncated

LEMMA CheckType ==
    ASSUME NEW targets \in SUBSET Strings, NEW t, findings \in SUBSET Finding
    PROVE  Check(targets, t) \in SUBSET Finding
<1> DEFINE broken == Broken(targets, t)
<1>1. broken \in SUBSET (Strings \X RuleCodes)
  BY DEF Broken
<1>2. \A k \in broken : NewFinding(k) \in Finding
  BY <1>1, StringsAssumption DEF NewFinding, Finding
<1>3. \A f \in findings : [f EXCEPT !.status = "open"] \in Finding
  BY DEF Finding
<1>4. Closed(targets, broken) \in SUBSET Finding
  BY DEF Closed, Finding
<1> HIDE DEF broken
<1> QED
  BY <1>2, <1>3, <1>4 DEF Check, broken

LEMMA AnnotatedType ==
    ASSUME NEW targets, NEW checked \in SUBSET Finding, TypeOK
    PROVE  Annotated(targets, checked) \in Seq(Revision)
<1> DEFINE a == Annotated(targets, checked)
<1>1. Len(revisions) \in Nat /\ revisions \in [1 .. Len(revisions) -> Revision]
  BY DEF TypeOK
<1>2. ASSUME NEW i \in 1 .. Len(revisions) PROVE a[i] \in Revision
  <2> DEFINE before == OpenRules(findings, revisions[i].segment)
             after  == OpenRules(checked, revisions[i].segment)
  <2>1. before \in SUBSET RuleCodes /\ after \in SUBSET RuleCodes
    BY DEF OpenRules, TypeOK, Finding
  <2>2. /\ before \ after \in SUBSET RuleCodes
        /\ before \cap after \in SUBSET RuleCodes
        /\ after \ before \in SUBSET RuleCodes
    BY <2>1
  <2>3. revisions[i] \in Revision
    BY <1>1
  <2> HIDE DEF before, after
  <2>4. [revisions[i] EXCEPT !.rechecked = TRUE, !.closed = before \ after,
                             !.remaining = before \cap after,
                             !.new = after \ before] \in Revision
    BY <2>2, <2>3 DEF Revision
  <2>5. a[i] = IF Latest(i, targets)
               THEN [revisions[i] EXCEPT !.rechecked = TRUE,
                                         !.closed = before \ after,
                                         !.remaining = before \cap after,
                                         !.new = after \ before]
               ELSE revisions[i]
    BY DEF Annotated, before, after
  <2> QED
    BY <2>3, <2>4, <2>5
<1>3. a \in [1 .. Len(revisions) -> Revision]
  <2>1. a = [i \in 1 .. Len(revisions) |-> a[i]]
    BY DEF Annotated
  <2> HIDE DEF a
  <2> QED
    BY <1>2, <2>1
<1> HIDE DEF a
<1> QED
  BY <1>1, <1>3 DEF a

LEMMA NewRevisionType ==
    ASSUME TypeOK, NEW s \in segments,
           NEW proposed \in Strings, Trim[proposed] # Blank,
           NEW explanation \in Strings, Trim[explanation] # Blank
    PROVE  NewRevision(s, proposed, explanation) \in Revision
<1> DEFINE related == {f.rule : f \in {g \in findings : g.segment = s.id
                                        /\ g.status = "open" /\ g.returned}}
<1>1. s.id \in Strings /\ s.proposed \in Text
  BY DEF TypeOK, Segment
<1>2. Trim[proposed] \in Text /\ Trim[explanation] \in Text
  BY StringsAssumption DEF Text
<1>3. related \in SUBSET RuleCodes
  BY DEF TypeOK, Finding
<1>4. version \in Nat
  BY DEF TypeOK
<1> HIDE DEF related
<1>5. NewRevision(s, proposed, explanation) =
        [segment |-> s.id, before |-> s.proposed, after |-> Trim[proposed],
         explanation |-> Trim[explanation], submittedVersion |-> version,
         related |-> related,
         rechecked |-> FALSE, closed |-> {}, remaining |-> {}, new |-> {}]
  BY DEF NewRevision, related
<1> QED
  BY <1>1, <1>2, <1>3, <1>4, <1>5 DEF Revision

-----------------------------------------------------------------------------
(* Type correctness *)

LEMMA BumpType ==
    ASSUME TypeOK, Bump
    PROVE  version' \in Nat /\ updatedAt' \in Nat /\ now' \in Nat
  BY UTCType DEF TypeOK, Bump

LEMMA InitType == Init => TypeOK
<1> SUFFICES ASSUME Init PROVE TypeOK
  OBVIOUS
<1>1. updatedAt \in Nat
  BY UTCType DEF Init
<1>2. intendedUse \in Text
  BY InputsAssumption, StringsAssumption DEF Init, Text
<1>3. IsFiniteSet(segments) /\ segments \in SUBSET Segment
  BY FS_EmptySet DEF Init
<1>4. revisions \in Seq(Revision)
  <2>1. revisions = <<>>
    BY DEF Init
  <2> QED
    BY <2>1
<1>5. /\ state = "draft" /\ version = 1 /\ now = 0 /\ fullCheckCompleted = FALSE
      /\ consents = {} /\ findings = {} /\ credential = NoCredential
  BY DEF Init
<1> QED
  BY <1>1, <1>2, <1>3, <1>4, <1>5 DEF TypeOK

(* The four ways a draft's segments change. *)
LEMMA SegmentsType ==
    ASSUME TypeOK, NEW S \in SUBSET Segment, IsFiniteSet(S),
           segments' = Resequence(S)
    PROVE  segments' \in SUBSET Segment /\ IsFiniteSet(segments')
  BY ResequenceType

LEMMA AddedSegmentType ==
    ASSUME TypeOK, NEW in \in SegmentInputs, AddSegment(in)
    PROVE  LET s == [NewSegment(in) EXCEPT !.tag = IF in.tag = "" THEN "none"
                                                                  ELSE in.tag]
           IN  /\ segments \cup {s} \in SUBSET Segment
               /\ IsFiniteSet(segments \cup {s})
<1> DEFINE tag == IF in.tag = "" THEN "none" ELSE in.tag
           s == [NewSegment(in) EXCEPT !.tag = tag]
<1>1. NewSegment(in) \in Segment
  <2>1. Trim[in.source] # Blank
    BY Zenon DEF AddSegment
  <2> QED
    BY <2>1, NewSegmentType
<1>2. tag \in StoredTags
  <2>1. in.tag \in StoredTags
    BY InputsAssumption DEF SegmentInput
  <2>2. "none" \in StoredTags
    BY DEF StoredTags, Tags
  <2> QED
    BY <2>1, <2>2, Zenon
<1>3. s \in Segment
  <2> HIDE DEF tag
  <2> QED
    BY <1>1, <1>2 DEF Segment
<1>4. segments \cup {s} \in SUBSET Segment /\ IsFiniteSet(segments \cup {s})
  <2> HIDE DEF s
  <2> QED
    BY <1>3, FS_AddElement DEF TypeOK
<1> QED
  BY <1>4, Zenon

LEMMA AddSegmentType ==
    ASSUME TypeOK, NEW in \in SegmentInputs, AddSegment(in)
    PROVE  TypeOK'
<1> DEFINE s == [NewSegment(in) EXCEPT !.tag = IF in.tag = "" THEN "none"
                                                             ELSE in.tag]
<1>1. segments \cup {s} \in SUBSET Segment /\ IsFiniteSet(segments \cup {s})
  BY AddedSegmentType, Zenon
<1>2. segments' = Resequence(segments \cup {s})
  BY Zenon DEF AddSegment
<1>3. UNCHANGED <<state, intendedUse, consents, reviewVars>> /\ Bump
  BY Zenon DEF AddSegment
<1> HIDE DEF s
<1>4. segments' \in SUBSET Segment /\ IsFiniteSet(segments')
  BY <1>1, <1>2, SegmentsType
<1> QED
  BY <1>3, <1>4, BumpType DEF TypeOK, reviewVars

LEMMA BatchAddedType ==
    ASSUME NEW n \in Nat, NEW rows \in [1 .. n -> SegmentInputs],
           \A i \in DOMAIN rows : BatchRowOK(rows[i])
    PROVE  LET added == {[NewSegment(rows[i]) EXCEPT !.id = Trim[@]] : i \in DOMAIN rows}
           IN  added \in SUBSET Segment /\ IsFiniteSet(added) /\ WellTimed(added)
<1> DEFINE seg(i) == [NewSegment(rows[i]) EXCEPT !.id = Trim[@]]
           added == {seg(i) : i \in DOMAIN rows}
<1>1. DOMAIN rows = 1 .. n /\ IsFiniteSet(1 .. n)
  BY FS_Interval
<1>2. ASSUME NEW i \in DOMAIN rows
      PROVE  seg(i) \in Segment /\ WellTimed({seg(i)})
  <2>1. rows[i] \in SegmentInputs
    OBVIOUS
  <2>2. rows[i] \in SegmentInput
    BY <2>1, InputsAssumption
  <2>3. NewSegment(rows[i]) \in Segment
    BY <2>1, NewSegmentType DEF BatchRowOK
  <2>4. /\ NewSegment(rows[i]).start = rows[i].start
        /\ NewSegment(rows[i]).end = rows[i].end
    BY DEF NewSegment
  <2>5. /\ seg(i) \in Segment
        /\ seg(i).start = rows[i].start /\ seg(i).end = rows[i].end
    BY <2>3, <2>4, StringsAssumption DEF Segment
  <2> HIDE DEF seg
  <2> QED
    BY <2>2, <2>5 DEF WellTimed, BatchRowOK, SegmentInput
<1>3. [i \in 1 .. n |-> seg(i)] \in Surjection(1 .. n, added)
  BY <1>1 DEF Surjection
<1>4. IsFiniteSet(added)
  <2> HIDE DEF added
  <2> QED
    BY <1>1, <1>3, FS_Surjection
<1>5. added \in SUBSET Segment /\ WellTimed(added)
  <2> HIDE DEF seg
  <2> QED
    BY <1>2 DEF WellTimed
<1> QED
  BY <1>4, <1>5

LEMMA AddSegmentsBatchType ==
    ASSUME TypeOK, NEW n \in Nat, NEW rows \in [1 .. n -> SegmentInputs],
           AddSegmentsBatch(rows)
    PROVE  TypeOK'
<1> DEFINE added == {[NewSegment(rows[i]) EXCEPT !.id = Trim[@]] : i \in DOMAIN rows}
<1>1. added \in SUBSET Segment /\ IsFiniteSet(added)
  <2>1. \A i \in DOMAIN rows : BatchRowOK(rows[i])
    BY Zenon DEF AddSegmentsBatch
  <2> QED
    BY <2>1, BatchAddedType
<1>2. segments' = Resequence(segments \cup added)
  BY Zenon DEF AddSegmentsBatch
<1>3. UNCHANGED <<state, intendedUse, consents, reviewVars>> /\ Bump
  BY Zenon DEF AddSegmentsBatch
<1> HIDE DEF added
<1>4. segments \cup added \in SUBSET Segment /\ IsFiniteSet(segments \cup added)
  BY <1>1, FS_Union DEF TypeOK
<1>5. segments' \in SUBSET Segment /\ IsFiniteSet(segments')
  BY <1>2, <1>4, SegmentsType
<1> QED
  BY <1>3, <1>5, BumpType DEF TypeOK, reviewVars

LEMMA UpdatedSegmentType ==
    ASSUME TypeOK, NEW in \in SegmentInputs, UpdateSegment(in)
    PROVE  LET updated == {s \in segments : s.id # in.id} \cup {NewSegment(in)}
           IN  updated \in SUBSET Segment /\ IsFiniteSet(updated)
<1> DEFINE others == {s \in segments : s.id # in.id}
<1>1. NewSegment(in) \in Segment
  <2>1. Trim[in.source] # Blank
    BY Zenon DEF UpdateSegment
  <2> QED
    BY <2>1, NewSegmentType
<1>2. others \in SUBSET segments
  OBVIOUS
<1>3. /\ others \cup {NewSegment(in)} \in SUBSET Segment
      /\ IsFiniteSet(others \cup {NewSegment(in)})
  <2> HIDE DEF others
  <2>1. others \in SUBSET Segment /\ IsFiniteSet(others)
    BY <1>2, FS_Subset DEF TypeOK
  <2> QED
    BY <1>1, <2>1, FS_AddElement
<1> QED
  BY <1>3, Zenon

LEMMA UpdateSegmentType ==
    ASSUME TypeOK, NEW in \in SegmentInputs, UpdateSegment(in)
    PROVE  TypeOK'
<1> DEFINE updated == {s \in segments : s.id # in.id} \cup {NewSegment(in)}
<1>1. updated \in SUBSET Segment /\ IsFiniteSet(updated)
  BY UpdatedSegmentType, Zenon
<1>2. segments' = Resequence(updated)
  BY Zenon DEF UpdateSegment
<1>3. UNCHANGED <<state, intendedUse, consents, reviewVars>> /\ Bump
  BY Zenon DEF UpdateSegment
<1> HIDE DEF updated
<1>4. segments' \in SUBSET Segment /\ IsFiniteSet(segments')
  BY <1>1, <1>2, SegmentsType
<1> QED
  BY <1>3, <1>4, BumpType DEF TypeOK, reviewVars

LEMMA DeleteSegmentType ==
    ASSUME TypeOK, NEW id, DeleteSegment(id)
    PROVE  TypeOK'
<1> DEFINE others == {s \in segments : s.id # id}
<1>1. segments' = Resequence(others)
  BY Zenon DEF DeleteSegment
<1>2. UNCHANGED <<state, intendedUse, consents, reviewVars>> /\ Bump
  BY Zenon DEF DeleteSegment
<1>3. others \in SUBSET segments
  OBVIOUS
<1> HIDE DEF others
<1>4. others \in SUBSET Segment /\ IsFiniteSet(others)
  BY <1>3, FS_Subset DEF TypeOK
<1>5. segments' \in SUBSET Segment /\ IsFiniteSet(segments')
  BY <1>1, <1>4, SegmentsType
<1> QED
  BY <1>2, <1>5, BumpType DEF TypeOK, reviewVars

LEMMA UpdateMetadataType ==
    ASSUME TypeOK, NEW use \in UseInputs, UpdateMetadata(use)
    PROVE  TypeOK'
<1>1. intendedUse' \in Text
  BY InputsAssumption, StringsAssumption DEF UpdateMetadata, Text
<1> QED
  BY <1>1, BumpType DEF UpdateMetadata, TypeOK, reviewVars

LEMMA ConsentType ==
    ASSUME TypeOK, NEW g \in GrantInputs, AddConsent(g) \/ ReplaceConsent(g)
    PROVE  TypeOK'
<1>1. StoredGrant(g) \in Grant
  BY StoredGrantType
<1>2. consents' \in SUBSET Grant
  BY <1>1, Zenon DEF AddConsent, ReplaceConsent, TypeOK
<1>3. state' \in {"draft", "frozen", "remediation", "approved"}
  BY DEF AddConsent, ReplaceConsent, TypeOK
<1>4. UNCHANGED <<draftVars, reviewVars>> /\ Bump
  BY Zenon DEF AddConsent, ReplaceConsent
<1> QED
  BY <1>2, <1>3, <1>4, BumpType DEF TypeOK, draftVars, reviewVars

LEMMA FreezeType ==
    ASSUME TypeOK, Freeze
    PROVE  TypeOK'
<1>1. UNCHANGED <<draftVars, consents, reviewVars>> /\ Bump /\ state' = "frozen"
  BY Zenon DEF Freeze
<1> QED
  BY <1>1, BumpType DEF TypeOK, draftVars, reviewVars

LEMMA RunFullCheckType ==
    ASSUME TypeOK, RunFullCheck
    PROVE  TypeOK'
<1>1. findings' \in SUBSET Finding
  <2>1. findings' = Check(Strings, now) /\ findings \in SUBSET Finding
    BY DEF RunFullCheck, TypeOK
  <2> QED
    BY <2>1, CheckType
<1> QED
  BY <1>1, BumpType DEF RunFullCheck, TypeOK, draftVars

LEMMA RunTargetedCheckType ==
    ASSUME TypeOK, NEW targets \in SUBSET Ids(segments), RunTargetedCheck(targets)
    PROVE  TypeOK'
<1> DEFINE checked == Check(targets, now)
<1>1. targets \in SUBSET Strings
  BY DEF Ids, TypeOK, Segment
<1>2. checked \in SUBSET Finding
  BY <1>1, CheckType DEF TypeOK
<1>3. findings' = {f \in findings : f.segment \notin targets} \cup checked
  BY Zenon DEF RunTargetedCheck
<1>4. revisions' = Annotated(targets, checked)
  BY Zenon DEF RunTargetedCheck
<1>5. /\ UNCHANGED <<state, draftVars, consents, fullCheckCompleted, credential>>
      /\ Bump
  BY Zenon DEF RunTargetedCheck
<1> HIDE DEF checked
<1>6. findings' \in SUBSET Finding
  BY <1>2, <1>3 DEF TypeOK
<1>7. revisions' \in Seq(Revision)
  BY <1>2, <1>4, AnnotatedType
<1> QED
  BY <1>5, <1>6, <1>7, BumpType DEF TypeOK, draftVars

LEMMA ReturnType ==
    ASSUME TypeOK, NEW batch \in SUBSET findings,
           findings' = (findings \ batch) \cup {[f EXCEPT !.returned = TRUE] : f \in batch}
    PROVE  findings' \in SUBSET Finding
<1>1. \A f \in findings : [f EXCEPT !.returned = TRUE] \in Finding
  BY DEF TypeOK, Finding
<1> QED
  BY <1>1 DEF TypeOK

LEMMA ReturnFindingType ==
    ASSUME TypeOK, NEW f \in findings, NEW note, ReturnFinding(f, note)
    PROVE  TypeOK'
<1>1. findings' \in SUBSET Finding
  <2>1. findings' = (findings \ {f}) \cup {[g EXCEPT !.returned = TRUE] : g \in {f}}
    BY DEF ReturnFinding
  <2> QED
    <3>1. {f} \in SUBSET findings
      OBVIOUS
    <3> HIDE DEF TypeOK
    <3> QED
      BY <2>1, <3>1, ReturnType
<1> QED
  BY <1>1, BumpType DEF ReturnFinding, TypeOK, draftVars

LEMMA ReturnFindingsBatchType ==
    ASSUME TypeOK, NEW batch \in SUBSET findings, NEW note,
           ReturnFindingsBatch(batch, note)
    PROVE  TypeOK'
<1>1. findings' \in SUBSET Finding
  BY ReturnType DEF ReturnFindingsBatch
<1>2. /\ UNCHANGED <<draftVars, consents, fullCheckCompleted, revisions, credential>>
      /\ state' = "remediation" /\ Bump
  BY Zenon DEF ReturnFindingsBatch
<1> QED
  BY <1>1, <1>2, BumpType DEF TypeOK, draftVars

LEMMA RemediateType ==
    ASSUME TypeOK, NEW s \in segments, NEW proposed \in TextInputs,
           NEW explanation \in NoteInputs, Remediate(s, proposed, explanation)
    PROVE  TypeOK'
<1> DEFINE r == [s EXCEPT !.proposed = Trim[proposed],
                          !.disposition = Trim[explanation]]
<1>1. proposed \in Strings /\ explanation \in Strings
  BY InputsAssumption
<1>2. Trim[proposed] # Blank /\ Trim[explanation] # Blank
  BY Zenon DEF Remediate
<1>3. r \in Segment
  <2>1. Trim[proposed] \in Text /\ Trim[explanation] \in Text
    BY <1>1, <1>2, StringsAssumption DEF Text
  <2> QED
    BY <2>1 DEF TypeOK, Segment
<1>4. segments' = (segments \ {s}) \cup {r}
  BY Zenon DEF Remediate
<1>5. findings' = {IF f.segment = s.id /\ f.status = "open"
                   THEN [f EXCEPT !.remediation = explanation] ELSE f : f \in findings}
  BY Zenon DEF Remediate
<1>6. revisions' = Append(revisions, NewRevision(s, proposed, explanation))
  BY Zenon DEF Remediate
<1>7. /\ UNCHANGED <<intendedUse, consents, fullCheckCompleted, credential>>
      /\ state' = "remediation" /\ Bump
  BY Zenon DEF Remediate
<1> HIDE DEF r
<1>8. segments' \in SUBSET Segment /\ IsFiniteSet(segments')
  BY <1>3, <1>4, FS_RemoveElement, FS_AddElement DEF TypeOK
<1>9. findings' \in SUBSET Finding
  <2>1. \A f \in findings : [f EXCEPT !.remediation = explanation] \in Finding
    BY <1>1 DEF TypeOK, Finding
  <2> QED
    BY <1>5, <2>1 DEF TypeOK
<1>10. revisions' \in Seq(Revision)
  <2>1. NewRevision(s, proposed, explanation) \in Revision
    BY <1>1, <1>2, NewRevisionType
  <2> HIDE DEF Revision
  <2> QED
    BY <1>6, <2>1 DEF TypeOK
<1> QED
  BY <1>7, <1>8, <1>9, <1>10, BumpType DEF TypeOK

LEMMA CredentialSegmentsType ==
    ASSUME TypeOK
    PROVE  CredentialSegments \in SUBSET SealedSegment
<1>1. \A s \in segments : /\ s.id \in Strings /\ s.sequence \in Nat
                          /\ Trim[s.proposed] \in Strings
                          /\ Trim[s.disposition] \in Strings
  BY StringsAssumption DEF TypeOK, Segment, Text
<1> QED
  BY <1>1 DEF CredentialSegments, SealedSegment

LEMMA ApproveType ==
    ASSUME TypeOK, NEW t \in ApprovalTimes, Approve(t)
    PROVE  TypeOK'
<1>1. t \in Nat
  BY DEF ApprovalTimes, TypeOK
<1>2. credential' \in Credential
  <2>1. UTC(t) \in Nat
    BY <1>1, UTCType
  <2>2. credential' = [approvedVersion |-> version + 1, approvedAt |-> UTC(t),
                       manifest |-> CredentialSegments, consents |-> consents]
    BY Zenon DEF Approve, SealAt
  <2> QED
    BY <2>1, <2>2, CredentialSegmentsType DEF TypeOK, Credential
<1>3. /\ UNCHANGED <<draftVars, consents, fullCheckCompleted, findings, revisions>>
      /\ state' = "approved" /\ Bump
  BY Zenon DEF Approve, SealAt
<1> QED
  BY <1>2, <1>3, BumpType DEF TypeOK, draftVars

LEMMA NextType == TypeOK /\ [Next]_vars => TypeOK'
<1> SUFFICES ASSUME TypeOK, [Next]_vars PROVE TypeOK'
  OBVIOUS
<1>1. CASE \E use \in UseInputs : UpdateMetadata(use)
  BY <1>1, UpdateMetadataType
<1>2. CASE \E in \in SegmentInputs : AddSegment(in)
  BY <1>2, AddSegmentType
<1>3. CASE \E n \in 1 .. MaxBatch : \E rows \in [1 .. n -> SegmentInputs] :
              AddSegmentsBatch(rows)
  BY <1>3, AddSegmentsBatchType
<1>4. CASE \E in \in SegmentInputs : UpdateSegment(in)
  BY <1>4, UpdateSegmentType
<1>5. CASE \E id \in Ids(segments) : DeleteSegment(id)
  BY <1>5, DeleteSegmentType
<1>6. CASE \E g \in GrantInputs : AddConsent(g) \/ ReplaceConsent(g)
  BY <1>6, ConsentType
<1>7. CASE Freeze
  BY <1>7, FreezeType
<1>8. CASE RunFullCheck
  BY <1>8, RunFullCheckType
<1>9. CASE \E targets \in SUBSET Ids(segments) : RunTargetedCheck(targets)
  BY <1>9, RunTargetedCheckType
<1>10. CASE \E f \in findings, note \in NoteInputs : ReturnFinding(f, note)
  BY <1>10, ReturnFindingType
<1>11. CASE \E batch \in SUBSET findings, note \in NoteInputs :
               ReturnFindingsBatch(batch, note)
  BY <1>11, ReturnFindingsBatchType
<1>12. CASE \E s \in segments, proposed \in TextInputs, explanation \in NoteInputs :
               Remediate(s, proposed, explanation)
  BY <1>12, RemediateType
<1>13. CASE \E t \in ApprovalTimes : Approve(t)
  BY <1>13, ApproveType
<1>14. CASE Tick
  BY <1>14 DEF Tick, TypeOK, draftVars, reviewVars
<1>15. CASE UNCHANGED vars
  BY <1>15 DEF vars, TypeOK, draftVars, reviewVars
<1> QED
  BY <1>1, <1>2, <1>3, <1>4, <1>5, <1>6, <1>7, <1>8, <1>9, <1>10, <1>11,
     <1>12, <1>13, <1>14, <1>15, Zenon DEF Next, Draft, Edit, Review

(* Every reachable case has the types the code declares, and every text it *)
(* stores is trimmed and not blank.                                        *)
THEOREM TypeCorrect == Spec => []TypeOK
  BY InitType, NextType, PTL DEF Spec

-----------------------------------------------------------------------------
(* The timeline *)

(* The strengthening of TimelineDisjoint: a batch compares neighbours      *)
(* without looking at the segments the case already has, and relies on     *)
(* their being well timed.                                                 *)
TimelineInv == WellTimed(segments) /\ Disjoint(segments)

LEMMA SegmentTimes ==
    ASSUME NEW S \in SUBSET Segment
    PROVE  \A s \in S : s.start \in Int /\ s.end \in Int
  BY DEF Segment

(* The commands that touch the segments. *)
LEMMA SegmentsChange ==
    ASSUME [Next]_vars
    PROVE  \/ \E in \in SegmentInputs : AddSegment(in)
           \/ \E n \in 1 .. MaxBatch : \E rows \in [1 .. n -> SegmentInputs] :
                 AddSegmentsBatch(rows)
           \/ \E in \in SegmentInputs : UpdateSegment(in)
           \/ \E id \in Ids(segments) : DeleteSegment(id)
           \/ \E s \in segments, proposed \in TextInputs, explanation \in NoteInputs :
                 Remediate(s, proposed, explanation)
           \/ UNCHANGED segments
<1>1. ASSUME NEW use, UpdateMetadata(use) PROVE UNCHANGED segments
  BY <1>1, Zenon DEF UpdateMetadata
<1>2. ASSUME NEW g, AddConsent(g) \/ ReplaceConsent(g) PROVE UNCHANGED segments
  BY <1>2, Zenon DEF AddConsent, ReplaceConsent, draftVars
<1>3. ASSUME Freeze \/ RunFullCheck PROVE UNCHANGED segments
  BY <1>3, Zenon DEF Freeze, RunFullCheck, draftVars
<1>4. ASSUME NEW targets, RunTargetedCheck(targets) PROVE UNCHANGED segments
  BY <1>4, Zenon DEF RunTargetedCheck, draftVars
<1>5. ASSUME NEW f, NEW note, ReturnFinding(f, note) PROVE UNCHANGED segments
  BY <1>5, Zenon DEF ReturnFinding, draftVars
<1>6. ASSUME NEW b, NEW note, ReturnFindingsBatch(b, note) PROVE UNCHANGED segments
  BY <1>6, Zenon DEF ReturnFindingsBatch, draftVars
<1>7. ASSUME NEW t, Approve(t) PROVE UNCHANGED segments
  BY <1>7, Zenon DEF Approve, SealAt, draftVars
<1>8. ASSUME Tick \/ UNCHANGED vars PROVE UNCHANGED segments
  BY <1>8, Zenon DEF Tick, vars, draftVars
<1> QED
  BY <1>1, <1>2, <1>3, <1>4, <1>5, <1>6, <1>7, <1>8, Zenon DEF Next, Draft, Edit, Review

LEMMA TimelineStep ==
    ASSUME TypeOK, TimelineInv, [Next]_vars
    PROVE  TimelineInv'
<1>1. CASE \E in \in SegmentInputs : AddSegment(in)
  <2>1. PICK in \in SegmentInputs : AddSegment(in)
    BY <1>1
  <2> DEFINE s == [NewSegment(in) EXCEPT !.tag = IF in.tag = "" THEN "none" ELSE in.tag]
  <2>2. /\ ValidTimeline(segments \cup {s})
        /\ segments' = Resequence(segments \cup {s})
    BY <2>1, Zenon DEF AddSegment
  <2>3. segments \cup {s} \in SUBSET Segment /\ IsFiniteSet(segments \cup {s})
    BY <2>1, AddedSegmentType
  <2> HIDE DEF s
  <2> QED
    BY <2>2, <2>3, SegmentTimes, ValidTimelineIsDisjoint, ResequenceTimeline
       DEF TimelineInv
<1>2. CASE \E n \in 1 .. MaxBatch : \E rows \in [1 .. n -> SegmentInputs] :
              AddSegmentsBatch(rows)
  <2>0. PICK n \in 1 .. MaxBatch : \E rows \in [1 .. n -> SegmentInputs] :
            AddSegmentsBatch(rows)
    BY <1>2
  <2>1. PICK rows \in [1 .. n -> SegmentInputs] : AddSegmentsBatch(rows)
    BY <2>0
  <2> DEFINE added == {[NewSegment(rows[i]) EXCEPT !.id = Trim[@]] : i \in DOMAIN rows}
             merged == segments \cup added
  <2>2. /\ \A s, t \in merged : Adjacent(merged, s, t) => s.end <= t.start
        /\ segments' = Resequence(merged)
        /\ \A i \in DOMAIN rows : BatchRowOK(rows[i])
    BY <2>1, Zenon DEF AddSegmentsBatch
  <2>3. added \in SUBSET Segment /\ IsFiniteSet(added) /\ WellTimed(added)
    <3>1. n \in Nat
      BY InputsAssumption
    <3>2. \A i \in DOMAIN rows : BatchRowOK(rows[i])
      BY <2>2
    <3> QED
      BY <3>1, <3>2, BatchAddedType
  <2> HIDE DEF added
  <2>4. merged \in SUBSET Segment /\ IsFiniteSet(merged)
    BY <2>3, FS_Union DEF TypeOK
  <2>5. WellTimed(merged)
    BY <2>3 DEF WellTimed, TimelineInv
  <2> HIDE DEF merged
  <2> QED
    BY <2>2, <2>4, <2>5, NeighboursSuffice, ResequenceTimeline DEF TimelineInv
<1>3. CASE \E in \in SegmentInputs : UpdateSegment(in)
  <2>1. PICK in \in SegmentInputs : UpdateSegment(in)
    BY <1>3
  <2> DEFINE updated == {s \in segments : s.id # in.id} \cup {NewSegment(in)}
  <2>2. ValidTimeline(updated) /\ segments' = Resequence(updated)
    BY <2>1, Zenon DEF UpdateSegment
  <2>3. updated \in SUBSET Segment /\ IsFiniteSet(updated)
    BY <2>1, UpdatedSegmentType
  <2> HIDE DEF updated
  <2> QED
    BY <2>2, <2>3, SegmentTimes, ValidTimelineIsDisjoint, ResequenceTimeline
       DEF TimelineInv
<1>4. CASE \E id \in Ids(segments) : DeleteSegment(id)
  <2>1. PICK id \in Ids(segments) : DeleteSegment(id)
    BY <1>4
  <2> DEFINE others == {s \in segments : s.id # id}
  <2>2. segments' = Resequence(others)
    BY <2>1, Zenon DEF DeleteSegment
  <2>3. others \in SUBSET segments
    OBVIOUS
  <2> HIDE DEF others
  <2>4. others \in SUBSET Segment /\ IsFiniteSet(others)
    BY <2>3, FS_Subset DEF TypeOK
  <2>5. WellTimed(others) /\ Disjoint(others)
    BY <2>3, SubsetDisjoint DEF TimelineInv
  <2> QED
    BY <2>2, <2>4, <2>5, ResequenceTimeline DEF TimelineInv
<1>5. CASE \E s \in segments, proposed \in TextInputs, explanation \in NoteInputs :
              Remediate(s, proposed, explanation)
  <2>1. PICK s \in segments, proposed \in TextInputs, explanation \in NoteInputs :
            Remediate(s, proposed, explanation)
    BY <1>5
  <2> DEFINE r == [s EXCEPT !.proposed = Trim[proposed],
                            !.disposition = Trim[explanation]]
  <2>2. segments' = (segments \ {s}) \cup {r}
    BY <2>1, Zenon DEF Remediate
  <2>3. r.start = s.start /\ r.end = s.end
    BY DEF TypeOK, Segment
  <2> HIDE DEF r
  <2>4. WellTimed(segments')
    BY <2>2, <2>3 DEF TimelineInv, WellTimed
  <2>5. Disjoint(segments')
    BY <2>2, <2>3 DEF TimelineInv, Disjoint
  <2> QED
    BY <2>4, <2>5 DEF TimelineInv
<1>6. CASE UNCHANGED segments
  BY <1>6 DEF TimelineInv
<1> QED
  BY <1>1, <1>2, <1>3, <1>4, <1>5, <1>6, SegmentsChange

LEMMA TimelineInit == Init => TimelineInv
  BY DEF Init, TimelineInv, WellTimed, Disjoint

(* No command, and no sequence of commands, makes two segments overlap,    *)
(* although validateTimeline and AddSegmentsBatch compare neighbours only. *)
THEOREM TimelineNeverOverlaps == Spec => []TimelineDisjoint
<1>1. TimelineInv => TimelineDisjoint
  BY DEF TimelineInv, TimelineDisjoint
<1>2. TypeOK /\ TimelineInv /\ [Next]_vars => TimelineInv'
  BY TimelineStep
<1> QED
  BY <1>1, <1>2, TimelineInit, TypeCorrect, PTL DEF Spec

-----------------------------------------------------------------------------
(* The inductive invariant *)

(* Each segment has an id, and one of its own. *)
Identified(S) ==
    /\ \A s \in S : s.id # Blank
    /\ \A s, t \in S : s.id = t.id => s = t

Numbered(S) ==
    \A s \in S : s.sequence = 1 + Cardinality({u \in S : u.start < s.start})

(* Nothing was checked or remediated before the freeze. *)
DraftInv ==
    state = "draft" =>
        /\ findings = {} /\ revisions = <<>>
        /\ \A s \in segments : s.disposition = Blank

(* The text of a segment that was not revised still breaks the text rules  *)
(* a check found it to break.                                              *)
TextInv ==
    \A f \in findings :
        f.rule \in TextRules /\ RevisionsOf(f.segment) = {} =>
            /\ f.status = "open"
            /\ \E s \in segments : s.id = f.segment /\ f.rule \in BrokenTextRules(s)

(* Who revised a segment was told to. *)
ReturnedInv ==
    \A i \in DOMAIN revisions :
        /\ revisions[i].related # {}
        /\ \E f \in findings : f.segment = revisions[i].segment /\ f.returned

CaseInv ==
    /\ Identified(segments) /\ Numbered(segments)
    /\ \A g \in consents : Truncated(g)
    /\ DraftInv /\ FrozenIsPristine
    /\ FindingsAreKeyed /\ RevisionTrail /\ TextInv /\ ReturnedInv
    /\ ApprovedIsClean /\ CredentialVerifies

ReviewInv == TypeOK /\ TimelineInv /\ CaseInv

-----------------------------------------------------------------------------
(* Drafting *)

Drafted(S) ==
    /\ S \in SUBSET Segment /\ IsFiniteSet(S) /\ Identified(S)
    /\ \A s \in S : s.disposition = Blank

(* Numbering a timeline anew counts the same segments before each one. *)
LEMMA ResequenceDrafted ==
    ASSUME NEW S, Drafted(S)
    PROVE  LET T == Resequence(S) IN
           Identified(T) /\ Numbered(T) /\ \A s \in T : s.disposition = Blank
<1> DEFINE T == Resequence(S)
<1>1. T = {Renumbered(s, S) : s \in S}
  BY DEF Resequence, Renumbered
<1> HIDE DEF T
<1>2. ASSUME NEW s \in S
      PROVE  /\ Renumbered(s, S).id = s.id /\ Renumbered(s, S).start = s.start
             /\ Renumbered(s, S).disposition = s.disposition
             /\ Renumbered(s, S).sequence = 1 + Cardinality({u \in S : u.start < s.start})
             /\ Renumbered(s, S) \in T
  <2>1. S \in SUBSET Segment /\ IsFiniteSet(S) /\ s \in Segment
    BY DEF Drafted
  <2>2. /\ Renumbered(s, S).id = s.id /\ Renumbered(s, S).start = s.start
        /\ Renumbered(s, S).disposition = s.disposition
    BY <2>1, RenumberedFields
  <2>3. Renumbered(s, S).sequence = 1 + Cardinality({u \in S : u.start < s.start})
    BY <2>1 DEF Renumbered, Segment
  <2> QED
    BY <1>1, <2>2, <2>3
<1>3. Identified(T)
  <2>0. ASSUME NEW u \in T PROVE u.id # Blank
    <3>1. PICK s \in S : u = Renumbered(s, S)
      BY <1>1
    <3>2. u.id = s.id
      BY <1>2, <3>1
    <3> QED
      BY <3>2 DEF Identified, Drafted
  <2> SUFFICES ASSUME NEW u \in T, NEW v \in T, u.id = v.id
               PROVE  u = v
    BY <2>0 DEF Identified
  <2>1. PICK s \in S : u = Renumbered(s, S)
    BY <1>1
  <2>2. PICK t \in S : v = Renumbered(t, S)
    BY <1>1
  <2>3. s.id = t.id
    BY <1>2, <2>1, <2>2
  <2> QED
    BY <2>1, <2>2, <2>3 DEF Identified, Drafted
<1>4. \A s \in T : s.disposition = Blank
  BY <1>1, <1>2 DEF Drafted
<1>5. ASSUME NEW x
      PROVE  Cardinality({u \in S : u.start < x}) = Cardinality({u \in T : u.start < x})
  <2> DEFINE before == {u \in S : u.start < x}
             after == {u \in T : u.start < x}
             f == [u \in before |-> Renumbered(u, S)]
  <2>1. IsFiniteSet(before)
    BY FS_Subset DEF Drafted
  <2>2. f \in [before -> after]
    BY <1>2
  <2>3. \A v \in after : \E u \in before : f[u] = v
    BY <1>1, <1>2
  <2>4. ASSUME NEW u \in before, NEW v \in before, f[u] = f[v]
        PROVE  u = v
    <3>1. u.id = v.id
      BY <1>2, <2>4
    <3> QED
      BY <3>1 DEF Identified, Drafted
  <2> HIDE DEF before, after, f
  <2>5. f \in Surjection(before, after) /\ f \in Injection(before, after)
    BY <2>2, <2>3, <2>4 DEF Surjection, Injection, IsInjective
  <2> QED
    BY <2>1, <2>5, FS_Surjection DEF before, after
<1>6. Numbered(T)
  <2> SUFFICES ASSUME NEW t \in T
               PROVE  t.sequence = 1 + Cardinality({u \in T : u.start < t.start})
    BY DEF Numbered
  <2>1. PICK s \in S : t = Renumbered(s, S)
    BY <1>1
  <2> QED
    BY <1>2, <1>5, <2>1
<1> QED
  BY <1>3, <1>4, <1>6 DEF T

LEMMA AddDrafts ==
    ASSUME ReviewInv, NEW in \in SegmentInputs, AddSegment(in)
    PROVE  \E S : Drafted(S) /\ segments' = Resequence(S)
<1> DEFINE tag == IF in.tag = "" THEN "none" ELSE in.tag
           s == [NewSegment(in) EXCEPT !.tag = tag]
<1>1. segments \cup {s} \in SUBSET Segment /\ IsFiniteSet(segments \cup {s})
  BY AddedSegmentType DEF ReviewInv
<1>2. /\ state = "draft" /\ in.id \notin Ids(segments) /\ Trim[in.id] # Blank
      /\ segments' = Resequence(segments \cup {s})
  BY Zenon DEF AddSegment
<1>3. s.id = in.id /\ s.disposition = Blank /\ s.id # Blank
  BY <1>2, StringsAssumption DEF NewSegment
<1> HIDE DEF s
<1>4. \A u \in segments : u.id # s.id /\ u.disposition = Blank
  BY <1>2, <1>3 DEF Ids, ReviewInv, CaseInv, DraftInv
<1>5. Drafted(segments \cup {s})
  BY <1>1, <1>3, <1>4 DEF Drafted, ReviewInv, CaseInv, Identified
<1> QED
  BY <1>2, <1>5

LEMMA BatchDrafts ==
    ASSUME ReviewInv, NEW n \in Nat, NEW rows \in [1 .. n -> SegmentInputs],
           AddSegmentsBatch(rows)
    PROVE  \E S : Drafted(S) /\ segments' = Resequence(S)
<1> DEFINE seg(i) == [NewSegment(rows[i]) EXCEPT !.id = Trim[@]]
           added == {seg(i) : i \in DOMAIN rows}
<1>1. /\ state = "draft" /\ \A i \in DOMAIN rows : BatchRowOK(rows[i])
      /\ \A i, j \in DOMAIN rows : i # j => Trim[rows[i].id] # Trim[rows[j].id]
      /\ segments' = Resequence(segments \cup added)
  BY Zenon DEF AddSegmentsBatch
<1>2. added \in SUBSET Segment /\ IsFiniteSet(added)
  BY <1>1, BatchAddedType
<1>3. ASSUME NEW i \in DOMAIN rows
      PROVE  seg(i).id = Trim[rows[i].id] /\ seg(i).disposition = Blank
  BY DEF NewSegment
<1>4. \A i \in DOMAIN rows : seg(i).id \notin Ids(segments)
  BY <1>1, <1>3 DEF BatchRowOK
<1> HIDE DEF seg
<1>5. Identified(added) /\ \A s \in added : s.disposition = Blank /\ s.id \notin Ids(segments)
  BY <1>1, <1>3, <1>4 DEF Identified, BatchRowOK
<1> HIDE DEF added
<1>6. \A u \in segments : u.id \in Ids(segments) /\ u.disposition = Blank
  BY <1>1 DEF Ids, ReviewInv, CaseInv, DraftInv
<1>7. segments \cup added \in SUBSET Segment /\ IsFiniteSet(segments \cup added)
  BY <1>2, FS_Union DEF ReviewInv, TypeOK
<1>8. Drafted(segments \cup added)
  BY <1>5, <1>6, <1>7 DEF Drafted, ReviewInv, CaseInv, Identified
<1> QED
  BY <1>1, <1>8

LEMMA UpdateDrafts ==
    ASSUME ReviewInv, NEW in \in SegmentInputs, UpdateSegment(in)
    PROVE  \E S : Drafted(S) /\ segments' = Resequence(S)
<1> DEFINE others == {s \in segments : s.id # in.id}
           s == NewSegment(in)
<1>1. others \cup {s} \in SUBSET Segment /\ IsFiniteSet(others \cup {s})
  BY UpdatedSegmentType DEF ReviewInv
<1>2. /\ state = "draft" /\ in.id \in Ids(segments)
      /\ segments' = Resequence(others \cup {s})
  BY Zenon DEF UpdateSegment
<1>3. s.id = in.id /\ s.disposition = Blank /\ s.id # Blank
  BY <1>2 DEF NewSegment, Ids, ReviewInv, CaseInv, Identified
<1> HIDE DEF s
<1>4. \A u \in others : u.id # s.id /\ u.disposition = Blank
  BY <1>2, <1>3 DEF ReviewInv, CaseInv, DraftInv
<1>5. Drafted(others \cup {s})
  BY <1>1, <1>3, <1>4 DEF Drafted, ReviewInv, CaseInv, Identified
<1> QED
  BY <1>2, <1>5

LEMMA DeleteDrafts ==
    ASSUME ReviewInv, NEW id, DeleteSegment(id)
    PROVE  \E S : Drafted(S) /\ segments' = Resequence(S)
<1> DEFINE others == {s \in segments : s.id # id}
<1>1. state = "draft" /\ segments' = Resequence(others)
  BY Zenon DEF DeleteSegment
<1>2. others \in SUBSET segments
  OBVIOUS
<1> HIDE DEF others
<1>3. others \in SUBSET Segment /\ IsFiniteSet(others)
  BY <1>2, FS_Subset DEF ReviewInv, TypeOK
<1>4. Drafted(others)
  BY <1>1, <1>2, <1>3 DEF Drafted, ReviewInv, CaseInv, Identified, DraftInv
<1> QED
  BY <1>1, <1>4

LEMMA NotApproved ==
    ASSUME ReviewInv, state # "approved"
    PROVE  credential = NoCredential
BY DEF ReviewInv, CaseInv, CredentialVerifies, VerifyCredential

LEMMA DraftStep ==
    ASSUME ReviewInv, state = "draft", state' = "draft", UNCHANGED reviewVars,
           Identified(segments'), Numbered(segments'),
           \A s \in segments' : s.disposition = Blank,
           \A g \in consents' : Truncated(g)
    PROVE  CaseInv'
<1>1. /\ findings = {} /\ revisions = <<>> /\ credential = NoCredential
      /\ findings' = {} /\ revisions' = <<>> /\ credential' = NoCredential
  BY NotApproved DEF ReviewInv, CaseInv, DraftInv, reviewVars
<1>2. DOMAIN revisions' = {}
  BY <1>1
<1>3. DraftInv' /\ FrozenIsPristine' /\ FindingsAreKeyed' /\ TextInv'
  BY <1>1 DEF DraftInv, FrozenIsPristine, FindingsAreKeyed, TextInv
<1>4. RevisionTrail' /\ ReturnedInv'
  BY <1>2 DEF RevisionTrail, RevisionsOf, ReturnedInv
<1>5. ApprovedIsClean' /\ CredentialVerifies'
  BY <1>1 DEF ApprovedIsClean, CredentialVerifies
<1> QED
  BY <1>3, <1>4, <1>5 DEF CaseInv

(* Commands that leave segments, findings and revisions alone. *)
LEMMA AsideStep ==
    ASSUME ReviewInv, UNCHANGED <<segments, reviewVars>>,
           \A g \in consents' : Truncated(g),
           state # "approved", state' # "approved",
           state' = "draft" => state = "draft",
           state' = "frozen" => state \in {"draft", "frozen"}
    PROVE  CaseInv'
<1>1. /\ segments' = segments /\ findings' = findings /\ revisions' = revisions
      /\ credential = NoCredential /\ credential' = NoCredential
  BY NotApproved DEF reviewVars
<1>2. DraftInv' /\ FrozenIsPristine' /\ FindingsAreKeyed'
  BY <1>1 DEF ReviewInv, CaseInv, DraftInv, FrozenIsPristine, FindingsAreKeyed
<1>3. RevisionTrail' /\ ReturnedInv' /\ TextInv'
  BY <1>1 DEF ReviewInv, CaseInv, RevisionTrail, ReturnedInv, TextInv, RevisionsOf
<1>4. ApprovedIsClean' /\ CredentialVerifies'
  BY <1>1 DEF ApprovedIsClean, CredentialVerifies
<1> QED
  BY <1>1, <1>2, <1>3, <1>4 DEF ReviewInv, CaseInv

LEMMA CaseInit == Init => CaseInv
<1> SUFFICES ASSUME Init PROVE CaseInv
  OBVIOUS
<1>1. /\ state = "draft" /\ segments = {} /\ consents = {} /\ findings = {}
      /\ revisions = <<>> /\ credential = NoCredential
  BY DEF Init
<1>2. DOMAIN revisions = {}
  BY <1>1
<1> QED
  BY <1>1, <1>2 DEF CaseInv, Identified, Numbered, DraftInv, FrozenIsPristine,
     FindingsAreKeyed, RevisionTrail, RevisionsOf, TextInv, ReturnedInv, ApprovedIsClean,
     CredentialVerifies

LEMMA ConsentsTruncated ==
    ASSUME ReviewInv, NEW g \in GrantInputs, AddConsent(g) \/ ReplaceConsent(g)
    PROVE  \A h \in consents' : Truncated(h)
<1>1. Truncated(StoredGrant(g))
  BY StoredGrantType
<1>2. \A h \in consents' : h \in consents \/ h = StoredGrant(g)
  <2>1. \/ consents' = consents \cup {StoredGrant(g)}
        \/ consents' = {h \in consents : h.id # g.id} \cup {StoredGrant(g)}
    BY Zenon DEF AddConsent, ReplaceConsent
  <2> QED
    BY <2>1
<1> QED
  BY <1>1, <1>2 DEF ReviewInv, CaseInv

LEMMA EditStep == ReviewInv /\ Edit => CaseInv'
<1> SUFFICES ASSUME ReviewInv, Edit PROVE CaseInv'
  OBVIOUS
<1>1. \A g \in consents : Truncated(g)
  BY DEF ReviewInv, CaseInv
<1>2. ASSUME NEW S, Drafted(S), segments' = Resequence(S), state = "draft", state' = "draft",
             consents' = consents, UNCHANGED reviewVars
      PROVE  CaseInv'
  BY <1>1, <1>2, ResequenceDrafted, DraftStep
<1>3. ASSUME NEW use \in UseInputs, UpdateMetadata(use)
      PROVE  CaseInv'
  <2>1. /\ state = "draft" /\ state' = "draft" /\ UNCHANGED <<segments, reviewVars>>
        /\ consents' = consents
    BY <1>3, Zenon DEF UpdateMetadata
  <2> QED
    BY <1>1, <2>1, AsideStep
<1>4. ASSUME NEW in \in SegmentInputs, AddSegment(in)
      PROVE  CaseInv'
  <2>1. state = "draft" /\ state' = "draft" /\ consents' = consents /\ UNCHANGED reviewVars
    BY <1>4, Zenon DEF AddSegment
  <2> QED
    BY <1>2, <1>4, <2>1, AddDrafts
<1>5. ASSUME NEW n \in 1 .. MaxBatch, NEW rows \in [1 .. n -> SegmentInputs],
             AddSegmentsBatch(rows)
      PROVE  CaseInv'
  <2>1. state = "draft" /\ state' = "draft" /\ consents' = consents /\ UNCHANGED reviewVars
    BY <1>5, Zenon DEF AddSegmentsBatch
  <2>2. n \in Nat
    BY InputsAssumption
  <2> QED
    BY <1>2, <1>5, <2>1, <2>2, BatchDrafts
<1>6. ASSUME NEW in \in SegmentInputs, UpdateSegment(in)
      PROVE  CaseInv'
  <2>1. state = "draft" /\ state' = "draft" /\ consents' = consents /\ UNCHANGED reviewVars
    BY <1>6, Zenon DEF UpdateSegment
  <2> QED
    BY <1>2, <1>6, <2>1, UpdateDrafts
<1>7. ASSUME NEW id, DeleteSegment(id)
      PROVE  CaseInv'
  <2>1. state = "draft" /\ state' = "draft" /\ consents' = consents /\ UNCHANGED reviewVars
    BY <1>7, Zenon DEF DeleteSegment
  <2> QED
    BY <1>2, <1>7, <2>1, DeleteDrafts
<1>8. ASSUME NEW g \in GrantInputs, ReplaceConsent(g)
      PROVE  CaseInv'
  <2>1. state = "draft" /\ state' = "draft" /\ UNCHANGED <<segments, reviewVars>>
    BY <1>8, Zenon DEF ReplaceConsent, draftVars
  <2> QED
    BY <1>8, <2>1, ConsentsTruncated, AsideStep
<1> QED
  BY <1>3, <1>4, <1>5, <1>6, <1>7, <1>8 DEF Edit

LEMMA FreezeStep == ReviewInv /\ Freeze => CaseInv'
<1> SUFFICES ASSUME ReviewInv, Freeze PROVE CaseInv'
  OBVIOUS
<1>1. /\ state = "draft" /\ state' = "frozen" /\ consents' = consents
      /\ UNCHANGED <<segments, reviewVars>>
  BY Zenon DEF Freeze, draftVars
<1>2. \A g \in consents' : Truncated(g)
  BY <1>1 DEF ReviewInv, CaseInv
<1> QED
  BY <1>1, <1>2, AsideStep

LEMMA AddConsentStep ==
    ASSUME ReviewInv, NEW g \in GrantInputs, AddConsent(g)
    PROVE  CaseInv'
<1>1. /\ state \in {"draft", "frozen", "remediation"}
      /\ state' = IF state = "draft" THEN "draft" ELSE "remediation"
      /\ UNCHANGED <<segments, reviewVars>>
  BY Zenon DEF AddConsent, draftVars
<1> QED
  BY <1>1, ConsentsTruncated, AsideStep

-----------------------------------------------------------------------------
(* Checks *)
LEMMA CheckParts ==
    ASSUME ReviewInv, NEW targets \in SUBSET Strings, NEW t
    PROVE  LET broken == Broken(targets, t)
               checked == Check(targets, t)
           IN  /\ \A g \in checked :
                     /\ g \in Finding /\ g.segment \in targets
                     /\ <<g.segment, g.rule>> \in broken => g.status = "open"
                     /\ <<g.segment, g.rule>> \notin broken => g.status = "closed"
                     /\ \/ /\ <<g.segment, g.rule>> \in broken /\ ~g.returned
                           /\ \A f \in findings : <<f.segment, f.rule>> # <<g.segment, g.rule>>
                        \/ \E f \in findings : f.segment = g.segment /\ f.rule = g.rule
                                               /\ f.returned = g.returned
               /\ \A k \in broken : \E g \in checked : g.segment = k[1] /\ g.rule = k[2]
               /\ \A f \in findings : f.segment \in targets =>
                     \E g \in checked : g.segment = f.segment /\ g.rule = f.rule
                                        /\ g.returned = f.returned
               /\ \A g, h \in checked : g.segment = h.segment /\ g.rule = h.rule => g = h
<1> DEFINE broken == Broken(targets, t)
           checked == Check(targets, t)
           known == {f \in findings : <<f.segment, f.rule>> \in broken}
           new == {k \in broken : \A f \in known : <<f.segment, f.rule>> # k}
           opened(f) == [f EXCEPT !.status = "open"]
           closed(f) == [f EXCEPT !.status = "closed"]
           rest == {g \in findings : g.segment \in targets
                                     /\ <<g.segment, g.rule>> \notin broken}
<1>1. checked = {opened(f) : f \in known} \cup {NewFinding(k) : k \in new}
                   \cup {closed(f) : f \in rest}
  BY DEF Check, Closed
<1>2. checked \in SUBSET Finding
  BY CheckType DEF ReviewInv, TypeOK
<1>3. ASSUME NEW f \in findings
      PROVE  /\ opened(f).segment = f.segment /\ opened(f).rule = f.rule
             /\ opened(f).returned = f.returned /\ opened(f).status = "open"
             /\ closed(f).segment = f.segment /\ closed(f).rule = f.rule
             /\ closed(f).returned = f.returned /\ closed(f).status = "closed"
  BY DEF ReviewInv, TypeOK, Finding
<1>4. \A k \in broken : k = <<k[1], k[2]>> /\ k[1] \in targets
  BY DEF Broken
<1>5. ASSUME NEW k \in broken
      PROVE  /\ NewFinding(k).segment = k[1] /\ NewFinding(k).rule = k[2]
             /\ ~NewFinding(k).returned /\ NewFinding(k).status = "open"
  BY DEF NewFinding
<1> HIDE DEF broken, checked, opened, closed
<1>6. ASSUME NEW f \in known
      PROVE  f \in findings /\ <<f.segment, f.rule>> \in broken /\ f.segment \in targets
  BY <1>4
<1>7. \A k \in new : /\ k \in broken
                     /\ \A f \in findings : <<f.segment, f.rule>> # k
  OBVIOUS
<1> HIDE DEF known, new
<1>8. ASSUME NEW g \in checked
      PROVE  /\ g \in Finding /\ g.segment \in targets
             /\ <<g.segment, g.rule>> \in broken => g.status = "open"
             /\ <<g.segment, g.rule>> \notin broken => g.status = "closed"
             /\ \/ /\ <<g.segment, g.rule>> \in broken /\ ~g.returned
                   /\ \A f \in findings : <<f.segment, f.rule>> # <<g.segment, g.rule>>
                \/ \E f \in findings : f.segment = g.segment /\ f.rule = g.rule
                                       /\ f.returned = g.returned
  <2>1. CASE \E f \in known : g = opened(f)
    <3>1. PICK f \in known : g = opened(f)
      BY <2>1
    <3>2. f \in findings /\ <<f.segment, f.rule>> \in broken /\ f.segment \in targets
      BY <1>6
    <3>3. g.segment = f.segment /\ g.rule = f.rule /\ g.returned = f.returned /\ g.status = "open"
      BY <1>3, <3>1, <3>2
    <3> QED
      BY <1>2, <3>2, <3>3
  <2>2. CASE \E k \in new : g = NewFinding(k)
    BY <1>2, <1>4, <1>5, <1>7, <2>2
  <2>3. CASE \E f \in rest : g = closed(f)
    BY <1>2, <1>3, <2>3
  <2> QED
    BY <1>1, <2>1, <2>2, <2>3
<1>9. ASSUME NEW k \in broken
      PROVE  \E g \in checked : g.segment = k[1] /\ g.rule = k[2]
  <2>1. CASE k \in new
    BY <1>1, <1>5, <2>1
  <2>2. CASE k \notin new
    <3>1. PICK f \in known : <<f.segment, f.rule>> = k
      BY <2>2 DEF new
    <3>2. opened(f) \in checked /\ opened(f).segment = k[1] /\ opened(f).rule = k[2]
      BY <1>1, <1>3, <1>4, <1>6, <3>1
    <3> QED
      BY <3>2
  <2> QED
    BY <2>1, <2>2
<1>10. ASSUME NEW f \in findings, f.segment \in targets
       PROVE  \E g \in checked : g.segment = f.segment /\ g.rule = f.rule
                                 /\ g.returned = f.returned
  <2>1. CASE <<f.segment, f.rule>> \in broken
    <3>1. f \in known
      BY <2>1 DEF known
    <3>2. opened(f) \in checked
      BY <1>1, <3>1
    <3> QED
      BY <1>3, <3>2
  <2>2. CASE <<f.segment, f.rule>> \notin broken
    <3>1. closed(f) \in checked
      BY <1>1, <1>10, <2>2
    <3> QED
      BY <1>3, <3>1
  <2> QED
    BY <2>1, <2>2
<1>11. ASSUME NEW g \in checked, NEW h \in checked, g.segment = h.segment, g.rule = h.rule
       PROVE  g = h
  <2>1. \A e, f \in findings : e.segment = f.segment /\ e.rule = f.rule => e = f
    BY DEF ReviewInv, CaseInv, FindingsAreKeyed
  <2>2. CASE <<g.segment, g.rule>> \in broken
    <3>1. ASSUME NEW e \in checked, e.segment = g.segment, e.rule = g.rule
          PROVE  \/ \E f \in known : e = opened(f)
                 \/ \E k \in new : e = NewFinding(k) /\ k = <<g.segment, g.rule>>
      <4>1. CASE \E f \in rest : e = closed(f)
        BY <1>3, <2>2, <3>1, <4>1
      <4>2. ASSUME NEW k \in new, e = NewFinding(k)
            PROVE  k = <<g.segment, g.rule>>
        BY <1>4, <1>5, <1>7, <3>1, <4>2
      <4> QED
        BY <1>1, <4>1, <4>2
    <3>2. CASE \E f \in known : g = opened(f)
      <4>1. PICK f \in known : g = opened(f)
        BY <3>2
      <4>2. f \in findings /\ <<f.segment, f.rule>> = <<g.segment, g.rule>>
        BY <1>3, <1>6, <4>1
      <4>3. ~(<<g.segment, g.rule>> \in new)
        BY <1>7, <4>2
      <4>4. PICK e \in known : h = opened(e)
        BY <1>11, <3>1, <4>3
      <4>5. e = f
        <5>1. e \in findings /\ e.segment = h.segment /\ e.rule = h.rule
          BY <1>3, <1>6, <4>4
        <5>2. f.segment = g.segment /\ f.rule = g.rule
          BY <1>3, <4>1, <4>2
        <5> QED
          BY <1>11, <2>1, <4>2, <5>1, <5>2
      <4> QED
        BY <4>1, <4>4, <4>5
    <3>3. CASE \E k \in new : g = NewFinding(k) /\ k = <<g.segment, g.rule>>
      <4>1. ASSUME NEW f \in known, h = opened(f)
            PROVE  FALSE
        <5>1. f \in findings /\ f.segment = h.segment /\ f.rule = h.rule
          BY <1>3, <1>6, <4>1
        <5>2. \A e \in findings : <<e.segment, e.rule>> # <<g.segment, g.rule>>
          BY <1>7, <3>3
        <5> QED
          BY <1>11, <5>1, <5>2
      <4> QED
        BY <1>11, <3>1, <3>3, <4>1
    <3> QED
      BY <3>1, <3>2, <3>3
  <2>3. CASE <<g.segment, g.rule>> \notin broken
    <3>1. ASSUME NEW e \in checked, e.segment = g.segment, e.rule = g.rule
          PROVE  \E f \in rest : e = closed(f)
      <4>1. ~ \E f \in known : e = opened(f)
        BY <1>3, <1>6, <2>3, <3>1
      <4>2. ~ \E k \in new : e = NewFinding(k)
        BY <1>4, <1>5, <1>7, <2>3, <3>1
      <4> QED
        BY <1>1, <4>1, <4>2
    <3>2. PICK f \in rest : g = closed(f)
      BY <3>1
    <3>3. PICK e \in rest : h = closed(e)
      BY <1>11, <3>1
    <3>4. e = f
      BY <1>3, <1>11, <2>1, <3>2, <3>3
    <3> QED
      BY <3>2, <3>3, <3>4
  <2> QED
    BY <2>2, <2>3
<1> QED
  BY <1>8, <1>9, <1>10, <1>11 DEF broken, checked
(* The revisions say what they said, whatever a recheck noted on them. *)
Retold ==
    /\ Len(revisions') = Len(revisions)
    /\ \A i \in 1 .. Len(revisions) :
          /\ revisions'[i].segment = revisions[i].segment
          /\ revisions'[i].before = revisions[i].before
          /\ revisions'[i].after = revisions[i].after
          /\ revisions'[i].explanation = revisions[i].explanation
          /\ revisions'[i].related = revisions[i].related

LEMMA AnnotatedRetold ==
    ASSUME TypeOK, TypeOK', NEW targets, NEW checked,
           revisions' = Annotated(targets, checked)
    PROVE  Retold
<1>1. Len(revisions) \in Nat /\ revisions \in [1 .. Len(revisions) -> Revision]
  BY DEF TypeOK
<1>2. Len(revisions') = Len(revisions)
  <2>1. DOMAIN revisions' = 1 .. Len(revisions)
    BY DEF Annotated
  <2>2. DOMAIN revisions' = 1 .. Len(revisions') /\ Len(revisions') \in Nat
    BY LenProperties DEF TypeOK
  <2> QED
    BY <1>1, <2>1, <2>2
<1>3. ASSUME NEW i \in 1 .. Len(revisions)
      PROVE  /\ revisions'[i].segment = revisions[i].segment
             /\ revisions'[i].before = revisions[i].before
             /\ revisions'[i].after = revisions[i].after
             /\ revisions'[i].explanation = revisions[i].explanation
             /\ revisions'[i].related = revisions[i].related
  <2> DEFINE before == OpenRules(findings, revisions[i].segment)
             after  == OpenRules(checked, revisions[i].segment)
             r == revisions[i]
             noted == [r EXCEPT !.rechecked = TRUE, !.closed = before \ after,
                                !.remaining = before \cap after, !.new = after \ before]
  <2>1. revisions'[i] = IF Latest(i, targets) THEN noted ELSE r
    BY DEF Annotated
  <2>2. r \in Revision
    BY <1>1
  <2> HIDE DEF before, after, r
  <2>3. /\ noted.segment = r.segment /\ noted.before = r.before /\ noted.after = r.after
        /\ noted.explanation = r.explanation /\ noted.related = r.related
    BY <2>2 DEF Revision
  <2> HIDE DEF noted
  <2> QED
    BY <2>1, <2>3 DEF r
<1> QED
  BY <1>2, <1>3 DEF Retold

LEMMA RevisionDomain ==
    ASSUME TypeOK
    PROVE  Len(revisions) \in Nat /\ DOMAIN revisions = 1 .. Len(revisions)
BY LenProperties DEF TypeOK

LEMMA RetoldTrail ==
    ASSUME TypeOK, TypeOK', Retold, segments' = segments
    PROVE  /\ DOMAIN revisions' = DOMAIN revisions
           /\ \A id : RevisionsOf(id)' = RevisionsOf(id)
           /\ RevisionTrail => RevisionTrail'
           /\ revisions = <<>> => revisions' = <<>>
<1>1. DOMAIN revisions = 1 .. Len(revisions) /\ DOMAIN revisions' = 1 .. Len(revisions)
  BY LenProperties DEF TypeOK, Retold
<1>2. ASSUME NEW id PROVE RevisionsOf(id)' = RevisionsOf(id)
  BY <1>1 DEF Retold, RevisionsOf
<1>3. revisions = <<>> => revisions' = <<>>
  BY EmptySeq DEF TypeOK, Retold
<1>4. ASSUME RevisionTrail PROVE RevisionTrail'
  <2>1. ASSUME NEW i \in DOMAIN revisions, NEW j \in DOMAIN revisions,
               i < j, revisions'[i].segment = revisions'[j].segment,
               \A k \in i + 1 .. j - 1 : revisions'[k].segment # revisions'[i].segment
        PROVE  revisions'[j].before = revisions'[i].after
    <3>1. \A k \in i + 1 .. j - 1 : k \in DOMAIN revisions
      BY <1>1, RevisionDomain
    <3>2. \A k \in i + 1 .. j - 1 : revisions[k].segment # revisions[i].segment
      BY <1>1, <2>1, <3>1 DEF Retold
    <3>3. revisions[j].before = revisions[i].after
      BY <1>1, <1>4, <2>1, <3>2 DEF RevisionTrail, Retold
    <3> QED
      BY <1>1, <3>3 DEF Retold
  <2>2. \A id : \A i \in RevisionsOf(id) :
           /\ revisions'[i].after = revisions[i].after
           /\ revisions'[i].explanation = revisions[i].explanation
    BY <1>1 DEF Retold, RevisionsOf
  <2> QED
    BY <1>1, <1>2, <1>4, <2>1, <2>2 DEF RevisionTrail
<1> QED
  BY <1>1, <1>2, <1>3, <1>4

LEMMA CheckStep ==
    ASSUME ReviewInv, TypeOK', NEW targets \in SUBSET Strings, NEW t, InReview,
           UNCHANGED <<state, segments, consents, credential>>,
           findings' = {f \in findings : f.segment \notin targets} \cup Check(targets, t),
           Retold
    PROVE  CaseInv'
<1> DEFINE broken == Broken(targets, t)
           checked == Check(targets, t)
           kept == {f \in findings : f.segment \notin targets}
<1>1. /\ \A g \in checked :
            /\ g \in Finding /\ g.segment \in targets
            /\ <<g.segment, g.rule>> \in broken => g.status = "open"
            /\ <<g.segment, g.rule>> \notin broken => g.status = "closed"
            /\ \/ /\ <<g.segment, g.rule>> \in broken /\ ~g.returned
                  /\ \A f \in findings : <<f.segment, f.rule>> # <<g.segment, g.rule>>
               \/ \E f \in findings : f.segment = g.segment /\ f.rule = g.rule
                                      /\ f.returned = g.returned
      /\ \A f \in findings : f.segment \in targets =>
            \E g \in checked : g.segment = f.segment /\ g.rule = f.rule
                               /\ g.returned = f.returned
      /\ \A g, h \in checked : g.segment = h.segment /\ g.rule = h.rule => g = h
  BY CheckParts, SMTT(30)
<1>2. \A k \in broken : \E s \in segments :
         s.id = k[1] /\ k[2] \in BrokenRules(s, consents, intendedUse, t)
  BY DEF Broken
<1>3. \A s \in segments, r \in TextRules :
         s.id \in targets /\ r \in BrokenTextRules(s) => <<s.id, r>> \in broken
  BY DEF Broken, BrokenRules, RuleCodes
<1>4. \A s, r : r \in TextRules /\ r \in BrokenRules(s, consents, intendedUse, t) =>
         r \in BrokenTextRules(s)
  BY DEF BrokenRules, BrokenConsentRules, ConsentRules, TextRules, RuleMissingConsent,
         RuleUseConflict, RuleConsentExpired, RuleSensitiveRaw, RuleMaskLeak
<1>5. /\ DOMAIN revisions' = DOMAIN revisions
      /\ \A id : RevisionsOf(id)' = RevisionsOf(id)
      /\ RevisionTrail'
      /\ revisions = <<>> => revisions' = <<>>
  BY RetoldTrail DEF ReviewInv, CaseInv
<1> HIDE DEF broken, checked, kept
<1>6. findings' = kept \cup checked
  BY DEF kept, checked
<1>7. \A f \in kept : f \in findings /\ f.segment \notin targets
  BY DEF kept
<1>8. state \in {"frozen", "remediation"} /\ credential' = NoCredential
  BY NotApproved DEF InReview
<1>9. FrozenIsPristine'
  BY <1>1, <1>5, <1>6, <1>7, <1>8 DEF ReviewInv, CaseInv, FrozenIsPristine
<1>10. FindingsAreKeyed'
  <2>1. \A f, g \in findings' : f.segment = g.segment /\ f.rule = g.rule => f = g
    BY <1>1, <1>6, <1>7 DEF ReviewInv, CaseInv, FindingsAreKeyed
  <2>2. ASSUME NEW g \in checked PROVE g.segment \in Ids(segments)
    <3>1. CASE <<g.segment, g.rule>> \in broken
      BY <1>2, <3>1 DEF Ids
    <3>2. CASE <<g.segment, g.rule>> \notin broken
      BY <1>1, <3>2 DEF ReviewInv, CaseInv, FindingsAreKeyed
    <3> QED
      BY <3>1, <3>2
  <2>3. \A g \in kept : g.segment \in Ids(segments)
    BY <1>7 DEF ReviewInv, CaseInv, FindingsAreKeyed
  <2> QED
    BY <1>6, <2>1, <2>2, <2>3 DEF FindingsAreKeyed, Ids
<1>11. TextInv'
  <2> SUFFICES ASSUME NEW g \in findings', g.rule \in TextRules, RevisionsOf(g.segment) = {}
               PROVE  /\ g.status = "open"
                      /\ \E s \in segments : s.id = g.segment /\ g.rule \in BrokenTextRules(s)
    BY <1>5 DEF TextInv
  <2>1. CASE g \in kept
    BY <1>7, <2>1 DEF ReviewInv, CaseInv, TextInv
  <2>2. CASE g \in checked
    <3>1. CASE <<g.segment, g.rule>> \in broken
      <4>1. PICK s \in segments : /\ s.id = g.segment
                                  /\ g.rule \in BrokenRules(s, consents, intendedUse, t)
        BY <1>2, <3>1
      <4> QED
        BY <1>1, <1>4, <2>2, <3>1, <4>1
    <3>2. CASE <<g.segment, g.rule>> \notin broken
      <4>1. PICK f \in findings : f.segment = g.segment /\ f.rule = g.rule
        BY <1>1, <2>2, <3>2
      <4>2. PICK s \in segments : s.id = g.segment /\ g.rule \in BrokenTextRules(s)
        BY <4>1 DEF ReviewInv, CaseInv, TextInv
      <4> QED
        BY <1>1, <1>3, <2>2, <3>2, <4>2
    <3> QED
      BY <3>1, <3>2
  <2> QED
    BY <1>6, <2>1, <2>2
<1>12. ReturnedInv'
  <2> SUFFICES ASSUME NEW i \in DOMAIN revisions
               PROVE  /\ revisions'[i].related # {}
                      /\ \E g \in findings' : g.segment = revisions'[i].segment /\ g.returned
    BY <1>5 DEF ReturnedInv
  <2>1. /\ revisions'[i].related = revisions[i].related
        /\ revisions'[i].segment = revisions[i].segment
    BY RevisionDomain DEF Retold, ReviewInv
  <2>2. PICK f \in findings : f.segment = revisions[i].segment /\ f.returned
    BY DEF ReviewInv, CaseInv, ReturnedInv
  <2>3. \E g \in findings' : g.segment = f.segment /\ g.returned
    BY <1>1, <1>6, <2>2 DEF kept
  <2>4. revisions[i].related # {}
    BY DEF ReviewInv, CaseInv, ReturnedInv
  <2> QED
    BY <2>1, <2>2, <2>3, <2>4
<1>13. DraftInv' /\ ApprovedIsClean' /\ CredentialVerifies'
  BY <1>8 DEF DraftInv, ApprovedIsClean, CredentialVerifies
<1> QED
  BY <1>5, <1>9, <1>10, <1>11, <1>12, <1>13 DEF ReviewInv, CaseInv

LEMMA FullCheckStep == ReviewInv /\ TypeOK' /\ RunFullCheck => CaseInv'
<1> SUFFICES ASSUME ReviewInv, TypeOK', RunFullCheck PROVE CaseInv'
  OBVIOUS
<1>1. /\ InReview /\ findings' = Check(Strings, now) /\ revisions' = revisions
      /\ UNCHANGED <<state, draftVars, consents, credential>>
  BY Zenon DEF RunFullCheck
<1>2. {f \in findings : f.segment \notin Strings} = {}
  BY DEF ReviewInv, TypeOK, Finding
<1>3. findings' = {f \in findings : f.segment \notin Strings} \cup Check(Strings, now)
  BY <1>1, <1>2
<1>4. Retold
  BY <1>1 DEF Retold
<1>5. UNCHANGED <<state, segments, consents, credential>>
  BY <1>1 DEF draftVars
<1>6. Strings \in SUBSET Strings
  OBVIOUS
<1> QED
  BY <1>1, <1>3, <1>4, <1>5, <1>6, CheckStep

LEMMA TargetedCheckStep ==
    ASSUME ReviewInv, TypeOK', NEW targets \in SUBSET Ids(segments),
           RunTargetedCheck(targets)
    PROVE  CaseInv'
<1> DEFINE checked == Check(targets, now)
<1>1. /\ InReview
      /\ findings' = {f \in findings : f.segment \notin targets} \cup checked
      /\ revisions' = Annotated(targets, checked)
      /\ UNCHANGED <<state, draftVars, consents, credential>>
  BY Zenon DEF RunTargetedCheck
<1>2. targets \in SUBSET Strings
  BY DEF Ids, ReviewInv, TypeOK, Segment
<1> HIDE DEF checked
<1>3. Retold
  BY <1>1, AnnotatedRetold DEF ReviewInv
<1>4. UNCHANGED <<state, segments, consents, credential>>
  BY <1>1 DEF draftVars
<1> QED
  BY <1>1, <1>2, <1>3, <1>4, CheckStep DEF checked

(* Returning some findings leaves everything else of them as it was. *)
LEMMA ReturnStep ==
    ASSUME ReviewInv, TypeOK', NEW batch \in SUBSET findings, InReview,
           findings' = (findings \ batch) \cup {[f EXCEPT !.returned = TRUE] : f \in batch},
           state' = "remediation",
           UNCHANGED <<segments, consents, revisions, credential>>
    PROVE  CaseInv'
<1> DEFINE after(f) == IF f \in batch THEN [f EXCEPT !.returned = TRUE] ELSE f
<1>1. findings' = {after(f) : f \in findings}
  OBVIOUS
<1>2. ASSUME NEW f \in findings
      PROVE  /\ after(f).segment = f.segment /\ after(f).rule = f.rule
             /\ after(f).status = f.status
             /\ f.returned => after(f).returned
  BY DEF ReviewInv, TypeOK, Finding
<1> HIDE DEF after
<1>3. credential' = NoCredential
  BY NotApproved DEF InReview
<1>4. FindingsAreKeyed'
  BY <1>1, <1>2 DEF ReviewInv, CaseInv, FindingsAreKeyed
<1>5. TextInv' /\ RevisionTrail'
  BY <1>1, <1>2 DEF ReviewInv, CaseInv, TextInv, RevisionTrail, RevisionsOf
<1>6. ReturnedInv'
  <2> SUFFICES ASSUME NEW i \in DOMAIN revisions
               PROVE  /\ revisions[i].related # {}
                      /\ \E g \in findings' : g.segment = revisions[i].segment /\ g.returned
    BY DEF ReturnedInv
  <2>1. revisions[i].related # {}
    BY DEF ReviewInv, CaseInv, ReturnedInv
  <2>2. PICK f \in findings : f.segment = revisions[i].segment /\ f.returned
    BY DEF ReviewInv, CaseInv, ReturnedInv
  <2> QED
    BY <1>1, <1>2, <2>1, <2>2
<1>7. DraftInv' /\ FrozenIsPristine' /\ ApprovedIsClean' /\ CredentialVerifies'
  BY <1>3 DEF DraftInv, FrozenIsPristine, ApprovedIsClean, CredentialVerifies
<1> QED
  BY <1>4, <1>5, <1>6, <1>7 DEF ReviewInv, CaseInv

(* What a remediation of s changes, field by field. *)
LEMMA RemediateParts ==
    ASSUME ReviewInv, NEW s \in segments, NEW proposed, NEW explanation,
           Remediate(s, proposed, explanation)
    PROVE  LET r == [s EXCEPT !.proposed = Trim[proposed],
                              !.disposition = Trim[explanation]]
               n == Len(revisions) + 1
           IN  /\ segments' = (segments \ {s}) \cup {r}
               /\ r.id = s.id /\ r.start = s.start /\ r.sequence = s.sequence
               /\ n \in Nat \ {0} /\ DOMAIN revisions = 1 .. n - 1
               /\ DOMAIN revisions' = 1 .. n
               /\ \A i \in 1 .. n - 1 : revisions'[i] = revisions[i]
               /\ revisions'[n].segment = s.id
               /\ revisions'[n].before = s.proposed
               /\ revisions'[n].after = r.proposed
               /\ revisions'[n].explanation = r.disposition
               /\ revisions'[n].related # {}
               /\ \E f \in findings : f.segment = s.id /\ f.returned
<1> DEFINE r == [s EXCEPT !.proposed = Trim[proposed],
                          !.disposition = Trim[explanation]]
           n == Len(revisions) + 1
           v == NewRevision(s, proposed, explanation)
<1>1. segments' = (segments \ {s}) \cup {r} /\ revisions' = Append(revisions, v)
  BY Zenon DEF Remediate
<1>2. /\ r.id = s.id /\ r.start = s.start /\ r.sequence = s.sequence
      /\ r.proposed = Trim[proposed] /\ r.disposition = Trim[explanation]
  BY DEF ReviewInv, TypeOK, Segment
<1>3. /\ v.segment = s.id /\ v.before = s.proposed /\ v.after = Trim[proposed]
      /\ v.explanation = Trim[explanation]
      /\ v.related = {f.rule : f \in {g \in findings : g.segment = s.id
                                        /\ g.status = "open" /\ g.returned}}
  BY DEF NewRevision
<1>4. PICK f \in findings : f.segment = s.id /\ f.status = "open" /\ f.returned
  BY Zenon DEF Remediate, HasReturnedOpenFinding
<1>5. v.related # {}
  BY <1>3, <1>4
<1> HIDE DEF r, v
<1>6. /\ n \in Nat \ {0} /\ DOMAIN revisions = 1 .. n - 1 /\ DOMAIN revisions' = 1 .. n
      /\ \A i \in 1 .. n - 1 : revisions'[i] = revisions[i]
      /\ revisions'[n] = v
  BY <1>1, AppendProperties, LenProperties DEF ReviewInv, TypeOK
<1> HIDE DEF n
<1> QED
  BY <1>1, <1>2, <1>3, <1>4, <1>5, <1>6 DEF r, n

LEMMA RemediateStep ==
    ASSUME ReviewInv, TypeOK', NEW s \in segments, NEW proposed, NEW explanation,
           Remediate(s, proposed, explanation)
    PROVE  CaseInv'
<1> DEFINE r == [s EXCEPT !.proposed = Trim[proposed],
                          !.disposition = Trim[explanation]]
           n == Len(revisions) + 1
           told(f) == IF f.segment = s.id /\ f.status = "open"
                      THEN [f EXCEPT !.remediation = explanation] ELSE f
<1>1. /\ segments' = (segments \ {s}) \cup {r}
      /\ r.id = s.id /\ r.start = s.start /\ r.sequence = s.sequence
      /\ n \in Nat \ {0} /\ DOMAIN revisions = 1 .. n - 1
      /\ DOMAIN revisions' = 1 .. n
      /\ \A i \in 1 .. n - 1 : revisions'[i] = revisions[i]
      /\ revisions'[n].segment = s.id
      /\ revisions'[n].before = s.proposed
      /\ revisions'[n].after = r.proposed
      /\ revisions'[n].explanation = r.disposition
      /\ revisions'[n].related # {}
      /\ \E f \in findings : f.segment = s.id /\ f.returned
  BY RemediateParts
<1>2. findings' = {told(f) : f \in findings}
  BY Zenon DEF Remediate
<1>3. InReview /\ state' = "remediation" /\ UNCHANGED <<consents, credential>>
  BY Zenon DEF Remediate
<1>4. credential' = NoCredential
  BY <1>3, NotApproved DEF InReview
<1>5. ASSUME NEW f \in findings
      PROVE  /\ told(f).segment = f.segment /\ told(f).rule = f.rule
             /\ told(f).status = f.status /\ told(f).returned = f.returned
             /\ f.segment # s.id => told(f) = f
  BY DEF ReviewInv, TypeOK, Finding
<1> HIDE DEF r, n, told
<1>6. Identified(segments) /\ Numbered(segments)
  BY DEF ReviewInv, CaseInv
<1>7. \A u \in segments : u # s => u.id # s.id /\ u \in segments'
  BY <1>1, <1>6 DEF Identified
<1>8. Identified(segments')
  BY <1>1, <1>6, <1>7 DEF Identified
<1>9. Numbered(segments')
  <2>1. ASSUME NEW x
        PROVE  Cardinality({u \in segments' : u.start < x})
             = Cardinality({u \in segments : u.start < x})
    <3> DEFINE before == {u \in segments : u.start < x}
               later == {u \in segments' : u.start < x}
               f == [u \in before |-> IF u = s THEN r ELSE u]
    <3>1. IsFiniteSet(before)
      BY FS_Subset DEF ReviewInv, TypeOK
    <3>2. f \in [before -> later]
      BY <1>1
    <3>3. \A v \in later : \E u \in before : f[u] = v
      BY <1>1
    <3>4. ASSUME NEW u \in before, NEW v \in before, f[u] = f[v]
          PROVE  u = v
      BY <1>1, <1>7, <3>4
    <3> HIDE DEF before, later, f
    <3>5. f \in Surjection(before, later) /\ f \in Injection(before, later)
      BY <3>2, <3>3, <3>4 DEF Surjection, Injection, IsInjective
    <3> QED
      BY <3>1, <3>5, FS_Surjection DEF before, later
  <2>2. ASSUME NEW u \in segments'
        PROVE  u.sequence = 1 + Cardinality({v \in segments' : v.start < u.start})
    <3>1. PICK v \in segments : u.start = v.start /\ u.sequence = v.sequence
      BY <1>1
    <3>2. u.sequence = 1 + Cardinality({w \in segments : w.start < u.start})
      BY <1>6, <3>1 DEF Numbered
    <3> QED
      BY <2>1, <3>2
  <2> QED
    BY <2>2 DEF Numbered
<1>10. FindingsAreKeyed'
  <2>1. \A g \in findings' : \E u \in segments' : u.id = g.segment
    <3>1. \A f \in findings : \E u \in segments : u.id = f.segment
      BY DEF ReviewInv, CaseInv, FindingsAreKeyed, Ids
    <3> QED
      BY <1>1, <1>2, <1>5, <1>7, <3>1
  <2> QED
    BY <1>2, <1>5, <2>1 DEF ReviewInv, CaseInv, FindingsAreKeyed, Ids
<1>11. /\ \A id : id # s.id => RevisionsOf(id)' = RevisionsOf(id)
       /\ n \in RevisionsOf(s.id)'
  <2>1. \A i : i \in 1 .. n <=> i \in 1 .. n - 1 \/ i = n
    BY <1>1
  <2>2. ASSUME NEW id, id # s.id PROVE RevisionsOf(id)' = RevisionsOf(id)
    <3>1. \A i : i \in RevisionsOf(id)' <=> i \in 1 .. n /\ revisions'[i].segment = id
      BY <1>1 DEF RevisionsOf
    <3>2. \A i : i \in RevisionsOf(id) <=> i \in 1 .. n - 1 /\ revisions[i].segment = id
      BY <1>1 DEF RevisionsOf
    <3>3. \A i \in 1 .. n - 1 : revisions'[i].segment = revisions[i].segment
      BY <1>1
    <3>4. revisions'[n].segment # id
      BY <1>1, <2>2
    <3>5. \A i : i \in RevisionsOf(id)' <=> i \in RevisionsOf(id)
      BY <2>1, <3>1, <3>2, <3>3, <3>4, Zenon
    <3> QED
      BY <3>5
  <2>3. n \in RevisionsOf(s.id)'
    BY <1>1, <2>1 DEF RevisionsOf
  <2> QED
    BY <2>2, <2>3
<1>12. RevisionTrail'
  <2>1. ASSUME NEW i \in DOMAIN revisions', NEW j \in DOMAIN revisions', i < j,
               revisions'[i].segment = revisions'[j].segment,
               \A k \in i + 1 .. j - 1 : revisions'[k].segment # revisions'[i].segment
        PROVE  revisions'[j].before = revisions'[i].after
    <3>1. i \in 1 .. n - 1 /\ revisions'[i] = revisions[i]
      BY <1>1, <2>1
    <3>2. \A k \in i + 1 .. j - 1 : k \in 1 .. n - 1 /\ revisions'[k] = revisions[k]
      BY <1>1, <3>1
    <3>3. CASE j \in 1 .. n - 1
      BY <1>1, <2>1, <3>1, <3>2, <3>3 DEF ReviewInv, CaseInv, RevisionTrail
    <3>4. CASE j = n
      <4>1. i \in RevisionsOf(s.id)
        BY <1>1, <2>1, <3>1, <3>4 DEF RevisionsOf
      <4>2. PICK m \in RevisionsOf(s.id) : /\ \A k \in RevisionsOf(s.id) : k <= m
                                           /\ s.proposed = revisions[m].after
        BY <4>1 DEF ReviewInv, CaseInv, RevisionTrail
      <4>3. m \in 1 .. n - 1 /\ revisions[m].segment = s.id
        BY <1>1, <4>2 DEF RevisionsOf
      <4>4. m = i
        <5>1. i <= m
          BY <4>1, <4>2
        <5>2. ~(m \in i + 1 .. j - 1)
          BY <1>1, <2>1, <3>2, <3>4, <4>3
        <5> QED
          BY <1>1, <3>1, <3>4, <4>3, <5>1, <5>2
      <4> QED
        BY <1>1, <3>1, <3>4, <4>2, <4>4
    <3> QED
      BY <1>1, <3>3, <3>4
  <2>2. ASSUME NEW u \in segments'
        PROVE  IF RevisionsOf(u.id)' = {} THEN u.disposition = Blank
               ELSE \E i \in RevisionsOf(u.id)' :
                       /\ \A j \in RevisionsOf(u.id)' : j <= i
                       /\ u.proposed = revisions'[i].after
                       /\ u.disposition = revisions'[i].explanation
    <3>1. CASE u = r
      <4>1. \A j \in RevisionsOf(s.id)' : j <= n
        BY <1>1 DEF RevisionsOf
      <4> QED
        BY <1>1, <1>11, <3>1, <4>1
    <3>2. CASE u \in segments /\ u # s
      <4>1. u.id # s.id
        BY <1>7, <3>2
      <4>2. \A i \in RevisionsOf(u.id) : revisions'[i] = revisions[i]
        BY <1>1 DEF RevisionsOf
      <4>3. RevisionsOf(u.id)' = RevisionsOf(u.id)
        BY <1>11, <4>1
      <4> QED
        BY <3>2, <4>2, <4>3 DEF ReviewInv, CaseInv, RevisionTrail
    <3> QED
      BY <1>1, <3>1, <3>2
  <2> QED
    BY <2>1, <2>2 DEF RevisionTrail
<1>13. TextInv'
  <2> SUFFICES ASSUME NEW g \in findings', g.rule \in TextRules, RevisionsOf(g.segment)' = {}
               PROVE  /\ g.status = "open"
                      /\ \E u \in segments' : u.id = g.segment /\ g.rule \in BrokenTextRules(u)
    BY DEF TextInv
  <2>1. g.segment # s.id
    BY <1>11
  <2>2. g \in findings
    BY <1>2, <1>5, <2>1
  <2>3. RevisionsOf(g.segment) = {}
    BY <1>11, <2>1
  <2>4. g.status = "open" /\ \E u \in segments : u.id = g.segment /\ g.rule \in BrokenTextRules(u)
    BY <2>2, <2>3 DEF ReviewInv, CaseInv, TextInv
  <2> QED
    BY <1>1, <2>1, <2>4
<1>14. ReturnedInv'
  <2> SUFFICES ASSUME NEW i \in DOMAIN revisions'
               PROVE  /\ revisions'[i].related # {}
                      /\ \E g \in findings' : g.segment = revisions'[i].segment /\ g.returned
    BY DEF ReturnedInv
  <2>1. revisions'[i].related # {}
    BY <1>1 DEF ReviewInv, CaseInv, ReturnedInv
  <2>2. \E f \in findings : f.segment = revisions'[i].segment /\ f.returned
    BY <1>1 DEF ReviewInv, CaseInv, ReturnedInv
  <2> QED
    BY <1>2, <1>5, <2>1, <2>2
<1>15. DraftInv' /\ FrozenIsPristine' /\ ApprovedIsClean' /\ CredentialVerifies'
  BY <1>3, <1>4 DEF DraftInv, FrozenIsPristine, ApprovedIsClean, CredentialVerifies
<1> QED
  BY <1>3, <1>8, <1>9, <1>10, <1>12, <1>13, <1>14, <1>15 DEF ReviewInv, CaseInv

(* A check that leaves nothing open found no broken rule. *)
LEMMA CleanCheck ==
    ASSUME ReviewInv, NEW t, NoOpenBlocker(Check(Strings, t)), NEW s \in segments
    PROVE  BrokenRules(s, consents, intendedUse, t) = {}
<1> DEFINE targets == Strings
           broken == Broken(targets, t)
           checked == Check(targets, t)
<1>1. /\ \A g \in checked :
            /\ g \in Finding /\ g.segment \in targets
            /\ <<g.segment, g.rule>> \in broken => g.status = "open"
            /\ <<g.segment, g.rule>> \notin broken => g.status = "closed"
            /\ \/ /\ <<g.segment, g.rule>> \in broken /\ ~g.returned
                  /\ \A f \in findings : <<f.segment, f.rule>> # <<g.segment, g.rule>>
               \/ \E f \in findings : f.segment = g.segment /\ f.rule = g.rule
                                      /\ f.returned = g.returned
      /\ \A k \in broken : \E g \in checked : g.segment = k[1] /\ g.rule = k[2]
      /\ \A f \in findings : f.segment \in targets =>
            \E g \in checked : g.segment = f.segment /\ g.rule = f.rule
                               /\ g.returned = f.returned
      /\ \A g, h \in checked : g.segment = h.segment /\ g.rule = h.rule => g = h
  <2>1. targets \in SUBSET Strings
    OBVIOUS
  <2> HIDE DEF targets
  <2> QED
    BY <2>1, CheckParts
<1>2. \A k \in broken : k = <<k[1], k[2]>>
  BY DEF Broken
<1>3. \A g \in checked : g.status # "open"
  BY DEF NoOpenBlocker
<1> HIDE DEF broken, checked
<1>4. broken = {}
  BY <1>1, <1>2, <1>3
<1>5. ASSUME NEW r \in RuleCodes, r \in BrokenRules(s, consents, intendedUse, t)
      PROVE  FALSE
  <2> DEFINE k == <<s.id, r>>
  <2>1. k \in Strings \X RuleCodes /\ k[1] = s.id /\ k[2] = r
    BY DEF ReviewInv, TypeOK, Segment
  <2> HIDE DEF k
  <2>2. k \in broken
    BY <1>5, <2>1 DEF broken, Broken
  <2> QED
    BY <1>4, <2>2
<1>6. BrokenRules(s, consents, intendedUse, t) \subseteq RuleCodes
  BY DEF BrokenRules, BrokenConsentRules, BrokenTextRules, RuleCodes
<1> QED
  BY <1>5, <1>6

LEMMA ApproveStep ==
    ASSUME ReviewInv, NEW t \in ApprovalTimes, Approve(t)
    PROVE  CaseInv'
<1>1. /\ InReview /\ NoOpenBlocker(Check(Strings, t)) /\ NoOpenBlocker(findings)
      /\ state' = "approved" /\ version' = version + 1
      /\ credential' = [approvedVersion |-> version + 1, approvedAt |-> UTC(t),
                        manifest |-> CredentialSegments, consents |-> consents]
      /\ UNCHANGED <<draftVars, consents, findings, revisions>>
  BY Zenon DEF Approve, SealAt, Bump
<1>2. /\ segments' = segments /\ intendedUse' = intendedUse /\ consents' = consents
      /\ findings' = findings /\ revisions' = revisions
  BY <1>1 DEF draftVars
<1>3. t \in Nat /\ UTC(t) \in Nat
  <2>1. t \in Nat
    BY DEF ApprovalTimes, ReviewInv, TypeOK
  <2> QED
    BY <2>1, UTCType
<1>4. credential' # NoCredential
  <2>1. credential' \in Credential
    BY <1>1, <1>3, CredentialSegmentsType DEF Credential, ReviewInv, TypeOK
  <2> QED
    BY <2>1, CredentialAssumption
<1>5. CredentialVerifies'
  <2>1. CredentialSegments' = CredentialSegments
    BY <1>2 DEF CredentialSegments
  <2> QED
    BY <1>1, <1>2, <1>4, <2>1 DEF CredentialVerifies, VerifyCredential
<1>6. ApprovedIsClean'
  <2>1. ASSUME NEW s \in segments
        PROVE  BrokenRules(s, consents, intendedUse, UTC(t)) = {}
    <3>1. BrokenRules(s, consents, intendedUse, t) = {}
      BY <1>1, CleanCheck
    <3>2. BrokenTextRules(s) = {} /\ BrokenConsentRules(consents, intendedUse, s.id, t) = {}
      BY <3>1 DEF BrokenRules
    <3>3. BrokenConsentRules(consents, intendedUse, s.id, UTC(t)) = {}
      BY <1>3, <3>2, CleanAtMillisecond DEF ReviewInv, TypeOK, CaseInv
    <3> QED
      BY <3>2, <3>3 DEF BrokenRules
  <2>2. NoOpenBlocker(findings') /\ credential'.approvedAt = UTC(t)
    BY <1>1, <1>2
  <2> QED
    BY <1>2, <2>1, <2>2 DEF ApprovedIsClean
<1>7. DraftInv' /\ FrozenIsPristine'
  BY <1>1 DEF DraftInv, FrozenIsPristine
<1>8. FindingsAreKeyed' /\ RevisionTrail' /\ TextInv' /\ ReturnedInv'
  BY <1>2 DEF ReviewInv, CaseInv, FindingsAreKeyed, RevisionTrail, RevisionsOf, TextInv,
     ReturnedInv
<1> QED
  BY <1>2, <1>5, <1>6, <1>7, <1>8 DEF ReviewInv, CaseInv

(* The clock ticks, or nothing happens. *)
LEMMA IdleStep ==
    ASSUME ReviewInv, UNCHANGED <<state, version, draftVars, consents, reviewVars>>
    PROVE  CaseInv'
<1>1. /\ state' = state /\ version' = version /\ segments' = segments
      /\ intendedUse' = intendedUse /\ consents' = consents /\ findings' = findings
      /\ revisions' = revisions /\ credential' = credential
  BY DEF draftVars, reviewVars
<1>2. DraftInv' /\ FrozenIsPristine' /\ FindingsAreKeyed'
  BY <1>1 DEF ReviewInv, CaseInv, DraftInv, FrozenIsPristine, FindingsAreKeyed
<1>3. RevisionTrail' /\ TextInv' /\ ReturnedInv'
  BY <1>1 DEF ReviewInv, CaseInv, RevisionTrail, RevisionsOf, TextInv, ReturnedInv
<1>4. ApprovedIsClean' /\ CredentialVerifies'
  BY <1>1 DEF ReviewInv, CaseInv, ApprovedIsClean, CredentialVerifies, VerifyCredential,
     CredentialSegments
<1> QED
  BY <1>1, <1>2, <1>3, <1>4 DEF ReviewInv, CaseInv

LEMMA ReviewStep == ReviewInv /\ TypeOK' /\ Review => CaseInv'
<1> SUFFICES ASSUME ReviewInv, TypeOK', Review PROVE CaseInv'
  OBVIOUS
<1>1. CASE RunFullCheck
  BY <1>1, FullCheckStep
<1>2. CASE \E targets \in SUBSET Ids(segments) : RunTargetedCheck(targets)
  BY <1>2, TargetedCheckStep
<1>3. ASSUME NEW f \in findings, NEW note \in NoteInputs, ReturnFinding(f, note)
      PROVE  CaseInv'
  <2>1. /\ InReview /\ state' = "remediation"
        /\ findings' = (findings \ {f}) \cup {[f EXCEPT !.returned = TRUE]}
        /\ UNCHANGED <<draftVars, consents, revisions, credential>>
    BY <1>3, Zenon DEF ReturnFinding
  <2>2. /\ {f} \in SUBSET findings
        /\ findings' = (findings \ {f}) \cup {[g EXCEPT !.returned = TRUE] : g \in {f}}
    BY <2>1
  <2>3. UNCHANGED <<segments, consents, revisions, credential>>
    BY <2>1 DEF draftVars
  <2> QED
    BY <2>1, <2>2, <2>3, ReturnStep
<1>4. ASSUME NEW batch \in SUBSET findings, NEW note \in NoteInputs,
             ReturnFindingsBatch(batch, note)
      PROVE  CaseInv'
  <2>1. /\ InReview /\ state' = "remediation"
        /\ findings' = (findings \ batch) \cup {[f EXCEPT !.returned = TRUE] : f \in batch}
        /\ UNCHANGED <<draftVars, consents, revisions, credential>>
    BY <1>4, Zenon DEF ReturnFindingsBatch
  <2>2. UNCHANGED <<segments, consents, revisions, credential>>
    BY <2>1 DEF draftVars
  <2> QED
    BY <2>1, <2>2, ReturnStep
<1>5. CASE \E s \in segments, proposed \in TextInputs, explanation \in NoteInputs :
              Remediate(s, proposed, explanation)
  BY <1>5, RemediateStep
<1>6. CASE \E t \in ApprovalTimes : Approve(t)
  BY <1>6, ApproveStep
<1> QED
  BY <1>1, <1>2, <1>3, <1>4, <1>5, <1>6, Zenon DEF Review

LEMMA NextReview == ReviewInv /\ [Next]_vars => ReviewInv'
<1> SUFFICES ASSUME ReviewInv, [Next]_vars PROVE ReviewInv'
  OBVIOUS
<1>1. TypeOK'
  BY NextType DEF ReviewInv
<1>2. TimelineInv'
  BY TimelineStep DEF ReviewInv
<1>3. CaseInv'
  <2>1. CASE Edit
    BY <2>1, EditStep
  <2>2. CASE Freeze
    BY <2>2, FreezeStep
  <2>3. CASE Review
    BY <1>1, <2>3, ReviewStep
  <2>4. CASE \E g \in GrantInputs : AddConsent(g)
    BY <2>4, AddConsentStep
  <2>5. CASE Tick \/ UNCHANGED vars
    <3>1. UNCHANGED <<state, version, draftVars, consents, reviewVars>>
      BY <2>5, Zenon DEF Tick, vars
    <3> QED
      BY <3>1, IdleStep
  <2> QED
    BY <2>1, <2>2, <2>3, <2>4, <2>5, Zenon DEF Next, Draft
<1> QED
  BY <1>1, <1>2, <1>3 DEF ReviewInv

LEMMA ReviewInvariance == Spec => []ReviewInv
<1>1. Init => ReviewInv
  BY InitType, TimelineInit, CaseInit DEF ReviewInv
<1> QED
  BY <1>1, NextReview, PTL DEF Spec

-----------------------------------------------------------------------------
(* Safety *)

(* The place of a segment counts those before it, and no two segments of   *)
(* a timeline start together: the places are pairwise different numbers,   *)
(* none beyond the number of segments.                                     *)
LEMMA PlacesAreAll ==
    ASSUME NEW S \in SUBSET Segment, IsFiniteSet(S), WellTimed(S), Disjoint(S), Numbered(S)
    PROVE  /\ {s.sequence : s \in S} = 1 .. Cardinality(S)
           /\ \A s, t \in S : s.start < t.start => s.sequence < t.sequence
<1> DEFINE n == Cardinality(S)
           before(s) == {u \in S : u.start < s.start}
           place == [s \in S |-> s.sequence]
<1>1. n \in Nat
  BY FS_CardinalityType
<1>0. \A s \in S : s.start \in Int /\ s.end \in Int
  BY SegmentTimes
<1>2. ASSUME NEW s \in S
      PROVE  /\ IsFiniteSet(before(s)) /\ Cardinality(before(s)) \in Nat
             /\ s.sequence = 1 + Cardinality(before(s)) /\ s.start \in Int
  <2>1. IsFiniteSet(before(s))
    BY FS_Subset
  <2> QED
    BY <1>0, <2>1, FS_CardinalityType DEF Numbered
<1>3. ASSUME NEW s \in S, NEW t \in S, s.start < t.start
      PROVE  s.sequence < t.sequence
  <2>1. before(s) \in SUBSET before(t)
    BY <1>0, <1>3
  <2>2. s \in before(t) /\ s \notin before(s)
    BY <1>0, <1>3
  <2> HIDE DEF before
  <2>3. /\ Cardinality(before(s)) <= Cardinality(before(t))
        /\ Cardinality(before(s)) # Cardinality(before(t))
    BY <1>2, <2>1, <2>2, FS_Subset
  <2> QED
    BY <1>2, <2>3
<1>4. ASSUME NEW s \in S
      PROVE  s.sequence \in 1 .. n
  <2>1. before(s) \in SUBSET S /\ s \in S /\ s \notin before(s)
    BY <1>0
  <2> HIDE DEF before
  <2>2. Cardinality(before(s)) <= n /\ Cardinality(before(s)) # n
    BY <2>1, FS_Subset
  <2> QED
    BY <1>1, <1>2, <2>2
<1>5. ASSUME NEW s \in S, NEW t \in S, s.sequence = t.sequence
      PROVE  s = t
  <2>1. ~(s.start < t.start) /\ ~(t.start < s.start)
    <3>1. s.sequence \in Nat /\ t.sequence \in Nat
      BY DEF Segment
    <3>2. ~(s.sequence < t.sequence) /\ ~(t.sequence < s.sequence)
      BY <1>5, <3>1
    <3> QED
      BY <1>3, <3>2
  <2>2. s.end > s.start /\ t.end > t.start
    BY DEF WellTimed
  <2> QED
    BY <1>0, <2>1, <2>2 DEF Disjoint
<1> HIDE DEF n
<1>6. place \in Injection(S, 1 .. n)
  BY <1>4, <1>5 DEF Injection, IsInjective
<1> HIDE DEF place
<1>7. IsFiniteSet(1 .. n) /\ Cardinality(1 .. n) = n
  BY <1>1, FS_Interval
<1>8. place \in Surjection(S, 1 .. n)
  BY <1>6, <1>7, FS_Injection DEF n
<1>9. {s.sequence : s \in S} = 1 .. n
  BY <1>8 DEF Surjection, place
<1> QED
  BY <1>3, <1>9 DEF n

(* Whichever adds, batches, updates and deletions built a timeline, its    *)
(* segments are numbered from 1 in the order of their starts: what the     *)
(* credential seals as the order of publication.                           *)
THEOREM NumberedInOrder == Spec => []SequenceIsTimelineOrder
<1>1. ReviewInv => SequenceIsTimelineOrder
  BY PlacesAreAll DEF ReviewInv, TypeOK, TimelineInv, CaseInv, SequenceIsTimelineOrder
<1> QED
  BY <1>1, ReviewInvariance, PTL

(* However full checks, targeted checks, returns and remediations follow   *)
(* each other, a case has one finding per segment and rule, and none for a *)
(* segment it does not have.                                               *)
THEOREM FindingsKeyed == Spec => []FindingsAreKeyed
<1>1. ReviewInv => FindingsAreKeyed
  BY DEF ReviewInv, CaseInv
<1> QED
  BY <1>1, ReviewInvariance, PTL

(* Every command that revises or returns leaves the frozen state.          *)
THEOREM FrozenUntouched == Spec => []FrozenIsPristine
<1>1. ReviewInv => FrozenIsPristine
  BY DEF ReviewInv, CaseInv
<1> QED
  BY <1>1, ReviewInvariance, PTL

(* The revisions of a segment are its whole history since the freeze, each *)
(* from the text the one before it left, whatever rechecks noted on them.  *)
THEOREM TrailComplete == Spec => []RevisionTrail
<1>1. ReviewInv => RevisionTrail
  BY DEF ReviewInv, CaseInv
<1> QED
  BY <1>1, ReviewInvariance, PTL

(* Only a revision of its segment closes a finding about a text.           *)
THEOREM TextClosedByRevision == Spec => []TextFindingsClosedByRevision
<1>1. ReviewInv => TextFindingsClosedByRevision
  BY DEF ReviewInv, CaseInv, TextInv, TextFindingsClosedByRevision
<1> QED
  BY <1>1, ReviewInvariance, PTL

(* An approved case breaks no rule at the time its credential carries: the *)
(* approval's own check found none at a clock of the same millisecond, and *)
(* the grants it counted on are stored in milliseconds.                    *)
THEOREM PublishedIsClean == Spec => []ApprovedIsClean
<1>1. ReviewInv => ApprovedIsClean
  BY DEF ReviewInv, CaseInv
<1> QED
  BY <1>1, ReviewInvariance, PTL

LEMMA ReviewedIsReturned ==
    ASSUME ReviewInv
    PROVE  SensitiveWasReturned
<1> SUFFICES ASSUME state = "approved", NEW s \in segments, s.tag # "none"
             PROVE  /\ \E f \in findings : f.segment = s.id /\ f.returned
                    /\ \E i \in RevisionsOf(s.id) : revisions[i].related # {}
  BY DEF SensitiveWasReturned
<1>1. BrokenTextRules(s) = {}
  BY DEF ReviewInv, CaseInv, ApprovedIsClean, BrokenRules
<1>2. s.disposition # Blank
  BY <1>1, StringsAssumption DEF BrokenTextRules, TextRules
<1>3. PICK i \in RevisionsOf(s.id) : TRUE
  BY <1>2 DEF ReviewInv, CaseInv, RevisionTrail
<1>4. i \in DOMAIN revisions /\ revisions[i].segment = s.id
  BY <1>3 DEF RevisionsOf
<1> QED
  BY <1>3, <1>4 DEF ReviewInv, CaseInv, ReturnedInv

(* A sensitive segment is published only after a reviewer returned a       *)
(* finding on it and an organizer rewrote it: it is clean, so it has a     *)
(* disposition, so it has a revision, so it was returned.                  *)
THEOREM PublishedWasReturned == Spec => []SensitiveWasReturned
  BY ReviewedIsReturned, ReviewInvariance, PTL

(* The credential of an approved case verifies ever after, and only an     *)
(* approved case has one.                                                  *)
THEOREM CredentialHolds == Spec => []CredentialVerifies
<1>1. ReviewInv => CredentialVerifies
  BY DEF ReviewInv, CaseInv
<1> QED
  BY <1>1, ReviewInvariance, PTL

-----------------------------------------------------------------------------
(* What a step may never do *)

(* Every finding is still there, and still marked if it was returned. *)
Remembered ==
    \A f \in findings : \E g \in findings' :
        /\ g.segment = f.segment /\ g.rule = f.rule
        /\ f.returned => g.returned

LEMMA CheckRemembers ==
    ASSUME ReviewInv, NEW targets \in SUBSET Strings, NEW t,
           findings' = {f \in findings : f.segment \notin targets} \cup Check(targets, t)
    PROVE  Remembered
<1> DEFINE broken == Broken(targets, t)
           checked == Check(targets, t)
<1>1. /\ \A g \in checked :
            /\ g \in Finding /\ g.segment \in targets
            /\ <<g.segment, g.rule>> \in broken => g.status = "open"
            /\ <<g.segment, g.rule>> \notin broken => g.status = "closed"
            /\ \/ /\ <<g.segment, g.rule>> \in broken /\ ~g.returned
                  /\ \A f \in findings : <<f.segment, f.rule>> # <<g.segment, g.rule>>
               \/ \E f \in findings : f.segment = g.segment /\ f.rule = g.rule
                                      /\ f.returned = g.returned
      /\ \A k \in broken : \E g \in checked : g.segment = k[1] /\ g.rule = k[2]
      /\ \A f \in findings : f.segment \in targets =>
            \E g \in checked : g.segment = f.segment /\ g.rule = f.rule
                               /\ g.returned = f.returned
      /\ \A g, h \in checked : g.segment = h.segment /\ g.rule = h.rule => g = h
  BY CheckParts
<1>2. \A f \in findings : f.segment \in targets =>
         \E g \in checked : g.segment = f.segment /\ g.rule = f.rule
                            /\ g.returned = f.returned
  BY <1>1
<1> HIDE DEF checked
<1> QED
  BY <1>2 DEF checked, Remembered

LEMMA ReturnRemembers ==
    ASSUME ReviewInv, NEW batch \in SUBSET findings,
           findings' = (findings \ batch) \cup {[f EXCEPT !.returned = TRUE] : f \in batch}
    PROVE  Remembered
<1>1. ASSUME NEW f \in findings
      PROVE  LET g == [f EXCEPT !.returned = TRUE] IN
             g.segment = f.segment /\ g.rule = f.rule /\ g.returned
  BY DEF ReviewInv, TypeOK, Finding
<1> DEFINE mark(f) == [f EXCEPT !.returned = TRUE]
<1>2. /\ \A f \in findings \ batch : f \in findings'
      /\ \A f \in batch : mark(f) \in findings'
  OBVIOUS
<1> HIDE DEF mark
<1>3. \A f \in findings :
         mark(f).segment = f.segment /\ mark(f).rule = f.rule /\ mark(f).returned
  BY <1>1 DEF mark
<1> QED
  BY <1>2, <1>3, Zenon DEF Remembered

LEMMA RemediateRemembers ==
    ASSUME ReviewInv, NEW s, NEW proposed, NEW explanation, Remediate(s, proposed, explanation)
    PROVE  Remembered
<1> DEFINE told(f) == IF f.segment = s.id /\ f.status = "open"
                      THEN [f EXCEPT !.remediation = explanation] ELSE f
<1>1. findings' = {told(f) : f \in findings}
  BY Zenon DEF Remediate
<1>2. ASSUME NEW f \in findings
      PROVE  told(f).segment = f.segment /\ told(f).rule = f.rule
             /\ told(f).returned = f.returned
  BY DEF ReviewInv, TypeOK, Finding
<1> HIDE DEF told
<1> QED
  BY <1>1, <1>2 DEF Remembered

(* What was open on a segment still is, or what is now open is what the    *)
(* segment breaks.                                                         *)
Follows ==
    \A s \in segments :
        OpenRules(findings', s.id) # OpenRules(findings, s.id) =>
            OpenRules(findings', s.id) = BrokenRules(s, consents, intendedUse, now)

LEMMA CheckFollows ==
    ASSUME ReviewInv, NEW targets \in SUBSET Strings,
           findings' = {f \in findings : f.segment \notin targets} \cup Check(targets, now)
    PROVE  Follows
<1> DEFINE broken == Broken(targets, now)
           checked == Check(targets, now)
<1>1. /\ \A g \in checked :
            /\ g \in Finding /\ g.segment \in targets
            /\ <<g.segment, g.rule>> \in broken => g.status = "open"
            /\ <<g.segment, g.rule>> \notin broken => g.status = "closed"
            /\ \/ /\ <<g.segment, g.rule>> \in broken /\ ~g.returned
                  /\ \A f \in findings : <<f.segment, f.rule>> # <<g.segment, g.rule>>
               \/ \E f \in findings : f.segment = g.segment /\ f.rule = g.rule
                                      /\ f.returned = g.returned
      /\ \A k \in broken : \E g \in checked : g.segment = k[1] /\ g.rule = k[2]
      /\ \A f \in findings : f.segment \in targets =>
            \E g \in checked : g.segment = f.segment /\ g.rule = f.rule
                               /\ g.returned = f.returned
      /\ \A g, h \in checked : g.segment = h.segment /\ g.rule = h.rule => g = h
  BY CheckParts
<1> SUFFICES ASSUME NEW s \in segments
             PROVE  \/ OpenRules(findings', s.id) = OpenRules(findings, s.id)
                    \/ OpenRules(findings', s.id) = BrokenRules(s, consents, intendedUse, now)
  BY DEF Follows
<1> DEFINE breaks == BrokenRules(s, consents, intendedUse, now)
<1>2. ASSUME s.id \in targets, NEW r
      PROVE  r \in breaks <=> <<s.id, r>> \in broken
  <2>1. \A u \in segments : u.id = s.id => u = s
    BY DEF ReviewInv, CaseInv, Identified
  <2>2. breaks \subseteq RuleCodes
    BY DEF BrokenRules, BrokenConsentRules, BrokenTextRules, RuleCodes
  <2>3. r \in RuleCodes => <<s.id, r>> \in targets \X RuleCodes
    BY <1>2
  <2>4. <<s.id, r>> \in broken <=>
            /\ r \in RuleCodes
            /\ \E u \in segments :
                  u.id = s.id /\ r \in BrokenRules(u, consents, intendedUse, now)
    BY <1>2, <2>3 DEF Broken
  <2> QED
    BY <2>1, <2>2, <2>4
<1>3. \A g \in checked : g.segment \in targets
  BY <1>1
<1>4. ASSUME s.id \in targets PROVE OpenRules(findings', s.id) = breaks
  <2> HIDE DEF breaks, checked, broken
  <2>1. \A g \in checked : g.status = "open" <=> <<g.segment, g.rule>> \in broken
    BY <1>1
  <2>2. \A r : <<s.id, r>> \in broken => \E g \in checked : g.segment = s.id /\ g.rule = r
    BY <1>1
  <2>3. ASSUME NEW r PROVE r \in OpenRules(findings', s.id) <=> r \in breaks
    <3>1. findings' = {f \in findings : f.segment \notin targets} \cup checked
      BY DEF checked
    <3>2. r \in OpenRules(findings', s.id) <=>
             \E g \in checked : g.segment = s.id /\ g.rule = r /\ g.status = "open"
      BY <1>4, <3>1 DEF OpenRules
    <3>3. r \in breaks <=> <<s.id, r>> \in broken
      BY <1>2, <1>4
    <3> QED
      BY <2>1, <2>2, <3>2, <3>3
  <2> QED
    BY <2>3
<1>5. ASSUME s.id \notin targets PROVE OpenRules(findings', s.id) = OpenRules(findings, s.id)
  BY <1>3, <1>5 DEF OpenRules
<1> QED
  BY <1>4, <1>5

LEMMA ReturnFollows ==
    ASSUME ReviewInv, NEW batch \in SUBSET findings,
           findings' = (findings \ batch) \cup {[f EXCEPT !.returned = TRUE] : f \in batch}
    PROVE  Follows
<1> DEFINE mark(f) == [f EXCEPT !.returned = TRUE]
<1>1. \A f \in findings :
         mark(f).segment = f.segment /\ mark(f).rule = f.rule /\ mark(f).status = f.status
  BY DEF ReviewInv, TypeOK, Finding
<1>2. findings' = (findings \ batch) \cup {mark(f) : f \in batch}
  OBVIOUS
<1> HIDE DEF mark
<1>3. ASSUME NEW id PROVE OpenRules(findings', id) = OpenRules(findings, id)
  BY <1>1, <1>2 DEF OpenRules
<1> QED
  BY <1>3 DEF Follows

LEMMA RemediateFollows ==
    ASSUME ReviewInv, NEW s, NEW proposed, NEW explanation, Remediate(s, proposed, explanation)
    PROVE  Follows
<1> DEFINE told(f) == IF f.segment = s.id /\ f.status = "open"
                      THEN [f EXCEPT !.remediation = explanation] ELSE f
<1>1. findings' = {told(f) : f \in findings}
  BY Zenon DEF Remediate
<1>2. \A f \in findings :
         told(f).segment = f.segment /\ told(f).rule = f.rule /\ told(f).status = f.status
  BY DEF ReviewInv, TypeOK, Finding
<1> HIDE DEF told
<1>3. ASSUME NEW id PROVE OpenRules(findings', id) = OpenRules(findings, id)
  BY <1>1, <1>2 DEF OpenRules
<1> QED
  BY <1>3 DEF Follows

LEMMA NextKeepsFindings == ReviewInv /\ [Next]_vars => Remembered /\ Follows
<1> SUFFICES ASSUME ReviewInv, [Next]_vars PROVE Remembered /\ Follows
  OBVIOUS
<1>1. CASE findings' = findings
  BY <1>1 DEF Remembered, Follows
<1>2. CASE RunFullCheck
  <2>1. findings' = Check(Strings, now)
    BY <1>2, Zenon DEF RunFullCheck
  <2>2. {f \in findings : f.segment \notin Strings} = {}
    BY DEF ReviewInv, TypeOK, Finding
  <2>3. findings' = {f \in findings : f.segment \notin Strings} \cup Check(Strings, now)
    BY <2>1, <2>2
  <2>4. Strings \in SUBSET Strings
    OBVIOUS
  <2> QED
    BY <2>3, <2>4, CheckRemembers, CheckFollows
<1>3. ASSUME NEW targets \in SUBSET Ids(segments), RunTargetedCheck(targets)
      PROVE  Remembered /\ Follows
  <2>1. findings' = {f \in findings : f.segment \notin targets} \cup Check(targets, now)
    BY <1>3, Zenon DEF RunTargetedCheck
  <2>2. targets \in SUBSET Strings
    BY DEF Ids, ReviewInv, TypeOK, Segment
  <2> QED
    BY <2>1, <2>2, CheckRemembers, CheckFollows
<1>4. ASSUME NEW f \in findings, NEW note \in NoteInputs, ReturnFinding(f, note)
      PROVE  Remembered /\ Follows
  <2>1. findings' = (findings \ {f}) \cup {[f EXCEPT !.returned = TRUE]}
    BY <1>4, Zenon DEF ReturnFinding
  <2>2. /\ {f} \in SUBSET findings
        /\ findings' = (findings \ {f}) \cup {[g EXCEPT !.returned = TRUE] : g \in {f}}
    BY <2>1
  <2> QED
    BY <2>2, ReturnRemembers, ReturnFollows
<1>5. ASSUME NEW batch \in SUBSET findings, NEW note \in NoteInputs,
             ReturnFindingsBatch(batch, note)
      PROVE  Remembered /\ Follows
  <2>1. findings' = (findings \ batch) \cup {[f EXCEPT !.returned = TRUE] : f \in batch}
    BY <1>5, Zenon DEF ReturnFindingsBatch
  <2> QED
    BY <2>1, ReturnRemembers, ReturnFollows
<1>6. CASE \E s \in segments, proposed \in TextInputs, explanation \in NoteInputs :
              Remediate(s, proposed, explanation)
  BY <1>6, RemediateRemembers, RemediateFollows
<1>7. ASSUME Edit \/ Freeze \/ Tick \/ UNCHANGED vars
             \/ (\E g \in GrantInputs : AddConsent(g)) \/ (\E t \in ApprovalTimes : Approve(t))
      PROVE  findings' = findings
  <2>1. CASE Edit \/ Freeze
    BY <2>1, Zenon DEF Edit, Freeze, UpdateMetadata, AddSegment, AddSegmentsBatch,
       UpdateSegment, DeleteSegment, ReplaceConsent, reviewVars
  <2>2. CASE \E g \in GrantInputs : AddConsent(g)
    BY <2>2, Zenon DEF AddConsent, reviewVars
  <2>3. CASE \E t \in ApprovalTimes : Approve(t)
    BY <2>3, Zenon DEF Approve, SealAt
  <2>4. CASE Tick \/ UNCHANGED vars
    BY <2>4, Zenon DEF Tick, vars, reviewVars
  <2> QED
    BY <1>7, <2>1, <2>2, <2>3, <2>4
<1> QED
  BY <1>1, <1>2, <1>3, <1>4, <1>5, <1>6, <1>7, Zenon DEF Next, Draft, Review

(* No check, return or remediation, in whatever order, takes a finding off *)
(* a case, or the mark that a reviewer returned it.                        *)
THEOREM FindingsStay == Spec => FindingsNeverForgotten
<1>1. ReviewInv /\ [Next]_vars =>
         [\A f \in findings : \E g \in findings' :
             /\ g.segment = f.segment /\ g.rule = f.rule
             /\ f.returned => g.returned]_vars
  BY NextKeepsFindings DEF Remembered
<1> QED
  BY <1>1, ReviewInvariance, PTL DEF Spec, FindingsNeverForgotten

(* What is open on a segment is what the last check that looked at it      *)
(* found: checks of others, returns, remediations and supplements open and *)
(* close nothing there (review.go:28).                                     *)
THEOREM OpenedByChecks == Spec => FindingsFollowRules
<1>1. ReviewInv /\ [Next]_vars =>
         [\A s \in segments :
             OpenRules(findings', s.id) # OpenRules(findings, s.id) =>
                 OpenRules(findings', s.id) = BrokenRules(s, consents, intendedUse, now)]_vars
  BY NextKeepsFindings DEF Follows
<1> QED
  BY <1>1, ReviewInvariance, PTL DEF Spec, FindingsFollowRules

(* What a step does to what was frozen. *)
Drafts ==
    /\ state = "draft" /\ state' = "draft" /\ credential' = credential

Submits ==
    /\ state = "draft" /\ state' = "frozen" /\ segments # {}
    /\ UNCHANGED <<intendedUse, segments, credential>>

Reviews ==
    /\ InReview /\ InReview'
    /\ intendedUse' = intendedUse /\ credential' = credential
    /\ OriginalOf(segments') = OriginalOf(segments)

Publishes ==
    /\ InReview /\ state' = "approved"
    /\ credential'.manifest = CredentialSegments
    /\ UNCHANGED <<intendedUse, segments>>

LEMMA RemediateReviews ==
    ASSUME ReviewInv, NEW s \in segments, NEW proposed, NEW explanation,
           Remediate(s, proposed, explanation)
    PROVE  Reviews
<1> DEFINE r == [s EXCEPT !.proposed = Trim[proposed],
                          !.disposition = Trim[explanation]]
<1>1. /\ segments' = (segments \ {s}) \cup {r}
      /\ InReview /\ state' = "remediation"
      /\ intendedUse' = intendedUse /\ credential' = credential
  BY Zenon DEF Remediate
<1>2. Original(r) = Original(s)
  BY DEF ReviewInv, TypeOK, Segment, Original
<1> HIDE DEF r
<1>3. OriginalOf(segments') = OriginalOf(segments)
  BY <1>1, <1>2 DEF OriginalOf
<1> QED
  BY <1>1, <1>3 DEF Reviews, InReview

LEMMA ReviewKinds ==
    ASSUME ReviewInv, Review
    PROVE  Reviews \/ Publishes
<1>1. ASSUME InReview, state' \in {state, "remediation"}, draftVars' = draftVars,
             credential' = credential
      PROVE  Reviews
  BY <1>1 DEF Reviews, InReview, draftVars
<1>2. ASSUME RunFullCheck \/ \E targets \in SUBSET Ids(segments) : RunTargetedCheck(targets)
      PROVE  Reviews
  <2>1. InReview /\ state' = state /\ draftVars' = draftVars /\ credential' = credential
    BY <1>2, Zenon DEF RunFullCheck, RunTargetedCheck
  <2> QED
    BY <1>1, <2>1
<1>3. ASSUME \/ \E f \in findings, note \in NoteInputs : ReturnFinding(f, note)
             \/ \E batch \in SUBSET findings, note \in NoteInputs :
                   ReturnFindingsBatch(batch, note)
      PROVE  Reviews
  <2>1. /\ InReview /\ state' = "remediation" /\ draftVars' = draftVars
        /\ credential' = credential
    BY <1>3, Zenon DEF ReturnFinding, ReturnFindingsBatch
  <2> QED
    BY <1>1, <2>1
<1>4. CASE \E s \in segments, proposed \in TextInputs, explanation \in NoteInputs :
              Remediate(s, proposed, explanation)
  BY <1>4, RemediateReviews
<1>5. ASSUME NEW t \in ApprovalTimes, Approve(t)
      PROVE  Publishes
  <2>1. /\ InReview /\ state' = "approved" /\ UNCHANGED draftVars
        /\ credential' = [approvedVersion |-> version + 1, approvedAt |-> UTC(t),
                          manifest |-> CredentialSegments, consents |-> consents]
    BY <1>5, Zenon DEF Approve, SealAt
  <2> QED
    BY <2>1 DEF Publishes, draftVars
<1> QED
  BY <1>2, <1>3, <1>4, <1>5, Zenon DEF Review

LEMMA StepKinds ==
    ASSUME ReviewInv, [Next]_vars
    PROVE  \/ Drafts \/ Submits \/ Reviews \/ Publishes
           \/ UNCHANGED <<state, intendedUse, segments, credential>>
<1>1. CASE Edit
  <2>1. state = "draft" /\ state' = "draft" /\ UNCHANGED reviewVars
    BY <1>1, Zenon DEF Edit, UpdateMetadata, AddSegment, AddSegmentsBatch, UpdateSegment,
       DeleteSegment, ReplaceConsent
  <2> QED
    BY <2>1 DEF Drafts, reviewVars
<1>2. CASE Freeze
  <2>1. state = "draft" /\ state' = "frozen" /\ segments # {} /\ UNCHANGED <<draftVars, reviewVars>>
    BY <1>2, Zenon DEF Freeze
  <2> QED
    BY <2>1 DEF Submits, draftVars, reviewVars
<1>3. CASE Review
  BY <1>3, ReviewKinds
<1>4. CASE \E g \in GrantInputs : AddConsent(g)
  <2>1. /\ state \in {"draft", "frozen", "remediation"}
        /\ state' = IF state = "draft" THEN "draft" ELSE "remediation"
        /\ UNCHANGED <<draftVars, reviewVars>>
    BY <1>4, Zenon DEF AddConsent
  <2> QED
    BY <2>1 DEF Drafts, Reviews, InReview, draftVars, reviewVars
<1>5. CASE Tick \/ UNCHANGED vars
  <2>1. UNCHANGED <<state, draftVars, reviewVars>>
    BY <1>5, Zenon DEF Tick, vars
  <2> QED
    BY <2>1 DEF draftVars, reviewVars
<1> QED
  BY <1>1, <1>2, <1>3, <1>4, <1>5, Zenon DEF Next, Draft

(* No command after the freeze, a remediation included, changes the use,   *)
(* the segments, their places, their sources or their tags.                *)
THEOREM FrozenForGood == Spec => OriginalProtected
<1>1. ReviewInv /\ [Next]_vars =>
         [state # "draft" =>
             /\ state' # "draft"
             /\ intendedUse' = intendedUse
             /\ OriginalOf(segments') = OriginalOf(segments)]_vars
  <2> SUFFICES ASSUME ReviewInv, [Next]_vars, state # "draft"
               PROVE  /\ state' # "draft"
                      /\ intendedUse' = intendedUse
                      /\ OriginalOf(segments') = OriginalOf(segments)
    OBVIOUS
  <2> QED
    BY StepKinds DEF Drafts, Submits, Reviews, Publishes, InReview
<1> QED
  BY <1>1, ReviewInvariance, PTL DEF Spec, OriginalProtected

-----------------------------------------------------------------------------
(* The refinement *)
LEMMA SameCardinality == \A S : Lifecycle!Cardinality(S) = Cardinality(S)
  BY DEF Lifecycle!Cardinality, Cardinality

(* The places the credential seals are the places of the originals: as     *)
(* many originals as segments start before each.                           *)
LEMMA SealedInOrder ==
    ASSUME ReviewInv
    PROVE  {<<m.segment, m.sequence>> : m \in CredentialSegments}
         = Lifecycle!InOrder(OriginalOf(segments))
<1> DEFINE S == segments
           O == OriginalOf(segments)
           place(s) == 1 + Cardinality({u \in S : u.start < s.start})
           places(o) == 1 + Cardinality({p \in O : p.start < o.start})
<1>1. ASSUME NEW s \in S
      PROVE  Original(s).id = s.id /\ Original(s).start = s.start /\ Original(s) \in O
  BY DEF Original, OriginalOf
<1>2. O = {Original(s) : s \in S}
  BY DEF OriginalOf
<1>3. IsFiniteSet(S) /\ \A s, t \in S : s.id = t.id => s = t
  BY DEF ReviewInv, TypeOK, CaseInv, Identified
<1>4. {<<m.segment, m.sequence>> : m \in CredentialSegments} = {<<s.id, s.sequence>> : s \in S}
  <2> DEFINE sealed(s) == [segment |-> s.id, sequence |-> s.sequence,
                           proposed |-> Trim[s.proposed],
                           disposition |-> Trim[s.disposition]]
  <2>1. CredentialSegments = {sealed(s) : s \in S}
    BY DEF CredentialSegments
  <2>2. \A s \in S : sealed(s).segment = s.id /\ sealed(s).sequence = s.sequence
    OBVIOUS
  <2> HIDE DEF sealed, S
  <2> QED
    BY <2>1, <2>2
<1>5. \A s \in S : s.sequence = place(s)
  BY DEF ReviewInv, CaseInv, Numbered
<1> HIDE DEF O
<1>6. ASSUME NEW x
      PROVE  Cardinality({p \in O : p.start < x}) = Cardinality({u \in S : u.start < x})
  <2> DEFINE before == {u \in S : u.start < x}
             after == {p \in O : p.start < x}
             f == [u \in before |-> Original(u)]
  <2>1. IsFiniteSet(before)
    BY <1>3, FS_Subset
  <2>2. f \in [before -> after]
    BY <1>1
  <2>3. \A v \in after : \E u \in before : f[u] = v
    BY <1>1, <1>2
  <2>4. ASSUME NEW u \in before, NEW v \in before, f[u] = f[v]
        PROVE  u = v
    <3>1. u.id = v.id
      BY <1>1, <2>4
    <3> QED
      BY <1>3, <3>1
  <2> HIDE DEF before, after, f
  <2>5. f \in Surjection(before, after) /\ f \in Injection(before, after)
    BY <2>2, <2>3, <2>4 DEF Surjection, Injection, IsInjective
  <2> QED
    BY <2>1, <2>5, FS_Surjection DEF before, after
<1>7. \A s \in S : places(Original(s)) = s.sequence /\ Original(s).id = s.id
  BY <1>1, <1>5, <1>6
<1>8. Lifecycle!InOrder(O) = {<<o.id, places(o)>> : o \in O}
  BY SameCardinality DEF Lifecycle!InOrder
<1> HIDE DEF places, place
<1>9. {<<o.id, places(o)>> : o \in O} = {<<s.id, s.sequence>> : s \in S}
  BY <1>2, <1>7
<1> QED
  BY <1>4, <1>8, <1>9 DEF O

LEMMA OriginalsType ==
    ASSUME NEW S \in SUBSET Segment
    PROVE  OriginalOf(S) \in SUBSET Originals
<1>1. \A s \in S : Original(s) \in Originals
  BY DEF Segment, Original, Originals
<1> QED
  BY <1>1 DEF OriginalOf

LEMMA StepIsLifecycle ==
    ASSUME ReviewInv, ReviewInv', [Next]_vars
    PROVE  [Lifecycle!Next]_(Lifecycle!vars)
<1>1. CASE Drafts
  <2>1. Phase = "draft" /\ Phase' = "draft" /\ Published' = Published
    BY <1>1 DEF Drafts, Phase, InReview, Published
  <2>2. intendedUse' \in Strings /\ OriginalOf(segments') \in SUBSET Originals
    <3>1. intendedUse' \in Strings /\ segments' \in SUBSET Segment
      BY DEF ReviewInv, TypeOK, Text
    <3> QED
      BY <3>1, OriginalsType
  <2>3. Lifecycle!Edit
    BY <2>1, <2>2 DEF Lifecycle!Edit, OriginalOf, Original
  <2> QED
    BY <2>3 DEF Lifecycle!Next
<1>2. CASE Submits
  <2>1. Phase = "draft" /\ Phase' = "review" /\ Published' = Published
    BY <1>2 DEF Submits, Phase, InReview, Published
  <2>2. OriginalOf(segments) # {} /\ intendedUse' = intendedUse
        /\ OriginalOf(segments)' = OriginalOf(segments)
    BY <1>2 DEF Submits, OriginalOf, Original
  <2>3. \A o, p \in OriginalOf(segments) : o.id = p.id => o = p
    BY DEF ReviewInv, CaseInv, Identified, OriginalOf, Original
  <2>4. \A o, p \in OriginalOf(segments) : o # p => o.end <= p.start \/ p.end <= o.start
    BY DEF ReviewInv, TimelineInv, Disjoint, OriginalOf, Original
  <2>5. Lifecycle!Submit
    BY <2>1, <2>2, <2>3, <2>4 DEF Lifecycle!Submit
  <2> QED
    BY <2>5 DEF Lifecycle!Next
<1>3. CASE Reviews
  <2>1. Phase' = Phase /\ Published' = Published /\ intendedUse' = intendedUse
    BY <1>3 DEF Reviews, Phase, InReview, Published
  <2>2. OriginalOf(segments)' = OriginalOf(segments)
    BY <1>3 DEF Reviews, OriginalOf, Original
  <2> QED
    BY <2>1, <2>2 DEF Lifecycle!vars
<1>4. CASE Publishes
  <2>1. Phase = "review" /\ Phase' = "published"
    BY <1>4 DEF Publishes, Phase, InReview
  <2>2. intendedUse' = intendedUse /\ OriginalOf(segments)' = OriginalOf(segments)
    BY <1>4 DEF Publishes, OriginalOf, Original
  <2>3. credential' # NoCredential
    BY <1>4 DEF Publishes, ReviewInv, CaseInv, CredentialVerifies, VerifyCredential
  <2>4. Published' = {<<m.segment, m.sequence>> : m \in CredentialSegments}
    BY <1>4, <2>3 DEF Publishes, Published
  <2>5. Published' = Lifecycle!InOrder(OriginalOf(segments))
    BY <2>4, SealedInOrder
  <2>6. Lifecycle!Publish
    BY <2>1, <2>2, <2>5 DEF Lifecycle!Publish
  <2> QED
    BY <2>6 DEF Lifecycle!Next
<1>5. CASE UNCHANGED <<state, intendedUse, segments, credential>>
  <2>1. Phase' = Phase /\ Published' = Published
    BY <1>5 DEF Phase, InReview, Published
  <2>2. OriginalOf(segments)' = OriginalOf(segments)
    BY <1>5 DEF OriginalOf, Original
  <2> QED
    BY <1>5, <2>1, <2>2 DEF Lifecycle!vars
<1> QED
  BY <1>1, <1>2, <1>3, <1>4, <1>5, StepKinds

(* Seen without its review, a case is edited, submitted once as a disjoint *)
(* timeline, and published at most once, whole and in timeline order.      *)
THEOREM CaseIsLifecycle == Spec => ImplementsLifecycle
<1>1. Init => Lifecycle!Init
  <2> SUFFICES ASSUME Init PROVE Lifecycle!Init
    OBVIOUS
  <2>1. Phase = "draft" /\ Published = NoCredential /\ OriginalOf(segments) = {}
    BY DEF Init, Phase, InReview, Published, OriginalOf
  <2>2. intendedUse \in Strings
    BY InitType DEF TypeOK, Text
  <2> QED
    BY <2>1, <2>2 DEF Lifecycle!Init
<1>2. ReviewInv /\ ReviewInv' /\ [Next]_vars => [Lifecycle!Next]_(Lifecycle!vars)
  BY StepIsLifecycle
<1> QED
  BY <1>1, <1>2, ReviewInvariance, PTL DEF Spec, ImplementsLifecycle, Lifecycle!Spec
=============================================================================
