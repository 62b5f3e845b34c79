----------------------------- MODULE ReleaseCase -----------------------------
(***************************************************************************)
(* One release case: the aggregate of internal/domain together with the    *)
(* rule checker of internal/assurance that its commands call.              *)
(*                                                                         *)
(* An action is the callback a command of application/service.go runs on   *)
(* the case while it holds the store's mutex, so actions are atomic here;  *)
(* what happens around them (versions claimed by clients, idempotency      *)
(* keys, files, crashes) is the business of the store's modules.  A        *)
(* command the code refuses changes nothing and is no step.                *)
(*                                                                         *)
(* Abstractions.                                                           *)
(*   - Title, interviewee, case id, actors, events, identifiers of         *)
(*     findings and revisions, review notes and the times that only label  *)
(*     a record are left out.  A finding is identified by its segment and rule, as      *)
(*     stableFindingID does; every finding is a blocker (addFinding).      *)
(*   - The slices Segments, Consents and Findings are sets: each element   *)
(*     has an identity of its own, and their order is either canonical     *)
(*     (sequence) or not read.  Revisions stays a sequence.                *)
(*   - A SHA-256 digest is the data it digests.                            *)
(*   - The clock never runs backwards.                                     *)
(***************************************************************************)
EXTENDS Consents, Timeline, Sequences

CONSTANTS
    SegmentInputs,  \* the segments a request can carry
    GrantInputs,    \* the grants a request can carry
    UseInputs,      \* the intended uses a request can carry
    TextInputs,     \* the proposed texts a remediation can carry
    NoteInputs,     \* the notes and explanations a request can carry
    MaxBatch,       \* service.go: 100 items in a batch
    MaxVersion,     \* bound: the version at which exploration stops
    MaxTime,        \* bound: the tick at which the clock stops
    NoCredential    \* the nil credential

Tags == {"none", "personal", "restricted"}

(* Only a batch validates tags: a missing one and any other are stored. *)
StoredTags == Tags \cup {"", "other"}

SegmentInput == [id : Strings, start : Int, end : Int, source : Strings,
                 proposed : Strings, tag : StoredTags]

ASSUME InputsAssumption ==
    /\ SegmentInputs \subseteq SegmentInput
    /\ GrantInputs \subseteq Grant
    /\ UseInputs \subseteq Strings
    /\ TextInputs \subseteq Strings /\ NoteInputs \subseteq Strings
    /\ MaxBatch \in Nat /\ MaxVersion \in Nat /\ MaxTime \in Nat

VARIABLES
    state,              \* State
    version,            \* Version
    updatedAt,          \* UpdatedAt
    intendedUse,        \* IntendedUse
    fullCheckCompleted, \* FullCheckCompleted
    segments,           \* Segments
    consents,           \* Consents
    findings,           \* Findings
    revisions,          \* Revisions
    credential,         \* Credential
    now                 \* the wall clock

draftVars  == <<intendedUse, segments>>
reviewVars == <<fullCheckCompleted, findings, revisions, credential>>
vars == <<state, version, updatedAt, draftVars, consents, reviewVars, now>>

(* What trimming leaves of a text that is not blank. *)
Text == {x \in Strings : Trim[x] = x /\ x # Blank}

Segment == [id : Strings, start : Int, end : Int, sequence : Nat,
            source : Text, proposed : Text, tag : StoredTags,
            disposition : Text \cup {Blank}]

Finding == [segment : Strings, rule : RuleCodes, status : {"open", "closed"},
            returned : BOOLEAN, remediation : Strings]

Revision == [segment : Strings, before : Text, after : Text,
             explanation : Text, submittedVersion : Nat,
             related : SUBSET RuleCodes, rechecked : BOOLEAN,
             closed : SUBSET RuleCodes, remaining : SUBSET RuleCodes,
             new : SUBSET RuleCodes]

SealedSegment == [segment : Strings, sequence : Nat, proposed : Strings,
                  disposition : Strings]

Credential == [approvedVersion : Nat, approvedAt : Nat,
               manifest : SUBSET SealedSegment, consents : SUBSET Grant]

(* The nil credential is no credential. *)
ASSUME CredentialAssumption == NoCredential \notin Credential

(* Every field has its type, and every stored text is trimmed and, but for *)
(* the disposition, not blank.                                             *)
TypeOK ==
    /\ state \in {"draft", "frozen", "remediation", "approved"}
    /\ version \in Nat
    /\ updatedAt \in Nat
    /\ intendedUse \in Text
    /\ fullCheckCompleted \in BOOLEAN
    /\ segments \in SUBSET Segment /\ IsFiniteSet(segments)
    /\ consents \in SUBSET Grant
    /\ findings \in SUBSET Finding
    /\ revisions \in Seq(Revision)
    /\ credential \in Credential \cup {NoCredential}
    /\ now \in Nat

Ids(S) == {s.id : s \in S}

-----------------------------------------------------------------------------
(* domain.NewReleaseCase *)
Init ==
    /\ state = "draft"
    /\ version = 1
    /\ now = 0
    /\ updatedAt = UTC(now)
    /\ \E use \in UseInputs : Trim[use] # Blank /\ intendedUse = Trim[use]
    /\ fullCheckCompleted = FALSE
    /\ segments = {} /\ consents = {} /\ findings = {}
    /\ revisions = <<>>
    /\ credential = NoCredential

Bump ==
    /\ version < MaxVersion
    /\ version' = version + 1
    /\ updatedAt' = UTC(now)
    /\ UNCHANGED now

-----------------------------------------------------------------------------
(* Drafting *)

(* Mutant: the case need not be a draft. *)
UpdateMetadata_AnyState(use) ==
    /\ Trim[use] # Blank
    /\ intendedUse' = Trim[use]
    /\ Bump
    /\ UNCHANGED <<state, segments, consents, reviewVars>>

UpdateMetadata(use) ==
    /\ state = "draft"
    /\ Trim[use] # Blank
    /\ intendedUse' = Trim[use]
    /\ Bump
    /\ UNCHANGED <<state, segments, consents, reviewVars>>

(* Mutant: a missing proposed text does not default to the source. *)
NewSegment_NoDefault(in) ==
    [id |-> in.id, start |-> in.start, end |-> in.end, sequence |-> 0,
     source |-> Trim[in.source], proposed |-> Trim[in.proposed],
     tag |-> in.tag, disposition |-> Blank]

(* The segment a request describes.  The service never fills in the        *)
(* disposition, so adding and updating leave it blank.                     *)
NewSegment(in) ==
    [id |-> in.id, start |-> in.start, end |-> in.end, sequence |-> 0,
     source |-> Trim[in.source],
     proposed |-> IF Trim[in.proposed] = Blank THEN Trim[in.source]
                                               ELSE Trim[in.proposed],
     tag |-> in.tag, disposition |-> Blank]

AddSegment(in) ==
    /\ state = "draft"
    /\ Trim[in.id] # Blank /\ Trim[in.source] # Blank
    /\ in.id \notin Ids(segments)
    /\ LET s == [NewSegment(in) EXCEPT !.tag = IF in.tag = "" THEN "none" ELSE in.tag]
       IN  /\ ValidTimeline(segments \cup {s})
           /\ segments' = Resequence(segments \cup {s})
    /\ Bump
    /\ UNCHANGED <<state, intendedUse, consents, reviewVars>>

BatchRowOK(in) ==
    /\ Trim[in.id] # Blank /\ Trim[in.id] \notin Ids(segments)
    /\ in.start >= 0 /\ in.end > in.start
    /\ Trim[in.source] # Blank /\ Trim[in.proposed] # Blank
    /\ in.tag \in Tags

(* All rows or none; rows is a sequence, 1 to MaxBatch long. *)
AddSegmentsBatch(rows) ==
    /\ state = "draft"
    /\ \A i \in DOMAIN rows : BatchRowOK(rows[i])
    /\ \A i, j \in DOMAIN rows : i # j => Trim[rows[i].id] # Trim[rows[j].id]
    /\ LET added == {[NewSegment(rows[i]) EXCEPT !.id = Trim[@]] : i \in DOMAIN rows}
           merged == segments \cup added
       IN  /\ \A s, t \in merged : Adjacent(merged, s, t) => s.end <= t.start
           /\ segments' = Resequence(merged)
    /\ Bump
    /\ UNCHANGED <<state, intendedUse, consents, reviewVars>>

UpdateSegment(in) ==
    /\ state = "draft"
    /\ in.id \in Ids(segments)
    /\ Trim[in.source] # Blank
    /\ LET updated == {s \in segments : s.id # in.id} \cup {NewSegment(in)}
       IN  /\ ValidTimeline(updated)
           /\ segments' = Resequence(updated)
    /\ Bump
    /\ UNCHANGED <<state, intendedUse, consents, reviewVars>>

(* Mutant: the remaining segments keep their numbers. *)
DeleteSegment_KeepsNumbers(id) ==
    /\ state = "draft"
    /\ id \in Ids(segments)
    /\ segments' = {s \in segments : s.id # id}
    /\ Bump
    /\ UNCHANGED <<state, intendedUse, consents, reviewVars>>

(* Mutant: the case only must not be approved. *)
DeleteSegment_UntilApproved(id) ==
    /\ state # "approved"
    /\ id \in Ids(segments)
    /\ segments' = Resequence({s \in segments : s.id # id})
    /\ Bump
    /\ UNCHANGED <<state, intendedUse, consents, reviewVars>>

DeleteSegment(id) ==
    /\ state = "draft"
    /\ id \in Ids(segments)
    /\ segments' = Resequence({s \in segments : s.id # id})
    /\ Bump
    /\ UNCHANGED <<state, intendedUse, consents, reviewVars>>

-----------------------------------------------------------------------------
(* Consents *)

GrantOK(g) ==
    /\ g.signed /\ g.scope # {} /\ g.uses # {}
    /\ g.to > g.from

(* The dates are compared as they arrive and stored truncated. *)
StoredGrant(g) == [g EXCEPT !.from = UTC(@), !.to = UTC(@)]

(* Mutant: an approved case accepts a supplement. *)
AddConsent_AfterApproval(g) ==
    /\ Trim[g.id] # Blank /\ GrantOK(g)
    /\ g.id \notin Ids(consents)
    /\ consents' = consents \cup {StoredGrant(g)}
    /\ state' = IF state \in {"draft", "approved"} THEN state ELSE "remediation"
    /\ Bump
    /\ UNCHANGED <<draftVars, reviewVars>>

AddConsent(g) ==
    /\ state \in {"draft", "frozen", "remediation"}
    /\ Trim[g.id] # Blank /\ GrantOK(g)
    /\ g.id \notin Ids(consents)
    /\ consents' = consents \cup {StoredGrant(g)}
    /\ state' = IF state = "draft" THEN "draft" ELSE "remediation"
    /\ Bump
    /\ UNCHANGED <<draftVars, reviewVars>>

ReplaceConsent(g) ==
    /\ state = "draft"
    /\ g.id \in Ids(consents)
    /\ GrantOK(g)
    /\ consents' = {h \in consents : h.id # g.id} \cup {StoredGrant(g)}
    /\ Bump
    /\ UNCHANGED <<state, draftVars, reviewVars>>

-----------------------------------------------------------------------------
(* Review *)

Freeze ==
    /\ state = "draft"
    /\ segments # {}
    /\ ValidTimeline(segments)
    /\ \A s \in segments : CoverageAt(consents, intendedUse, s.id, now) = "covered"
    /\ state' = "frozen"
    /\ Bump
    /\ UNCHANGED <<draftVars, consents, reviewVars>>

InReview == state \in {"frozen", "remediation"}

(* The rules the targeted segments break at time t, with their segments. *)
Broken(targets, t) ==
    {k \in targets \X RuleCodes :
        \E s \in segments : /\ s.id = k[1]
                            /\ k[2] \in BrokenRules(s, consents, intendedUse, t)}

Closed(targets, broken) ==
    {[f EXCEPT !.status = "closed"] : f \in
        {g \in findings : g.segment \in targets
                          /\ <<g.segment, g.rule>> \notin broken}}

NewFinding(k) == [segment |-> k[1], rule |-> k[2], status |-> "open",
                  returned |-> FALSE, remediation |-> Blank]

(* Mutant: a finding that is broken again starts afresh. *)
Check_StartsAfresh(targets, t) ==
    LET broken == Broken(targets, t)
    IN  {NewFinding(k) : k \in broken} \cup Closed(targets, broken)

(* Checker.Check: the findings of the targeted segments after a check at   *)
(* time t.  A broken rule is an open finding, which keeps what reviewers   *)
(* and organizers left on an earlier finding of the same rule; an earlier  *)
(* finding whose rule is no longer broken is closed.                       *)
Check(targets, t) ==
    LET broken == Broken(targets, t)
        known == {f \in findings : <<f.segment, f.rule>> \in broken}
        new == {k \in broken : \A f \in known : <<f.segment, f.rule>> # k}
    IN  {[f EXCEPT !.status = "open"] : f \in known}
        \cup {NewFinding(k) : k \in new}
        \cup Closed(targets, broken)

OpenRules(fs, id) == {f.rule : f \in {g \in fs : g.segment = id /\ g.status = "open"}}

(* annotateLatestRevision, for every targeted segment: the latest revision *)
(* not yet rechecked gets the difference between the open rules before     *)
(* and after the check.                                                    *)
Latest(i, targets) ==
    LET id == revisions[i].segment
    IN  /\ id \in targets
        /\ ~revisions[i].rechecked
        /\ \A j \in i + 1 .. Len(revisions) :
              revisions[j].segment = id => revisions[j].rechecked

Annotated(targets, checked) ==
    [i \in 1 .. Len(revisions) |->
        LET before == OpenRules(findings, revisions[i].segment)
            after  == OpenRules(checked, revisions[i].segment)
        IN  IF Latest(i, targets)
            THEN [revisions[i] EXCEPT !.rechecked = TRUE,
                                      !.closed = before \ after,
                                      !.remaining = before \cap after,
                                      !.new = after \ before]
            ELSE revisions[i]]

RunFullCheck ==
    /\ InReview
    /\ findings' = Check(Strings, now)
    /\ fullCheckCompleted' = TRUE
    /\ Bump
    /\ UNCHANGED <<state, draftVars, consents, revisions, credential>>

(* Mutant: the findings of the targeted segments are kept as well. *)
RunTargetedCheck_KeepsAll(targets) ==
    /\ InReview
    /\ targets # {} /\ targets \subseteq Ids(segments)
    /\ LET checked == Check(targets, now)
       IN  /\ findings' = findings \cup checked
           /\ revisions' = Annotated(targets, checked)
    /\ Bump
    /\ UNCHANGED <<state, draftVars, consents, fullCheckCompleted, credential>>

(* Mutant: the findings of the other segments are lost. *)
RunTargetedCheck_DropsOthers(targets) ==
    /\ InReview
    /\ targets # {} /\ targets \subseteq Ids(segments)
    /\ LET checked == Check(targets, now)
       IN  /\ findings' = checked
           /\ revisions' = Annotated(targets, checked)
    /\ Bump
    /\ UNCHANGED <<state, draftVars, consents, fullCheckCompleted, credential>>

RunTargetedCheck(targets) ==
    /\ InReview
    /\ targets # {} /\ targets \subseteq Ids(segments)
    /\ LET checked == Check(targets, now)
       IN  /\ findings' = {f \in findings : f.segment \notin targets} \cup checked
           /\ revisions' = Annotated(targets, checked)
    /\ Bump
    /\ UNCHANGED <<state, draftVars, consents, fullCheckCompleted, credential>>

(* Mutant: the case stays in its state. *)
ReturnFinding_StaysFrozen(f, note) ==
    /\ InReview
    /\ Trim[note] # Blank
    /\ f \in findings /\ f.status = "open"
    /\ findings' = (findings \ {f}) \cup {[f EXCEPT !.returned = TRUE]}
    /\ Bump
    /\ UNCHANGED <<state, draftVars, consents, fullCheckCompleted, revisions, credential>>

ReturnFinding(f, note) ==
    /\ InReview
    /\ Trim[note] # Blank
    /\ f \in findings /\ f.status = "open"
    /\ findings' = (findings \ {f}) \cup {[f EXCEPT !.returned = TRUE]}
    /\ state' = "remediation"
    /\ Bump
    /\ UNCHANGED <<draftVars, consents, fullCheckCompleted, revisions, credential>>

(* Items that repeat a finding are refused, so a batch is a set of them. *)
ReturnFindingsBatch(batch, note) ==
    /\ InReview
    /\ batch # {} /\ Cardinality(batch) <= MaxBatch
    /\ batch \subseteq {f \in findings : f.status = "open"}
    /\ Trim[note] # Blank
    /\ findings' = (findings \ batch) \cup {[f EXCEPT !.returned = TRUE] : f \in batch}
    /\ state' = "remediation"
    /\ Bump
    /\ UNCHANGED <<draftVars, consents, fullCheckCompleted, revisions, credential>>

(* Mutant: any open finding will do. *)
HasReturnedOpenFinding_NotReturned(id) ==
    \E f \in findings : f.segment = id /\ f.status = "open"

HasReturnedOpenFinding(id) ==
    \E f \in findings : f.segment = id /\ f.status = "open" /\ f.returned

(* Mutant: the text to remember is read after it was replaced. *)
NewRevision_ReadsNewText(s, proposed, explanation) ==
    [segment |-> s.id, before |-> Trim[proposed], after |-> Trim[proposed],
     explanation |-> Trim[explanation], submittedVersion |-> version,
     related |-> {f.rule : f \in {g \in findings : g.segment = s.id
                                    /\ g.status = "open" /\ g.returned}},
     rechecked |-> FALSE, closed |-> {}, remaining |-> {}, new |-> {}]

(* The revision a remediation of s leaves behind. *)
NewRevision(s, proposed, explanation) ==
    [segment |-> s.id, before |-> s.proposed, after |-> Trim[proposed],
     explanation |-> Trim[explanation], submittedVersion |-> version,
     related |-> {f.rule : f \in {g \in findings : g.segment = s.id
                                    /\ g.status = "open" /\ g.returned}},
     rechecked |-> FALSE, closed |-> {}, remaining |-> {}, new |-> {}]

(* service.Remediate asks for a returned open finding first, so the        *)
(* fallback of RemediateSegment to findings that were not returned is      *)
(* never taken.                                                            *)
Remediate(s, proposed, explanation) ==
    /\ HasReturnedOpenFinding(s.id)
    /\ InReview
    /\ Trim[proposed] # Blank /\ Trim[explanation] # Blank
    /\ s \in segments
    /\ Trim[proposed] # Trim[s.proposed]
    /\ segments' = (segments \ {s}) \cup
          {[s EXCEPT !.proposed = Trim[proposed], !.disposition = Trim[explanation]]}
    /\ findings' = {IF f.segment = s.id /\ f.status = "open"
                    THEN [f EXCEPT !.remediation = explanation] ELSE f : f \in findings}
    /\ revisions' = Append(revisions, NewRevision(s, proposed, explanation))
    /\ state' = "remediation"
    /\ Bump
    /\ UNCHANGED <<intendedUse, consents, fullCheckCompleted, credential>>

-----------------------------------------------------------------------------
(* Approval *)

(* assurance.CredentialSegments: what HashManifest digests. *)
CredentialSegments ==
    {[segment |-> s.id, sequence |-> s.sequence, proposed |-> Trim[s.proposed],
      disposition |-> Trim[s.disposition]] : s \in segments}

NoOpenBlocker(fs) == \A f \in fs : f.status # "open"

(* domain.Approve, with a credential sealed at time t. *)
SealAt(t) ==
    /\ credential = NoCredential
    /\ InReview
    /\ NoOpenBlocker(findings)
    /\ fullCheckCompleted
    /\ segments # {}
    /\ state' = "approved"
    /\ Bump
    /\ credential' = [approvedVersion |-> version + 1, approvedAt |-> UTC(t),
                      manifest |-> CredentialSegments, consents |-> consents]
    /\ UNCHANGED <<draftVars, consents, fullCheckCompleted, findings, revisions>>

(* Mutant: the findings on the case are trusted. *)
Approve_TrustsFindings(t) == SealAt(t)

(* The callback of approveWithConfirmation, at the time t the command read *)
(* before it waited for the store's mutex.                                 *)
Approve(t) ==
    /\ NoOpenBlocker(Check(Strings, t))
    /\ SealAt(t)

(* The clock an approval works with can lie behind the wall clock, not     *)
(* behind the last change: its token was issued for the current version.   *)
ApprovalTimes == updatedAt .. now

(* assurance.VerifyCredentialDetailed. *)
VerifyCredential ==
    /\ credential # NoCredential
    /\ state = "approved"
    /\ credential.manifest = CredentialSegments
    /\ credential.consents = consents
    /\ credential.approvedVersion = version

-----------------------------------------------------------------------------
Tick ==
    /\ now < MaxTime
    /\ now' = now + 1
    /\ UNCHANGED <<state, version, updatedAt, draftVars, consents, reviewVars>>

Edit ==
    \/ \E use \in UseInputs : UpdateMetadata(use)
    \/ \E in \in SegmentInputs : AddSegment(in)
    \/ \E n \in 1 .. MaxBatch : \E rows \in [1 .. n -> SegmentInputs] :
          AddSegmentsBatch(rows)
    \/ \E in \in SegmentInputs : UpdateSegment(in)
    \/ \E id \in Ids(segments) : DeleteSegment(id)
    \/ \E g \in GrantInputs : ReplaceConsent(g)

Draft == Edit \/ Freeze

Review ==
    \/ RunFullCheck
    \/ \E targets \in SUBSET Ids(segments) : RunTargetedCheck(targets)
    \/ \E f \in findings, note \in NoteInputs : ReturnFinding(f, note)
    \/ \E batch \in SUBSET findings, note \in NoteInputs :
          ReturnFindingsBatch(batch, note)
    \/ \E s \in segments, proposed \in TextInputs, explanation \in NoteInputs :
          Remediate(s, proposed, explanation)
    \/ \E t \in ApprovalTimes : Approve(t)

Next ==
    \/ Draft
    \/ Review
    \/ \E g \in GrantInputs : AddConsent(g)
    \/ Tick

Spec == Init /\ [][Next]_vars

-----------------------------------------------------------------------------
(* The timeline *)

(* No two segments of a case overlap, whichever sequence of single adds,   *)
(* batches, updates and deletions built the timeline, although the code    *)
(* compares neighbours of a sorted slice only.                             *)
TimelineDisjoint == Disjoint(segments)

(* The sequence numbers are 1..n in the order of the timeline: what the    *)
(* credential seals as the order of publication.                           *)
SequenceIsTimelineOrder ==
    /\ {s.sequence : s \in segments} = 1 .. Cardinality(segments)
    /\ \A s, t \in segments : s.start < t.start => s.sequence < t.sequence

-----------------------------------------------------------------------------
(* Findings and revisions *)

(* A case holds one finding per segment and rule, and only for segments it *)
(* has: a targeted check replaces the findings of its segments and no      *)
(* others, and a rule that is broken again reopens the earlier finding.    *)
FindingsAreKeyed ==
    /\ \A f, g \in findings : f.segment = g.segment /\ f.rule = g.rule => f = g
    /\ \A f \in findings : f.segment \in Ids(segments)

(* A case that is frozen and not yet in remediation has been neither       *)
(* revised nor returned: every path that does so leaves the frozen state.  *)
FrozenIsPristine ==
    state \in {"draft", "frozen"} =>
        /\ revisions = <<>>
        /\ \A f \in findings : ~f.returned

RevisionsOf(id) == {i \in DOMAIN revisions : revisions[i].segment = id}

(* The revisions of a segment tell its whole history since the freeze:     *)
(* each starts from the text the one before it left, the last one left the *)
(* text and the disposition the segment has, and a segment that was never  *)
(* revised has no disposition.                                             *)
RevisionTrail ==
    /\ \A i, j \in DOMAIN revisions :
          /\ i < j /\ revisions[i].segment = revisions[j].segment
          /\ \A k \in i + 1 .. j - 1 : revisions[k].segment # revisions[i].segment
          => revisions[j].before = revisions[i].after
    /\ \A s \in segments :
          IF RevisionsOf(s.id) = {} THEN s.disposition = Blank
          ELSE \E i \in RevisionsOf(s.id) :
                  /\ \A j \in RevisionsOf(s.id) : j <= i
                  /\ s.proposed = revisions[i].after
                  /\ s.disposition = revisions[i].explanation

(* A finding about the text of a segment is closed by a revision of that   *)
(* segment and by nothing else: not by a new consent, a change of the      *)
(* clock, or a check that looks at other segments.                         *)
TextFindingsClosedByRevision ==
    \A f \in findings :
        f.rule \in TextRules /\ f.status = "closed" => RevisionsOf(f.segment) # {}

(* Nothing a check found is forgotten by a later one: a finding may close  *)
(* and reopen, but it stays on the case, and so does the mark that a       *)
(* reviewer returned it.                                                   *)
FindingsNeverForgotten ==
    [][\A f \in findings : \E g \in findings' :
          /\ g.segment = f.segment /\ g.rule = f.rule
          /\ f.returned => g.returned]_vars

(* What is open on a segment changes only by a check that looked at it: a  *)
(* step that opens or closes a finding leaves just the rules open that the *)
(* segment breaks at that time.  A targeted check keeps the findings of    *)
(* all other segments (review.go:28), the open ones that gate an approval  *)
(* above all, and returns and remediations open and close nothing.         *)
FindingsFollowRules ==
    [][\A s \in segments :
          OpenRules(findings', s.id) # OpenRules(findings, s.id) =>
              OpenRules(findings', s.id) = BrokenRules(s, consents, intendedUse, now)]_vars

(* What the organizer froze is what is published: from the freeze on the   *)
(* intended use, the segments, their place in the timeline, their source   *)
(* and their tag never change; only proposed text and disposition do.      *)
Original(s) == [id |-> s.id, start |-> s.start, end |-> s.end,
                sequence |-> s.sequence, source |-> s.source, tag |-> s.tag]

OriginalOf(S) == {Original(s) : s \in S}

OriginalProtected ==
    [][state # "draft" =>
          /\ state' # "draft"
          /\ intendedUse' = intendedUse
          /\ OriginalOf(segments') = OriginalOf(segments)]_vars

-----------------------------------------------------------------------------
(* What the code says and does not do *)

(* domain/consent.go:19 refuses a grant with the words "a grant must       *)
(* expire after it becomes valid".  The dates are compared before they are *)
(* truncated, so a grant of less than a millisecond is stored with the two *)
(* dates equal.                                                            *)
ConsentDatesOrdered == \A g \in consents : g.to > g.from

(* A recheck is meant for the latest revision of a segment                 *)
(* (annotateLatestRevision, domain/review.go:39).  The code annotates the *)
(* latest one not rechecked yet: after two remediations of a segment and   *)
(* one recheck, a second recheck goes to the revision that was superseded. *)
LatestRevisionAnnotated ==
    [][\A i \in DOMAIN revisions :
          ~revisions[i].rechecked /\ revisions'[i].rechecked =>
              \A j \in RevisionsOf(revisions[i].segment) : j <= i]_vars

-----------------------------------------------------------------------------
(* Approval *)

(* An approved case breaks no rule at the time the credential carries,     *)
(* although the findings on the case may be older than a lapsed consent    *)
(* and the clock the approval used may be older than the approval.         *)
ApprovedIsClean ==
    state = "approved" =>
        /\ NoOpenBlocker(findings)
        /\ \A s \in segments :
              BrokenRules(s, consents, intendedUse, credential.approvedAt) = {}

(* A sensitive segment is published only after a reviewer returned a       *)
(* finding on it and an organizer rewrote it with an explanation, however  *)
(* its text looked when it was frozen.                                     *)
SensitiveWasReturned ==
    state = "approved" =>
        \A s \in segments : s.tag # "none" =>
            /\ \E f \in findings : f.segment = s.id /\ f.returned
            /\ \E i \in RevisionsOf(s.id) : revisions[i].related # {}

(* The credential of an approved case verifies, then and ever after, and a *)
(* case has a credential exactly when it is approved.                      *)
CredentialVerifies ==
    (state = "approved" \/ credential # NoCredential) => VerifyCredential
=============================================================================
