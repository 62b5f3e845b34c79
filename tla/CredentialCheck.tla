-------------------------- MODULE CredentialCheck --------------------------
(***************************************************************************)
(* assurance.VerifyCredentialDetailed on an approved case whose stored     *)
(* form was changed behind the program's back: snapshot.json is a plain    *)
(* file, and no digest but the credential's covers the cases in it.        *)
(*                                                                         *)
(* Abstractions.                                                           *)
(*   - A digest is the data it digests; a digest of a text is the trimmed  *)
(*     text (HashText).                                                    *)
(*   - Ids are numbers, in the order of the strings they stand for.        *)
(*   - The stored slice of segments is a set of records that carry their   *)
(*     position (row), so a segment can be stored twice.                   *)
(*   - Times and fields no digest covers are left out.                     *)
(***************************************************************************)
EXTENDS Integers, FiniteSets, SequencesExt

CONSTANTS
    Ids,        \* segment ids
    Rows,       \* positions in the stored slice
    Texts,      \* proposed texts and dispositions
    Trim,       \* strings.TrimSpace on Texts
    Grants,     \* stored forms of consents
    Approvals,  \* the segments a case is approved with
    Legacy,     \* whether the credential may be of the older format
    Faults,     \* what may be changed in the file
    MaxFaults   \* bound: changes made to the file

Segment == [row : Rows, id : Ids, sequence : Nat, proposed : Texts, disposition : Texts]

(* A case never gets two segments of one id (AddSegment, AddSegmentsBatch). *)
ASSUME CredentialCheckAssumption ==
    /\ Ids \subseteq Nat /\ Rows \subseteq Nat
    /\ DOMAIN Trim = Texts /\ \A x \in Texts : Trim[x] \in Texts
    /\ Approvals \subseteq SUBSET Segment
    /\ \A rc \in Approvals :
          /\ IsFiniteSet(rc)
          /\ \A s, t \in rc : s.id = t.id \/ s.row = t.row => s = t
    /\ Legacy \subseteq BOOLEAN
    /\ MaxFaults \in Nat

VARIABLES
    approved,   \* whether the stored state is approved
    version,    \* Version, from the version of the approval on
    segments,   \* Segments
    consents,   \* Consents
    credential, \* Credential
    original,   \* history: segments and consents at the approval
    faults      \* changes made so far

vars == <<approved, version, segments, consents, credential, original, faults>>

-----------------------------------------------------------------------------
(* Digests *)

(* The order of CredentialSegments, stable. *)
Before(s, t) ==
    \/ s.sequence < t.sequence
    \/ s.sequence = t.sequence /\ s.id < t.id
    \/ s.sequence = t.sequence /\ s.id = t.id /\ s.row < t.row

Item(s) ==
    [id |-> s.id, sequence |-> s.sequence,
     proposed |-> Trim[s.proposed], disposition |-> Trim[s.disposition]]

(* Where sorting by Before puts a segment. *)
Place(rc, s) == Cardinality({t \in rc : Before(t, s)}) + 1

Sorted(rc) == [i \in 1..Cardinality(rc) |-> CHOOSE s \in rc : Place(rc, s) = i]

CredentialSegments(rc) == [i \in 1..Cardinality(rc) |-> Item(Sorted(rc)[i])]

PublicIds(items) == [i \in DOMAIN items |-> items[i].id]

Seal(rc, grants, legacy) ==
    LET items == CredentialSegments(rc)
    IN  [version |-> 0, manifest |-> items, consents |-> grants,
         range |-> PublicIds(items), sealed |-> IF legacy THEN <<>> ELSE items]

-----------------------------------------------------------------------------
(* Verification *)

Current == CredentialSegments(segments)

IsLegacy == credential.sealed = <<>>

ConsentsMatch == consents = credential.consents

ManifestMatches == Current = credential.manifest

(* byID: a later item replaces an earlier one of its id. *)
Actual(id) == Current[SelectLastInSeq(Current, LAMBDA item : item.id = id)]

Exists(id) == \E i \in DOMAIN Current : Current[i].id = id

SealedStatus(sealed) ==
    IF ~Exists(sealed.id) THEN "missing"
    ELSE IF Actual(sealed.id).sequence # sealed.sequence THEN "order_mismatch"
    ELSE IF Actual(sealed.id) # sealed THEN "content_mismatch"
    ELSE IF ~ConsentsMatch THEN "consent_mismatch"
    ELSE "passed"

SealedStatuses ==
    {[id |-> s.id, status |-> SealedStatus(s)] : s \in ToSet(credential.sealed)}

LegacyStatuses ==
    {[id |-> s.id, status |-> IF ManifestMatches THEN "passed" ELSE "content_mismatch"] :
         s \in ToSet(Current)}

(* Mutant: segments the credential does not have are not looked for. *)
Statuses_SealedOnly == IF IsLegacy THEN LegacyStatuses ELSE SealedStatuses

Statuses ==
    IF IsLegacy THEN LegacyStatuses
    ELSE SealedStatuses \cup
         {[id |-> s.id, status |-> "missing"] :
             s \in {c \in ToSet(Current) : c.id \notin ToSet(PublicIds(credential.sealed))}}

AllPassed == \A s \in Statuses : s.status = "passed"

(* Mutant: the statuses are taken to cover the manifest. *)
Valid_TrustsStatuses ==
    approved /\ ConsentsMatch /\ credential.version = version /\ AllPassed

Valid ==
    /\ approved
    /\ ManifestMatches
    /\ ConsentsMatch
    /\ PublicIds(Current) = credential.range
    /\ credential.version = version
    /\ AllPassed
    /\ IsLegacy \/ Len(credential.sealed) = Len(Current)

-----------------------------------------------------------------------------
(* What becomes of the file *)

Init ==
    /\ approved = TRUE
    /\ version = 0
    /\ segments \in Approvals
    /\ consents = Grants
    /\ \E legacy \in Legacy : credential = Seal(segments, consents, legacy)
    /\ original = [segments |-> segments, consents |-> consents]
    /\ faults = 0

Fault(kind) ==
    /\ kind \in Faults
    /\ faults < MaxFaults
    /\ faults' = faults + 1
    /\ UNCHANGED original

Replace(s, t) ==
    /\ s # t
    /\ segments' = (segments \ {s}) \cup {t}
    /\ UNCHANGED <<approved, version, consents, credential>>

Rewrite(s) ==
    /\ Fault("text")
    /\ \E x \in Texts : Replace(s, [s EXCEPT !.proposed = x]) \/ Replace(s, [s EXCEPT !.disposition = x])

Move(s) ==
    /\ Fault("order")
    /\ \E n \in Rows : Replace(s, [s EXCEPT !.sequence = n])

Rename(s) ==
    /\ Fault("id")
    /\ \E id \in Ids : Replace(s, [s EXCEPT !.id = id])

Delete(s) ==
    /\ Fault("remove")
    /\ segments' = segments \ {s}
    /\ UNCHANGED <<approved, version, consents, credential>>

(* A segment is stored twice, or a new one beside it. *)
Copy(s) ==
    /\ Fault("copy")
    /\ \E row \in Rows \ {r.row : r \in segments}, id \in Ids :
           segments' = segments \cup {[s EXCEPT !.row = row, !.id = id]}
    /\ UNCHANGED <<approved, version, consents, credential>>

ChangeConsents ==
    /\ Fault("consents")
    /\ consents' \in SUBSET Grants \ {consents}
    /\ UNCHANGED <<approved, version, segments, credential>>

Reopen ==
    /\ Fault("state")
    /\ \/ approved' = FALSE /\ UNCHANGED version
       \/ version' = version + 1 /\ UNCHANGED approved
    /\ UNCHANGED <<segments, consents, credential>>

(* The credential loses sealed segments, or all of them. *)
Unseal ==
    /\ Fault("unseal")
    /\ ~IsLegacy
    /\ \/ credential' = [credential EXCEPT !.sealed = <<>>]
       \/ \E i \in DOMAIN credential.sealed :
              credential' = [credential EXCEPT !.sealed = RemoveAt(@, i)]
    /\ UNCHANGED <<approved, version, segments, consents>>

Next ==
    \/ \E s \in segments : Rewrite(s) \/ Move(s) \/ Rename(s) \/ Delete(s) \/ Copy(s)
    \/ ChangeConsents
    \/ Reopen
    \/ Unseal

Spec == Init /\ [][Next]_vars

-----------------------------------------------------------------------------
(* A row as a reader sees it: where it is stored does not matter, nor      *)
(* space around its texts.                                                 *)
Seen(s) == <<s.id, s.sequence, Trim[s.proposed], Trim[s.disposition]>>

(* What is published is what was approved. *)
Intact ==
    /\ approved /\ version = 0
    /\ consents = original.consents
    /\ Cardinality(segments) = Cardinality(original.segments)
    /\ {Seen(s) : s \in segments} = {Seen(s) : s \in original.segments}

(* A credential verifies exactly as long as the case is what was approved, *)
(* however its stored form was changed: a segment moved, stored twice,     *)
(* renamed onto another or changed back, consents withdrawn, the case      *)
(* reopened.  A credential that lost all its sealed segments is taken for  *)
(* one of the older format and still covers the case; one that lost some   *)
(* does not verify (digest.go:97 and 138).                                 *)
ValidIffIntact ==
    Valid <=> Intact /\ credential.sealed \in {<<>>, credential.manifest}

(* While no id is stored twice, the statuses of a sealed credential name   *)
(* what changed and nothing else: every segment that is not what was       *)
(* approved or was not approved, and, when the consents changed, every     *)
(* segment they were sealed for.                                           *)
Changed ==
    {id \in Ids : {Seen(s) : s \in {r \in segments : r.id = id}}
                  # {Seen(s) : s \in {r \in original.segments : r.id = id}}}

StatusesNameWhatChanged ==
    (/\ credential.sealed = credential.manifest
     /\ \A s, t \in segments : s.id = t.id => s = t)
    => {s.id : s \in {x \in Statuses : x.status # "passed"}}
       = IF consents = original.consents THEN Changed
         ELSE Changed \cup {s.id : s \in original.segments}

(* The message of digest.go:143: a credential that does not verify shows   *)
(* where.                                                                  *)
InvalidIsLocated == ~Valid => ~AllPassed
=============================================================================
