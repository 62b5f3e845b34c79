------------------------ MODULE ReleaseCaseRefinement ------------------------
(***************************************************************************)
(* ReleaseCase implements CaseLifecycle.  Frozen and remediation are one   *)
(* phase of the lifecycle; the original is the segments without what       *)
(* remediation may change; what is published is what the credential seals. *)
(***************************************************************************)
EXTENDS ReleaseCase

Phase ==
    CASE state = "draft" -> "draft"
      [] InReview -> "review"
      [] state = "approved" -> "published"

Published ==
    IF credential = NoCredential THEN NoCredential
    ELSE {<<m.segment, m.sequence>> : m \in credential.manifest}

Originals == [id : Strings, start : Int, end : Int, sequence : Nat,
              source : Text, tag : StoredTags]

Lifecycle == INSTANCE CaseLifecycle
    WITH Uses <- Strings, Originals <- Originals, Nothing <- NoCredential,
         phase <- Phase, use <- intendedUse, original <- OriginalOf(segments),
         published <- Published

(* Every step of the case is a step of the lifecycle or leaves it alone:   *)
(* what is frozen is a disjoint timeline, it is never edited again, and    *)
(* one publication seals all of it in the order of the timeline.           *)
ImplementsLifecycle == Lifecycle!Spec
=============================================================================
