---------------------------- MODULE CaseLifecycle ----------------------------
(***************************************************************************)
(* What a release case promises, with the review left out: an organizer    *)
(* edits an original, submits it once, and it is published at most once,   *)
(* whole and in the order of its timeline; once submitted the original     *)
(* does not change, and once published nothing does.  ReleaseCase          *)
(* implements it (ReleaseCaseRefinement).                                  *)
(***************************************************************************)
EXTENDS Integers, FiniteSets

CONSTANTS
    Uses,           \* intended uses
    Originals,      \* segments: records with the fields id, start, end, sequence
    Nothing         \* what is published before anything is

VARIABLES
    phase,          \* "draft", "review" or "published"
    use,            \* the intended use
    original,       \* the set of segments
    published       \* the segments released, as pairs <<id, place>>

vars == <<phase, use, original, published>>

(* The order of publication of a timeline: each segment's place is the     *)
(* number of segments that start before it, plus one.                      *)
InOrder(S) ==
    {<<s.id, 1 + Cardinality({t \in S : t.start < s.start})>> : s \in S}

Init ==
    /\ phase = "draft"
    /\ use \in Uses
    /\ original = {}
    /\ published = Nothing

Edit ==
    /\ phase = "draft"
    /\ use' \in Uses
    /\ original' \in SUBSET Originals
    /\ UNCHANGED <<phase, published>>

Submit ==
    /\ phase = "draft"
    /\ original # {}
    /\ \A s, t \in original : s.id = t.id => s = t
    /\ \A s, t \in original : s # t => s.end <= t.start \/ t.end <= s.start
    /\ phase' = "review"
    /\ UNCHANGED <<use, original, published>>

Publish ==
    /\ phase = "review"
    /\ phase' = "published"
    /\ published' = InOrder(original)
    /\ UNCHANGED <<use, original>>

Next == Edit \/ Submit \/ Publish

Spec == Init /\ [][Next]_vars
=============================================================================
