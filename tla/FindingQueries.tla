--------------------------- MODULE FindingQueries ---------------------------
(***************************************************************************)
(* application.QueryFindings: which findings of a case a query selects,    *)
(* from the case as one version left it.                                   *)
(*                                                                         *)
(* Abstractions.  Findings are a set: their order (segment, rule) is a     *)
(* matter of layout.  The statistics are counts of what was matched.       *)
(* Every finding is a blocker (rules.go:121), so the severity filter is    *)
(* left out.  A rule is named by its code, whatever white space a request  *)
(* puts around it; the values validateFindingQuery refuses are left out.   *)
(***************************************************************************)
EXTENDS ReleaseCase

(* No filter: the empty string of the query. *)
All == Blank

Query == [status : {All, "open", "closed"}, rule : RuleCodes \cup {All},
          segment : Strings, tag : Tags \cup {All}]

(* The id of the segment is trimmed before anything looks at it, so white  *)
(* space alone is no filter.                                               *)
Trimmed(q) == [q EXCEPT !.segment = Trim[@]]

(* A filter on a segment the case does not have is refused. *)
Accepted(q) ==
    LET id == Trimmed(q).segment IN id # All => id \in Ids(segments)

TagOf(id) == (CHOOSE s \in segments : s.id = id).tag

Matched(q) ==
    LET filter == Trimmed(q)
    IN  {f \in findings :
            /\ filter.status \in {All, f.status}
            /\ filter.rule \in {All, f.rule}
            /\ filter.segment \in {All, f.segment}
            /\ filter.tag = All \/ filter.tag = TagOf(f.segment)}

-----------------------------------------------------------------------------
(* What the code says and does not do *)

OfSegment(id) == [status |-> All, rule |-> All, segment |-> id, tag |-> All]

(* A query is refused with the words "the segment of the filter does not   *)
(* exist in this case" (findings.go:56), so a query for the segment of a   *)
(* finding is answered, with the finding.  AddSegment stores an id as it   *)
(* came (segments.go:113) and the query trims it: the findings of a        *)
(* segment with a padded id cannot be asked for, or those of its namesake  *)
(* without white space are shown.                                          *)
FindingsAreFound ==
    \A f \in findings :
        LET q == OfSegment(f.segment) IN Accepted(q) /\ f \in Matched(q)
=============================================================================
