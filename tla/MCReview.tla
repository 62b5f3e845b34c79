------------------------------ MODULE MCReview ------------------------------
(***************************************************************************)
(* ReleaseCase through review, remediation and approval.  MCConsent.cfg    *)
(* has one restricted segment, a consent that lapses while the case is     *)
(* under review, one that takes its place, and a clock of two ticks to the *)
(* millisecond; MCRoles.cfg (module MCRoles) has a restricted and a        *)
(* leaking segment and a clock of one tick.                                *)
(***************************************************************************)
EXTENDS ReleaseCaseRefinement

MCStrings == {"", "*", "s1", "s2", "g1", "g2", "raw", "safe", "SECRET:", "web", "why"}

MCTrim == [x \in MCStrings |-> x]

Restricted ==
    [id |-> "s1", start |-> 0, end |-> 2, source |-> "raw",
     proposed |-> "safe", tag |-> "restricted"]
Leaking ==
    [id |-> "s2", start |-> 2, end |-> 3, source |-> "raw",
     proposed |-> "SECRET:", tag |-> "none"]

OneSegment  == {Restricted}
TwoSegments == {Restricted, Leaking}

Grant1 ==
    [id |-> "g1", scope |-> {"*"}, uses |-> {"web"}, prohibited |-> FALSE,
     signed |-> TRUE, from |-> 0, to |-> 2]
Grant2 ==
    [id |-> "g2", scope |-> {"s1", "s2"}, uses |-> {"*"}, prohibited |-> FALSE,
     signed |-> TRUE, from |-> 3, to |-> 5]

(* Shorter than a millisecond. *)
ShortGrant == [Grant1 EXCEPT !.to = 1]

OneGrant    == {Grant1}
TwoGrants   == {Grant1, Grant2}
ShortGrants == {ShortGrant}
=============================================================================
