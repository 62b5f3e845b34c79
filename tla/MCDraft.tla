------------------------------- MODULE MCDraft -------------------------------
(***************************************************************************)
(* ReleaseCase with a rich choice of timelines: touching, overlapping,     *)
(* nested and reversed segments, ids with white space around them, and     *)
(* requests the code must refuse.  The clock stands still.                 *)
(***************************************************************************)
EXTENDS ReleaseCaseRefinement

MCStrings == {"", "*", " s1", "s1", "s2", "s3", "g", "raw", "safe", "web", "press", "why"}

MCTrim == [x \in MCStrings |-> IF x = " s1" THEN "s1" ELSE x]

In(id, start, end, proposed, tag) ==
    [id |-> id, start |-> start, end |-> end, source |-> "raw",
     proposed |-> proposed, tag |-> tag]

MCSegmentInputs ==
    {In("s1", 0, 2, "", "none"), In("s1", 1, 5, "safe", "none"),
     In(" s1", 2, 4, "safe", "none"), In(" s1", 4, 6, "safe", "none"),
     In("s2", 2, 4, "safe", ""), In("s2", 4, 6, "safe", "none"),
     In("s2", 0, 6, "", "none"), In("s2", 0, 3, "safe", "personal"),
     In("s3", 4, 6, "safe", "none"), In("s3", 0, 2, "safe", "none"),
     In("s3", 3, 5, "safe", "restricted"),
     In("s3", -1, 1, "safe", "none"), In("s3", 2, 2, "safe", "none"),
     In("", 0, 1, "safe", "none")}

MCGrantInputs ==
    {[id |-> "g", scope |-> {"*"}, uses |-> {"web"}, prohibited |-> FALSE,
      signed |-> TRUE, from |-> 0, to |-> 2]}
=============================================================================
