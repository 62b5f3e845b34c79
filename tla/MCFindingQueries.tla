-------------------------- MODULE MCFindingQueries --------------------------
(***************************************************************************)
(* Queries for the findings of two segments whose ids differ in white      *)
(* space only.                                                             *)
(***************************************************************************)
EXTENDS FindingQueries

MCStrings == {"", "*", " s1", "s1", "g1", "raw", "safe", "web", "why"}

MCTrim == [x \in MCStrings |-> IF x = " s1" THEN "s1" ELSE x]

MCSegments ==
    {[id |-> "s1", start |-> 0, end |-> 2, source |-> "raw",
      proposed |-> "raw", tag |-> "restricted"],
     [id |-> " s1", start |-> 2, end |-> 3, source |-> "raw",
      proposed |-> "raw", tag |-> "personal"]}

MCGrants ==
    {[id |-> "g1", scope |-> {"*"}, uses |-> {"web"}, prohibited |-> FALSE,
      signed |-> TRUE, from |-> 0, to |-> 2]}
=============================================================================
