---------------------------- MODULE MCWorkbench ----------------------------
(***************************************************************************)
(* Two tabs on a case of one sensitive segment and one consent that lapses *)
(* while it is edited, or is replaced by another.                          *)
(***************************************************************************)
EXTENDS Workbench

MCStrings == {"", "*", "s1", "g1", "g2", "raw", "safe", "mask", "web", "why"}

MCTrim == [x \in MCStrings |-> x]

MCSegments ==
    {[id |-> "s1", start |-> 0, end |-> 2, source |-> "raw",
      proposed |-> "raw", tag |-> "restricted"]}

MCGrants ==
    {[id |-> "g1", scope |-> {"*"}, uses |-> {"web"}, prohibited |-> FALSE,
      signed |-> TRUE, from |-> 0, to |-> 1],
     [id |-> "g2", scope |-> {"s1"}, uses |-> {"*"}, prohibited |-> FALSE,
      signed |-> TRUE, from |-> 0, to |-> 3]}

LOCAL T == INSTANCE TLC

Symmetry == T!Permutations(Tabs)
=============================================================================
