------------------------- MODULE MCCredentialCheck -------------------------
(***************************************************************************)
(* A case approved with two segments, one of them disposed of, and one     *)
(* with a single segment; room to store a third.                           *)
(***************************************************************************)
EXTENDS CredentialCheck

MCTexts == {"", "a", "a ", "b"}

MCTrim == [x \in MCTexts |-> IF x = "a " THEN "a" ELSE x]

First  == [row |-> 1, id |-> 1, sequence |-> 1, proposed |-> "a", disposition |-> ""]
Second == [row |-> 2, id |-> 2, sequence |-> 2, proposed |-> "b", disposition |-> "a"]

MCApprovals == {{First}, {First, Second}}
=============================================================================
