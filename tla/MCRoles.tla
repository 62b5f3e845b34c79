------------------------------ MODULE MCRoles ------------------------------
(***************************************************************************)
(* The review of two segments that break different rules, command by       *)
(* command and role by role.                                               *)
(***************************************************************************)
EXTENDS Roles, MCReview
=============================================================================
