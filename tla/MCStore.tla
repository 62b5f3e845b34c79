------------------------------ MODULE MCStore ------------------------------
(***************************************************************************)
(* A store of two cases, two keys and two commands.  The requests contain  *)
(* a creation and updates that expect the first and the second version,    *)
(* and either key can come with every command, so that keys are reused     *)
(* for other commands, other versions and other cases.                     *)
(***************************************************************************)
EXTENDS Store

MCRequests ==
    {[case |-> NoCase, key |-> "k1", body |-> "create", expected |-> 0],
     [case |-> NoCase, key |-> "k2", body |-> "create", expected |-> 0],
     [case |-> "c1", key |-> "k1", body |-> "edit", expected |-> 1],
     [case |-> "c1", key |-> "k2", body |-> "edit", expected |-> 1],
     [case |-> "c2", key |-> "k2", body |-> "edit", expected |-> 1],
     [case |-> "c1", key |-> "k3", body |-> "edit", expected |-> 2],
     [case |-> "c1", key |-> "k3", body |-> "edit", expected |-> 1]}
=============================================================================
