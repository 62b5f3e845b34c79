-------------------------- MODULE MCConsentAgreement --------------------------
(***************************************************************************)
(* All pairs of grants over padded and plain scopes and uses, with and     *)
(* without a ban on publication, valid in one of three periods, and a      *)
(* clock of two ticks to the millisecond that crosses their ends.          *)
(***************************************************************************)
EXTENDS ConsentAgreement

MCStrings == {"", "*", " *", "s1", " s1", "web", " web", "g1", "g2"}

MCTrim == [x \in MCStrings |->
              CASE x = " *"   -> "*"
                [] x = " s1"  -> "s1"
                [] x = " web" -> "web"
                [] OTHER      -> x]

Grants(gid) ==
    {[id |-> gid, scope |-> {scope}, uses |-> {allowed}, prohibited |-> ban,
      signed |-> TRUE, from |-> period[1], to |-> period[2]] :
        scope \in {"*", " *", "s1", " s1", "web"},
        allowed \in {"*", " *", "web", " web", "s1"},
        ban \in BOOLEAN,
        period \in {<<0, 2>>, <<2, 4>>, <<4, 4>>}}

MCGrantSets ==
    {{}} \cup {{g} : g \in Grants("g1")}
         \cup {{g, h} : g \in Grants("g1"), h \in {k \in Grants("g2") : ~k.prohibited}}
=============================================================================
