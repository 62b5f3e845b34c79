------------------------------- MODULE Roles -------------------------------
(***************************************************************************)
(* application.authorize: who may send which command, over the life of a   *)
(* case.  Names are left out: an actor is a role, as the server knows no   *)
(* more of a caller than the role the request claims.                      *)
(***************************************************************************)
EXTENDS ReleaseCase

VARIABLE acted      \* history: pairs of what was done and the role that did it

roleVars == <<vars, acted>>

Deeds == {"edit", "add_consent", "freeze", "check", "return", "remediate", "approve"}

(* Mutant: organizers return findings. *)
Allowed_Return(deed) ==
    CASE deed \in {"edit", "add_consent", "freeze", "remediate", "return"} -> {"organizer"}
      [] deed = "check"   -> {"organizer", "reviewer"}
      [] deed = "approve" -> {"reviewer", "release_manager"}

Allowed(deed) ==
    CASE deed \in {"edit", "add_consent", "freeze", "remediate"} -> {"organizer"}
      [] deed = "check"   -> {"organizer", "reviewer"}
      [] deed = "return"  -> {"reviewer"}
      [] deed = "approve" -> {"reviewer", "release_manager"}

(* Every method authorizes its caller before it does anything else. *)
Command(deed) ==
    CASE deed = "edit"        -> Edit
      [] deed = "freeze"      -> Freeze
      [] deed = "add_consent" -> \E g \in GrantInputs : AddConsent(g)
      [] deed = "check"       -> RunFullCheck
                                 \/ \E targets \in SUBSET Ids(segments) : RunTargetedCheck(targets)
      [] deed = "return"      -> \E note \in NoteInputs :
                                     \/ \E f \in findings : ReturnFinding(f, note)
                                     \/ \E batch \in SUBSET findings : ReturnFindingsBatch(batch, note)
      [] deed = "remediate"   -> \E s \in segments, text \in TextInputs, note \in NoteInputs :
                                     Remediate(s, text, note)
      [] deed = "approve"     -> \E t \in ApprovalTimes : Approve(t)

RInit == Init /\ acted = {}

RNext ==
    \/ \E deed \in Deeds : \E role \in Allowed(deed) :
           /\ Command(deed)
           /\ acted' = acted \cup {<<deed, role>>}
    \/ Tick /\ UNCHANGED acted

RSpec == RInit /\ [][RNext]_roleVars

-----------------------------------------------------------------------------
By(role) == {deed \in Deeds : <<deed, role>> \in acted}

(* No role publishes alone: what was published was submitted by an         *)
(* organizer and approved by another role, and a text that was changed     *)
(* after the submission, or is published of a sensitive segment, was       *)
(* returned by a reviewer before, whichever of its findings was closed or  *)
(* reopened by whose checks in between (service.go:254, 291 and 310).      *)
SensitiveSegments == {s \in segments : s.tag \in {"personal", "restricted"}}

NoRoleAlone ==
    /\ revisions # <<>> => "return" \in By("reviewer") /\ "remediate" \in By("organizer")
    /\ state = "approved" =>
          /\ "freeze" \in By("organizer")
          /\ "approve" \in By("reviewer") \cup By("release_manager")
          /\ SensitiveSegments # {} => "return" \in By("reviewer")

(* README.md:45: checks are made by reviewers. *)
ReviewersCheck == fullCheckCompleted => "check" \in By("reviewer")
=============================================================================
