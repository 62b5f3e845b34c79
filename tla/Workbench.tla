----------------------------- MODULE Workbench -----------------------------
(***************************************************************************)
(* Browser tabs on one release case: what application/view.go offers and   *)
(* httpui/assets/app.js does with it.                                      *)
(*                                                                         *)
(* A tab shows the view of the case as an answer left it, however old, and *)
(* enables the buttons that view offers.  A click sends the command with   *)
(* the version shown; the server refuses it when the case has moved on,    *)
(* and otherwise answers with the view of the case as the command left it. *)
(* Answers get lost.  The button that submits a remediation sends a        *)
(* recheck of the segment when the remediation has been answered.          *)
(*                                                                         *)
(* Abstractions.                                                           *)
(*   - Of a view the tab keeps its version, the actions it offers and      *)
(*     whether findings are open.  What users fill in is chosen when the   *)
(*     server serves the command, as the version vouches that the case is  *)
(*     the one shown; a command with invalid input is refused.             *)
(*   - An approval is its preview and its command in one (see Approval).   *)
(*   - A tab that waits for an answer sends nothing else, although not     *)
(*     every button is disabled meanwhile, and a request whose connection  *)
(*     breaks is served before or never.  A tab that is closed is one that *)
(*     waits for ever.                                                     *)
(*   - The rows of other cases, filters and statistics are left out.       *)
(***************************************************************************)
EXTENDS ReleaseCase

CONSTANTS
    Tabs,
    MaxLost     \* bound: requests and answers lost

ASSUME LostAssumption == MaxLost \in Nat

VARIABLES
    tab,        \* what each tab shows and waits for
    lost        \* requests and answers lost so far

caseVars == vars
allVars  == <<caseVars, tab, lost>>

Actions == {"edit", "freeze", "check", "return", "remediate", "targeted_check",
            "approve", "add_consent", "verify_credential"}

(* at: when the offers were made, which only that of a freeze depends on. *)
View == [version : Nat, offered : SUBSET Actions, blocked : BOOLEAN, at : Nat]

(* sent: the command in flight; recheck: the segment whose recheck is      *)
(* still to come, or Blank; told: segments whose recheck failed in front   *)
(* of the user.                                                            *)
Tab == [shown : View, answer : View,
        phase : {"ready", "sent", "answered", "refused"},
        sent : Actions \cup {"none"}, recheck : Strings, told : SUBSET Strings]

TabsOK == tab \in [Tabs -> Tab] /\ lost \in 0 .. MaxLost

-----------------------------------------------------------------------------
(* application.buildView *)

CanFreeze ==
    /\ segments # {}
    /\ \A s \in segments : CoverageAt(consents, intendedUse, s.id, now) = "covered"

Offered ==
    CASE state = "draft"       -> {"edit"} \cup (IF CanFreeze THEN {"freeze"} ELSE {})
      [] state = "frozen"      -> {"check", "return", "approve", "add_consent"}
      [] state = "remediation" -> {"remediate", "targeted_check", "approve", "add_consent"}
      [] state = "approved"    -> {"verify_credential"}

CaseView == [version |-> version, offered |-> Offered, blocked |-> ~NoOpenBlocker(findings),
             at |-> IF state = "draft" THEN now ELSE 0]

-----------------------------------------------------------------------------
(* The tab: render and the click handlers *)

Enabled(view) ==
    (view.offered \cap {"edit", "freeze", "check", "remediate"})
    \cup (IF view.offered \cap {"edit", "add_consent"} # {} THEN {"add_consent"} ELSE {})
    \cup (IF view.blocked THEN {"return"} ELSE view.offered \cap {"approve"})

Fresh == [shown |-> CaseView, answer |-> CaseView, phase |-> "ready",
          sent |-> "none", recheck |-> Blank, told |-> {}]

Set(t, new) == tab' = [tab EXCEPT ![t] = new]

Ready(t, view) ==
    [tab[t] EXCEPT !.shown = view, !.answer = view, !.phase = "ready",
                   !.sent = "none", !.recheck = Blank]

Click(t, action) ==
    /\ tab[t].phase = "ready"
    /\ action \in Enabled(tab[t].shown)
    /\ Set(t, [tab[t] EXCEPT !.phase = "sent", !.sent = action])
    /\ UNCHANGED <<caseVars, lost>>

(* loadCase *)
Reload(t) ==
    /\ tab[t].phase = "ready"
    /\ tab[t].shown # CaseView
    /\ Set(t, Ready(t, CaseView))
    /\ UNCHANGED <<caseVars, lost>>

(* Mutant: the version of the answer is taken, its offers are not. *)
Receive_KeepsOffers(t) ==
    /\ tab[t].phase = "answered"
    /\ Set(t, Ready(t, [tab[t].shown EXCEPT !.version = tab[t].answer.version]))
    /\ UNCHANGED <<caseVars, lost>>

(* mutate: the answer is shown, and the second half of a remediation is    *)
(* sent with the version it shows.                                         *)
Receive(t) ==
    /\ tab[t].phase = "answered"
    /\ IF tab[t].sent = "remediate"
       THEN Set(t, [tab[t] EXCEPT !.shown = tab[t].answer, !.phase = "sent",
                                  !.sent = "targeted_check"])
       ELSE Set(t, Ready(t, tab[t].answer))
    /\ UNCHANGED <<caseVars, lost>>

(* Mutant: the tab goes on waiting. *)
Fail_StaysBusy(t) == Set(t, [tab[t] EXCEPT !.phase = "failed"])

(* Mutant: the error is swallowed. *)
Fail_Silently(t) == Set(t, Ready(t, tab[t].shown))

(* An error: the tab says so, keeps what it showed, and the rest of a      *)
(* remediation is not sent.                                                *)
Fail(t) ==
    Set(t, [Ready(t, tab[t].shown) EXCEPT !.told =
               @ \cup (IF tab[t].recheck = Blank THEN {} ELSE {tab[t].recheck})])

ReceiveError(t) ==
    /\ tab[t].phase = "refused"
    /\ Fail(t)
    /\ UNCHANGED <<caseVars, lost>>

Lose(t) ==
    /\ lost < MaxLost
    /\ lost' = lost + 1
    /\ tab[t].phase # "ready"
    /\ Fail(t)
    /\ UNCHANGED caseVars

-----------------------------------------------------------------------------
(* The server *)

Return ==
    \E note \in NoteInputs :
        \/ \E f \in findings : ReturnFinding(f, note)
        \/ \E batch \in SUBSET findings : ReturnFindingsBatch(batch, note)

Answer(t, recheck) ==
    Set(t, [tab[t] EXCEPT !.answer = CaseView', !.phase = "answered", !.recheck = recheck])

Serve(t) ==
    LET sent == tab[t].sent IN
    /\ tab[t].phase = "sent"
    /\ tab[t].shown.version = version
    /\ \/ sent = "edit" /\ Edit /\ Answer(t, Blank)
       \/ sent = "add_consent" /\ (\E g \in GrantInputs : AddConsent(g)) /\ Answer(t, Blank)
       \/ sent = "freeze" /\ Freeze /\ Answer(t, Blank)
       \/ sent = "check" /\ RunFullCheck /\ Answer(t, Blank)
       \/ sent = "return" /\ Return /\ Answer(t, Blank)
       \/ /\ sent = "remediate"
          /\ \E s \in segments, text \in TextInputs, note \in NoteInputs :
                 Remediate(s, text, note) /\ Answer(t, s.id)
       \/ /\ sent = "targeted_check"
          /\ RunTargetedCheck({tab[t].recheck}) /\ Answer(t, Blank)
       \/ sent = "approve" /\ Approve(now) /\ Answer(t, Blank)
    /\ UNCHANGED lost

(* The version has moved on or the input is invalid; a recheck has no      *)
(* input but the segment.                                                  *)
Refuse(t) ==
    /\ tab[t].phase = "sent"
    /\ tab[t].shown.version = version =>
           \/ tab[t].sent \in {"edit", "add_consent", "return", "remediate"}
           \/ tab[t].sent = "freeze" /\ ~CanFreeze
           \/ tab[t].sent = "approve" /\ ~(fullCheckCompleted /\ NoOpenBlocker(Check(Strings, now)))
    /\ Set(t, [tab[t] EXCEPT !.phase = "refused"])
    /\ UNCHANGED <<caseVars, lost>>

-----------------------------------------------------------------------------
WInit ==
    /\ Init
    /\ tab = [t \in Tabs |-> Fresh]
    /\ lost = 0

WNext ==
    \/ \E t \in Tabs :
          \/ \E action \in Actions : Click(t, action)
          \/ Reload(t)
          \/ Receive(t)
          \/ ReceiveError(t)
          \/ Lose(t)
          \/ Serve(t)
          \/ Refuse(t)
    \/ Tick /\ UNCHANGED <<tab, lost>>

WSpec == WInit /\ [][WNext]_allVars

-----------------------------------------------------------------------------
(* What a tab enables that shows the current version is not refused for    *)
(* the state the case is in, whatever other tabs did and whichever answers *)
(* got lost; and the freeze it offers is accepted while the clock stands,  *)
(* by the timeline too, which the view does not look at (view.go:30).  An  *)
(* approval is left out: see FullCheckIsOffered.                           *)
EnabledIsAccepted ==
    \A t \in Tabs : tab[t].shown.version = version =>
        LET enabled == Enabled(tab[t].shown) IN
        /\ "edit" \in enabled => state = "draft"
        /\ "freeze" \in enabled /\ tab[t].shown.at = now =>
               /\ segments # {} /\ ValidTimeline(segments)
               /\ \A s \in segments :
                      CoverageAt(consents, intendedUse, s.id, now) = "covered"
        /\ "check" \in enabled => InReview
        /\ "return" \in enabled => InReview /\ \E f \in findings : f.status = "open"
        /\ "remediate" \in enabled => state = "remediation"
        /\ "add_consent" \in enabled => state # "approved"

(* "Submit the remediation and recheck" (app.js:8): a revision that was    *)
(* not rechecked is one whose tab is about to send the recheck, or whose   *)
(* user was told of the failure.  Nothing else may come between the two    *)
(* requests unseen: another tab's command, a lost answer, a stale version. *)
NoSilentRecheck ==
    \A i \in DOMAIN revisions : ~revisions[i].rechecked =>
        \E t \in Tabs : revisions[i].segment \in {tab[t].recheck} \cup tab[t].told

(* The messages of approval.go:51 and review.go:173 send the user to the   *)
(* full check that has to come before an approval.                         *)
FullCheckIsOffered ==
    InReview /\ ~fullCheckCompleted => "check" \in Offered
=============================================================================
