---------------------------- MODULE Publication ----------------------------
(***************************************************************************)
(* What previewing and approving promise, with handlers, tokens, clocks    *)
(* and failures left out: a case is edited until somebody seals exactly    *)
(* the version they were shown, and then it stays as it is.  Approval      *)
(* implements it (Approval!ImplementsPublication).                         *)
(***************************************************************************)
EXTENDS Integers, Sequences, SequencesExt

CONSTANTS
    CaseIds,
    Actors,     \* who previews and approves
    Contents,   \* what a version of a case shows
    Unsealed

VARIABLES
    history,    \* the contents of each case, version by version
    previews,   \* who may have been shown which version, and what it showed
    sealed      \* what was published, and who approved it

vars == <<history, previews, sealed>>

Init ==
    /\ \E first \in [CaseIds -> Contents] : history = [c \in CaseIds |-> <<first[c]>>]
    /\ previews = [c \in CaseIds |-> {}]
    /\ sealed = [c \in CaseIds |-> Unsealed]

Edit(c, content) ==
    /\ sealed[c] = Unsealed
    /\ history' = [history EXCEPT ![c] = Append(@, content)]
    /\ UNCHANGED <<previews, sealed>>

(* The version shown may have been superseded by the time it is shown. *)
Preview(c, actor, version) ==
    /\ version \in DOMAIN history[c]
    /\ previews' = [previews EXCEPT ![c] = @ \cup
           {[actor |-> actor, version |-> version, content |-> history[c][version]]}]
    /\ UNCHANGED <<history, sealed>>

Seal(c, actor) ==
    LET content == Last(history[c]) IN
    /\ sealed[c] = Unsealed
    /\ [actor |-> actor, version |-> Len(history[c]), content |-> content] \in previews[c]
    /\ sealed' = [sealed EXCEPT ![c] = [actor |-> actor, content |-> content]]
    /\ history' = [history EXCEPT ![c] = Append(@, content)]
    /\ UNCHANGED previews

Next ==
    \E c \in CaseIds :
        \/ \E content \in Contents : Edit(c, content)
        \/ \E actor \in Actors, version \in DOMAIN history[c] : Preview(c, actor, version)
        \/ \E actor \in Actors : Seal(c, actor)

Spec == Init /\ [][Next]_vars
=============================================================================
