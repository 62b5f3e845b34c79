------------------------------- MODULE Ledger -------------------------------
(***************************************************************************)
(* What the store promises its callers, files and failures left out: every *)
(* case is a list of changes that only grows, each change at its end and   *)
(* under a key of its own, and a key answers with the case as its change   *)
(* left it for ever after.  Store implements it (StoreProofs).             *)
(***************************************************************************)
EXTENDS Integers, Sequences

CONSTANTS
    CaseIds,
    Keys,       \* idempotency keys
    Changes,    \* what a command does to a case
    Unused      \* the answer of a key that was never used

VARIABLES
    history,    \* the changes of each case; its version is their number
    answers     \* what each key answers

vars == <<history, answers>>

Init ==
    /\ history = [c \in CaseIds |-> <<>>]
    /\ answers = [k \in Keys |-> Unused]

Apply(key, case, change) ==
    /\ answers[key] = Unused
    /\ history' = [history EXCEPT ![case] = Append(@, change)]
    /\ answers' = [answers EXCEPT ![key] = [case |-> case, result |-> history'[case]]]

Next ==
    \E key \in Keys, case \in CaseIds, change \in Changes : Apply(key, case, change)

Spec == Init /\ [][Next]_vars
=============================================================================
