------------------------------ MODULE Approval ------------------------------
(***************************************************************************)
(* application/approval.go over persistence.Store: release managers        *)
(* preview a case and approve what they were shown, each in a handler      *)
(* thread of its own, while the case is changed by other commands, time    *)
(* passes, commits fail and the server restarts.                           *)
(*                                                                         *)
(* A preview reads a copy of the case and releases the store's mutex,      *)
(* checks the copy, stamps the expiry, and takes the mutex again to save   *)
(* the token.  An approval reads a copy for its digests, then the clock,   *)
(* and takes the mutex for everything else.  What happens under the mutex  *)
(* is one step.                                                            *)
(*                                                                         *)
(* Abstractions.                                                           *)
(*   - A case is the sequence of the contents of its versions: its         *)
(*     manifest (segments, texts, dispositions) and its consents.  A       *)
(*     digest is what it digests.                                          *)
(*   - The checker passes a safe manifest while its consents last.  The    *)
(*     case is frozen or in remediation from the start: the commands that  *)
(*     change it here are those of ReleaseCase in these states, reduced to *)
(*     what they do to manifest, consents and findings.                    *)
(*   - The steps of a commit are in Store; here it succeeds or fails, and  *)
(*     a crash is followed by the restart.                                 *)
(*   - Errors are one reply, "refused", unless a property tells them       *)
(*     apart; a command refused before it has any effect is no step.       *)
(***************************************************************************)
EXTENDS Integers, Sequences, SequencesExt, FiniteSets

CONSTANTS
    CaseIds,
    Managers,       \* sessions of actors who preview and approve
    Keys,           \* idempotency keys of approvals
    Manifests,
    Safe,           \* the manifests that break no text rule
    Until,          \* the consents, and the last time each covers
    Returned,       \* what a case may hold that is in remediation from the start
    Lifetime,       \* of a token
    MaxTokens,      \* bound: tokens made
    MaxVersion,     \* bound: versions reached by other commands
    MaxTime,        \* bound: the clock
    MaxFaults,      \* bound: failed commits and crashes
    None

ConsentSets == DOMAIN Until
Tokens == 1 .. MaxTokens

ASSUME ApprovalAssumption ==
    /\ Safe \subseteq Manifests
    /\ Until \in [ConsentSets -> Nat]
    /\ Returned \subseteq [manifest : Manifests, consents : ConsentSets]
    /\ Lifetime \in Nat \ {0}
    /\ MaxTokens \in Nat /\ MaxVersion \in Nat /\ MaxTime \in Nat /\ MaxFaults \in Nat
    /\ None \notin CaseIds \cup Managers \cup Keys \cup Nat

VARIABLES
    mem,        \* s.data
    disk,       \* snapshot.json
    now,        \* the clock
    issued,     \* tokens made so far; newID never makes one twice
    shown,      \* tokens clients know: those of the previews they got
    session,    \* the request each manager's handler is serving, or its reply
    faults      \* failed commits and crashes so far

vars == <<mem, disk, now, issued, shown, session, faults>>

Content == [manifest : Manifests, consents : ConsentSets]

(* What a manager sends; a preview has no token and no key. *)
Request == [case : CaseIds, token : Tokens \cup {None}, expected : Nat \ {0},
            key : Keys \cup {None}]

Confirmation == [case : CaseIds, expected : Nat \ {0}, actor : Managers,
                 content : Content, expires : Nat, used : Nat \cup {None}]

(* content is what the two digests seal, segments what the credential      *)
(* lists.                                                                  *)
Credential == [content : Content, segments : Manifests, version : Nat,
               by : Managers, at : Nat]

Case == [contents : Seq(Content), checked : BOOLEAN,
         findings : {"none", "open", "returned"}, credential : Credential \cup {None}]

Snapshot == [cases : [CaseIds -> Case],
             tokens : [Tokens -> Confirmation \cup {None}],
             keys : [Keys -> [request : Request, actor : Managers] \cup {None}]]

(* What stands for nothing is none of these. *)
ASSUME ValuesAssumption ==
    None \notin Request /\ None \notin Confirmation /\ None \notin Credential /\ None \notin Case

Session == [pc : {"idle", "previewing", "saving", "approving", "stamped"},
            request : Request \cup {None},
            candidate : Case \cup {None},
            clock : Nat,
            reply : {"none", "shown", "approved", "refused", "failed"}]

TypeOK ==
    /\ mem \in Snapshot /\ disk \in Snapshot
    /\ now \in 0 .. MaxTime
    /\ issued \in 0 .. MaxTokens
    /\ shown \subseteq 1 .. issued
    /\ session \in [Managers -> Session]
    /\ faults \in 0 .. MaxFaults

Version(case) == Len(case.contents)
Passes(content, time) == content.manifest \in Safe /\ time <= Until[content.consents]

Waiting == [pc |-> "idle", request |-> None, candidate |-> None, clock |-> 0,
            reply |-> "none"]

Started(content, returned) ==
    [contents |-> <<content>>, checked |-> returned,
     findings |-> IF returned THEN "returned" ELSE "none", credential |-> None]

(* A case is just frozen, or was checked and returned.                     *)
Init ==
    /\ \E case \in {Started(content, FALSE) : content \in Content}
                   \cup {Started(content, TRUE) : content \in Returned} :
           mem = [cases |-> [c \in CaseIds |-> case],
                  tokens |-> [t \in Tokens |-> None],
                  keys |-> [k \in Keys |-> None]]
    /\ disk = mem
    /\ now = 0 /\ issued = 0 /\ shown = {} /\ faults = 0
    /\ session = [m \in Managers |-> Waiting]

-----------------------------------------------------------------------------
(* Commits *)

Commits(next) == mem' = next /\ disk' = next /\ UNCHANGED faults

(* writeSnapshot fails before or after the rename; or the append to the    *)
(* audit mirror fails, which only a commit with an audit entry tries.      *)
CommitFails(next, audited) ==
    /\ faults < MaxFaults
    /\ faults' = faults + 1
    /\ \/ disk' \in {disk, next} /\ UNCHANGED mem
       \/ audited /\ mem' = next /\ disk' = next

(* The process ends and starts again with what is on disk. *)
Crash ==
    /\ faults < MaxFaults
    /\ faults' = faults + 1
    /\ mem' = disk
    /\ session' = [m \in Managers |-> Waiting]
    /\ UNCHANGED <<disk, now, issued, shown>>

-----------------------------------------------------------------------------
(* The other commands *)

Change(c, content, checked, findings) ==
    LET case == mem.cases[c]
        next == [mem EXCEPT !.cases[c] =
                    [contents |-> Append(case.contents, content), checked |-> checked,
                     findings |-> findings, credential |-> case.credential]]
    IN  /\ case.credential = None
        /\ Version(case) < MaxVersion
        /\ Commits(next) \/ CommitFails(next, TRUE)
        /\ UNCHANGED <<now, issued, shown, session>>

(* AddConsent *)
Supplement(c, consents) ==
    LET case == mem.cases[c]
    IN  Change(c, [Last(case.contents) EXCEPT !.consents = consents], case.checked, case.findings)

(* A full check, or one of some segments, which may leave the findings of  *)
(* others as they are.                                                     *)
RunChecks(c, full) ==
    LET case == mem.cases[c]
        content == Last(case.contents)
        found == IF Passes(content, now) THEN "none"
                 ELSE IF case.findings = "returned" THEN "returned" ELSE "open"
    IN  \E findings \in IF full THEN {found} ELSE {found, case.findings} :
            Change(c, content, full \/ case.checked, findings)

ReturnFinding(c) ==
    LET case == mem.cases[c]
    IN  /\ case.findings # "none"
        /\ Change(c, Last(case.contents), case.checked, "returned")

Remediate(c, manifest) ==
    LET case == mem.cases[c]
    IN  /\ case.findings = "returned"
        /\ Change(c, [Last(case.contents) EXCEPT !.manifest = manifest],
                  case.checked, case.findings)

-----------------------------------------------------------------------------
(* PreviewApproval *)

Reply(m, reply) ==
    session' = [session EXCEPT ![m] =
                   [Waiting EXCEPT !.request = session[m].request, !.reply = reply]]

PreviewGet(m, c) ==
    LET case == mem.cases[c] IN
    /\ session[m].pc = "idle"
    /\ case.credential = None
    /\ case.checked
    /\ session' = [session EXCEPT ![m] =
           [pc |-> "previewing",
            request |-> [case |-> c, token |-> None, expected |-> Version(case), key |-> None],
            candidate |-> case, clock |-> now, reply |-> "none"]]
    /\ UNCHANGED <<mem, disk, now, issued, shown, faults>>

(* The check reads the clock once, the expiry a second time. *)
PreviewIssue(m) ==
    LET s == session[m] IN
    /\ s.pc = "previewing"
    /\ \E time \in s.clock .. now : Passes(Last(s.candidate.contents), time)
    /\ issued < MaxTokens
    /\ issued' = issued + 1
    /\ session' = [session EXCEPT ![m].pc = "saving", ![m].clock = now,
                                  ![m].request.token = issued']
    /\ UNCHANGED <<mem, disk, now, shown, faults>>

PreviewRefuse(m) ==
    LET s == session[m] IN
    /\ s.pc = "previewing"
    /\ ~Passes(Last(s.candidate.contents), now)
    /\ Reply(m, "refused")
    /\ UNCHANGED <<mem, disk, now, issued, shown, faults>>

(* Mutant: the lifetime is subtracted. *)
Confirmed_Backwards(m) ==
    LET s == session[m]
    IN  [case |-> s.request.case, expected |-> s.request.expected, actor |-> m,
         content |-> Last(s.candidate.contents), expires |-> s.clock - Lifetime,
         used |-> None]

Confirmed(m) ==
    LET s == session[m]
    IN  [case |-> s.request.case, expected |-> s.request.expected, actor |-> m,
         content |-> Last(s.candidate.contents), expires |-> s.clock + Lifetime,
         used |-> None]

(* Mutant: the copy of the case read before is saved with the token. *)
PreviewSave_WritesCandidate(m) ==
    LET s == session[m]
        next == [mem EXCEPT !.tokens[s.request.token] = Confirmed(m),
                            !.cases[s.request.case] = s.candidate]
    IN  /\ s.pc = "saving"
        /\ \/ /\ Commits(next)
              /\ shown' = shown \cup {s.request.token}
              /\ Reply(m, "shown")
           \/ /\ CommitFails(next, FALSE)
              /\ Reply(m, "failed")
              /\ UNCHANGED shown
        /\ UNCHANGED <<now, issued>>

(* SaveApprovalConfirmation: no audit entry and no new version. *)
PreviewSave(m) ==
    LET token == session[m].request.token
        next == [mem EXCEPT !.tokens[token] = Confirmed(m)]
    IN  /\ session[m].pc = "saving"
        /\ \/ /\ Commits(next)
              /\ shown' = shown \cup {token}
              /\ Reply(m, "shown")
           \/ /\ CommitFails(next, FALSE)
              /\ Reply(m, "failed")
              /\ UNCHANGED shown
        /\ UNCHANGED <<now, issued>>

-----------------------------------------------------------------------------
(* approveWithConfirmation *)

ApproveGet(m, request) ==
    /\ session[m].pc = "idle"
    /\ request.token \in shown
    /\ session' = [session EXCEPT ![m] =
           [pc |-> "approving", request |-> request,
            candidate |-> mem.cases[request.case], clock |-> now, reply |-> "none"]]
    /\ UNCHANGED <<mem, disk, now, issued, shown, faults>>

(* now := s.now(), before the mutex is waited for. *)
ApproveStamp(m) ==
    /\ session[m].pc = "approving"
    /\ session' = [session EXCEPT ![m].pc = "stamped", ![m].clock = now]
    /\ UNCHANGED <<mem, disk, now, issued, shown, faults>>

Recorded(m) == mem.keys[session[m].request.key] = [request |-> session[m].request, actor |-> m]

(* Mutant: a token is still good at the time it expires. *)
TokenValid_AtExpiry(m) ==
    LET s == session[m]
        stored == mem.tokens[s.request.token]
    IN  /\ stored # None
        /\ stored.used = None
        /\ s.clock <= stored.expires
        /\ stored.case = s.request.case
        /\ stored.expected = s.request.expected
        /\ stored.actor = m
        /\ stored.content = Last(s.candidate.contents)

(* The token can be used by this request, at the time it read. *)
TokenValid(m) ==
    LET s == session[m]
        stored == mem.tokens[s.request.token]
    IN  /\ stored # None
        /\ stored.used = None
        /\ s.clock < stored.expires
        /\ stored.case = s.request.case
        /\ stored.expected = s.request.expected
        /\ stored.actor = m
        /\ stored.content = Last(s.candidate.contents)

(* The callback: the fresh case passes a fresh check, and Approve takes    *)
(* it.                                                                     *)
Approvable(case, time) ==
    /\ Passes(Last(case.contents), time)
    /\ case.credential = None
    /\ case.findings = "none"
    /\ case.checked

(* The snapshot with the case approved and the token used up. *)
Approved(m) ==
    LET s == session[m]
        case == mem.cases[s.request.case]
        content == Last(case.contents)
    IN  [mem EXCEPT
            !.cases[s.request.case].contents = Append(@, content),
            !.cases[s.request.case].credential =
                [content |-> Last(s.candidate.contents), segments |-> content.manifest,
                 version |-> Version(case) + 1, by |-> m, at |-> s.clock],
            !.tokens[s.request.token].used = s.clock,
            !.keys[s.request.key] = [request |-> s.request, actor |-> m]]

(* Mutant: the version of the case under the mutex is not compared. *)
Admitted_TrustsToken(m) ==
    LET r == session[m].request IN
    /\ mem.keys[r.key] = None
    /\ TokenValid(m)
    /\ Approvable(mem.cases[r.case], session[m].clock)

Admitted(m) ==
    LET r == session[m].request IN
    /\ mem.keys[r.key] = None
    /\ TokenValid(m)
    /\ Version(mem.cases[r.case]) = r.expected
    /\ Approvable(mem.cases[r.case], session[m].clock)

(* Mutant: the use is marked in memory, after the commit. *)
Approve_MarksInMemory(m) ==
    /\ session[m].pc = "stamped"
    /\ Admitted(m)
    /\ \/ /\ mem' = Approved(m)
          /\ disk' = [Approved(m) EXCEPT !.tokens[session[m].request.token].used = None]
          /\ Reply(m, "approved")
          /\ UNCHANGED faults
       \/ CommitFails(Approved(m), TRUE) /\ Reply(m, "failed")
    /\ UNCHANGED <<now, issued, shown>>

Approve(m) ==
    /\ session[m].pc = "stamped"
    /\ Admitted(m)
    /\ \/ Commits(Approved(m)) /\ Reply(m, "approved")
       \/ CommitFails(Approved(m), TRUE) /\ Reply(m, "failed")
    /\ UNCHANGED <<now, issued, shown>>

ApproveReplay(m) ==
    /\ session[m].pc = "stamped"
    /\ Recorded(m)
    /\ Reply(m, "approved")
    /\ UNCHANGED <<mem, disk, now, issued, shown, faults>>

(* Mutant: the token is looked at before the key. *)
ApproveRefuse_TokenFirst(m) ==
    /\ session[m].pc = "stamped"
    /\ ~TokenValid(m)
    /\ Reply(m, "refused")
    /\ UNCHANGED <<mem, disk, now, issued, shown, faults>>

ApproveRefuse(m) ==
    /\ session[m].pc = "stamped"
    /\ ~Recorded(m)
    /\ ~Admitted(m)
    /\ Reply(m, "refused")
    /\ UNCHANGED <<mem, disk, now, issued, shown, faults>>

-----------------------------------------------------------------------------
Tick ==
    /\ now < MaxTime
    /\ now' = now + 1
    /\ UNCHANGED <<mem, disk, issued, shown, session, faults>>

Handler(m) ==
    \/ PreviewIssue(m)
    \/ PreviewRefuse(m)
    \/ PreviewSave(m)
    \/ ApproveStamp(m)
    \/ Approve(m)
    \/ ApproveReplay(m)
    \/ ApproveRefuse(m)

Others ==
    \/ \E c \in CaseIds :
          \/ \E consents \in ConsentSets : Supplement(c, consents)
          \/ \E full \in BOOLEAN : RunChecks(c, full)
          \/ ReturnFinding(c)
          \/ \E manifest \in Manifests : Remediate(c, manifest)
    \/ Crash
    \/ Tick

(* Clients send any token they know, with any version and key. *)
Requests == [case : CaseIds, token : shown, expected : 1 .. MaxVersion, key : Keys]

Next ==
    \/ \E m \in Managers :
          \/ \E c \in CaseIds : PreviewGet(m, c)
          \/ \E request \in Requests : ApproveGet(m, request)
          \/ Handler(m)
    \/ Others

Spec == Init /\ [][Next]_vars

-----------------------------------------------------------------------------
(* Managers who do not give up: as the workbench does, they approve with   *)
(* the token they were just shown, and preview again after any other       *)
(* answer than an approval.                                                *)

Persist(m) ==
    LET s == session[m] IN
    \/ s.reply = "shown" /\ ApproveGet(m, [s.request EXCEPT !.key = s.request.token])
    \/ s.reply \in {"none", "refused", "failed"} /\ \E c \in CaseIds : PreviewGet(m, c)

PersistentNext == (\E m \in Managers : Persist(m) \/ Handler(m)) \/ Others

(* The Go scheduler runs every handler, and a mutex does not starve a      *)
(* waiter.  That managers persist is the premise of the liveness property  *)
(* and nothing the code sees to.                                           *)
PersistentSpec ==
    /\ Init /\ [][PersistentNext]_vars
    /\ \A m \in Managers : WF_vars(Handler(m)) /\ WF_vars(Persist(m))

-----------------------------------------------------------------------------
(* A token is used once, and its use and the approval are one commit: in   *)
(* memory and on disk, whatever failed or crashed, a case is approved      *)
(* exactly when one of its tokens is used, and that token is of the        *)
(* version that was approved (README.md:49, store.go:229).                 *)
UsedWithApproval ==
    \A s \in {mem, disk}, c \in CaseIds :
        LET used == {t \in Tokens : /\ s.tokens[t] # None
                                    /\ s.tokens[t].case = c
                                    /\ s.tokens[t].used # None}
            k == s.cases[c].credential
        IN  /\ Cardinality(used) = IF k = None THEN 0 ELSE 1
            /\ \A t \in used : s.tokens[t].expected + 1 = k.version /\ s.tokens[t].used = k.at

(* The time a credential bears is one at which its token had been issued   *)
(* and had not expired, although the clock is read before the mutex is     *)
(* waited for (approval.go:96, store.go:204).                              *)
ApprovedWithinLifetime ==
    \A s \in {mem, disk}, t \in Tokens :
        LET token == s.tokens[t] IN
        token # None /\ token.used # None =>
            token.used \in token.expires - Lifetime .. token.expires - 1

(* What the credential lists, what its digests seal and what the approved  *)
(* case holds agree, though the digests are taken from a copy read before  *)
(* the mutex and the list from the case under it (approval.go:84, 103).    *)
SealsWhatItLists ==
    \A s \in {mem, disk}, c \in CaseIds :
        LET k == s.cases[c].credential IN
        k # None =>
            /\ k.segments = k.content.manifest
            /\ k.content = Last(s.cases[c].contents)
            /\ k.version = Version(s.cases[c])

(* A manager whose approval is recorded under its key, the answer having   *)
(* got lost, is never told anything else than that it was approved: the    *)
(* key is looked at before the token, which is used by then (store.go:191, *)
(* 202).                                                                   *)
RetryIsAnswered ==
    \A m \in Managers :
        session[m].reply = "refused" /\ session[m].request.key # None => ~Recorded(m)

Promise == INSTANCE Publication
    WITH Actors <- Managers, Contents <- Content, Unsealed <- None,
         history <- [c \in CaseIds |-> mem.cases[c].contents],
         previews <- [c \in CaseIds |->
             {[actor |-> mem.tokens[t].actor, version |-> mem.tokens[t].expected,
               content |-> mem.tokens[t].content] :
                 t \in {u \in Tokens : mem.tokens[u] # None /\ mem.tokens[u].case = c}}],
         sealed <- [c \in CaseIds |->
             IF mem.cases[c].credential = None THEN None
             ELSE [actor |-> mem.cases[c].credential.by,
                   content |-> mem.cases[c].credential.content]]

(* Previewing and approving in threads, through stale copies, failed       *)
(* commits and restarts, publish exactly a version that its approver was   *)
(* shown, once and for good.                                               *)
ImplementsPublication == Promise!Spec

Ready(c) ==
    /\ mem.cases[c].checked
    /\ mem.cases[c].findings = "none"
    /\ Passes(Last(mem.cases[c].contents), now)

(* If every case stays ready for approval, and managers persist, every     *)
(* case is approved in the end: managers who preview one case at a time    *)
(* do not invalidate each other's tokens for ever, and a failed commit or  *)
(* a restart leaves nothing behind that blocks the next attempt.           *)
ApprovedEventually ==
    \A c \in CaseIds : (<>[]Ready(c)) => <>(mem.cases[c].credential # None)

(* The message of the check before a preview (approval.go:55): "there are  *)
(* blockers that are not closed, the approval list cannot be made".        *)
PreviewedWithoutOpenBlocker ==
    \A m \in Managers : session[m].pc = "saving" => session[m].candidate.findings = "none"
=============================================================================
