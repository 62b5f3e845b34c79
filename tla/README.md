# A formal model of the oral-history release studio

The studio takes an interview from its transcript to a public release: an
organizer builds a *case* (a timeline of transcript segments and the consents
of the interviewee), freezes it, a reviewer has it checked and returns
findings, the organizer remediates, and a reviewer or release manager approves.
Approval seals a credential over exactly what was reviewed. Everything is one
Go process with a JSON snapshot on disk and an append-only audit mirror.

This directory holds TLA+ modules translated from `src/internal` and
`src/cmd/server`, TLC configurations that check them, and TLAPS proofs.

## Inventory

| Component | State | Operations | Talks to |
|---|---|---|---|
| release case (`domain/case.go`, `segments.go`, `consent.go`, `review.go`) | state, version, segments, consents, findings, revisions, credential | metadata, add / batch / update / delete segment, add / replace consent, freeze, set findings, return (one, batch), remediate, approve | called back by the store under its mutex |
| timeline (`ValidateTimeline`, `resequence`, the merge of `AddSegmentsBatch`) | none | validate, renumber | release case |
| consent coverage (`domain/coverage.go`) | none | status of each segment; gates freeze | release case, view |
| rule checker (`assurance/rules.go`) | none | check all or some segments, merge with earlier findings; gates approval | release case |
| digests and verification (`assurance/digest.go`) | none | seal, verify | approval, view |
| service (`application/service.go`, `commands.go`, `auth.go`) | none | one method per command: key, role, fingerprint, callback | store |
| approval (`application/approval.go`) | tokens, kept by the store | preview, approve | checker, digests, store |
| queries and view (`findings.go`, `view.go`) | none | filter findings, offered actions | store |
| store (`persistence/store.go`, `disk.go`, `audit.go`) | snapshot in memory, `snapshot.json`, `audit.jsonl` | open and recover, create, update, confirmations, commit | files |
| HTTP interface (`httpui`) | none | route, decode, render | service |
| browser page (`httpui/assets/app.js`) | the view a tab shows, the request it waits for | click, show an answer, recheck after a remediation | HTTP interface |
| server (`cmd/server`) | goroutines, channel of Serve's error, shutdown flag, self-check directory | configure, start, stop, self-check | store, HTTP |

Requests run concurrently, but the store's mutex is held from the lookup of the
idempotency key to the end of the commit, so most commands on cases are serial.
The exceptions are the approval preview and the approval, which read a copy of
the case first and take the mutex later. What is hard:

* long sequences of commands that are each legal: findings that close and
  reopen, several remediations before a recheck, consents supplemented in every
  state, timelines validated by comparing neighbours only;
* time: consents lapse between check and approval, the approval's clock is
  read before the mutex, dates and the preview's clock are truncated to the
  millisecond and the checker's is not;
* two readings of the same grants: the preview trims scopes and uses, the
  checker does not;
* failures: a snapshot write that fails before or after its rename, an append
  that fails half way, a process killed between two steps of a commit, a power
  failure that undoes what was not synced;
* retries: clients send a command again after any of these;
* stale copies: a preview is saved and an approval sealed from a case read
  before the mutex, a browser tab offers what the last answer offered;
* halves of one intention: a remediation and its recheck are two requests, a
  preview and its approval are two requests, a shutdown is a flag, a channel and
  a deadline in three goroutines.

`PROJECT.json` lists these as hazards, at their lines.

## Modules

| Module | Models |
|---|---|
| `Consents` | grants and time; the coverage preview and the checker's rules as operators, side by side |
| `Timeline` | validation by neighbours, resequencing, disjointness |
| `ReleaseCase` | the case: one action per command, each the whole callback the store runs, checker included |
| `CaseLifecycle` | abstract: edit an original, submit once, publish once |
| `ReleaseCaseRefinement` | the mapping from `ReleaseCase` to `CaseLifecycle` |
| `ConsentAgreement` | one segment, its grants and a running clock: how far preview and checker agree |
| `FindingQueries` | `ReleaseCase` with the filters of findings, and their trimming |
| `Roles` | `ReleaseCase` with the role that sends each command |
| `Workbench` | `ReleaseCase` behind browser tabs: the offers of a view, the buttons a tab enables, stale versions, lost answers, the recheck after a remediation |
| `Approval` | previews and approvals in handlers of their own over the store: early reads, tokens, expiry, other commands, failed commits, restarts |
| `Publication` | abstract: a case is edited until a version that was shown is sealed |
| `CredentialCheck` | verification of an approved case whose file was changed |
| `Store` | memory, snapshot file, audit mirror, keys; the steps of a commit; failures, crashes, opening |
| `Ledger` | abstract: cases that only grow, each change under a key of its own |
| `Server` | main, the goroutine that serves, the connections, signals and deadlines; the self-check |
| `MC...` | instances for TLC |
| `...Proofs` | theorems |

The abstractions are listed at the head of each module. The most important:

* slices with identified elements are sets; their order is either canonical
  (`sequence`, which is modelled) or never read. Revisions stay a sequence,
  because the code searches them from the end;
* a digest is the data it digests, a fingerprint the command;
* a string is a member of `Strings`, `strings.TrimSpace` a function on them, so
  padded and plain forms exist side by side;
* time is counted in ticks, `TicksPerMs` to the millisecond, and `domain.UTC`
  truncates. The clock never runs backwards;
* in `Store` a case is the sequence of its changes and its version their
  number: what a change does is `ReleaseCase`'s business, and whether the
  domain accepts it is left open;
* a command that is refused is no step. One refusal is: `ErrIdempotency`, which
  `Store` records because a property is about it.

`Approval` reduces a case to the contents of its versions, because what a
command does to them is `ReleaseCase`'s business, and a commit to its outcomes,
because its steps are `Store`'s. The composition is by these abstractions, not
by a product of the state machines: `Roles`, `Workbench` and `FindingQueries`
extend `ReleaseCase`, and `Approval` and `Store` meet in `commit`.

`Store` splits a commit at its fault points: `Begin` (clone, mutate, audit
entry, key), `WriteFails` or `Rename`, `SyncFails` or `Sync`, `AppendAudit` or
`AppendFails`. `disk` is the snapshot a restarted process reads, `durable` what
a power failure may put back, `synced` the number of mirror lines beyond loss.

## Runs

| Run | Configuration | What it shows |
|---|---|---|
| draft | `MCDraft` | three ids, 14 segment requests (touching, nested, overlapping, reversed, empty, negative, padded), batches up to 3: timelines stay disjoint and numbered in order, and the case implements `CaseLifecycle` |
| consent | `MCReview`, `MCConsent.cfg` | one restricted segment, a grant that lapses at tick 2 and one valid from 3, two ticks to the millisecond: approval is clean at the credential's time, sensitive text was returned and rewritten, credentials verify for good, text findings are closed by revisions only, nothing found is forgotten |
| review | `MCRoles`, `MCRoles.cfg` | two segments that break different rules, command by command and role by role: findings are unique, a step that opens or closes a finding leaves its segment with just the rules open that it breaks then (so targeted checks keep the findings of others), revisions form a trail that ends in the text, the original never changes, and no role publishes alone |
| agreement | `MCConsentAgreement` | every pair of grants over padded and plain scopes and uses: the checker is never looser than the preview, and where nothing is padded and the clock is on a millisecond the preview names the rule the check will break |
| store_crash | `MCStore`, `MCStore.cfg` | failing writes and appends with either killed processes or power failures: acknowledged commands stay, a key answers one command, the mirror holds nothing the snapshot does not, callers see a `Ledger`; and as long as appends do not fail, a process killed at any step leaves files the server opens |
| approval | `MCApproval`, `Approval.cfg` | two managers, a consent that lapses, other commands between, a failed commit or restart: a token is used with the approval it confirms or not at all, inside its life, the seal is over what is listed, a lost answer is repeated, and the whole implements `Publication` |
| workbench | `MCWorkbench` | two tabs, one lost answer: what a tab with the current version enables is accepted, and no remediation stays without recheck unless its user was told |
| credential | `MCCredentialCheck` | up to three changes to the file behind an approved case, of the present and the older format: the verdict is valid exactly if what is sealed is what is stored, and the statuses name the segments that changed |
| server | `Server` | two clients that may hang, a signal at any moment, a listener that may fail: status 0 means every request was answered, a failure is reported, a self-check that passes was answered in full and leaves its directory only behind a request of somebody else, and both end |

`ReleaseCase` is checked under three next-state relations: its own (draft,
consent), by role (review) and through tabs (workbench).

Three runs end in a violation on purpose, each a disagreement between the code
and what it says (`findings` in `PROJECT.json`):

* `recheck_order`: `annotateLatestRevision` annotates the latest revision *not
  yet rechecked*; remediate, remediate, recheck, recheck writes the second
  result on the first, superseded revision.
* `mirror_lost`: after a failed append the error says that the mirror awaits
  recovery (`store.go:257`), but a torn line, or a gap followed by the next
  commit's line, is refused by `readAuditLog` at every later start.
* `unnamed_retry`: a command that leaves the id to the service is fingerprinted
  with the random id, so its retry is refused as "used for a different command"
  (`errors.go:12`).

### Disagreements

Seven more configurations end in a violation when they are run by hand
(`tlc -config X.cfg M`). They are not among the listed runs:

| Configuration | Module | What the code does |
|---|---|---|
| `ConsentDates.cfg` | `MCReview` | `AddConsent` compares dates and truncates them afterwards, so "the expiry must be later than the start" (`consent.go:19`) does not hold of what is stored |
| `PreviewStale.cfg` | `MCApproval` | a preview looks at a fresh check and not at the recorded findings, so after a supplement it makes a list and a token while findings are open (`approval.go:55` says it cannot), and the approval is refused |
| `FullCheckOffer.cfg` | `MCWorkbench` | a case that a supplement took to remediation before its first full check is offered no full check (`view.go:26`), which every approval needs (`approval.go:51`) |
| `LegacyConsents.cfg` | `MCCredentialCheck` | the statuses of an older credential know the manifest only; when the consents changed, the verdict is invalid, all statuses are "passed", and the message sends the reader to them (`digest.go:143`) |
| `OpenUnsynced.cfg` | `MCStore` | `Open` reads a snapshot whose rename a killed process did not sync, acknowledges retries from it, and a power failure undoes the rename; `store_test.go:32` asks for the replay of what was acknowledged |
| `PaddedFilter.cfg` | `MCFindingQueries` | `AddSegment` stores an id as it came (`segments.go:113`) and `QueryFindings` trims its filter (`findings.go:40`), so a query for a padded id is refused as "does not exist in the current case" (`findings.go:56`) |
| `OrganizerChecks.cfg` | `MCRoles` | organizers may run the full check (`service.go:223`), which `src/README.md:45` gives to reviewers |

Three more pass by hand. `ApprovalCases.cfg` (`MCApproval`) has two cases alike
in content and version, and two faults, so that a restart may bring back a
commit that was answered as failed: a token approves its own case, once, and
the whole implements `Publication`. The liveness configurations
`ApprovalLive.cfg` and `StoreRetry.cfg` are described below.

### Bounds

`MaxVersion` and `MaxTime` stop `ReleaseCase`. Draft: version 10 allows three
segments to be added, moved, deleted and added again. Consent: version 12 is
enough to freeze, check, return, remediate twice, recheck twice and approve,
with supplements between; the clock crosses the end of one grant and the start
of the next, on and off a millisecond. Review: version 11 is enough for the same
with both segments added in a batch; the clock moves by one tick, as lapsing
consents are the consent run's. Agreement: two grants are enough because every
rule asks for one grant that satisfies it or for none.

Store: three commits begun and two crashes cover a failed commit, its retry and
a commit of another client with crashes in between. `FaultModels` keeps killed
processes and power failures in behaviours of their own, because together they
break `AckedSurvives` (`OpenUnsynced.cfg`), and has a behaviour without failing
appends, because these break `Reopenable` (`mirror_lost`).

Approval: two tokens, one for each manager or two for one; versions count from
the freeze, and three of them, with a case that starts in remediation as well,
let a supplement, a check, a return and a remediation overtake previews and
approvals; two moments are before and at the expiry of a token and the end of a
consent; one fault is a failed commit or a restart. A failed commit and a restart
are two: `ApprovalCases.cfg` has them, with two cases and fewer versions.

Workbench: two tabs, since what a tab cannot know is what one other did; one
lost request or answer; one segment, version 9, so that a remediation, its
recheck and a second one fit. Credential: two segments and room for a third, one
more than is sealed; three changes, so that one may hide another. Server: two
clients and three requests of the self-check, where the code has twelve that
differ in content only.

Tabs and managers are model values that are treated alike, so the workbench and
approval runs use symmetry; neither checks liveness. Elsewhere ids and keys are
strings that requests mention by name.

### Deadlock and fairness

The runs turn the deadlock check off: an approved case accepts no command,
versions and clock are bounded, a store whose files are refused stays down, and
a server stops.

`Server` is the one listed specification with fairness: weak fairness of main,
of the goroutine that runs Serve (the Go scheduler runs both) and of the timer
behind the shutdown deadline. Handlers, clients and signals get none, so
`Stops` holds although a handler may hang for ever, a kept-alive connection may
come back during the shutdown, and the signal may come before Serve has run. The
mutant without the deadline does not stop.

Two more liveness properties have premises that the code does not see to, and
are checked by hand. `ApprovedEventually` (`ApprovalLive.cfg`): managers who
preview and approve until they succeed do not invalidate each other's tokens for
ever; fair are the handlers and, as the premise, the managers.
`RetryEventuallyAnswered` (`StoreRetry.cfg`): a command the store has is answered
to a client that keeps retrying; weakly fair are the commit and the restart,
strongly the retry, because a Go mutex serves waiters in order when they starve.
It is checked without failing appends, after which the server may never start.
The other specifications are safety specifications, as users may stop at any time.

## Proofs

TLAPS checks, for every value of the constants (all strings and trimmings, any
length of the millisecond, any inputs and bounds, any number of segments, tabs,
managers, requests, faults and connections), that the specification of a run has
its properties. Every invariant of a passing run is a theorem, and so are the three action
properties and the three refinements; what is left to TLC is liveness.
TLC checked each inductive invariant before it was proved.

### Case

`ConsentsProofs` has the arithmetic of truncation, and that a segment clean at
time t is clean at the start of t's millisecond when the dates of grants are
truncated. From it `ConsentAgreementProofs` proves `CheckerIsNoLooser` (what
passes the checker passes the preview) and `PreviewPredicts` (where nothing is
padded, each answer of the preview names the rule the checker finds broken).

`ReleaseCaseProofs` first proves `TypeCorrect`, one lemma per command. It needs
that stored texts are trimmed and not blank, so this is part of `TypeOK`. Next
comes `TimelineNeverOverlaps`. `TimelineDisjoint` is not inductive: a batch
compares neighbours without looking at the times of old segments, so the
invariant `TimelineInv` adds that all segments are well timed. Behind it is
`NeighboursSuffice`, the lemma the code relies on: if every segment ends before
its successor in start order begins, no two overlap. The start order is handled
with the least element of a set of starts (`LeastNat`, by well-foundedness).

Then it has one inductive invariant, `ReviewInv`, for the properties of
review and approval, because they lean on each other:

* `ApprovedIsClean` looks at the credential's truncated time, so it needs
  `CleanAtMillisecond` and that all stored grants are truncated;
* `SensitiveWasReturned` holds because a clean sensitive segment has a
  disposition, a segment with a disposition has a revision (`RevisionTrail`),
  and a revision was told to (`ReturnedInv`). None of it is inductive without
  ids being unique (`Identified`) and findings being keyed by segment and rule;
* `TextFindingsClosedByRevision` needs `TextInv`: while a segment was not
  revised, its text still breaks the rule it was found to break;
* `SequenceIsTimelineOrder` needs `Numbered`, each number being one more than
  the count of earlier segments, from which `PlacesAreAll` gets all of 1 .. n;
* `FrozenIsPristine` needs `DraftInv`, and so does `OriginalProtected`.

`CredentialVerifies` and the action properties follow from the same invariant:
`OpenedByChecks` (`FindingsFollowRules`) needs that a segment has an id of its
own, so that what is broken under its id is what it breaks. And
`CaseIsLifecycle` maps each command to a step of `CaseLifecycle` (`StepKinds`,
then `StepIsLifecycle`) or to a stutter.

### Credential

`CredentialProofs` is about sorting. The code sorts segments stably by sequence,
then id; the model says which place that gives a segment, one more than the
number of segments `Before` it. `PlacesAreTaken` shows that this is a bijection
from a slice to 1 .. n: `Before` is a strict total order there because no two
segments have one position, so places differ, and n different places among
1 .. n are all of them. `SameItems` shows that two slices that look the same and
store no id twice are sealed the same, whatever the order they are stored in.

The invariant is small (`IInv`: rows stay in places of their own, and the
credential changes by losing sealed segments only). With it:

* `CredentialCoversCase` (`ValidIffIntact`). One direction reads the segments
  back from the manifest. The other needs `SameSizeMeansDistinct`: as many rows
  as approved that look the same set mean that no id is stored twice. Both rest
  on approved cases having no id twice, which `AddSegment` and
  `AddSegmentsBatch` refuse (`Identified`, a part of `ReviewInv`); with ids twice, {a, a, b} and {a, b, b} would look
  the same and be as many.
* `StatusesLocateChanges` (`StatusesNameWhatChanged`), through `SealedStatusOf`
  and `ChangedIds`.
* `FailureIsLocated` says where the message of an invalid credential, which
  sends the reader to the statuses, can be trusted: the credential is fully
  sealed, the case is in the version of the approval, and no id is stored
  twice. `LegacyConsents.cfg` shows that the first of these is needed.

### Users

`UserProofs` builds on `ReviewInv`.

* `NobodyAlone`: roles add which role must have acted for a state, a revision or
  a returned finding to be there (`RolesInv`).
* `TabsAreTyped`, `ButtonsWork` and `RecheckOrTold`: what a tab shows is of a
  version the case had, and if that is the current one it offers what the case
  allows (`KnownView`; commands count versions, ticks change a freeze only). For
  the recheck, `OwnedInv` names the tab a revision belongs to by the version its
  remediation was answered with, `BusyInv` says that a tab that is about to
  recheck sends that version, and `SubmitInv` that revisions are submitted one
  version after another. So a recheck the server accepts is of the last
  revision, which is the one `annotateLatestRevision` finds. Without
  `SubmitInv` the recheck could go to an earlier revision, as in `recheck_order`.
  The run has one segment and two tabs, the theorem any number of both.

### Store

`StoreProofs`. Between commits the disk is at most one commit ahead of memory
(`DiskInv`: an update that failed after the rename), and while no process is
killed a power failure brings back what is served or what was just synced
(`DurableInv`). What is served holds what its keys record and what was told to
clients (`ServedInv`, `ToldInv`), and the mirror's lines are entries of the
audit trail (`MirrorInv`), all of them while appends do not fail (`CompleteInv`).

* `AcknowledgedIsKept`, `MirrorNeverLeads`, `KeyIsOneCommand` and
  `StoreIsLedger` say `OneKindOfCrash`: killed processes or power failures, not
  both. It is not there for the proofs' sake: without it the first fails,
  because opening does not sync the directory (`OpenUnsynced.cfg`). The run's
  `FaultModels` draw the same line.
* `KeyIsOneCommand` proves of all requests that a key has one result, and
  `KeyAnswersOneCommand` as the run has it where every request names its id
  (`Unnamed = {}`); for the others it is false (`unnamed_retry`).
* `KilledIsReopenable` needs no premise of its own, as `CrashReopenable` has it.

### Approval

`ApprovalProofs`. Every change of memory is one of three commits: another
command, a saved token, an approval (`CommitOf`); disk is memory or one commit
ahead. `TokensInv` and `SealedInv` are proved of a snapshot and kept by each
commit, so they hold of memory and disk alike, through failures and restarts.
The handlers' stale copies are tied to memory by what cannot change any more: a
version once in the history of a case stays there (`PreviewOf`), and a token
once shown stays known (`ApprovingOf`), so a clock read early is still after the
token was issued. From this follow `TokenUsedOnce`, `WithinLifetime`,
`SealedIsListed`, `RetryAnswered` and the refinement `ApprovalIsPublication`.

### Server

`ServerProofs`: `TypeCorrect`, `StopsClean` (`AnswersBeforeExit`),
`FailureReported` and `PassIsClean` (`PassLeavesNoTrace`). The invariant says what lies behind
a clean stop: before Start nothing serves, Shutdown has been called from the
moment main left the select, what is in the channel is how Serve ended, a
failure stays there until main takes it, and behind a Shutdown that succeeded
no connection is left and none can come, because the listener is closed. The
type invariant needs that the request the self-check waits for is one of its
steps, and so does `PassIsClean`: behind a verdict of "ok" the self-check's own
connection is at rest and stays so (`VerdictInv`), and what keeps a directory is
a handler still at work when the process ends (`LeftInv`). A directory may stay
behind: `Shutdown` gives up after two seconds and `RemoveAll`'s error is thrown
away, so a self-check that failed may leave what its own request wrote.

### Assumptions

TLC evaluates them in the runs:

* `CredentialCheckAssumption`: ids and positions are numbers, a case is approved
  with finitely many segments, none with the id or the position of another;
* `StringsAssumption`: trimming is idempotent and leaves the empty string and
  `*` alone; `ClockAssumption`: a millisecond has a positive number of ticks;
* `InputsAssumption`, `AgreementAssumption`, `StoreAssumption`,
  `ApprovalAssumption`: inputs and bounds have their types, grants of
  `ConsentAgreement` are stored with truncated dates;
* `ServerAssumption`: the self-check's connection is none of the clients';
* `LostAssumption`: `MaxLost` is a number;
* `CredentialAssumption`, and `ValuesAssumption` of `Store` and `Approval`: the
  values that stand for nil, for no record and for a torn line are none of the
  values they stand beside.

### Model-checked only

* Liveness: `Stops`, and the two properties checked by hand.
* What the configurations that are run by hand show.

## Not modelled

* Titles, notes, names of actors, events and labels of time. An actor is a role.
* Routing, decoding and status codes of `httpui`: they keep no state. The
  version an error answer carries is read after the command failed and used by
  nobody.
* The resolution of the server's address, a function of strings.
* `net/http` and the file system, which are modelled by what they document.
* A tab of the page that waits for an answer sends nothing else, where the code
  leaves buttons outside the dialog enabled; and a tab that is closed between a
  remediation and its recheck counts as one about to send it.
* The statistics of a query: counts of what it matched.
* The consent id and the orphan scopes that the coverage preview shows.
* Filters by severity (every finding is a blocker) and the order of results. A
  single segment may be stored with a tag that the batch and the tag filter
  refuse; tags are taken from the valid ones.
* Lines of the mirror too long for their reader; two processes on one directory.
* In `Approval` a request whose client goes away before the mutex is a failed
  commit. The expiry is compared with a clock read before the mutex, as in the
  code, so by a clock on the wall an approval may commit after it.

## Plan

The models and theorems planned are there. What would add to them: `Approval`
over the steps of `Store`'s commit instead of its outcomes, so that one theorem
covers a power failure between a preview and its approval.
