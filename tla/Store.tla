------------------------------- MODULE Store -------------------------------
(***************************************************************************)
(* persistence.Store: the snapshot in memory, the snapshot file that is    *)
(* replaced by a rename, the append-only audit mirror, and idempotency     *)
(* keys, through failing writes, killed processes, power failures and      *)
(* restarts.                                                               *)
(*                                                                         *)
(* The store's mutex is held for a whole command, so at most one commit is *)
(* under way and pc says how far it got; what can come between its steps   *)
(* is a crash.  A request may be sent any number of times at any moment,   *)
(* whatever became of it before: clients retry.                            *)
(*                                                                         *)
(* Abstractions.                                                           *)
(*   - A case is the sequence of the changes made to it; its version is    *)
(*     their number (bump).  The domain may refuse any change: then the    *)
(*     command is no step.                                                 *)
(*   - A fingerprint is the command it digests.                            *)
(*   - An audit entry's hash is the number of the attempt that made it:    *)
(*     the entry carries the time, so two attempts differ.                 *)
(*   - A line the append left incomplete is Torn; what is appended to it   *)
(*     does not make it readable.                                          *)
(*   - Approval confirmations, in the same snapshot, are left out.         *)
(***************************************************************************)
EXTENDS Integers, Sequences, SequencesExt

CONSTANTS
    CaseIds,
    Keys,           \* idempotency keys
    Bodies,         \* what a command asks for, its action included
    Unnamed,        \* the bodies that leave the choice of an id to the service
    Requests,       \* the requests clients send
    FaultModels,    \* what may fail: sets of "write", "append", "crash", "power"
    MaxAttempts,    \* bound: commits begun
    MaxCrashes,     \* bound: crashes
    NoCase,         \* a creation names no case
    NoRecord,       \* no idempotency record
    Torn            \* an incomplete line of the audit mirror

Request == [case : CaseIds \cup {NoCase}, key : Keys, body : Bodies,
            expected : Nat]

ASSUME StoreAssumption ==
    /\ NoCase \notin CaseIds
    /\ Unnamed \subseteq Bodies
    /\ Requests \subseteq Request
    /\ \A r \in Requests : r.case = NoCase => r.expected = 0
    /\ FaultModels \subseteq SUBSET {"write", "append", "crash", "power"}
    /\ MaxAttempts \in Nat /\ MaxCrashes \in Nat

VARIABLES
    faults,     \* what may fail in this behaviour
    mem,        \* s.data
    disk,       \* snapshot.json as the file system shows it
    durable,    \* snapshot.json as a power failure may leave it
    mirror,     \* the lines of audit.jsonl
    synced,     \* how many of them are sure to survive a power failure
    pc,         \* how far the commit under way got, or "idle" or "down"
    next,       \* the snapshot being committed
    request,    \* the request being committed
    attempts,   \* commits begun
    crashes,    \* crashes so far
    acked,      \* what clients were told: requests and their results
    refused     \* requests refused with ErrIdempotency

files == <<disk, durable, mirror, synced>>
told  == <<acked, refused>>
vars  == <<faults, mem, files, pc, next, request, attempts, crashes, told>>

Change == [key : Keys, body : Bodies]

(* What the fingerprint digests: the command with its expected version,    *)
(* and an id the service chose (0: none).                                  *)
Fingerprint == [body : Bodies, expected : Nat, id : Nat]

Record == [fingerprint : Fingerprint, case : CaseIds, result : Seq(Change)]

Entry == [sequence : Nat \ {0}, previous : Nat, hash : Nat \ {0},
          case : CaseIds, version : Nat]

Snapshot == [cases : [CaseIds -> Seq(Change)],
             keys : [Keys -> Record \cup {NoRecord}],
             audit : Seq(Entry)]

(* What stands for no record and for an incomplete line is neither. *)
ASSUME ValuesAssumption == NoRecord \notin Record /\ Torn \notin Entry

Empty == [cases |-> [c \in CaseIds |-> <<>>],
          keys |-> [k \in Keys |-> NoRecord],
          audit |-> <<>>]

Answer == [request : Request, case : CaseIds, result : Seq(Change)]

TypeOK ==
    /\ faults \in FaultModels
    /\ mem \in Snapshot /\ disk \in Snapshot /\ durable \in Snapshot
    /\ mirror \in Seq(Entry \cup {Torn})
    /\ synced \in 0 .. Len(mirror)
    /\ pc \in {"down", "idle", "writing", "renamed", "synced"}
    /\ next \in Snapshot
    /\ request \in Request \cup {NoRecord}
    /\ attempts \in Nat /\ crashes \in Nat
    /\ acked \in SUBSET Answer
    /\ refused \in SUBSET Request

Init ==
    /\ faults \in FaultModels
    /\ mem = Empty /\ disk = Empty /\ durable = Empty
    /\ mirror = <<>> /\ synced = 0
    /\ pc = "down"
    /\ next = Empty /\ request = NoRecord
    /\ attempts = 0 /\ crashes = 0
    /\ acked = {} /\ refused = {}

-----------------------------------------------------------------------------
(* The audit chain *)

(* validateAudit *)
Chained(lines) ==
    /\ Torn \notin ToSet(lines)
    /\ \A i \in DOMAIN lines :
        /\ lines[i].sequence = i
        /\ lines[i].previous = IF i = 1 THEN 0 ELSE lines[i - 1].hash

(* Mutant: the sequence numbers start at 0. *)
NextAudit_FromZero(audit, case, version) ==
    [sequence |-> Len(audit), previous |-> IF audit = <<>> THEN 0 ELSE Last(audit).hash,
     hash |-> attempts + 1, case |-> case, version |-> version]

NextAudit(audit, case, version) ==
    [sequence |-> Len(audit) + 1,
     previous |-> IF audit = <<>> THEN 0 ELSE Last(audit).hash,
     hash |-> attempts + 1, case |-> case, version |-> version]

(* What an append of entries leaves that fails half way: some lines whole, *)
(* and perhaps the beginning of the next.                                  *)
PartlyAppended(lines, entries) ==
    UNION {{lines \o SubSeq(entries, 1, n), Append(lines \o SubSeq(entries, 1, n), Torn)} :
               n \in 0 .. Len(entries)}

-----------------------------------------------------------------------------
(* Opening *)

(* What recoverAuditLog accepts: a chain that is a prefix of the           *)
(* snapshot's.                                                             *)
MirrorAccepted ==
    /\ Chained(mirror)
    /\ Len(mirror) <= Len(disk.audit)
    /\ \A i \in DOMAIN mirror : mirror[i].hash = disk.audit[i].hash

Missing == SubSeq(disk.audit, Len(mirror) + 1, Len(disk.audit))

(* Mutant: the snapshot loads without its idempotency records. *)
Open_ForgetsKeys ==
    /\ pc = "down"
    /\ Chained(disk.audit) /\ MirrorAccepted
    /\ mirror' = mirror \o Missing
    /\ synced' = IF Missing = <<>> THEN synced ELSE Len(mirror')
    /\ mem' = [disk EXCEPT !.keys = [k \in Keys |-> NoRecord]]
    /\ pc' = "idle"
    /\ UNCHANGED <<faults, disk, durable, next, request, attempts, crashes, told>>

(* Mutant: the mirror is compared and not completed. *)
Open_SkipsRecovery ==
    /\ pc = "down"
    /\ Chained(disk.audit) /\ MirrorAccepted
    /\ mem' = disk
    /\ pc' = "idle"
    /\ UNCHANGED <<faults, files, next, request, attempts, crashes, told>>

Open ==
    /\ pc = "down"
    /\ Chained(disk.audit) /\ MirrorAccepted
    /\ mirror' = mirror \o Missing
    /\ synced' = IF Missing = <<>> THEN synced ELSE Len(mirror')
    /\ mem' = disk
    /\ pc' = "idle"
    /\ UNCHANGED <<faults, disk, durable, next, request, attempts, crashes, told>>

(* The append of what the mirror misses fails, and the server does not     *)
(* start.                                                                  *)
OpenFails ==
    /\ "append" \in faults
    /\ pc = "down"
    /\ Chained(disk.audit) /\ MirrorAccepted
    /\ Missing # <<>>
    /\ mirror' \in PartlyAppended(mirror, Missing)
    /\ UNCHANGED <<faults, mem, disk, durable, synced, pc, next, request, attempts, crashes, told>>

-----------------------------------------------------------------------------
(* Create and Update, up to the commit *)

(* newID runs before the fingerprint is taken, and attempts is an id no    *)
(* recorded command has.                                                   *)
FingerprintOf(r) ==
    [body |-> r.body, expected |-> r.expected,
     id |-> IF r.body \in Unnamed THEN attempts + 1 ELSE 0]

(* Create compares the fingerprint only, Update the case as well. *)
SameCommand(r, record) ==
    /\ record.fingerprint = FingerprintOf(r)
    /\ r.case # NoCase => record.case = r.case

Replay(r) ==
    /\ pc = "idle"
    /\ mem.keys[r.key] # NoRecord
    /\ SameCommand(r, mem.keys[r.key])
    /\ acked' = acked \cup {[request |-> r, case |-> mem.keys[r.key].case,
                             result |-> mem.keys[r.key].result]}
    /\ UNCHANGED <<faults, mem, files, pc, next, request, attempts, crashes, refused>>

RefuseKey(r) ==
    /\ pc = "idle"
    /\ mem.keys[r.key] # NoRecord
    /\ ~SameCommand(r, mem.keys[r.key])
    /\ refused' = refused \cup {r}
    /\ UNCHANGED <<faults, mem, files, pc, next, request, attempts, crashes, acked>>

(* Mutant: the key is not recorded. *)
Changed_ForgetsKey(r, case) ==
    LET result == Append(mem.cases[case], [key |-> r.key, body |-> r.body])
    IN  [cases |-> [mem.cases EXCEPT ![case] = result],
         keys |-> mem.keys,
         audit |-> Append(mem.audit, NextAudit(mem.audit, case, Len(result)))]

(* The snapshot with the change, its record and its audit entry. *)
Changed(r, case) ==
    LET result == Append(mem.cases[case], [key |-> r.key, body |-> r.body])
    IN  [cases |-> [mem.cases EXCEPT ![case] = result],
         keys |-> [mem.keys EXCEPT ![r.key] =
                      [fingerprint |-> FingerprintOf(r), case |-> case, result |-> result]],
         audit |-> Append(mem.audit, NextAudit(mem.audit, case, Len(result)))]

Begin(r, case) ==
    /\ pc = "idle"
    /\ mem.keys[r.key] = NoRecord
    /\ attempts < MaxAttempts
    /\ next' = Changed(r, case)
    /\ request' = r
    /\ attempts' = attempts + 1
    /\ pc' = "writing"
    /\ UNCHANGED <<faults, mem, files, crashes, told>>

(* The new case's id is the service's choice, not the client's. *)
Create(r, case) ==
    /\ r.case = NoCase
    /\ mem.cases[case] = <<>>
    /\ Begin(r, case)

Update(r) ==
    /\ r.case # NoCase
    /\ mem.cases[r.case] # <<>>
    /\ Len(mem.cases[r.case]) = r.expected
    /\ Begin(r, r.case)

-----------------------------------------------------------------------------
(* The commit *)

(* The result is the case as the change left it. *)
Answered ==
    LET case == Last(next.audit).case
    IN  [request |-> request, case |-> case, result |-> next.cases[case]]

Idle == pc' = "idle" /\ next' = Empty /\ request' = NoRecord

(* writeSnapshot fails before or at the rename. *)
WriteFails ==
    /\ "write" \in faults
    /\ pc = "writing"
    /\ Idle
    /\ UNCHANGED <<faults, mem, files, attempts, crashes, told>>

Rename ==
    /\ pc = "writing"
    /\ disk' = next
    /\ pc' = "renamed"
    /\ UNCHANGED <<faults, mem, durable, mirror, synced, next, request, attempts, crashes, told>>

(* Mutant: the error of the directory's Sync is ignored. *)
SyncFails_Ignored ==
    /\ "write" \in faults
    /\ pc = "renamed"
    /\ pc' = "synced"
    /\ UNCHANGED <<faults, mem, files, next, request, attempts, crashes, told>>

(* writeSnapshot fails after the rename: the client gets an error, memory  *)
(* keeps the old snapshot, and the new one stays on disk.                  *)
SyncFails ==
    /\ "write" \in faults
    /\ pc = "renamed"
    /\ Idle
    /\ UNCHANGED <<faults, mem, files, attempts, crashes, told>>

Sync ==
    /\ pc = "renamed"
    /\ durable' = disk
    /\ pc' = "synced"
    /\ UNCHANGED <<faults, mem, disk, mirror, synced, next, request, attempts, crashes, told>>

NewEntries == SubSeq(next.audit, Len(mem.audit) + 1, Len(next.audit))

AppendAudit ==
    /\ pc = "synced"
    /\ mirror' = mirror \o NewEntries
    /\ synced' = Len(mirror')
    /\ mem' = next
    /\ acked' = acked \cup {Answered}
    /\ Idle
    /\ UNCHANGED <<faults, disk, durable, attempts, crashes, refused>>

(* Mutant: memory keeps the old snapshot. *)
AppendFails_KeepsMemory ==
    /\ "append" \in faults
    /\ pc = "synced"
    /\ mirror' \in PartlyAppended(mirror, NewEntries)
    /\ Idle
    /\ UNCHANGED <<faults, mem, disk, durable, synced, attempts, crashes, told>>

(* The client gets an error although the snapshot is committed. *)
AppendFails ==
    /\ "append" \in faults
    /\ pc = "synced"
    /\ mirror' \in PartlyAppended(mirror, NewEntries)
    /\ mem' = next
    /\ Idle
    /\ UNCHANGED <<faults, disk, durable, synced, attempts, crashes, told>>

-----------------------------------------------------------------------------
(* Crashes *)

Down ==
    /\ crashes < MaxCrashes
    /\ crashes' = crashes + 1
    /\ pc' = "down" /\ mem' = Empty /\ next' = Empty /\ request' = NoRecord
    /\ UNCHANGED <<faults, attempts, told>>

(* The lines the operating system has when the process ends. *)
Written == {mirror} \cup (IF pc = "synced" THEN {mirror \o NewEntries} ELSE {})

(* The process ends: what it wrote stays. *)
Crash ==
    /\ "crash" \in faults
    /\ pc # "down"
    /\ mirror' \in Written
    /\ Down
    /\ UNCHANGED <<disk, durable, synced>>

(* The machine loses power: a rename whose directory was not synced may be *)
(* undone, and lines that were not synced may be lost or torn.             *)
PowerFails ==
    /\ "power" \in faults
    /\ disk' \in {disk, durable}
    /\ durable' = disk'
    /\ \E lines \in Written :
           mirror' \in PartlyAppended(SubSeq(lines, 1, synced),
                                      SubSeq(lines, synced + 1, Len(lines)))
    /\ synced' = Len(mirror')
    /\ Down

-----------------------------------------------------------------------------
Next ==
    \/ Open
    \/ OpenFails
    \/ \E r \in Requests :
          \/ Replay(r)
          \/ RefuseKey(r)
          \/ \E case \in CaseIds : Create(r, case)
          \/ Update(r)
    \/ WriteFails
    \/ Rename
    \/ SyncFails
    \/ Sync
    \/ AppendAudit
    \/ AppendFails
    \/ Crash
    \/ PowerFails

Spec == Init /\ [][Next]_vars

CommitStep == WriteFails \/ Rename \/ SyncFails \/ Sync \/ AppendAudit \/ AppendFails

(* A commit that has begun goes on, a server that is down is started       *)
(* again, and clients retry.  A retry waits for the mutex, which others    *)
(* take and release meanwhile; a Go mutex serves waiters in order when     *)
(* they starve, hence strong fairness.                                     *)
Fairness ==
    /\ WF_vars(CommitStep)
    /\ WF_vars(Open)
    /\ \A r \in Requests : SF_vars(Replay(r))

RetrySpec == Spec /\ Fairness

-----------------------------------------------------------------------------
(* What clients may rely on *)

(* Processes are killed or the power fails, and not both: opening the      *)
(* store does not sync the directory (store.go:33), so that a snapshot a   *)
(* killed process renamed may be served and then lost with the power.      *)
OneKindOfCrash == ~({"crash", "power"} \subseteq faults)

(* A command that was acknowledged is there for good: whatever fails or    *)
(* crashes later, its case has only grown since, in memory and in what a   *)
(* restart reads, and the audit trail has its entry.                       *)
Holds(snapshot, a) ==
    /\ IsPrefix(a.result, snapshot.cases[a.case])
    /\ \E e \in ToSet(snapshot.audit) : e.case = a.case /\ e.version = Len(a.result)

AckedSurvives ==
    \A a \in acked :
        /\ Holds(disk, a)
        /\ pc # "down" => Holds(mem, a)

(* An idempotency key stands for one command: it is acknowledged with one  *)
(* result however often it is sent and whatever crashes in between, and a  *)
(* request that was acknowledged is never refused as a different command.  *)
KeyAnswersOneCommand ==
    /\ \A a, b \in acked : a.request.key = b.request.key =>
          a.result = b.result /\ a.case = b.case
    /\ \A a \in acked : a.request \notin refused

(* The state a caller's view of the store is built from: memory, and after *)
(* a crash what a restart will load.                                       *)
Served == IF pc = "down" THEN disk ELSE mem

Promise == INSTANCE Ledger
    WITH Changes <- Change, Unused <- NoRecord,
         history <- Served.cases,
         answers <- [k \in Keys |->
                        IF Served.keys[k] = NoRecord THEN NoRecord
                        ELSE [case |-> Served.keys[k].case, result |-> Served.keys[k].result]]

(* What callers see of the store through failed writes and crashes is a    *)
(* ledger: a case only grows, a key is used once, and a command whose      *)
(* snapshot was written but not acknowledged appears whole or not at all.  *)
ImplementsLedger == Promise!Spec

(* A command that the store has, but whose answer was lost in a killed     *)
(* process or a failed append, is answered in the end with its result,     *)
(* when its client retries under the same key (store.go:124-130): neither  *)
(* a crash, nor a restart, nor the commits of others lose the record.      *)
Has(r) ==
    /\ Served.keys[r.key] # NoRecord
    /\ SameCommand(r, Served.keys[r.key])

RetryEventuallyAnswered ==
    \A r \in Requests : Has(r) ~> \E a \in acked : a.request = r

-----------------------------------------------------------------------------
(* The audit mirror *)

(* The snapshot is written ahead of the mirror: whatever fails, every      *)
(* whole line of the mirror is an entry of the snapshot on disk.           *)
MirrorIsBehind ==
    \A i \in DOMAIN mirror : mirror[i] # Torn =>
        /\ mirror[i].sequence <= Len(disk.audit)
        /\ disk.audit[mirror[i].sequence] = mirror[i]

(* The server can always be started again.  Persistence/store.go:257 says  *)
(* that the mirror of a committed snapshot "is to be recovered", which is  *)
(* what recoverAuditLog does when the store opens.                         *)
Reopenable == Chained(disk.audit) /\ MirrorAccepted

(* As long as appends do not fail, a process killed at any step of any     *)
(* commit leaves files that the next one opens, though every crash may     *)
(* fall between the snapshot and its line of the mirror (store.go:253).    *)
CrashReopenable == faults \subseteq {"write", "crash"} => Reopenable
=============================================================================
