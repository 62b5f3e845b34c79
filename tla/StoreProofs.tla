---------------------------- MODULE StoreProofs ----------------------------
(***************************************************************************)
(* Theorems about Store, for any cases, keys, commands, faults and bounds. *)
(* Everything rests on one observation: what callers are served (memory,   *)
(* or after a crash the snapshot that is loaded) changes by whole commits  *)
(* only, and the snapshot on disk is never more than one commit ahead.     *)
(***************************************************************************)
EXTENDS Store, SequenceTheorems, TLAPS

-----------------------------------------------------------------------------
(* The inductive invariant *)

(* The snapshot s with one more change, its record and its audit entry. *)
Committed(s, key, body, fingerprint, case, hash) ==
    LET result == Append(s.cases[case], [key |-> key, body |-> body])
    IN  [cases |-> [s.cases EXCEPT ![case] = result],
         keys |-> [s.keys EXCEPT ![key] =
                      [fingerprint |-> fingerprint, case |-> case, result |-> result]],
         audit |-> Append(s.audit,
                       [sequence |-> Len(s.audit) + 1,
                        previous |-> IF s.audit = <<>> THEN 0 ELSE Last(s.audit).hash,
                        hash |-> hash, case |-> case, version |-> Len(result)])]

CommitOf(s, t) ==
    \E key \in Keys, body \in Bodies, f \in Fingerprint, case \in CaseIds, hash \in Nat \ {0} :
        /\ s.keys[key] = NoRecord
        /\ t = Committed(s, key, body, f, case, hash)

Ahead(s, t) == t = s \/ CommitOf(s, t)

Committing == pc \in {"writing", "renamed", "synced"}

(* What is being committed is memory and the request, recorded under its   *)
(* key; a fingerprint depends on an id only where the service chose one.   *)
NextInv ==
    Committing =>
        /\ request \in Request
        /\ \E f \in Fingerprint, case \in CaseIds, hash \in Nat \ {0} :
              /\ mem.keys[request.key] = NoRecord
              /\ next = Committed(mem, request.key, request.body, f, case, hash)
              /\ request.case # NoCase => case = request.case
              /\ request.body \notin Unnamed =>
                    f = [body |-> request.body, expected |-> request.expected, id |-> 0]

(* A rename that was not acknowledged leaves the disk a commit ahead. *)
DiskInv ==
    /\ pc \in {"idle", "writing"} => Ahead(mem, disk)
    /\ pc \in {"renamed", "synced"} => disk = next

(* Where no process is killed, what a power failure can bring back is what *)
(* callers are served, or the snapshot that was just synced.               *)
DurableInv ==
    "crash" \notin faults =>
        durable = IF pc = "synced" THEN next ELSE Served

(* What a record says is there, and the audit trail is a chain. *)
ServedInv ==
    /\ \A k \in Keys : Served.keys[k] # NoRecord => Holds(Served, Served.keys[k])
    /\ Chained(Served.audit)

(* The record of its key tells what a request was answered. *)
Tells(s, a) ==
    LET record == s.keys[a.request.key] IN
    /\ record # NoRecord
    /\ record.case = a.case /\ record.result = a.result
    /\ a.request.body \notin Unnamed => SameCommand(a.request, record)

Refuses(s, r) ==
    /\ s.keys[r.key] # NoRecord
    /\ r.body \notin Unnamed => ~SameCommand(r, s.keys[r.key])

ToldInv ==
    /\ \A a \in acked : Tells(Served, a)
    /\ \A r \in refused : Refuses(Served, r)

(* The lines of the mirror are entries of the audit trail. *)
MirrorInv == mirror \in Seq(ToSet(Served.audit) \cup {Torn})

(* Where appends do not fail and the power does not, the mirror is         *)
(* complete, and after a crash it lacks the end of the trail at most.      *)
CompleteInv ==
    faults \subseteq {"write", "crash"} =>
        IF pc = "down" THEN IsPrefix(mirror, disk.audit) ELSE mirror = mem.audit

-----------------------------------------------------------------------------
(* Sequences *)

LEMMA PrefixIff ==
    ASSUME NEW S, NEW s \in Seq(S), NEW t \in Seq(S)
    PROVE  IsPrefix(s, t) <=> Len(s) <= Len(t) /\ \A i \in 1 .. Len(s) : s[i] = t[i]
<1>1. Len(s) \in Nat /\ Len(t) \in Nat
  BY LenProperties
<1>2. SubSeq(s, 1, Len(s)) = s
  BY SubSeqFull
<1>3. ASSUME Len(s) <= Len(t)
      PROVE  /\ SubSeq(t, 1, Len(s)) \in Seq(S)
             /\ Len(SubSeq(t, 1, Len(s))) = Len(s)
             /\ \A i \in 1 .. Len(s) : SubSeq(t, 1, Len(s))[i] = t[i]
  <2>1. \A i \in 1 .. Len(s) : t[i] \in S
    BY <1>1, <1>3, ElementOfSeq
  <2> QED
    BY <1>1, <2>1, SubSeqProperties, Z3
<1>4. ASSUME Len(s) <= Len(t), \A i \in 1 .. Len(s) : s[i] = t[i]
      PROVE  s = SubSeq(t, 1, Len(s))
  <2> DEFINE u == SubSeq(t, 1, Len(s))
  <2>1. u \in Seq(S) /\ Len(s) = Len(u) /\ \A i \in 1 .. Len(s) : s[i] = u[i]
    BY <1>3, <1>4
  <2> HIDE DEF u
  <2>2. s = u
    BY <2>1, SeqEqual
  <2> QED
    BY <2>2 DEF u
<1> QED
  BY <1>1, <1>2, <1>3, <1>4 DEF IsPrefix

LEMMA PrefixOfAppend ==
    ASSUME NEW S, NEW s \in Seq(S), NEW t \in Seq(S), NEW e \in S, IsPrefix(s, t)
    PROVE  IsPrefix(s, Append(t, e))
<1>1. /\ Append(t, e) \in Seq(S)
      /\ Len(Append(t, e)) = Len(t) + 1
      /\ \A i \in 1 .. Len(t) : Append(t, e)[i] = t[i]
  BY AppendProperties
<1>2. Len(s) \in Nat /\ Len(t) \in Nat /\ Len(s) <= Len(t)
      /\ \A i \in 1 .. Len(s) : s[i] = t[i]
  BY PrefixIff, LenProperties
<1> DEFINE u == Append(t, e)
<1>3. u \in Seq(S) /\ Len(s) <= Len(u) /\ \A i \in 1 .. Len(s) : s[i] = u[i]
  BY <1>1, <1>2
<1> HIDE DEF u
<1>4. IsPrefix(s, u)
  BY <1>3, PrefixIff
<1> QED
  BY <1>4 DEF u

LEMMA PrefixOfItself ==
    ASSUME NEW S, NEW s \in Seq(S)
    PROVE  IsPrefix(s, s)
  BY PrefixIff, LenProperties

LEMMA PartType ==
    ASSUME NEW S, NEW s \in Seq(S), NEW m \in 1 .. Len(s) + 1, NEW n \in 0 .. Len(s)
    PROVE  SubSeq(s, m, n) \in Seq(S)
<1>1. Len(s) \in Nat
  BY LenProperties
<1>2. \A i \in m .. n : s[i] \in S
  BY <1>1, ElementOfSeq
<1> QED
  BY <1>1, <1>2, SubSeqProperties

(* What an append leaves consists of the old lines, new lines and a torn   *)
(* one, and keeps the old ones.                                            *)
LEMMA PartlyAppendedType ==
    ASSUME NEW S, NEW lines \in Seq(S), NEW entries \in Seq(S), Torn \in S,
           NEW left \in PartlyAppended(lines, entries)
    PROVE  left \in Seq(S) /\ Len(lines) <= Len(left)
<1>1. Len(lines) \in Nat /\ Len(entries) \in Nat
  BY LenProperties
<1>2. PICK n \in 0 .. Len(entries) :
         left \in {lines \o SubSeq(entries, 1, n), Append(lines \o SubSeq(entries, 1, n), Torn)}
  BY DEF PartlyAppended
<1> DEFINE part == SubSeq(entries, 1, n)
           whole == lines \o part
<1>3. part \in Seq(S)
  BY <1>1, PartType
<1> HIDE DEF part
<1>4. whole \in Seq(S) /\ Len(whole) = Len(lines) + Len(part) /\ Len(part) \in Nat
  BY <1>3, ConcatProperties, LenProperties
<1> HIDE DEF whole
<1>5. Append(whole, Torn) \in Seq(S) /\ Len(Append(whole, Torn)) = Len(whole) + 1
  BY <1>4, AppendProperties
<1>6. CASE left = whole
  BY <1>1, <1>4, <1>6
<1>7. CASE left = Append(whole, Torn)
  <2>1. Len(left) = Len(whole) + 1
    BY <1>5, <1>7
  <2> QED
    BY <1>1, <1>4, <1>5, <1>7, <2>1
<1> QED
  BY <1>2, <1>6, <1>7 DEF whole, part

LEMMA ToSetType ==
    ASSUME NEW S, NEW s \in Seq(S)
    PROVE  /\ ToSet(s) \subseteq S
           /\ ToSet(s) = {s[i] : i \in 1 .. Len(s)}
           /\ s \in Seq(ToSet(s))
<1>1. /\ Len(s) \in Nat /\ DOMAIN s = 1 .. Len(s)
      /\ s \in [1 .. Len(s) -> S]
  BY LenProperties
<1>2. ToSet(s) = {s[i] : i \in 1 .. Len(s)}
  BY <1>1 DEF ToSet
<1>3. \A i \in 1 .. Len(s) : s[i] \in S
  BY <1>1
<1>4. s \in [1 .. Len(s) -> ToSet(s)]
  BY <1>1, <1>2
<1>5. s \in Seq(ToSet(s))
  BY <1>1, <1>4, SeqDef
<1> QED
  BY <1>2, <1>3, <1>5

LEMMA ToSetOfAppend ==
    ASSUME NEW S, NEW s \in Seq(S), NEW e \in S
    PROVE  ToSet(Append(s, e)) = ToSet(s) \cup {e}
<1> DEFINE t == Append(s, e)
<1>1. /\ t \in Seq(S) /\ Len(t) = Len(s) + 1 /\ Len(s) \in Nat
      /\ \A i \in 1 .. Len(s) : t[i] = s[i]
      /\ t[Len(s) + 1] = e
  BY AppendProperties, LenProperties
<1> HIDE DEF t
<1>2. /\ ToSet(t) = {t[i] : i \in 1 .. Len(s) + 1}
      /\ ToSet(s) = {s[i] : i \in 1 .. Len(s)}
  BY <1>1, ToSetType
<1>3. 1 .. Len(s) + 1 = (1 .. Len(s)) \cup {Len(s) + 1}
  BY <1>1
<1>4. {t[i] : i \in 1 .. Len(s) + 1} = {s[i] : i \in 1 .. Len(s)} \cup {e}
  BY <1>1, <1>3
<1> QED
  BY <1>2, <1>4 DEF t

-----------------------------------------------------------------------------
(* Snapshots and commits *)

(* What a commit does to each part of a snapshot. *)
Adds(s, t, key, body, f, case) ==
    /\ t \in Snapshot
    /\ t.cases = [s.cases EXCEPT ![case] =
                     Append(s.cases[case], [key |-> key, body |-> body])]
    /\ \A c \in CaseIds : IsPrefix(s.cases[c], t.cases[c])
    /\ t.keys = [s.keys EXCEPT ![key] =
                    [fingerprint |-> f, case |-> case, result |-> t.cases[case]]]
    /\ t.keys[key] # NoRecord
    /\ Last(t.audit) \in Entry
    /\ Last(t.audit).case = case
    /\ Last(t.audit).version = Len(t.cases[case])
    /\ Last(t.audit).sequence = Len(s.audit) + 1
    /\ Last(t.audit).previous = IF s.audit = <<>> THEN 0 ELSE Last(s.audit).hash
    /\ t.audit = Append(s.audit, Last(t.audit))

LEMMA CommittedAdds ==
    ASSUME NEW s \in Snapshot, NEW key \in Keys, NEW body \in Bodies,
           NEW f \in Fingerprint, NEW case \in CaseIds, NEW hash \in Nat \ {0},
           NEW t, t = Committed(s, key, body, f, case, hash)
    PROVE  Adds(s, t, key, body, f, case)
<1> DEFINE change == [key |-> key, body |-> body]
           result == Append(s.cases[case], change)
           e == [sequence |-> Len(s.audit) + 1,
                 previous |-> IF s.audit = <<>> THEN 0 ELSE Last(s.audit).hash,
                 hash |-> hash, case |-> case, version |-> Len(result)]
           record == [fingerprint |-> f, case |-> case, result |-> result]
<1>1. /\ s.cases \in [CaseIds -> Seq(Change)]
      /\ s.keys \in [Keys -> Record \cup {NoRecord}]
      /\ s.audit \in Seq(Entry)
  BY DEF Snapshot
<1>2. change \in Change
  BY DEF Change
<1>3. result \in Seq(Change) /\ Len(result) \in Nat
  BY <1>1, <1>2, AppendProperties, LenProperties
<1>4. record \in Record /\ record # NoRecord
  <2> HIDE DEF result
  <2>1. record \in Record
    BY <1>3 DEF Record
  <2> QED
    BY <2>1, ValuesAssumption
<1>5. Len(s.audit) \in Nat /\ (s.audit # <<>> => Last(s.audit) \in Entry)
  <2>1. Len(s.audit) \in Nat /\ (s.audit # <<>> => Len(s.audit) \in Nat \ {0})
    BY <1>1, EmptySeq, LenProperties
  <2> QED
    BY <1>1, <2>1, ElementOfSeq DEF Last
<1>6. e \in Entry
  <2>1. s.audit # <<>> => Last(s.audit).hash \in Nat
    BY <1>5 DEF Entry
  <2> HIDE DEF result
  <2> QED
    BY <1>3, <1>5, <2>1 DEF Entry
<1>7. /\ t.cases = [s.cases EXCEPT ![case] = result]
      /\ t.keys = [s.keys EXCEPT ![key] = record]
      /\ t.audit = Append(s.audit, e)
      /\ t = [cases |-> t.cases, keys |-> t.keys, audit |-> t.audit]
  BY DEF Committed
<1>8. \A c \in CaseIds : IsPrefix(s.cases[c], s.cases[c])
  BY <1>1, PrefixOfItself
<1>9. IsPrefix(s.cases[case], result)
  BY <1>1, <1>2, <1>8, PrefixOfAppend
<1> HIDE DEF result, e, change
<1>10. t.cases[case] = result
  BY <1>1, <1>7
<1>11. \A c \in CaseIds : IsPrefix(s.cases[c], t.cases[c])
  BY <1>1, <1>7, <1>8, <1>9
<1>12. Last(t.audit) = e /\ t.audit \in Seq(Entry)
  <2>1. t.audit \in Seq(Entry) /\ Len(t.audit) = Len(s.audit) + 1
        /\ t.audit[Len(s.audit) + 1] = e
    BY <1>1, <1>6, <1>7, AppendProperties
  <2> QED
    BY <2>1 DEF Last
<1>13. t.cases \in [CaseIds -> Seq(Change)]
  BY <1>1, <1>3, <1>7
<1>14. t.keys \in [Keys -> Record \cup {NoRecord}] /\ t.keys[key] = record
  BY <1>1, <1>4, <1>7
<1>15. t \in Snapshot
  BY <1>7, <1>12, <1>13, <1>14 DEF Snapshot
<1>16. /\ e.case = case /\ e.version = Len(result) /\ e.sequence = Len(s.audit) + 1
       /\ e.previous = IF s.audit = <<>> THEN 0 ELSE Last(s.audit).hash
  BY DEF e
<1>17. t.cases = [s.cases EXCEPT ![case] = Append(s.cases[case], [key |-> key, body |-> body])]
  BY <1>7 DEF result, change
<1>18. t.keys = [s.keys EXCEPT ![key] =
                    [fingerprint |-> f, case |-> case, result |-> t.cases[case]]]
  BY <1>7, <1>10
<1> HIDE DEF record
<1> QED
  BY <1>4, <1>6, <1>7, <1>10, <1>11, <1>12, <1>14, <1>15, <1>16, <1>17, <1>18 DEF Adds

LEMMA HoldsOn ==
    ASSUME NEW s \in Snapshot, NEW t \in Snapshot, NEW a,
           a.case \in CaseIds, a.result \in Seq(Change), Holds(s, a),
           \A c \in CaseIds : IsPrefix(s.cases[c], t.cases[c]),
           ToSet(s.audit) \subseteq ToSet(t.audit)
    PROVE  Holds(t, a)
<1>1. s.cases[a.case] \in Seq(Change) /\ t.cases[a.case] \in Seq(Change)
  BY DEF Snapshot
<1>2. IsPrefix(a.result, s.cases[a.case]) /\ IsPrefix(s.cases[a.case], t.cases[a.case])
  BY DEF Holds
<1>3. IsPrefix(a.result, t.cases[a.case])
  <2>1. Len(a.result) \in Nat /\ Len(s.cases[a.case]) \in Nat /\ Len(t.cases[a.case]) \in Nat
    BY <1>1, LenProperties
  <2> QED
    BY <1>1, <1>2, <2>1, PrefixIff
<1> QED
  BY <1>3 DEF Holds

(* A commit loses nothing and leaves every record as it was. *)
LEMMA AheadKeeps ==
    ASSUME NEW s \in Snapshot, NEW t, Ahead(s, t)
    PROVE  /\ t \in Snapshot
           /\ \A c \in CaseIds : IsPrefix(s.cases[c], t.cases[c])
           /\ \A k \in Keys : s.keys[k] # NoRecord => t.keys[k] = s.keys[k]
           /\ ToSet(s.audit) \subseteq ToSet(t.audit)
<1>1. CASE t = s
  <2>1. \A c \in CaseIds : s.cases[c] \in Seq(Change)
    BY DEF Snapshot
  <2> QED
    BY <1>1, <2>1, PrefixOfItself
<1>2. CASE CommitOf(s, t)
  <2>1. PICK key \in Keys, body \in Bodies, f \in Fingerprint, case \in CaseIds,
             hash \in Nat \ {0} :
           s.keys[key] = NoRecord /\ t = Committed(s, key, body, f, case, hash)
    BY <1>2 DEF CommitOf
  <2>2. Adds(s, t, key, body, f, case)
    BY <2>1, CommittedAdds
  <2>3. \A k \in Keys : s.keys[k] # NoRecord => t.keys[k] = s.keys[k]
    BY <2>1, <2>2 DEF Adds, Snapshot
  <2>4. s.audit \in Seq(Entry)
    BY DEF Snapshot
  <2>5. ToSet(s.audit) \subseteq ToSet(t.audit)
    <3> DEFINE e == Last(t.audit)
    <3>1. e \in Entry /\ t.audit = Append(s.audit, e)
      BY <2>2 DEF Adds
    <3> HIDE DEF e
    <3> QED
      BY <2>4, <3>1, ToSetOfAppend
  <2> QED
    BY <2>2, <2>3, <2>5 DEF Adds
<1> QED
  BY <1>1, <1>2 DEF Ahead

LEMMA AheadChained ==
    ASSUME NEW s \in Snapshot, NEW t, Ahead(s, t), Chained(s.audit)
    PROVE  Chained(t.audit)
<1>1. CASE t = s
  BY <1>1
<1>2. CASE CommitOf(s, t)
  <2>1. PICK key \in Keys, body \in Bodies, f \in Fingerprint, case \in CaseIds,
             hash \in Nat \ {0} :
           s.keys[key] = NoRecord /\ t = Committed(s, key, body, f, case, hash)
    BY <1>2 DEF CommitOf
  <2>2. Adds(s, t, key, body, f, case)
    BY <2>1, CommittedAdds
  <2> DEFINE a == s.audit
             b == t.audit
             e == Last(t.audit)
  <2>3. a \in Seq(Entry) /\ e \in Entry /\ b = Append(a, e)
        /\ e.sequence = Len(a) + 1
        /\ e.previous = IF a = <<>> THEN 0 ELSE Last(a).hash
    BY <2>2 DEF Adds, Snapshot
  <2>4. Chained(a)
    OBVIOUS
  <2> HIDE DEF a, b, e
  <2>5. /\ Len(b) = Len(a) + 1 /\ Len(a) \in Nat /\ b \in Seq(Entry)
        /\ \A i \in 1 .. Len(a) : b[i] = a[i]
        /\ b[Len(a) + 1] = e
        /\ DOMAIN a = 1 .. Len(a) /\ DOMAIN b = 1 .. Len(b)
    <3>1. b \in Seq(Entry)
      BY <2>3, AppendProperties
    <3> QED
      BY <2>3, <3>1, AppendProperties, LenProperties
  <2>6. Torn \notin ToSet(b)
    BY <2>3, <2>5, ToSetType, ValuesAssumption
  <2>7. ASSUME NEW i \in 1 .. Len(a)
        PROVE  b[i].sequence = i /\ b[i].previous = IF i = 1 THEN 0 ELSE b[i - 1].hash
    <3>1. a[i].sequence = i /\ a[i].previous = IF i = 1 THEN 0 ELSE a[i - 1].hash
      BY <2>4, <2>5 DEF Chained
    <3>2. b[i] = a[i] /\ (i # 1 => b[i - 1] = a[i - 1])
      BY <2>5
    <3> QED
      BY <3>1, <3>2
  <2>8. a = <<>> <=> Len(a) = 0
    BY <2>3, EmptySeq
  <2>9. e.sequence = Len(a) + 1
        /\ e.previous = IF Len(a) + 1 = 1 THEN 0 ELSE b[(Len(a) + 1) - 1].hash
    <3>1. CASE a = <<>>
      BY <2>3, <2>8, <3>1
    <3>2. CASE a # <<>>
      <4>1. Len(a) \in 1 .. Len(a) /\ (Len(a) + 1) - 1 = Len(a)
        BY <2>5, <2>8, <3>2
      <4> QED
        BY <2>3, <2>5, <2>8, <3>2, <4>1 DEF Last
    <3> QED
      BY <3>1, <3>2
  <2>10. ASSUME NEW i \in 1 .. Len(b)
         PROVE  b[i].sequence = i /\ b[i].previous = IF i = 1 THEN 0 ELSE b[i - 1].hash
    <3>1. i \in 1 .. Len(a) \/ i = Len(a) + 1
      BY <2>5
    <3> QED
      BY <2>5, <2>7, <2>9, <3>1
  <2>11. Chained(b)
    BY <2>5, <2>6, <2>10 DEF Chained
  <2> QED
    BY <2>11 DEF b
<1> QED
  BY <1>1, <1>2 DEF Ahead

LEMMA RecordType ==
    ASSUME NEW s \in Snapshot, NEW k \in Keys, s.keys[k] # NoRecord
    PROVE  /\ s.keys[k] \in Record
           /\ s.keys[k].case \in CaseIds
           /\ s.keys[k].result \in Seq(Change)
  BY DEF Snapshot, Record

LEMMA AheadHolds ==
    ASSUME NEW s \in Snapshot, NEW t, Ahead(s, t),
           \A k \in Keys : s.keys[k] # NoRecord => Holds(s, s.keys[k])
    PROVE  \A k \in Keys : t.keys[k] # NoRecord => Holds(t, t.keys[k])
<1> SUFFICES ASSUME NEW k \in Keys, t.keys[k] # NoRecord
             PROVE  Holds(t, t.keys[k])
  OBVIOUS
<1>1. CASE s.keys[k] # NoRecord
  <2>1. t.keys[k] = s.keys[k] /\ t \in Snapshot
        /\ \A c \in CaseIds : IsPrefix(s.cases[c], t.cases[c])
        /\ ToSet(s.audit) \subseteq ToSet(t.audit)
    BY <1>1, AheadKeeps
  <2> DEFINE a == s.keys[k]
  <2>2. a.case \in CaseIds /\ a.result \in Seq(Change) /\ Holds(s, a)
    BY <1>1, RecordType
  <2> HIDE DEF a
  <2>3. Holds(t, a)
    BY <2>1, <2>2, HoldsOn
  <2> QED
    BY <2>1, <2>3 DEF a
<1>2. CASE s.keys[k] = NoRecord
  <2>1. PICK key \in Keys, body \in Bodies, f \in Fingerprint, case \in CaseIds,
             hash \in Nat \ {0} :
           s.keys[key] = NoRecord /\ t = Committed(s, key, body, f, case, hash)
    BY <1>2 DEF Ahead, CommitOf
  <2>2. Adds(s, t, key, body, f, case)
    BY <2>1, CommittedAdds
  <2> DEFINE result == t.cases[case]
             e == Last(t.audit)
  <2>3. /\ t.keys[key] = [fingerprint |-> f, case |-> case, result |-> result]
        /\ key # k => t.keys[k] = s.keys[k]
    BY <2>2 DEF Adds, Snapshot
  <2>4. t.keys[k].case = case /\ t.keys[k].result = result
    BY <1>2, <2>3
  <2>5. e.case = case /\ e.version = Len(result) /\ e \in ToSet(t.audit)
    <3>1. /\ s.audit \in Seq(Entry) /\ e \in Entry /\ t.audit = Append(s.audit, e)
          /\ e.case = case /\ e.version = Len(result)
      BY <2>2 DEF Adds, Snapshot
    <3> HIDE DEF e
    <3> QED
      BY <3>1, ToSetOfAppend
  <2>6. IsPrefix(result, t.cases[case])
    <3>1. result \in Seq(Change)
      BY <2>2 DEF Adds, Snapshot
    <3> QED
      BY <3>1, PrefixOfItself
  <2> QED
    BY <2>4, <2>5, <2>6 DEF Holds
<1> QED
  BY <1>1, <1>2

LEMMA AheadTells ==
    ASSUME NEW s \in Snapshot, NEW t, Ahead(s, t)
    PROVE  /\ \A a \in Answer : Tells(s, a) => Tells(t, a)
           /\ \A r \in Request : Refuses(s, r) => Refuses(t, r)
<1>1. \A k \in Keys : s.keys[k] # NoRecord => t.keys[k] = s.keys[k]
  BY AheadKeeps
<1> QED
  BY <1>1 DEF Tells, Refuses, Answer, Request

-----------------------------------------------------------------------------
(* Type correctness, and what is being committed *)

LEMMA EmptyType == Empty \in Snapshot
<1>1. <<>> \in Seq(Change) /\ <<>> \in Seq(Entry)
  BY EmptySeq
<1> QED
  BY <1>1 DEF Empty, Snapshot

LEMMA InitType == Init => TypeOK /\ NextInv
<1> SUFFICES ASSUME Init PROVE TypeOK /\ NextInv
  OBVIOUS
<1>1. mirror \in Seq(Entry \cup {Torn}) /\ Len(mirror) = 0
  BY EmptySeq DEF Init
<1>2. 0 \in 0 .. Len(mirror)
  BY <1>1
<1> QED
  BY <1>1, <1>2, EmptyType DEF Init, TypeOK, NextInv, Committing

(* The new entries of a commit are one. *)
LEMMA NewEntriesIs ==
    ASSUME TypeOK, NextInv, Committing
    PROVE  /\ mem \in Snapshot /\ next \in Snapshot
           /\ NewEntries = <<Last(next.audit)>>
           /\ Last(next.audit) \in Entry
           /\ next.audit = Append(mem.audit, Last(next.audit))
           /\ NewEntries \in Seq(Entry)
<1>1. PICK f \in Fingerprint, case \in CaseIds, hash \in Nat \ {0} :
         next = Committed(mem, request.key, request.body, f, case, hash)
  BY DEF NextInv
<1>2. mem \in Snapshot /\ request.key \in Keys /\ request.body \in Bodies
  BY DEF TypeOK, NextInv, Request
<1>3. Adds(mem, next, request.key, request.body, f, case)
  BY <1>1, <1>2, CommittedAdds
<1> DEFINE a == mem.audit
           b == next.audit
           e == Last(next.audit)
           m == Len(a) + 1
<1>4. e \in Entry /\ a \in Seq(Entry) /\ b = Append(a, e)
  BY <1>2, <1>3 DEF Adds, Snapshot
<1> HIDE DEF a, b, e
<1>5. b \in Seq(Entry) /\ Len(b) = m /\ b[m] = e /\ m \in 1 .. Len(b)
  BY <1>4, AppendProperties, LenProperties
<1> HIDE DEF m
<1>6. SubSeq(b, m, m) = <<b[m]>>
  <2>1. /\ SubSeq(b, m, m) = <<b[m]>> \o SubSeq(b, m + 1, m)
        /\ SubSeq(b, m + 1, m) = <<>>
        /\ <<b[m]>> \in Seq(Entry)
    BY <1>4, <1>5, SubSeqRecursiveFirst, SubSeqEmpty
  <2> QED
    BY <2>1, ConcatEmptySeq
<1>7. NewEntries = <<e>>
  BY <1>5, <1>6 DEF NewEntries, a, b, m
<1>8. <<e>> \in Seq(Entry)
  BY <1>4
<1> QED
  BY <1>2, <1>3, <1>4, <1>7, <1>8 DEF Adds, a, b, e

LEMMA ChangedIs ==
    ASSUME TypeOK, NEW r \in Request, NEW case \in CaseIds
    PROVE  /\ FingerprintOf(r) \in Fingerprint
           /\ Changed(r, case) =
                 Committed(mem, r.key, r.body, FingerprintOf(r), case, attempts + 1)
           /\ attempts + 1 \in Nat \ {0}
           /\ r.body \notin Unnamed =>
                 FingerprintOf(r) = [body |-> r.body, expected |-> r.expected, id |-> 0]
<1>1. r.key \in Keys /\ r.body \in Bodies /\ r.expected \in Nat /\ attempts \in Nat
  BY DEF TypeOK, Request
<1>2. FingerprintOf(r) \in Fingerprint
  BY <1>1 DEF FingerprintOf, Fingerprint
<1>3. Changed(r, case) =
         Committed(mem, r.key, r.body, FingerprintOf(r), case, attempts + 1)
  BY DEF Changed, Committed, NextAudit
<1> QED
  BY <1>1, <1>2, <1>3 DEF FingerprintOf

LEMMA BeginType ==
    ASSUME TypeOK, NEW r \in Request, NEW case \in CaseIds, Begin(r, case),
           r.case # NoCase => case = r.case
    PROVE  TypeOK' /\ NextInv'
<1> DEFINE f == FingerprintOf(r)
<1>1. /\ r.key \in Keys /\ r.body \in Bodies /\ mem \in Snapshot
      /\ f \in Fingerprint /\ attempts + 1 \in Nat \ {0}
      /\ next' = Committed(mem, r.key, r.body, f, case, attempts + 1)
      /\ r.body \notin Unnamed => f = [body |-> r.body, expected |-> r.expected, id |-> 0]
  BY ChangedIs DEF Begin, TypeOK, Request
<1> HIDE DEF f
<1>2. next' \in Snapshot
  <2>1. Adds(mem, next', r.key, r.body, f, case)
    BY <1>1, CommittedAdds
  <2> QED
    BY <2>1 DEF Adds
<1>3. TypeOK'
  BY <1>1, <1>2 DEF TypeOK, Begin, files, told
<1>4. NextInv'
  BY <1>1 DEF NextInv, Begin, Committing
<1> QED
  BY <1>3, <1>4

LEMMA AnsweredType ==
    ASSUME TypeOK, NextInv, Committing
    PROVE  Answered \in Answer
<1>1. next \in Snapshot /\ Last(next.audit) \in Entry /\ request \in Request
  BY NewEntriesIs DEF NextInv
<1> QED
  BY <1>1 DEF Answered, Answer, Snapshot, Entry

LEMMA MirrorType ==
    ASSUME TypeOK, NEW lines \in Seq(Entry), NEW left,
           left = mirror \o lines \/ left \in PartlyAppended(mirror, lines)
    PROVE  left \in Seq(Entry \cup {Torn}) /\ synced \in 0 .. Len(left)
           /\ Len(left) \in 0 .. Len(left)
<1> DEFINE S == Entry \cup {Torn}
<1>1. mirror \in Seq(S) /\ lines \in Seq(S) /\ Torn \in S /\ synced \in 0 .. Len(mirror)
  BY SeqMonotonic DEF TypeOK
<1> HIDE DEF S
<1>2. left \in Seq(S) /\ Len(mirror) <= Len(left)
  <2>1. CASE left = mirror \o lines
    BY <1>1, <2>1, ConcatProperties, LenProperties
  <2> QED
    BY <1>1, <2>1, PartlyAppendedType
<1>3. Len(mirror) \in Nat /\ Len(left) \in Nat
  BY <1>1, <1>2, LenProperties
<1>4. synced \in 0 .. Len(left)
  BY <1>1, <1>2, <1>3
<1> QED
  BY <1>2, <1>3, <1>4 DEF S

LEMMA MissingType ==
    ASSUME TypeOK, MirrorAccepted
    PROVE  Missing \in Seq(Entry)
<1>1. /\ disk.audit \in Seq(Entry) /\ mirror \in Seq(Entry \cup {Torn})
      /\ Len(mirror) <= Len(disk.audit)
  BY DEF TypeOK, Snapshot, MirrorAccepted
<1>2. Len(mirror) \in Nat /\ Len(disk.audit) \in Nat
  BY <1>1, LenProperties
<1>3. Len(mirror) + 1 \in 1 .. Len(disk.audit) + 1 /\ Len(disk.audit) \in 0 .. Len(disk.audit)
  BY <1>1, <1>2
<1> QED
  BY <1>1, <1>3, PartType DEF Missing

(* What the operating system has of the mirror, for any lines it may have. *)
LEMMA WrittenType ==
    ASSUME NEW S, mirror \in Seq(S), pc = "synced" => NewEntries \in Seq(S),
           NEW lines \in Written
    PROVE  lines \in Seq(S) /\ Len(mirror) <= Len(lines)
<1>1. lines = mirror \/ (pc = "synced" /\ lines = mirror \o NewEntries)
  BY DEF Written
<1>2. Len(mirror) \in Nat
  BY LenProperties
<1>3. CASE lines = mirror
  BY <1>2, <1>3
<1>4. CASE pc = "synced" /\ lines = mirror \o NewEntries
  BY <1>2, <1>4, ConcatProperties, LenProperties
<1> QED
  BY <1>1, <1>3, <1>4

LEMMA AfterPowerType ==
    ASSUME NEW S, Torn \in S, mirror \in Seq(S), synced \in 0 .. Len(mirror),
           pc = "synced" => NewEntries \in Seq(S), NEW lines \in Written,
           NEW left \in PartlyAppended(SubSeq(lines, 1, synced),
                                       SubSeq(lines, synced + 1, Len(lines)))
    PROVE  left \in Seq(S)
<1>1. lines \in Seq(S) /\ Len(mirror) <= Len(lines)
  BY WrittenType
<1>2. Len(mirror) \in Nat /\ Len(lines) \in Nat
  BY <1>1, LenProperties
<1>3. /\ 1 \in 1 .. Len(lines) + 1 /\ synced \in 0 .. Len(lines)
      /\ synced + 1 \in 1 .. Len(lines) + 1 /\ Len(lines) \in 0 .. Len(lines)
  BY <1>1, <1>2
<1>4. /\ SubSeq(lines, 1, synced) \in Seq(S)
      /\ SubSeq(lines, synced + 1, Len(lines)) \in Seq(S)
  BY <1>1, <1>3, PartType
<1> QED
  BY <1>4, PartlyAppendedType

LEMMA OpeningType ==
    ASSUME TypeOK, NextInv, Open \/ OpenFails
    PROVE  TypeOK' /\ NextInv'
<1>1. Missing \in Seq(Entry)
  BY MissingType DEF Open, OpenFails
<1>2. CASE Open
  <2>1. mirror' = mirror \o Missing
    BY <1>2 DEF Open
  <2>2. /\ mirror' \in Seq(Entry \cup {Torn}) /\ synced \in 0 .. Len(mirror')
        /\ Len(mirror') \in 0 .. Len(mirror')
    BY <1>1, <2>1, MirrorType
  <2>3. synced' \in 0 .. Len(mirror')
    BY <1>2, <2>2 DEF Open
  <2> QED
    BY <1>2, <2>2, <2>3 DEF Open, TypeOK, NextInv, Committing, told
<1>3. CASE OpenFails
  <2>1. mirror' \in PartlyAppended(mirror, Missing)
    BY <1>3 DEF OpenFails
  <2>2. mirror' \in Seq(Entry \cup {Torn}) /\ synced \in 0 .. Len(mirror')
    BY <1>1, <2>1, MirrorType
  <2> QED
    BY <1>3, <2>2 DEF OpenFails, TypeOK, NextInv, Committing, told
<1> QED
  BY <1>2, <1>3

LEMMA AnsweringType ==
    ASSUME TypeOK, NextInv, NEW r \in Requests, Replay(r) \/ RefuseKey(r)
    PROVE  TypeOK' /\ NextInv'
<1>1. r \in Request
  BY StoreAssumption
<1>2. CASE Replay(r)
  <2>1. r.key \in Keys /\ mem \in Snapshot /\ mem.keys[r.key] # NoRecord
    BY <1>1, <1>2 DEF Replay, TypeOK, Request
  <2>2. mem.keys[r.key].case \in CaseIds /\ mem.keys[r.key].result \in Seq(Change)
    BY <2>1, RecordType
  <2>3. [request |-> r, case |-> mem.keys[r.key].case,
         result |-> mem.keys[r.key].result] \in Answer
    BY <1>1, <2>2 DEF Answer
  <2> QED
    BY <1>2, <2>3 DEF Replay, TypeOK, NextInv, Committing, files
<1>3. CASE RefuseKey(r)
  BY <1>1, <1>3 DEF RefuseKey, TypeOK, NextInv, Committing, files
<1> QED
  BY <1>2, <1>3

LEMMA CommitType ==
    ASSUME TypeOK, NextInv, CommitStep
    PROVE  TypeOK' /\ NextInv'
<1>1. Empty \in Snapshot
  BY EmptyType
<1>2. CASE WriteFails
  BY <1>1, <1>2 DEF WriteFails, Idle, TypeOK, NextInv, Committing, files, told
<1>3. CASE Rename
  BY <1>3 DEF Rename, TypeOK, NextInv, Committing, told
<1>4. CASE SyncFails
  BY <1>1, <1>4 DEF SyncFails, Idle, TypeOK, NextInv, Committing, files, told
<1>5. CASE Sync
  BY <1>5 DEF Sync, TypeOK, NextInv, Committing, told
<1>6. CASE AppendAudit
  <2>1. Committing /\ mirror' = mirror \o NewEntries
    BY <1>6 DEF AppendAudit, Committing
  <2>2. Answered \in Answer /\ NewEntries \in Seq(Entry)
    BY <2>1, AnsweredType, NewEntriesIs
  <2>3. mirror' \in Seq(Entry \cup {Torn}) /\ Len(mirror') \in 0 .. Len(mirror')
    BY <2>1, <2>2, MirrorType
  <2>4. acked' \in SUBSET Answer
    BY <1>6, <2>2 DEF AppendAudit, TypeOK
  <2> QED
    BY <1>1, <1>6, <2>3, <2>4 DEF AppendAudit, Idle, TypeOK, NextInv, Committing
<1>7. CASE AppendFails
  <2>1. Committing /\ mirror' \in PartlyAppended(mirror, NewEntries)
    BY <1>7 DEF AppendFails, Committing
  <2>2. NewEntries \in Seq(Entry)
    BY <2>1, NewEntriesIs
  <2>3. mirror' \in Seq(Entry \cup {Torn}) /\ synced \in 0 .. Len(mirror')
    BY <2>1, <2>2, MirrorType
  <2> QED
    BY <1>1, <1>7, <2>3 DEF AppendFails, Idle, TypeOK, NextInv, Committing, told
<1> QED
  BY <1>2, <1>3, <1>4, <1>5, <1>6, <1>7 DEF CommitStep

LEMMA DownType ==
    ASSUME TypeOK, NextInv, Crash \/ PowerFails
    PROVE  TypeOK' /\ NextInv'
<1> DEFINE S == Entry \cup {Torn}
<1>1. /\ mirror \in Seq(S) /\ Torn \in S /\ synced \in 0 .. Len(mirror)
      /\ Len(mirror) \in Nat
  BY LenProperties DEF TypeOK
<1>2. pc = "synced" => NewEntries \in Seq(S)
  BY NewEntriesIs, SeqMonotonic DEF Committing
<1> HIDE DEF S
<1>3. Empty \in Snapshot
  BY EmptyType
<1>4. mirror' \in Seq(S) /\ synced' \in 0 .. Len(mirror')
  <2>1. CASE Crash
    <3>1. mirror' \in Written /\ synced' = synced
      BY <2>1 DEF Crash
    <3>2. mirror' \in Seq(S) /\ Len(mirror) <= Len(mirror') /\ Len(mirror') \in Nat
      BY <1>1, <1>2, <3>1, WrittenType, LenProperties
    <3> QED
      BY <1>1, <3>1, <3>2
  <2>2. CASE PowerFails
    <3>1. PICK lines \in Written :
             mirror' \in PartlyAppended(SubSeq(lines, 1, synced),
                                        SubSeq(lines, synced + 1, Len(lines)))
      BY <2>2 DEF PowerFails
    <3>2. mirror' \in Seq(S) /\ Len(mirror') \in Nat
      BY <1>1, <1>2, <3>1, AfterPowerType, LenProperties
    <3> QED
      BY <2>2, <3>2 DEF PowerFails
  <2> QED
    BY <2>1, <2>2
<1>5. mirror' \in Seq(Entry \cup {Torn})
  BY <1>4 DEF S
<1>6. disk' \in Snapshot /\ durable' \in Snapshot
  BY DEF Crash, PowerFails, TypeOK
<1> QED
  BY <1>3, <1>4, <1>5, <1>6 DEF Crash, PowerFails, Down, TypeOK, NextInv, Committing, told

LEMMA NextType == TypeOK /\ NextInv /\ [Next]_vars => TypeOK' /\ NextInv'
<1> SUFFICES ASSUME TypeOK, NextInv, [Next]_vars PROVE TypeOK' /\ NextInv'
  OBVIOUS
<1>1. CASE Open \/ OpenFails
  BY <1>1, OpeningType
<1>2. ASSUME NEW r \in Requests, Replay(r) \/ RefuseKey(r)
      PROVE  TypeOK' /\ NextInv'
  BY <1>2, AnsweringType
<1>3. ASSUME NEW r \in Requests, NEW case \in CaseIds, Create(r, case)
      PROVE  TypeOK' /\ NextInv'
  BY <1>3, BeginType, StoreAssumption DEF Create
<1>4. ASSUME NEW r \in Requests, Update(r)
      PROVE  TypeOK' /\ NextInv'
  <2>1. r \in Request /\ r.case \in CaseIds /\ Begin(r, r.case)
    BY <1>4, StoreAssumption DEF Update, Request
  <2> QED
    BY <2>1, BeginType
<1>5. CASE CommitStep
  BY <1>5, CommitType
<1>6. CASE Crash \/ PowerFails
  BY <1>6, DownType
<1>7. CASE UNCHANGED vars
  BY <1>7 DEF vars, files, told, TypeOK, NextInv, Committing
<1> QED
  BY <1>1, <1>2, <1>3, <1>4, <1>5, <1>6, <1>7 DEF Next, CommitStep

(* Everything the store keeps, in memory, on disk and in the mirror, has   *)
(* its type through every failure.                                         *)
THEOREM TypeCorrect == Spec => []TypeOK
<1>1. TypeOK /\ NextInv /\ [Next]_vars => (TypeOK /\ NextInv)'
  BY NextType
<1> QED
  BY <1>1, InitType, PTL DEF Spec

-----------------------------------------------------------------------------
(* What callers are served changes by whole commits *)

FilesInv == DiskInv /\ (OneKindOfCrash => DurableInv)

(* Without a commit under way, the disk is at most one commit ahead, and   *)
(* with one, the snapshot being committed is.                              *)
LEMMA NextIsAhead ==
    ASSUME TypeOK, NextInv, Committing
    PROVE  CommitOf(mem, next) /\ Ahead(mem, next)
  BY DEF NextInv, CommitOf, Ahead, Request

LEMMA InitFiles == Init => FilesInv
  BY DEF Init, FilesInv, DiskInv, DurableInv, Served

LEMMA NextFiles ==
    ASSUME TypeOK, NextInv, FilesInv, [Next]_vars
    PROVE  FilesInv'
<1>1. CASE Open \/ OpenFails
  BY <1>1 DEF Open, OpenFails, FilesInv, DiskInv, DurableInv, OneKindOfCrash, Served, Ahead, told
<1>2. ASSUME NEW r \in Requests, Replay(r) \/ RefuseKey(r)
      PROVE  FilesInv'
  BY <1>2 DEF Replay, RefuseKey, FilesInv, DiskInv, DurableInv, OneKindOfCrash, Served, files
<1>3. ASSUME NEW r \in Requests, NEW case \in CaseIds, Begin(r, case)
      PROVE  FilesInv'
  BY <1>3 DEF Begin, FilesInv, DiskInv, DurableInv, OneKindOfCrash, Served, files
<1>4. CASE WriteFails
  BY <1>4 DEF WriteFails, Idle, FilesInv, DiskInv, DurableInv, OneKindOfCrash, Served, files
<1>5. CASE Rename
  BY <1>5 DEF Rename, FilesInv, DiskInv, DurableInv, OneKindOfCrash, Served
<1>6. CASE SyncFails
  <2>1. Ahead(mem, disk)
    BY <1>6, NextIsAhead DEF SyncFails, Committing, FilesInv, DiskInv
  <2> QED
    BY <1>6, <2>1 DEF SyncFails, Idle, FilesInv, DiskInv, DurableInv, OneKindOfCrash, Served, files
<1>7. CASE Sync
  BY <1>7 DEF Sync, FilesInv, DiskInv, DurableInv, OneKindOfCrash, Served
<1>8. CASE AppendAudit \/ AppendFails
  BY <1>8 DEF AppendAudit, AppendFails, Idle, FilesInv, DiskInv, DurableInv,
              OneKindOfCrash, Served, Ahead
<1>9. CASE Crash
  BY <1>9 DEF Crash, Down, FilesInv, DiskInv, DurableInv, OneKindOfCrash, Served
<1>10. CASE PowerFails
  BY <1>10 DEF PowerFails, Down, FilesInv, DiskInv, DurableInv, OneKindOfCrash, Served
<1>11. CASE UNCHANGED vars
  BY <1>11 DEF vars, files, told, FilesInv, DiskInv, DurableInv, OneKindOfCrash, Served
<1> QED
  BY <1>1, <1>2, <1>3, <1>4, <1>5, <1>6, <1>7, <1>8, <1>9, <1>10, <1>11,
     StoreAssumption DEF Next, Create, Update, Request

(* The disk is what callers are served, or one commit ahead of it, and     *)
(* what a power failure can bring back is one of the two.                  *)
LEMMA DiskIsAhead ==
    ASSUME TypeOK, NextInv, FilesInv
    PROVE  /\ Served \in Snapshot
           /\ Ahead(Served, disk)
           /\ OneKindOfCrash /\ "crash" \notin faults => Ahead(Served, durable)
<1>1. pc \in {"down", "idle", "writing", "renamed", "synced"} /\ Served \in Snapshot
  BY DEF TypeOK, Served
<1>2. CASE pc = "down"
  BY <1>1, <1>2 DEF Served, Ahead, FilesInv, DurableInv
<1>3. CASE pc \in {"idle", "writing"}
  BY <1>1, <1>3 DEF Served, Ahead, FilesInv, DiskInv, DurableInv
<1>4. CASE pc \in {"renamed", "synced"}
  <2>1. Ahead(mem, next) /\ disk = next
    BY <1>4, NextIsAhead DEF Committing, FilesInv, DiskInv
  <2> QED
    BY <1>1, <1>4, <2>1 DEF Served, Ahead, FilesInv, DurableInv
<1> QED
  BY <1>1, <1>2, <1>3, <1>4

(* Whatever a step does, callers are served what they were served before,  *)
(* or one whole commit more.                                               *)
LEMMA ServedSteps ==
    ASSUME TypeOK, NextInv, FilesInv, OneKindOfCrash, [Next]_vars
    PROVE  Ahead(Served, Served')
<1>1. CASE Open \/ OpenFails
  BY <1>1 DEF Open, OpenFails, Served, Ahead
<1>2. ASSUME NEW r \in Requests, Replay(r) \/ RefuseKey(r)
      PROVE  Ahead(Served, Served')
  BY <1>2 DEF Replay, RefuseKey, Served, Ahead
<1>3. ASSUME NEW r \in Requests, NEW case \in CaseIds, Begin(r, case)
      PROVE  Ahead(Served, Served')
  BY <1>3 DEF Begin, Served, Ahead
<1>4. CASE WriteFails \/ Rename \/ SyncFails \/ Sync
  BY <1>4 DEF WriteFails, Rename, SyncFails, Sync, Idle, Served, Ahead
<1>5. CASE AppendAudit \/ AppendFails
  <2>1. Ahead(mem, next) /\ Served = mem /\ Served' = next
    BY <1>5, NextIsAhead DEF AppendAudit, AppendFails, Idle, Committing, Served
  <2> QED
    BY <2>1
<1>6. CASE Crash
  <2>1. Served' = disk
    BY <1>6 DEF Crash, Down, Served
  <2> QED
    BY <2>1, DiskIsAhead
<1>7. CASE PowerFails
  <2>1. Served' \in {disk, durable} /\ "crash" \notin faults
    BY <1>7 DEF PowerFails, Down, Served, OneKindOfCrash
  <2> QED
    BY <2>1, DiskIsAhead
<1>8. CASE UNCHANGED vars
  BY <1>8 DEF vars, files, Served, Ahead
<1> QED
  BY <1>1, <1>2, <1>3, <1>4, <1>5, <1>6, <1>7, <1>8,
     StoreAssumption DEF Next, Create, Update, Request

-----------------------------------------------------------------------------
(* What clients were told, and the mirror *)

PromiseInv == OneKindOfCrash => ServedInv /\ ToldInv /\ MirrorInv /\ CompleteInv

Inv == TypeOK /\ NextInv /\ FilesInv /\ PromiseInv

LEMMA AheadPrefix ==
    ASSUME NEW s \in Snapshot, NEW t, Ahead(s, t)
    PROVE  IsPrefix(s.audit, t.audit)
<1>1. s.audit \in Seq(Entry)
  BY DEF Snapshot
<1>2. CASE t = s
  BY <1>1, <1>2, PrefixOfItself
<1>3. CASE CommitOf(s, t)
  <2>1. PICK key \in Keys, body \in Bodies, f \in Fingerprint, case \in CaseIds,
             hash \in Nat \ {0} :
           t = Committed(s, key, body, f, case, hash)
    BY <1>3 DEF CommitOf
  <2>2. Adds(s, t, key, body, f, case)
    BY <2>1, CommittedAdds
  <2> DEFINE e == Last(t.audit)
  <2>3. e \in Entry /\ t.audit = Append(s.audit, e)
    BY <2>2 DEF Adds
  <2> HIDE DEF e
  <2> QED
    BY <1>1, <2>3, PrefixOfItself, PrefixOfAppend
<1> QED
  BY <1>2, <1>3 DEF Ahead

LEMMA InitPromise == Init => PromiseInv
<1> SUFFICES ASSUME Init PROVE ServedInv /\ ToldInv /\ MirrorInv /\ CompleteInv
  BY DEF PromiseInv
<1>1. Served = Empty /\ mirror = <<>> /\ disk = Empty
  BY DEF Init, Served
<1>2. Empty.audit = <<>> /\ \A k \in Keys : Empty.keys[k] = NoRecord
  BY DEF Empty
<1>3. Chained(<<>>)
  <2> DEFINE a == <<>>
  <2>1. a \in Seq({}) /\ Len(a) = 0
    BY EmptySeq
  <2> HIDE DEF a
  <2>2. DOMAIN a = {}
    BY <2>1, LenProperties
  <2>3. ToSet(a) = {}
    BY <2>2 DEF ToSet
  <2>4. Chained(a)
    BY <2>2, <2>3 DEF Chained
  <2> QED
    BY <2>4 DEF a
<1>4. <<>> \in Seq(ToSet(<<>>) \cup {Torn}) /\ IsPrefix(<<>>, <<>>)
  BY EmptySeq, PrefixOfItself
<1> QED
  BY <1>1, <1>2, <1>3, <1>4 DEF Init, ServedInv, ToldInv, MirrorInv, CompleteInv

LEMMA NextServed ==
    ASSUME Inv, OneKindOfCrash, [Next]_vars
    PROVE  ServedInv'
<1> DEFINE s == Served
           t == Served'
<1>1. s \in Snapshot /\ Ahead(s, t)
  BY DiskIsAhead, ServedSteps DEF Inv
<1>2. Chained(s.audit) /\ \A k \in Keys : s.keys[k] # NoRecord => Holds(s, s.keys[k])
  BY DEF Inv, PromiseInv, ServedInv
<1> HIDE DEF s, t
<1>3. Chained(t.audit) /\ \A k \in Keys : t.keys[k] # NoRecord => Holds(t, t.keys[k])
  BY <1>1, <1>2, AheadChained, AheadHolds
<1> QED
  BY <1>3 DEF ServedInv, t

(* The answer to the request being committed is what its record will tell. *)
LEMMA AnsweredTells ==
    ASSUME TypeOK, NextInv, Committing
    PROVE  Tells(next, Answered)
<1>1. PICK f \in Fingerprint, case \in CaseIds, hash \in Nat \ {0} :
         /\ next = Committed(mem, request.key, request.body, f, case, hash)
         /\ request.case # NoCase => case = request.case
         /\ request.body \notin Unnamed =>
               f = [body |-> request.body, expected |-> request.expected, id |-> 0]
  BY DEF NextInv
<1>2. mem \in Snapshot /\ request \in Request /\ request.key \in Keys /\ request.body \in Bodies
  BY DEF TypeOK, NextInv, Request
<1>3. Adds(mem, next, request.key, request.body, f, case)
  BY <1>1, <1>2, CommittedAdds
<1> DEFINE record == next.keys[request.key]
<1>4. /\ record = [fingerprint |-> f, case |-> case, result |-> next.cases[case]]
      /\ record # NoRecord
      /\ Last(next.audit).case = case
  BY <1>2, <1>3 DEF Adds, Snapshot
<1> HIDE DEF record
<1>5. /\ record.case = case /\ record.result = next.cases[case] /\ record.fingerprint = f
      /\ Answered.request = request /\ Answered.case = case
      /\ Answered.result = next.cases[case]
  BY <1>4 DEF Answered
<1>6. request.body \notin Unnamed => SameCommand(request, record)
  BY <1>1, <1>5 DEF SameCommand, FingerprintOf
<1> QED
  BY <1>4, <1>5, <1>6 DEF Tells, record

LEMMA NextTold ==
    ASSUME Inv, OneKindOfCrash, [Next]_vars
    PROVE  ToldInv'
<1> DEFINE s == Served
           t == Served'
<1>1. s \in Snapshot /\ Ahead(s, t)
  BY DiskIsAhead, ServedSteps DEF Inv
<1>2. (\A a \in acked : Tells(s, a)) /\ (\A r \in refused : Refuses(s, r))
      /\ acked \subseteq Answer /\ refused \subseteq Request
  BY DEF Inv, PromiseInv, ToldInv, TypeOK
<1> HIDE DEF s, t
<1>3. (\A a \in acked : Tells(t, a)) /\ (\A r \in refused : Refuses(t, r))
  BY <1>1, <1>2, AheadTells
<1>4. (\A a \in acked' : Tells(t, a)) /\ (\A r \in refused' : Refuses(t, r))
  <2>1. CASE UNCHANGED told
    BY <1>3, <2>1 DEF told
  <2>2. ASSUME NEW r \in Requests, Replay(r)
        PROVE  (\A a \in acked' : Tells(t, a)) /\ (\A q \in refused' : Refuses(t, q))
    <3> DEFINE a == [request |-> r, case |-> mem.keys[r.key].case,
                     result |-> mem.keys[r.key].result]
    <3>1. acked' = acked \cup {a} /\ refused' = refused /\ t = mem
      BY <2>2 DEF Replay, t, Served
    <3>2. Tells(t, a)
      BY <2>2, <3>1 DEF Replay, Tells
    <3> QED
      BY <1>3, <3>1, <3>2
  <2>3. ASSUME NEW r \in Requests, RefuseKey(r)
        PROVE  (\A a \in acked' : Tells(t, a)) /\ (\A q \in refused' : Refuses(t, q))
    <3>1. acked' = acked /\ refused' = refused \cup {r} /\ t = mem
      BY <2>3 DEF RefuseKey, t, Served
    <3>2. Refuses(t, r)
      BY <2>3, <3>1 DEF RefuseKey, Refuses
    <3> QED
      BY <1>3, <3>1, <3>2
  <2>4. CASE AppendAudit
    <3>1. acked' = acked \cup {Answered} /\ refused' = refused /\ t = next
      BY <2>4 DEF AppendAudit, Idle, t, Served
    <3>2. Tells(t, Answered)
      BY <2>4, <3>1, AnsweredTells DEF Inv, AppendAudit, Committing
    <3> QED
      BY <1>3, <3>1, <3>2
  <2> QED
    BY <2>1, <2>2, <2>3, <2>4
       DEF Next, vars, Open, OpenFails, Create, Update, Begin, WriteFails, Rename, SyncFails,
           Sync, AppendFails, Crash, PowerFails, Down, told
<1>5. \A r : r.body \notin Unnamed => FingerprintOf(r)' = FingerprintOf(r)
  BY DEF FingerprintOf
<1> QED
  BY <1>4, <1>5 DEF ToldInv, Tells, Refuses, SameCommand, t

(* Lines that come from the trail of what is served stay in it. *)
LEMMA NewEntriesLines ==
    ASSUME TypeOK, NextInv, Committing
    PROVE  NewEntries \in Seq(ToSet(next.audit))
<1> DEFINE e == Last(next.audit)
           a == mem.audit
<1>1. NewEntries = <<e>> /\ e \in Entry /\ next.audit = Append(a, e) /\ a \in Seq(Entry)
  BY NewEntriesIs DEF Snapshot
<1> HIDE DEF e, a
<1>2. e \in ToSet(next.audit)
  BY <1>1, ToSetOfAppend
<1> QED
  BY <1>1, <1>2

LEMMA MissingLines ==
    ASSUME TypeOK, MirrorAccepted
    PROVE  Missing \in Seq(ToSet(disk.audit))
<1> DEFINE a == disk.audit
<1>1. a \in Seq(Entry) /\ mirror \in Seq(Entry \cup {Torn}) /\ Len(mirror) <= Len(a)
  BY DEF TypeOK, Snapshot, MirrorAccepted
<1> HIDE DEF a
<1>2. Len(mirror) \in Nat /\ Len(a) \in Nat /\ a \in Seq(ToSet(a))
  BY <1>1, LenProperties, ToSetType
<1>3. Len(mirror) + 1 \in 1 .. Len(a) + 1 /\ Len(a) \in 0 .. Len(a)
  BY <1>1, <1>2
<1> QED
  BY <1>2, <1>3, PartType DEF Missing, a

LEMMA NextMirror ==
    ASSUME Inv, OneKindOfCrash, [Next]_vars
    PROVE  MirrorInv'
<1> DEFINE S == ToSet(Served'.audit) \cup {Torn}
<1>1. mirror \in Seq(S)
  <2>1. ToSet(Served.audit) \subseteq ToSet(Served'.audit)
    BY DiskIsAhead, ServedSteps, AheadKeeps DEF Inv
  <2> QED
    BY <2>1, SeqMonotonic DEF Inv, PromiseInv, MirrorInv
<1>2. ASSUME NEW a, ToSet(a) \subseteq ToSet(Served'.audit), NEW lines \in Seq(ToSet(a))
      PROVE  lines \in Seq(S)
  BY <1>2, SeqMonotonic
<1>3. Torn \in S
  OBVIOUS
<1>4. TypeOK /\ NextInv /\ FilesInv
  BY DEF Inv
<1>5. (pc = "synced" /\ Served' = next) => NewEntries \in Seq(S)
  BY <1>2, <1>4, NewEntriesLines DEF Committing
<1>6. mirror' \in Seq(S)
  <2>1. CASE Open \/ OpenFails
    <3>1. Served' = disk
      BY <2>1 DEF Open, OpenFails, Served
    <3>2. Missing \in Seq(ToSet(disk.audit))
      BY <1>4, <2>1, MissingLines DEF Open, OpenFails
    <3>3. Missing \in Seq(S)
      BY <1>2, <3>1, <3>2
    <3>4. mirror' = mirror \o Missing \/ mirror' \in PartlyAppended(mirror, Missing)
      BY <2>1 DEF Open, OpenFails
    <3> HIDE DEF S
    <3>5. mirror \o Missing \in Seq(S)
      BY <1>1, <3>3, ConcatProperties
    <3>6. \A left \in PartlyAppended(mirror, Missing) : left \in Seq(S)
      BY <1>1, <1>3, <3>3, PartlyAppendedType
    <3> QED
      BY <3>4, <3>5, <3>6
  <2>2. CASE AppendAudit \/ AppendFails
    <3>1. pc = "synced" /\ Served' = next
      BY <2>2 DEF AppendAudit, AppendFails, Idle, Served
    <3>2. mirror' = mirror \o NewEntries \/ mirror' \in PartlyAppended(mirror, NewEntries)
      BY <2>2 DEF AppendAudit, AppendFails
    <3> HIDE DEF S
    <3>3. mirror \o NewEntries \in Seq(S)
      BY <1>1, <1>5, <3>1, ConcatProperties
    <3>4. \A left \in PartlyAppended(mirror, NewEntries) : left \in Seq(S)
      BY <1>1, <1>3, <1>5, <3>1, PartlyAppendedType
    <3> QED
      BY <3>2, <3>3, <3>4
  <2>3. CASE Crash
    <3>1. mirror' \in Written /\ (pc = "synced" => Served' = next)
      BY <1>4, <2>3 DEF Crash, Down, Served, FilesInv, DiskInv
    <3> HIDE DEF S
    <3> QED
      BY <1>1, <1>5, <3>1, WrittenType
  <2>4. CASE PowerFails
    <3>1. pc = "synced" => Served' = next
      BY <1>4, <2>4 DEF PowerFails, Down, Served, FilesInv, DiskInv, DurableInv, OneKindOfCrash
    <3>2. PICK lines \in Written :
             mirror' \in PartlyAppended(SubSeq(lines, 1, synced),
                                        SubSeq(lines, synced + 1, Len(lines)))
      BY <2>4 DEF PowerFails
    <3>3. synced \in 0 .. Len(mirror)
      BY <1>4 DEF TypeOK
    <3> HIDE DEF S
    <3> QED
      BY <1>1, <1>3, <1>5, <3>1, <3>2, <3>3, AfterPowerType
  <2>5. CASE UNCHANGED mirror
    BY <1>1, <2>5
  <2> QED
    BY <2>1, <2>2, <2>3, <2>4, <2>5
       DEF Next, vars, Replay, RefuseKey, Create, Update, Begin, WriteFails, Rename,
           SyncFails, Sync, files
<1> QED
  BY <1>6 DEF MirrorInv

(* Recovery completes a mirror that is a prefix of the trail. *)
LEMMA Recovered ==
    ASSUME TypeOK, IsPrefix(mirror, disk.audit)
    PROVE  mirror \o Missing = disk.audit
<1> DEFINE a == disk.audit
<1>1. a \in Seq(Entry) /\ mirror \in Seq(Entry \cup {Torn})
  BY DEF TypeOK, Snapshot
<1>2. Len(mirror) <= Len(a) /\ SubSeq(mirror, 1, Len(mirror)) = SubSeq(a, 1, Len(mirror))
  BY DEF IsPrefix
<1> HIDE DEF a
<1>3. Len(mirror) \in Nat /\ Len(a) \in Nat
  BY <1>1, LenProperties
<1>4. mirror = SubSeq(a, 1, Len(mirror)) /\ SubSeq(a, 1, Len(a)) = a
  BY <1>1, <1>2, SubSeqFull
<1>5. 1 \in 1 .. Len(a) + 1 /\ Len(mirror) \in 1 - 1 .. Len(a) /\ Len(a) \in Len(mirror) .. Len(a)
  BY <1>2, <1>3
<1>6. SubSeq(a, 1, Len(mirror)) \o SubSeq(a, Len(mirror) + 1, Len(a)) = SubSeq(a, 1, Len(a))
  BY <1>1, <1>5, ConcatAdjacentSubSeq
<1> QED
  BY <1>4, <1>6 DEF Missing, a

LEMMA NextComplete ==
    ASSUME Inv, OneKindOfCrash, [Next]_vars
    PROVE  CompleteInv'
<1> SUFFICES ASSUME faults' \subseteq {"write", "crash"}
             PROVE  IF pc' = "down" THEN IsPrefix(mirror', disk'.audit)
                    ELSE mirror' = mem'.audit
  BY DEF CompleteInv
<1>1. TypeOK /\ NextInv /\ FilesInv
  BY DEF Inv
<1>2. faults' = faults
  BY DEF Next, vars, Open, OpenFails, Replay, RefuseKey, Create, Update, Begin, WriteFails,
         Rename, SyncFails, Sync, AppendAudit, AppendFails, Crash, PowerFails, Down
<1>3. "append" \notin faults /\ "power" \notin faults
  BY <1>2
<1>4. IF pc = "down" THEN IsPrefix(mirror, disk.audit) ELSE mirror = mem.audit
  BY <1>2 DEF Inv, PromiseInv, CompleteInv
<1>5. ASSUME Committing PROVE mem.audit \o NewEntries = next.audit
  <2> DEFINE a == mem.audit
             e == Last(next.audit)
  <2>1. a \in Seq(Entry) /\ NewEntries = <<e>> /\ e \in Entry /\ next.audit = Append(a, e)
    BY <1>1, <1>5, NewEntriesIs DEF Snapshot
  <2> HIDE DEF a, e
  <2>2. Append(a, e) = a \o <<e>>
    BY <2>1, AppendIsConcat
  <2> QED
    BY <2>1, <2>2 DEF a
<1>6. CASE Open
  <2>1. IsPrefix(mirror, disk.audit)
    BY <1>4, <1>6 DEF Open
  <2> QED
    BY <1>1, <1>6, <2>1, Recovered DEF Open
<1>7. ASSUME NEW r \in Requests,
             Replay(r) \/ RefuseKey(r) \/ Update(r) \/ \E case \in CaseIds : Create(r, case)
      PROVE  pc' # "down" /\ mirror' = mem'.audit
  BY <1>4, <1>7 DEF Replay, RefuseKey, Update, Create, Begin, files
<1>8. CASE WriteFails \/ Rename \/ SyncFails \/ Sync
  BY <1>4, <1>8 DEF WriteFails, Rename, SyncFails, Sync, Idle, files
<1>9. CASE AppendAudit
  BY <1>4, <1>5, <1>9 DEF AppendAudit, Idle, Committing
<1>10. CASE Crash
  <2>1. pc # "down" /\ disk' = disk /\ mirror' \in Written /\ pc' = "down"
    BY <1>10 DEF Crash, Down
  <2>2. IsPrefix(mem.audit, disk.audit) /\ mirror = mem.audit
    <3>1. Served = mem
      BY <2>1 DEF Served
    <3> QED
      BY <1>1, <1>4, <2>1, <3>1, DiskIsAhead, AheadPrefix
  <2>3. CASE mirror' = mirror
    BY <2>1, <2>2, <2>3
  <2>4. CASE pc = "synced" /\ mirror' = mirror \o NewEntries
    <3>1. mirror' = disk.audit
      BY <1>1, <1>5, <2>2, <2>4 DEF Committing, FilesInv, DiskInv
    <3>2. disk.audit \in Seq(Entry)
      BY <1>1 DEF TypeOK, Snapshot
    <3> QED
      BY <2>1, <3>1, <3>2, PrefixOfItself
  <2> QED
    BY <2>1, <2>3, <2>4 DEF Written
<1>11. CASE UNCHANGED vars
  BY <1>4, <1>11 DEF vars, files
<1> QED
  BY <1>3, <1>6, <1>7, <1>8, <1>9, <1>10, <1>11 DEF Next, OpenFails, AppendFails, PowerFails

-----------------------------------------------------------------------------
(* The theorems *)

LEMMA Invariance == Spec => []Inv
<1>1. Init => Inv
  BY InitType, InitFiles, InitPromise DEF Inv
<1>2. Inv /\ [Next]_vars => Inv'
  <2> SUFFICES ASSUME Inv, [Next]_vars PROVE Inv'
    OBVIOUS
  <2>1. TypeOK' /\ NextInv' /\ FilesInv'
    BY NextType, NextFiles DEF Inv
  <2>2. OneKindOfCrash' => OneKindOfCrash
    BY DEF OneKindOfCrash, Next, vars, Open, OpenFails, Replay, RefuseKey, Create, Update,
           Begin, WriteFails, Rename, SyncFails, Sync, AppendAudit, AppendFails, Crash,
           PowerFails, Down
  <2>3. PromiseInv'
    BY <2>2, NextServed, NextTold, NextMirror, NextComplete DEF PromiseInv
  <2> QED
    BY <2>1, <2>3 DEF Inv
<1> QED
  BY <1>1, <1>2, PTL DEF Spec

(* An acknowledged command is never lost: not by a failing write, not by a *)
(* failing append, not by a killed process and not by a power failure, as  *)
(* long as one history does not see both kinds of crash (store.go:33).     *)
THEOREM AcknowledgedIsKept == Spec => [](OneKindOfCrash => AckedSurvives)
<1>1. Inv => (OneKindOfCrash => AckedSurvives)
  <2> SUFFICES ASSUME Inv, OneKindOfCrash, NEW a \in acked
               PROVE  Holds(disk, a) /\ (pc # "down" => Holds(mem, a))
    BY DEF AckedSurvives
  <2>1. /\ Served \in Snapshot /\ Ahead(Served, disk) /\ a \in Answer
        /\ Tells(Served, a)
        /\ \A k \in Keys : Served.keys[k] # NoRecord => Holds(Served, Served.keys[k])
    BY DiskIsAhead DEF Inv, TypeOK, PromiseInv, ToldInv, ServedInv
  <2>2. a.request.key \in Keys /\ a.case \in CaseIds /\ a.result \in Seq(Change)
    BY <2>1 DEF Answer, Request
  <2>3. Holds(Served, a)
    BY <2>1, <2>2 DEF Tells, Holds
  <2>4. Holds(disk, a)
    BY <2>1, <2>2, <2>3, AheadKeeps, HoldsOn
  <2> QED
    BY <2>3, <2>4 DEF Served
<1> QED
  BY <1>1, Invariance, PTL

(* However often a key is sent, it is acknowledged with one result. *)
KeyHasOneResult ==
    \A a, b \in acked : a.request.key = b.request.key =>
        a.result = b.result /\ a.case = b.case

(* A request that was acknowledged is not refused as another command,      *)
(* unless it leaves the choice of an id to the service.                    *)
NamedIsNotRefused ==
    \A a \in acked : a.request.body \notin Unnamed => a.request \notin refused

(* A key answers one command with one result for ever, and never refuses   *)
(* what it answered, where every id comes with the command: an id the      *)
(* service chooses is in the fingerprint, and a retry gets another         *)
(* (UnnamedRetry.cfg).                                                     *)
THEOREM KeyIsOneCommand ==
    Spec => [](OneKindOfCrash =>
                  /\ KeyHasOneResult
                  /\ NamedIsNotRefused
                  /\ Unnamed = {} => KeyAnswersOneCommand)
<1>1. Inv /\ OneKindOfCrash =>
         KeyHasOneResult /\ NamedIsNotRefused /\ (Unnamed = {} => KeyAnswersOneCommand)
  <2> SUFFICES ASSUME Inv, OneKindOfCrash
               PROVE  KeyHasOneResult /\ NamedIsNotRefused
                      /\ (Unnamed = {} => KeyAnswersOneCommand)
    OBVIOUS
  <2>1. /\ \A a \in acked : Tells(Served, a)
        /\ \A r \in refused : Refuses(Served, r)
    BY DEF Inv, PromiseInv, ToldInv
  <2>2. KeyHasOneResult
    BY <2>1 DEF Tells, KeyHasOneResult
  <2>3. NamedIsNotRefused
    BY <2>1 DEF Tells, Refuses, NamedIsNotRefused
  <2> QED
    BY <2>2, <2>3 DEF KeyAnswersOneCommand, KeyHasOneResult, NamedIsNotRefused
<1> QED
  BY <1>1, Invariance, PTL

LEMMA DiskChained ==
    ASSUME Inv, OneKindOfCrash
    PROVE  /\ Chained(disk.audit) /\ disk.audit \in Seq(Entry)
           /\ ToSet(Served.audit) \subseteq ToSet(disk.audit)
<1> DEFINE s == Served
           t == disk
<1>1. s \in Snapshot /\ Ahead(s, t) /\ Chained(s.audit)
  BY DiskIsAhead DEF Inv, PromiseInv, ServedInv
<1> HIDE DEF s, t
<1>2. Chained(t.audit) /\ t \in Snapshot /\ ToSet(s.audit) \subseteq ToSet(t.audit)
  BY <1>1, AheadChained, AheadKeeps
<1>3. t.audit \in Seq(Entry)
  BY <1>2 DEF Snapshot
<1> QED
  BY <1>2, <1>3 DEF s, t

(* Whatever the mirror says was committed was: no failure or crash leaves  *)
(* a line in it that the snapshot on disk does not have (store.go:253).    *)
THEOREM MirrorNeverLeads == Spec => [](OneKindOfCrash => MirrorIsBehind)
<1>1. Inv => (OneKindOfCrash => MirrorIsBehind)
  <2> SUFFICES ASSUME Inv, OneKindOfCrash, NEW i \in DOMAIN mirror, mirror[i] # Torn
               PROVE  /\ mirror[i].sequence <= Len(disk.audit)
                      /\ disk.audit[mirror[i].sequence] = mirror[i]
    BY DEF MirrorIsBehind
  <2>1. mirror \in Seq(ToSet(Served.audit) \cup {Torn})
    BY DEF Inv, PromiseInv, MirrorInv
  <2>2. mirror[i] \in ToSet(Served.audit)
    BY <2>1, LenProperties, ElementOfSeq
  <2> DEFINE a == disk.audit
  <2>3. Chained(a) /\ a \in Seq(Entry) /\ mirror[i] \in ToSet(a)
    BY <2>2, DiskChained
  <2> HIDE DEF a
  <2>4. PICK j \in 1 .. Len(a) : a[j] = mirror[i]
    BY <2>3, ToSetType
  <2>5. DOMAIN a = 1 .. Len(a) /\ Len(a) \in Nat
    BY <2>3, LenProperties
  <2>6. mirror[i].sequence = j
    BY <2>3, <2>4, <2>5 DEF Chained
  <2> QED
    BY <2>4, <2>5, <2>6 DEF a
<1> QED
  BY <1>1, Invariance, PTL

(* Killed processes and failing writes never leave files that the next     *)
(* process cannot open.                                                    *)
THEOREM KilledIsReopenable == Spec => []CrashReopenable
<1>1. Inv => CrashReopenable
  <2> SUFFICES ASSUME Inv, faults \subseteq {"write", "crash"}
               PROVE  Chained(disk.audit) /\ MirrorAccepted
    BY DEF CrashReopenable, Reopenable
  <2>1. OneKindOfCrash
    BY DEF OneKindOfCrash
  <2> DEFINE a == disk.audit
             b == mirror
  <2>2. Chained(a) /\ a \in Seq(Entry)
    BY <2>1, DiskChained
  <2>3. IsPrefix(b, a)
    <3>1. pc # "down" => mirror = mem.audit /\ Served = mem
      BY <2>1 DEF Inv, PromiseInv, CompleteInv, Served
    <3>2. IsPrefix(Served.audit, disk.audit)
      BY DiskIsAhead, AheadPrefix DEF Inv
    <3> QED
      BY <2>1, <3>1, <3>2 DEF Inv, PromiseInv, CompleteInv
  <2>4. b \in Seq(Entry \cup {Torn}) /\ a \in Seq(Entry \cup {Torn})
    BY <2>2, SeqMonotonic DEF Inv, TypeOK
  <2> HIDE DEF a, b
  <2>5. /\ Len(b) <= Len(a) /\ \A i \in 1 .. Len(b) : b[i] = a[i]
        /\ DOMAIN a = 1 .. Len(a) /\ DOMAIN b = 1 .. Len(b)
        /\ Len(a) \in Nat /\ Len(b) \in Nat
    BY <2>3, <2>4, PrefixIff, LenProperties
  <2>6. Torn \notin ToSet(b)
    <3>1. ToSet(b) = {b[i] : i \in 1 .. Len(b)} /\ ToSet(a) = {a[i] : i \in 1 .. Len(a)}
      BY <2>4, ToSetType
    <3> QED
      BY <2>2, <2>5, <3>1 DEF Chained
  <2>7. ASSUME NEW i \in 1 .. Len(b)
        PROVE  /\ b[i].sequence = i /\ b[i].hash = a[i].hash
               /\ b[i].previous = IF i = 1 THEN 0 ELSE b[i - 1].hash
    <3>1. a[i].sequence = i /\ a[i].previous = IF i = 1 THEN 0 ELSE a[i - 1].hash
      BY <2>2, <2>5 DEF Chained
    <3>2. b[i] = a[i] /\ (i # 1 => b[i - 1] = a[i - 1])
      BY <2>5
    <3> QED
      BY <3>1, <3>2
  <2>8. Chained(b)
    BY <2>5, <2>6, <2>7 DEF Chained
  <2> QED
    BY <2>2, <2>5, <2>7, <2>8 DEF MirrorAccepted, a, b
<1> QED
  BY <1>1, Invariance, PTL

(* What callers see of the store, through failed writes, failed appends,   *)
(* crashes and restarts, is a ledger: see Ledger.tla.                      *)
THEOREM StoreIsLedger == Spec /\ []OneKindOfCrash => ImplementsLedger
<1>1. Init => Promise!Init
  BY DEF Init, Promise!Init, Served, Empty
<1>2. Inv /\ OneKindOfCrash /\ [Next]_vars => [Promise!Next]_Promise!vars
  <2> SUFFICES ASSUME Inv, OneKindOfCrash, [Next]_vars
               PROVE  [Promise!Next]_Promise!vars
    OBVIOUS
  <2>1. Served \in Snapshot /\ Ahead(Served, Served')
    BY DiskIsAhead, ServedSteps DEF Inv
  <2>2. CASE Served' = Served
    BY <2>2 DEF Promise!vars
  <2>3. CASE CommitOf(Served, Served')
    <3>1. PICK key \in Keys, body \in Bodies, f \in Fingerprint, case \in CaseIds,
               hash \in Nat \ {0} :
             /\ Served.keys[key] = NoRecord
             /\ Served' = Committed(Served, key, body, f, case, hash)
      BY <2>3 DEF CommitOf
    <3>2. Adds(Served, Served', key, body, f, case)
      BY <2>1, <3>1, CommittedAdds
    <3>3. [key |-> key, body |-> body] \in Change
      BY DEF Change
    <3> DEFINE s == Served
               t == Served'
               change == [key |-> key, body |-> body]
               answers(u) == [k \in Keys |-> IF u.keys[k] = NoRecord THEN NoRecord
                                ELSE [case |-> u.keys[k].case, result |-> u.keys[k].result]]
    <3>4. /\ s \in Snapshot /\ s.keys[key] = NoRecord
          /\ t.cases = [s.cases EXCEPT ![case] = Append(s.cases[case], change)]
          /\ t.keys = [s.keys EXCEPT ![key] =
                           [fingerprint |-> f, case |-> case, result |-> t.cases[case]]]
          /\ t.keys[key] # NoRecord
      BY <2>1, <3>1, <3>2 DEF Adds
    <3> HIDE DEF s, t, change
    <3>5. s.keys \in [Keys -> Record \cup {NoRecord}]
      BY <3>4 DEF Snapshot
    <3>6. answers(t) = [answers(s) EXCEPT ![key] = [case |-> case, result |-> t.cases[case]]]
      <4>1. /\ t.keys[key].case = case /\ t.keys[key].result = t.cases[case]
            /\ \A k \in Keys \ {key} : t.keys[k] = s.keys[k]
        BY <3>4, <3>5
      <4> QED
        BY <3>4, <4>1
    <3>7. answers(s)[key] = NoRecord
      BY <3>4
    <3>8. Promise!Apply(key, case, change)
      BY <3>4, <3>6, <3>7 DEF Promise!Apply, s, t
    <3> QED
      BY <3>3, <3>8 DEF Promise!Next, change
  <2> QED
    BY <2>1, <2>2, <2>3 DEF Ahead
<1> QED
  BY <1>1, <1>2, Invariance, PTL DEF Spec, ImplementsLedger, Promise!Spec
=============================================================================
