--------------------------- MODULE ApprovalProofs ---------------------------
(***************************************************************************)
(* Theorems about Approval, for any managers, cases, manifests, consents,  *)
(* lifetimes and bounds.  The argument is that of StoreProofs: memory      *)
(* changes by whole commits, the disk is at most one commit ahead of it,   *)
(* and what holds of a snapshot holds after a commit.  The rest says what  *)
(* a handler may still rely on of what it read before it had the mutex.    *)
(***************************************************************************)
EXTENDS Approval, SequenceTheorems, FiniteSetTheorems, TLAPS

-----------------------------------------------------------------------------
(* Commits *)

(* A command of others adds a version to a case that is not approved. *)
ChangeOf(s, t) ==
    \E c \in CaseIds, content \in Content, checked \in BOOLEAN,
       findings \in {"none", "open", "returned"} :
        /\ s.cases[c].credential = None
        /\ t = [s EXCEPT !.cases[c] =
                   [contents |-> Append(s.cases[c].contents, content), checked |-> checked,
                    findings |-> findings, credential |-> s.cases[c].credential]]

(* A preview saves a new token for a version the case has or had. *)
SaveOf(s, t) ==
    \E token \in Tokens, k \in Confirmation :
        /\ s.tokens[token] = None
        /\ k.used = None
        /\ k.expected \in 1 .. Len(s.cases[k.case].contents)
        /\ k.content = s.cases[k.case].contents[k.expected]
        /\ t = [s EXCEPT !.tokens[token] = k]

(* An approval by m uses a token of the last version, within its lifetime. *)
Usable(s, token, m, c, clock) ==
    LET k == s.tokens[token] IN
    /\ k # None /\ k.used = None
    /\ k.case = c /\ k.actor = m /\ k.expected = Version(s.cases[c])
    /\ clock \in k.expires - Lifetime .. k.expires - 1
    /\ s.cases[c].credential = None

ApprovalOf(s, t) ==
    \E m \in Managers, token \in Tokens, c \in CaseIds, key \in Keys, request \in Request,
       clock \in Nat :
        LET content == Last(s.cases[c].contents) IN
        /\ Usable(s, token, m, c, clock)
        /\ t = [cases |-> [s.cases EXCEPT ![c] =
                    [contents |-> Append(s.cases[c].contents, content),
                     checked |-> s.cases[c].checked, findings |-> s.cases[c].findings,
                     credential |-> [content |-> content, segments |-> content.manifest,
                                     version |-> Version(s.cases[c]) + 1, by |-> m,
                                     at |-> clock]]],
                tokens |-> [s.tokens EXCEPT ![token] = [s.tokens[token] EXCEPT !.used = clock]],
                keys |-> [s.keys EXCEPT ![key] = [request |-> request, actor |-> m]]]

CommitOf(s, t) == ChangeOf(s, t) \/ SaveOf(s, t) \/ ApprovalOf(s, t)

Ahead(s, t) == t = s \/ CommitOf(s, t)

-----------------------------------------------------------------------------
(* The inductive invariant *)

(* A token is of a version of its case, and shows what that version was.   *)
TokensInv(s) ==
    \A t \in Tokens :
        LET k == s.tokens[t] IN
        k # None =>
            /\ k.expected \in 1 .. Len(s.cases[k.case].contents)
            /\ k.content = s.cases[k.case].contents[k.expected]
            /\ k.used # None => k.used \in k.expires - Lifetime .. k.expires - 1

Used(s, c) == {t \in Tokens : /\ s.tokens[t] # None
                              /\ s.tokens[t].case = c
                              /\ s.tokens[t].used # None}

(* A case is approved with one token, and stays as it was approved. *)
SealedInv(s) ==
    \A c \in CaseIds :
        LET k == s.cases[c].credential IN
        /\ Len(s.cases[c].contents) > 0
        /\ k = None => Used(s, c) = {}
        /\ k # None =>
            /\ \E t \in Tokens :
                  /\ Used(s, c) = {t}
                  /\ s.tokens[t].expected + 1 = k.version
                  /\ s.tokens[t].used = k.at
            /\ k.segments = k.content.manifest
            /\ k.content = Last(s.cases[c].contents)
            /\ k.version = Version(s.cases[c])

SnapshotInv(s) == TokensInv(s) /\ SealedInv(s)

(* Only tokens that were made are anywhere, and none is from the future. *)
Timely(s) ==
    \A t \in Tokens : s.tokens[t] # None =>
        t <= issued /\ s.tokens[t].expires - Lifetime <= now

(* A token being saved is not in memory and in no other hands. *)
SavingOf(m) ==
    session[m].pc = "saving" =>
        LET token == session[m].request.token IN
        /\ token \in 1 .. issued
        /\ mem.tokens[token] = None
        /\ \A o \in Managers \ {m} :
              session[o].pc = "saving" => session[o].request.token # token

(* A version a handler previews stays in the history of its case. *)
PreviewOf(m) ==
    session[m].pc \in {"previewing", "saving"} =>
        LET s == session[m]
            contents == mem.cases[s.request.case].contents
        IN  /\ s.request \in Request /\ s.request.key = None
            /\ s.request.expected \in 1 .. Len(contents)
            /\ Last(s.candidate.contents) = contents[s.request.expected]
            /\ s.clock <= now

(* Who reads the clock after being told a token reads a time at which that *)
(* token was there.                                                        *)
ApprovingOf(m) ==
    session[m].pc \in {"approving", "stamped"} =>
        LET s == session[m] IN
        /\ s.request \in Request /\ s.request.key \in Keys /\ s.request.token \in shown
        /\ s.pc = "stamped" => mem.tokens[s.request.token].expires - Lifetime <= s.clock

RefusedOf(m) ==
    session[m].reply = "refused" =>
        /\ session[m].request \in Request
        /\ session[m].request.key # None => ~Recorded(m)

HandlerInv(m) == SavingOf(m) /\ PreviewOf(m) /\ ApprovingOf(m) /\ RefusedOf(m)

Inv ==
    /\ TypeOK
    /\ SnapshotInv(mem)
    /\ Ahead(mem, disk)
    /\ Timely(mem) /\ Timely(disk)
    /\ \A t \in shown : mem.tokens[t] # None
    /\ \A m \in Managers : HandlerInv(m)

-----------------------------------------------------------------------------
(* What commits keep *)

LEMMA LastType ==
    ASSUME NEW S, NEW s \in Seq(S), Len(s) > 0
    PROVE  Last(s) \in S /\ Last(s) = s[Len(s)] /\ Len(s) \in 1 .. Len(s)
<1>1. Len(s) \in Nat
  BY LenProperties
<1>2. Len(s) \in 1 .. Len(s)
  BY <1>1
<1> QED
  BY <1>2, ElementOfSeq DEF Last

LEMMA CaseParts ==
    ASSUME NEW s \in Snapshot
    PROVE  /\ s.cases \in [CaseIds -> Case]
           /\ s.tokens \in [Tokens -> Confirmation \cup {None}]
           /\ s.keys \in [Keys -> [request : Request, actor : Managers] \cup {None}]
           /\ s = [cases |-> s.cases, tokens |-> s.tokens, keys |-> s.keys]
           /\ \A c \in CaseIds :
                 /\ s.cases[c].contents \in Seq(Content)
                 /\ s.cases[c].checked \in BOOLEAN
                 /\ s.cases[c].findings \in {"none", "open", "returned"}
                 /\ s.cases[c].credential \in Credential \cup {None}
           /\ \A t \in Tokens : s.tokens[t] # None => s.tokens[t] \in Confirmation
  BY Zenon DEF Snapshot, Case

(* t has the histories and tokens of s, some of them grown or used. *)
Keeps(s, t) ==
    /\ \A c \in CaseIds :
          /\ Len(s.cases[c].contents) <= Len(t.cases[c].contents)
          /\ \A i \in 1 .. Len(s.cases[c].contents) :
                t.cases[c].contents[i] = s.cases[c].contents[i]
    /\ \A u \in Tokens : s.tokens[u] # None =>
          /\ t.tokens[u] # None
          /\ t.tokens[u].case = s.tokens[u].case
          /\ t.tokens[u].actor = s.tokens[u].actor
          /\ t.tokens[u].expected = s.tokens[u].expected
          /\ t.tokens[u].content = s.tokens[u].content
          /\ t.tokens[u].expires = s.tokens[u].expires

LEMMA ChangeKeeps ==
    ASSUME NEW s \in Snapshot, NEW t, ChangeOf(s, t), SnapshotInv(s)
    PROVE  t \in Snapshot /\ Keeps(s, t) /\ SnapshotInv(t)
<1>1. PICK c \in CaseIds, content \in Content, checked \in BOOLEAN,
           findings \in {"none", "open", "returned"} :
         /\ s.cases[c].credential = None
         /\ t = [s EXCEPT !.cases[c] =
                    [contents |-> Append(s.cases[c].contents, content), checked |-> checked,
                     findings |-> findings, credential |-> s.cases[c].credential]]
  BY DEF ChangeOf
<1> DEFINE h == Append(s.cases[c].contents, content)
           new == [contents |-> h, checked |-> checked, findings |-> findings,
                   credential |-> None]
<1>2. /\ s.cases \in [CaseIds -> Case] /\ s.cases[c].contents \in Seq(Content)
      /\ s.tokens \in [Tokens -> Confirmation \cup {None}]
      /\ s.keys \in [Keys -> [request : Request, actor : Managers] \cup {None}]
      /\ s = [cases |-> s.cases, tokens |-> s.tokens, keys |-> s.keys]
  BY CaseParts
<1>3. /\ h \in Seq(Content) /\ Len(h) = Len(s.cases[c].contents) + 1
      /\ \A i \in 1 .. Len(s.cases[c].contents) : h[i] = s.cases[c].contents[i]
      /\ Len(s.cases[c].contents) \in Nat
  BY <1>2, AppendProperties, LenProperties
<1>4. t = [cases |-> [s.cases EXCEPT ![c] = new], tokens |-> s.tokens, keys |-> s.keys]
  BY <1>1, <1>2
<1> HIDE DEF h
<1>5. new \in Case
  BY <1>3 DEF Case
<1>6. new.contents = h /\ new.credential = None
  OBVIOUS
<1> HIDE DEF new
<1>7. /\ t.cases = [s.cases EXCEPT ![c] = new] /\ t.tokens = s.tokens /\ t.keys = s.keys
      /\ t = [cases |-> t.cases, tokens |-> t.tokens, keys |-> t.keys]
  BY <1>4
<1>8. t \in Snapshot
  <2>1. t.cases \in [CaseIds -> Case]
    BY <1>2, <1>5, <1>7
  <2> QED
    BY <1>2, <1>7, <2>1 DEF Snapshot
<1>9. \A d \in CaseIds : t.cases[d] = IF d = c THEN new ELSE s.cases[d]
  BY <1>2, <1>7
<1>10. \A d \in CaseIds : s.cases[d].contents \in Seq(Content) /\ Len(s.cases[d].contents) \in Nat
  BY CaseParts, LenProperties
<1>11. Keeps(s, t)
  BY <1>3, <1>6, <1>7, <1>9, <1>10 DEF Keeps
<1>12. TokensInv(t)
  <2>1. ASSUME NEW u \in Tokens, s.tokens[u] # None
        PROVE  s.tokens[u].case \in CaseIds /\ s.tokens[u].expected \in Nat
    BY <2>1, CaseParts DEF Confirmation
  <2> QED
    BY <1>7, <1>10, <1>11, <2>1, <1>8, CaseParts, LenProperties DEF TokensInv, SnapshotInv, Keeps
<1>13. SealedInv(t)
  <2>1. ASSUME NEW d \in CaseIds, d # c
        PROVE  t.cases[d] = s.cases[d]
    BY <1>9, <2>1
  <2>2. \A d \in CaseIds : Used(t, d) = Used(s, d)
    BY <1>7 DEF Used
  <2>3. t.cases[c].credential = None /\ Len(t.cases[c].contents) > 0
    BY <1>3, <1>6, <1>9
  <2>4. Used(t, c) = {}
    BY <1>1, <2>2 DEF SnapshotInv, SealedInv
  <2> QED
    BY <1>7, <2>1, <2>2, <2>3, <2>4 DEF SnapshotInv, SealedInv, Version
<1> QED
  BY <1>8, <1>11, <1>12, <1>13 DEF SnapshotInv

LEMMA SaveKeeps ==
    ASSUME NEW s \in Snapshot, NEW t, SaveOf(s, t), SnapshotInv(s)
    PROVE  t \in Snapshot /\ Keeps(s, t) /\ SnapshotInv(t)
<1>1. PICK token \in Tokens, k \in Confirmation :
         /\ s.tokens[token] = None
         /\ k.used = None
         /\ k.expected \in 1 .. Len(s.cases[k.case].contents)
         /\ k.content = s.cases[k.case].contents[k.expected]
         /\ t = [s EXCEPT !.tokens[token] = k]
  BY DEF SaveOf
<1>2. /\ s.cases \in [CaseIds -> Case]
      /\ s.tokens \in [Tokens -> Confirmation \cup {None}]
      /\ s.keys \in [Keys -> [request : Request, actor : Managers] \cup {None}]
      /\ s = [cases |-> s.cases, tokens |-> s.tokens, keys |-> s.keys]
      /\ \A c \in CaseIds : Len(s.cases[c].contents) \in Nat
  BY CaseParts, LenProperties
<1>3. /\ t.cases = s.cases /\ t.tokens = [s.tokens EXCEPT ![token] = k] /\ t.keys = s.keys
      /\ t = [cases |-> t.cases, tokens |-> t.tokens, keys |-> t.keys]
  BY <1>1, <1>2
<1>4. t \in Snapshot
  BY <1>2, <1>3 DEF Snapshot
<1>5. /\ t.tokens[token] = k
      /\ \A u \in Tokens \ {token} : t.tokens[u] = s.tokens[u]
  BY <1>2, <1>3
<1>6. Keeps(s, t)
  BY <1>1, <1>2, <1>3, <1>5 DEF Keeps
<1>7. TokensInv(t)
  <2>1. ASSUME NEW u \in Tokens, u # token, t.tokens[u] # None
        PROVE  LET v == t.tokens[u] IN
               /\ v.expected \in 1 .. Len(t.cases[v.case].contents)
               /\ v.content = t.cases[v.case].contents[v.expected]
               /\ v.used # None => v.used \in v.expires - Lifetime .. v.expires - 1
    BY <1>3, <1>5, <2>1, Zenon DEF TokensInv, SnapshotInv
  <2>2. /\ k.expected \in 1 .. Len(t.cases[k.case].contents)
        /\ k.content = t.cases[k.case].contents[k.expected]
        /\ k.used = None
    BY <1>1, <1>3
  <2> QED
    BY <1>5, <2>1, <2>2, Zenon DEF TokensInv
<1>8. SealedInv(t)
  <2>1. \A c \in CaseIds : Used(t, c) = Used(s, c)
    BY <1>1, <1>5 DEF Used
  <2>2. ASSUME NEW c \in CaseIds, NEW u \in Used(s, c)
        PROVE  t.tokens[u] = s.tokens[u]
    BY <1>1, <1>5, <2>2 DEF Used
  <2> QED
    BY <1>3, <2>1, <2>2 DEF SealedInv, SnapshotInv, Version
<1> QED
  BY <1>4, <1>6, <1>7, <1>8 DEF SnapshotInv

LEMMA ApprovalKeeps ==
    ASSUME NEW s \in Snapshot, NEW t, ApprovalOf(s, t), SnapshotInv(s)
    PROVE  t \in Snapshot /\ Keeps(s, t) /\ SnapshotInv(t)
<1>1. PICK m \in Managers, token \in Tokens, c \in CaseIds, key \in Keys,
           request \in Request, clock \in Nat :
         LET content == Last(s.cases[c].contents) IN
         /\ Usable(s, token, m, c, clock)
         /\ t = [cases |-> [s.cases EXCEPT ![c] =
                     [contents |-> Append(s.cases[c].contents, content),
                      checked |-> s.cases[c].checked, findings |-> s.cases[c].findings,
                      credential |-> [content |-> content, segments |-> content.manifest,
                                      version |-> Version(s.cases[c]) + 1, by |-> m,
                                      at |-> clock]]],
                 tokens |-> [s.tokens EXCEPT ![token] = [s.tokens[token] EXCEPT !.used = clock]],
                 keys |-> [s.keys EXCEPT ![key] = [request |-> request, actor |-> m]]]
  BY DEF ApprovalOf
<1> DEFINE old == s.cases[c].contents
           content == Last(old)
           h == Append(old, content)
           seal == [content |-> content, segments |-> content.manifest,
                    version |-> Len(old) + 1, by |-> m, at |-> clock]
           new == [contents |-> h, checked |-> s.cases[c].checked,
                   findings |-> s.cases[c].findings, credential |-> seal]
           used == [s.tokens[token] EXCEPT !.used = clock]
           record == [request |-> request, actor |-> m]
<1>2. /\ s.cases \in [CaseIds -> Case] /\ old \in Seq(Content) /\ Len(old) > 0
      /\ s.cases[c].checked \in BOOLEAN
      /\ s.cases[c].findings \in {"none", "open", "returned"}
      /\ s.tokens \in [Tokens -> Confirmation \cup {None}]
      /\ s.keys \in [Keys -> [request : Request, actor : Managers] \cup {None}]
      /\ \A d \in CaseIds : s.cases[d].contents \in Seq(Content)
                            /\ Len(s.cases[d].contents) \in Nat
  BY CaseParts, LenProperties DEF SnapshotInv, SealedInv
<1>3. /\ s.tokens[token] \in Confirmation /\ s.tokens[token].used = None
      /\ s.tokens[token].case = c /\ s.tokens[token].expected = Len(old)
      /\ clock \in s.tokens[token].expires - Lifetime .. s.tokens[token].expires - 1
      /\ s.cases[c].credential = None
  BY <1>1, CaseParts DEF Usable, Version
<1>4. /\ t.cases = [s.cases EXCEPT ![c] = new]
      /\ t.tokens = [s.tokens EXCEPT ![token] = used]
      /\ t.keys = [s.keys EXCEPT ![key] = record]
      /\ t = [cases |-> t.cases, tokens |-> t.tokens, keys |-> t.keys]
  BY <1>1 DEF Version
<1> HIDE DEF old
<1>5. content \in Content /\ content = old[Len(old)] /\ content.manifest \in Manifests
  <2>1. content \in Content /\ content = old[Len(old)]
    BY <1>2, LastType
  <2> QED
    BY <2>1 DEF Content
<1> HIDE DEF content
<1>6. /\ h \in Seq(Content) /\ Len(h) = Len(old) + 1 /\ Len(old) \in Nat
      /\ \A i \in 1 .. Len(old) : h[i] = old[i]
      /\ Last(h) = content
  BY <1>2, <1>5, AppendProperties, LenProperties DEF Last
<1> HIDE DEF h
<1>7. seal \in Credential /\ seal # None /\ seal.content = content
      /\ seal.segments = content.manifest /\ seal.version = Len(old) + 1 /\ seal.at = clock
  <2>1. seal \in Credential
    BY <1>5, <1>6 DEF Credential
  <2> QED
    BY <2>1, ValuesAssumption
<1> HIDE DEF seal
<1>8. new \in Case /\ new.contents = h /\ new.credential = seal
  BY <1>2, <1>6, <1>7 DEF Case
<1>9. /\ used \in Confirmation /\ used.used = clock /\ used.case = c
      /\ used.expected = Len(old) /\ used # None
      /\ used.actor = s.tokens[token].actor /\ used.content = s.tokens[token].content
      /\ used.expires = s.tokens[token].expires
  <2>1. used \in Confirmation
    BY <1>3 DEF Confirmation
  <2> QED
    BY <1>3, <2>1, ValuesAssumption DEF Confirmation
<1>10. record \in [request : Request, actor : Managers]
  OBVIOUS
<1> HIDE DEF new, used, record
<1>11. t \in Snapshot
  <2>1. t.cases \in [CaseIds -> Case]
    BY <1>2, <1>4, <1>8
  <2>2. t.tokens \in [Tokens -> Confirmation \cup {None}]
    BY <1>2, <1>4, <1>9
  <2>3. t.keys \in [Keys -> [request : Request, actor : Managers] \cup {None}]
    BY <1>2, <1>4, <1>10
  <2> QED
    BY <1>4, <2>1, <2>2, <2>3 DEF Snapshot
<1>12. \A d \in CaseIds : t.cases[d] = IF d = c THEN new ELSE s.cases[d]
  BY <1>2, <1>4
<1>13. \A u \in Tokens : t.tokens[u] = IF u = token THEN used ELSE s.tokens[u]
  BY <1>2, <1>4
<1>14. Keeps(s, t)
  <2>1. ASSUME NEW d \in CaseIds
        PROVE  /\ Len(s.cases[d].contents) <= Len(t.cases[d].contents)
               /\ \A i \in 1 .. Len(s.cases[d].contents) :
                     t.cases[d].contents[i] = s.cases[d].contents[i]
    <3>1. CASE d = c
      BY <1>6, <1>8, <1>12, <3>1 DEF old
    <3>2. CASE d # c
      <4>1. t.cases[d] = s.cases[d] /\ Len(s.cases[d].contents) \in Nat
        BY <1>2, <1>12, <3>2
      <4> QED
        BY <4>1
    <3> QED
      BY <3>1, <3>2
  <2> QED
    BY <1>2, <1>3, <1>9, <1>13, <2>1 DEF Keeps
<1>15. TokensInv(t)
  <2> SUFFICES ASSUME NEW u \in Tokens, t.tokens[u] # None
               PROVE  LET k == t.tokens[u] IN
                      /\ k.expected \in 1 .. Len(t.cases[k.case].contents)
                      /\ k.content = t.cases[k.case].contents[k.expected]
                      /\ k.used # None => k.used \in k.expires - Lifetime .. k.expires - 1
    BY DEF TokensInv
  <2>1. s.tokens[u] # None /\ s.tokens[u] \in Confirmation /\ s.tokens[u].case \in CaseIds
    <3>1. s.tokens[u] # None
      BY <1>3, <1>13, ValuesAssumption
    <3> QED
      BY <3>1, CaseParts DEF Confirmation
  <2> DEFINE k == s.tokens[u]
             a == s.cases[k.case].contents
             b == t.cases[k.case].contents
  <2>2. /\ k.expected \in 1 .. Len(a) /\ k.content = a[k.expected]
        /\ k.used # None => k.used \in k.expires - Lifetime .. k.expires - 1
    BY <2>1 DEF SnapshotInv, TokensInv
  <2>3. /\ t.tokens[u].case = k.case /\ t.tokens[u].expected = k.expected
        /\ t.tokens[u].content = k.content /\ t.tokens[u].expires = k.expires
        /\ Len(a) <= Len(b) /\ \A i \in 1 .. Len(a) : b[i] = a[i]
    BY <1>14, <2>1 DEF Keeps
  <2>4. Len(a) \in Nat /\ Len(b) \in Nat
    BY <1>11, <2>1, CaseParts, LenProperties
  <2>5. t.tokens[u].used # None =>
           t.tokens[u].used \in k.expires - Lifetime .. k.expires - 1
    BY <1>3, <1>9, <1>13, <2>2
  <2> HIDE DEF a, b, k
  <2>6. k.expected \in 1 .. Len(b) /\ k.content = b[k.expected]
    BY <2>2, <2>3, <2>4
  <2> QED
    BY <2>3, <2>5, <2>6 DEF b
<1>16. SealedInv(t)
  <2>1. ASSUME NEW d \in CaseIds, d # c
        PROVE  t.cases[d] = s.cases[d] /\ Used(t, d) = Used(s, d)
               /\ \A u \in Used(s, d) : t.tokens[u] = s.tokens[u]
    BY <1>3, <1>9, <1>12, <1>13, <2>1 DEF Used
  <2>2. Used(s, c) = {}
    BY <1>3 DEF SnapshotInv, SealedInv
  <2>3. Used(t, c) = {token}
    <3>1. clock # None
      BY ApprovalAssumption
    <3> QED
      BY <1>3, <1>9, <1>13, <2>2, <3>1 DEF Used
  <2>4. /\ t.cases[c].contents = h /\ t.cases[c].credential = seal
        /\ t.tokens[token] = used
    BY <1>8, <1>12, <1>13
  <2>5. /\ Len(t.cases[c].contents) > 0 /\ seal # None
        /\ Used(t, c) = {token} /\ t.tokens[token].expected + 1 = seal.version
        /\ t.tokens[token].used = seal.at /\ seal.segments = seal.content.manifest
        /\ seal.content = Last(t.cases[c].contents) /\ seal.version = Version(t.cases[c])
    BY <1>6, <1>7, <1>9, <2>3, <2>4 DEF Version
  <2> QED
    BY <2>1, <2>4, <2>5 DEF SnapshotInv, SealedInv, Version
<1> QED
  BY <1>11, <1>14, <1>15, <1>16 DEF SnapshotInv

LEMMA AheadKeeps ==
    ASSUME NEW s \in Snapshot, NEW t, Ahead(s, t), SnapshotInv(s)
    PROVE  t \in Snapshot /\ Keeps(s, t) /\ SnapshotInv(t)
<1>1. CASE t = s
  <2>1. \A c \in CaseIds : Len(s.cases[c].contents) \in Nat
    BY CaseParts, LenProperties
  <2> QED
    BY <1>1, <2>1 DEF Keeps
<1> QED
  BY <1>1, ChangeKeeps, SaveKeeps, ApprovalKeeps DEF Ahead, CommitOf

-----------------------------------------------------------------------------
(* What a step leaves of what handlers rely on *)

(* A commit that is under way ends with the disk at most one commit ahead. *)
LEMMA CommitEnds ==
    ASSUME Inv, NEW next, CommitOf(mem, next), NEW audited,
           Commits(next) \/ CommitFails(next, audited)
    PROVE  /\ mem' \in {mem, next} /\ disk' \in {disk, next}
           /\ Ahead(mem, mem') /\ Ahead(mem', disk')
           /\ faults' \in 0 .. MaxFaults
<1>1. faults' \in 0 .. MaxFaults
  BY ApprovalAssumption DEF Inv, TypeOK, Commits, CommitFails
<1> QED
  BY <1>1 DEF Inv, Ahead, Commits, CommitFails

LEMMA MemoryKeeps ==
    ASSUME Inv, Ahead(mem, mem'), Ahead(mem', disk')
    PROVE  /\ mem' \in Snapshot /\ disk' \in Snapshot
           /\ Keeps(mem, mem') /\ SnapshotInv(mem)'
<1>1. mem \in Snapshot /\ SnapshotInv(mem)
  BY DEF Inv, TypeOK
<1>2. mem' \in Snapshot /\ Keeps(mem, mem') /\ SnapshotInv(mem')
  BY <1>1, AheadKeeps
<1>3. disk' \in Snapshot
  BY <1>2, AheadKeeps
<1>4. SnapshotInv(mem)' <=> SnapshotInv(mem')
  BY DEF SnapshotInv, TokensInv, SealedInv, Used, Version
<1> QED
  BY <1>2, <1>3, <1>4

LEMMA TimelyOn ==
    ASSUME NEW s, Timely(s), now' >= now, issued' >= issued, TypeOK, TypeOK',
           s \in Snapshot
    PROVE  \A t \in Tokens : s.tokens[t] # None =>
               t <= issued' /\ s.tokens[t].expires - Lifetime <= now'
<1>1. \A t \in Tokens : s.tokens[t] # None => s.tokens[t].expires \in Nat
  BY CaseParts DEF Confirmation
<1>2. now \in Nat /\ now' \in Nat /\ issued \in Nat /\ issued' \in Nat /\ Lifetime \in Nat
  BY ApprovalAssumption DEF TypeOK
<1> QED
  BY <1>1, <1>2, ApprovalAssumption DEF Timely, Tokens

LEMMA ShownIsThere ==
    ASSUME Inv
    PROVE  \A t \in shown : t \in Tokens /\ mem.tokens[t] # None
<1>1. shown \subseteq 1 .. issued /\ issued \in 0 .. MaxTokens
  BY DEF Inv, TypeOK
<1>2. \A t \in shown : mem.tokens[t] # None
  BY DEF Inv
<1>3. 1 .. issued \subseteq Tokens
  <2>1. MaxTokens \in Nat
    BY ApprovalAssumption
  <2>2. issued \in Nat /\ issued <= MaxTokens
    BY <1>1, <2>1
  <2>3. \A i \in 1 .. issued : i \in 1 .. MaxTokens
    BY <2>1, <2>2
  <2> QED
    BY <2>3 DEF Tokens
<1> QED
  BY <1>1, <1>2, <1>3, Zenon

(* A handler that a step does not move keeps what it relies on. *)
LEMMA Unmoved ==
    ASSUME Inv, NEW m \in Managers, session'[m] = session[m],
           Ahead(mem, mem'), Ahead(mem', disk'),
           now <= now', now' \in Nat, shown \subseteq shown'
    PROVE  PreviewOf(m)' /\ ApprovingOf(m)'
<1>1. Keeps(mem, mem') /\ mem \in Snapshot /\ mem' \in Snapshot
  BY MemoryKeeps DEF Inv, TypeOK
<1>2. PreviewOf(m) /\ ApprovingOf(m) /\ session[m] \in Session /\ now \in Nat
  BY ApprovalAssumption DEF Inv, HandlerInv, TypeOK
<1>3. PreviewOf(m)'
  <2> SUFFICES ASSUME session[m].pc \in {"previewing", "saving"}
               PROVE  LET s == session[m]
                          contents == mem'.cases[s.request.case].contents
                      IN  /\ s.request \in Request /\ s.request.key = None
                          /\ s.request.expected \in 1 .. Len(contents)
                          /\ Last(s.candidate.contents) = contents[s.request.expected]
                          /\ s.clock <= now'
    BY DEF PreviewOf
  <2> DEFINE s == session[m]
             a == mem.cases[s.request.case].contents
             b == mem'.cases[s.request.case].contents
  <2>1. /\ s.request \in Request /\ s.request.key = None
        /\ s.request.expected \in 1 .. Len(a)
        /\ Last(s.candidate.contents) = a[s.request.expected]
        /\ s.clock <= now /\ s.clock \in Nat
    BY <1>2 DEF PreviewOf, Session
  <2>2. s.request.case \in CaseIds
    BY <2>1 DEF Request
  <2>3. /\ Len(a) \in Nat /\ Len(b) \in Nat /\ Len(a) <= Len(b)
        /\ \A i \in 1 .. Len(a) : b[i] = a[i]
    BY <1>1, <2>2, CaseParts, LenProperties DEF Keeps
  <2> HIDE DEF a, b, s
  <2>4. s.request.expected \in 1 .. Len(b) /\ Last(s.candidate.contents) = b[s.request.expected]
    BY <2>1, <2>3
  <2>5. s.clock <= now'
    BY <1>2, <2>1
  <2> QED
    BY <2>1, <2>4, <2>5 DEF s, b
<1>4. ApprovingOf(m)'
  <2> SUFFICES ASSUME session[m].pc \in {"approving", "stamped"}
               PROVE  LET s == session[m] IN
                      /\ s.request \in Request /\ s.request.key \in Keys
                      /\ s.request.token \in shown'
                      /\ s.pc = "stamped" =>
                            mem'.tokens[s.request.token].expires - Lifetime <= s.clock
    BY DEF ApprovingOf
  <2> DEFINE s == session[m]
             token == s.request.token
  <2>1. /\ s.request \in Request /\ s.request.key \in Keys /\ token \in shown
        /\ s.pc = "stamped" => mem.tokens[token].expires - Lifetime <= s.clock
    BY <1>2 DEF ApprovingOf
  <2>2. token \in Tokens /\ mem.tokens[token] # None
    BY <2>1, ShownIsThere DEF Inv
  <2>3. mem'.tokens[token].expires = mem.tokens[token].expires
    BY <1>1, <2>2 DEF Keeps
  <2> QED
    BY <2>1, <2>3
<1> QED
  BY <1>3, <1>4

(* The memory does not change. *)
LEMMA QuietHandler ==
    ASSUME Inv, NEW m \in Managers, session'[m] = session[m], mem' = mem, disk' = disk,
           now <= now', now' \in Nat, shown \subseteq shown'
    PROVE  PreviewOf(m)' /\ ApprovingOf(m)' /\ RefusedOf(m)'
<1>1. Ahead(mem, mem') /\ Ahead(mem', disk')
  BY DEF Inv, Ahead
<1>2. RefusedOf(m)'
  BY DEF Inv, HandlerInv, RefusedOf, Recorded
<1> QED
  BY <1>1, <1>2, Unmoved

-----------------------------------------------------------------------------
(* The actions preserve the invariant *)

LEMMA InitInv == Init => Inv
<1> SUFFICES ASSUME Init PROVE Inv
  OBVIOUS
<1>1. PICK case \in {Started(content, FALSE) : content \in Content}
                    \cup {Started(content, TRUE) : content \in Returned} :
         mem = [cases |-> [c \in CaseIds |-> case],
                tokens |-> [t \in Tokens |-> None],
                keys |-> [k \in Keys |-> None]]
  BY DEF Init
<1>2. case \in Case /\ Len(case.contents) > 0 /\ case.credential = None
  <2>1. PICK content \in Content, returned \in BOOLEAN : case = Started(content, returned)
    BY ApprovalAssumption DEF Content
  <2>2. <<content>> \in Seq(Content) /\ Len(<<content>>) > 0
    OBVIOUS
  <2>3. (IF returned THEN "returned" ELSE "none") \in {"none", "open", "returned"}
    OBVIOUS
  <2> QED
    BY <2>1, <2>2, <2>3 DEF Started, Case
<1>3. mem \in Snapshot
  BY <1>1, <1>2 DEF Snapshot
<1>4. /\ \A c \in CaseIds : mem.cases[c] = case
      /\ \A t \in Tokens : mem.tokens[t] = None
  BY <1>1
<1>5. SnapshotInv(mem)
  <2>1. TokensInv(mem)
    BY <1>4 DEF TokensInv
  <2>2. \A c \in CaseIds : Used(mem, c) = {}
    BY <1>4 DEF Used
  <2>3. ASSUME NEW c \in CaseIds
        PROVE  Len(mem.cases[c].contents) > 0 /\ mem.cases[c].credential = None
    <3>1. mem.cases[c] = case
      BY <1>4
    <3> QED
      BY <1>2, <3>1, Zenon
  <2>4. SealedInv(mem)
    BY <2>2, <2>3 DEF SealedInv
  <2> QED
    BY <2>1, <2>4 DEF SnapshotInv
<1>6. Waiting \in Session
  BY DEF Waiting, Session
<1>7. TypeOK
  BY <1>3, <1>6, ApprovalAssumption DEF Init, TypeOK
<1>8. \A m \in Managers : HandlerInv(m)
  BY DEF Init, Waiting, HandlerInv, SavingOf, PreviewOf, ApprovingOf, RefusedOf
<1> QED
  BY <1>4, <1>5, <1>7, <1>8 DEF Inv, Init, Ahead, Timely

LEMMA ChangeInv ==
    ASSUME Inv, NEW c \in CaseIds, NEW content \in Content, NEW checked \in BOOLEAN,
           NEW findings \in {"none", "open", "returned"}, Change(c, content, checked, findings)
    PROVE  Inv' /\ Ahead(mem, mem')
<1> DEFINE next == [mem EXCEPT !.cases[c] =
                       [contents |-> Append(mem.cases[c].contents, content),
                        checked |-> checked, findings |-> findings,
                        credential |-> mem.cases[c].credential]]
<1>1. /\ mem.cases[c].credential = None
      /\ Commits(next) \/ CommitFails(next, TRUE)
      /\ UNCHANGED <<now, issued, shown, session>>
  BY DEF Change
<1>2. ChangeOf(mem, next)
  BY <1>1 DEF ChangeOf
<1>3. next.tokens = mem.tokens /\ next.keys = mem.keys
  BY CaseParts DEF Inv, TypeOK
<1> HIDE DEF next
<1>4. /\ mem' \in {mem, next} /\ disk' \in {disk, next}
      /\ Ahead(mem, mem') /\ Ahead(mem', disk')
      /\ faults' \in 0 .. MaxFaults
  BY <1>1, <1>2, CommitEnds DEF CommitOf
<1>5. /\ mem' \in Snapshot /\ disk' \in Snapshot
      /\ Keeps(mem, mem') /\ SnapshotInv(mem)'
  BY <1>4, MemoryKeeps
<1>6. TypeOK'
  BY <1>1, <1>4, <1>5 DEF Inv, TypeOK
<1>7. mem'.tokens = mem.tokens /\ mem'.keys = mem.keys /\ disk'.tokens \in {mem.tokens, disk.tokens}
  BY <1>3, <1>4
<1>8. Timely(mem)' /\ Timely(disk)'
  BY <1>1, <1>7 DEF Inv, Timely
<1>9. ASSUME NEW m \in Managers PROVE HandlerInv(m)'
  <2>1. session'[m] = session[m] /\ now <= now' /\ now' \in Nat
    BY <1>1 DEF Inv, TypeOK
  <2>2. PreviewOf(m)' /\ ApprovingOf(m)'
    BY <1>1, <1>4, <2>1, Unmoved
  <2>3. SavingOf(m)' /\ RefusedOf(m)'
    BY <1>1, <1>7 DEF Inv, HandlerInv, SavingOf, RefusedOf, Recorded
  <2> QED
    BY <2>2, <2>3 DEF HandlerInv
<1>10. \A t \in shown' : mem'.tokens[t] # None
  BY <1>1, <1>7 DEF Inv
<1> QED
  BY <1>4, <1>5, <1>6, <1>8, <1>9, <1>10 DEF Inv

LEMMA OthersInv == Inv /\ Others => Inv' /\ Ahead(mem, mem')
<1> SUFFICES ASSUME Inv, Others PROVE Inv' /\ Ahead(mem, mem')
  OBVIOUS
<1>1. \A c \in CaseIds :
         /\ Last(mem.cases[c].contents) \in Content
         /\ mem.cases[c].checked \in BOOLEAN
         /\ mem.cases[c].findings \in {"none", "open", "returned"}
  BY CaseParts, LastType DEF Inv, TypeOK, SnapshotInv, SealedInv
<1>2. ASSUME NEW c \in CaseIds, NEW consents \in ConsentSets, Supplement(c, consents)
      PROVE  Inv' /\ Ahead(mem, mem')
  <2> DEFINE content == [Last(mem.cases[c].contents) EXCEPT !.consents = consents]
  <2>1. content \in Content
    BY <1>1 DEF Content
  <2> HIDE DEF content
  <2>2. Change(c, content, mem.cases[c].checked, mem.cases[c].findings)
    BY <1>2 DEF Supplement, content
  <2> QED
    BY <1>1, <2>1, <2>2, ChangeInv
<1>3. ASSUME NEW c \in CaseIds, NEW full \in BOOLEAN, RunChecks(c, full)
      PROVE  Inv' /\ Ahead(mem, mem')
  <2> DEFINE content == Last(mem.cases[c].contents)
             found == IF Passes(content, now) THEN "none"
                      ELSE IF mem.cases[c].findings = "returned" THEN "returned" ELSE "open"
  <2>1. PICK findings \in IF full THEN {found} ELSE {found, mem.cases[c].findings} :
           Change(c, content, full \/ mem.cases[c].checked, findings)
    BY <1>3 DEF RunChecks
  <2>2. findings \in {"none", "open", "returned"}
    BY <1>1, <2>1
  <2>3. (full \/ mem.cases[c].checked) \in BOOLEAN
    BY <1>1
  <2> QED
    BY <1>1, <2>1, <2>2, <2>3, ChangeInv
<1>4. ASSUME NEW c \in CaseIds, ReturnFinding(c)
      PROVE  Inv' /\ Ahead(mem, mem')
  <2>1. Change(c, Last(mem.cases[c].contents), mem.cases[c].checked, "returned")
    BY <1>4 DEF ReturnFinding
  <2> QED
    BY <1>1, <2>1, ChangeInv
<1>5. ASSUME NEW c \in CaseIds, NEW manifest \in Manifests, Remediate(c, manifest)
      PROVE  Inv' /\ Ahead(mem, mem')
  <2> DEFINE content == [Last(mem.cases[c].contents) EXCEPT !.manifest = manifest]
  <2>1. content \in Content
    BY <1>1 DEF Content
  <2> HIDE DEF content
  <2>2. Change(c, content, mem.cases[c].checked, mem.cases[c].findings)
    BY <1>5 DEF Remediate, content
  <2> QED
    BY <1>1, <2>1, <2>2, ChangeInv
<1>6. CASE Crash
  <2>1. /\ mem' = disk /\ disk' = disk /\ now' = now /\ issued' = issued /\ shown' = shown
        /\ session' = [m \in Managers |-> Waiting]
        /\ faults' \in 0 .. MaxFaults
    BY <1>6, ApprovalAssumption DEF Crash, Inv, TypeOK
  <2>2. Ahead(mem, mem') /\ Ahead(mem', disk')
    BY <2>1 DEF Inv, Ahead
  <2>3. /\ mem' \in Snapshot /\ disk' \in Snapshot
        /\ Keeps(mem, mem') /\ SnapshotInv(mem)'
    BY <2>2, MemoryKeeps
  <2>4. Waiting \in Session
    BY DEF Waiting, Session
  <2>5. TypeOK'
    BY <2>1, <2>3, <2>4 DEF Inv, TypeOK
  <2>6. Timely(mem)' /\ Timely(disk)'
    BY <2>1 DEF Inv, Timely
  <2>7. \A m \in Managers : HandlerInv(m)'
    BY <2>1 DEF Waiting, HandlerInv, SavingOf, PreviewOf, ApprovingOf, RefusedOf
  <2>8. \A t \in shown' : mem'.tokens[t] # None
    BY <2>1, <2>3, ShownIsThere DEF Keeps
  <2> QED
    BY <2>2, <2>3, <2>5, <2>6, <2>7, <2>8 DEF Inv
<1>7. CASE Tick
  <2>1. /\ mem' = mem /\ disk' = disk /\ issued' = issued /\ shown' = shown
        /\ session' = session /\ faults' = faults
        /\ now' \in 0 .. MaxTime /\ now <= now'
    BY <1>7, ApprovalAssumption DEF Tick, Inv, TypeOK
  <2>2. TypeOK'
    BY <2>1 DEF Inv, TypeOK
  <2>3. issued' >= issued
    BY <2>1 DEF Inv, TypeOK
  <2>4. Timely(mem)' /\ Timely(disk)'
    BY <2>1, <2>2, <2>3, TimelyOn DEF Inv, TypeOK, Timely
  <2>5. ASSUME NEW m \in Managers PROVE HandlerInv(m)'
    <3>1. PreviewOf(m)' /\ ApprovingOf(m)' /\ RefusedOf(m)'
      BY <2>1, QuietHandler
    <3>2. SavingOf(m)'
      BY <2>1 DEF Inv, HandlerInv, SavingOf
    <3> QED
      BY <3>1, <3>2 DEF HandlerInv
  <2> QED
    BY <2>1, <2>2, <2>4, <2>5
       DEF Ahead, Inv, SnapshotInv, TokensInv, SealedInv, Used, Version
<1> QED
  BY <1>2, <1>3, <1>4, <1>5, <1>6, <1>7 DEF Others

(* Steps of a handler that leave the snapshots alone: it is enough to look *)
(* at the handler that moves.                                              *)
LEMMA HandlerStep ==
    ASSUME Inv, NEW m \in Managers, NEW new \in Session,
           session' = [session EXCEPT ![m] = new],
           mem' = mem, disk' = disk, now' = now, faults' = faults, shown' = shown,
           issued' \in issued .. MaxTokens,
           SavingOf(m)', PreviewOf(m)', ApprovingOf(m)', RefusedOf(m)',
           new.pc = "saving" => new.request.token \in issued + 1 .. issued'
    PROVE  Inv'
<1>1. /\ session'[m] = new
      /\ \A o \in Managers \ {m} : session'[o] = session[o]
  BY DEF Inv, TypeOK
<1>2. issued \in Nat /\ issued' \in Nat /\ issued <= issued' /\ now \in Nat /\ now' \in Nat
      /\ MaxTokens \in Nat
  BY ApprovalAssumption DEF Inv, TypeOK
<1>3. TypeOK'
  <2>1. issued' \in 0 .. MaxTokens
    BY <1>2
  <2>2. shown' \subseteq 1 .. issued'
    BY <1>2 DEF Inv, TypeOK
  <2>3. session' \in [Managers -> Session]
    BY DEF Inv, TypeOK
  <2> QED
    BY <2>1, <2>2, <2>3 DEF Inv, TypeOK
<1>4. Timely(mem)' /\ Timely(disk)'
  <2>1. now' >= now /\ issued' >= issued
    BY <1>2
  <2> QED
    BY <1>3, <2>1, TimelyOn DEF Inv, TypeOK, Timely
<1>5. ASSUME NEW o \in Managers PROVE HandlerInv(o)'
  <2>1. CASE o = m
    BY <2>1 DEF HandlerInv
  <2>2. CASE o # m
    <3>1. session'[o] = session[o] /\ now <= now' /\ shown \subseteq shown'
      BY <1>1, <1>2, <2>2
    <3>2. PreviewOf(o)' /\ ApprovingOf(o)' /\ RefusedOf(o)'
      BY <1>2, <3>1, QuietHandler
    <3>3. SavingOf(o)'
      <4> SUFFICES ASSUME session[o].pc = "saving"
                   PROVE  LET token == session[o].request.token IN
                          /\ token \in 1 .. issued'
                          /\ mem.tokens[token] = None
                          /\ \A p \in Managers \ {o} :
                                session'[p].pc = "saving" => session'[p].request.token # token
        BY <3>1 DEF SavingOf
      <4>1. LET token == session[o].request.token IN
            /\ token \in 1 .. issued /\ mem.tokens[token] = None
            /\ \A p \in Managers \ {o} :
                  session[p].pc = "saving" => session[p].request.token # token
        BY DEF Inv, HandlerInv, SavingOf
      <4>2. session[o].request.token \in 1 .. issued'
        BY <1>2, <4>1
      <4>3. ASSUME NEW p \in Managers \ {o}, session'[p].pc = "saving"
            PROVE  session'[p].request.token # session[o].request.token
        <5>1. CASE p = m
          BY <1>1, <1>2, <4>1, <4>3, <5>1
        <5>2. CASE p # m
          BY <1>1, <4>1, <4>3, <5>2
        <5> QED
          BY <5>1, <5>2
      <4> QED
        BY <4>1, <4>2, <4>3
    <3> QED
      BY <3>2, <3>3 DEF HandlerInv
  <2> QED
    BY <2>1, <2>2
<1> QED
  BY <1>3, <1>4, <1>5 DEF Inv, SnapshotInv, TokensInv, SealedInv, Used, Version

LEMMA SessionParts ==
    ASSUME Inv, NEW m \in Managers
    PROVE  /\ session \in [Managers -> Session]
           /\ session[m] \in Session
           /\ session[m].request \in Request \cup {None}
           /\ session[m].candidate \in Case \cup {None}
           /\ session[m].clock \in Nat
BY Zenon DEF Inv, TypeOK, Session

LEMMA Counters ==
    Inv => /\ now \in Nat /\ issued \in Nat /\ issued <= MaxTokens /\ MaxTokens \in Nat
           /\ Lifetime \in Nat
BY ApprovalAssumption DEF Inv, TypeOK

(* The handler has answered. *)
LEMMA Replied ==
    ASSUME Inv, NEW m \in Managers, NEW reply \in {"shown", "approved", "refused", "failed"},
           Reply(m, reply)
    PROVE  LET new == [Waiting EXCEPT !.request = session[m].request, !.reply = reply] IN
           /\ session' = [session EXCEPT ![m] = new] /\ new \in Session
           /\ session'[m].pc = "idle" /\ session'[m].request = session[m].request
           /\ session'[m].reply = reply
           /\ new.pc = "idle"
           /\ SavingOf(m)' /\ PreviewOf(m)' /\ ApprovingOf(m)'
           /\ reply # "refused" => RefusedOf(m)'
<1> DEFINE new == [Waiting EXCEPT !.request = session[m].request, !.reply = reply]
<1>1. new = [pc |-> "idle", request |-> session[m].request, candidate |-> None,
             clock |-> 0, reply |-> reply]
  <2> DEFINE asked == [Waiting EXCEPT !.request = session[m].request]
             told == [asked EXCEPT !.reply = reply]
  <2>1. asked = [pc |-> "idle", request |-> session[m].request, candidate |-> None,
                 clock |-> 0, reply |-> "none"]
    BY DEF Waiting
  <2> HIDE DEF asked
  <2>2. told = [pc |-> "idle", request |-> session[m].request, candidate |-> None,
                clock |-> 0, reply |-> reply]
    BY <2>1
  <2> HIDE DEF told
  <2>3. new = told
    BY DEF asked, told
  <2> QED
    BY <2>2, <2>3
<1> HIDE DEF new
<1>2. new \in Session
  <2>1. session[m].request \in Request \cup {None}
    BY SessionParts
  <2> QED
    BY <1>1, <2>1 DEF Session
<1>3. new.pc = "idle" /\ new.request = session[m].request /\ new.reply = reply
  BY <1>1
<1>4. session' = [session EXCEPT ![m] = new]
  BY DEF Reply, new
<1>5. session'[m] = new
  BY <1>4, SessionParts
<1>6. SavingOf(m)' /\ PreviewOf(m)' /\ ApprovingOf(m)'
  BY <1>3, <1>5 DEF SavingOf, PreviewOf, ApprovingOf
<1>7. reply # "refused" => RefusedOf(m)'
  BY <1>3, <1>5 DEF RefusedOf
<1> QED
  BY <1>2, <1>3, <1>4, <1>5, <1>6, <1>7 DEF new

LEMMA PreviewGetInv ==
    ASSUME Inv, NEW m \in Managers, NEW c \in CaseIds, PreviewGet(m, c)
    PROVE  Inv'
<1> DEFINE case == mem.cases[c]
           request == [case |-> c, token |-> None, expected |-> Version(case), key |-> None]
           new == [pc |-> "previewing", request |-> request, candidate |-> case,
                   clock |-> now, reply |-> "none"]
<1>1. /\ session' = [session EXCEPT ![m] = new]
      /\ mem' = mem /\ disk' = disk /\ now' = now /\ issued' = issued
      /\ shown' = shown /\ faults' = faults
  BY DEF PreviewGet
<1>2. case \in Case /\ case.contents \in Seq(Content) /\ Len(case.contents) > 0
  BY CaseParts DEF Inv, TypeOK, SnapshotInv, SealedInv
<1>3. Len(case.contents) \in 1 .. Len(case.contents)
      /\ Last(case.contents) = case.contents[Len(case.contents)]
  BY <1>2, LastType
<1>4. request \in Request
  BY <1>3 DEF Request, Version
<1>5. request.case = c /\ request.expected = Len(case.contents) /\ request.key = None
  BY DEF Version
<1> HIDE DEF case, request
<1>6. new \in Session
  BY <1>2, <1>4, Counters DEF Session
<1>7. new.pc = "previewing" /\ new.request = request /\ new.candidate = case
      /\ new.clock = now /\ new.reply = "none"
  OBVIOUS
<1> HIDE DEF new
<1>8. session'[m] = new
  BY <1>1, SessionParts
<1>9. PreviewOf(m)'
  <2>1. /\ new.request \in Request /\ new.request.key = None
        /\ new.request.expected \in 1 .. Len(mem'.cases[new.request.case].contents)
        /\ Last(new.candidate.contents)
              = mem'.cases[new.request.case].contents[new.request.expected]
    BY <1>1, <1>3, <1>4, <1>5, <1>7 DEF case
  <2>2. new.clock <= now'
    BY <1>1, <1>7, Counters
  <2> QED
    BY <1>8, <2>1, <2>2 DEF PreviewOf
<1>10. SavingOf(m)' /\ ApprovingOf(m)' /\ RefusedOf(m)'
  BY <1>7, <1>8 DEF SavingOf, ApprovingOf, RefusedOf
<1>11. issued' \in issued .. MaxTokens
  BY <1>1, Counters
<1> QED
  BY <1>1, <1>6, <1>7, <1>9, <1>10, <1>11, HandlerStep

LEMMA PreviewIssueInv ==
    ASSUME Inv, NEW m \in Managers, PreviewIssue(m)
    PROVE  Inv'
<1> DEFINE s == session[m]
           request == [s.request EXCEPT !.token = issued']
           new == [pc |-> "saving", request |-> request, candidate |-> s.candidate,
                   clock |-> now, reply |-> s.reply]
<1>1. /\ s.pc = "previewing" /\ issued < MaxTokens /\ issued' = issued + 1
      /\ mem' = mem /\ disk' = disk /\ now' = now /\ shown' = shown /\ faults' = faults
      /\ session' = [session EXCEPT ![m].pc = "saving", ![m].clock = now,
                                    ![m].request.token = issued']
  BY DEF PreviewIssue
<1>2. session' = [session EXCEPT ![m] = new]
  <2>1. s = [pc |-> s.pc, request |-> s.request, candidate |-> s.candidate,
             clock |-> s.clock, reply |-> s.reply]
    BY SessionParts DEF Session
  <2> DEFINE a == [s EXCEPT !.pc = "saving"]
             b == [a EXCEPT !.clock = now]
             c == [b EXCEPT !.request = request]
  <2> HIDE DEF request
  <2>2. c = new
    <3>1. a = [pc |-> "saving", request |-> s.request, candidate |-> s.candidate,
               clock |-> s.clock, reply |-> s.reply]
      BY <2>1
    <3> HIDE DEF a
    <3>2. b = [pc |-> "saving", request |-> s.request, candidate |-> s.candidate,
               clock |-> now, reply |-> s.reply]
      BY <3>1
    <3> HIDE DEF b
    <3> QED
      BY <3>2
  <2>3. session' = [session EXCEPT ![m] = c]
    BY <1>1, SessionParts DEF request
  <2> QED
    BY <2>2, <2>3
<1>3. /\ s.request \in Request /\ s.request.key = None
      /\ s.request.expected \in 1 .. Len(mem.cases[s.request.case].contents)
      /\ Last(s.candidate.contents) = mem.cases[s.request.case].contents[s.request.expected]
  BY <1>1 DEF Inv, HandlerInv, PreviewOf
<1>4. issued' \in issued + 1 .. MaxTokens /\ issued' \in Tokens
  BY <1>1, Counters DEF Tokens
<1>5. /\ request \in Request /\ request.key = None /\ request.token = issued'
      /\ request.case = s.request.case /\ request.expected = s.request.expected
  BY <1>3, <1>4 DEF Request
<1>6. s.reply \in {"none", "shown", "approved", "refused", "failed"} /\ s.candidate \in Case \cup {None}
      /\ (s.reply = "refused" => ~(request.key # None))
  BY <1>5 DEF Inv, TypeOK, Session
<1> HIDE DEF request
<1>7. new \in Session
  BY <1>5, <1>6, Counters DEF Session
<1>8. new.pc = "saving" /\ new.request = request /\ new.candidate = s.candidate
      /\ new.clock = now /\ new.reply = s.reply
  OBVIOUS
<1> HIDE DEF new
<1>9. session'[m] = new /\ \A o \in Managers \ {m} : session'[o] = session[o]
  BY <1>2, SessionParts
<1>10. PreviewOf(m)'
  <2>1. /\ new.request \in Request /\ new.request.key = None
        /\ new.request.expected \in 1 .. Len(mem'.cases[new.request.case].contents)
        /\ Last(new.candidate.contents)
              = mem'.cases[new.request.case].contents[new.request.expected]
    BY <1>1, <1>3, <1>5, <1>8
  <2>2. new.clock <= now'
    BY <1>1, <1>8, Counters
  <2> QED
    BY <1>9, <2>1, <2>2 DEF PreviewOf
<1>11. SavingOf(m)'
  <2>1. mem.tokens[issued'] = None
    BY <1>1, <1>4, Counters DEF Inv, Timely
  <2>2. ASSUME NEW o \in Managers \ {m}, session[o].pc = "saving"
        PROVE  session[o].request.token # issued'
    <3>1. session[o].request.token \in 1 .. issued
      BY <2>2 DEF Inv, HandlerInv, SavingOf
    <3> QED
      BY <1>1, <3>1, Counters
  <2>3. issued' \in 1 .. issued'
    BY <1>4, Counters
  <2> QED
    BY <1>1, <1>5, <1>8, <1>9, <2>1, <2>2, <2>3 DEF SavingOf
<1>12. ApprovingOf(m)' /\ RefusedOf(m)'
  BY <1>5, <1>6, <1>8, <1>9 DEF ApprovingOf, RefusedOf
<1>13. issued' \in issued .. MaxTokens /\ new.request.token \in issued + 1 .. issued'
  BY <1>4, <1>5, <1>8, Counters
<1> QED
  BY <1>1, <1>2, <1>7, <1>10, <1>11, <1>12, <1>13, HandlerStep
(* An answer that changes no snapshot. *)
LEMMA AnswerInv ==
    ASSUME Inv, NEW m \in Managers, NEW reply \in {"approved", "refused"}, Reply(m, reply),
           UNCHANGED <<mem, disk, now, issued, shown, faults>>,
           reply = "refused" => RefusedOf(m)'
    PROVE  Inv'
<1> DEFINE new == [Waiting EXCEPT !.request = session[m].request, !.reply = reply]
<1>1. /\ session' = [session EXCEPT ![m] = new] /\ new \in Session /\ new.pc = "idle"
      /\ SavingOf(m)' /\ PreviewOf(m)' /\ ApprovingOf(m)' /\ RefusedOf(m)'
  BY Replied
<1> HIDE DEF new
<1>2. issued' \in issued .. MaxTokens
  BY Counters
<1> QED
  BY <1>1, <1>2, HandlerStep

LEMMA PreviewRefuseInv ==
    ASSUME Inv, NEW m \in Managers, PreviewRefuse(m)
    PROVE  Inv'
<1>1. /\ session[m].pc = "previewing" /\ Reply(m, "refused")
      /\ UNCHANGED <<mem, disk, now, issued, shown, faults>>
  BY DEF PreviewRefuse
<1>2. session[m].request \in Request /\ session[m].request.key = None
  BY <1>1 DEF Inv, HandlerInv, PreviewOf
<1>3. session'[m].request = session[m].request
  BY <1>1, Replied
<1>4. RefusedOf(m)'
  BY <1>2, <1>3 DEF RefusedOf
<1> QED
  BY <1>1, <1>4, AnswerInv

LEMMA ApproveGetInv ==
    ASSUME Inv, NEW m \in Managers, NEW request \in Requests, ApproveGet(m, request)
    PROVE  Inv'
<1> DEFINE case == mem.cases[request.case]
           new == [pc |-> "approving", request |-> request, candidate |-> case,
                   clock |-> now, reply |-> "none"]
<1>1. /\ session' = [session EXCEPT ![m] = new]
      /\ mem' = mem /\ disk' = disk /\ now' = now /\ issued' = issued
      /\ shown' = shown /\ faults' = faults
  BY DEF ApproveGet
<1>2. request.case \in CaseIds /\ request.token \in shown /\ request.key \in Keys
  BY DEF Requests
<1>3. request \in Request
  <2>1. shown \subseteq Tokens
    BY ShownIsThere
  <2>2. 1 .. MaxVersion \subseteq Nat \ {0}
    BY ApprovalAssumption
  <2> QED
    BY <2>1, <2>2 DEF Requests, Request
<1>4. case \in Case
  BY <1>2, CaseParts DEF Inv, TypeOK
<1> HIDE DEF case
<1>5. new \in Session
  BY <1>3, <1>4, Counters DEF Session
<1>6. new.pc = "approving" /\ new.request = request /\ new.reply = "none"
  OBVIOUS
<1> HIDE DEF new
<1>7. session'[m] = new
  BY <1>1, SessionParts
<1>8. SavingOf(m)' /\ PreviewOf(m)' /\ ApprovingOf(m)' /\ RefusedOf(m)'
  BY <1>1, <1>2, <1>3, <1>6, <1>7 DEF SavingOf, PreviewOf, ApprovingOf, RefusedOf
<1>9. issued' \in issued .. MaxTokens
  BY <1>1, Counters
<1> QED
  BY <1>1, <1>5, <1>6, <1>8, <1>9, HandlerStep

LEMMA ApproveStampInv ==
    ASSUME Inv, NEW m \in Managers, ApproveStamp(m)
    PROVE  Inv'
<1> DEFINE s == session[m]
           new == [pc |-> "stamped", request |-> s.request, candidate |-> s.candidate,
                   clock |-> now, reply |-> s.reply]
<1>1. /\ s.pc = "approving"
      /\ session' = [session EXCEPT ![m].pc = "stamped", ![m].clock = now]
      /\ mem' = mem /\ disk' = disk /\ now' = now /\ issued' = issued
      /\ shown' = shown /\ faults' = faults
  BY DEF ApproveStamp
<1>2. session' = [session EXCEPT ![m] = new]
  <2> DEFINE a == [s EXCEPT !.pc = "stamped"]
             b == [a EXCEPT !.clock = now]
  <2>1. s = [pc |-> s.pc, request |-> s.request, candidate |-> s.candidate,
             clock |-> s.clock, reply |-> s.reply]
    BY SessionParts DEF Session
  <2>2. b = new
    <3>1. a = [pc |-> "stamped", request |-> s.request, candidate |-> s.candidate,
               clock |-> s.clock, reply |-> s.reply]
      BY <2>1
    <3> HIDE DEF a
    <3> QED
      BY <3>1
  <2>3. session' = [session EXCEPT ![m] = b]
    BY <1>1, SessionParts
  <2> QED
    BY <2>2, <2>3
<1>3. s.request \in Request /\ s.request.key \in Keys /\ s.request.token \in shown
  BY <1>1 DEF Inv, HandlerInv, ApprovingOf
<1>4. /\ s.reply \in {"none", "shown", "approved", "refused", "failed"}
      /\ s.candidate \in Case \cup {None}
      /\ s.reply = "refused" => (s.request.key # None => ~Recorded(m))
  BY DEF Inv, TypeOK, Session, HandlerInv, RefusedOf
<1>5. new \in Session
  BY <1>3, <1>4, Counters DEF Session
<1>6. new.pc = "stamped" /\ new.request = s.request /\ new.clock = now /\ new.reply = s.reply
  OBVIOUS
<1> HIDE DEF new
<1>7. session'[m] = new
  BY <1>2, SessionParts
<1>8. mem.tokens[s.request.token].expires - Lifetime <= now
  BY <1>3, ShownIsThere DEF Inv, Timely
<1>9. ApprovingOf(m)'
  BY <1>1, <1>3, <1>6, <1>7, <1>8 DEF ApprovingOf
<1>10. RefusedOf(m)'
  BY <1>1, <1>3, <1>4, <1>6, <1>7 DEF RefusedOf, Recorded
<1>11. SavingOf(m)' /\ PreviewOf(m)'
  BY <1>6, <1>7 DEF SavingOf, PreviewOf
<1>12. issued' \in issued .. MaxTokens
  BY <1>1, Counters
<1> QED
  BY <1>1, <1>2, <1>5, <1>6, <1>9, <1>10, <1>11, <1>12, HandlerStep

LEMMA ApproveReplayInv ==
    ASSUME Inv, NEW m \in Managers, ApproveReplay(m)
    PROVE  Inv'
BY AnswerInv DEF ApproveReplay

LEMMA ApproveRefuseInv ==
    ASSUME Inv, NEW m \in Managers, ApproveRefuse(m)
    PROVE  Inv'
<1>1. /\ session[m].pc = "stamped" /\ ~Recorded(m) /\ Reply(m, "refused")
      /\ UNCHANGED <<mem, disk, now, issued, shown, faults>>
  BY DEF ApproveRefuse
<1>2. session[m].request \in Request
  BY <1>1 DEF Inv, HandlerInv, ApprovingOf
<1>3. session'[m].request = session[m].request
  BY <1>1, Replied
<1>4. RefusedOf(m)'
  BY <1>1, <1>2, <1>3 DEF RefusedOf, Recorded
<1> QED
  BY <1>1, <1>4, AnswerInv
(* Steps of a handler that commit: it is enough to look at the snapshot    *)
(* that is committed.                                                      *)
LEMMA CommitStep ==
    ASSUME Inv, NEW m \in Managers,
           NEW next, CommitOf(mem, next),
           NEW audited, Commits(next) \/ CommitFails(next, audited),
           NEW reply \in {"shown", "approved", "failed"}, Reply(m, reply),
           now' = now, issued' = issued,
           shown \subseteq shown',
           \A t \in shown' \ shown : t \in 1 .. issued /\ mem'.tokens[t] # None,
           Timely(next),
           \A o \in Managers \ {m} :
              /\ session[o].pc = "saving" => next.tokens[session[o].request.token] = None
              /\ RefusedOf(o)'
    PROVE  Inv' /\ Ahead(mem, mem')
<1>1. /\ mem' \in {mem, next} /\ disk' \in {disk, next}
      /\ Ahead(mem, mem') /\ Ahead(mem', disk')
      /\ faults' \in 0 .. MaxFaults
  BY CommitEnds
<1>2. /\ mem' \in Snapshot /\ disk' \in Snapshot
      /\ Keeps(mem, mem') /\ SnapshotInv(mem)'
  BY <1>1, MemoryKeeps
<1> DEFINE new == [Waiting EXCEPT !.request = session[m].request, !.reply = reply]
<1>3. /\ session' = [session EXCEPT ![m] = new] /\ new \in Session
      /\ session'[m].pc = "idle"
      /\ SavingOf(m)' /\ PreviewOf(m)' /\ ApprovingOf(m)' /\ RefusedOf(m)'
  BY Replied
<1> HIDE DEF new
<1>4. \A o \in Managers \ {m} : session'[o] = session[o]
  BY <1>3, SessionParts
<1>5. TypeOK'
  <2>1. session' \in [Managers -> Session]
    BY <1>3, SessionParts
  <2>2. shown' \subseteq 1 .. issued'
    BY DEF Inv, TypeOK
  <2> QED
    BY <1>1, <1>2, <2>1, <2>2 DEF Inv, TypeOK
<1>6. Timely(mem)' /\ Timely(disk)'
  BY <1>1 DEF Inv, Timely
<1>7. \A t \in shown' : mem'.tokens[t] # None
  BY <1>2, ShownIsThere DEF Keeps
<1>8. ASSUME NEW o \in Managers PROVE HandlerInv(o)'
  <2>1. CASE o = m
    BY <1>3, <2>1 DEF HandlerInv
  <2>2. CASE o # m
    <3>1. session'[o] = session[o] /\ now <= now' /\ now' \in Nat
      BY <1>4, <2>2, Counters
    <3>2. PreviewOf(o)' /\ ApprovingOf(o)'
      BY <1>1, <3>1, Unmoved
    <3>3. SavingOf(o)'
      <4> SUFFICES ASSUME session[o].pc = "saving"
                   PROVE  LET token == session[o].request.token IN
                          /\ token \in 1 .. issued
                          /\ mem'.tokens[token] = None
                          /\ \A p \in Managers \ {o} :
                                session'[p].pc = "saving" => session'[p].request.token # token
        BY <3>1 DEF SavingOf
      <4>1. LET token == session[o].request.token IN
            /\ token \in 1 .. issued /\ mem.tokens[token] = None
            /\ \A p \in Managers \ {o} :
                  session[p].pc = "saving" => session[p].request.token # token
        BY DEF Inv, HandlerInv, SavingOf
      <4>2. mem'.tokens[session[o].request.token] = None
        BY <1>1, <2>2, <4>1
      <4>3. ASSUME NEW p \in Managers \ {o}, session'[p].pc = "saving"
            PROVE  session[p].pc = "saving" /\ session'[p].request = session[p].request
        BY <1>3, <1>4, <4>3
      <4> QED
        BY <4>1, <4>2, <4>3
    <3> QED
      BY <2>2, <3>2, <3>3 DEF HandlerInv
  <2> QED
    BY <2>1, <2>2
<1> QED
  BY <1>1, <1>2, <1>5, <1>6, <1>7, <1>8 DEF Inv

LEMMA PreviewSaveInv ==
    ASSUME Inv, NEW m \in Managers, PreviewSave(m)
    PROVE  Inv' /\ Ahead(mem, mem')
<1> DEFINE s == session[m]
           token == s.request.token
           next == [mem EXCEPT !.tokens[token] = Confirmed(m)]
<1>1. /\ s.pc = "saving" /\ now' = now /\ issued' = issued
      /\ \/ Commits(next) /\ shown' = shown \cup {token} /\ Reply(m, "shown")
         \/ CommitFails(next, FALSE) /\ Reply(m, "failed") /\ shown' = shown
  BY DEF PreviewSave
<1>2. /\ s.request \in Request
      /\ s.request.expected \in 1 .. Len(mem.cases[s.request.case].contents)
      /\ Last(s.candidate.contents) = mem.cases[s.request.case].contents[s.request.expected]
      /\ s.clock <= now /\ s.clock \in Nat
  BY <1>1, SessionParts DEF Inv, HandlerInv, PreviewOf
<1>3. /\ token \in 1 .. issued /\ mem.tokens[token] = None
      /\ \A o \in Managers \ {m} : session[o].pc = "saving" => session[o].request.token # token
  BY <1>1 DEF Inv, HandlerInv, SavingOf
<1>4. token \in Tokens /\ token <= issued
  BY <1>3, Counters DEF Tokens
<1> DEFINE k == Confirmed(m)
           content == Last(s.candidate.contents)
<1>5. /\ k = [case |-> s.request.case, expected |-> s.request.expected, actor |-> m,
              content |-> content, expires |-> s.clock + Lifetime, used |-> None]
  BY DEF Confirmed
<1>6. s.request.case \in CaseIds /\ s.request.expected \in Nat \ {0}
  BY <1>2 DEF Request
<1>7. content \in Content
  <2>1. mem.cases[s.request.case].contents \in Seq(Content)
    BY <1>6, CaseParts DEF Inv, TypeOK
  <2> QED
    BY <1>2, <2>1, ElementOfSeq
<1>8. s.clock + Lifetime \in Nat /\ (s.clock + Lifetime) - Lifetime <= now
  BY <1>2, Counters
<1> HIDE DEF content, k
<1>9. k \in Confirmation
  BY <1>5, <1>6, <1>7, <1>8 DEF Confirmation
<1>10. /\ k.case = s.request.case /\ k.expected = s.request.expected
       /\ k.content = content /\ k.used = None /\ k.expires - Lifetime <= now
  BY <1>5, <1>8
<1>11. next = [mem EXCEPT !.tokens[token] = k]
  BY DEF k
<1>12. SaveOf(mem, next)
  <2>1. /\ k.expected \in 1 .. Len(mem.cases[k.case].contents)
        /\ k.content = mem.cases[k.case].contents[k.expected]
    BY <1>2, <1>10 DEF content
  <2> QED
    BY <1>3, <1>4, <1>9, <1>10, <1>11, <2>1, Zenon DEF SaveOf
<1>13. /\ next.tokens = [mem.tokens EXCEPT ![token] = k] /\ next.keys = mem.keys
       /\ mem.tokens \in [Tokens -> Confirmation \cup {None}]
  BY <1>11, CaseParts DEF Inv, TypeOK
<1> HIDE DEF next, token
<1>14. /\ next.tokens[token] = k
       /\ \A t \in Tokens \ {token} : next.tokens[t] = mem.tokens[t]
  BY <1>4, <1>13
<1>15. Timely(next)
  BY <1>4, <1>10, <1>14 DEF Inv, Timely
<1>16. mem' \in {mem, next}
  BY <1>1 DEF Commits, CommitFails
<1>17. ASSUME NEW o \in Managers \ {m}
       PROVE  /\ session[o].pc = "saving" => next.tokens[session[o].request.token] = None
              /\ RefusedOf(o)'
  <2>1. session[o].pc = "saving" =>
           /\ session[o].request.token \in Tokens \ {token}
           /\ mem.tokens[session[o].request.token] = None
    BY <1>3, Counters DEF Inv, HandlerInv, SavingOf, Tokens
  <2>2. mem'.keys = mem.keys
    BY <1>13, <1>16
  <2>3. session'[o] = session[o]
    BY <1>1, SessionParts DEF Reply
  <2> QED
    BY <1>14, <2>1, <2>2, <2>3 DEF Inv, HandlerInv, RefusedOf, Recorded
<1>18. CommitOf(mem, next)
  BY <1>12 DEF CommitOf
<1>19. CASE Commits(next) /\ shown' = shown \cup {token} /\ Reply(m, "shown")
  <2>1. /\ shown \subseteq shown'
        /\ \A t \in shown' \ shown : t \in 1 .. issued /\ mem'.tokens[t] # None
    BY <1>3, <1>9, <1>14, <1>19, ValuesAssumption DEF Commits, token
  <2> QED
    BY <1>1, <1>15, <1>17, <1>18, <1>19, <2>1, CommitStep
<1>20. CASE CommitFails(next, FALSE) /\ Reply(m, "failed") /\ shown' = shown
  BY <1>1, <1>15, <1>17, <1>18, <1>20, CommitStep
<1> QED
  BY <1>1, <1>19, <1>20

(* The use of a token, the approval of the case and the record under the   *)
(* key are one commit.                                                     *)
LEMMA ApprovedIsApproval ==
    ASSUME Inv, NEW m \in Managers, session[m].pc = "stamped", Admitted(m)
    PROVE  ApprovalOf(mem, Approved(m))
<1> DEFINE s == session[m]
           r == s.request
           token == r.token
           c == r.case
           case == mem.cases[c]
           content == Last(case.contents)
           stored == mem.tokens[token]
           seal(shows) == [content |-> shows, segments |-> content.manifest,
                           version |-> Version(case) + 1, by |-> m, at |-> s.clock]
<1>1. /\ r \in Request /\ r.key \in Keys /\ token \in shown
      /\ stored.expires - Lifetime <= s.clock /\ s.clock \in Nat
  BY SessionParts DEF Inv, HandlerInv, ApprovingOf
<1>2. /\ stored # None /\ stored.used = None /\ s.clock < stored.expires
      /\ stored.case = c /\ stored.expected = r.expected /\ stored.actor = m
      /\ stored.content = Last(s.candidate.contents)
      /\ Version(case) = r.expected /\ case.credential = None
  BY DEF Admitted, TokenValid, Approvable
<1>3. token \in Tokens /\ c \in CaseIds
  BY <1>1, ShownIsThere DEF Request
<1>4. stored \in Confirmation
  BY <1>2, <1>3, CaseParts DEF Inv, TypeOK
<1>5. s.clock \in stored.expires - Lifetime .. stored.expires - 1
  <2>1. stored.expires \in Nat
    BY <1>4 DEF Confirmation
  <2> QED
    BY <1>1, <1>2, <2>1, Counters
<1>6. stored.content = content
  <2>1. stored.content = case.contents[Len(case.contents)]
    BY <1>2, <1>3 DEF Inv, SnapshotInv, TokensInv, Version
  <2> QED
    BY <2>1 DEF Last
<1>7. Usable(mem, token, m, c, s.clock)
  BY <1>2, <1>5 DEF Usable
<1>8. Last(s.candidate.contents) = content
  BY <1>2, <1>6
<1>9. /\ mem.cases \in [CaseIds -> Case] /\ mem.tokens \in [Tokens -> Confirmation \cup {None}]
      /\ mem = [cases |-> mem.cases, tokens |-> mem.tokens, keys |-> mem.keys]
      /\ mem.keys \in [Keys -> [request : Request, actor : Managers] \cup {None}]
  BY CaseParts DEF Inv, TypeOK
<1> DEFINE h == Append(case.contents, content)
           one == [case EXCEPT !.contents = h]
           two == [one EXCEPT !.credential = seal(content)]
           a == [mem EXCEPT !.cases[c].contents = h]
           b == [a EXCEPT !.cases[c].credential = seal(content)]
           d == [b EXCEPT !.tokens[token].used = s.clock]
           e == [d EXCEPT !.keys[r.key] = [request |-> r, actor |-> m]]
<1>10. two = [contents |-> h, checked |-> case.checked, findings |-> case.findings,
              credential |-> seal(content)]
  <2> HIDE DEF h, seal
  <2>1. case \in Case
    BY <1>3, <1>9
  <2> HIDE DEF case
  <2>2. case = [contents |-> case.contents, checked |-> case.checked,
                findings |-> case.findings, credential |-> case.credential]
    BY <2>1 DEF Case
  <2>3. one = [contents |-> h, checked |-> case.checked, findings |-> case.findings,
               credential |-> case.credential]
    BY <2>2
  <2> HIDE DEF one
  <2> QED
    BY <2>3
<1>11. Approved(m) = e
  BY <1>8 DEF Approved
<1>12. e = [cases |-> [mem.cases EXCEPT ![c] = two],
            tokens |-> [mem.tokens EXCEPT ![token] = [stored EXCEPT !.used = s.clock]],
            keys |-> [mem.keys EXCEPT ![r.key] = [request |-> r, actor |-> m]]]
  <2> HIDE DEF h, seal, case, stored
  <2>1. a = [cases |-> [mem.cases EXCEPT ![c] = one], tokens |-> mem.tokens, keys |-> mem.keys]
    BY <1>3, <1>9 DEF case
  <2> HIDE DEF a
  <2>2. b = [cases |-> [mem.cases EXCEPT ![c] = two], tokens |-> mem.tokens, keys |-> mem.keys]
    <3> DEFINE x == [mem.cases EXCEPT ![c] = one]
    <3>1. /\ b = [cases |-> [x EXCEPT ![c] = [x[c] EXCEPT !.credential = seal(content)]],
                  tokens |-> mem.tokens, keys |-> mem.keys]
      BY <2>1
    <3>2. x[c] = one
      BY <1>3, <1>9
    <3>3. [x EXCEPT ![c] = two] = [mem.cases EXCEPT ![c] = two]
      <4> HIDE DEF one, two
      <4> QED
        BY <1>3, <1>9
    <3> HIDE DEF x
    <3> QED
      BY <3>1, <3>2, <3>3
  <2> HIDE DEF b
  <2>3. d = [cases |-> [mem.cases EXCEPT ![c] = two],
             tokens |-> [mem.tokens EXCEPT ![token] = [stored EXCEPT !.used = s.clock]],
             keys |-> mem.keys]
    BY <1>3, <1>9, <2>2 DEF stored
  <2> HIDE DEF d
  <2> QED
    BY <2>3
<1> DEFINE key == r.key
           clock == s.clock
<1>13. key \in Keys /\ clock \in Nat /\ r \in Request /\ token \in Tokens /\ c \in CaseIds
  BY <1>1, <1>3
<1>14. LET shows == Last(mem.cases[c].contents) IN
       /\ Usable(mem, token, m, c, clock)
       /\ Approved(m) =
            [cases |-> [mem.cases EXCEPT ![c] =
                 [contents |-> Append(mem.cases[c].contents, shows),
                  checked |-> mem.cases[c].checked, findings |-> mem.cases[c].findings,
                  credential |-> [content |-> shows, segments |-> shows.manifest,
                                  version |-> Version(mem.cases[c]) + 1, by |-> m,
                                  at |-> clock]]],
             tokens |-> [mem.tokens EXCEPT ![token] =
                            [mem.tokens[token] EXCEPT !.used = clock]],
             keys |-> [mem.keys EXCEPT ![key] = [request |-> r, actor |-> m]]]
  BY <1>7, <1>10, <1>11, <1>12
<1> HIDE DEF s, r, token, c, key, clock
<1> QED
  BY <1>13, <1>14, Zenon DEF ApprovalOf

LEMMA ApproveInv ==
    ASSUME Inv, NEW m \in Managers, Approve(m)
    PROVE  Inv' /\ Ahead(mem, mem')
<1> DEFINE s == session[m]
           token == s.request.token
           next == Approved(m)
<1>1. /\ s.pc = "stamped" /\ Admitted(m)
      /\ now' = now /\ issued' = issued /\ shown' = shown
      /\ \/ Commits(next) /\ Reply(m, "approved")
         \/ CommitFails(next, TRUE) /\ Reply(m, "failed")
  BY DEF Approve
<1>2. CommitOf(mem, next)
  BY <1>1, ApprovedIsApproval DEF CommitOf
<1>3. /\ s.request.key \in Keys /\ token \in Tokens /\ mem.tokens[token] # None
  BY <1>1, ShownIsThere DEF Inv, HandlerInv, ApprovingOf
<1>4. /\ mem.tokens \in [Tokens -> Confirmation \cup {None}]
      /\ mem.keys \in [Keys -> [request : Request, actor : Managers] \cup {None}]
      /\ mem = [cases |-> mem.cases, tokens |-> mem.tokens, keys |-> mem.keys]
  BY CaseParts DEF Inv, TypeOK
<1>5. /\ next.tokens = [mem.tokens EXCEPT ![token].used = s.clock]
      /\ next.keys = [mem.keys EXCEPT ![s.request.key] = [request |-> s.request, actor |-> m]]
  BY DEF Approved
<1>6. mem.tokens[token] \in Confirmation
  BY <1>3, <1>4
<1> HIDE DEF next, token
<1>7. /\ next.tokens[token].expires = mem.tokens[token].expires
      /\ \A t \in Tokens \ {token} : next.tokens[t] = mem.tokens[t]
  BY <1>3, <1>4, <1>5, <1>6 DEF Confirmation
<1>8. Timely(next)
  <2> SUFFICES ASSUME NEW t \in Tokens, next.tokens[t] # None
               PROVE  t <= issued /\ next.tokens[t].expires - Lifetime <= now
    BY DEF Timely
  <2>1. mem.tokens[t] # None
    BY <1>3, <1>7
  <2>2. next.tokens[t].expires = mem.tokens[t].expires
    BY <1>7
  <2> QED
    BY <2>1, <2>2 DEF Inv, Timely
<1>9. ASSUME NEW o \in Managers \ {m}
      PROVE  /\ session[o].pc = "saving" => next.tokens[session[o].request.token] = None
             /\ RefusedOf(o)'
  <2>1. session[o].pc = "saving" =>
           /\ session[o].request.token \in Tokens \ {token}
           /\ mem.tokens[session[o].request.token] = None
    BY <1>3, Counters DEF Inv, HandlerInv, SavingOf, Tokens
  <2>2. session'[o] = session[o]
    BY <1>1, SessionParts DEF Reply
  <2>3. mem' \in {mem, next}
    BY <1>1 DEF Commits, CommitFails
  <2>4. ASSUME session[o].request.key # None, session[o].request \in Request, ~Recorded(o)
        PROVE  mem'.keys[session[o].request.key]
                  # [request |-> session[o].request, actor |-> o]
    <3>1. session[o].request.key \in Keys
      BY <2>4 DEF Request
    <3>2. mem.keys[session[o].request.key] # [request |-> session[o].request, actor |-> o]
      BY <2>4 DEF Recorded
    <3>3. [request |-> s.request, actor |-> m] # [request |-> session[o].request, actor |-> o]
      OBVIOUS
    <3>4. next.keys[session[o].request.key] # [request |-> session[o].request, actor |-> o]
      BY <1>4, <1>5, <3>1, <3>2, <3>3
    <3> QED
      BY <2>3, <3>2, <3>4
  <2> QED
    BY <1>7, <2>1, <2>2, <2>4 DEF Inv, HandlerInv, RefusedOf, Recorded
<1>10. /\ shown \subseteq shown'
       /\ \A t \in shown' \ shown : t \in 1 .. issued /\ mem'.tokens[t] # None
  BY <1>1
<1>11. CASE Commits(next) /\ Reply(m, "approved")
  BY <1>1, <1>2, <1>8, <1>9, <1>10, <1>11, CommitStep
<1>12. CASE CommitFails(next, TRUE) /\ Reply(m, "failed")
  BY <1>1, <1>2, <1>8, <1>9, <1>10, <1>12, CommitStep
<1> QED
  BY <1>1, <1>11, <1>12

LEMMA NextInv == Inv /\ [Next]_vars => Inv' /\ Ahead(mem, mem')
<1> SUFFICES ASSUME Inv, [Next]_vars PROVE Inv' /\ Ahead(mem, mem')
  OBVIOUS
<1>1. CASE UNCHANGED vars
  <2>1. /\ mem' = mem /\ disk' = disk /\ now' = now /\ issued' = issued
        /\ shown' = shown /\ session' = session /\ faults' = faults
    BY <1>1 DEF vars
  <2>2. TypeOK'
    BY <2>1 DEF Inv, TypeOK
  <2>3. SnapshotInv(mem') /\ Ahead(mem', disk') /\ Ahead(mem, mem')
    BY <2>1 DEF Inv, Ahead
  <2>4. Timely(mem)' /\ Timely(disk)' /\ \A t \in shown' : mem'.tokens[t] # None
    BY <2>1 DEF Inv, Timely
  <2>5. ASSUME NEW m \in Managers PROVE HandlerInv(m)'
    BY <2>1 DEF Inv, HandlerInv, SavingOf, PreviewOf, ApprovingOf, RefusedOf, Recorded
  <2>6. SnapshotInv(mem)' /\ Ahead(mem, disk)'
    BY <2>1, <2>3 DEF SnapshotInv, TokensInv, SealedInv, Used, Version, Ahead
  <2> QED
    BY <2>2, <2>3, <2>4, <2>5, <2>6 DEF Inv
<1>2. ASSUME NEW m \in Managers, NEW c \in CaseIds, PreviewGet(m, c)
      PROVE  Inv' /\ Ahead(mem, mem')
  BY <1>2, PreviewGetInv DEF PreviewGet, Ahead
<1>3. ASSUME NEW m \in Managers, NEW request \in Requests, ApproveGet(m, request)
      PROVE  Inv' /\ Ahead(mem, mem')
  BY <1>3, ApproveGetInv DEF ApproveGet, Ahead
<1>4. ASSUME NEW m \in Managers, Handler(m)
      PROVE  Inv' /\ Ahead(mem, mem')
  <2>1. CASE PreviewIssue(m)
    BY <2>1, PreviewIssueInv DEF PreviewIssue, Ahead
  <2>2. CASE PreviewRefuse(m)
    BY <2>2, PreviewRefuseInv DEF PreviewRefuse, Ahead
  <2>3. CASE ApproveStamp(m)
    BY <2>3, ApproveStampInv DEF ApproveStamp, Ahead
  <2>4. CASE ApproveReplay(m)
    BY <2>4, ApproveReplayInv DEF ApproveReplay, Ahead
  <2>5. CASE ApproveRefuse(m)
    BY <2>5, ApproveRefuseInv DEF ApproveRefuse, Ahead
  <2> QED
    BY <1>4, <2>1, <2>2, <2>3, <2>4, <2>5, PreviewSaveInv, ApproveInv DEF Handler
<1> QED
  BY <1>1, <1>2, <1>3, <1>4, OthersInv DEF Next

LEMMA Invariance == Spec => []Inv
BY InitInv, NextInv, PTL DEF Spec
-----------------------------------------------------------------------------
(* Theorems *)

LEMMA DiskInv == Inv => mem \in Snapshot /\ disk \in Snapshot /\ SnapshotInv(disk)
BY AheadKeeps DEF Inv, TypeOK

(* The memory, the disk, the tokens clients know and the sessions keep     *)
(* their types in every behaviour of previews, approvals, other commands,  *)
(* failed commits and restarts.                                            *)
THEOREM TypeCorrect == Spec => []TypeOK
<1>1. Inv => TypeOK
  BY DEF Inv
<1> QED
  BY <1>1, Invariance, PTL

(* A token is used at most once, and exactly with the approval of the      *)
(* version it was made for: for any number of managers, tokens, failures   *)
(* and restarts, in memory and on disk.                                    *)
THEOREM TokenUsedOnce == Spec => []UsedWithApproval
<1>1. ASSUME NEW s \in Snapshot, SnapshotInv(s), NEW c \in CaseIds
      PROVE  LET k == s.cases[c].credential IN
             /\ Cardinality(Used(s, c)) = IF k = None THEN 0 ELSE 1
             /\ \A t \in Used(s, c) : /\ s.tokens[t].expected + 1 = k.version
                                      /\ s.tokens[t].used = k.at
  <2>1. CASE s.cases[c].credential = None
    <3>1. Used(s, c) = {}
      BY <1>1, <2>1 DEF SnapshotInv, SealedInv
    <3> QED
      BY <2>1, <3>1, FS_EmptySet
  <2>2. CASE s.cases[c].credential # None
    <3>1. PICK t \in Tokens : /\ Used(s, c) = {t}
                              /\ s.tokens[t].expected + 1 = s.cases[c].credential.version
                              /\ s.tokens[t].used = s.cases[c].credential.at
      BY <1>1, <2>2 DEF SnapshotInv, SealedInv
    <3>2. Cardinality(Used(s, c)) = 1
      BY <3>1, FS_Singleton
    <3> QED
      BY <2>2, <3>1, <3>2
  <2> QED
    BY <2>1, <2>2
<1>2. Inv => UsedWithApproval
  BY <1>1, DiskInv DEF Inv, UsedWithApproval, Used
<1> QED
  BY <1>2, Invariance, PTL

(* No token is used before it was issued or once it has expired, although  *)
(* an approval reads the clock before it waits for the mutex.              *)
THEOREM WithinLifetime == Spec => []ApprovedWithinLifetime
<1>1. Inv => ApprovedWithinLifetime
  BY DiskInv DEF Inv, SnapshotInv, TokensInv, ApprovedWithinLifetime
<1> QED
  BY <1>1, Invariance, PTL

(* An approved case is what its credential seals and lists, although the   *)
(* digests are taken from a copy read before the mutex.                    *)
THEOREM SealedIsListed == Spec => []SealsWhatItLists
<1>1. Inv => SealsWhatItLists
  BY DiskInv DEF Inv, SnapshotInv, SealedInv, SealsWhatItLists
<1> QED
  BY <1>1, Invariance, PTL

(* Who repeats an approval that was recorded is not refused. *)
THEOREM RetryAnswered == Spec => []RetryIsAnswered
<1>1. Inv => RetryIsAnswered
  BY DEF Inv, HandlerInv, RefusedOf, RetryIsAnswered
<1> QED
  BY <1>1, Invariance, PTL
-----------------------------------------------------------------------------
(* Approval implements Publication *)

Histories(s) == [c \in CaseIds |-> s.cases[c].contents]

Previewed(s, t) == [actor |-> s.tokens[t].actor, version |-> s.tokens[t].expected,
                    content |-> s.tokens[t].content]

Previews(s) == [c \in CaseIds |->
                   {Previewed(s, t) :
                       t \in {u \in Tokens : s.tokens[u] # None /\ s.tokens[u].case = c}}]

SealOf(k) == IF k = None THEN None ELSE [actor |-> k.by, content |-> k.content]

Seals(s) == [c \in CaseIds |-> SealOf(s.cases[c].credential)]

(* Using a token shows nobody anything. *)
LEMMA SamePreviews ==
    ASSUME NEW s, NEW t,
           \A u \in Tokens :
              /\ s.tokens[u] # None <=> t.tokens[u] # None
              /\ s.tokens[u] # None =>
                    /\ t.tokens[u].case = s.tokens[u].case
                    /\ t.tokens[u].actor = s.tokens[u].actor
                    /\ t.tokens[u].expected = s.tokens[u].expected
                    /\ t.tokens[u].content = s.tokens[u].content
    PROVE  Previews(t) = Previews(s)
<1>1. \A u \in Tokens : s.tokens[u] # None => Previewed(t, u) = Previewed(s, u)
  BY DEF Previewed
<1>2. ASSUME NEW c \in CaseIds
      PROVE  Previews(t)[c] = Previews(s)[c]
  BY <1>1 DEF Previews
<1> QED
  BY <1>2 DEF Previews

LEMMA ChangeIsEdit ==
    ASSUME NEW s \in Snapshot, NEW t, ChangeOf(s, t)
    PROVE  \E c \in CaseIds, content \in Content :
              /\ Seals(s)[c] = None
              /\ Histories(t) = [Histories(s) EXCEPT ![c] = Append(@, content)]
              /\ Previews(t) = Previews(s) /\ Seals(t) = Seals(s)
<1>1. PICK c \in CaseIds, content \in Content, checked \in BOOLEAN,
           findings \in {"none", "open", "returned"} :
         /\ s.cases[c].credential = None
         /\ t = [s EXCEPT !.cases[c] =
                    [contents |-> Append(s.cases[c].contents, content), checked |-> checked,
                     findings |-> findings, credential |-> s.cases[c].credential]]
  BY DEF ChangeOf
<1> DEFINE h == Append(s.cases[c].contents, content)
           new == [contents |-> h, checked |-> checked, findings |-> findings,
                   credential |-> s.cases[c].credential]
<1>2. s.cases \in [CaseIds -> Case] /\ s = [cases |-> s.cases, tokens |-> s.tokens, keys |-> s.keys]
  BY CaseParts
<1>3. t.tokens = s.tokens /\ t.cases = [s.cases EXCEPT ![c] = new]
  BY <1>1, <1>2
<1>4. new.contents = h /\ new.credential = s.cases[c].credential
  OBVIOUS
<1> HIDE DEF h, new
<1>5. \A d \in CaseIds : t.cases[d] = IF d = c THEN new ELSE s.cases[d]
  BY <1>2, <1>3
<1>6. Histories(t) = [Histories(s) EXCEPT ![c] = h]
  BY <1>4, <1>5 DEF Histories
<1>7. Histories(s)[c] = s.cases[c].contents
  BY DEF Histories
<1>8. Seals(t) = Seals(s) /\ Seals(s)[c] = None
  BY <1>1, <1>4, <1>5 DEF Seals, SealOf
<1>9. Previews(t) = Previews(s)
  BY <1>3, SamePreviews
<1> QED
  BY <1>6, <1>7, <1>8, <1>9 DEF h

LEMMA SaveIsPreview ==
    ASSUME NEW s \in Snapshot, NEW t, SaveOf(s, t)
    PROVE  \E c \in CaseIds, actor \in Managers : \E version \in DOMAIN Histories(s)[c] :
              /\ Previews(t) = [Previews(s) EXCEPT ![c] = @ \cup
                    {[actor |-> actor, version |-> version,
                      content |-> Histories(s)[c][version]]}]
              /\ Histories(t) = Histories(s) /\ Seals(t) = Seals(s)
<1>1. PICK token \in Tokens, k \in Confirmation :
         /\ s.tokens[token] = None
         /\ k.used = None
         /\ k.expected \in 1 .. Len(s.cases[k.case].contents)
         /\ k.content = s.cases[k.case].contents[k.expected]
         /\ t = [s EXCEPT !.tokens[token] = k]
  BY DEF SaveOf
<1>2. /\ s.tokens \in [Tokens -> Confirmation \cup {None}]
      /\ s = [cases |-> s.cases, tokens |-> s.tokens, keys |-> s.keys]
  BY CaseParts
<1>3. t.cases = s.cases /\ t.tokens = [s.tokens EXCEPT ![token] = k]
  BY <1>1, <1>2
<1>4. k.case \in CaseIds /\ k.actor \in Managers /\ k # None
  BY ValuesAssumption DEF Confirmation
<1>5. /\ t.tokens[token] = k
      /\ \A u \in Tokens \ {token} : t.tokens[u] = s.tokens[u]
  BY <1>2, <1>3
<1> DEFINE shows == [actor |-> k.actor, version |-> k.expected, content |-> k.content]
<1>6. Previewed(t, token) = shows
  BY <1>5 DEF Previewed
<1>7. \A u \in Tokens \ {token} : Previewed(t, u) = Previewed(s, u)
  BY <1>5 DEF Previewed
<1> HIDE DEF shows
<1>8. ASSUME NEW c \in CaseIds
      PROVE  Previews(t)[c] = IF c = k.case THEN Previews(s)[c] \cup {shows} ELSE Previews(s)[c]
  BY <1>1, <1>4, <1>5, <1>6, <1>7 DEF Previews
<1>9. Previews(t) = [Previews(s) EXCEPT ![k.case] = @ \cup {shows}]
  BY <1>8 DEF Previews
<1>10. Histories(t) = Histories(s) /\ Seals(t) = Seals(s)
  BY <1>3 DEF Histories, Seals
<1>11. Histories(s)[k.case] = s.cases[k.case].contents
  BY <1>4 DEF Histories
<1>12. k.expected \in DOMAIN Histories(s)[k.case]
  <2>1. s.cases[k.case].contents \in Seq(Content)
    BY <1>4, CaseParts
  <2> QED
    BY <1>1, <1>11, <2>1, LenProperties
<1> DEFINE c == k.case
           actor == k.actor
           version == k.expected
<1>13. /\ c \in CaseIds /\ actor \in Managers /\ version \in DOMAIN Histories(s)[c]
       /\ Previews(t) = [Previews(s) EXCEPT ![c] = @ \cup
             {[actor |-> actor, version |-> version, content |-> Histories(s)[c][version]]}]
       /\ Histories(t) = Histories(s) /\ Seals(t) = Seals(s)
  BY <1>1, <1>4, <1>9, <1>10, <1>11, <1>12 DEF shows
<1> HIDE DEF c, actor, version
<1> QED
  BY <1>13, Zenon

LEMMA ApprovalIsSeal ==
    ASSUME NEW s \in Snapshot, NEW t, ApprovalOf(s, t), SnapshotInv(s)
    PROVE  \E c \in CaseIds, actor \in Managers :
              LET content == Last(Histories(s)[c]) IN
              /\ Seals(s)[c] = None
              /\ [actor |-> actor, version |-> Len(Histories(s)[c]), content |-> content]
                    \in Previews(s)[c]
              /\ Seals(t) = [Seals(s) EXCEPT ![c] = [actor |-> actor, content |-> content]]
              /\ Histories(t) = [Histories(s) EXCEPT ![c] = Append(@, content)]
              /\ Previews(t) = Previews(s)
<1>1. PICK m \in Managers, token \in Tokens, c \in CaseIds, key \in Keys,
           request \in Request, clock \in Nat :
         LET content == Last(s.cases[c].contents) IN
         /\ Usable(s, token, m, c, clock)
         /\ t = [cases |-> [s.cases EXCEPT ![c] =
                     [contents |-> Append(s.cases[c].contents, content),
                      checked |-> s.cases[c].checked, findings |-> s.cases[c].findings,
                      credential |-> [content |-> content, segments |-> content.manifest,
                                      version |-> Version(s.cases[c]) + 1, by |-> m,
                                      at |-> clock]]],
                 tokens |-> [s.tokens EXCEPT ![token] = [s.tokens[token] EXCEPT !.used = clock]],
                 keys |-> [s.keys EXCEPT ![key] = [request |-> request, actor |-> m]]]
  BY DEF ApprovalOf
<1> DEFINE old == s.cases[c].contents
           content == Last(old)
           h == Append(old, content)
           seal == [content |-> content, segments |-> content.manifest,
                    version |-> Version(s.cases[c]) + 1, by |-> m, at |-> clock]
           new == [contents |-> h, checked |-> s.cases[c].checked,
                   findings |-> s.cases[c].findings, credential |-> seal]
           used == [s.tokens[token] EXCEPT !.used = clock]
<1>2. /\ s.cases \in [CaseIds -> Case] /\ old \in Seq(Content) /\ Len(old) > 0
      /\ s.tokens \in [Tokens -> Confirmation \cup {None}]
  BY CaseParts DEF SnapshotInv, SealedInv
<1>3. /\ s.tokens[token] \in Confirmation /\ s.tokens[token] # None
      /\ s.tokens[token].case = c /\ s.tokens[token].actor = m
      /\ s.tokens[token].expected = Len(old) /\ s.cases[c].credential = None
  BY <1>1, CaseParts DEF Usable, Version
<1>4. t.cases = [s.cases EXCEPT ![c] = new] /\ t.tokens = [s.tokens EXCEPT ![token] = used]
  BY <1>1
<1>5. content = old[Len(old)] /\ content \in Content
  BY <1>2, LastType
<1>6. seal # None
  <2>1. Version(s.cases[c]) + 1 \in Nat /\ content.manifest \in Manifests
    BY <1>2, <1>5, LenProperties DEF Version, Content
  <2> HIDE DEF content
  <2>2. seal \in Credential
    BY <1>5, <2>1 DEF Credential
  <2> QED
    BY <2>2, ValuesAssumption
<1>7. /\ used # None /\ used.case = c /\ used.actor = m /\ used.expected = Len(old)
      /\ used.content = s.tokens[token].content
  <2>1. used \in Confirmation
    BY <1>3 DEF Confirmation
  <2> QED
    BY <1>3, <2>1, ValuesAssumption DEF Confirmation
<1>8. s.tokens[token].content = content
  BY <1>3, <1>5 DEF SnapshotInv, TokensInv
<1>9. new.contents = h /\ new.credential = seal /\ SealOf(seal) = [actor |-> m, content |-> content]
  BY <1>6 DEF SealOf
<1>10. /\ Histories(s)[c] = old /\ Seals(s)[c] = None
  BY <1>3 DEF Histories, Seals, SealOf
<1>11. Previewed(s, token) = [actor |-> m, version |-> Len(old), content |-> content]
  BY <1>3, <1>8 DEF Previewed
<1> HIDE DEF h, seal, new, used, content
<1>12. \A d \in CaseIds : t.cases[d] = IF d = c THEN new ELSE s.cases[d]
  BY <1>2, <1>4
<1>13. \A u \in Tokens : t.tokens[u] = IF u = token THEN used ELSE s.tokens[u]
  BY <1>2, <1>4
<1>14. Histories(t) = [Histories(s) EXCEPT ![c] = h]
  BY <1>9, <1>12 DEF Histories
<1>15. Seals(t) = [Seals(s) EXCEPT ![c] = [actor |-> m, content |-> content]]
  BY <1>9, <1>12 DEF Seals
<1>16. Previews(t) = Previews(s)
  BY <1>3, <1>7, <1>13, SamePreviews
<1>17. Previewed(s, token) \in Previews(s)[c]
  BY <1>3 DEF Previews
<1> QED
  BY <1>10, <1>11, <1>14, <1>15, <1>16, <1>17 DEF h, content

(* Previewing and approving in threads, through stale copies, failed       *)
(* commits and restarts, publishes exactly a version that its approver was *)
(* shown, once and for good, whatever the managers, cases and bounds.      *)
THEOREM ApprovalIsPublication == Spec => ImplementsPublication
<1>1. Init => Promise!Init
  <2> SUFFICES ASSUME Init PROVE Promise!Init
    OBVIOUS
  <2>1. PICK content \in Content, returned \in BOOLEAN :
           mem = [cases |-> [c \in CaseIds |-> Started(content, returned)],
                  tokens |-> [t \in Tokens |-> None],
                  keys |-> [k \in Keys |-> None]]
    BY ApprovalAssumption DEF Init, Content
  <2> DEFINE first == [c \in CaseIds |-> content]
  <2>2. first \in [CaseIds -> Content]
    OBVIOUS
  <2>3. Histories(mem) = [c \in CaseIds |-> <<first[c]>>]
    BY <2>1 DEF Histories, Started
  <2>4. Previews(mem) = [c \in CaseIds |-> {}]
    BY <2>1 DEF Previews
  <2>5. Seals(mem) = [c \in CaseIds |-> None]
    BY <2>1 DEF Seals, SealOf, Started
  <2> HIDE DEF first
  <2> QED
    BY <2>2, <2>3, <2>4, <2>5
       DEF Promise!Init, Histories, Previews, Previewed, Seals, SealOf
<1>2. Inv /\ [Next]_vars => [Promise!Next]_Promise!vars
  <2> SUFFICES ASSUME Inv, [Next]_vars
               PROVE  [Promise!Next]_Promise!vars
    OBVIOUS
  <2>1. Ahead(mem, mem') /\ mem \in Snapshot /\ SnapshotInv(mem)
    BY NextInv DEF Inv, TypeOK
  <2>2. CASE mem' = mem
    BY <2>2 DEF Promise!vars
  <2>3. CASE ChangeOf(mem, mem')
    <3>1. PICK c \in CaseIds, content \in Content :
             /\ Seals(mem)[c] = None
             /\ Histories(mem') = [Histories(mem) EXCEPT ![c] = Append(@, content)]
             /\ Previews(mem') = Previews(mem) /\ Seals(mem') = Seals(mem)
      BY <2>1, <2>3, ChangeIsEdit
    <3>2. Promise!Edit(c, content)
      BY <3>1 DEF Promise!Edit, Histories, Previews, Previewed, Seals, SealOf
    <3> QED
      BY <3>2 DEF Promise!Next
  <2>4. CASE SaveOf(mem, mem')
    <3>1. PICK c \in CaseIds, actor \in Managers : \E version \in DOMAIN Histories(mem)[c] :
             /\ Previews(mem') = [Previews(mem) EXCEPT ![c] = @ \cup
                   {[actor |-> actor, version |-> version,
                     content |-> Histories(mem)[c][version]]}]
             /\ Histories(mem') = Histories(mem) /\ Seals(mem') = Seals(mem)
      BY <2>1, <2>4, SaveIsPreview
    <3>2. PICK version \in DOMAIN Histories(mem)[c] :
             /\ Previews(mem') = [Previews(mem) EXCEPT ![c] = @ \cup
                   {[actor |-> actor, version |-> version,
                     content |-> Histories(mem)[c][version]]}]
             /\ Histories(mem') = Histories(mem) /\ Seals(mem') = Seals(mem)
      BY <3>1
    <3>3. Promise!Preview(c, actor, version)
      BY <3>2 DEF Promise!Preview, Histories, Previews, Previewed, Seals, SealOf
    <3> QED
      BY <3>2, <3>3 DEF Promise!Next, Histories
  <2>5. CASE ApprovalOf(mem, mem')
    <3>1. PICK c \in CaseIds, actor \in Managers :
             LET content == Last(Histories(mem)[c]) IN
             /\ Seals(mem)[c] = None
             /\ [actor |-> actor, version |-> Len(Histories(mem)[c]), content |-> content]
                   \in Previews(mem)[c]
             /\ Seals(mem') = [Seals(mem) EXCEPT ![c] = [actor |-> actor, content |-> content]]
             /\ Histories(mem') = [Histories(mem) EXCEPT ![c] = Append(@, content)]
             /\ Previews(mem') = Previews(mem)
      BY <2>1, <2>5, ApprovalIsSeal
    <3>2. Promise!Seal(c, actor)
      BY <3>1 DEF Promise!Seal, Promise!Last, Last, Histories, Previews, Previewed, Seals,
                  SealOf
    <3> QED
      BY <3>2 DEF Promise!Next
  <2> QED
    BY <2>1, <2>2, <2>3, <2>4, <2>5 DEF Ahead, CommitOf
<1> QED
  BY <1>1, <1>2, Invariance, PTL DEF Spec, ImplementsPublication, Promise!Spec
=============================================================================
