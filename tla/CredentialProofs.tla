--------------------------- MODULE CredentialProofs ---------------------------
(***************************************************************************)
(* Sorting, and what a credential proves of the case that carries it, for  *)
(* cases of any size and any number of changes to the file.                *)
(***************************************************************************)
EXTENDS CredentialCheck, FiniteSetTheorems, TLAPS

-----------------------------------------------------------------------------
(* A stored slice: no two segments in one place of it. *)
Slice(rc) ==
    /\ rc \subseteq Segment /\ IsFiniteSet(rc)
    /\ \A s, t \in rc : s.row = t.row => s = t

DistinctIds(rc) == \A s, t \in rc : s.id = t.id => s = t

LEMMA SegmentTypes ==
    ASSUME NEW s \in Segment
    PROVE  s.row \in Nat /\ s.id \in Nat /\ s.sequence \in Nat
  BY CredentialCheckAssumption DEF Segment

(* Before orders a slice strictly and totally. *)
LEMMA BeforeIsOrder ==
    ASSUME NEW rc, Slice(rc)
    PROVE  /\ \A s \in rc : ~Before(s, s)
           /\ \A s, t \in rc : s # t => Before(s, t) \/ Before(t, s)
           /\ \A s, t, u \in rc : Before(s, t) /\ Before(t, u) => Before(s, u)
<1>1. \A s \in rc : s.row \in Nat /\ s.id \in Nat /\ s.sequence \in Nat
  BY SegmentTypes DEF Slice
<1>2. ASSUME NEW s \in rc, NEW t \in rc, s # t
      PROVE  Before(s, t) \/ Before(t, s)
  <2>1. s.row # t.row
    BY <1>2 DEF Slice
  <2> QED
    BY <1>1, <2>1 DEF Before
<1>3. ASSUME NEW s \in rc, NEW t \in rc, NEW u \in rc, Before(s, t), Before(t, u)
      PROVE  Before(s, u)
  BY <1>1, <1>3 DEF Before
<1>4. ASSUME NEW s \in rc PROVE ~Before(s, s)
  BY <1>1 DEF Before
<1> QED
  BY <1>2, <1>3, <1>4

(* The segments before one that comes before t are fewer than those before *)
(* t.                                                                      *)
LEMMA PlaceGrows ==
    ASSUME NEW rc, Slice(rc), NEW s \in rc, NEW t \in rc, Before(s, t)
    PROVE  Place(rc, s) < Place(rc, t)
<1> DEFINE low == {u \in rc : Before(u, s)}
           high == {u \in rc : Before(u, t)}
<1>1. low \subseteq high /\ s \in high /\ s \notin low
  BY BeforeIsOrder
<1>2. IsFiniteSet(high)
  BY FS_Subset DEF Slice
<1>3. /\ IsFiniteSet(low)
      /\ Cardinality(low) <= Cardinality(high)
      /\ Cardinality(low) = Cardinality(high) => low = high
  BY <1>1, <1>2, FS_Subset
<1>4. Cardinality(low) # Cardinality(high)
  BY <1>1, <1>3
<1>5. Cardinality(low) \in Nat /\ Cardinality(high) \in Nat
  BY <1>2, <1>3, FS_CardinalityType
<1> QED
  BY <1>3, <1>4, <1>5 DEF Place

(* Every place in 1..n is taken by exactly one segment. *)
LEMMA PlacesAreTaken ==
    ASSUME NEW rc, Slice(rc)
    PROVE  /\ Cardinality(rc) \in Nat
           /\ \A s \in rc : Place(rc, s) \in 1..Cardinality(rc)
           /\ \A s, t \in rc : Place(rc, s) = Place(rc, t) => s = t
           /\ \A i \in 1..Cardinality(rc) : \E s \in rc : Place(rc, s) = i
<1> DEFINE n == Cardinality(rc)
           place == [s \in rc |-> Place(rc, s)]
<1>1. n \in Nat
  BY FS_CardinalityType DEF Slice
<1>2. ASSUME NEW s \in rc
      PROVE  Place(rc, s) \in 1..n
  <2> DEFINE low == {u \in rc : Before(u, s)}
  <2>1. low \in SUBSET rc /\ s \notin low
    BY BeforeIsOrder
  <2>2. IsFiniteSet(low) /\ Cardinality(low) <= n /\ Cardinality(low) # n
    BY <2>1, FS_Subset DEF Slice
  <2>3. Cardinality(low) \in Nat
    BY <2>2, FS_CardinalityType
  <2> QED
    BY <1>1, <2>2, <2>3 DEF Place
<1>3. ASSUME NEW s \in rc, NEW t \in rc, Place(rc, s) = Place(rc, t)
      PROVE  s = t
  <2>1. Place(rc, s) \in Int /\ Place(rc, t) \in Int
    BY <1>2
  <2>2. ~Before(s, t) /\ ~Before(t, s)
    BY <1>3, <2>1, PlaceGrows
  <2> QED
    BY <2>2, BeforeIsOrder
<1>4. place \in Injection(rc, 1..n)
  BY <1>2, <1>3 DEF Injection, IsInjective
<1>5. IsFiniteSet(1..n) /\ Cardinality(1..n) = n
  BY <1>1, FS_Interval
<1>6. place \in Surjection(rc, 1..n)
  BY <1>4, <1>5, FS_Injection
<1>7. \A i \in 1..n : \E s \in rc : Place(rc, s) = i
  BY <1>6 DEF Surjection
<1> QED
  BY <1>1, <1>2, <1>3, <1>7

(* Sorted puts every segment in its place and nothing else anywhere. *)
LEMMA SortedInPlace ==
    ASSUME NEW rc, Slice(rc)
    PROVE  /\ \A i \in 1..Cardinality(rc) :
                  Sorted(rc)[i] \in rc /\ Place(rc, Sorted(rc)[i]) = i
           /\ \A s \in rc : Sorted(rc)[Place(rc, s)] = s
<1>1. \A i \in 1..Cardinality(rc) :
          Sorted(rc)[i] \in rc /\ Place(rc, Sorted(rc)[i]) = i
  BY PlacesAreTaken DEF Sorted
<1>2. ASSUME NEW s \in rc
      PROVE  Sorted(rc)[Place(rc, s)] = s
  BY <1>1, PlacesAreTaken
<1> QED
  BY <1>1, <1>2

(* The items are those of the segments, as many as there are segments. *)
LEMMA ItemsOfSegments ==
    ASSUME NEW rc, Slice(rc)
    PROVE  /\ Len(CredentialSegments(rc)) = Cardinality(rc)
           /\ DOMAIN CredentialSegments(rc) = 1..Cardinality(rc)
           /\ CredentialSegments(rc) \in Seq({Item(s) : s \in Segment})
           /\ ToSet(CredentialSegments(rc)) = {Item(s) : s \in rc}
<1> DEFINE items == CredentialSegments(rc)
           n == Cardinality(rc)
<1>1. n \in Nat
  BY PlacesAreTaken
<1>2. \A i \in 1..n : Sorted(rc)[i] \in rc /\ items[i] = Item(Sorted(rc)[i])
  BY SortedInPlace DEF CredentialSegments
<1>3. items \in [1..n -> {Item(s) : s \in Segment}]
  BY <1>2 DEF CredentialSegments, Slice
<1>4. Len(items) = n /\ DOMAIN items = 1..n /\ items \in Seq({Item(s) : s \in Segment})
  BY <1>1, <1>3
<1>5. {items[i] : i \in 1..n} \subseteq {Item(s) : s \in rc}
  BY <1>2
<1>6. ASSUME NEW s \in rc
      PROVE  Item(s) \in {items[i] : i \in 1..n}
  BY <1>2, PlacesAreTaken, SortedInPlace
<1> QED
  BY <1>4, <1>5, <1>6 DEF ToSet

(* Two slices that look the same and store no id twice are sealed the same. *)
LEMMA SameItems ==
    ASSUME NEW a, NEW b, Slice(a), Slice(b), DistinctIds(a), DistinctIds(b),
           {Item(s) : s \in a} = {Item(s) : s \in b}
    PROVE  CredentialSegments(a) = CredentialSegments(b)
<1> DEFINE h == [s \in a |-> CHOOSE t \in b : Item(t) = Item(s)]
<1>1. \A s \in a : h[s] \in b /\ Item(h[s]) = Item(s)
  <2> SUFFICES ASSUME NEW s \in a PROVE h[s] \in b /\ Item(h[s]) = Item(s)
    OBVIOUS
  <2>1. \E t \in b : Item(t) = Item(s)
    OBVIOUS
  <2> QED
    BY <2>1
<1> HIDE DEF h
<1>2. \A s \in a : h[s].id = s.id /\ h[s].sequence = s.sequence
  BY <1>1 DEF Item
<1>3. \A s, t \in a : h[s] = h[t] => s = t
  BY <1>2 DEF DistinctIds
<1>4. \A t \in b : \E s \in a : h[s] = t
  <2> SUFFICES ASSUME NEW t \in b PROVE \E s \in a : h[s] = t
    OBVIOUS
  <2>1. PICK s \in a : Item(s) = Item(t)
    OBVIOUS
  <2>2. h[s].id = t.id /\ h[s] \in b
    BY <1>1, <2>1 DEF Item
  <2> QED
    BY <2>2 DEF DistinctIds
<1>5. \A s, t \in a : Before(t, s) <=> Before(h[t], h[s])
  <2> SUFFICES ASSUME NEW s \in a, NEW t \in a
               PROVE  Before(t, s) <=> Before(h[t], h[s])
    OBVIOUS
  <2>1. CASE s = t
    BY <1>1, <2>1, BeforeIsOrder
  <2>2. CASE s # t
    <3>1. s.id # t.id
      BY <2>2 DEF DistinctIds
    <3> QED
      BY <1>2, <3>1 DEF Before
  <2> QED
    BY <2>1, <2>2
<1>6. ASSUME NEW s \in a
      PROVE  Place(a, s) = Place(b, h[s])
  <2> DEFINE low == {t \in a : Before(t, s)}
             image == {t \in b : Before(t, h[s])}
             g == [t \in low |-> h[t]]
  <2>1. g \in [low -> image]
    BY <1>1, <1>5
  <2>2. \A t, u \in low : g[t] = g[u] => t = u
    BY <1>3
  <2>3. \A t \in image : \E u \in low : g[u] = t
    BY <1>4, <1>5
  <2>4. g \in Bijection(low, image)
    BY <2>1, <2>2, <2>3 DEF Bijection, Injection, Surjection, IsInjective
  <2>5. IsFiniteSet(low)
    BY FS_Subset DEF Slice
  <2>6. Cardinality(low) = Cardinality(image)
    BY <2>4, <2>5, FS_Bijection DEF ExistsBijection
  <2> QED
    BY <2>6 DEF Place
<1>7. Cardinality(a) = Cardinality(b)
  <2>1. h \in Bijection(a, b)
    <3>1. h \in [a -> b]
      BY <1>1 DEF h
    <3> QED
      BY <3>1, <1>3, <1>4 DEF Bijection, Injection, Surjection, IsInjective
  <2> QED
    BY <2>1, FS_Bijection DEF ExistsBijection, Slice
<1>8. ASSUME NEW i \in 1..Cardinality(a)
      PROVE  Item(Sorted(a)[i]) = Item(Sorted(b)[i])
  <2>1. Sorted(a)[i] \in a /\ Place(a, Sorted(a)[i]) = i
    BY SortedInPlace
  <2>2. Place(b, h[Sorted(a)[i]]) = i
    BY <1>6, <2>1
  <2>3. Sorted(b)[i] = h[Sorted(a)[i]]
    BY <1>1, <2>1, <2>2, SortedInPlace
  <2> QED
    BY <1>1, <2>1, <2>3
<1> QED
  BY <1>7, <1>8 DEF CredentialSegments

(* What a reader sees of a segment is what is digested of it. *)
LEMMA SeenIsItem ==
    /\ \A s, t : Seen(s) = Seen(t) <=> Item(s) = Item(t)
    /\ \A a, b : {Seen(s) : s \in a} = {Seen(s) : s \in b}
                 <=> {Item(s) : s \in a} = {Item(s) : s \in b}
<1>1. \A s, t : Seen(s) = Seen(t) <=> Item(s) = Item(t)
  BY DEF Seen, Item
<1>2. ASSUME NEW a, NEW b
      PROVE  {Seen(s) : s \in a} = {Seen(s) : s \in b}
             <=> {Item(s) : s \in a} = {Item(s) : s \in b}
  <2>1. {Seen(s) : s \in a} = {Seen(s) : s \in b}
        <=> /\ \A s \in a : \E t \in b : Seen(s) = Seen(t)
            /\ \A t \in b : \E s \in a : Seen(t) = Seen(s)
    OBVIOUS
  <2>2. {Item(s) : s \in a} = {Item(s) : s \in b}
        <=> /\ \A s \in a : \E t \in b : Item(s) = Item(t)
            /\ \A t \in b : \E s \in a : Item(t) = Item(s)
    OBVIOUS
  <2> QED
    BY <1>1, <2>1, <2>2
<1> QED
  BY <1>1, <1>2

(* As many rows as were approved, and the same ones to see, means that no  *)
(* id is stored twice.                                                     *)
LEMMA SameSizeMeansDistinct ==
    ASSUME NEW a, NEW b, Slice(a), Slice(b), DistinctIds(b),
           Cardinality(a) = Cardinality(b),
           {Item(s) : s \in a} = {Item(s) : s \in b}
    PROVE  DistinctIds(a)
<1> DEFINE h == [s \in a |-> CHOOSE t \in b : Item(t) = Item(s)]
<1>1. \A s \in a : h[s] \in b /\ Item(h[s]) = Item(s)
  <2> SUFFICES ASSUME NEW s \in a PROVE h[s] \in b /\ Item(h[s]) = Item(s)
    OBVIOUS
  <2>1. \E t \in b : Item(t) = Item(s)
    OBVIOUS
  <2> QED
    BY <2>1
<1>2. h \in [a -> b]
  BY <1>1
<1> HIDE DEF h
<1>3. \A s \in a : h[s].id = s.id
  BY <1>1 DEF Item
<1>4. \A t \in b : \E s \in a : h[s] = t
  <2> SUFFICES ASSUME NEW t \in b PROVE \E s \in a : h[s] = t
    OBVIOUS
  <2>1. PICK s \in a : Item(s) = Item(t)
    OBVIOUS
  <2>2. h[s].id = t.id /\ h[s] \in b
    BY <1>1, <2>1 DEF Item
  <2> QED
    BY <2>2 DEF DistinctIds
<1>5. h \in Surjection(a, b)
  BY <1>2, <1>4 DEF Surjection
<1>6. h \in Injection(a, b)
  BY <1>5, FS_SurjSameCardinalityImpliesInj DEF Slice
<1>7. \A s, t \in a : h[s] = h[t] => s = t
  BY <1>6 DEF Injection, IsInjective
<1>8. ASSUME NEW s \in a, NEW t \in a, s.id = t.id
      PROVE  s = t
  BY <1>1, <1>3, <1>7, <1>8 DEF DistinctIds
<1> QED
  BY <1>8 DEF DistinctIds

-----------------------------------------------------------------------------
(* The credential is what it was at the approval, but for sealed segments  *)
(* that it lost.                                                           *)
CredentialInv ==
    /\ LET items == CredentialSegments(original.segments)
       IN  credential = [version |-> 0, manifest |-> items,
                         consents |-> original.consents,
                         range |-> PublicIds(items), sealed |-> credential.sealed]
    /\ credential.sealed \in Seq({Item(s) : s \in Segment})
    /\ credential.sealed = credential.manifest
       \/ Len(credential.sealed) < Len(credential.manifest)

IInv ==
    /\ Slice(segments)
    /\ Slice(original.segments) /\ DistinctIds(original.segments)
    /\ CredentialInv

LEMMA CredentialFields ==
    ASSUME CredentialInv
    PROVE  /\ credential.version = 0
           /\ credential.manifest = CredentialSegments(original.segments)
           /\ credential.consents = original.consents
           /\ credential.range = PublicIds(credential.manifest)
<1> DEFINE sealed == credential.sealed
           items == CredentialSegments(original.segments)
<1>1. credential = [version |-> 0, manifest |-> items, consents |-> original.consents,
                    range |-> PublicIds(items), sealed |-> sealed]
  BY DEF CredentialInv
<1> HIDE DEF sealed
<1> QED
  BY <1>1

LEMMA ReplaceKeepsSlice ==
    ASSUME NEW rc, Slice(rc), NEW s \in rc, NEW t \in Segment, t.row = s.row
    PROVE  Slice((rc \ {s}) \cup {t})
<1>1. IsFiniteSet((rc \ {s}) \cup {t})
  BY FS_RemoveElement, FS_AddElement DEF Slice
<1> QED
  BY <1>1 DEF Slice

LEMMA InitInv == Init => IInv
<1> SUFFICES ASSUME Init PROVE IInv
  OBVIOUS
<1>1. Slice(segments) /\ DistinctIds(segments)
  BY CredentialCheckAssumption DEF Init, Slice, DistinctIds
<1>2. original.segments = segments /\ original.consents = consents
  BY DEF Init
<1>3. PICK legacy \in Legacy : credential = Seal(segments, consents, legacy)
  BY DEF Init
<1> DEFINE items == CredentialSegments(segments)
<1>4. items \in Seq({Item(s) : s \in Segment}) /\ Len(items) \in Nat
  BY <1>1, ItemsOfSegments
<1> HIDE DEF items
<1>5. /\ credential = [version |-> 0, manifest |-> items, consents |-> consents,
                        range |-> PublicIds(items),
                        sealed |-> IF legacy THEN <<>> ELSE items]
  BY <1>3 DEF Seal, items
<1>6. items = <<>> \/ 0 < Len(items)
  BY <1>4
<1>7. /\ credential.sealed \in Seq({Item(s) : s \in Segment})
      /\ credential.sealed = items \/ Len(credential.sealed) < Len(items)
      /\ credential.manifest = items
  BY <1>4, <1>5, <1>6
<1>8. credential = [version |-> 0, manifest |-> items, consents |-> consents,
                    range |-> PublicIds(items), sealed |-> credential.sealed]
  BY <1>5
<1> QED
  BY <1>1, <1>2, <1>7, <1>8 DEF IInv, CredentialInv, items

LEMMA NextInv == IInv /\ [Next]_vars => IInv'
<1> SUFFICES ASSUME IInv, [Next]_vars PROVE IInv'
  OBVIOUS
<1>1. ASSUME UNCHANGED <<segments, credential, original>>
      PROVE  IInv'
  BY <1>1 DEF IInv, CredentialInv
<1>2. ASSUME Slice(segments'), UNCHANGED <<credential, original>>
      PROVE  IInv'
  BY <1>2 DEF IInv, CredentialInv
<1>3. ASSUME NEW s \in segments, NEW t \in Segment, t.row = s.row,
             UNCHANGED original, Replace(s, t)
      PROVE  IInv'
  BY <1>2, <1>3, ReplaceKeepsSlice DEF IInv, Replace
<1>4. ASSUME NEW s \in segments, Rewrite(s)
      PROVE  IInv'
  <2>1. UNCHANGED original
    BY <1>4 DEF Rewrite, Fault
  <2>2. PICK x \in Texts : \/ Replace(s, [s EXCEPT !.proposed = x])
                           \/ Replace(s, [s EXCEPT !.disposition = x])
    BY <1>4 DEF Rewrite
  <2>3. /\ [s EXCEPT !.proposed = x] \in Segment /\ [s EXCEPT !.proposed = x].row = s.row
        /\ [s EXCEPT !.disposition = x] \in Segment /\ [s EXCEPT !.disposition = x].row = s.row
    BY DEF IInv, Slice, Segment
  <2> QED
    BY <1>3, <2>1, <2>2, <2>3
<1>5. ASSUME NEW s \in segments, Move(s)
      PROVE  IInv'
  <2>1. UNCHANGED original
    BY <1>5 DEF Move, Fault
  <2>2. PICK n \in Rows : Replace(s, [s EXCEPT !.sequence = n])
    BY <1>5 DEF Move
  <2>3. [s EXCEPT !.sequence = n] \in Segment /\ [s EXCEPT !.sequence = n].row = s.row
    BY CredentialCheckAssumption DEF IInv, Slice, Segment
  <2> QED
    BY <1>3, <2>1, <2>2, <2>3
<1>6. ASSUME NEW s \in segments, Rename(s)
      PROVE  IInv'
  <2>1. UNCHANGED original
    BY <1>6 DEF Rename, Fault
  <2>2. PICK id \in Ids : Replace(s, [s EXCEPT !.id = id])
    BY <1>6 DEF Rename
  <2>3. [s EXCEPT !.id = id] \in Segment /\ [s EXCEPT !.id = id].row = s.row
    BY DEF IInv, Slice, Segment
  <2> QED
    BY <1>3, <2>1, <2>2, <2>3
<1>7. ASSUME NEW s \in segments, Delete(s)
      PROVE  IInv'
  <2>1. segments' = segments \ {s} /\ UNCHANGED <<credential, original>>
    BY <1>7 DEF Delete, Fault
  <2>2. Slice(segments')
    BY <2>1, FS_RemoveElement DEF IInv, Slice
  <2> QED
    BY <1>2, <2>1, <2>2
<1>8. ASSUME NEW s \in segments, Copy(s)
      PROVE  IInv'
  <2>1. UNCHANGED <<credential, original>>
    BY <1>8 DEF Copy, Fault
  <2>2. PICK row \in Rows \ {r.row : r \in segments}, id \in Ids :
            segments' = segments \cup {[s EXCEPT !.row = row, !.id = id]}
    BY <1>8 DEF Copy
  <2> DEFINE t == [s EXCEPT !.row = row, !.id = id]
  <2>3. t \in Segment /\ t.row = row
    BY DEF IInv, Slice, Segment
  <2>4. IsFiniteSet(segments')
    BY <2>2, FS_AddElement DEF IInv, Slice
  <2>5. Slice(segments')
    BY <2>2, <2>3, <2>4 DEF IInv, Slice
  <2> QED
    BY <1>2, <2>1, <2>5
<1>9. CASE Unseal
  <2>1. UNCHANGED <<segments, original>>
    BY <1>9 DEF Unseal, Fault
  <2> DEFINE sealed == credential.sealed
             Items == {Item(s) : s \in Segment}
  <2>2. sealed \in Seq(Items) /\ Len(sealed) <= Len(credential.manifest)
        /\ Len(credential.manifest) \in Nat
    <3>1. credential.manifest \in Seq(Items)
      BY ItemsOfSegments, CredentialFields DEF IInv
    <3>2. /\ sealed \in Seq(Items)
          /\ sealed = credential.manifest \/ Len(sealed) < Len(credential.manifest)
      BY DEF IInv, CredentialInv
    <3> HIDE DEF sealed, Items
    <3> QED
      BY <3>1, <3>2
  <2>3. ASSUME NEW x \in Seq(Items), Len(x) < Len(sealed),
               credential' = [credential EXCEPT !.sealed = x]
        PROVE  IInv'
    <3>1. Len(x) < Len(credential.manifest)
      BY <2>2, <2>3
    <3> DEFINE items == CredentialSegments(original.segments)
    <3>2. credential = [version |-> 0, manifest |-> items, consents |-> original.consents,
                        range |-> PublicIds(items), sealed |-> sealed]
      BY DEF IInv, CredentialInv
    <3> HIDE DEF items, sealed
    <3>3. /\ credential' = [version |-> 0, manifest |-> items,
                            consents |-> original.consents,
                            range |-> PublicIds(items), sealed |-> x]
          /\ credential.manifest = items
      BY <2>3, <3>2
    <3>4. original' = original
      BY <2>1
    <3> QED
      BY <2>1, <2>3, <3>1, <3>3, <3>4 DEF IInv, CredentialInv, items
  <2>4. CASE credential' = [credential EXCEPT !.sealed = <<>>]
    <3>1. <<>> \in Seq(Items) /\ Len(<<>>) < Len(sealed)
      BY <1>9, <2>2 DEF Unseal, IsLegacy
    <3> QED
      BY <2>3, <2>4, <3>1
  <2>5. ASSUME NEW i \in DOMAIN sealed,
               credential' = [credential EXCEPT !.sealed = RemoveAt(@, i)]
        PROVE  IInv'
    <3>1. RemoveAt(sealed, i) \in Seq(Items) /\ Len(RemoveAt(sealed, i)) < Len(sealed)
      BY <2>2 DEF RemoveAt
    <3> QED
      BY <2>3, <2>5, <3>1
  <2> QED
    BY <1>9, <2>4, <2>5 DEF Unseal
<1>10. CASE ChangeConsents \/ Reopen \/ UNCHANGED vars
  BY <1>1, <1>10 DEF ChangeConsents, Reopen, Fault, vars
<1> QED
  BY <1>4, <1>5, <1>6, <1>7, <1>8, <1>9, <1>10 DEF Next

LEMMA Invariance == Spec => []IInv
  BY InitInv, NextInv, PTL DEF Spec

-----------------------------------------------------------------------------
(* While no id is stored twice, byID holds the item of the segment that    *)
(* has the id.                                                             *)
LEMMA ActualIsItem ==
    ASSUME Slice(segments), DistinctIds(segments)
    PROVE  /\ \A id : Exists(id) <=> \E s \in segments : s.id = id
           /\ \A s \in segments : Actual(s.id) = Item(s)
<1> DEFINE n == Cardinality(segments)
<1>1. n \in Nat /\ Len(Current) = n /\ DOMAIN Current = 1..n
  BY PlacesAreTaken, ItemsOfSegments DEF Current
<1>2. \A i \in 1..n : Sorted(segments)[i] \in segments
                      /\ Current[i] = Item(Sorted(segments)[i])
                      /\ Current[i].id = Sorted(segments)[i].id
  BY SortedInPlace DEF Current, CredentialSegments, Item
<1>3. \A s \in segments : /\ Place(segments, s) \in 1..n
                          /\ Sorted(segments)[Place(segments, s)] = s
  BY PlacesAreTaken, SortedInPlace
<1>4. ASSUME NEW id
      PROVE  Exists(id) <=> \E s \in segments : s.id = id
  BY <1>1, <1>2, <1>3 DEF Exists
<1>5. ASSUME NEW s \in segments
      PROVE  Actual(s.id) = Item(s)
  <2> DEFINE p == Place(segments, s)
             I == {i \in 1..Len(Current) : Current[i].id = s.id}
  <2>1. p \in 1..n /\ Current[p] = Item(s)
    BY <1>2, <1>3
  <2>2. ASSUME NEW i \in I
        PROVE  i = p
    <3>1. i \in 1..n /\ Sorted(segments)[i] = s
      BY <1>1, <1>2, <2>2 DEF DistinctIds
    <3> QED
      BY <3>1, SortedInPlace
  <2>3. I = {p}
    BY <1>1, <2>1, <2>2 DEF Item
  <2> HIDE DEF p, I
  <2>4. Max(I) = p
    BY <2>1, <2>3 DEF Max
  <2>5. SelectLastInSeq(Current, LAMBDA item : item.id = s.id) = p
    BY <2>3, <2>4 DEF SelectLastInSeq, I
  <2> QED
    BY <2>1, <2>5 DEF Actual
<1> QED
  BY <1>4, <1>5

(* A credential verifies exactly as long as the case is what was approved, *)
(* of whatever size it is and however often the file was changed.          *)
THEOREM CredentialCoversCase == Spec => []ValidIffIntact
<1>1. IInv => ValidIffIntact
  <2> SUFFICES ASSUME IInv PROVE ValidIffIntact
    OBVIOUS
  <2> DEFINE sealed == credential.sealed
             items == CredentialSegments(original.segments)
  <2>1. /\ Slice(segments) /\ Slice(original.segments) /\ DistinctIds(original.segments)
        /\ credential.version = 0 /\ credential.manifest = items
        /\ credential.consents = original.consents
        /\ credential.range = PublicIds(items)
        /\ sealed = items \/ Len(sealed) < Len(items)
    BY CredentialFields DEF IInv, CredentialInv
  <2>2. /\ Len(Current) = Cardinality(segments)
        /\ ToSet(Current) = {Item(s) : s \in segments}
        /\ Len(items) = Cardinality(original.segments) /\ Len(items) \in Nat
        /\ ToSet(items) = {Item(s) : s \in original.segments}
    <3>1. \A rc : Slice(rc) => /\ Len(CredentialSegments(rc)) = Cardinality(rc)
                               /\ Cardinality(rc) \in Nat
                               /\ ToSet(CredentialSegments(rc)) = {Item(s) : s \in rc}
      BY ItemsOfSegments, PlacesAreTaken
    <3> QED
      BY <2>1, <3>1 DEF Current
  <2> HIDE DEF sealed, items
  <2>3. ASSUME Valid
        PROVE  Intact /\ sealed \in {<<>>, credential.manifest}
    <3>1. /\ approved /\ Current = items /\ consents = original.consents
          /\ version = 0
          /\ sealed = <<>> \/ Len(sealed) = Len(Current)
      BY <2>1, <2>3 DEF Valid, ManifestMatches, ConsentsMatch, IsLegacy, sealed
    <3>2. /\ Cardinality(segments) = Cardinality(original.segments)
          /\ {Item(s) : s \in segments} = {Item(s) : s \in original.segments}
      BY <2>2, <3>1
    <3>3. {Seen(s) : s \in segments} = {Seen(s) : s \in original.segments}
      BY <3>2, SeenIsItem
    <3>4. sealed \in {<<>>, items}
      BY <2>1, <2>2, <3>1
    <3>5. Intact
      BY <3>1, <3>2, <3>3, Zenon DEF Intact
    <3> QED
      BY <2>1, <3>4, <3>5
  <2>4. ASSUME Intact, sealed \in {<<>>, credential.manifest}
        PROVE  Valid
    <3>1. /\ approved /\ version = 0 /\ consents = original.consents
          /\ Cardinality(segments) = Cardinality(original.segments)
          /\ {Seen(s) : s \in segments} = {Seen(s) : s \in original.segments}
      BY <2>4 DEF Intact
    <3>2. {Item(s) : s \in segments} = {Item(s) : s \in original.segments}
      BY <3>1, SeenIsItem
    <3>3. DistinctIds(segments)
      BY <2>1, <3>1, <3>2, SameSizeMeansDistinct
    <3>4. Current = items
      BY <2>1, <3>2, <3>3, SameItems DEF Current, items
    <3>5. ManifestMatches /\ ConsentsMatch
      BY <2>1, <3>1, <3>4 DEF ManifestMatches, ConsentsMatch
    <3>6. ASSUME sealed # <<>>, NEW x \in ToSet(sealed)
          PROVE  SealedStatus(x) = "passed"
      <4>1. x \in ToSet(Current)
        BY <2>1, <2>4, <3>4, <3>6
      <4>2. PICK s \in segments : x = Item(s)
        BY <2>2, <4>1
      <4>3. Exists(s.id) /\ Actual(s.id) = x /\ x.id = s.id
        BY <2>1, <3>3, <4>2, ActualIsItem DEF Item
      <4> QED
        BY <3>5, <4>3 DEF SealedStatus
    <3>7. ASSUME sealed # <<>>, NEW c \in ToSet(Current)
          PROVE  c.id \in ToSet(PublicIds(sealed))
      <4>1. sealed = Current
        BY <2>1, <2>4, <3>4, <3>7
      <4>2. PICK i \in DOMAIN sealed : c = sealed[i]
        BY <3>7, <4>1 DEF ToSet
      <4> QED
        BY <4>2 DEF PublicIds, ToSet
    <3>8. AllPassed
      <4>1. CASE sealed = <<>>
        BY <3>5, <4>1 DEF AllPassed, Statuses, IsLegacy, LegacyStatuses, sealed
      <4>2. CASE sealed # <<>>
        BY <3>6, <3>7, <4>2 DEF AllPassed, Statuses, IsLegacy, SealedStatuses, sealed
      <4> QED
        BY <4>1, <4>2
    <3>9. sealed = <<>> \/ Len(sealed) = Len(Current)
      BY <2>1, <2>4, <3>4
    <3> QED
      BY <2>1, <3>1, <3>4, <3>5, <3>8, <3>9 DEF Valid, IsLegacy, sealed
  <2> QED
    BY <2>3, <2>4 DEF ValidIffIntact, sealed
<1> QED
  BY <1>1, Invariance, PTL

-----------------------------------------------------------------------------
(* An id is changed when the segment approved under it is not there as it  *)
(* was, or when none was approved under it.                                *)
LEMMA ChangedIds ==
    ASSUME IInv, DistinctIds(segments)
    PROVE  Changed =
             {t.id : t \in {u \in original.segments :
                               \A s \in segments : Item(s) # Item(u)}}
             \cup {s.id : s \in {u \in segments :
                                   \A t \in original.segments : t.id # u.id}}
<1> DEFINE lost == {u \in original.segments : \A s \in segments : Item(s) # Item(u)}
           new == {u \in segments : \A t \in original.segments : t.id # u.id}
           Now(id) == {Seen(s) : s \in {r \in segments : r.id = id}}
           Then(id) == {Seen(s) : s \in {r \in original.segments : r.id = id}}
<1>1. \A s, t : Seen(s) = Seen(t) <=> Item(s) = Item(t)
  BY SeenIsItem
<1>2. \A s, t : Item(s) = Item(t) => s.id = t.id
  BY DEF Item
<1>3. DistinctIds(original.segments)
  BY DEF IInv
<1>4. ASSUME NEW t \in lost
      PROVE  Now(t.id) # Then(t.id)
  <2>1. Seen(t) \in Then(t.id)
    OBVIOUS
  <2>2. Seen(t) \notin Now(t.id)
    BY <1>1
  <2> QED
    BY <2>1, <2>2
<1>5. ASSUME NEW s \in new
      PROVE  Now(s.id) # Then(s.id)
  <2>1. Seen(s) \in Now(s.id)
    OBVIOUS
  <2>2. Then(s.id) = {}
    OBVIOUS
  <2> QED
    BY <2>1, <2>2
<1>6. ASSUME NEW id, \A t \in lost : t.id # id, \A s \in new : s.id # id
      PROVE  Now(id) = Then(id)
  <2>1. ASSUME NEW t \in original.segments, t.id = id
        PROVE  \E s \in segments : s.id = id /\ Seen(s) = Seen(t)
    <3>1. PICK s \in segments : Item(s) = Item(t)
      BY <1>6, <2>1
    <3> QED
      BY <1>1, <1>2, <2>1, <3>1
  <2>2. ASSUME NEW s \in segments, s.id = id
        PROVE  \E t \in original.segments : t.id = id /\ Seen(s) = Seen(t)
    <3>1. PICK t \in original.segments : t.id = id
      BY <1>6, <2>2
    <3>2. PICK r \in segments : r.id = id /\ Seen(r) = Seen(t)
      BY <2>1, <3>1
    <3>3. r = s
      BY <2>2, <3>2 DEF DistinctIds
    <3> QED
      BY <3>1, <3>2, <3>3
  <2> QED
    BY <2>1, <2>2
<1>7. \A s \in segments \cup original.segments : s.id \in Ids
  BY DEF IInv, Slice, Segment
<1>8. Changed = {id \in Ids : Now(id) # Then(id)}
  BY DEF Changed
<1> HIDE DEF Now, Then
<1>9. Changed \subseteq {t.id : t \in lost} \cup {s.id : s \in new}
  BY <1>6, <1>8
<1>10. {t.id : t \in lost} \cup {s.id : s \in new} \subseteq Changed
  BY <1>4, <1>5, <1>7, <1>8
<1> QED
  BY <1>9, <1>10

(* The status of a sealed segment: passed where the segment is there as it *)
(* was sealed and the consents are those sealed.                           *)
LEMMA SealedStatusOf ==
    ASSUME IInv, DistinctIds(segments), NEW t \in original.segments
    PROVE  SealedStatus(Item(t)) = "passed"
           <=> consents = original.consents /\ \E s \in segments : Item(s) = Item(t)
<1>1. /\ ConsentsMatch <=> consents = original.consents
      /\ Slice(segments)
  BY CredentialFields DEF IInv, ConsentsMatch
<1>2. Item(t).id = t.id
  BY DEF Item
<1>3. CASE \E s \in segments : s.id = t.id
  <2>1. PICK s \in segments : s.id = t.id
    BY <1>3
  <2>2. Exists(t.id) /\ Actual(t.id) = Item(s)
    BY <1>1, <2>1, ActualIsItem
  <2>3. (\E r \in segments : Item(r) = Item(t)) <=> Item(s) = Item(t)
    BY <2>1 DEF Item, DistinctIds
  <2> QED
    BY <1>1, <1>2, <2>2, <2>3 DEF SealedStatus
<1>4. CASE \A s \in segments : s.id # t.id
  <2>1. ~Exists(t.id)
    BY <1>1, <1>4, ActualIsItem
  <2>2. \A s \in segments : Item(s) # Item(t)
    BY <1>4 DEF Item
  <2> QED
    BY <1>2, <2>1, <2>2 DEF SealedStatus
<1> QED
  BY <1>3, <1>4

(* The statuses of a sealed credential name every segment that is not what *)
(* was approved or was not approved, no other one unless the consents      *)
(* changed, and then also every segment they were sealed for.              *)
THEOREM StatusesLocateChanges == Spec => []StatusesNameWhatChanged
<1>1. IInv => StatusesNameWhatChanged
  <2> SUFFICES ASSUME IInv, credential.sealed = credential.manifest, DistinctIds(segments)
               PROVE  {s.id : s \in {x \in Statuses : x.status # "passed"}}
                      = IF consents = original.consents THEN Changed
                        ELSE Changed \cup {s.id : s \in original.segments}
    BY DEF StatusesNameWhatChanged, DistinctIds
  <2> DEFINE named == {s.id : s \in {x \in Statuses : x.status # "passed"}}
             lost == {u \in original.segments : \A s \in segments : Item(s) # Item(u)}
             new == {u \in segments : \A t \in original.segments : t.id # u.id}
             blamed == IF consents = original.consents THEN lost ELSE original.segments
             items == CredentialSegments(original.segments)
  <2>1. /\ Slice(segments) /\ Slice(original.segments)
        /\ credential.sealed = items /\ credential.manifest = items
    BY CredentialFields DEF IInv
  <2>2. /\ Changed = {t.id : t \in lost} \cup {s.id : s \in new}
        /\ lost \subseteq original.segments
    BY ChangedIds
  <2> SUFFICES named = {t.id : t \in blamed} \cup {s.id : s \in new}
    BY <2>2
  <2>3. /\ ToSet(items) = {Item(s) : s \in original.segments}
        /\ Len(items) = Cardinality(original.segments)
        /\ ToSet(Current) = {Item(s) : s \in segments}
        /\ Len(Current) = Cardinality(segments)
    <3>1. \A rc : Slice(rc) =>
             LET its == CredentialSegments(rc)
             IN  /\ ToSet(its) = {Item(s) : s \in rc}
                 /\ Len(its) = Cardinality(rc)
      BY ItemsOfSegments
    <3> QED
      BY <2>1, <3>1 DEF Current
  <2>4. CASE IsLegacy
    <3>1. items = <<>> /\ original.segments = {}
      <4>1. items = <<>>
        BY <2>1, <2>4 DEF IsLegacy
      <4> QED
        BY <2>1, <2>3, <4>1, FS_EmptySet DEF Slice
    <3>2. Statuses = {[id |-> s.id, status |-> IF ManifestMatches THEN "passed"
                                               ELSE "content_mismatch"] :
                         s \in ToSet(Current)}
      BY <2>4 DEF Statuses, LegacyStatuses
    <3>3. ManifestMatches => segments = {}
      BY <2>1, <2>3, <3>1, FS_EmptySet DEF ManifestMatches, Slice
    <3>4. \A s \in segments : Item(s).id = s.id
      BY DEF Item
    <3>5. new = segments /\ blamed = {}
      BY <3>1
    <3>6. CASE segments = {}
      BY <2>3, <3>2, <3>5, <3>6
    <3>7. CASE ~ManifestMatches
      <4>1. named = {s.id : s \in ToSet(Current)}
        <5>1. \A x \in Statuses : x.status # "passed"
          BY <3>2, <3>7
        <5>2. \A x \in Statuses : \E s \in ToSet(Current) : x.id = s.id
          BY <3>2
        <5>3. ASSUME NEW s \in ToSet(Current)
              PROVE  \E x \in Statuses : x.id = s.id
          <6>1. [id |-> s.id, status |-> IF ManifestMatches THEN "passed"
                                         ELSE "content_mismatch"] \in Statuses
            BY <3>2
          <6> QED
            BY <6>1
        <5> QED
          BY <5>1, <5>2, <5>3
      <4> QED
        BY <2>3, <3>4, <3>5, <4>1
    <3> QED
      BY <3>3, <3>6, <3>7
  <2>5. CASE ~IsLegacy
    <3> DEFINE missing == {c \in ToSet(Current) : c.id \notin ToSet(PublicIds(items))}
    <3>1. Statuses = {[id |-> x.id, status |-> SealedStatus(x)] : x \in ToSet(items)}
                     \cup {[id |-> c.id, status |-> "missing"] : c \in missing}
      BY <2>1, <2>5 DEF Statuses, SealedStatuses
    <3>2. \A s : Item(s).id = s.id
      BY DEF Item
    <3>3. ToSet(PublicIds(items)) = {t.id : t \in original.segments}
      <4>1. ToSet(PublicIds(items)) = {x.id : x \in ToSet(items)}
        BY DEF ToSet, PublicIds
      <4> HIDE DEF items
      <4> QED
        BY <2>3, <3>2, <4>1
    <3>4. {c.id : c \in missing} = {s.id : s \in new}
      BY <2>3, <3>2, <3>3
    <3>5. \A t \in original.segments : SealedStatus(Item(t)) # "passed" <=> t \in blamed
      BY SealedStatusOf
    <3>6. blamed \subseteq original.segments
      OBVIOUS
    <3> HIDE DEF items, missing, blamed, new
    <3>7. named = {x.id : x \in {y \in ToSet(items) : SealedStatus(y) # "passed"}}
                  \cup {c.id : c \in missing}
      <4>1. ASSUME NEW id \in named
            PROVE  \/ \E y \in ToSet(items) : SealedStatus(y) # "passed" /\ id = y.id
                   \/ \E c \in missing : id = c.id
        BY <3>1
      <4>2. ASSUME NEW y \in ToSet(items), SealedStatus(y) # "passed"
            PROVE  y.id \in named
        <5>1. [id |-> y.id, status |-> SealedStatus(y)] \in Statuses
          BY <3>1
        <5> QED
          BY <4>2, <5>1
      <4>3. ASSUME NEW c \in missing
            PROVE  c.id \in named
        <5>1. [id |-> c.id, status |-> "missing"] \in Statuses
          BY <3>1
        <5> QED
          BY <5>1
      <4> HIDE DEF named
      <4> QED
        BY <4>1, <4>2, <4>3
    <3>8. {x.id : x \in {y \in ToSet(items) : SealedStatus(y) # "passed"}}
          = {t.id : t \in blamed}
      BY <2>3, <3>2, <3>5, <3>6
    <3> QED
      BY <3>4, <3>7, <3>8
  <2> QED
    BY <2>4, <2>5
<1> QED
  BY <1>1, Invariance, PTL

(* Fully sealed, in the version of the approval, no id stored twice. *)
SealedInPlace ==
    /\ approved /\ version = 0
    /\ original.segments # {}
    /\ credential.sealed = credential.manifest
    /\ DistinctIds(segments)

(* The message of digest.go:143 where it can be trusted: such a sealed     *)
(* credential of a case in the version it was approved in, with no id      *)
(* stored twice, does not fail without a status that says where.  The      *)
(* other reasons to fail (LegacyConsents.cfg shows one) have no status.    *)
THEOREM FailureIsLocated == Spec => [](SealedInPlace => InvalidIsLocated)
<1>1. /\ IInv /\ ValidIffIntact /\ StatusesNameWhatChanged
      => (SealedInPlace => InvalidIsLocated)
  <2> SUFFICES ASSUME IInv, ValidIffIntact, StatusesNameWhatChanged,
                      SealedInPlace, AllPassed
               PROVE  Intact
    BY DEF ValidIffIntact, InvalidIsLocated, SealedInPlace
  <2>1. DistinctIds(segments) /\ DistinctIds(original.segments)
        /\ Slice(segments) /\ Slice(original.segments)
    BY DEF SealedInPlace, IInv
  <2>2. \A x \in Statuses : x.status = "passed"
    BY DEF AllPassed
  <2>3. {} = IF consents = original.consents THEN Changed
             ELSE Changed \cup {s.id : s \in original.segments}
    BY <2>2 DEF StatusesNameWhatChanged, SealedInPlace, DistinctIds
  <2>4. consents = original.consents /\ Changed = {}
    BY <2>3 DEF SealedInPlace
  <2>5. /\ \A u \in original.segments : \E s \in segments : Item(s) = Item(u)
        /\ \A u \in segments : \E t \in original.segments : t.id = u.id
    <3> DEFINE lost == {u \in original.segments : \A s \in segments : Item(s) # Item(u)}
               new == {u \in segments : \A t \in original.segments : t.id # u.id}
    <3>1. {t.id : t \in lost} \cup {s.id : s \in new} = {}
      BY <2>1, <2>4, ChangedIds
    <3>2. lost = {} /\ new = {}
      <4> HIDE DEF lost, new
      <4> QED
        BY <3>1
    <3> QED
      BY <3>2
  <2>6. \A s, t : Item(s) = Item(t) => s.id = t.id
    BY DEF Item
  <2>7. ASSUME NEW s \in segments
        PROVE  \E t \in original.segments : Item(s) = Item(t)
    <3>1. PICK t \in original.segments : t.id = s.id
      BY <2>5
    <3>2. PICK r \in segments : Item(r) = Item(t)
      BY <2>5
    <3>3. r = s
      BY <2>1, <2>6, <3>1, <3>2 DEF DistinctIds
    <3> QED
      BY <3>2, <3>3
  <2>8. {Item(s) : s \in segments} = {Item(s) : s \in original.segments}
    BY <2>5, <2>7
  <2>9. Cardinality(segments) = Cardinality(original.segments)
    <3>1. CredentialSegments(segments) = CredentialSegments(original.segments)
      BY <2>1, <2>8, SameItems
    <3> QED
      BY <2>1, <3>1, ItemsOfSegments
  <2>10. {Seen(s) : s \in segments} = {Seen(s) : s \in original.segments}
    BY <2>8, SeenIsItem
  <2> QED
    BY <2>4, <2>9, <2>10 DEF Intact, SealedInPlace
<1> QED
  BY <1>1, Invariance, CredentialCoversCase, StatusesLocateChanges, PTL
=============================================================================
