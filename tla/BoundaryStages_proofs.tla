------------------------ MODULE BoundaryStages_proofs ------------------------
(***************************************************************************)
(* Proofs about the stages of a settlement boundary: whatever the systems  *)
(* of its phases write, in whatever visibility, the store stays one a load *)
(* accepts, the evidence rebuilds it after every stage, and a boundary     *)
(* leaves all of what it staged or nothing.                                *)
(*                                                                         *)
(* The argument: in the evidence each record and each component has a last *)
(* change, which the index of versions (or the value itself) names, and a  *)
(* stage appends changes that all come after it.  A stage that was         *)
(* prepared commits on the very store it was prepared for, so what it was  *)
(* prepared to leave is what applying it anew would leave.                 *)
(***************************************************************************)
EXTENDS BoundaryStages, RecordStore_proofs, FiniteSetTheorems, SequenceTheorems

-----------------------------------------------------------------------------
(* Sequences of sets, and the greatest of some positions. *)

\* SetToSeq lists every element of a finite set once.
LEMMA SetToSeqIs ==
    ASSUME NEW S, IsFiniteSet(S)
    PROVE  /\ Cardinality(S) \in Nat
           /\ SetToSeq(S) \in [1 .. Cardinality(S) -> S]
           /\ \A i, j \in 1 .. Cardinality(S) : SetToSeq(S)[i] = SetToSeq(S)[j] => i = j
           /\ \A x \in S : \E i \in 1 .. Cardinality(S) : SetToSeq(S)[i] = x
<1>1. Cardinality(S) \in Nat /\ ExistsBijection(1 .. Cardinality(S), S)
  BY FS_CardinalityType
<1> DEFINE n == Cardinality(S)
<1>2. \E f \in [1 .. n -> S] : IsInjective(f)
  BY <1>1 DEF ExistsBijection, Bijection, Injection
<1>3. SetToSeq(S) \in [1 .. n -> S] /\ IsInjective(SetToSeq(S))
  BY <1>2 DEF SetToSeq
<1>4. SetToSeq(S) \in Injection(1 .. n, S)
  BY <1>3 DEF Injection
<1>5. Cardinality(1 .. n) = n /\ IsFiniteSet(1 .. n)
  <2>1. Cardinality(1 .. n) = IF 1 > n THEN 0 ELSE n - 1 + 1
    BY <1>1, FS_Interval
  <2> QED  BY <1>1, <2>1, FS_Interval
<1>6. SetToSeq(S) \in Surjection(1 .. n, S)
  BY <1>4, <1>5, FS_Injection
<1>7. \A x \in S : \E i \in 1 .. n : SetToSeq(S)[i] = x
  BY <1>6 DEF Surjection
<1>8. \A i, j \in 1 .. n : SetToSeq(S)[i] = SetToSeq(S)[j] => i = j
  BY <1>3 DEF IsInjective
<1> QED  BY <1>1, <1>3, <1>7, <1>8

\* A bounded set of positions that is not empty has a greatest one.
LEMMA MaxIs ==
    ASSUME NEW n \in Nat, NEW S \in SUBSET (1 .. n), S # {}
    PROVE  Max(S) \in S /\ \A y \in S : y <= Max(S)
<1> DEFINE T == {n - x : x \in S}
<1>1. T \subseteq Nat /\ T # {}
  <2>1. ASSUME NEW x \in S PROVE n - x \in Nat
    <3>1. x \in 1 .. n
      OBVIOUS
    <3> QED  BY <3>1
  <2> QED  BY <2>1
<1>2. PICK m \in T : \A y \in T : ~ (<<y, m>> \in OpToRel(<, Nat))
  BY <1>1, WFMin, NatLessThanWellFounded
<1>3. \A y \in T : ~ (y < m)
  BY <1>1, <1>2 DEF OpToRel
<1>4. PICK x \in S : m = n - x
  BY <1>2
<1>5. \A y \in S : y <= x
  <2>1. SUFFICES ASSUME NEW y \in S PROVE y <= x
    OBVIOUS
  <2>2. ~ (n - y < n - x)
    BY <1>3, <1>4
  <2>3. x \in Nat /\ y \in Nat
    OBVIOUS
  <2> QED  BY <2>2, <2>3
<1>6. \E z \in S : \A y \in S : z >= y
  <2>1. \A y \in S : x >= y
    BY <1>5
  <2> QED  BY <2>1
<1>7. Max(S) \in S /\ \A y \in S : Max(S) >= y
  BY <1>6 DEF Max
<1> QED  BY <1>7

-----------------------------------------------------------------------------
(* The order of the evidence. *)

\* Places are pairs of a boundary and a number in it.
Place == Nat \X Nat

\* The order of places is total and transitive, and no place precedes itself.
LEMMA BeforeOrders ==
    /\ \A p \in Place : ~Before(p, p)
    /\ \A p, q \in Place : p = q \/ Before(p, q) \/ Before(q, p)
    /\ \A p, q \in Place : ~(Before(p, q) /\ Before(q, p))
    /\ \A p, q, o \in Place : Before(p, q) /\ Before(q, o) => Before(p, o)
BY DEF Before, Place

\* What is earliest, latest and next when places N come after all of P.
ComeAfter(P, N) ==
    /\ \A p \in P : Earliest(P \cup N, p) => Earliest(P, p)
    /\ \A z \in N : Earliest(P \cup N, z) => P = {} /\ Earliest(N, z)
    /\ \A p \in P : Latest(P \cup N, p) => N = {} /\ Latest(P, p)
    /\ \A z \in N : Latest(N, z) => Latest(P \cup N, z)
    /\ \A z \in N : Latest(P \cup N, z) => Latest(N, z)
    /\ \A p, q \in P : Follows(P \cup N, p, q) => Follows(P, p, q)
    /\ \A z, y \in N : Follows(P \cup N, z, y) => Follows(N, z, y)
    /\ \A p \in P, z \in N : Follows(P \cup N, p, z) => Latest(P, p) /\ Earliest(N, z)
    /\ \A z \in N, p \in P : ~Follows(P \cup N, z, p)

\* Places that come after all others are a new end of the order.
LEMMA PlacesGrow ==
    ASSUME NEW P \in SUBSET Place, NEW N \in SUBSET Place,
           \A p \in P : \A z \in N : Before(p, z)
    PROVE  ComeAfter(P, N)
<1>1. \A p \in P : Earliest(P \cup N, p) => Earliest(P, p)
  BY DEF Earliest
<1>2. \A z \in N : Earliest(P \cup N, z) => P = {} /\ Earliest(N, z)
  BY DEF Earliest
<1>3. \A p \in P : Latest(P \cup N, p) => N = {} /\ Latest(P, p)
  BY DEF Latest
<1>4. \A z \in N : Latest(N, z) => Latest(P \cup N, z)
  BY BeforeOrders DEF Latest
<1>5. \A z \in N : Latest(P \cup N, z) => Latest(N, z)
  BY DEF Latest
<1>6. \A p, q \in P : Follows(P \cup N, p, q) => Follows(P, p, q)
  BY DEF Follows
<1>7. \A z, y \in N : Follows(P \cup N, z, y) => Follows(N, z, y)
  BY DEF Follows
<1>8. \A p \in P, z \in N : Follows(P \cup N, p, z) => Latest(P, p) /\ Earliest(N, z)
  BY DEF Follows, Latest, Earliest
<1>9. \A z \in N, p \in P : ~Follows(P \cup N, z, p)
  BY BeforeOrders DEF Follows
<1> QED  BY <1>1, <1>2, <1>3, <1>4, <1>5, <1>6, <1>7, <1>8, <1>9 DEF ComeAfter

-----------------------------------------------------------------------------
(* What a stage adds to the evidence. *)

Change == [ref : Refs, record : Record]
Write == [entity : Refs, previous : Place \cup {NoRef}, value : Place]
Entry == [changes : Seq(Change), components : Seq(Write)]

\* A part of a finite set of references is finite.
LEMMA RefsFinite == \A S \in SUBSET Refs : IsFiniteSet(S)
BY RecordAssumption, FS_Subset

\* The changes of a stage: one for each record of its bundle (change_evidence).
LEMMA RecordChangesIs ==
    ASSUME NEW s, NEW bundle, DOMAIN bundle \subseteq Refs,
           \A r \in DOMAIN bundle : s.records[r] \in Record
    PROVE  LET c == RecordChanges(s, bundle)
           IN  /\ c \in Seq(Change)
               /\ \A i \in DOMAIN c : c[i].ref \in DOMAIN bundle
                                      /\ c[i].record = s.records[c[i].ref]
               /\ \A r \in DOMAIN bundle : \E i \in DOMAIN c : c[i].ref = r
               /\ \A i, j \in DOMAIN c : c[i].ref = c[j].ref => i = j
<1>1. PICK n : n = Cardinality(DOMAIN bundle)
  OBVIOUS
<1>2. PICK t : t = SetToSeq(DOMAIN bundle)
  OBVIOUS
<1>3. /\ n \in Nat /\ t \in [1 .. n -> DOMAIN bundle]
      /\ \A i, j \in 1 .. n : t[i] = t[j] => i = j
      /\ \A x \in DOMAIN bundle : \E i \in 1 .. n : t[i] = x
  BY <1>1, <1>2, SetToSeqIs, RefsFinite
<1>4. PICK c : c = [i \in 1 .. n |-> [ref |-> t[i], record |-> s.records[t[i]]]]
  OBVIOUS
<1>5. c = RecordChanges(s, bundle)
  BY <1>2, <1>3, <1>4 DEF RecordChanges
<1>6. DOMAIN c = 1 .. n
  BY <1>4
<1>7. \A i \in 1 .. n : c[i].ref = t[i] /\ c[i].record = s.records[t[i]]
  BY <1>4
<1>8. \A i \in 1 .. n : c[i] \in Change
  BY <1>3, <1>4 DEF Change
<1>9. c \in Seq(Change)
  <2>1. c \in [1 .. n -> Change]
    BY <1>4, <1>8
  <2> QED  BY <1>3, <2>1
<1> QED  BY <1>3, <1>5, <1>6, <1>7, <1>9

\* The component writes of a stage give the values they replace.
LEMMA ComponentChangesIs ==
    ASSUME NEW entities \in Seq(Refs), NEW first \in Nat, boundaries \in Seq(Entry),
           \A e \in DOMAIN components : components[e] \in Place
    PROVE  LET w == ComponentChanges(entities, first)
               value(i) == <<BoundaryId, first + i>>
               earlier(i) == {j \in 1 .. i - 1 : entities[j] = entities[i]}
           IN  /\ w \in Seq(Write) /\ DOMAIN w = DOMAIN entities
               /\ \A i \in DOMAIN w :
                     /\ w[i].entity = entities[i] /\ w[i].value = value(i)
                     /\ earlier(i) # {} =>
                            \E j \in earlier(i) : /\ w[i].previous = value(j)
                                                  /\ \A k \in earlier(i) : k <= j
                     /\ earlier(i) = {} =>
                            IF entities[i] \in DOMAIN components
                            THEN w[i].previous = components[entities[i]]
                            ELSE w[i].previous = NoRef
<1> DEFINE value(i) == <<BoundaryId, first + i>>
           earlier(i) == {j \in 1 .. i - 1 : entities[j] = entities[i]}
           previous(i) ==
               IF earlier(i) # {} THEN value(Max(earlier(i)))
               ELSE IF entities[i] \in DOMAIN components THEN components[entities[i]]
               ELSE NoRef
<1>1. BoundaryId \in Nat
  BY DEF BoundaryId
<1>2. PICK n \in Nat : DOMAIN entities = 1 .. n /\ \A i \in 1 .. n : entities[i] \in Refs
  BY ElementOfSeq, LenProperties
<1>3. PICK w : w = [i \in DOMAIN entities |->
                       [entity |-> entities[i], previous |-> previous(i),
                        value |-> value(i)]]
  OBVIOUS
<1>4. w = ComponentChanges(entities, first)
  BY <1>3 DEF ComponentChanges
<1>5. ASSUME NEW i \in 1 .. n, earlier(i) # {}
      PROVE  Max(earlier(i)) \in earlier(i) /\ \A k \in earlier(i) : k <= Max(earlier(i))
  <2>1. i - 1 \in Nat /\ earlier(i) \in SUBSET (1 .. i - 1)
    OBVIOUS
  <2> HIDE DEF earlier
  <2> QED  BY <1>5, <2>1, MaxIs
<1>6. \A i \in 1 .. n : value(i) \in Place
  BY <1>1 DEF Place
<1>7. ASSUME NEW i \in 1 .. n PROVE previous(i) \in Place \cup {NoRef}
  <2>1. CASE earlier(i) # {}
    <3>1. Max(earlier(i)) \in 1 .. n
      <4>1. Max(earlier(i)) \in earlier(i)
        BY <1>5, <2>1
      <4> QED  BY <4>1, <1>2
    <3> HIDE DEF earlier, value
    <3> QED  BY <1>6, <2>1, <3>1
  <2>2. CASE earlier(i) = {}
    <3> HIDE DEF earlier, value
    <3> QED  BY <2>2
  <2> QED  BY <2>1, <2>2
<1> HIDE DEF value, previous
<1>8. \A i \in 1 .. n : w[i] \in Write
  BY <1>2, <1>3, <1>6, <1>7 DEF Write
<1>9. w \in Seq(Write) /\ DOMAIN w = 1 .. n
  <2>1. w \in [1 .. n -> Write]
    BY <1>2, <1>3, <1>8
  <2> QED  BY <2>1
<1>10. \A i \in 1 .. n : /\ w[i].entity = entities[i] /\ w[i].value = value(i)
                         /\ w[i].previous = previous(i)
  BY <1>2, <1>3
<1>11. ASSUME NEW i \in 1 .. n, earlier(i) # {}
       PROVE  \E j \in earlier(i) : /\ w[i].previous = value(j)
                                    /\ \A k \in earlier(i) : k <= j
  <2>1. previous(i) = value(Max(earlier(i)))
    BY <1>11 DEF previous
  <2> HIDE DEF earlier
  <2> QED  BY <1>5, <1>10, <1>11, <2>1
<1>12. ASSUME NEW i \in 1 .. n, earlier(i) = {}
       PROVE  IF entities[i] \in DOMAIN components
              THEN w[i].previous = components[entities[i]] ELSE w[i].previous = NoRef
  <2>1. previous(i) = IF entities[i] \in DOMAIN components THEN components[entities[i]]
                      ELSE NoRef
    BY <1>12 DEF previous
  <2> QED  BY <1>10, <2>1
<1>13. \A i \in 1 .. n : w[i].entity = entities[i] /\ w[i].value = <<BoundaryId, first + i>>
  BY <1>10 DEF value
<1>14. \A i \in 1 .. n : earlier(i) # {} =>
           \E j \in earlier(i) : /\ w[i].previous = <<BoundaryId, first + j>>
                                 /\ \A k \in earlier(i) : k <= j
  BY <1>11 DEF value
<1>15. \A i \in 1 .. n : earlier(i) = {} =>
           IF entities[i] \in DOMAIN components
           THEN w[i].previous = components[entities[i]] ELSE w[i].previous = NoRef
  BY <1>12
<1>16. DOMAIN w = DOMAIN entities
  BY <1>2, <1>9
<1> QED  BY <1>2, <1>4, <1>9, <1>13, <1>14, <1>15, <1>16

-----------------------------------------------------------------------------
(* The evidence grows at its end. *)

\* A place of a record in the evidence, spelled out.
LEMMA PlacesAre ==
    ASSUME NEW J \in Seq(Entry), NEW r, NEW p
    PROVE  /\ p \in Places(J, r) <=>
                  \E b \in DOMAIN J : \E i \in DOMAIN J[b].changes :
                      J[b].changes[i].ref = r /\ p = <<b, i>>
           /\ p \in WritePlaces(J, r) <=>
                  \E b \in DOMAIN J : \E i \in DOMAIN J[b].components :
                      J[b].components[i].entity = r /\ p = <<b, i>>
BY DEF Places, WritePlaces

\* An entry of the evidence, spelled out.
LEMMA EntryIs ==
    ASSUME NEW J \in Seq(Entry), NEW b \in DOMAIN J
    PROVE  /\ b \in Nat /\ J[b] \in Entry
           /\ J[b].changes \in Seq(Change) /\ J[b].components \in Seq(Write)
           /\ \A i \in DOMAIN J[b].changes : i \in Nat /\ J[b].changes[i] \in Change
           /\ \A i \in DOMAIN J[b].components : i \in Nat /\ J[b].components[i] \in Write
<1>1. b \in Nat /\ J[b] \in Entry
  BY ElementOfSeq
<1>2. J[b].changes \in Seq(Change) /\ J[b].components \in Seq(Write)
  BY <1>1 DEF Entry
<1>3. \A i \in DOMAIN J[b].changes : i \in Nat /\ J[b].changes[i] \in Change
  BY <1>2, ElementOfSeq
<1>4. \A i \in DOMAIN J[b].components : i \in Nat /\ J[b].components[i] \in Write
  BY <1>2, ElementOfSeq
<1> QED  BY <1>1, <1>2, <1>3, <1>4

\* Places are places.
LEMMA PlacesTyped ==
    ASSUME NEW J \in Seq(Entry), NEW r
    PROVE  Places(J, r) \in SUBSET Place /\ WritePlaces(J, r) \in SUBSET Place
<1>1. ASSUME NEW p \in Places(J, r) PROVE p \in Place
  BY <1>1, PlacesAre, EntryIs DEF Place
<1>2. ASSUME NEW p \in WritePlaces(J, r) PROVE p \in Place
  BY <1>2, PlacesAre, EntryIs DEF Place
<1> QED  BY <1>1, <1>2

\* What is found at the end of a sequence that was extended.
LEMMA Concatenated ==
    ASSUME NEW S, NEW s \in Seq(S), NEW t \in Seq(S)
    PROVE  /\ s \o t \in Seq(S)
           /\ Len(s) \in Nat /\ DOMAIN s = 1 .. Len(s) /\ DOMAIN t = 1 .. Len(t)
           /\ \A i \in DOMAIN s : i \in DOMAIN (s \o t) /\ (s \o t)[i] = s[i]
           /\ \A i \in DOMAIN t : Len(s) + i \in DOMAIN (s \o t)
                                  /\ (s \o t)[Len(s) + i] = t[i]
           /\ \A i \in DOMAIN (s \o t) :
                  i \in DOMAIN s \/ \E j \in DOMAIN t : i = Len(s) + j
<1>1. Len(s) \in Nat /\ Len(t) \in Nat /\ DOMAIN s = 1 .. Len(s) /\ DOMAIN t = 1 .. Len(t)
  BY LenProperties
<1>2. s \o t \in Seq(S) /\ Len(s \o t) = Len(s) + Len(t)
  BY ConcatProperties
<1>3. DOMAIN (s \o t) = 1 .. Len(s) + Len(t)
  BY <1>2, LenProperties
<1>4. \A i \in 1 .. Len(s) + Len(t) :
          (s \o t)[i] = IF i <= Len(s) THEN s[i] ELSE t[i - Len(s)]
  BY ConcatProperties
<1>5. \A i \in DOMAIN s : i \in DOMAIN (s \o t) /\ (s \o t)[i] = s[i]
  BY <1>1, <1>3, <1>4
<1>6. ASSUME NEW i \in DOMAIN t
      PROVE  Len(s) + i \in DOMAIN (s \o t) /\ (s \o t)[Len(s) + i] = t[i]
  <2>1. Len(s) + i \in 1 .. Len(s) + Len(t) /\ ~(Len(s) + i <= Len(s))
    BY <1>1
  <2>2. (Len(s) + i) - Len(s) = i
    BY <1>1
  <2> QED  BY <1>3, <1>4, <2>1, <2>2
<1>7. ASSUME NEW i \in DOMAIN (s \o t), i \notin DOMAIN s
      PROVE  \E j \in DOMAIN t : i = Len(s) + j
  <2>1. i - Len(s) \in DOMAIN t /\ i = Len(s) + (i - Len(s))
    BY <1>1, <1>3, <1>7
  <2> QED  BY <2>1
<1> QED  BY <1>1, <1>2, <1>5, <1>6, <1>7

\* The evidence after the running boundary, whose entry was E, changed more records: what
\* this says of the places of record r.
ChangesGrown(J, E, F, c, r) ==
    LET old == Append(J, E)
        new == Append(J, F)
        at(i) == <<Len(J) + 1, Len(E.changes) + i>>
        added == {at(i) : i \in {k \in DOMAIN c : c[k].ref = r}}
    IN  /\ old \in Seq(Entry) /\ new \in Seq(Entry)
        /\ Places(new, r) = Places(old, r) \cup added
        /\ Places(old, r) \in SUBSET Place /\ added \in SUBSET Place
        /\ \A p \in Places(old, r) : RecordAt(new, p) = RecordAt(old, p)
        /\ \A i \in DOMAIN c : RecordAt(new, at(i)) = c[i].record
        /\ \A p \in Places(old, r) : \A z \in added : Before(p, z)

\* The places of a record after the running boundary changed more.
LEMMA ChangesGrow ==
    ASSUME NEW J \in Seq(Entry), NEW E \in Entry, NEW F \in Entry,
           NEW c \in Seq(Change), F.changes = E.changes \o c, NEW r
    PROVE  ChangesGrown(J, E, F, c, r)
<1> DEFINE at(i) == <<Len(J) + 1, Len(E.changes) + i>>
           added == {at(i) : i \in {k \in DOMAIN c : c[k].ref = r}}
<1>1. PICK old : old = Append(J, E)
  OBVIOUS
<1>2. PICK new : new = Append(J, F)
  OBVIOUS
<1>3. PICK b \in Nat : b = Len(J) + 1
  BY LenProperties
<1>4. /\ old \in Seq(Entry) /\ new \in Seq(Entry)
      /\ DOMAIN old = 1 .. b /\ DOMAIN new = 1 .. b
      /\ old[b] = E /\ new[b] = F
      /\ \A i \in 1 .. b - 1 : old[i] = J[i] /\ new[i] = J[i]
  BY <1>1, <1>2, <1>3, AppendProperties, LenProperties
<1>5. PICK d : d = E.changes
  OBVIOUS
<1>6. d \in Seq(Change) /\ F.changes = d \o c
  BY <1>5 DEF Entry
<1>7. /\ Len(d) \in Nat /\ DOMAIN d = 1 .. Len(d) /\ DOMAIN c = 1 .. Len(c)
      /\ \A i \in DOMAIN d : i \in DOMAIN (d \o c) /\ (d \o c)[i] = d[i]
      /\ \A i \in DOMAIN c : Len(d) + i \in DOMAIN (d \o c) /\ (d \o c)[Len(d) + i] = c[i]
      /\ \A i \in DOMAIN (d \o c) : i \in DOMAIN d \/ \E j \in DOMAIN c : i = Len(d) + j
  BY <1>6, Concatenated
<1>8. \A i \in DOMAIN c : at(i) = <<b, Len(d) + i>>
  BY <1>3, <1>5
<1> HIDE DEF at
<1>9. ASSUME NEW p \in Places(old, r)
      PROVE  p \in Places(new, r) /\ RecordAt(new, p) = RecordAt(old, p)
             /\ \A i \in DOMAIN c : Before(p, at(i))
  <2>1. PICK a, i : a \in DOMAIN old /\ i \in DOMAIN old[a].changes
                    /\ old[a].changes[i].ref = r /\ p = <<a, i>>
    BY <1>4, <1>9, PlacesAre
  <2>2. p[1] = a /\ p[2] = i
    BY <2>1
  <2>3. CASE a = b
    <3>1. i \in DOMAIN d /\ d[i].ref = r /\ RecordAt(old, p) = d[i].record
      BY <1>4, <1>5, <2>1, <2>2, <2>3 DEF RecordAt
    <3>2. i \in DOMAIN new[a].changes /\ new[a].changes[i] = d[i]
      BY <1>4, <1>6, <1>7, <2>3, <3>1
    <3>3. p \in Places(new, r)
      BY <1>4, <2>1, <2>3, <3>1, <3>2, PlacesAre
    <3>4. ASSUME NEW j \in DOMAIN c PROVE Before(p, at(j))
      <4>1. i < Len(d) + j
        BY <1>7, <3>1
      <4> QED  BY <1>8, <2>2, <2>3, <4>1 DEF Before
    <3> QED  BY <2>2, <3>1, <3>2, <3>3, <3>4 DEF RecordAt
  <2>4. CASE a # b
    <3>1. a \in 1 .. b - 1
      BY <1>3, <1>4, <2>1, <2>4
    <3>2. old[a] = new[a]
      BY <1>4, <3>1
    <3>3. p \in Places(new, r)
      BY <1>4, <2>1, <3>2, PlacesAre
    <3>4. ASSUME NEW j \in DOMAIN c PROVE Before(p, at(j))
      <4>1. a < b
        BY <1>3, <3>1
      <4> QED  BY <1>8, <2>2, <4>1 DEF Before
    <3> QED  BY <2>2, <3>2, <3>3, <3>4 DEF RecordAt
  <2> QED  BY <2>3, <2>4
<1>10. ASSUME NEW p \in Places(new, r), p \notin Places(old, r)
       PROVE  p \in added
  <2>1. PICK a, i : a \in DOMAIN new /\ i \in DOMAIN new[a].changes
                    /\ new[a].changes[i].ref = r /\ p = <<a, i>>
    BY <1>4, <1>10, PlacesAre
  <2>2. a = b
    <3>1. SUFFICES ASSUME a # b PROVE FALSE
      OBVIOUS
    <3>2. a \in 1 .. b - 1
      BY <1>3, <1>4, <2>1, <3>1
    <3>3. old[a] = new[a]
      BY <1>4, <3>2
    <3> QED  BY <1>4, <1>10, <2>1, <3>3, PlacesAre
  <2>3. i \in DOMAIN (d \o c) /\ (d \o c)[i].ref = r
    BY <1>4, <1>6, <2>1, <2>2
  <2>4. i \notin DOMAIN d
    <3>1. SUFFICES ASSUME i \in DOMAIN d PROVE FALSE
      OBVIOUS
    <3>2. i \in DOMAIN old[b].changes /\ old[b].changes[i].ref = r
      BY <1>4, <1>5, <1>7, <2>3, <3>1
    <3> QED  BY <1>4, <1>10, <2>1, <2>2, <3>2, PlacesAre
  <2>5. PICK j \in DOMAIN c : i = Len(d) + j
    BY <1>7, <2>3, <2>4
  <2>6. c[j].ref = r
    BY <1>7, <2>3, <2>5
  <2> QED  BY <1>8, <2>1, <2>2, <2>5, <2>6
<1>11. ASSUME NEW i \in DOMAIN c
       PROVE  /\ c[i].ref = r => at(i) \in Places(new, r)
              /\ at(i) \in Place /\ RecordAt(new, at(i)) = c[i].record
  <2>1. Len(d) + i \in DOMAIN new[b].changes /\ new[b].changes[Len(d) + i] = c[i]
    BY <1>4, <1>6, <1>7
  <2>2. ASSUME c[i].ref = r PROVE at(i) \in Places(new, r)
    <3>1. b \in DOMAIN new /\ at(i) = <<b, Len(d) + i>>
      BY <1>3, <1>4, <1>8
    <3>2. new[b].changes[Len(d) + i].ref = r
      BY <2>1, <2>2
    <3> QED  BY <1>4, <2>1, <3>1, <3>2, PlacesAre
  <2>3. at(i) \in Place
    BY <1>3, <1>7, <1>8 DEF Place
  <2>4. at(i)[1] = b /\ at(i)[2] = Len(d) + i
    BY <1>8
  <2> QED  BY <2>1, <2>2, <2>3, <2>4 DEF RecordAt
<1>12. Places(new, r) = Places(old, r) \cup added
  BY <1>9, <1>10, <1>11
<1>13. Places(old, r) \in SUBSET Place
  BY <1>4, PlacesTyped
<1>14. added \in SUBSET Place
  BY <1>11
<1>15. \A p \in Places(old, r) : \A z \in added : Before(p, z)
  BY <1>9
<1>16. \A p \in Places(old, r) : RecordAt(new, p) = RecordAt(old, p)
  BY <1>9
<1>17. \A i \in DOMAIN c : RecordAt(new, at(i)) = c[i].record
  BY <1>11
<1> QED  BY <1>1, <1>2, <1>4, <1>12, <1>13, <1>14, <1>15, <1>16, <1>17 DEF at, ChangesGrown

\* The evidence after the running boundary, whose entry was E, wrote more components: what
\* this says of the places of component r.
WritesGrown(J, E, F, c, r) ==
    LET old == Append(J, E)
        new == Append(J, F)
        at(i) == <<Len(J) + 1, Len(E.components) + i>>
        added == {at(i) : i \in {k \in DOMAIN c : c[k].entity = r}}
    IN  /\ old \in Seq(Entry) /\ new \in Seq(Entry)
        /\ WritePlaces(new, r) = WritePlaces(old, r) \cup added
        /\ WritePlaces(old, r) \in SUBSET Place /\ added \in SUBSET Place
        /\ \A p \in WritePlaces(old, r) : WriteAt(new, p) = WriteAt(old, p)
        /\ \A i \in DOMAIN c : WriteAt(new, at(i)) = c[i]
        /\ \A p \in WritePlaces(old, r) : \A z \in added : Before(p, z)

\* The places of a component after the running boundary wrote more.
LEMMA WritesGrow ==
    ASSUME NEW J \in Seq(Entry), NEW E \in Entry, NEW F \in Entry,
           NEW c \in Seq(Write), F.components = E.components \o c, NEW r
    PROVE  WritesGrown(J, E, F, c, r)
<1> DEFINE at(i) == <<Len(J) + 1, Len(E.components) + i>>
           added == {at(i) : i \in {k \in DOMAIN c : c[k].entity = r}}
<1>1. PICK old : old = Append(J, E)
  OBVIOUS
<1>2. PICK new : new = Append(J, F)
  OBVIOUS
<1>3. PICK b \in Nat : b = Len(J) + 1
  BY LenProperties
<1>4. /\ old \in Seq(Entry) /\ new \in Seq(Entry)
      /\ DOMAIN old = 1 .. b /\ DOMAIN new = 1 .. b
      /\ old[b] = E /\ new[b] = F
      /\ \A i \in 1 .. b - 1 : old[i] = J[i] /\ new[i] = J[i]
  BY <1>1, <1>2, <1>3, AppendProperties, LenProperties
<1>5. PICK d : d = E.components
  OBVIOUS
<1>6. d \in Seq(Write) /\ F.components = d \o c
  BY <1>5 DEF Entry
<1>7. /\ Len(d) \in Nat /\ DOMAIN d = 1 .. Len(d) /\ DOMAIN c = 1 .. Len(c)
      /\ \A i \in DOMAIN d : i \in DOMAIN (d \o c) /\ (d \o c)[i] = d[i]
      /\ \A i \in DOMAIN c : Len(d) + i \in DOMAIN (d \o c) /\ (d \o c)[Len(d) + i] = c[i]
      /\ \A i \in DOMAIN (d \o c) : i \in DOMAIN d \/ \E j \in DOMAIN c : i = Len(d) + j
  BY <1>6, Concatenated
<1>8. \A i \in DOMAIN c : at(i) = <<b, Len(d) + i>>
  BY <1>3, <1>5
<1> HIDE DEF at
<1>9. ASSUME NEW p \in WritePlaces(old, r)
      PROVE  p \in WritePlaces(new, r) /\ WriteAt(new, p) = WriteAt(old, p)
             /\ \A i \in DOMAIN c : Before(p, at(i))
  <2>1. PICK a, i : a \in DOMAIN old /\ i \in DOMAIN old[a].components
                    /\ old[a].components[i].entity = r /\ p = <<a, i>>
    BY <1>4, <1>9, PlacesAre
  <2>2. p[1] = a /\ p[2] = i
    BY <2>1
  <2>3. CASE a = b
    <3>1. i \in DOMAIN d /\ d[i].entity = r /\ WriteAt(old, p) = d[i]
      BY <1>4, <1>5, <2>1, <2>2, <2>3 DEF WriteAt
    <3>2. i \in DOMAIN new[a].components /\ new[a].components[i] = d[i]
      BY <1>4, <1>6, <1>7, <2>3, <3>1
    <3>3. p \in WritePlaces(new, r)
      BY <1>4, <2>1, <2>3, <3>1, <3>2, PlacesAre
    <3>4. ASSUME NEW j \in DOMAIN c PROVE Before(p, at(j))
      <4>1. i < Len(d) + j
        BY <1>7, <3>1
      <4> QED  BY <1>8, <2>2, <2>3, <4>1 DEF Before
    <3> QED  BY <2>2, <3>1, <3>2, <3>3, <3>4 DEF WriteAt
  <2>4. CASE a # b
    <3>1. a \in 1 .. b - 1
      BY <1>3, <1>4, <2>1, <2>4
    <3>2. old[a] = new[a]
      BY <1>4, <3>1
    <3>3. p \in WritePlaces(new, r)
      BY <1>4, <2>1, <3>2, PlacesAre
    <3>4. ASSUME NEW j \in DOMAIN c PROVE Before(p, at(j))
      <4>1. a < b
        BY <1>3, <3>1
      <4> QED  BY <1>8, <2>2, <4>1 DEF Before
    <3> QED  BY <2>2, <3>2, <3>3, <3>4 DEF WriteAt
  <2> QED  BY <2>3, <2>4
<1>10. ASSUME NEW p \in WritePlaces(new, r), p \notin WritePlaces(old, r)
       PROVE  p \in added
  <2>1. PICK a, i : a \in DOMAIN new /\ i \in DOMAIN new[a].components
                    /\ new[a].components[i].entity = r /\ p = <<a, i>>
    BY <1>4, <1>10, PlacesAre
  <2>2. a = b
    <3>1. SUFFICES ASSUME a # b PROVE FALSE
      OBVIOUS
    <3>2. a \in 1 .. b - 1
      BY <1>3, <1>4, <2>1, <3>1
    <3>3. old[a] = new[a]
      BY <1>4, <3>2
    <3> QED  BY <1>4, <1>10, <2>1, <3>3, PlacesAre
  <2>3. i \in DOMAIN (d \o c) /\ (d \o c)[i].entity = r
    BY <1>4, <1>6, <2>1, <2>2
  <2>4. i \notin DOMAIN d
    <3>1. SUFFICES ASSUME i \in DOMAIN d PROVE FALSE
      OBVIOUS
    <3>2. i \in DOMAIN old[b].components /\ old[b].components[i].entity = r
      BY <1>4, <1>5, <1>7, <2>3, <3>1
    <3> QED  BY <1>4, <1>10, <2>1, <2>2, <3>2, PlacesAre
  <2>5. PICK j \in DOMAIN c : i = Len(d) + j
    BY <1>7, <2>3, <2>4
  <2>6. c[j].entity = r
    BY <1>7, <2>3, <2>5
  <2> QED  BY <1>8, <2>1, <2>2, <2>5, <2>6
<1>11. ASSUME NEW i \in DOMAIN c
       PROVE  /\ c[i].entity = r => at(i) \in WritePlaces(new, r)
              /\ at(i) \in Place /\ WriteAt(new, at(i)) = c[i]
  <2>1. Len(d) + i \in DOMAIN new[b].components /\ new[b].components[Len(d) + i] = c[i]
    BY <1>4, <1>6, <1>7
  <2>2. ASSUME c[i].entity = r PROVE at(i) \in WritePlaces(new, r)
    <3>1. b \in DOMAIN new /\ at(i) = <<b, Len(d) + i>>
      BY <1>3, <1>4, <1>8
    <3>2. new[b].components[Len(d) + i].entity = r
      BY <2>1, <2>2
    <3> QED  BY <1>4, <2>1, <3>1, <3>2, PlacesAre
  <2>3. at(i) \in Place
    BY <1>3, <1>7, <1>8 DEF Place
  <2>4. at(i)[1] = b /\ at(i)[2] = Len(d) + i
    BY <1>8
  <2> QED  BY <2>1, <2>2, <2>3, <2>4 DEF WriteAt
<1>12. WritePlaces(new, r) = WritePlaces(old, r) \cup added
  BY <1>9, <1>10, <1>11
<1>13. WritePlaces(old, r) \in SUBSET Place
  BY <1>4, PlacesTyped
<1>14. added \in SUBSET Place
  BY <1>11
<1>15. \A p \in WritePlaces(old, r) : \A z \in added : Before(p, z)
  BY <1>9
<1>16. \A p \in WritePlaces(old, r) : WriteAt(new, p) = WriteAt(old, p)
  BY <1>9
<1>17. \A i \in DOMAIN c : WriteAt(new, at(i)) = c[i]
  BY <1>11
<1> QED  BY <1>1, <1>2, <1>4, <1>12, <1>13, <1>14, <1>15, <1>16, <1>17 DEF at, WritesGrown

-----------------------------------------------------------------------------
(* What the evidence and the state say of each other. *)

\* The index of current versions names each record's last change.
IndexNames(s, index, J) ==
    /\ DOMAIN index = Known(s)
    /\ \A r \in Known(s) :
          /\ <<index[r].boundary, index[r].change>> \in Places(J, r)
          /\ Latest(Places(J, r), <<index[r].boundary, index[r].change>>)
          /\ index[r].version = s.records[r].version

\* A component's value names the write that made it, the last one.
ValuesName(values, J) ==
    /\ DOMAIN values \subseteq Refs
    /\ \A e \in Refs : \A p \in WritePlaces(J, e) : WriteAt(J, p).value = p
    /\ \A e \in DOMAIN values : /\ values[e] \in WritePlaces(J, e)
                                /\ Latest(WritePlaces(J, e), values[e])

\* What a stage's changes and its index say of the store s it found, the store t it
\* left and the records D it wrote.
StageSays(s, t, D, c, index, next, J, E) ==
    /\ Known(t) = Known(s) \cup D
    /\ \A r \in Known(s) \ D : t.records[r] = s.records[r]
    /\ \A r \in D : t.records[r].version =
                        IF r \in Known(s) THEN s.records[r].version + 1 ELSE 1
    /\ \A i \in DOMAIN c : c[i].ref \in D /\ c[i].record = t.records[c[i].ref]
    /\ \A r \in D : \E i \in DOMAIN c : c[i].ref = r
    /\ \A i, j \in DOMAIN c : c[i].ref = c[j].ref => i = j
    /\ DOMAIN next = DOMAIN index \cup D
    /\ \A r \in DOMAIN index \ D : next[r] = index[r]
    /\ \A r \in D : \E i \in DOMAIN c :
          /\ c[i].ref = r /\ next[r].version = c[i].record.version
          /\ next[r].boundary = Len(J) + 1 /\ next[r].change = Len(E.changes) + i

\* What a stage appends to the evidence rebuilds the records it wrote, and the index
\* names it (index_current_domain_record_version).
LEMMA RecordsStayReplayed ==
    ASSUME NEW J \in Seq(Entry), NEW E \in Entry, NEW F \in Entry,
           NEW c \in Seq(Change), F.changes = E.changes \o c,
           NEW s, NEW t, NEW D \in SUBSET Refs, NEW index, NEW next,
           Known(s) \subseteq Refs, StageSays(s, t, D, c, index, next, J, E),
           RecordsReplay(s, Append(J, E)), IndexNames(s, index, Append(J, E))
    PROVE  RecordsReplay(t, Append(J, F)) /\ IndexNames(t, next, Append(J, F))
<1> DEFINE at(i) == <<Len(J) + 1, Len(E.changes) + i>>
<1>1. PICK old : old = Append(J, E)
  OBVIOUS
<1>2. PICK new : new = Append(J, F)
  OBVIOUS
<1>3. ASSUME NEW r \in Refs
      PROVE  LET places == Places(new, r)
                 version(p) == RecordAt(new, p).version
                 last == <<next[r].boundary, next[r].change>>
             IN  /\ r \in Known(t) <=> places # {}
                 /\ \A p \in places :
                       /\ Earliest(places, p) => version(p) = 1
                       /\ Latest(places, p) => t.records[r] = RecordAt(new, p)
                       /\ \A q \in places :
                             Follows(places, p, q) => version(q) = version(p) + 1
                 /\ r \in Known(t) => /\ last \in places /\ Latest(places, last)
                                      /\ next[r].version = t.records[r].version
  <2> DEFINE N == {at(i) : i \in {k \in DOMAIN c : c[k].ref = r}}
             P == Places(old, r)
             last == <<next[r].boundary, next[r].change>>
  <2>1. /\ Places(new, r) = P \cup N /\ P \in SUBSET Place /\ N \in SUBSET Place
        /\ \A p \in P : RecordAt(new, p) = RecordAt(old, p)
        /\ \A i \in DOMAIN c : RecordAt(new, at(i)) = c[i].record
        /\ \A p \in P : \A z \in N : Before(p, z)
    <3>1. LET before == Append(J, E)
              after == Append(J, F)
          IN  /\ before \in Seq(Entry) /\ after \in Seq(Entry)
              /\ Places(after, r) = Places(before, r) \cup N
              /\ Places(before, r) \in SUBSET Place /\ N \in SUBSET Place
              /\ \A p \in Places(before, r) : RecordAt(after, p) = RecordAt(before, p)
              /\ \A i \in DOMAIN c : RecordAt(after, at(i)) = c[i].record
              /\ \A p \in Places(before, r) : \A z \in N : Before(p, z)
      <4>1. ChangesGrown(J, E, F, c, r)
        BY ChangesGrow
      <4> QED  BY <4>1 DEF ChangesGrown
    <3> HIDE DEF N, at
    <3> QED  BY <1>1, <1>2, <3>1
  <2>2. /\ r \in Known(s) <=> P # {}
        /\ \A p \in P :
              /\ Earliest(P, p) => RecordAt(old, p).version = 1
              /\ Latest(P, p) => s.records[r] = RecordAt(old, p)
              /\ \A q \in P : Follows(P, p, q) =>
                    RecordAt(old, q).version = RecordAt(old, p).version + 1
    BY <1>1 DEF RecordsReplay
  <2>3. r \in Known(s) =>
           /\ <<index[r].boundary, index[r].change>> \in P
           /\ Latest(P, <<index[r].boundary, index[r].change>>)
           /\ index[r].version = s.records[r].version
    BY <1>1 DEF IndexNames
  <2>4. DOMAIN index = Known(s)
    BY DEF IndexNames
  <2>5. CASE r \notin D
    <3>1. N = {}
      BY <2>5 DEF StageSays
    <3>2. Places(new, r) = P
      BY <2>1, <3>1
    <3>3. r \in Known(t) <=> r \in Known(s)
      BY <2>5 DEF StageSays
    <3>4. r \in Known(s) => t.records[r] = s.records[r] /\ next[r] = index[r]
      BY <2>4, <2>5 DEF StageSays
    <3>5. r \in Known(t) => last \in P /\ Latest(P, last)
                             /\ next[r].version = t.records[r].version
      BY <2>3, <3>3, <3>4
    <3> HIDE DEF P, N, at, last
    <3>6. \A p \in P :
              /\ Earliest(P, p) => RecordAt(new, p).version = 1
              /\ Latest(P, p) => t.records[r] = RecordAt(new, p)
              /\ \A q \in P : Follows(P, p, q) =>
                    RecordAt(new, q).version = RecordAt(new, p).version + 1
      BY <2>1, <2>2, <3>3, <3>4
    <3>7. r \in Known(t) <=> P # {}
      BY <2>2, <3>3
    <3> QED  BY <3>2, <3>5, <3>6, <3>7 DEF last
  <2>6. CASE r \in D
    <3>1. PICK i \in DOMAIN c :
              /\ c[i].ref = r /\ next[r].version = c[i].record.version
              /\ next[r].boundary = Len(J) + 1 /\ next[r].change = Len(E.changes) + i
      BY <2>6 DEF StageSays
    <3>2. PICK z : z = at(i)
      OBVIOUS
    <3>3. \A k \in DOMAIN c : c[k].ref = r => k = i
      BY <3>1 DEF StageSays
    <3>4. N = {z}
      BY <3>1, <3>2, <3>3
    <3>5. RecordAt(new, z) = t.records[r] /\ last = z
      <4>1. c[i].record = t.records[r]
        BY <3>1 DEF StageSays
      <4> QED  BY <2>1, <3>1, <3>2, <4>1
    <3>6. t.records[r].version = IF r \in Known(s) THEN s.records[r].version + 1 ELSE 1
      BY <2>6 DEF StageSays
    <3>7. r \in Known(t)
      BY <2>6 DEF StageSays
    <3>8. next[r].version = t.records[r].version
      BY <3>1 DEF StageSays
    <3> HIDE DEF P, N, at
    <3>9. /\ \A p \in P : Earliest(P \cup N, p) => Earliest(P, p)
          /\ Earliest(P \cup N, z) => P = {}
          /\ \A p \in P : ~Latest(P \cup N, p)
          /\ \A p, q \in P : Follows(P \cup N, p, q) => Follows(P, p, q)
          /\ \A p \in P : Follows(P \cup N, p, z) => Latest(P, p)
          /\ \A p \in P : ~Follows(P \cup N, z, p)
      <4>1. z \in N /\ N # {}
        BY <3>4
      <4>2. ComeAfter(P, N)
        BY <2>1, PlacesGrow
      <4> QED  BY <4>1, <4>2 DEF ComeAfter
    <3>10. Latest(N, z) /\ ~Follows(P \cup N, z, z)
      <4>1. z \in Place /\ ~Before(z, z)
        BY <2>1, <3>4, BeforeOrders
      <4> QED  BY <3>4, <4>1 DEF Latest, Follows
    <3>11. Latest(P \cup N, z)
      <4>1. ComeAfter(P, N)
        BY <2>1, PlacesGrow
      <4> QED  BY <3>4, <3>10, <4>1 DEF ComeAfter
    <3>12. Earliest(P \cup N, z) => RecordAt(new, z).version = 1
      BY <2>2, <3>5, <3>6, <3>9
    <3>13. \A p \in P : Follows(P \cup N, p, z) =>
               RecordAt(new, z).version = RecordAt(new, p).version + 1
      <4>1. SUFFICES ASSUME NEW p \in P, Follows(P \cup N, p, z)
                     PROVE  RecordAt(new, z).version = RecordAt(new, p).version + 1
        OBVIOUS
      <4>2. r \in Known(s) /\ s.records[r] = RecordAt(new, p)
        BY <2>1, <2>2, <3>9, <4>1
      <4> QED  BY <3>5, <3>6, <4>2
    <3>14. \A p, q \in P : Follows(P \cup N, p, q) =>
               RecordAt(new, q).version = RecordAt(new, p).version + 1
      BY <2>1, <2>2, <3>9
    <3>15. \A p \in P : Earliest(P \cup N, p) => RecordAt(new, p).version = 1
      BY <2>1, <2>2, <3>9
    <3>16. Places(new, r) = P \cup {z} /\ P \cup N = P \cup {z}
      BY <2>1, <3>4
    <3> QED  BY <3>5, <3>7, <3>8, <3>9, <3>10, <3>11, <3>12, <3>13, <3>14, <3>15, <3>16
  <2> QED  BY <2>5, <2>6
<1>4. RecordsReplay(t, new)
  BY <1>3 DEF RecordsReplay
<1>5. Known(t) \subseteq Refs /\ DOMAIN next = Known(t)
  BY DEF StageSays, IndexNames
<1>6. IndexNames(t, next, new)
  BY <1>3, <1>5 DEF IndexNames
<1> QED  BY <1>2, <1>4, <1>6

\* Component writes before the i-th that are of the same component.
EarlierWrites(w, i) == {j \in 1 .. i - 1 : w[j].entity = w[i].entity}
WritesOf(w, e) == {k \in DOMAIN w : w[k].entity = e}

\* What a stage's component writes w say of the values it found and those it left.
WritesSay(values, next, w, J, E) ==
    LET at(i) == <<Len(J) + 1, Len(E.components) + i>> IN
    /\ \A i \in DOMAIN w :
          /\ w[i].value = at(i)
          /\ EarlierWrites(w, i) # {} =>
                 \E j \in EarlierWrites(w, i) : /\ w[i].previous = at(j)
                                                /\ \A k \in EarlierWrites(w, i) : k <= j
          /\ EarlierWrites(w, i) = {} =>
                 IF w[i].entity \in DOMAIN values
                 THEN w[i].previous = values[w[i].entity] ELSE w[i].previous = NoRef
    /\ DOMAIN next = DOMAIN values \cup {w[i].entity : i \in DOMAIN w}
    /\ \A e \in DOMAIN next :
          /\ WritesOf(w, e) = {} => next[e] = values[e]
          /\ WritesOf(w, e) # {} =>
                 \E i \in WritesOf(w, e) : /\ next[e] = w[i].value
                                           /\ \A k \in WritesOf(w, e) : k <= i

\* What a stage appends to the evidence rebuilds the components it wrote.
LEMMA ComponentsStayReplayed ==
    ASSUME NEW J \in Seq(Entry), NEW E \in Entry, NEW F \in Entry,
           NEW w \in Seq(Write), F.components = E.components \o w,
           NEW values, NEW next, WritesSay(values, next, w, J, E),
           ComponentsReplay(values, Append(J, E)), ValuesName(values, Append(J, E))
    PROVE  ComponentsReplay(next, Append(J, F)) /\ ValuesName(next, Append(J, F))
<1> DEFINE at(i) == <<Len(J) + 1, Len(E.components) + i>>
<1>1. PICK old : old = Append(J, E)
  OBVIOUS
<1>2. PICK new : new = Append(J, F)
  OBVIOUS
<1>3. /\ \A i \in DOMAIN w : i \in Nat /\ w[i].entity \in Refs
      /\ \A i \in DOMAIN w : \A j \in 1 .. i - 1 : j \in DOMAIN w
  <2>1. Len(w) \in Nat /\ DOMAIN w = 1 .. Len(w)
    BY LenProperties
  <2>2. \A i \in DOMAIN w : w[i] \in Write
    BY <2>1, ElementOfSeq
  <2>3. \A i \in DOMAIN w : w[i].entity \in Refs
    BY <2>2 DEF Write
  <2> QED  BY <2>1, <2>3
<1>4. \A i, j \in DOMAIN w : /\ i < j => Before(at(i), at(j))
                             /\ Before(at(i), at(j)) => i < j
                             /\ at(i) = at(j) => i = j
  <2>1. Len(J) + 1 \in Nat /\ Len(E.components) \in Nat
    BY LenProperties DEF Entry
  <2> QED  BY <1>3, <2>1 DEF Before
<1>5. \A i \in DOMAIN w : w[i].value = at(i)
  BY DEF WritesSay
<1>6. \A i \in DOMAIN w : EarlierWrites(w, i) # {} =>
          \E j \in EarlierWrites(w, i) : /\ w[i].previous = at(j)
                                         /\ \A k \in EarlierWrites(w, i) : k <= j
  BY DEF WritesSay
<1>7. \A i \in DOMAIN w : EarlierWrites(w, i) = {} =>
          IF w[i].entity \in DOMAIN values
          THEN w[i].previous = values[w[i].entity] ELSE w[i].previous = NoRef
  BY DEF WritesSay
<1>8. DOMAIN next = DOMAIN values \cup {w[i].entity : i \in DOMAIN w}
  BY DEF WritesSay
<1>9. ASSUME NEW e \in Refs
      PROVE  LET places == WritePlaces(new, e)
                 write(p) == WriteAt(new, p)
             IN  /\ e \in DOMAIN next <=> places # {}
                 /\ \A p \in places :
                       /\ Earliest(places, p) => write(p).previous = NoRef
                       /\ Latest(places, p) => next[e] = write(p).value
                       /\ \A q \in places :
                             Follows(places, p, q) => write(q).previous = write(p).value
                 /\ \A p \in places : write(p).value = p
                 /\ e \in DOMAIN next => next[e] \in places /\ Latest(places, next[e])
  <2> DEFINE W == WritesOf(w, e)
             N == {at(i) : i \in {k \in DOMAIN w : w[k].entity = e}}
             P == WritePlaces(old, e)
  <2>1. /\ WritePlaces(new, e) = P \cup N /\ P \in SUBSET Place /\ N \in SUBSET Place
        /\ \A p \in P : WriteAt(new, p) = WriteAt(old, p)
        /\ \A i \in DOMAIN w : WriteAt(new, at(i)) = w[i]
        /\ \A p \in P : \A z \in N : Before(p, z)
    <3>1. LET before == Append(J, E)
              after == Append(J, F)
          IN  /\ before \in Seq(Entry) /\ after \in Seq(Entry)
              /\ WritePlaces(after, e) = WritePlaces(before, e) \cup N
              /\ WritePlaces(before, e) \in SUBSET Place /\ N \in SUBSET Place
              /\ \A p \in WritePlaces(before, e) : WriteAt(after, p) = WriteAt(before, p)
              /\ \A i \in DOMAIN w : WriteAt(after, at(i)) = w[i]
              /\ \A p \in WritePlaces(before, e) : \A z \in N : Before(p, z)
      <4>1. WritesGrown(J, E, F, w, e)
        BY WritesGrow
      <4> QED  BY <4>1 DEF WritesGrown
    <3> HIDE DEF N, at
    <3> QED  BY <1>1, <1>2, <3>1
  <2>2. /\ e \in DOMAIN values <=> P # {}
        /\ \A p \in P :
              /\ Earliest(P, p) => WriteAt(old, p).previous = NoRef
              /\ Latest(P, p) => values[e] = WriteAt(old, p).value
              /\ \A q \in P : Follows(P, p, q) =>
                    WriteAt(old, q).previous = WriteAt(old, p).value
    BY <1>1 DEF ComponentsReplay
  <2>3. /\ \A p \in P : WriteAt(old, p).value = p
        /\ e \in DOMAIN values => values[e] \in P /\ Latest(P, values[e])
    BY <1>1 DEF ValuesName
  <2>4. N = {at(i) : i \in W} /\ W \subseteq DOMAIN w /\ \A i \in W : w[i].entity = e
    BY DEF WritesOf
  <2>5. CASE W = {}
    <3>1. WritePlaces(new, e) = P
      BY <2>1, <2>4, <2>5
    <3>2. e \in DOMAIN next <=> e \in DOMAIN values
      BY <1>8, <2>5 DEF WritesOf
    <3>3. e \in DOMAIN values => next[e] = values[e]
      BY <2>5, <3>2 DEF WritesSay
    <3> HIDE DEF P, N, W, at
    <3>4. \A p \in P :
              /\ Earliest(P, p) => WriteAt(new, p).previous = NoRef
              /\ Latest(P, p) => next[e] = WriteAt(new, p).value
              /\ \A q \in P : Follows(P, p, q) =>
                    WriteAt(new, q).previous = WriteAt(new, p).value
      BY <2>1, <2>2, <3>3
    <3>5. \A p \in P : WriteAt(new, p).value = p
      BY <2>1, <2>3
    <3>6. e \in DOMAIN next => next[e] \in P /\ Latest(P, next[e])
      BY <2>3, <3>2, <3>3
    <3> QED  BY <2>2, <3>1, <3>2, <3>4, <3>5, <3>6
  <2>6. CASE W # {}
    <3>1. e \in DOMAIN next
      BY <1>8, <2>4, <2>6
    <3>2. PICK m \in W : next[e] = w[m].value /\ \A k \in W : k <= m
      BY <2>6, <3>1 DEF WritesSay
    <3>3. next[e] = at(m)
      BY <1>5, <2>4, <3>2
    <3>4. \A i \in W : EarlierWrites(w, i) = {j \in W : j < i}
      BY <1>3, <2>4 DEF EarlierWrites, WritesOf
    <3> HIDE DEF P, N, W, at
    <3>17. ComeAfter(P, N)
      BY <2>1, PlacesGrow
    <3>5. at(m) \in N /\ Latest(N, at(m))
      <4>1. ASSUME NEW y \in N PROVE ~Before(at(m), y)
        <5>1. PICK k \in W : y = at(k)
          BY <2>4
        <5>2. ~(m < k)
          BY <1>3, <2>4, <3>2, <5>1
        <5> QED  BY <1>4, <2>4, <5>1, <5>2
      <4> QED  BY <2>4, <4>1 DEF Latest
    <3>6. Latest(P \cup N, at(m))
      BY <3>5, <3>17 DEF ComeAfter
    <3>7. \A i \in W : Earliest(N, at(i)) => EarlierWrites(w, i) = {}
      <4>1. SUFFICES ASSUME NEW i \in W, NEW j \in EarlierWrites(w, i)
                     PROVE  ~Earliest(N, at(i))
        OBVIOUS
      <4>2. j \in W /\ j < i
        BY <3>4, <4>1
      <4>3. at(j) \in N /\ Before(at(j), at(i))
        BY <1>4, <2>4, <4>2
      <4> QED  BY <4>3 DEF Earliest
    <3>8. ASSUME NEW p \in P
          PROVE  /\ Earliest(P \cup N, p) => WriteAt(new, p).previous = NoRef
                 /\ ~Latest(P \cup N, p)
                 /\ WriteAt(new, p).value = p
                 /\ \A q \in P : Follows(P \cup N, p, q) =>
                        WriteAt(new, q).previous = WriteAt(new, p).value
      <4>1. Earliest(P \cup N, p) => Earliest(P, p)
        BY <3>17 DEF ComeAfter
      <4>2. ~Latest(P \cup N, p)
        BY <3>5, <3>17 DEF ComeAfter
      <4>3. \A q \in P : Follows(P \cup N, p, q) => Follows(P, p, q)
        BY <3>17 DEF ComeAfter
      <4> QED  BY <2>1, <2>2, <2>3, <4>1, <4>2, <4>3
    <3>9. ASSUME NEW i \in W
          PROVE  /\ Earliest(P \cup N, at(i)) => w[i].previous = NoRef
                 /\ Latest(P \cup N, at(i)) => next[e] = w[i].value
                 /\ w[i].value = at(i)
      <4>1. at(i) \in N
        BY <2>4
      <4>2. ASSUME Earliest(P \cup N, at(i)) PROVE w[i].previous = NoRef
        <5>1. P = {} /\ Earliest(N, at(i))
          BY <4>1, <4>2, <3>17 DEF ComeAfter
        <5>2. e \notin DOMAIN values /\ EarlierWrites(w, i) = {}
          BY <2>2, <3>7, <5>1
        <5> QED  BY <1>7, <2>4, <5>2
      <4>3. ASSUME Latest(P \cup N, at(i)) PROVE next[e] = w[i].value
        <5>1. ~Before(at(i), at(m))
          BY <3>5, <4>3 DEF Latest
        <5>2. ~(i < m) /\ i <= m
          BY <1>4, <2>4, <3>2, <5>1
        <5>3. i = m
          BY <1>3, <2>4, <5>2
        <5> QED  BY <3>2, <5>3
      <4> QED  BY <1>5, <2>4, <4>2, <4>3
    <3>10. ASSUME NEW p \in P, NEW i \in W, Follows(P \cup N, p, at(i))
           PROVE  w[i].previous = WriteAt(new, p).value
      <4>1. at(i) \in N
        BY <2>4
      <4>2. Latest(P, p) /\ Earliest(N, at(i))
        BY <3>10, <4>1, <3>17 DEF ComeAfter
      <4>3. e \in DOMAIN values /\ EarlierWrites(w, i) = {}
        BY <2>2, <3>7, <4>2
      <4>4. w[i].previous = values[e]
        BY <1>7, <2>4, <4>3
      <4> QED  BY <2>1, <2>2, <4>2, <4>4
    <3>11. ASSUME NEW i \in W, NEW j \in W, Follows(P \cup N, at(i), at(j))
           PROVE  w[j].previous = w[i].value
      <4>1. at(i) \in N /\ at(j) \in N
        BY <2>4
      <4>2. Follows(N, at(i), at(j))
        BY <3>11, <4>1, <3>17 DEF ComeAfter
      <4>3. i < j
        BY <1>4, <2>4, <4>2 DEF Follows
      <4>4. i \in EarlierWrites(w, j)
        BY <3>4, <4>3
      <4>5. PICK k \in EarlierWrites(w, j) :
                w[j].previous = at(k) /\ \A o \in EarlierWrites(w, j) : o <= k
        BY <1>6, <2>4, <4>4
      <4>6. k \in W /\ k < j /\ i <= k
        BY <3>4, <4>4, <4>5
      <4>7. i = k
        <5>1. SUFFICES ASSUME i # k PROVE FALSE
          OBVIOUS
        <5>2. i < k
          BY <1>3, <2>4, <4>6, <5>1
        <5>3. Before(at(i), at(k)) /\ Before(at(k), at(j)) /\ at(k) \in N
          BY <1>4, <2>4, <4>6, <5>2
        <5> QED  BY <4>2, <5>3 DEF Follows
      <4> QED  BY <1>5, <2>4, <4>5, <4>7
    <3>12. \A p \in P : \A i \in W : ~Follows(P \cup N, at(i), p)
      BY <2>4, <3>17 DEF ComeAfter
    <3>13. \A i \in W : WriteAt(new, at(i)) = w[i]
      BY <2>1, <2>4
    <3>14. /\ \A p \in P \cup N :
                 /\ Earliest(P \cup N, p) => WriteAt(new, p).previous = NoRef
                 /\ Latest(P \cup N, p) => next[e] = WriteAt(new, p).value
                 /\ WriteAt(new, p).value = p
      <4>1. ASSUME NEW p \in N
            PROVE  /\ Earliest(P \cup N, p) => WriteAt(new, p).previous = NoRef
                   /\ Latest(P \cup N, p) => next[e] = WriteAt(new, p).value
                   /\ WriteAt(new, p).value = p
        <5>1. PICK i \in W : p = at(i)
          BY <2>4, <4>1
        <5> QED  BY <3>9, <3>13, <5>1
      <4> QED  BY <3>8, <4>1
    <3>15. \A p, q \in P \cup N :
                 Follows(P \cup N, p, q) => WriteAt(new, q).previous = WriteAt(new, p).value
      <4>1. SUFFICES ASSUME NEW p \in P \cup N, NEW q \in P \cup N, Follows(P \cup N, p, q)
                     PROVE  WriteAt(new, q).previous = WriteAt(new, p).value
        OBVIOUS
      <4>2. CASE p \in P /\ q \in P
        BY <3>8, <4>1, <4>2
      <4>3. CASE p \in P /\ q \in N
        BY <2>4, <3>10, <3>13, <4>1, <4>3
      <4>4. CASE p \in N /\ q \in N
        <5>1. PICK i \in W, j \in W : p = at(i) /\ q = at(j)
          BY <2>4, <4>4
        <5> QED  BY <3>11, <3>13, <4>1, <5>1
      <4>5. CASE p \in N /\ q \in P
        BY <2>4, <3>12, <4>1, <4>5
      <4> QED  BY <4>2, <4>3, <4>4, <4>5
    <3>16. P \cup N # {} /\ next[e] \in P \cup N /\ Latest(P \cup N, next[e])
      BY <3>3, <3>5, <3>6
    <3> QED  BY <2>1, <3>1, <3>14, <3>15, <3>16
  <2> QED  BY <2>5, <2>6
<1>10. ComponentsReplay(next, new)
  BY <1>9 DEF ComponentsReplay
<1>11. DOMAIN next \subseteq Refs
  BY <1>3, <1>8 DEF ValuesName
<1>12. ValuesName(next, new)
  BY <1>9, <1>11 DEF ValuesName
<1> QED  BY <1>2, <1>10, <1>12

-----------------------------------------------------------------------------
(* Stores and bundles. *)

\* A store is nothing but its records and indexes.
Shaped(s) ==
    s = [records |-> [r \in Known(s) |-> s.records[r]], reverse |-> s.reverse,
         predecessors |-> s.predecessors]

\* Applying a bundle leaves a store, and applying none leaves the same store.
LEMMA AppliedShaped ==
    ASSUME NEW s, NEW bundle
    PROVE  /\ Shaped(Applied(s, bundle))
           /\ Shaped(s) /\ DOMAIN bundle = {} => Applied(s, bundle) = s
<1>1. PICK written : written = [r \in DOMAIN bundle |-> Mutated(s, r, bundle[r])]
  OBVIOUS
<1>2. PICK t : t = Applied(s, bundle)
  OBVIOUS
<1>3. t = WithRecords(s, written) /\ DOMAIN written = DOMAIN bundle
  BY <1>1, <1>2 DEF Applied
<1>4. PICK D : D = Known(s) \cup DOMAIN written
  OBVIOUS
<1>5. PICK f : f = [r \in D |-> IF r \in DOMAIN written THEN written[r] ELSE s.records[r]]
  OBVIOUS
<1>6. PICK a : a = (s.reverse \ UNION {ReversePairs(r, s.records[r]) :
                                          r \in DOMAIN written \cap Known(s)})
                      \cup UNION {ReversePairs(r, written[r]) : r \in DOMAIN written}
  OBVIOUS
<1>7. PICK b : b = (s.predecessors
                       \ UNION {PredecessorPairs(r, s.records[r]) :
                                  r \in DOMAIN written \cap Known(s)})
                      \cup UNION {PredecessorPairs(r, written[r]) : r \in DOMAIN written}
  OBVIOUS
<1>8. t = [records |-> f, reverse |-> a, predecessors |-> b]
  BY <1>3, <1>4, <1>5, <1>6, <1>7 DEF WithRecords
<1>9. f = [r \in D |-> f[r]] /\ DOMAIN f = D
  BY <1>5
<1>10. Shaped(t)
  BY <1>8, <1>9 DEF Shaped, Known
<1>11. ASSUME Shaped(s), DOMAIN bundle = {} PROVE t = s
  <2>1. a = s.reverse /\ b = s.predecessors
    BY <1>3, <1>6, <1>7, <1>11
  <2>2. D = Known(s)
    BY <1>3, <1>4, <1>11
  <2>3. f = [r \in Known(s) |-> s.records[r]]
    BY <1>3, <1>5, <1>11, <2>2
  <2> QED  BY <1>8, <1>11, <2>1, <2>3 DEF Shaped
<1> QED  BY <1>2, <1>10, <1>11

\* A mutation of a record that the store does not know creates it.
LEMMA CreatedIs ==
    ASSUME NEW s, NEW bundle, BundleTyped(bundle), NEW r \in DOMAIN bundle,
           MutationOk(s, bundle, r), r \notin Known(s)
    PROVE  Mutated(s, r, bundle[r]).version = 1
<1>1. PICK m : m = bundle[r]
  OBVIOUS
<1>2. m.op = "create"
  <2>1. MutationTyped(m)
    BY <1>1 DEF BundleTyped
  <2>2. /\ m.op = "update" => Mutable(s, r, m.expected)
        /\ m.op = "retire" => Mutable(s, r, m.expected)
        /\ m.op = "delete" => r \in Known(s)
    BY <1>1 DEF MutationOk
  <2> QED  BY <2>1, <2>2 DEF MutationTyped, Mutable, IsActive
<1> QED  BY <1>1, <1>2 DEF Mutated

\* An accepted bundle moves the records it writes to their next version.
LEMMA VersionsGrow ==
    ASSUME NEW s, Typed(s), Exact(s), NEW bundle, BundleTyped(bundle), BundleOk(s, bundle)
    PROVE  \A r \in DOMAIN bundle :
               /\ Applied(s, bundle).records[r] \in Record
               /\ Applied(s, bundle).records[r].version =
                      IF r \in Known(s) THEN s.records[r].version + 1 ELSE 1
<1>1. SUFFICES ASSUME NEW r \in DOMAIN bundle
               PROVE  /\ Applied(s, bundle).records[r] \in Record
                      /\ Applied(s, bundle).records[r].version =
                             IF r \in Known(s) THEN s.records[r].version + 1 ELSE 1
  OBVIOUS
<1>2. Applied(s, bundle).records[r] = Mutated(s, r, bundle[r])
  BY AppliedIs
<1>3. MutationOk(s, bundle, r)
  BY DEF BundleOk
<1>4. Mutated(s, r, bundle[r]) \in Record
  BY <1>3, MutatedIs
<1>5. r \in Known(s) => Mutated(s, r, bundle[r]).version = s.records[r].version + 1
  BY <1>3, MutatedIs
<1>6. r \notin Known(s) => Mutated(s, r, bundle[r]).version = 1
  BY <1>3, CreatedIs
<1> QED  BY <1>2, <1>4, <1>5, <1>6

-----------------------------------------------------------------------------
(* Staged writes. *)

\* Record writes of a stage.
RecordsTyped(records) ==
    /\ DOMAIN records \subseteq Refs
    /\ \A r \in DOMAIN records : /\ MutationTyped(records[r].mutation)
                                 /\ records[r].same \in BOOLEAN

\* Writes as a system proposes them, and as they are committed, in order.
WritesTyped(writes) == RecordsTyped(writes.records) /\ DOMAIN writes.components \subseteq Refs
PartTyped(part) == RecordsTyped(part.records) /\ part.components \in Seq(Refs)

\* The bundle of a stage.
LEMMA BundleIs ==
    ASSUME NEW part, RecordsTyped(part.records)
    PROVE  /\ DOMAIN Bundle(part, AnyBoundary) = DOMAIN part.records
           /\ BundleTyped(Bundle(part, AnyBoundary))
           /\ BundleTyped(Bundle(part, SameBoundary))
           /\ Bundle(Part(part, TRUE), AnyBoundary) = Bundle(part, SameBoundary)
<1>1. PICK f : f = part.records
  OBVIOUS
<1>2. /\ DOMAIN f \subseteq Refs
      /\ \A r \in DOMAIN f : MutationTyped(f[r].mutation) /\ f[r].same \in BOOLEAN
  BY <1>1 DEF RecordsTyped
<1>3. PICK any : any = [r \in {t \in DOMAIN f : f[t].same \in BOOLEAN} |-> f[r].mutation]
  OBVIOUS
<1>4. PICK same : same = [r \in {t \in DOMAIN f : f[t].same \in {TRUE}} |-> f[r].mutation]
  OBVIOUS
<1>5. any = Bundle(part, AnyBoundary) /\ same = Bundle(part, SameBoundary)
  BY <1>1, <1>3, <1>4 DEF Bundle, AnyBoundary, SameBoundary
<1>6. DOMAIN any = DOMAIN f /\ \A r \in DOMAIN any : any[r] = f[r].mutation
  BY <1>2, <1>3
<1>7. DOMAIN same \subseteq DOMAIN f /\ \A r \in DOMAIN same : same[r] = f[r].mutation
  BY <1>4
<1>8. BundleTyped(any) /\ BundleTyped(same)
  BY <1>2, <1>6, <1>7 DEF BundleTyped
<1>9. PICK g : g = [r \in {t \in DOMAIN f : f[t].same = TRUE} |-> f[r]]
  OBVIOUS
<1>10. Part(part, TRUE).records = g
  BY <1>1, <1>9 DEF Part
<1>11. Bundle(Part(part, TRUE), AnyBoundary) =
           [r \in {t \in DOMAIN g : g[t].same \in BOOLEAN} |-> g[r].mutation]
  BY <1>10 DEF Bundle, AnyBoundary
<1>12. {t \in DOMAIN g : g[t].same \in BOOLEAN} = {t \in DOMAIN f : f[t].same \in {TRUE}}
  BY <1>2, <1>9
<1>13. \A r \in {t \in DOMAIN f : f[t].same \in {TRUE}} : g[r].mutation = f[r].mutation
  BY <1>9
<1>14. Bundle(Part(part, TRUE), AnyBoundary) = same
  BY <1>4, <1>11, <1>12, <1>13
<1> QED  BY <1>1, <1>5, <1>6, <1>8, <1>14

\* The parts of what was proposed, and the parts that wait for the end.
LEMMA PartsTyped ==
    /\ \A writes : WritesTyped(writes) =>
          PartTyped(Part(writes, TRUE)) /\ PartTyped(Part(writes, FALSE))
    /\ \A left, right : PartTyped(left) /\ PartTyped(right) => PartTyped(Merged(left, right))
    /\ PartTyped(NoWrites) /\ WritesTyped(NoWrites)
<1>1. ASSUME NEW writes, WritesTyped(writes), NEW same \in BOOLEAN
      PROVE  PartTyped(Part(writes, same))
  <2>1. PICK S : S = {e \in DOMAIN writes.components : writes.components[e] = same}
    OBVIOUS
  <2>2. S \in SUBSET Refs
    BY <1>1, <2>1 DEF WritesTyped
  <2>3. SetToSeq(S) \in [1 .. Cardinality(S) -> S] /\ Cardinality(S) \in Nat
    BY <2>2, SetToSeqIs, RefsFinite
  <2>4. SetToSeq(S) \in Seq(Refs)
    <3>1. SetToSeq(S) \in [1 .. Cardinality(S) -> Refs]
      BY <2>2, <2>3
    <3> QED  BY <2>3, <3>1
  <2>5. Part(writes, same).components = SetToSeq(S)
    BY <2>1 DEF Part
  <2>6. RecordsTyped(Part(writes, same).records)
    BY <1>1 DEF Part, WritesTyped, RecordsTyped
  <2> QED  BY <2>4, <2>5, <2>6 DEF PartTyped
<1>2. ASSUME NEW left, NEW right, PartTyped(left), PartTyped(right)
      PROVE  PartTyped(Merged(left, right))
  <2>1. left.components \o right.components \in Seq(Refs)
    BY <1>2, ConcatProperties DEF PartTyped
  <2>2. RecordsTyped(Merged(left, right).records)
    BY <1>2 DEF Merged, PartTyped, RecordsTyped
  <2> QED  BY <2>1, <2>2 DEF PartTyped, Merged
<1>3. PartTyped(NoWrites) /\ WritesTyped(NoWrites)
  BY EmptySeq DEF PartTyped, WritesTyped, RecordsTyped, NoWrites
<1> QED  BY <1>1, <1>2, <1>3

\* What the systems of a phase may propose is typed.
LEMMA ProposalsTyped == Typed(store) => \A writes \in Proposals : WritesTyped(writes)
<1>1. SUFFICES ASSUME Typed(store), NEW writes \in Proposals PROVE WritesTyped(writes)
  OBVIOUS
<1>2. ASSUME NEW r, NEW m \in Mutations(r) PROVE MutationTyped(m)
  <2>1. \A refs \in ReferenceSets : refs \subseteq Refs
    BY DEF ReferenceSets, kSubset
  <2>2. \A refs \in ReferenceSets : MutationTyped(Create(refs))
    BY <2>1 DEF MutationTyped, Create
  <2>3. \A v : \A x \in Refs \cup {NoRef} : MutationTyped(Retire(v, x))
    BY DEF MutationTyped, Retire
  <2>4. \A v : MutationTyped(Delete(v))
    BY DEF MutationTyped, Delete
  <2>5. CASE r \notin Known(store)
    BY <1>2, <2>2, <2>5 DEF Mutations
  <2>6. CASE r \in Known(store)
    <3>1. PICK v : v = store.records[r].version
      OBVIOUS
    <3>2. PICK refs : refs = store.records[r].references
      OBVIOUS
    <3>3. MutationTyped(Update(v, refs))
      <4>1. refs \subseteq Refs
        <5>1. store.records[r] \in Record
          BY <1>1, <2>6 DEF Typed
        <5> QED  BY <3>2, <5>1 DEF Record
      <4> QED  BY <4>1 DEF MutationTyped, Update
    <3>4. m = Update(v, refs) \/ m = Delete(v) \/ \E x \in Refs \cup {NoRef} : m = Retire(v, x)
      BY <1>2, <2>6, <3>1, <3>2 DEF Mutations
    <3> QED  BY <2>3, <2>4, <3>3, <3>4
  <2> QED  BY <2>5, <2>6
<1>3. PICK w \in UNION {RecordWrites(T) : T \in UNION {kSubset(k, Refs) : k \in 0..MaxWrites}},
           c \in UNION {ComponentWrites(T) :
                           T \in UNION {kSubset(k, Refs) : k \in 0..MaxComponents}} :
          writes = [records |-> w, components |-> c]
  BY <1>1 DEF Proposals
<1>4. PICK T : T \subseteq Refs /\ w \in RecordWrites(T)
  BY <1>3 DEF kSubset
<1>5. PICK U : U \subseteq Refs /\ c \in ComponentWrites(U)
  BY <1>3 DEF kSubset
<1>6. /\ DOMAIN w = T
      /\ \A r \in T : w[r].mutation \in Mutations(r) /\ w[r].same \in BOOLEAN
  BY <1>4 DEF RecordWrites
<1>7. RecordsTyped(w)
  BY <1>2, <1>4, <1>6 DEF RecordsTyped
<1>8. DOMAIN c = U
  BY <1>5 DEF ComponentWrites
<1> QED  BY <1>3, <1>5, <1>7, <1>8 DEF WritesTyped

-----------------------------------------------------------------------------
(* The inductive invariant. *)

\* The state and the evidence that leads to it.
Kept(s, values, index, J) ==
    /\ Typed(s) /\ Exact(s) /\ StoreOk(s) /\ Shaped(s)
    /\ \A e \in DOMAIN values : e \in Known(s) /\ ~IsDeleted(s, e)
    /\ RecordsReplay(s, J) /\ IndexNames(s, index, J)
    /\ ComponentsReplay(values, J) /\ ValuesName(values, J)

\* The locals of a running boundary.
RunFields ==
    {"phase", "saved", "visible", "candidate", "ordinary", "transitions", "deferred",
     "prepared", "changes", "components", "staged"}
IsRun(x) == x = [f \in RunFields |-> x[f]]

EntryOf(x) == [changes |-> x.changes, components |-> x.components]

\* A stage was prepared on the store it is about to commit to, and shown what it leaves.
ReadyFor(writes) ==
    LET same == Bundle(writes, SameBoundary) IN
    /\ \E taken : run.prepared = Prepared(store, same, taken)
    /\ DOMAIN same # {} => BundleOk(store, same)
    /\ run.visible.store = Applied(store, same)
    /\ run.visible.components = ToSet(Part(writes, TRUE).components)

RunKept ==
    /\ IsRun(run) /\ run.phase \in {7, 9, 10, 11, 12, 13, 14, 15}
    /\ EntryOf(run) \in Entry
    /\ run.saved = [store |-> run.saved.store, components |-> run.saved.components,
                    versions |-> run.saved.versions]
    /\ Kept(run.saved.store, run.saved.components, run.saved.versions, boundaries)
    /\ WritesTyped(run.ordinary) /\ WritesTyped(run.transitions) /\ PartTyped(run.deferred)
    /\ run.phase \in {7, 9} => store = run.saved.store
    /\ run.phase = 9 => ReadyFor(run.ordinary)
    /\ run.phase = 11 => ReadyFor(run.transitions)
    /\ run.phase \notin {7, 9} => run.ordinary = NoWrites
    /\ run.phase = 15 => run.deferred = NoWrites

BoundaryInv ==
    /\ boundaries \in Seq(Entry)
    /\ Kept(store, components, versions, Evidence)
    /\ run # Idle => RunKept

\* What a running boundary is not.
LEMMA RunIsNotIdle == \A x : x.phase \in {7, 9, 10, 11, 12, 13, 14, 15} => x # Idle
BY DEF Idle

\* The evidence while a boundary runs.
LEMMA EvidenceRunning == run # Idle => Evidence = Append(boundaries, EntryOf(run))
BY DEF Evidence, EntryOf

\* The invariant gives what the module promises of every state.
LEMMA InvSound == BoundaryInv => StagesSound
<1>1. SUFFICES ASSUME BoundaryInv PROVE StagesSound
  OBVIOUS
<1>2. PICK J : J = Evidence
  OBVIOUS
<1>3. /\ Typed(store) /\ StoreOk(store)
      /\ \A e \in DOMAIN components : e \in Known(store) /\ ~IsDeleted(store, e)
      /\ RecordsReplay(store, J) /\ IndexNames(store, versions, J)
      /\ ComponentsReplay(components, J) /\ ValuesName(components, J)
  BY <1>1, <1>2 DEF BoundaryInv, Kept
<1>4. /\ J \in Seq(Entry)
      /\ run = Idle => J = boundaries /\ DOMAIN J = 1 .. BoundaryId - 1
      /\ run # Idle => DOMAIN J = 1 .. BoundaryId /\ J[BoundaryId] = EntryOf(run)
      /\ \A b \in 1 .. BoundaryId - 1 : J[b] = boundaries[b]
      /\ BoundaryId \in Nat
  <2>1. boundaries \in Seq(Entry) /\ BoundaryId = Len(boundaries) + 1
        /\ Len(boundaries) \in Nat
    BY <1>1, LenProperties DEF BoundaryInv, BoundaryId
  <2>2. CASE run = Idle
    BY <1>2, <2>1, <2>2, LenProperties DEF Evidence
  <2>3. CASE run # Idle
    <3>1. EntryOf(run) \in Entry
      BY <1>1, <2>3 DEF BoundaryInv, RunKept
    <3> QED  BY <1>2, <2>1, <2>3, <3>1, EvidenceRunning, AppendProperties, LenProperties
  <2> QED  BY <2>2, <2>3
<1>5. ASSUME NEW r \in Known(store)
      PROVE  LET v == versions[r]
                 changes == IF v.boundary = BoundaryId THEN run.changes
                            ELSE boundaries[v.boundary].changes
             IN  /\ v.boundary \in 1 .. BoundaryId
                 /\ v.boundary = BoundaryId => run # Idle
                 /\ v.change \in DOMAIN changes
                 /\ changes[v.change].ref = r
                 /\ changes[v.change].record.version = v.version
                 /\ v.version = store.records[r].version
  <2>1. PICK at : at = <<versions[r].boundary, versions[r].change>>
    OBVIOUS
  <2>2. /\ at \in Places(J, r) /\ Latest(Places(J, r), at)
        /\ versions[r].version = store.records[r].version
    BY <1>3, <2>1 DEF IndexNames
  <2>3. r \in Refs
    BY <1>3 DEF Typed
  <2>4. store.records[r] = RecordAt(J, at)
    BY <1>3, <2>2, <2>3 DEF RecordsReplay
  <2>5. PICK b, i : b \in DOMAIN J /\ i \in DOMAIN J[b].changes
                    /\ J[b].changes[i].ref = r /\ at = <<b, i>>
    BY <1>4, <2>2, PlacesAre
  <2>6. versions[r].boundary = b /\ versions[r].change = i
    BY <2>1, <2>5
  <2>7. RecordAt(J, at) = J[b].changes[i].record
    BY <2>5 DEF RecordAt
  <2>8. CASE b = BoundaryId
    <3>1. run # Idle /\ J[b].changes = run.changes
      BY <1>4, <2>5, <2>8 DEF EntryOf
    <3> QED  BY <1>4, <2>2, <2>4, <2>5, <2>6, <2>7, <2>8, <3>1
  <2>9. CASE b # BoundaryId
    <3>1. b \in 1 .. BoundaryId - 1 /\ J[b] = boundaries[b]
      BY <1>4, <2>5, <2>9
    <3> QED  BY <1>4, <2>2, <2>4, <2>5, <2>6, <2>7, <2>9, <3>1
  <2> QED  BY <2>8, <2>9
<1>6. DOMAIN versions = Known(store)
  BY <1>3 DEF IndexNames
<1>7. TypeOK
  <2>1. run = Idle \/ run.phase \in {7, 9, 10, 11, 12, 13, 14, 15}
    BY <1>1 DEF BoundaryInv, RunKept
  <2>2. DOMAIN components \subseteq Refs
    BY <1>3 DEF ValuesName
  <2> QED  BY <1>3, <1>5, <1>6, <2>1, <2>2 DEF TypeOK, Typed
<1>8. Sound
  BY <1>3 DEF Sound
<1>9. EvidenceReplays
  BY <1>2, <1>3 DEF EvidenceReplays
<1>10. VersionsEstablished
  BY <1>5, <1>6 DEF VersionsEstablished
<1> QED  BY <1>7, <1>8, <1>9, <1>10 DEF StagesSound

-----------------------------------------------------------------------------
(* The first state, and the first step of a boundary. *)

\* The empty store, before anything was settled.
LEMMA InitKept == Init => BoundaryInv
<1>1. SUFFICES ASSUME Init PROVE BoundaryInv
  OBVIOUS
<1>2. /\ store = EmptyStore /\ components = <<>> /\ versions = <<>>
      /\ boundaries = <<>> /\ run = Idle /\ Evidence = <<>>
  BY <1>1 DEF Init, Evidence
<1>3. /\ EmptyStore.records = [r \in {} |-> 0]
      /\ EmptyStore.reverse = {} /\ EmptyStore.predecessors = {}
  BY DEF EmptyStore
<1>4. Known(EmptyStore) = {}
  BY <1>3 DEF Known
<1>5. Typed(EmptyStore) /\ Exact(EmptyStore)
  BY <1>3, <1>4 DEF Typed, Exact
<1>6. StoreOk(EmptyStore)
  BY <1>4 DEF StoreOk, SuccessorsEnd
<1>7. Shaped(EmptyStore)
  <2>1. EmptyStore.records = [r \in Known(EmptyStore) |-> EmptyStore.records[r]]
    BY <1>3, <1>4
  <2>2. EmptyStore = [records |-> EmptyStore.records, reverse |-> EmptyStore.reverse,
                      predecessors |-> EmptyStore.predecessors]
    BY DEF EmptyStore
  <2> QED  BY <2>1, <2>2 DEF Shaped
<1>8. boundaries \in Seq(Entry) /\ Evidence \in Seq(Entry)
      /\ DOMAIN Evidence = {} /\ DOMAIN components = {} /\ DOMAIN versions = {}
  <2>1. DOMAIN <<>> = {}
    OBVIOUS
  <2>2. <<>> \in Seq(Entry)
    BY EmptySeq
  <2> QED  BY <1>2, <2>1, <2>2
<1>9. \A r : Places(Evidence, r) = {} /\ WritePlaces(Evidence, r) = {}
  BY <1>8 DEF Places, WritePlaces
<1>10. RecordsReplay(store, Evidence) /\ ComponentsReplay(components, Evidence)
  BY <1>2, <1>4, <1>8, <1>9 DEF RecordsReplay, ComponentsReplay
<1>11. IndexNames(store, versions, Evidence) /\ ValuesName(components, Evidence)
  BY <1>2, <1>4, <1>8, <1>9 DEF IndexNames, ValuesName
<1>12. Kept(store, components, versions, Evidence)
  BY <1>2, <1>5, <1>6, <1>7, <1>8, <1>10, <1>11 DEF Kept
<1> QED  BY <1>2, <1>8, <1>12 DEF BoundaryInv

\* A boundary that has written nothing adds nothing to the evidence.
LEMMA NothingWritten ==
    ASSUME NEW J \in Seq(Entry), NEW s, NEW values, NEW index, Kept(s, values, index, J)
    PROVE  Kept(s, values, index, Append(J, [changes |-> <<>>, components |-> <<>>]))
<1>1. PICK E : E = [changes |-> <<>>, components |-> <<>>]
  OBVIOUS
<1>2. PICK K : K = Append(J, E)
  OBVIOUS
<1>3. E.changes = <<>> /\ E.components = <<>> /\ E \in Entry
  BY <1>1, EmptySeq DEF Entry
<1>4. /\ K \in Seq(Entry) /\ Len(J) \in Nat
      /\ DOMAIN J = 1 .. Len(J) /\ DOMAIN K = 1 .. Len(J) + 1
      /\ \A b \in DOMAIN J : K[b] = J[b]
      /\ K[Len(J) + 1] = E
  BY <1>2, <1>3, AppendProperties, LenProperties
<1>5. /\ DOMAIN K[Len(J) + 1].changes = {} /\ DOMAIN K[Len(J) + 1].components = {}
      /\ \A b \in DOMAIN K : b \in DOMAIN J \/ b = Len(J) + 1
      /\ DOMAIN J \subseteq DOMAIN K
  BY <1>3, <1>4
<1>6. ASSUME NEW r
      PROVE  Places(K, r) = Places(J, r) /\ WritePlaces(K, r) = WritePlaces(J, r)
  <2>1. \A p : p \in Places(K, r) <=> p \in Places(J, r)
    BY <1>4, <1>5, PlacesAre
  <2>2. \A p : p \in WritePlaces(K, r) <=> p \in WritePlaces(J, r)
    BY <1>4, <1>5, PlacesAre
  <2> QED  BY <2>1, <2>2
<1>7. ASSUME NEW r
      PROVE  /\ \A p \in Places(J, r) : RecordAt(K, p) = RecordAt(J, p)
             /\ \A p \in WritePlaces(J, r) : WriteAt(K, p) = WriteAt(J, p)
  <2>1. \A p \in Places(J, r) \cup WritePlaces(J, r) : p[1] \in DOMAIN J
    BY PlacesAre
  <2> QED  BY <1>4, <2>1 DEF RecordAt, WriteAt
<1>8. /\ RecordsReplay(s, J) /\ IndexNames(s, index, J)
      /\ ComponentsReplay(values, J) /\ ValuesName(values, J)
  BY DEF Kept
<1>9. RecordsReplay(s, K)
  <2>1. SUFFICES ASSUME NEW r \in Refs
        PROVE  LET places == Places(K, r)
                   version(p) == RecordAt(K, p).version
               IN  /\ r \in Known(s) <=> places # {}
                   /\ \A p \in places :
                       /\ Earliest(places, p) => version(p) = 1
                       /\ Latest(places, p) => s.records[r] = RecordAt(K, p)
                       /\ \A q \in places :
                            Follows(places, p, q) => version(q) = version(p) + 1
    BY DEF RecordsReplay
  <2>2. PICK P : P = Places(J, r)
    OBVIOUS
  <2>3. P = Places(K, r) /\ \A p \in P : RecordAt(K, p) = RecordAt(J, p)
    BY <1>6, <1>7, <2>2
  <2>4. /\ r \in Known(s) <=> P # {}
        /\ \A p \in P :
            /\ Earliest(P, p) => RecordAt(J, p).version = 1
            /\ Latest(P, p) => s.records[r] = RecordAt(J, p)
            /\ \A q \in P : Follows(P, p, q) =>
                              RecordAt(J, q).version = RecordAt(J, p).version + 1
    BY <1>8, <2>2 DEF RecordsReplay
  <2> QED  BY <2>3, <2>4
<1>10. ComponentsReplay(values, K)
  <2>1. SUFFICES ASSUME NEW e \in Refs
        PROVE  LET places == WritePlaces(K, e)
                   write(p) == WriteAt(K, p)
               IN  /\ e \in DOMAIN values <=> places # {}
                   /\ \A p \in places :
                       /\ Earliest(places, p) => write(p).previous = NoRef
                       /\ Latest(places, p) => values[e] = write(p).value
                       /\ \A q \in places :
                            Follows(places, p, q) => write(q).previous = write(p).value
    BY DEF ComponentsReplay
  <2>2. PICK P : P = WritePlaces(J, e)
    OBVIOUS
  <2>3. P = WritePlaces(K, e) /\ \A p \in P : WriteAt(K, p) = WriteAt(J, p)
    BY <1>6, <1>7, <2>2
  <2>4. /\ e \in DOMAIN values <=> P # {}
        /\ \A p \in P :
            /\ Earliest(P, p) => WriteAt(J, p).previous = NoRef
            /\ Latest(P, p) => values[e] = WriteAt(J, p).value
            /\ \A q \in P : Follows(P, p, q) =>
                              WriteAt(J, q).previous = WriteAt(J, p).value
    BY <1>8, <2>2 DEF ComponentsReplay
  <2> QED  BY <2>3, <2>4
<1>11. IndexNames(s, index, K)
  BY <1>6, <1>8 DEF IndexNames
<1>12. ValuesName(values, K)
  BY <1>6, <1>7, <1>8 DEF ValuesName
<1>13. Kept(s, values, index, K)
  BY <1>9, <1>10, <1>11, <1>12 DEF Kept
<1> QED  BY <1>1, <1>2, <1>13

-----------------------------------------------------------------------------
(* What a stage commits. *)

\* A stage that was prepared for the store it commits to, and one that was not prepared,
\* leave what applying the bundle leaves (apply_boundary_stage).
LEMMA StageLeaves ==
    ASSUME NEW prepared, NEW bundle, StageOk(prepared, bundle),
           \/ prepared = Unprepared
           \/ /\ \E taken : prepared = Prepared(store, bundle, taken)
              /\ DOMAIN bundle # {} => BundleOk(store, bundle)
    PROVE  /\ DOMAIN bundle = {} => StageStore(prepared, bundle) = store
           /\ DOMAIN bundle # {} => /\ BundleOk(store, bundle)
                                    /\ StageStore(prepared, bundle) = Applied(store, bundle)
<1>1. CASE DOMAIN bundle = {}
  BY <1>1 DEF StageStore
<1>2. CASE DOMAIN bundle # {} /\ prepared = Unprepared
  BY <1>2 DEF StageStore, StageOk
<1>3. CASE DOMAIN bundle # {} /\ prepared # Unprepared
  <2>1. PICK taken : prepared = [base |-> store, bundle |-> bundle,
                                 applied |-> Applied(store, bundle), taken |-> taken]
    BY <1>3 DEF Prepared
  <2>2. PreparedFor(prepared, store, bundle)
    BY <2>1 DEF PreparedFor
  <2>3. prepared.applied = Applied(store, bundle)
    BY <2>1
  <2>4. StageStore(prepared, bundle) = prepared.applied
    BY <1>3, <2>2 DEF StageStore
  <2> QED  BY <1>3, <2>3, <2>4
<1> QED  BY <1>1, <1>2, <1>3

\* The records of a stage: the store it leaves is one a load accepts, and each record
\* that it wrote is one version further.
LEMMA StageRecords ==
    ASSUME Typed(store), Exact(store), StoreOk(store), Shaped(store),
           NEW bundle, BundleTyped(bundle), NEW after,
           DOMAIN bundle = {} => after = store,
           DOMAIN bundle # {} => BundleOk(store, bundle) /\ after = Applied(store, bundle)
    PROVE  /\ Typed(after) /\ Exact(after) /\ StoreOk(after) /\ Shaped(after)
           /\ Known(after) = Known(store) \cup DOMAIN bundle
           /\ \A r \in Known(store) \ DOMAIN bundle : after.records[r] = store.records[r]
           /\ \A r \in DOMAIN bundle :
                 /\ after.records[r] \in Record
                 /\ after.records[r].version =
                        IF r \in Known(store) THEN store.records[r].version + 1 ELSE 1
<1>1. CASE DOMAIN bundle = {}
  BY <1>1
<1>2. CASE DOMAIN bundle # {}
  <2>1. BundleOk(store, bundle) /\ after = Applied(store, bundle)
    BY <1>2
  <2>2. LET t == Applied(store, bundle)
        IN  /\ Typed(t) /\ Exact(t) /\ Known(t) = Known(store) \cup DOMAIN bundle
            /\ \A r \in Known(store) \ DOMAIN bundle : t.records[r] = store.records[r]
    BY <2>1, AppliedIs
  <2>3. Shaped(Applied(store, bundle))
    BY AppliedShaped
  <2>4. StoreOk(Applied(store, bundle))
    BY <2>1, LocalValidationSuffices
  <2>5. \A r \in DOMAIN bundle :
            /\ Applied(store, bundle).records[r] \in Record
            /\ Applied(store, bundle).records[r].version =
                   IF r \in Known(store) THEN store.records[r].version + 1 ELSE 1
    BY <2>1, VersionsGrow
  <2> QED  BY <2>1, <2>2, <2>3, <2>4, <2>5
<1> QED  BY <1>1, <1>2

\* What an index of versions says once the changes c, to the records D, are in it.
IndexSays(c, first, D, next) ==
    /\ DOMAIN next = DOMAIN versions \cup D
    /\ \A r \in DOMAIN versions \ D : next[r] = versions[r]
    /\ \A r \in D : \E i \in DOMAIN c :
          /\ c[i].ref = r /\ next[r].version = c[i].record.version
          /\ next[r].boundary = BoundaryId /\ next[r].change = first + i

\* The index of versions after a stage (index_current_domain_record_version).
LEMMA IndexedIs ==
    ASSUME NEW c, NEW first, NEW D,
           \A i \in DOMAIN c : c[i].ref \in D,
           \A r \in D : \E i \in DOMAIN c : c[i].ref = r
    PROVE  IndexSays(c, first, D, Indexed(c, first))
<1> DEFINE position(r) == CHOOSE i \in DOMAIN c : c[i].ref = r
           changed == {c[i].ref : i \in DOMAIN c}
           made(r) == [version |-> c[position(r)].record.version,
                       boundary |-> BoundaryId, change |-> first + position(r)]
<1>1. changed = D
  OBVIOUS
<1>2. Indexed(c, first) = [r \in DOMAIN versions \cup changed |->
                              IF r \in changed THEN made(r) ELSE versions[r]]
  BY DEF Indexed
<1>3. PICK next : next = Indexed(c, first)
  OBVIOUS
<1>4. \A r \in D : position(r) \in DOMAIN c /\ c[position(r)].ref = r
  OBVIOUS
<1>5. \A r : /\ made(r).version = c[position(r)].record.version
             /\ made(r).boundary = BoundaryId /\ made(r).change = first + position(r)
  OBVIOUS
<1> HIDE DEF position, changed, made
<1>6. /\ DOMAIN next = DOMAIN versions \cup D
      /\ \A r \in DOMAIN versions \ D : next[r] = versions[r]
      /\ \A r \in D : next[r] = made(r)
  BY <1>1, <1>2, <1>3
<1>7. ASSUME NEW r \in D
      PROVE  \E i \in DOMAIN c :
                /\ c[i].ref = r /\ next[r].version = c[i].record.version
                /\ next[r].boundary = BoundaryId /\ next[r].change = first + i
  <2>1. PICK i : i = position(r)
    OBVIOUS
  <2>2. i \in DOMAIN c /\ c[i].ref = r
    BY <1>4, <2>1
  <2>3. next[r].version = c[i].record.version /\ next[r].boundary = BoundaryId
        /\ next[r].change = first + i
    BY <1>5, <1>6, <2>1
  <2> QED  BY <2>2, <2>3
<1> QED  BY <1>3, <1>6, <1>7 DEF IndexSays

\* The values of the components after a stage.
LEMMA WithComponentsIs ==
    ASSUME NEW w \in Seq(Write)
    PROVE  LET next == WithComponents(w)
           IN  /\ DOMAIN next = DOMAIN components \cup {w[i].entity : i \in DOMAIN w}
               /\ \A e \in DOMAIN next :
                     /\ WritesOf(w, e) = {} => next[e] = components[e]
                     /\ WritesOf(w, e) # {} =>
                            \E i \in WritesOf(w, e) : /\ next[e] = w[i].value
                                                      /\ \A k \in WritesOf(w, e) : k <= i
<1>1. PICK next : next = WithComponents(w)
  OBVIOUS
<1>2. next = [e \in DOMAIN components \cup {w[i].entity : i \in DOMAIN w} |->
                 IF WritesOf(w, e) = {} THEN components[e] ELSE w[Max(WritesOf(w, e))].value]
  BY <1>1 DEF WithComponents, WritesOf
<1>3. DOMAIN next = DOMAIN components \cup {w[i].entity : i \in DOMAIN w}
  BY <1>2
<1>4. ASSUME NEW e \in DOMAIN next, WritesOf(w, e) # {}
      PROVE  \E i \in WritesOf(w, e) : /\ next[e] = w[i].value
                                        /\ \A k \in WritesOf(w, e) : k <= i
  <2>1. PICK S : S = WritesOf(w, e)
    OBVIOUS
  <2>2. S \in SUBSET (1 .. Len(w)) /\ Len(w) \in Nat /\ S # {}
    BY <1>4, <2>1, LenProperties DEF WritesOf
  <2>3. Max(S) \in S /\ \A y \in S : y <= Max(S)
    BY <2>2, MaxIs
  <2>4. next[e] = w[Max(S)].value
    BY <1>2, <1>4, <2>1
  <2> QED  BY <2>1, <2>3, <2>4
<1>5. \A e \in DOMAIN next : WritesOf(w, e) = {} => next[e] = components[e]
  BY <1>2
<1> QED  BY <1>1, <1>3, <1>4, <1>5

\* A stage keeps what the evidence and the state say of each other (apply_boundary_stage).
LEMMA StageKeeps ==
    ASSUME BoundaryInv, run # Idle, NEW part, PartTyped(part), NEW prepared, NEW next,
           \/ prepared = Unprepared
           \/ /\ \E taken : prepared = Prepared(store, Bundle(part, AnyBoundary), taken)
              /\ DOMAIN Bundle(part, AnyBoundary) # {} =>
                     BundleOk(store, Bundle(part, AnyBoundary)),
           IsRun(next), EntryOf(next) = EntryOf(run),
           ApplyStage(part, prepared, next), boundaries' = boundaries
    PROVE  /\ Kept(store', components', versions', Append(boundaries, EntryOf(run')))
           /\ EntryOf(run') \in Entry
           /\ run' = [next EXCEPT !.changes = run'.changes, !.components = run'.components]
<1>1. PICK E : E = EntryOf(run)
  OBVIOUS
<1>2. PICK J : J = boundaries
  OBVIOUS
<1>3. PICK bundle : bundle = Bundle(part, AnyBoundary)
  OBVIOUS
<1>4. PICK after : after = StageStore(prepared, bundle)
  OBVIOUS
<1>5. PICK c : c = RecordChanges(after, bundle)
  OBVIOUS
<1>6. PICK w : w = ComponentChanges(part.components, Len(run.components))
  OBVIOUS
<1>7. /\ StageOk(prepared, bundle)
      /\ DependentsOk(ToSet(part.components) \cup DOMAIN components, after)
      /\ store' = after /\ components' = WithComponents(w)
      /\ versions' = Indexed(c, Len(run.changes))
      /\ run' = [next EXCEPT !.changes = @ \o c, !.components = @ \o w]
  BY <1>3, <1>4, <1>5, <1>6 DEF ApplyStage
<1>8. /\ J \in Seq(Entry) /\ Len(J) \in Nat /\ BoundaryId = Len(J) + 1
      /\ E \in Entry /\ E.changes = run.changes /\ E.components = run.components
      /\ E.changes \in Seq(Change) /\ E.components \in Seq(Write)
      /\ Kept(store, components, versions, Append(J, E))
  <2>1. J \in Seq(Entry) /\ E \in Entry
    BY <1>1, <1>2 DEF BoundaryInv, RunKept
  <2>2. Len(J) \in Nat /\ BoundaryId = Len(J) + 1
    BY <1>2, <2>1, LenProperties DEF BoundaryId
  <2>3. E.changes = run.changes /\ E.components = run.components
    BY <1>1 DEF EntryOf
  <2>4. E.changes \in Seq(Change) /\ E.components \in Seq(Write)
    BY <2>1 DEF Entry
  <2>5. Kept(store, components, versions, Append(J, E))
    BY <1>1, <1>2, EvidenceRunning DEF BoundaryInv
  <2> QED  BY <2>1, <2>2, <2>3, <2>4, <2>5
<1>9. /\ Typed(store) /\ Exact(store) /\ StoreOk(store) /\ Shaped(store)
      /\ RecordsReplay(store, Append(J, E)) /\ IndexNames(store, versions, Append(J, E))
      /\ ComponentsReplay(components, Append(J, E)) /\ ValuesName(components, Append(J, E))
  BY <1>8 DEF Kept
<1>10. /\ BundleTyped(bundle) /\ DOMAIN bundle \subseteq Refs
       /\ part.components \in Seq(Refs)
  <2>1. RecordsTyped(part.records) /\ part.components \in Seq(Refs)
    BY DEF PartTyped
  <2>2. BundleTyped(bundle)
    BY <1>3, <2>1, BundleIs
  <2> QED  BY <2>1, <2>2 DEF BundleTyped
<1>11. /\ DOMAIN bundle = {} => after = store
       /\ DOMAIN bundle # {} => BundleOk(store, bundle) /\ after = Applied(store, bundle)
  BY <1>3, <1>4, <1>7, StageLeaves
<1>12. /\ Typed(after) /\ Exact(after) /\ StoreOk(after) /\ Shaped(after)
       /\ Known(after) = Known(store) \cup DOMAIN bundle
       /\ \A r \in Known(store) \ DOMAIN bundle : after.records[r] = store.records[r]
       /\ \A r \in DOMAIN bundle :
             /\ after.records[r] \in Record
             /\ after.records[r].version =
                    IF r \in Known(store) THEN store.records[r].version + 1 ELSE 1
  BY <1>9, <1>10, <1>11, StageRecords
<1>13. /\ c \in Seq(Change)
       /\ \A i \in DOMAIN c : c[i].ref \in DOMAIN bundle
                              /\ c[i].record = after.records[c[i].ref]
       /\ \A r \in DOMAIN bundle : \E i \in DOMAIN c : c[i].ref = r
       /\ \A i, j \in DOMAIN c : c[i].ref = c[j].ref => i = j
  BY <1>5, <1>10, <1>12, RecordChangesIs
<1>14. /\ DOMAIN versions' = DOMAIN versions \cup DOMAIN bundle
       /\ \A r \in DOMAIN versions \ DOMAIN bundle : versions'[r] = versions[r]
       /\ \A r \in DOMAIN bundle : \E i \in DOMAIN c :
             /\ c[i].ref = r /\ versions'[r].version = c[i].record.version
             /\ versions'[r].boundary = BoundaryId
             /\ versions'[r].change = Len(run.changes) + i
  <2>1. PICK first : first = Len(run.changes)
    OBVIOUS
  <2>2. PICK D : D = DOMAIN bundle
    OBVIOUS
  <2>3. /\ \A i \in DOMAIN c : c[i].ref \in D
        /\ \A r \in D : \E i \in DOMAIN c : c[i].ref = r
    BY <1>13, <2>2
  <2>4. LET index == Indexed(c, first)
        IN  /\ DOMAIN index = DOMAIN versions \cup D
            /\ \A r \in DOMAIN versions \ D : index[r] = versions[r]
            /\ \A r \in D : \E i \in DOMAIN c :
                  /\ c[i].ref = r /\ index[r].version = c[i].record.version
                  /\ index[r].boundary = BoundaryId /\ index[r].change = first + i
    <3>1. IndexSays(c, first, D, Indexed(c, first))
      BY <2>3, IndexedIs
    <3> QED  BY <3>1 DEF IndexSays
  <2>5. versions' = Indexed(c, first)
    BY <1>7, <2>1
  <2> QED  BY <2>1, <2>2, <2>4, <2>5
<1>15. StageSays(store, after, DOMAIN bundle, c, versions, versions', J, E)
  BY <1>8, <1>12, <1>13, <1>14 DEF StageSays
<1>16. \A e \in DOMAIN components : components[e] \in Place
  <2>1. Append(J, E) \in Seq(Entry)
    BY <1>8, AppendProperties
  <2> QED  BY <1>9, <2>1, PlacesTyped DEF ValuesName
<1>17. Len(run.components) \in Nat
  BY <1>8, LenProperties
<1>18a. PICK entities \in Seq(Refs) : entities = part.components
  BY <1>10
<1>18b. PICK first \in Nat : first = Len(run.components)
  BY <1>17
<1>18. /\ w \in Seq(Write) /\ DOMAIN w = DOMAIN entities
       /\ \A i \in DOMAIN w :
             LET value(k) == <<BoundaryId, first + k>>
                 earlier(k) == {j \in 1 .. k - 1 : entities[j] = entities[k]}
             IN  /\ w[i].entity = entities[i] /\ w[i].value = value(i)
                 /\ earlier(i) # {} => \E j \in earlier(i) : /\ w[i].previous = value(j)
                                                       /\ \A k \in earlier(i) : k <= j
                 /\ earlier(i) = {} =>
                        IF entities[i] \in DOMAIN components
                        THEN w[i].previous = components[entities[i]]
                        ELSE w[i].previous = NoRef
  <2>3. boundaries \in Seq(Entry)
    BY <1>2, <1>8
  <2>4. LET u == ComponentChanges(entities, first)
            value(i) == <<BoundaryId, first + i>>
            earlier(i) == {j \in 1 .. i - 1 : entities[j] = entities[i]}
        IN  /\ u \in Seq(Write) /\ DOMAIN u = DOMAIN entities
            /\ \A i \in DOMAIN u :
                  /\ u[i].entity = entities[i] /\ u[i].value = value(i)
                  /\ earlier(i) # {} =>
                         \E j \in earlier(i) : /\ u[i].previous = value(j)
                                               /\ \A k \in earlier(i) : k <= j
                  /\ earlier(i) = {} =>
                         IF entities[i] \in DOMAIN components
                         THEN u[i].previous = components[entities[i]]
                         ELSE u[i].previous = NoRef
    BY <1>16, <2>3, ComponentChangesIs
  <2>5. w = ComponentChanges(entities, first)
    BY <1>6, <1>18a, <1>18b
  <2> QED  BY <2>4, <2>5
<1>19. /\ DOMAIN components' = DOMAIN components \cup {w[i].entity : i \in DOMAIN w}
       /\ \A e \in DOMAIN components' :
             /\ WritesOf(w, e) = {} => components'[e] = components[e]
             /\ WritesOf(w, e) # {} =>
                    \E i \in WritesOf(w, e) : /\ components'[e] = w[i].value
                                              /\ \A k \in WritesOf(w, e) : k <= i
  BY <1>7, <1>18, WithComponentsIs
<1>20. \A i \in DOMAIN w :
           EarlierWrites(w, i) =
               {j \in 1 .. i - 1 : entities[j] = entities[i]}
  <2>1. DOMAIN w = 1 .. Len(w) /\ Len(w) \in Nat
    BY <1>18, LenProperties
  <2>2. SUFFICES ASSUME NEW i \in DOMAIN w, NEW j \in 1 .. i - 1
        PROVE  j \in DOMAIN w
    BY <1>18 DEF EarlierWrites
  <2> QED  BY <2>1
<1>21. WritesSay(components, components', w, J, E)
  <2>1. ASSUME NEW i \in DOMAIN w
        PROVE  LET at(k) == <<Len(J) + 1, Len(E.components) + k>>
               IN  /\ w[i].value = at(i)
                   /\ EarlierWrites(w, i) # {} =>
                          \E j \in EarlierWrites(w, i) :
                              /\ w[i].previous = at(j)
                              /\ \A k \in EarlierWrites(w, i) : k <= j
                   /\ EarlierWrites(w, i) = {} =>
                          IF w[i].entity \in DOMAIN components
                          THEN w[i].previous = components[w[i].entity]
                          ELSE w[i].previous = NoRef
    <3>1. PICK earlier : earlier = {j \in 1 .. i - 1 : entities[j] = entities[i]}
      OBVIOUS
    <3>2. EarlierWrites(w, i) = earlier /\ w[i].entity = entities[i]
      BY <1>18, <1>20, <2>1, <3>1
    <3>3. /\ w[i].value = <<BoundaryId, first + i>>
          /\ earlier # {} =>
                 \E j \in earlier : /\ w[i].previous = <<BoundaryId, first + j>>
                                    /\ \A k \in earlier : k <= j
          /\ earlier = {} => IF entities[i] \in DOMAIN components
                             THEN w[i].previous = components[entities[i]]
                             ELSE w[i].previous = NoRef
      BY <1>18, <2>1, <3>1
    <3>4. BoundaryId = Len(J) + 1 /\ first = Len(E.components)
      BY <1>8, <1>18b
    <3> QED  BY <3>2, <3>3, <3>4
  <2> QED  BY <1>19, <2>1 DEF WritesSay
<1>22. PICK F : F = EntryOf(run')
  OBVIOUS
<1>23. /\ run'.changes = run.changes \o c /\ run'.components = run.components \o w
       /\ run' = [next EXCEPT !.changes = run'.changes, !.components = run'.components]
  <2>1. next.changes = run.changes /\ next.components = run.components
    BY DEF EntryOf
  <2>2. PICK x : x = [next EXCEPT !.changes = @ \o c]
    OBVIOUS
  <2>3. "changes" \in DOMAIN next /\ "components" \in DOMAIN next
    BY DEF IsRun, RunFields
  <2>4. run' = [x EXCEPT !.components = @ \o w]
    BY <1>7, <2>2
  <2>5. /\ x.changes = next.changes \o c /\ x.components = next.components
        /\ "components" \in DOMAIN x
    BY <2>2, <2>3
  <2>6. run'.changes = run.changes \o c /\ run'.components = run.components \o w
    BY <2>1, <2>4, <2>5
  <2> QED  BY <1>7, <2>1, <2>6
<1>24. /\ F \in Entry
       /\ F.changes = E.changes \o c /\ F.components = E.components \o w
  <2>1. E.changes \o c \in Seq(Change) /\ E.components \o w \in Seq(Write)
    BY <1>8, <1>13, <1>18, ConcatProperties
  <2> QED  BY <1>8, <1>22, <1>23, <2>1 DEF EntryOf, Entry
<1>25. RecordsReplay(after, Append(J, F)) /\ IndexNames(after, versions', Append(J, F))
  <2>1. Known(store) \subseteq Refs
    BY <1>9 DEF Typed
  <2> QED  BY <1>8, <1>9, <1>10, <1>13, <1>15, <1>24, <2>1, RecordsStayReplayed
<1>26. ComponentsReplay(components', Append(J, F)) /\ ValuesName(components', Append(J, F))
  BY <1>8, <1>9, <1>18, <1>21, <1>24, ComponentsStayReplayed
<1>27. \A e \in DOMAIN components' : e \in Known(after) /\ ~IsDeleted(after, e)
  <2>1. \A i \in DOMAIN w : w[i].entity \in ToSet(part.components)
    BY <1>18, <1>18a DEF ToSet
  <2>2. \A e \in DOMAIN components' : EntityExists(after, e)
    BY <1>7, <1>19, <2>1 DEF DependentsOk
  <2> QED  BY <2>2 DEF EntityExists
<1>28. Kept(store', components', versions', Append(boundaries, EntryOf(run')))
  BY <1>2, <1>7, <1>12, <1>22, <1>25, <1>26, <1>27 DEF Kept
<1> QED  BY <1>22, <1>23, <1>24, <1>28

-----------------------------------------------------------------------------
(* The steps of a boundary. *)

\* The state after a stage was committed, in the phase next to come.
LEMMA StageStep ==
    ASSUME BoundaryInv, run # Idle, NEW part, PartTyped(part), NEW prepared, NEW next,
           \/ prepared = Unprepared
           \/ /\ \E taken : prepared = Prepared(store, Bundle(part, AnyBoundary), taken)
              /\ DOMAIN Bundle(part, AnyBoundary) # {} =>
                     BundleOk(store, Bundle(part, AnyBoundary)),
           IsRun(next), next.changes = run.changes, next.components = run.components,
           next.saved = run.saved, next.phase \in {10, 12, 13, 14, 15},
           next.ordinary = NoWrites, WritesTyped(next.transitions),
           PartTyped(next.deferred), next.phase = 15 => next.deferred = NoWrites,
           ApplyStage(part, prepared, next), boundaries' = boundaries
    PROVE  BoundaryInv' /\ run' # Idle /\ run'.phase = next.phase
<1>1. EntryOf(next) = EntryOf(run)
  BY DEF EntryOf
<1>2. /\ Kept(store', components', versions', Append(boundaries, EntryOf(run')))
      /\ EntryOf(run') \in Entry
      /\ run' = [next EXCEPT !.changes = run'.changes, !.components = run'.components]
  BY <1>1, StageKeeps
<1>3. PICK x : x = [next EXCEPT !.changes = run'.changes]
  OBVIOUS
<1>4. /\ IsRun(x) /\ x.phase = next.phase /\ x.saved = next.saved
      /\ x.ordinary = next.ordinary /\ x.transitions = next.transitions
      /\ x.deferred = next.deferred
  BY <1>3 DEF IsRun, RunFields
<1>5. run' = [x EXCEPT !.components = run'.components]
  BY <1>2, <1>3
<1>6. /\ IsRun(run') /\ run'.phase = x.phase /\ run'.saved = x.saved
      /\ run'.ordinary = x.ordinary /\ run'.transitions = x.transitions
      /\ run'.deferred = x.deferred
  BY <1>4, <1>5 DEF IsRun, RunFields
<1>7. /\ IsRun(run') /\ run'.phase = next.phase /\ run'.saved = run.saved
      /\ run'.ordinary = NoWrites /\ run'.transitions = next.transitions
      /\ run'.deferred = next.deferred
  BY <1>4, <1>6
<1>8. run'.phase \in {10, 12, 13, 14, 15}
  BY <1>7
<1>9. run' # Idle
  BY <1>8, RunIsNotIdle
<1>10. Evidence' = Append(boundaries, EntryOf(run'))
  BY <1>9 DEF Evidence, EntryOf
<1>11. RunKept'
  <2>1. /\ run'.saved = [store |-> run'.saved.store, components |-> run'.saved.components,
                         versions |-> run'.saved.versions]
        /\ Kept(run'.saved.store, run'.saved.components, run'.saved.versions, boundaries')
    BY <1>7 DEF BoundaryInv, RunKept
  <2>2. /\ WritesTyped(run'.ordinary) /\ WritesTyped(run'.transitions)
        /\ PartTyped(run'.deferred)
    BY <1>7, PartsTyped
  <2>3. run'.phase \notin {7, 9, 11}
        /\ run'.phase \in {7, 9, 10, 11, 12, 13, 14, 15}
    BY <1>8
  <2>4. run'.phase = 15 => run'.deferred = NoWrites
    BY <1>7
  <2> QED  BY <1>2, <1>7, <2>1, <2>2, <2>3, <2>4 DEF RunKept
<1>12. boundaries' \in Seq(Entry)
  BY DEF BoundaryInv
<1> QED  BY <1>2, <1>7, <1>9, <1>10, <1>11, <1>12 DEF BoundaryInv

\* A boundary begins with nothing written.
LEMMA BeginKept == BoundaryInv /\ BeginBoundary => BoundaryInv'
<1>1. SUFFICES ASSUME BoundaryInv, BeginBoundary PROVE BoundaryInv'
  OBVIOUS
<1>2. PICK core : core = [store |-> store, components |-> components, versions |-> versions]
  OBVIOUS
<1>3. PICK overlay : overlay = [store |-> store, components |-> {}]
  OBVIOUS
<1>4. run' = [phase |-> 7, saved |-> core, visible |-> overlay, candidate |-> overlay,
              ordinary |-> NoWrites, transitions |-> NoWrites, deferred |-> NoWrites,
              prepared |-> Unprepared, changes |-> <<>>, components |-> <<>>, staged |-> 0]
      /\ run = Idle
      /\ store' = store /\ components' = components /\ versions' = versions
      /\ boundaries' = boundaries
  BY <1>1, <1>2, <1>3 DEF BeginBoundary
<1>5. /\ run'.phase = 7 /\ run'.saved = core
      /\ run'.ordinary = NoWrites /\ run'.transitions = NoWrites
      /\ run'.deferred = NoWrites /\ run'.changes = <<>> /\ run'.components = <<>>
  BY <1>4
<1>6. IsRun(run')
  BY <1>4 DEF IsRun, RunFields
<1>7. /\ core.store = store /\ core.components = components /\ core.versions = versions
      /\ core = [store |-> core.store, components |-> core.components,
                 versions |-> core.versions]
  BY <1>2
<1>8. Kept(store, components, versions, boundaries) /\ boundaries \in Seq(Entry)
  BY <1>1, <1>4 DEF BoundaryInv, Evidence
<1>9. run' # Idle
  BY <1>5, RunIsNotIdle
<1>10. EntryOf(run') = [changes |-> <<>>, components |-> <<>>]
       /\ Evidence' = Append(boundaries, EntryOf(run'))
  BY <1>4, <1>5, <1>9 DEF EntryOf, Evidence
<1>11. EntryOf(run') \in Entry
  BY <1>10, EmptySeq DEF Entry
<1>12. Kept(store', components', versions', Evidence')
  BY <1>4, <1>8, <1>10, NothingWritten
<1>13. RunKept'
  BY <1>4, <1>5, <1>6, <1>7, <1>8, <1>11, PartsTyped DEF RunKept
<1> QED  BY <1>4, <1>8, <1>12, <1>13 DEF BoundaryInv

\* A boundary ends with its evidence journaled, or with what it found.
LEMMA EndKept == BoundaryInv /\ (JournalBoundary \/ FailBoundary) => BoundaryInv'
<1>1. SUFFICES ASSUME BoundaryInv, JournalBoundary \/ FailBoundary PROVE BoundaryInv'
  OBVIOUS
<1>2. CASE JournalBoundary
  <2>1. run.phase = 15 /\ run' = Idle
        /\ boundaries' = Append(boundaries, EntryOf(run))
        /\ store' = store /\ components' = components /\ versions' = versions
    BY <1>2 DEF JournalBoundary, EntryOf
  <2>2. run # Idle
    BY <2>1, RunIsNotIdle
  <2>3. Evidence' = Evidence
    BY <2>1, <2>2, EvidenceRunning DEF Evidence
  <2>4. boundaries' \in Seq(Entry)
    <3>1. EntryOf(run) \in Entry /\ boundaries \in Seq(Entry)
      BY <1>1, <2>2 DEF BoundaryInv, RunKept
    <3> QED  BY <2>1, <3>1, AppendProperties
  <2> QED  BY <1>1, <2>1, <2>3, <2>4 DEF BoundaryInv
<1>3. CASE FailBoundary
  <2>1. run # Idle /\ run' = Idle /\ boundaries' = boundaries
        /\ store' = run.saved.store /\ components' = run.saved.components
        /\ versions' = run.saved.versions
    BY <1>3 DEF FailBoundary
  <2>2. Kept(run.saved.store, run.saved.components, run.saved.versions, boundaries)
        /\ boundaries \in Seq(Entry)
    BY <1>1, <2>1 DEF BoundaryInv, RunKept
  <2>3. Evidence' = boundaries
    BY <2>1 DEF Evidence
  <2> QED  BY <2>1, <2>2, <2>3 DEF BoundaryInv
<1> QED  BY <1>1, <1>2, <1>3

\* What was prepared for the writes of one visibility is ready for their part.
LEMMA ReadyIs ==
    ASSUME NEW writes, WritesTyped(writes), ReadyFor(writes)
    PROVE  LET bundle == Bundle(Part(writes, TRUE), AnyBoundary)
           IN  /\ \E taken : run.prepared = Prepared(store, bundle, taken)
               /\ DOMAIN bundle # {} => BundleOk(store, bundle)
               /\ run.visible.store = Applied(store, bundle)
               /\ run.visible.components = ToSet(Part(writes, TRUE).components)
<1>1. RecordsTyped(writes.records)
  BY DEF WritesTyped
<1>2. Bundle(Part(writes, TRUE), AnyBoundary) = Bundle(writes, SameBoundary)
  BY <1>1, BundleIs
<1> QED  BY <1>2 DEF ReadyFor

\* What is put off joins what earlier phases put off.
LEMMA DeferringIs ==
    ASSUME NEW writes, IsRun(run), WritesTyped(writes), PartTyped(run.deferred)
    PROVE  LET x == Deferring(writes)
           IN  /\ IsRun(x) /\ PartTyped(x.deferred)
               /\ x.changes = run.changes /\ x.components = run.components
               /\ x.saved = run.saved /\ x.phase = run.phase
               /\ x.ordinary = run.ordinary /\ x.transitions = run.transitions
<1>1. PICK d : d = Merged(run.deferred, Part(writes, FALSE))
  OBVIOUS
<1>2. PartTyped(d)
  BY <1>1, PartsTyped
<1>3. PICK x : x = [run EXCEPT !.deferred = d]
  OBVIOUS
<1>4. x = Deferring(writes)
  BY <1>1, <1>3 DEF Deferring
<1>5. /\ IsRun(x) /\ x.deferred = d
      /\ x.changes = run.changes /\ x.components = run.components
      /\ x.saved = run.saved /\ x.phase = run.phase
      /\ x.ordinary = run.ordinary /\ x.transitions = run.transitions
  BY <1>3 DEF IsRun, RunFields
<1> QED  BY <1>2, <1>4, <1>5

\* Phase 9 commits what phase 7 staged.
LEMMA CommitDeltasKept ==
    BoundaryInv /\ CommitDeltas => BoundaryInv' /\ run' # Idle /\ run'.phase = 10
<1>1. SUFFICES ASSUME BoundaryInv, CommitDeltas
      PROVE  BoundaryInv' /\ run' # Idle /\ run'.phase = 10
  OBVIOUS
<1>2. PICK part : part = Part(run.ordinary, TRUE)
  OBVIOUS
<1>3. PICK d : d = Part(run.ordinary, FALSE)
  OBVIOUS
<1>4. PICK x : x = [run EXCEPT !.phase = 10, !.prepared = Unprepared]
  OBVIOUS
<1>5. PICK next : next = [x EXCEPT !.ordinary = NoWrites, !.deferred = d]
  OBVIOUS
<1>6. run.phase = 9 /\ run # Idle /\ boundaries' = boundaries
  BY <1>1, RunIsNotIdle DEF CommitDeltas
<1>7. ApplyStage(part, run.prepared, next)
  BY <1>1, <1>2, <1>3, <1>4, <1>5 DEF CommitDeltas
<1>8. /\ IsRun(run) /\ WritesTyped(run.ordinary) /\ WritesTyped(run.transitions)
      /\ ReadyFor(run.ordinary)
  BY <1>1, <1>6 DEF BoundaryInv, RunKept
<1>9. /\ IsRun(x) /\ x.phase = 10 /\ x.saved = run.saved
      /\ x.changes = run.changes /\ x.components = run.components
      /\ x.transitions = run.transitions
  BY <1>4, <1>8 DEF IsRun, RunFields
<1>10. /\ IsRun(next) /\ next.phase = x.phase /\ next.saved = x.saved
       /\ next.changes = x.changes /\ next.components = x.components
       /\ next.transitions = x.transitions
       /\ next.ordinary = NoWrites /\ next.deferred = d
  BY <1>5, <1>9 DEF IsRun, RunFields
<1>11. PartTyped(part) /\ PartTyped(d)
  BY <1>2, <1>3, <1>8, PartsTyped
<1>12. LET bundle == Bundle(part, AnyBoundary)
       IN  /\ \E taken : run.prepared = Prepared(store, bundle, taken)
           /\ DOMAIN bundle # {} => BundleOk(store, bundle)
  BY <1>2, <1>8, ReadyIs
<1>13. /\ next.changes = run.changes /\ next.components = run.components
       /\ next.saved = run.saved /\ next.phase = 10
       /\ WritesTyped(next.transitions) /\ PartTyped(next.deferred)
  BY <1>8, <1>9, <1>10, <1>11
<1>14. next.phase \in {10, 12, 13, 14, 15} /\ (next.phase = 15 => next.deferred = NoWrites)
  BY <1>13
<1> QED  BY <1>1, <1>6, <1>7, <1>10, <1>11, <1>12, <1>13, <1>14, StageStep

\* Phase 11 commits what phase 10 staged.
LEMMA CommitTransitionsKept ==
    BoundaryInv /\ CommitTransitions => BoundaryInv' /\ run' # Idle /\ run'.phase = 12
<1>1. SUFFICES ASSUME BoundaryInv, CommitTransitions
      PROVE  BoundaryInv' /\ run' # Idle /\ run'.phase = 12
  OBVIOUS
<1>2. PICK part : part = Part(run.transitions, TRUE)
  OBVIOUS
<1>3. PICK y : y = Deferring(run.transitions)
  OBVIOUS
<1>4. PICK x : x = [y EXCEPT !.phase = 12, !.prepared = Unprepared]
  OBVIOUS
<1>5. PICK next : next = [x EXCEPT !.transitions = NoWrites]
  OBVIOUS
<1>6. run.phase = 11 /\ run # Idle /\ boundaries' = boundaries
  BY <1>1, RunIsNotIdle DEF CommitTransitions
<1>7. ApplyStage(part, run.prepared, next)
  BY <1>1, <1>2, <1>3, <1>4, <1>5 DEF CommitTransitions
<1>8. /\ IsRun(run) /\ WritesTyped(run.transitions) /\ PartTyped(run.deferred)
      /\ ReadyFor(run.transitions) /\ run.ordinary = NoWrites
  BY <1>1, <1>6 DEF BoundaryInv, RunKept
<1>9. /\ IsRun(y) /\ PartTyped(y.deferred) /\ y.saved = run.saved
      /\ y.changes = run.changes /\ y.components = run.components
      /\ y.ordinary = run.ordinary
  BY <1>3, <1>8, DeferringIs
<1>10. /\ IsRun(x) /\ x.phase = 12 /\ x.saved = y.saved
       /\ x.changes = y.changes /\ x.components = y.components
       /\ x.ordinary = y.ordinary /\ x.deferred = y.deferred
  BY <1>4, <1>9 DEF IsRun, RunFields
<1>11. /\ IsRun(next) /\ next.phase = x.phase /\ next.saved = x.saved
       /\ next.changes = x.changes /\ next.components = x.components
       /\ next.ordinary = x.ordinary /\ next.deferred = x.deferred
       /\ next.transitions = NoWrites
  BY <1>5, <1>10 DEF IsRun, RunFields
<1>12. PartTyped(part)
  BY <1>2, <1>8, PartsTyped
<1>13. LET bundle == Bundle(part, AnyBoundary)
       IN  /\ \E taken : run.prepared = Prepared(store, bundle, taken)
           /\ DOMAIN bundle # {} => BundleOk(store, bundle)
  BY <1>2, <1>8, ReadyIs
<1>14. /\ next.changes = run.changes /\ next.components = run.components
       /\ next.saved = run.saved /\ next.phase = 12 /\ next.ordinary = NoWrites
       /\ WritesTyped(next.transitions) /\ PartTyped(next.deferred)
  BY <1>8, <1>9, <1>10, <1>11, PartsTyped
<1>15. next.phase \in {10, 12, 13, 14, 15} /\ (next.phase = 15 => next.deferred = NoWrites)
  BY <1>14
<1> QED  BY <1>1, <1>6, <1>7, <1>11, <1>12, <1>13, <1>14, <1>15, StageStep

\* Phases 12 and 13 commit what they propose.
LEMMA ProposeLateKept ==
    BoundaryInv /\ ProposeLate => BoundaryInv' /\ run' # Idle /\ run'.phase = run.phase + 1
<1>1. SUFFICES ASSUME BoundaryInv, ProposeLate
      PROVE  BoundaryInv' /\ run' # Idle /\ run'.phase = run.phase + 1
  OBVIOUS
<1>2. PICK writes \in Proposals :
          ApplyStage(Part(writes, TRUE), Unprepared,
                     [Deferring(writes) EXCEPT !.phase = @ + 1, !.staged = @ + Size(writes)])
  BY <1>1 DEF ProposeLate
<1>3. run.phase \in {12, 13} /\ run # Idle /\ boundaries' = boundaries
  BY <1>1, RunIsNotIdle DEF ProposeLate
<1>4. PICK part : part = Part(writes, TRUE)
  OBVIOUS
<1>5. PICK y : y = Deferring(writes)
  OBVIOUS
<1>6. PICK next : next = [y EXCEPT !.phase = @ + 1, !.staged = @ + Size(writes)]
  OBVIOUS
<1>7. ApplyStage(part, Unprepared, next)
  BY <1>2, <1>4, <1>5, <1>6
<1>8. /\ IsRun(run) /\ WritesTyped(run.transitions) /\ PartTyped(run.deferred)
      /\ run.ordinary = NoWrites /\ Typed(store)
  BY <1>1, <1>3 DEF BoundaryInv, RunKept, Kept
<1>9. WritesTyped(writes) /\ PartTyped(part)
  BY <1>2, <1>4, <1>8, ProposalsTyped, PartsTyped
<1>10. /\ IsRun(y) /\ PartTyped(y.deferred) /\ y.saved = run.saved /\ y.phase = run.phase
       /\ y.changes = run.changes /\ y.components = run.components
       /\ y.ordinary = run.ordinary /\ y.transitions = run.transitions
  BY <1>5, <1>8, <1>9, DeferringIs
<1>11. /\ IsRun(next) /\ next.phase = y.phase + 1 /\ next.saved = y.saved
       /\ next.changes = y.changes /\ next.components = y.components
       /\ next.ordinary = y.ordinary /\ next.deferred = y.deferred
       /\ next.transitions = y.transitions
  BY <1>6, <1>10 DEF IsRun, RunFields
<1>12. /\ next.changes = run.changes /\ next.components = run.components
       /\ next.saved = run.saved /\ next.phase = run.phase + 1 /\ next.ordinary = NoWrites
       /\ WritesTyped(next.transitions) /\ PartTyped(next.deferred)
  BY <1>8, <1>10, <1>11
<1>13. next.phase \in {10, 12, 13, 14, 15} /\ next.phase # 15
  BY <1>3, <1>12
<1> QED
  <2>1. BoundaryInv' /\ run' # Idle /\ run'.phase = next.phase
    BY <1>1, <1>3, <1>7, <1>9, <1>11, <1>12, <1>13, StageStep
  <2> QED  BY <1>12, <2>1

\* What every phase put off is committed at the end.
LEMMA CommitDeferredKept ==
    BoundaryInv /\ CommitDeferred => BoundaryInv' /\ run' # Idle /\ run'.phase = 15
<1>1. SUFFICES ASSUME BoundaryInv, CommitDeferred
      PROVE  BoundaryInv' /\ run' # Idle /\ run'.phase = 15
  OBVIOUS
<1>2. PICK part : part = run.deferred
  OBVIOUS
<1>3. PICK next : next = [run EXCEPT !.phase = 15, !.deferred = NoWrites]
  OBVIOUS
<1>4. run.phase = 14 /\ run # Idle /\ boundaries' = boundaries
  BY <1>1, RunIsNotIdle DEF CommitDeferred
<1>5. ApplyStage(part, Unprepared, next)
  BY <1>1, <1>2, <1>3 DEF CommitDeferred
<1>6. /\ IsRun(run) /\ WritesTyped(run.transitions) /\ PartTyped(run.deferred)
      /\ run.ordinary = NoWrites
  BY <1>1, <1>4 DEF BoundaryInv, RunKept
<1>7. /\ IsRun(next) /\ next.phase = 15 /\ next.saved = run.saved
      /\ next.changes = run.changes /\ next.components = run.components
      /\ next.ordinary = run.ordinary /\ next.deferred = NoWrites
      /\ next.transitions = run.transitions
  BY <1>3, <1>6 DEF IsRun, RunFields
<1>8. PartTyped(part) /\ PartTyped(next.deferred) /\ WritesTyped(next.transitions)
      /\ next.ordinary = NoWrites /\ next.phase \in {10, 12, 13, 14, 15}
  BY <1>2, <1>6, <1>7, PartsTyped
<1> QED  BY <1>1, <1>4, <1>5, <1>7, <1>8, StageStep

\* Phases 7 and 10 change no state: they show and prepare what they staged.
StagesOnly(phase) ==
    /\ run # Idle /\ run' # Idle /\ run'.phase = phase
    /\ store' = store /\ components' = components /\ versions' = versions
    /\ boundaries' = boundaries
    /\ IsRun(run') /\ run'.saved = run.saved /\ run'.deferred = run.deferred
    /\ run'.changes = run.changes /\ run'.components = run.components

\* A step that stages only keeps the evidence.
LEMMA StagingKeeps ==
    ASSUME BoundaryInv, NEW phase \in {9, 11}, StagesOnly(phase),
           WritesTyped(run'.ordinary), WritesTyped(run'.transitions),
           phase = 9 => store = run.saved.store /\ ReadyFor(run.ordinary)',
           phase = 11 => run'.ordinary = NoWrites /\ ReadyFor(run.transitions)'
    PROVE  BoundaryInv'
<1>1. EntryOf(run') = EntryOf(run)
  BY DEF EntryOf, StagesOnly
<1>2. Evidence' = Evidence
  BY <1>1 DEF Evidence, StagesOnly, EntryOf
<1>3. RunKept'
  <2>1. IsRun(run') /\ run'.phase = phase
    BY DEF StagesOnly
  <2>2. EntryOf(run') \in Entry /\ PartTyped(run'.deferred)
    BY <1>1 DEF BoundaryInv, RunKept, StagesOnly
  <2>3. /\ run'.saved = [store |-> run'.saved.store, components |-> run'.saved.components,
                         versions |-> run'.saved.versions]
        /\ Kept(run'.saved.store, run'.saved.components, run'.saved.versions, boundaries')
    BY DEF BoundaryInv, RunKept, StagesOnly
  <2>4. phase = 9 => store' = run'.saved.store
    BY DEF StagesOnly
  <2> QED  BY <2>1, <2>2, <2>3, <2>4 DEF RunKept
<1> QED  BY <1>2, <1>3 DEF BoundaryInv, StagesOnly

\* Phase 7 stages on the state the boundary found.
LEMMA ProposeDeltasKept ==
    BoundaryInv /\ ProposeDeltas => BoundaryInv' /\ StagesOnly(9)
<1>1. SUFFICES ASSUME BoundaryInv, ProposeDeltas PROVE BoundaryInv' /\ StagesOnly(9)
  OBVIOUS
<1>2. run.phase = 7 /\ run # Idle
  BY <1>1, RunIsNotIdle DEF ProposeDeltas
<1>3. /\ IsRun(run) /\ WritesTyped(run.transitions) /\ store = run.saved.store
      /\ Typed(store)
  BY <1>1, <1>2 DEF BoundaryInv, RunKept, Kept
<1>4. PICK writes \in Proposals :
          LET base == run.saved.store
              all == Bundle(writes, AnyBoundary)
              same == Bundle(writes, SameBoundary)
              taken == DOMAIN all = DOMAIN same
              candidate == Applied(base, all)
              visible == Applied(base, same)
              entities == DOMAIN writes.components
              visibleEntities == ToSet(Part(writes, TRUE).components)
          IN  /\ OverlayOk(base, same)
              /\ run' = [run EXCEPT
                          !.phase = 9,
                          !.staged = @ + Size(writes),
                          !.visible = [store |-> visible, components |-> visibleEntities],
                          !.candidate = [store |-> candidate, components |-> entities],
                          !.prepared = Prepared(base, same, taken),
                          !.ordinary = writes]
              /\ UNCHANGED <<store, components, versions, boundaries>>
  BY <1>1 DEF ProposeDeltas
<1>5. PICK same : same = Bundle(writes, SameBoundary)
  OBVIOUS
<1>6. PICK taken : taken = (DOMAIN Bundle(writes, AnyBoundary) = DOMAIN same)
  OBVIOUS
<1>7. PICK shown : shown = [store |-> Applied(store, same),
                            components |-> ToSet(Part(writes, TRUE).components)]
  OBVIOUS
<1>8. PICK candidate : candidate = [store |-> Applied(store, Bundle(writes, AnyBoundary)),
                                    components |-> DOMAIN writes.components]
  OBVIOUS
<1>9. PICK x : x = [run EXCEPT !.phase = 9, !.staged = @ + Size(writes), !.visible = shown]
  OBVIOUS
<1>10. run' = [x EXCEPT !.candidate = candidate, !.prepared = Prepared(store, same, taken),
                        !.ordinary = writes]
  BY <1>3, <1>4, <1>5, <1>6, <1>7, <1>8, <1>9
<1>11. /\ IsRun(x) /\ x.phase = 9 /\ x.visible = shown /\ x.saved = run.saved
       /\ x.changes = run.changes /\ x.components = run.components
       /\ x.transitions = run.transitions /\ x.deferred = run.deferred
  BY <1>3, <1>9 DEF IsRun, RunFields
<1>12. /\ IsRun(run') /\ run'.phase = x.phase /\ run'.visible = x.visible
       /\ run'.saved = x.saved /\ run'.changes = x.changes
       /\ run'.components = x.components /\ run'.transitions = x.transitions
       /\ run'.deferred = x.deferred
       /\ run'.prepared = Prepared(store, same, taken) /\ run'.ordinary = writes
  BY <1>10, <1>11 DEF IsRun, RunFields
<1>13. StagesOnly(9)
  <2>1. run' # Idle
    BY <1>11, <1>12, RunIsNotIdle
  <2> QED  BY <1>2, <1>4, <1>11, <1>12, <2>1 DEF StagesOnly
<1>14. ReadyFor(run.ordinary)'
  <2>1. DOMAIN same # {} => BundleOk(store, same)
    BY <1>3, <1>4, <1>5 DEF OverlayOk
  <2>2. store' = store
    BY <1>4
  <2>3. run'.visible.store = Applied(store, same)
        /\ run'.visible.components = ToSet(Part(writes, TRUE).components)
    BY <1>7, <1>11, <1>12
  <2> QED  BY <1>5, <1>12, <2>1, <2>2, <2>3 DEF ReadyFor
<1>15. WritesTyped(run'.ordinary) /\ WritesTyped(run'.transitions)
  BY <1>3, <1>4, <1>11, <1>12, ProposalsTyped
<1> QED  BY <1>1, <1>3, <1>13, <1>14, <1>15, StagingKeeps

\* Phase 10 stages on the state phase 9 left.
LEMMA EvaluateKept ==
    BoundaryInv /\ EvaluateCandidates => BoundaryInv' /\ StagesOnly(11)
<1>1. SUFFICES ASSUME BoundaryInv, EvaluateCandidates PROVE BoundaryInv' /\ StagesOnly(11)
  OBVIOUS
<1>2. run.phase = 10 /\ run # Idle
  BY <1>1, RunIsNotIdle DEF EvaluateCandidates
<1>3. IsRun(run) /\ run.ordinary = NoWrites /\ Typed(store)
  BY <1>1, <1>2 DEF BoundaryInv, RunKept, Kept
<1>4. PICK writes \in Proposals :
          LET same == Bundle(writes, SameBoundary)
              visibleEntities == ToSet(Part(writes, TRUE).components)
          IN  /\ OverlayOk(store, same)
              /\ run' = [run EXCEPT
                          !.phase = 11,
                          !.staged = @ + Size(writes),
                          !.visible = [store |-> Applied(store, same),
                                       components |-> visibleEntities],
                          !.prepared = PrepareTransitions(writes),
                          !.transitions = writes]
              /\ UNCHANGED <<store, components, versions, boundaries>>
  BY <1>1 DEF EvaluateCandidates
<1>5. PICK same : same = Bundle(writes, SameBoundary)
  OBVIOUS
<1>6. PICK shown : shown = [store |-> Applied(store, same),
                            components |-> ToSet(Part(writes, TRUE).components)]
  OBVIOUS
<1>7. PrepareTransitions(writes) = Prepared(store, same, FALSE)
  BY <1>5 DEF PrepareTransitions
<1>8. PICK x : x = [run EXCEPT !.phase = 11, !.staged = @ + Size(writes), !.visible = shown]
  OBVIOUS
<1>9. run' = [x EXCEPT !.prepared = Prepared(store, same, FALSE), !.transitions = writes]
  BY <1>4, <1>5, <1>6, <1>7, <1>8
<1>10. /\ IsRun(x) /\ x.phase = 11 /\ x.visible = shown /\ x.saved = run.saved
       /\ x.changes = run.changes /\ x.components = run.components
       /\ x.ordinary = run.ordinary /\ x.deferred = run.deferred
  BY <1>3, <1>8 DEF IsRun, RunFields
<1>11. /\ IsRun(run') /\ run'.phase = x.phase /\ run'.visible = x.visible
       /\ run'.saved = x.saved /\ run'.changes = x.changes
       /\ run'.components = x.components /\ run'.ordinary = x.ordinary
       /\ run'.deferred = x.deferred
       /\ run'.prepared = Prepared(store, same, FALSE) /\ run'.transitions = writes
  BY <1>9, <1>10 DEF IsRun, RunFields
<1>12. StagesOnly(11)
  <2>1. run' # Idle
    BY <1>10, <1>11, RunIsNotIdle
  <2> QED  BY <1>2, <1>4, <1>10, <1>11, <2>1 DEF StagesOnly
<1>13. ReadyFor(run.transitions)'
  <2>1. DOMAIN same # {} => BundleOk(store, same)
    BY <1>4, <1>5 DEF OverlayOk
  <2>2. store' = store
    BY <1>4
  <2>3. run'.visible.store = Applied(store, same)
        /\ run'.visible.components = ToSet(Part(writes, TRUE).components)
    BY <1>6, <1>10, <1>11
  <2> QED  BY <1>5, <1>11, <2>1, <2>2, <2>3 DEF ReadyFor
<1>14. WritesTyped(run'.ordinary) /\ WritesTyped(run'.transitions)
       /\ run'.ordinary = NoWrites
  BY <1>3, <1>4, <1>10, <1>11, ProposalsTyped, PartsTyped
<1> QED  BY <1>1, <1>12, <1>13, <1>14, StagingKeeps

-----------------------------------------------------------------------------
(* The theorems. *)

\* Every step keeps the invariant.
LEMMA StepKeepsStages == BoundaryInv /\ [Next]_vars => BoundaryInv'
<1>1. SUFFICES ASSUME BoundaryInv, [Next]_vars PROVE BoundaryInv'
  OBVIOUS
<1>2. CASE Next
  BY <1>1, <1>2, BeginKept, ProposeDeltasKept, CommitDeltasKept, EvaluateKept,
     CommitTransitionsKept, ProposeLateKept, CommitDeferredKept, EndKept DEF Next
<1>3. CASE UNCHANGED vars
  <2>1. /\ boundaries' = boundaries /\ store' = store /\ components' = components
        /\ versions' = versions /\ run' = run
    BY <1>3 DEF vars
  <2>2. Evidence' = Evidence
    BY <2>1 DEF Evidence
  <2>3. RunKept => RunKept'
    BY <2>1 DEF RunKept, ReadyFor
  <2> QED  BY <1>1, <2>1, <2>2, <2>3 DEF BoundaryInv
<1> QED  BY <1>1, <1>2, <1>3

\* Whatever systems write in the phases of whatever boundaries, and wherever one of
\* them fails, the store after every stage is one that a load accepts, no component
\* belongs to an entity that is gone, and the evidence rebuilds the records, the
\* components and the index of current versions (settlement.rs, phases 7 to 15).
THEOREM StagesKeepSound == Spec => []StagesSound
<1>1. Init => BoundaryInv
  BY InitKept
<1>2. BoundaryInv /\ [Next]_vars => BoundaryInv'
  BY StepKeepsStages
<1>3. BoundaryInv => StagesSound
  BY InvSound
<1> QED  BY <1>1, <1>2, <1>3, PTL DEF Spec

\* A stage that was prepared leaves what was shown of it.
LEMMA CommitsShown ==
    ASSUME BoundaryInv, run # Idle, NEW writes, WritesTyped(writes), ReadyFor(writes),
           NEW next, ApplyStage(Part(writes, TRUE), run.prepared, next)
    PROVE  /\ store' = run.visible.store
           /\ DOMAIN components' = DOMAIN components \cup run.visible.components
<1>1. PICK part : part = Part(writes, TRUE)
  OBVIOUS
<1>2. PICK bundle : bundle = Bundle(part, AnyBoundary)
  OBVIOUS
<1>3. /\ \E taken : run.prepared = Prepared(store, bundle, taken)
      /\ DOMAIN bundle # {} => BundleOk(store, bundle)
      /\ run.visible.store = Applied(store, bundle)
      /\ run.visible.components = ToSet(part.components)
  BY <1>1, <1>2, ReadyIs
<1>4. PICK w : w = ComponentChanges(part.components, Len(run.components))
  OBVIOUS
<1>5. /\ StageOk(run.prepared, bundle)
      /\ store' = StageStore(run.prepared, bundle)
      /\ components' = WithComponents(w)
  BY <1>1, <1>2, <1>4 DEF ApplyStage
<1>6. Shaped(store)
  BY DEF BoundaryInv, Kept
<1>7. store' = run.visible.store
  <2>1. CASE DOMAIN bundle = {}
    <3>1. StageStore(run.prepared, bundle) = store
      BY <2>1 DEF StageStore
    <3>2. Applied(store, bundle) = store
      BY <1>6, <2>1, AppliedShaped
    <3> QED  BY <1>3, <1>5, <3>1, <3>2
  <2>2. CASE DOMAIN bundle # {}
    <3>1. StageStore(run.prepared, bundle) = Applied(store, bundle)
      BY <1>3, <1>5, <2>2, StageLeaves
    <3> QED  BY <1>3, <1>5, <3>1
  <2> QED  BY <2>1, <2>2
<1>8. DOMAIN w = DOMAIN part.components
      /\ \A i \in DOMAIN w : w[i].entity = part.components[i]
  BY <1>4 DEF ComponentChanges
<1>9. DOMAIN components' = DOMAIN components \cup {w[i].entity : i \in DOMAIN w}
  BY <1>5 DEF WithComponents
<1>10. {w[i].entity : i \in DOMAIN w} = ToSet(part.components)
  BY <1>8 DEF ToSet
<1> QED  BY <1>3, <1>7, <1>9, <1>10

\* Phases 9 and 11 commit what phases 8 and 10 were shown.
LEMMA StepShows == BoundaryInv /\ Next => CommitsWhatWasShown
<1>1. SUFFICES ASSUME BoundaryInv, Next, run.phase \in {9, 11}, run'.phase = run.phase + 1
      PROVE  /\ store' = run.visible.store
             /\ DOMAIN components' = DOMAIN components \cup run.visible.components
  BY DEF CommitsWhatWasShown
<1>2. run # Idle /\ run' # Idle
  <2>1. run.phase \in {7, 9, 10, 11, 12, 13, 14, 15}
        /\ run'.phase \in {7, 9, 10, 11, 12, 13, 14, 15}
    BY <1>1
  <2> QED  BY <2>1, RunIsNotIdle
<1>3. RunKept
  BY <1>1, <1>2 DEF BoundaryInv
<1>4. CASE CommitDeltas
  <2>1. run.phase = 9
    BY <1>4 DEF CommitDeltas
  <2>2. WritesTyped(run.ordinary) /\ ReadyFor(run.ordinary)
    BY <1>3, <2>1 DEF RunKept
  <2>3. PICK next : next = [run EXCEPT !.phase = 10, !.prepared = Unprepared,
                                       !.ordinary = NoWrites,
                                       !.deferred = Part(run.ordinary, FALSE)]
    OBVIOUS
  <2>4. ApplyStage(Part(run.ordinary, TRUE), run.prepared, next)
    BY <1>4, <2>3 DEF CommitDeltas
  <2> QED  BY <1>1, <1>2, <2>2, <2>4, CommitsShown
<1>5. CASE CommitTransitions
  <2>1. run.phase = 11
    BY <1>5 DEF CommitTransitions
  <2>2. WritesTyped(run.transitions) /\ ReadyFor(run.transitions)
    BY <1>3, <2>1 DEF RunKept
  <2>3. PICK next : next = [Deferring(run.transitions) EXCEPT
                               !.phase = 12, !.prepared = Unprepared,
                               !.transitions = NoWrites]
    OBVIOUS
  <2>4. ApplyStage(Part(run.transitions, TRUE), run.prepared, next)
    BY <1>5, <2>3 DEF CommitTransitions
  <2> QED  BY <1>1, <1>2, <2>2, <2>4, CommitsShown
<1>6. ~BeginBoundary /\ ~JournalBoundary /\ ~FailBoundary
  BY <1>2 DEF BeginBoundary, JournalBoundary, FailBoundary
<1>7. ~ProposeDeltas /\ ~EvaluateCandidates /\ ~ProposeLate /\ ~CommitDeferred
  <2>1. /\ ProposeDeltas => run.phase = 7
        /\ CommitDeferred => run.phase = 14
    BY DEF ProposeDeltas, CommitDeferred
  <2>2. EvaluateCandidates => run.phase = 10
    BY DEF EvaluateCandidates
  <2>3. ProposeLate => run.phase \in {12, 13}
    BY DEF ProposeLate
  <2> QED  BY <1>1, <2>1, <2>2, <2>3
<1> QED  BY <1>1, <1>4, <1>5, <1>6, <1>7 DEF Next

\* A boundary that ends has committed everything it put off, or is undone.
LEMMA StepEnds == BoundaryInv /\ Next => EndsWholeOrUndone
<1>1. SUFFICES ASSUME BoundaryInv, Next, run # Idle, run' = Idle
      PROVE  \/ boundaries' # boundaries /\ run.deferred = NoWrites
                /\ run.ordinary = NoWrites
             \/ /\ boundaries' = boundaries
                /\ [store |-> store', components |-> components', versions |-> versions']
                     = run.saved
  BY DEF EndsWholeOrUndone
<1>2. RunKept
  BY <1>1 DEF BoundaryInv
<1>3. CASE JournalBoundary
  <2>1. run.phase = 15 /\ boundaries' = Append(boundaries, EntryOf(run))
    BY <1>3 DEF JournalBoundary, EntryOf
  <2>2. run.deferred = NoWrites /\ run.ordinary = NoWrites
    BY <1>2, <2>1 DEF RunKept
  <2>3. EntryOf(run) \in Entry /\ boundaries \in Seq(Entry)
    BY <1>1, <1>2 DEF RunKept, BoundaryInv
  <2>4. boundaries' # boundaries
    <3>1. Len(boundaries') = Len(boundaries) + 1 /\ Len(boundaries) \in Nat
      BY <2>1, <2>3, AppendProperties, LenProperties
    <3> QED  BY <3>1
  <2> QED  BY <2>2, <2>4
<1>4. CASE FailBoundary
  <2>1. /\ boundaries' = boundaries /\ store' = run.saved.store
        /\ components' = run.saved.components /\ versions' = run.saved.versions
    BY <1>4 DEF FailBoundary
  <2>2. run.saved = [store |-> run.saved.store, components |-> run.saved.components,
                     versions |-> run.saved.versions]
    BY <1>2 DEF RunKept
  <2> QED  BY <2>1, <2>2
<1>5. ~BeginBoundary
  BY <1>1 DEF BeginBoundary
<1>6. ~ProposeDeltas /\ ~EvaluateCandidates /\ ~CommitDeltas /\ ~CommitTransitions
      /\ ~ProposeLate /\ ~CommitDeferred
  BY <1>1, ProposeDeltasKept, EvaluateKept, CommitDeltasKept, CommitTransitionsKept,
     ProposeLateKept, CommitDeferredKept DEF StagesOnly
<1> QED  BY <1>1, <1>3, <1>4, <1>5, <1>6 DEF Next

\* What systems of phase 8 read is what phase 9 commits, what phase 10 validated is what
\* phase 11 commits, although the stage is not applied again; and no boundary ends with
\* a write it put off lost, or with a part of its writes left when it failed.
THEOREM BoundariesWhole == Spec => ShownOrUndone
<1>1. Init => BoundaryInv
  BY InitKept
<1>2. BoundaryInv /\ [Next]_vars => BoundaryInv'
  BY StepKeepsStages
<1>3. BoundaryInv /\ [Next]_vars => [CommitsWhatWasShown /\ EndsWholeOrUndone]_vars
  BY StepShows, StepEnds
<1> QED  BY <1>1, <1>2, <1>3, PTL DEF Spec, ShownOrUndone
=============================================================================
