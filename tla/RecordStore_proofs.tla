-------------------------- MODULE RecordStore_proofs --------------------------
(***************************************************************************)
(* Lemmas about the store of domain records: applying an accepted bundle   *)
(* keeps its types and its indexes, and validating only the records that   *)
(* the bundle can affect keeps the whole store valid.                      *)
(*                                                                         *)
(* The argument: `Affected` is closed under both indexes, so a record      *)
(* outside it refers only to records outside it, and those are the ones    *)
(* the bundle left alone.  A cycle of successors that avoids the changed   *)
(* records was there before; one through a changed record lies in the      *)
(* chain that was validated.                                               *)
(***************************************************************************)
EXTENDS RecordStore, TLAPS

(* The types of a store.                                                    *)
Typed(s) ==
    /\ Known(s) \subseteq Refs
    /\ \A r \in Known(s) : s.records[r] \in Record
    /\ s.reverse \cup s.predecessors \subseteq Refs \X Refs

(* Its indexes are those a cold load computes from the records.             *)
Exact(s) ==
    /\ s.reverse = UNION {ReversePairs(r, s.records[r]) : r \in Known(s)}
    /\ s.predecessors =
          UNION {PredecessorPairs(r, s.records[r]) : r \in Known(s)}

(* What a mutation carries, whatever its expected version.                  *)
MutationTyped(m) ==
    /\ m.op \in {"create", "update", "retire", "delete"}
    /\ m.op \in {"create", "update"} => m.references \subseteq Refs
    /\ m.op = "retire" => m.successor \in Refs \cup {NoRef}

(* A bundle that can be asked of the store, and that it accepts.            *)
BundleTyped(bundle) ==
    /\ DOMAIN bundle \subseteq Refs
    /\ \A r \in DOMAIN bundle : MutationTyped(bundle[r])

----------------------------------------------------------------------------
(* The fields of a store after records are written.                         *)
LEMMA WithRecordsIs ==
    ASSUME NEW s, NEW written
    PROVE  LET t == WithRecords(s, written)
               replaced == DOMAIN written \cap Known(s)
           IN  /\ Known(t) = Known(s) \cup DOMAIN written
               /\ \A r \in DOMAIN written : t.records[r] = written[r]
               /\ \A r \in Known(s) \ DOMAIN written : t.records[r] = s.records[r]
               /\ t.reverse =
                    (s.reverse \ UNION {ReversePairs(r, s.records[r]) : r \in replaced})
                      \cup UNION {ReversePairs(r, written[r]) : r \in DOMAIN written}
               /\ t.predecessors =
                    (s.predecessors
                       \ UNION {PredecessorPairs(r, s.records[r]) : r \in replaced})
                      \cup UNION {PredecessorPairs(r, written[r]) : r \in DOMAIN written}
BY DEF WithRecords, Known

(* An index pair names its source, so two sources share none.               *)
LEMMA PairsNameSource ==
    ASSUME NEW r, NEW record
    PROVE  /\ \A p \in ReversePairs(r, record) : p[2] = r
           /\ \A p \in PredecessorPairs(r, record) : p[2] = r
BY DEF ReversePairs, PredecessorPairs

(* Writing records keeps the indexes exact (WithRecords).                   *)
LEMMA IndexesStayExact ==
    ASSUME NEW s, NEW written, Exact(s)
    PROVE  Exact(WithRecords(s, written))
<1>1. PICK t : t = WithRecords(s, written)
  OBVIOUS
<1>2. /\ Known(t) = Known(s) \cup DOMAIN written
      /\ \A r \in DOMAIN written : t.records[r] = written[r]
      /\ \A r \in Known(s) \ DOMAIN written : t.records[r] = s.records[r]
  BY <1>1, WithRecordsIs
<1>3. t.reverse = UNION {ReversePairs(r, t.records[r]) : r \in Known(t)}
  <2>1. t.reverse =
          (s.reverse \ UNION {ReversePairs(r, s.records[r]) :
                                r \in DOMAIN written \cap Known(s)})
            \cup UNION {ReversePairs(r, written[r]) : r \in DOMAIN written}
    BY <1>1, WithRecordsIs
  <2>2. s.reverse = UNION {ReversePairs(r, s.records[r]) : r \in Known(s)}
    BY DEF Exact
  <2>3. ASSUME NEW p \in t.reverse
        PROVE  \E r \in Known(t) : p \in ReversePairs(r, t.records[r])
    BY <1>2, <2>1, <2>2
  <2>4. ASSUME NEW r \in Known(t), NEW p \in ReversePairs(r, t.records[r])
        PROVE  p \in t.reverse
    <3>1. CASE r \in DOMAIN written
      BY <1>2, <2>1, <3>1
    <3>2. CASE r \notin DOMAIN written
      <4>1. r \in Known(s) /\ p \in ReversePairs(r, s.records[r])
        BY <1>2, <3>2
      <4>2. ASSUME NEW q \in DOMAIN written \cap Known(s),
                   p \in ReversePairs(q, s.records[q])
            PROVE  FALSE
        BY <4>1, <4>2, <3>2, PairsNameSource
      <4> QED  BY <2>1, <2>2, <4>1, <4>2
    <3> QED  BY <3>1, <3>2
  <2> QED  BY <2>3, <2>4
<1>4. t.predecessors = UNION {PredecessorPairs(r, t.records[r]) : r \in Known(t)}
  <2>1. t.predecessors =
          (s.predecessors \ UNION {PredecessorPairs(r, s.records[r]) :
                                r \in DOMAIN written \cap Known(s)})
            \cup UNION {PredecessorPairs(r, written[r]) : r \in DOMAIN written}
    BY <1>1, WithRecordsIs
  <2>2. s.predecessors = UNION {PredecessorPairs(r, s.records[r]) : r \in Known(s)}
    BY DEF Exact
  <2>3. ASSUME NEW p \in t.predecessors
        PROVE  \E r \in Known(t) : p \in PredecessorPairs(r, t.records[r])
    BY <1>2, <2>1, <2>2
  <2>4. ASSUME NEW r \in Known(t), NEW p \in PredecessorPairs(r, t.records[r])
        PROVE  p \in t.predecessors
    <3>1. CASE r \in DOMAIN written
      BY <1>2, <2>1, <3>1
    <3>2. CASE r \notin DOMAIN written
      <4>1. r \in Known(s) /\ p \in PredecessorPairs(r, s.records[r])
        BY <1>2, <3>2
      <4>2. ASSUME NEW q \in DOMAIN written \cap Known(s),
                   p \in PredecessorPairs(q, s.records[q])
            PROVE  FALSE
        BY <4>1, <4>2, <3>2, PairsNameSource
      <4> QED  BY <2>1, <2>2, <4>1, <4>2
    <3> QED  BY <3>1, <3>2
  <2> QED  BY <2>3, <2>4
<1> QED  BY <1>1, <1>3, <1>4 DEF Exact

(* What membership in an exact index says of the source.                    *)
LEMMA IndexesSay ==
    ASSUME NEW s, Exact(s), NEW r, NEW t
    PROVE  /\ <<t, r>> \in s.reverse
                <=> r \in Known(s) /\ t \in s.records[r].references
           /\ <<t, r>> \in s.predecessors
                <=> /\ r \in Known(s)
                    /\ s.records[r].life = "retired"
                    /\ s.records[r].successor # NoRef
                    /\ s.records[r].successor = t
<1>1. ASSUME NEW q \in Known(s), <<t, r>> \in ReversePairs(q, s.records[q])
      PROVE  q = r /\ t \in s.records[r].references
  BY <1>1 DEF ReversePairs
<1>2. ASSUME NEW q \in Known(s), <<t, r>> \in PredecessorPairs(q, s.records[q])
      PROVE  /\ q = r
             /\ s.records[r].life = "retired"
             /\ s.records[r].successor # NoRef
             /\ s.records[r].successor = t
  BY <1>2 DEF PredecessorPairs
<1>3. t \in s.records[r].references => <<t, r>> \in ReversePairs(r, s.records[r])
  BY DEF ReversePairs
<1>4. /\ s.records[r].life = "retired"
      /\ s.records[r].successor # NoRef
      /\ s.records[r].successor = t
      => <<t, r>> \in PredecessorPairs(r, s.records[r])
  BY DEF PredecessorPairs
<1>5. <<t, r>> \in s.reverse <=> r \in Known(s) /\ t \in s.records[r].references
  BY <1>1, <1>3 DEF Exact
<1> QED  BY <1>2, <1>4, <1>5 DEF Exact

----------------------------------------------------------------------------
(* What an accepted mutation makes of its record (apply_mutation).          *)
LEMMA MutatedIs ==
    ASSUME NEW s, Typed(s), NEW bundle, BundleTyped(bundle),
           NEW r \in DOMAIN bundle, MutationOk(s, bundle, r)
    PROVE  LET new == Mutated(s, r, bundle[r])
               old == s.records[r]
           IN  /\ new \in Record
               /\ r \in Known(s) =>
                    /\ new.version = old.version + 1
                    /\ <<old.life, new.life>> \in
                         {<<"active", "active">>, <<"active", "retired">>,
                          <<"retired", "deleted">>}
<1>1. PICK m : m = bundle[r]
  OBVIOUS
<1>2. PICK old : old = s.records[r]
  OBVIOUS
<1>3. MutationTyped(m)
  BY <1>1 DEF BundleTyped
<1>4. /\ m.op = "create" => r \notin Known(s)
      /\ m.op = "update" => Mutable(s, r, m.expected)
      /\ m.op = "retire" => Mutable(s, r, m.expected)
      /\ m.op = "delete" => r \in Known(s) /\ old.life = "retired"
  BY <1>1, <1>2 DEF MutationOk
<1>5. PICK new : new = Mutated(s, r, m)
  OBVIOUS
<1>6. SUFFICES /\ new \in Record
               /\ r \in Known(s) =>
                    /\ new.version = old.version + 1
                    /\ <<old.life, new.life>> \in
                         {<<"active", "active">>, <<"active", "retired">>,
                          <<"retired", "deleted">>}
  BY <1>1, <1>2, <1>5
<1>7. r \in Known(s) => old \in Record
  BY <1>2 DEF Typed
<1>8. PICK next : next = [old EXCEPT !.version = @ + 1]
  OBVIOUS
<1>9. r \in Known(s) =>
         /\ next \in Record
         /\ next.version = old.version + 1
         /\ next.life = old.life
  BY <1>7, <1>8 DEF Record
<1>10. CASE m.op = "create"
  <2>1. new = [version |-> 1, life |-> "active", successor |-> NoRef,
               references |-> m.references]
    BY <1>5, <1>10 DEF Mutated
  <2> QED  BY <2>1, <1>3, <1>4, <1>10 DEF Record, MutationTyped
<1>11. CASE m.op = "update"
  <2>1. new = [next EXCEPT !.references = m.references]
    BY <1>2, <1>5, <1>11, <1>8 DEF Mutated
  <2>2. r \in Known(s) /\ old.life = "active"
    BY <1>2, <1>4, <1>11 DEF Mutable, IsActive
  <2>3. m.references \subseteq Refs
    BY <1>3, <1>11 DEF MutationTyped
  <2> QED  BY <2>1, <2>2, <2>3, <1>9 DEF Record
<1>12. CASE m.op = "retire"
  <2>1. new = [next EXCEPT !.life = "retired", !.successor = m.successor]
    BY <1>2, <1>5, <1>12, <1>8 DEF Mutated
  <2>2. r \in Known(s) /\ old.life = "active"
    BY <1>2, <1>4, <1>12 DEF Mutable, IsActive
  <2>3. m.successor \in Refs \cup {NoRef}
    BY <1>3, <1>12 DEF MutationTyped
  <2> QED  BY <2>1, <2>2, <2>3, <1>9 DEF Record
<1>13. CASE m.op = "delete"
  <2>1. new = [next EXCEPT !.life = "deleted", !.successor = NoRef,
                           !.references = {}]
    BY <1>2, <1>5, <1>13, <1>8 DEF Mutated
  <2> QED  BY <2>1, <1>4, <1>13, <1>9 DEF Record
<1> QED  BY <1>3, <1>10, <1>11, <1>12, <1>13 DEF MutationTyped

(* The store an accepted bundle leaves (apply_mutation_bundle_in_place).    *)
LEMMA AppliedIs ==
    ASSUME NEW s, Typed(s), Exact(s), NEW bundle, BundleTyped(bundle),
           BundleOk(s, bundle)
    PROVE  LET t == Applied(s, bundle)
           IN  /\ Typed(t)
               /\ Exact(t)
               /\ Known(t) = Known(s) \cup DOMAIN bundle
               /\ \A r \in Known(s) \ DOMAIN bundle : t.records[r] = s.records[r]
               /\ \A r \in DOMAIN bundle : t.records[r] = Mutated(s, r, bundle[r])
<1>1. PICK written : written = [r \in DOMAIN bundle |-> Mutated(s, r, bundle[r])]
  OBVIOUS
<1>2. PICK t : t = WithRecords(s, written)
  OBVIOUS
<1>3. t = Applied(s, bundle)
  BY <1>1, <1>2 DEF Applied
<1>4. DOMAIN written = DOMAIN bundle
  BY <1>1
<1>5. /\ Known(t) = Known(s) \cup DOMAIN bundle
      /\ \A r \in Known(s) \ DOMAIN bundle : t.records[r] = s.records[r]
      /\ \A r \in DOMAIN bundle : t.records[r] = written[r]
  BY <1>2, <1>4, WithRecordsIs
<1>6. \A r \in DOMAIN bundle : t.records[r] = Mutated(s, r, bundle[r])
  BY <1>1, <1>5
<1>7. Exact(t)
  BY <1>2, IndexesStayExact
<1>8. Known(t) \subseteq Refs
  BY <1>5 DEF Typed, BundleTyped
<1>9. ASSUME NEW r \in Known(t)
      PROVE  t.records[r] \in Record
  <2>1. CASE r \in DOMAIN bundle
    <3>1. MutationOk(s, bundle, r)
      BY <2>1 DEF BundleOk
    <3>2. Mutated(s, r, bundle[r]) \in Record
      BY <2>1, <3>1, MutatedIs
    <3> QED  BY <2>1, <3>2, <1>6
  <2>2. CASE r \notin DOMAIN bundle
    BY <2>2, <1>5 DEF Typed
  <2> QED  BY <2>1, <2>2
<1>10. t.reverse \subseteq Refs \X Refs
  <2>1. ASSUME NEW r \in Known(t)
        PROVE  ReversePairs(r, t.records[r]) \subseteq Refs \X Refs
    BY <1>8, <1>9 DEF ReversePairs, Record
  <2> QED  BY <2>1, <1>7 DEF Exact
<1>11. t.predecessors \subseteq Refs \X Refs
  <2>1. ASSUME NEW r \in Known(t)
        PROVE  PredecessorPairs(r, t.records[r]) \subseteq Refs \X Refs
    BY <1>8, <1>9 DEF PredecessorPairs, Record
  <2> QED  BY <2>1, <1>7 DEF Exact
<1>12. Typed(t)
  BY <1>8, <1>9, <1>10, <1>11 DEF Typed
<1> QED  BY <1>3, <1>5, <1>6, <1>7, <1>12

----------------------------------------------------------------------------
(* The affected records: the changed ones, closed under both indexes.       *)
LEMMA AffectedIs ==
    ASSUME NEW s, NEW changed, changed \subseteq Refs, Typed(s)
    PROVE  /\ Affected(s, changed) \subseteq Refs
           /\ changed \subseteq Affected(s, changed)
           /\ \A p \in s.reverse \cup s.predecessors :
                p[1] \in Affected(s, changed) => p[2] \in Affected(s, changed)
<1>1. Affected(s, changed) \subseteq Refs
  BY DEF Affected
<1>2. changed \subseteq Affected(s, changed)
  BY DEF Affected
<1>3. ASSUME NEW p \in s.reverse \cup s.predecessors,
             p[1] \in Affected(s, changed)
      PROVE  p[2] \in Affected(s, changed)
  <2>1. p[2] \in Refs
    BY DEF Typed
  <2>2. ASSUME NEW S \in SUBSET Refs, changed \subseteq S,
               \A q \in s.reverse \cup s.predecessors : q[1] \in S => q[2] \in S
        PROVE  p[2] \in S
    BY <1>3, <2>2 DEF Affected
  <2> QED  BY <2>1, <2>2 DEF Affected
<1> QED  BY <1>1, <1>2, <1>3

(* A cycle of successors cannot pass through the start of a chain that ends *)
(* (validate_successor_chain_from).                                         *)
LEMMA ChainMeetsNoCycle ==
    ASSUME NEW s, Typed(s), NEW c \in Refs, ChainEnds(s, c),
           NEW S \in SUBSET Refs, c \in S,
           \A r \in S : \E t \in S : <<t, r>> \in s.predecessors
    PROVE  FALSE
<1> DEFINE closed(X) == \A p \in s.predecessors : p[2] \in X => p[1] \in X
           chain == {x \in Refs : \A X \in SUBSET Refs : c \in X /\ closed(X) => x \in X}
<1>1. SuccessorsEnd(s, chain)
  BY DEF ChainEnds
<1>2. c \in chain
  OBVIOUS
<1>3. ASSUME NEW r \in chain, NEW t \in Refs, <<t, r>> \in s.predecessors
      PROVE  t \in chain
  <2>1. ASSUME NEW X \in SUBSET Refs, c \in X, closed(X)
        PROVE  t \in X
    <3>1. r \in X
      BY <2>1
    <3> QED  BY <1>3, <2>1, <3>1
  <2> QED  BY <2>1
<1>4. PICK T : T = S \cap chain
  OBVIOUS
<1>5. T \in (SUBSET chain) \ {{}}
  BY <1>2, <1>4
<1> HIDE DEF chain
<1>6. PICK r \in T : ~\E t \in T : <<t, r>> \in s.predecessors
  BY <1>1, <1>5 DEF SuccessorsEnd
<1>7. PICK t \in S : <<t, r>> \in s.predecessors
  BY <1>4, <1>6
<1>8. t \in chain
  BY <1>3, <1>4, <1>6, <1>7
<1> QED  BY <1>4, <1>6, <1>7, <1>8

(* Validating the affected records keeps the whole store valid              *)
(* (validate_affected_record_store against validate_record_store).          *)
LEMMA LocalValidationSuffices ==
    ASSUME NEW s, Typed(s), Exact(s), StoreOk(s),
           NEW bundle, BundleTyped(bundle), BundleOk(s, bundle)
    PROVE  StoreOk(Applied(s, bundle))
<1>1. PICK t : t = Applied(s, bundle)
  OBVIOUS
<1>2. PICK changed : changed = DOMAIN bundle
  OBVIOUS
<1>3. /\ Typed(t)
      /\ Exact(t)
      /\ Known(t) = Known(s) \cup changed
      /\ \A r \in Known(s) \ changed : t.records[r] = s.records[r]
  BY <1>1, <1>2, AppliedIs
<1>4. changed \subseteq Refs
  BY <1>2 DEF BundleTyped
<1>5. AffectedOk(t, changed)
  BY <1>1, <1>2 DEF BundleOk
<1>6. PICK affected : affected = Affected(t, changed)
  OBVIOUS
<1>7. /\ changed \subseteq affected
      /\ \A p \in t.reverse \cup t.predecessors :
            p[1] \in affected => p[2] \in affected
  BY <1>3, <1>4, <1>6, AffectedIs
<1>8. \A r \in affected : RecordOk(t, r)
  BY <1>5, <1>6 DEF AffectedOk
<1>9. \A r \in changed : ChainEnds(t, r)
  BY <1>5 DEF AffectedOk
<1>10. ASSUME NEW r \in Known(t) \ affected
       PROVE  RecordOk(t, r)
  <2>1. r \in Known(s) /\ t.records[r] = s.records[r]
    BY <1>3, <1>7
  <2>2. RecordOk(s, r)
    BY <2>1 DEF StoreOk
  <2>3. ASSUME NEW x, <<x, r>> \in t.reverse \cup t.predecessors,
               x \in Known(s)
        PROVE  x \in Known(t) /\ t.records[x] = s.records[x]
    <3>1. x \notin affected
      <4>1. PICK p : p = <<x, r>>
        OBVIOUS
      <4>2. p[1] = x /\ p[2] = r
        BY <4>1
      <4> QED  BY <1>7, <2>3, <4>1, <4>2
    <3> QED  BY <1>3, <1>7, <2>3, <3>1
  <2>4. ShapeOk(t, r)
    BY <2>1, <2>2 DEF RecordOk, ShapeOk, IsDeleted
  <2>5. ReferencesOk(t, r)
    <3>1. SUFFICES ASSUME ~IsDeleted(t, r), NEW x \in t.records[r].references
                   PROVE  /\ x \in Known(t)
                          /\ ~IsDeleted(t, x)
                          /\ KindOf[r] \in AllowRetired \/ IsActive(t, x)
      BY DEF ReferencesOk
    <3>2. /\ x \in Known(s)
          /\ ~IsDeleted(s, x)
          /\ KindOf[r] \in AllowRetired \/ IsActive(s, x)
      BY <2>1, <2>2, <3>1 DEF RecordOk, ReferencesOk, IsDeleted
    <3>3. <<x, r>> \in t.reverse
      BY <1>3, <3>1, IndexesSay
    <3>4. x \in Known(t) /\ t.records[x] = s.records[x]
      BY <2>3, <3>2, <3>3
    <3> QED  BY <3>2, <3>4 DEF IsDeleted, IsActive
  <2>6. SuccessorOk(t, r)
    <3>1. SUFFICES ASSUME t.records[r].life = "retired",
                          t.records[r].successor # NoRef
                   PROVE  LET x == t.records[r].successor
                          IN  /\ x \in Known(t) \ {r}
                              /\ KindOf[x] = KindOf[r]
                              /\ ~IsDeleted(t, x)
      BY DEF SuccessorOk
    <3>2. PICK x : x = t.records[r].successor
      OBVIOUS
    <3>3. /\ x \in Known(s) \ {r}
          /\ KindOf[x] = KindOf[r]
          /\ ~IsDeleted(s, x)
      BY <2>1, <2>2, <3>1, <3>2 DEF RecordOk, SuccessorOk
    <3>4. <<x, r>> \in t.predecessors
      BY <1>3, <3>1, <3>2, IndexesSay
    <3>5. x \in Known(t) /\ t.records[x] = s.records[x]
      BY <2>3, <3>3, <3>4
    <3> QED  BY <3>2, <3>3, <3>5 DEF IsDeleted
  <2> QED  BY <2>4, <2>5, <2>6 DEF RecordOk
<1>11. SuccessorsEnd(t, Known(t))
  <2>1. SUFFICES ASSUME NEW S \in SUBSET Known(t), S # {},
                        \A r \in S : \E x \in S : <<x, r>> \in t.predecessors
                 PROVE  FALSE
    BY DEF SuccessorsEnd
  <2>2. CASE S \cap changed = {}
    <3>1. S \in (SUBSET Known(s)) \ {{}}
      BY <1>3, <2>1, <2>2
    <3>2. ASSUME NEW r \in S, NEW x \in S, <<x, r>> \in t.predecessors
          PROVE  <<x, r>> \in s.predecessors
      <4>1. r \in Known(s) /\ t.records[r] = s.records[r]
        BY <1>3, <2>2
      <4>2. /\ t.records[r].life = "retired"
            /\ t.records[r].successor # NoRef
            /\ t.records[r].successor = x
        BY <1>3, <3>2, IndexesSay
      <4> QED  BY <4>1, <4>2, IndexesSay
    <3>3. PICK r \in S : ~\E x \in S : <<x, r>> \in s.predecessors
      BY <3>1 DEF StoreOk, SuccessorsEnd
    <3> QED  BY <2>1, <3>2, <3>3
  <2>3. CASE S \cap changed # {}
    <3>1. PICK c \in S : c \in changed
      BY <2>3
    <3>2. S \in SUBSET Refs /\ c \in Refs
      BY <1>3, <1>4, <3>1 DEF Typed
    <3> QED  BY <1>3, <1>9, <2>1, <3>1, <3>2, ChainMeetsNoCycle
  <2> QED  BY <2>2, <2>3
<1>12. \A r \in Known(t) : RecordOk(t, r)
  BY <1>8, <1>10
<1> QED  BY <1>1, <1>11, <1>12 DEF StoreOk
=============================================================================
