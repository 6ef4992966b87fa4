------------------------ MODULE RecordBundles_proofs ------------------------
(***************************************************************************)
(* Proofs about the store of domain records: that validating only the      *)
(* records a bundle can affect keeps the whole store valid, with exact     *)
(* indexes, and that records follow their life cycle.                      *)
(***************************************************************************)
EXTENDS RecordBundles, RecordStore_proofs

----------------------------------------------------------------------------
(* The bundles ApplyBundle chooses from are typed.                          *)
LEMMA MutationsTyped ==
    ASSUME NEW r, NEW m \in Mutations(r)
    PROVE  MutationTyped(m)
<1>1. \A refs \in ReferenceSets : refs \subseteq Refs
  BY DEF ReferenceSets, kSubset
<1>2. \A refs \in ReferenceSets : MutationTyped(Create(refs))
  BY <1>1 DEF MutationTyped, Create
<1>3. MutationTyped(Create({}))
  BY DEF MutationTyped, Create
<1>4. \A e : \A refs \in ReferenceSets : MutationTyped(Update(e, refs))
  BY <1>1 DEF MutationTyped, Update
<1>5. \A v : \A x \in Refs \cup {NoRef} : MutationTyped(Retire(v, x))
  BY DEF MutationTyped, Retire
<1>6. \A v : MutationTyped(Delete(v))
  BY DEF MutationTyped, Delete
<1>7. CASE r \notin Known(store)
  BY <1>2, <1>7 DEF Mutations
<1>8. CASE r \in Known(store)
  <2>1. PICK v : v = store.records[r].version
    OBVIOUS
  <2>2. \/ m = Create({})
        \/ m = Delete(v)
        \/ \E e : \E refs \in ReferenceSets : m = Update(e, refs)
        \/ \E x \in Refs \cup {NoRef} : m = Retire(v, x)
    BY <1>8, <2>1 DEF Mutations
  <2> QED  BY <2>2, <1>3, <1>4, <1>5, <1>6
<1> QED  BY <1>7, <1>8

(* A step applies an accepted bundle to the store.                          *)
LEMMA StepApplies ==
    ASSUME Next
    PROVE  \E bundle : /\ BundleTyped(bundle)
                       /\ BundleOk(store, bundle)
                       /\ store' = Applied(store, bundle)
<1>1. PICK targets \in UNION {kSubset(k, Refs) : k \in 1..MaxBundle} :
        \E bundle \in [targets -> UNION {Mutations(r) : r \in targets}] :
            /\ \A r \in targets : bundle[r] \in Mutations(r)
            /\ BundleOk(store, bundle)
            /\ store' = Applied(store, bundle)
  BY DEF Next, ApplyBundle
<1>2. PICK bundle \in [targets -> UNION {Mutations(r) : r \in targets}] :
            /\ \A r \in targets : bundle[r] \in Mutations(r)
            /\ BundleOk(store, bundle)
            /\ store' = Applied(store, bundle)
  BY <1>1
<1>3. DOMAIN bundle = targets /\ targets \subseteq Refs
  BY <1>1, <1>2 DEF kSubset
<1>4. BundleTyped(bundle)
  BY <1>2, <1>3, MutationsTyped DEF BundleTyped
<1> QED  BY <1>2, <1>4

(* RecordsSound in the terms of the lemmas.                                 *)
LEMMA SoundIs == RecordsSound <=> Typed(store) /\ Exact(store) /\ StoreOk(store)
BY DEF RecordsSound, TypeOK, Typed, IndexesExact, Exact, WholeStoreValid

(* The empty store is sound (RuntimeCurrentState::default).                 *)
LEMMA InitSound == Init => RecordsSound
<1>1. SUFFICES ASSUME Init PROVE RecordsSound
  OBVIOUS
<1>2. /\ Known(store) = {}
      /\ store.reverse = {}
      /\ store.predecessors = {}
  BY <1>1 DEF Init, EmptyStore, Known
<1>3. StoreOk(store)
  BY <1>2 DEF StoreOk, SuccessorsEnd
<1> QED  BY <1>2, <1>3 DEF RecordsSound, TypeOK, IndexesExact, WholeStoreValid

(* A step keeps the store sound.                                            *)
LEMMA StepSound == RecordsSound /\ [Next]_store => RecordsSound'
<1>1. SUFFICES ASSUME RecordsSound, [Next]_store PROVE RecordsSound'
  OBVIOUS
<1>2. CASE UNCHANGED store
  BY <1>1, <1>2 DEF RecordsSound, TypeOK, IndexesExact, WholeStoreValid
<1>3. CASE Next
  <2>1. PICK bundle : /\ BundleTyped(bundle)
                      /\ BundleOk(store, bundle)
                      /\ store' = Applied(store, bundle)
    BY <1>3, StepApplies
  <2>2. Typed(store) /\ Exact(store) /\ StoreOk(store)
    BY <1>1, SoundIs
  <2>3. Typed(store') /\ Exact(store')
    BY <2>1, <2>2, AppliedIs
  <2>4. StoreOk(store')
    BY <2>1, <2>2, LocalValidationSuffices
  <2> QED  BY <2>3, <2>4
           DEF RecordsSound, TypeOK, Typed, IndexesExact, Exact, WholeStoreValid
<1> QED  BY <1>1, <1>2, <1>3

(* Whatever bundles are accepted, the whole store stays one a load accepts, *)
(* though each bundle validates only the records its changes can affect,    *)
(* and the indexes stay those a cold load computes                          *)
(* (validate_affected_record_store, validate_internal_indexes).             *)
THEOREM StoreStaysSound == Spec => []RecordsSound
BY InitSound, StepSound, PTL DEF Spec

(* A step follows the life cycle (apply_mutation).                          *)
LEMMA StepFollows == RecordsSound /\ [Next]_store => [FollowsLifeCycle]_store
<1>1. SUFFICES ASSUME RecordsSound, Next PROVE FollowsLifeCycle
  OBVIOUS
<1>2. PICK bundle : /\ BundleTyped(bundle)
                    /\ BundleOk(store, bundle)
                    /\ store' = Applied(store, bundle)
  BY <1>1, StepApplies
<1>3. Typed(store) /\ Exact(store)
  BY <1>1, SoundIs
<1>4. /\ Known(store') = Known(store) \cup DOMAIN bundle
      /\ \A r \in Known(store) \ DOMAIN bundle : store'.records[r] = store.records[r]
      /\ \A r \in DOMAIN bundle : store'.records[r] = Mutated(store, r, bundle[r])
  BY <1>2, <1>3, AppliedIs
<1>5. ASSUME NEW r \in Known(store), store'.records[r] # store.records[r]
      PROVE  /\ store'.records[r].version = store.records[r].version + 1
             /\ <<store.records[r].life, store'.records[r].life>> \in
                  {<<"active", "active">>, <<"active", "retired">>,
                   <<"retired", "deleted">>}
  <2>1. r \in DOMAIN bundle
    BY <1>4, <1>5
  <2>2. MutationOk(store, bundle, r)
    BY <1>2, <2>1 DEF BundleOk
  <2>3. store'.records[r] = Mutated(store, r, bundle[r])
    BY <1>4, <2>1
  <2> QED  BY <1>2, <1>3, <2>1, <2>2, <2>3, MutatedIs
<1>6. Known(store) \subseteq Known(store')
  BY <1>4
<1> QED  BY <1>5, <1>6 DEF FollowsLifeCycle, Known

(* Records move version by version along their life cycle, a tombstone is   *)
(* final, and no record disappears, whatever bundles are accepted.          *)
THEOREM RecordsFollowLifeCycle == Spec => LifeCycle
BY StoreStaysSound, StepFollows, PTL DEF Spec, LifeCycle
=============================================================================
