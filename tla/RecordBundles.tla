--------------------------- MODULE RecordBundles ---------------------------
(***************************************************************************)
(* A store of domain records over any sequence of accepted bundles.        *)
(***************************************************************************)
EXTENDS RecordStore

CONSTANTS
    MaxVersion,    \* bound on the version of a record
    MaxBundle,     \* bound on the mutations of one bundle
    MaxReferences  \* bound on the references of one record

VARIABLE store  \* RuntimeCurrentState::domain_records

Init == store = EmptyStore

----------------------------------------------------------------------------
ReferenceSets == UNION {kSubset(k, Refs) : k \in 0..MaxReferences}

Mutations(r) ==
    IF r \notin Known(store) THEN {Create(refs) : refs \in ReferenceSets}
    ELSE LET v == store.records[r].version
         IN  {Create({}), Delete(v)}
                \cup {Update(e, refs) : e \in {v, v - 1}, refs \in ReferenceSets}
                \cup {Retire(v, s) : s \in Refs \cup {NoRef}}

(* apply_boundary_stage: one bundle, applied whole or refused.              *)
ApplyBundle ==
    \E targets \in UNION {kSubset(k, Refs) : k \in 1..MaxBundle} :
    \E bundle \in [targets -> UNION {Mutations(r) : r \in targets}] :
        /\ \A r \in targets : bundle[r] \in Mutations(r)
        /\ BundleOk(store, bundle)
        /\ store' = Applied(store, bundle)
        /\ \A r \in targets : store'.records[r].version <= MaxVersion

Next == ApplyBundle

Spec == Init /\ [][Next]_store

----------------------------------------------------------------------------
TypeOK ==
    /\ Known(store) \subseteq Refs
    /\ \A r \in Known(store) : store.records[r] \in Record
    /\ store.reverse \cup store.predecessors \subseteq Refs \X Refs

(* The indexes that are maintained write by write are those a cold load     *)
(* computes from the records (validate_internal_indexes).                   *)
IndexesExact ==
    /\ store.reverse = UNION {ReversePairs(r, store.records[r]) : r \in Known(store)}
    /\ store.predecessors =
          UNION {PredecessorPairs(r, store.records[r]) : r \in Known(store)}

(* A bundle validates only the records its changes can affect, and yet the  *)
(* whole store stays one that validate_record_store accepts on load: no     *)
(* reference dangles, no successor is deleted, no chain of successors has a *)
(* cycle.                                                                   *)
WholeStoreValid == StoreOk(store)

(* A change moves a record to its next version along its life cycle; a      *)
(* tombstone is final and no record disappears.                             *)
FollowsLifeCycle ==
    /\ Known(store) \subseteq Known(store')
    /\ \A r \in Known(store) :
          LET old == store.records[r]  new == store'.records[r]
          IN  new # old =>
                /\ new.version = old.version + 1
                /\ <<old.life, new.life>> \in
                     {<<"active", "active">>, <<"active", "retired">>,
                      <<"retired", "deleted">>}

(* Bundles validate only the records their changes can affect, and yet the  *)
(* whole store stays one a load accepts, with the indexes a cold load       *)
(* computes (validate_record_store, validate_internal_indexes).             *)
RecordsSound == TypeOK /\ IndexesExact /\ WholeStoreValid

(* A change moves a record to its next version along its life cycle; a      *)
(* tombstone is final and no record disappears (apply_bundle).              *)
LifeCycle == [][FollowsLifeCycle]_store
=============================================================================
