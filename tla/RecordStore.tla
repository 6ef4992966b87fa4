---------------------------- MODULE RecordStore ----------------------------
(***************************************************************************)
(* The persistent store of domain records (canwu-sim, runtime/records.rs): *)
(* versioned records with a life cycle, the references between them, and   *)
(* the lookup indexes that are maintained write by write.  A bundle of     *)
(* mutations is applied as a whole and only the records its changes can    *)
(* affect are validated again; whether that is enough is what              *)
(* RecordBundles checks.                                                   *)
(*                                                                         *)
(* Operators only: a store is a value, and a bundle maps each target to    *)
(* the one mutation it may get.                                            *)
(***************************************************************************)
EXTENDS Integers, FiniteSets, FiniteSetsExt

CONSTANTS
    Refs,          \* references of domain records
    KindOf,        \* the kind of each reference
    Entities,      \* the kinds whose records are entities
    CreateOnly,    \* the kinds whose records are never changed
    AllowRetired,  \* the kinds whose references may target retired records
    NoRef,         \* "no successor"
    MaxClosure     \* MAX_AFFECTED_RECORD_VALIDATION_CLOSURE

ASSUME RecordAssumption ==
    /\ IsFiniteSet(Refs)
    /\ NoRef \notin Refs
    /\ DOMAIN KindOf = Refs
    /\ MaxClosure \in Nat

Record ==
    [version: Nat \ {0}, life: {"active", "retired", "deleted"},
     successor: Refs \cup {NoRef}, references: SUBSET Refs]

(* `reverse` holds <<target, source>> for the source's references,          *)
(* `predecessors` <<successor, predecessor>> for the retired records.       *)
EmptyStore ==
    [records |-> [r \in {} |-> 0], reverse |-> {}, predecessors |-> {}]

Known(s) == DOMAIN s.records
IsActive(s, r) == r \in Known(s) /\ s.records[r].life = "active"
IsDeleted(s, r) == s.records[r].life = "deleted"

(* domain_entity_exists *)
EntityExists(s, r) ==
    r \in Known(s) /\ KindOf[r] \in Entities /\ ~IsDeleted(s, r)

----------------------------------------------------------------------------
(* Writing a record maintains the indexes of the one it replaces.           *)

ReversePairs(r, record) == {<<t, r>> : t \in record.references}
PredecessorPairs(r, record) ==
    IF record.life = "retired" /\ record.successor # NoRef
    THEN {<<record.successor, r>>} ELSE {}

(* Mutant: the indexes of a replaced record are left behind.                *)
WithRecordsKeepingIndexes(s, written) ==
    LET new(Pairs(_, _)) == UNION {Pairs(r, written[r]) : r \in DOMAIN written}
    IN  [records |-> [r \in Known(s) \cup DOMAIN written |->
                        IF r \in DOMAIN written THEN written[r] ELSE s.records[r]],
         reverse |-> s.reverse \cup new(ReversePairs),
         predecessors |-> s.predecessors \cup new(PredecessorPairs)]

WithRecords(s, written) ==
    LET replaced == DOMAIN written \cap Known(s)
        old(Pairs(_, _)) == UNION {Pairs(r, s.records[r]) : r \in replaced}
        new(Pairs(_, _)) == UNION {Pairs(r, written[r]) : r \in DOMAIN written}
    IN  [records |-> [r \in Known(s) \cup DOMAIN written |->
                        IF r \in DOMAIN written THEN written[r] ELSE s.records[r]],
         reverse |-> (s.reverse \ old(ReversePairs)) \cup new(ReversePairs),
         predecessors |->
            (s.predecessors \ old(PredecessorPairs)) \cup new(PredecessorPairs)]

----------------------------------------------------------------------------
(* DomainRecordMutation *)
Create(refs) == [op |-> "create", references |-> refs]
Update(v, refs) == [op |-> "update", expected |-> v, references |-> refs]
Retire(v, successor) == [op |-> "retire", expected |-> v, successor |-> successor]
Delete(v) == [op |-> "delete", expected |-> v]

(* require_mutable_record *)
Mutable(s, r, expected) == IsActive(s, r) /\ s.records[r].version = expected

(* validate_new_successor: looked up in the store before the bundle.        *)
NewSuccessorOk(s, bundle, r, successor) ==
    successor # NoRef =>
        /\ successor # r
        /\ KindOf[successor] = KindOf[r]
        /\ \/ successor \in DOMAIN bundle /\ bundle[successor].op = "create"
           \/ IsActive(s, successor)

(* Mutant: a deleted record can be created again.                           *)
MutationOkRecreating(s, bundle, r) ==
    LET m == bundle[r]
    IN  /\ KindOf[r] \in CreateOnly => m.op = "create"
        /\ m.op = "create" => (r \in Known(s) => IsDeleted(s, r))
        /\ m.op = "update" => Mutable(s, r, m.expected)
        /\ m.op = "retire" => /\ Mutable(s, r, m.expected)
                              /\ NewSuccessorOk(s, bundle, r, m.successor)
        /\ m.op = "delete" => /\ r \in Known(s)
                              /\ s.records[r].version = m.expected
                              /\ s.records[r].life = "retired"

MutationOk(s, bundle, r) ==
    LET m == bundle[r]
    IN  /\ KindOf[r] \in CreateOnly => m.op = "create"
        /\ m.op = "create" => r \notin Known(s)
        /\ m.op = "update" => Mutable(s, r, m.expected)
        /\ m.op = "retire" => /\ Mutable(s, r, m.expected)
                              /\ NewSuccessorOk(s, bundle, r, m.successor)
        /\ m.op = "delete" => /\ r \in Known(s)
                              /\ s.records[r].version = m.expected
                              /\ s.records[r].life = "retired"

Mutated(s, r, m) ==
    LET previous == s.records[r]
        next == [previous EXCEPT !.version = @ + 1]
    IN  CASE m.op = "create" ->
               [version |-> 1, life |-> "active", successor |-> NoRef,
                references |-> m.references]
          [] m.op = "update" -> [next EXCEPT !.references = m.references]
          [] m.op = "retire" ->
               [next EXCEPT !.life = "retired", !.successor = m.successor]
          [] OTHER ->
               [next EXCEPT !.life = "deleted", !.successor = NoRef,
                            !.references = {}]

(* apply_mutation_bundle_in_place.  Every mutation looks at its own target  *)
(* and at the store before the bundle only, so their order does not matter. *)
Applied(s, bundle) ==
    WithRecords(s, [r \in DOMAIN bundle |-> Mutated(s, r, bundle[r])])

----------------------------------------------------------------------------
(* What a valid record is (validate_record_shape,                           *)
(* validate_record_references, validate_successor) ...                      *)

ShapeOk(s, r) == IsDeleted(s, r) => s.records[r].references = {}

ReferencesOk(s, r) ==
    ~IsDeleted(s, r) =>
        \A t \in s.records[r].references :
            /\ t \in Known(s)
            /\ ~IsDeleted(s, t)
            /\ KindOf[r] \in AllowRetired \/ IsActive(s, t)

SuccessorOk(s, r) ==
    LET successor == s.records[r].successor
    IN  s.records[r].life = "retired" /\ successor # NoRef =>
            /\ successor \in Known(s) \ {r}
            /\ KindOf[successor] = KindOf[r]
            /\ ~IsDeleted(s, successor)

RecordOk(s, r) == ShapeOk(s, r) /\ ReferencesOk(s, r) /\ SuccessorOk(s, r)

(* ... and that no chain of successors has a cycle: no non-empty set of     *)
(* records in which each has its successor in the set.                      *)
SuccessorsEnd(s, scope) ==
    \A S \in (SUBSET scope) \ {{}} :
        \E r \in S : ~\E t \in S : <<t, r>> \in s.predecessors

(* validate_record_store, run when a snapshot is restored                   *)
StoreOk(s) ==
    /\ \A r \in Known(s) : RecordOk(s, r)
    /\ SuccessorsEnd(s, Known(s))

(* The records whose validity a change of `changed` can touch: those that   *)
(* reach it over references and successors.                                 *)
Affected(s, changed) ==
    LET closed(S) == \A p \in s.reverse \cup s.predecessors : p[1] \in S => p[2] \in S
    IN  {r \in Refs : \A S \in SUBSET Refs : changed \subseteq S /\ closed(S) => r \in S}

(* validate_successor_chain_from: the chain that starts at r ends.          *)
ChainEnds(s, r) ==
    LET closed(S) == \A p \in s.predecessors : p[2] \in S => p[1] \in S
        chain == {x \in Refs : \A S \in SUBSET Refs : r \in S /\ closed(S) => x \in S}
    IN  SuccessorsEnd(s, chain) /\ Cardinality(chain) <= MaxClosure

(* validate_affected_record_store *)
AffectedOk(s, changed) ==
    /\ Cardinality(Affected(s, changed)) <= MaxClosure
    /\ \A r \in Affected(s, changed) : r \in Known(s) /\ RecordOk(s, r)
    /\ \A r \in changed : ChainEnds(s, r)

(* apply_mutation_bundle_cow: whether the bundle is accepted                *)
BundleOk(s, bundle) ==
    /\ \A r \in DOMAIN bundle : MutationOk(s, bundle, r)
    /\ AffectedOk(Applied(s, bundle), DOMAIN bundle)

=============================================================================
