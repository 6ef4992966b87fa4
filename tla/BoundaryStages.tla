-------------------------- MODULE BoundaryStages --------------------------
(***************************************************************************)
(* What the systems of a settlement boundary write to domain records and   *)
(* plugin components (canwu-sim, runtime/settlement.rs).                   *)
(*                                                                         *)
(* Phase 7 stages ordinary writes on overlays of the state the boundary    *)
(* started from, phase 8 reads them, phase 9 commits those that are        *)
(* visible in this boundary; phase 10 stages transitions on the committed  *)
(* state and phase 11 commits them; phases 12 and 13 commit at once.       *)
(* Writes that are visible from the next boundary on wait for the end,     *)
(* where they commit as one last bundle.  A stage that was applied when it *)
(* was staged is not applied a second time when it commits.                *)
(***************************************************************************)
EXTENDS RecordStore, Sequences, SequencesExt

CONSTANTS
    MaxVersion,    \* bound on the version of a record
    MaxWrites,     \* bound on the record writes staged in one phase
    MaxComponents, \* bound on the component writes staged in one phase
    MaxStaged,     \* bound on all the writes of one boundary
    MaxBoundaries  \* bound on the settled boundaries

VARIABLES
    store,       \* RuntimeCurrentState::domain_records
    components,  \* ::plugin_components: the value of each entity that has one
    versions,    \* RuntimeMetadata::current_domain_record_versions
    boundaries,  \* RuntimeEvidence::boundaries, their changes
    run          \* the locals of settle_boundary_inner, or Idle

vars == <<store, components, versions, boundaries, run>>

Idle == [phase |-> 0]
NoWrites == [records |-> <<>>, components |-> <<>>]
Unprepared == [base |-> "none"]

Init ==
    /\ store = EmptyStore
    /\ components = <<>>
    /\ versions = <<>>
    /\ boundaries = <<>>
    /\ run = Idle

----------------------------------------------------------------------------
(* Staged writes.  A write names its target and whether it is visible in    *)
(* this boundary or from the next one on.                                   *)

ReferenceSets == UNION {kSubset(k, Refs) : k \in 0..1}

Mutations(r) ==
    IF r \notin Known(store) THEN {Create(refs) : refs \in ReferenceSets}
    ELSE LET v == store.records[r].version
         IN  {Update(v, store.records[r].references), Delete(v)}
                \cup {Retire(v, s) : s \in Refs \cup {NoRef}}

(* Phase 10 and later may expect a version a write of this boundary makes.  *)
RecordWrites(T) ==
    {w \in [T -> [mutation: UNION {Mutations(r) : r \in T}, same: BOOLEAN]] :
        \A r \in T : w[r].mutation \in Mutations(r)}

ComponentWrites(T) == [T -> BOOLEAN]

Size(writes) ==
    Cardinality(DOMAIN writes.records) + Cardinality(DOMAIN writes.components)

Proposals ==
    {[records |-> w, components |-> c] :
        w \in UNION {RecordWrites(T) : T \in UNION {kSubset(k, Refs) : k \in 0..MaxWrites}},
        c \in UNION {ComponentWrites(T) : T \in UNION {kSubset(k, Refs) : k \in 0..MaxComponents}}}

(* record_mutation_request over a stage's directives                        *)
Bundle(writes, wanted) ==
    [r \in {t \in DOMAIN writes.records : writes.records[t].same \in wanted} |->
        writes.records[r].mutation]
SameBoundary == {TRUE}
AnyBoundary == BOOLEAN

(* partition_boundary_visibility: the writes of one visibility, the          *)
(* component writes in their order.                                         *)
Part(writes, same) ==
    [records |-> [r \in {t \in DOMAIN writes.records : writes.records[t].same = same} |->
                    writes.records[r]],
     components |->
        SetToSeq({e \in DOMAIN writes.components : writes.components[e] = same})]

Merged(left, right) ==
    [records |-> [r \in DOMAIN left.records \cup DOMAIN right.records |->
                    IF r \in DOMAIN left.records THEN left.records[r] ELSE right.records[r]],
     components |-> left.components \o right.components]

(* A bundle may not write one record twice.                                 *)
Disjoint(left, right) == DOMAIN left.records \cap DOMAIN right.records = {}

----------------------------------------------------------------------------
(* Mutant: a deleted record still counts as an entity.                      *)
DependentsKnown(entities, s) == \A e \in entities : e \in Known(s)

(* validate_domain_dependents_with_records *)
DependentsOk(entities, s) == \A e \in entities : EntityExists(s, e)

(* apply_boundary_record_overlay: a stage's bundle, validated.              *)
OverlayOk(s, bundle) ==
    DOMAIN bundle # {} =>
        /\ BundleOk(s, bundle)
        /\ DependentsOk(DOMAIN components, Applied(s, bundle))

(* extend_boundary_component_overlay *)
ComponentOverlayOk(s, entities) == DependentsOk(entities, s)

Prepared(s, bundle, taken) ==
    IF DOMAIN bundle = {} THEN Unprepared
    ELSE [base |-> s, bundle |-> bundle, applied |-> Applied(s, bundle), taken |-> taken]

(* PreparedRecordStage::prepared_for *)
PreparedFor(prepared, s, bundle) ==
    prepared # Unprepared => prepared.base = s /\ DOMAIN bundle = DOMAIN prepared.bundle

(* apply_boundary_stage: the records that the stage commits ...             *)
StageOk(prepared, bundle) ==
    DOMAIN bundle # {} =>
        IF prepared # Unprepared /\ PreparedFor(prepared, store, bundle) THEN TRUE
        ELSE /\ prepared # Unprepared => ~prepared.taken
             /\ BundleOk(store, bundle)

StageStore(prepared, bundle) ==
    IF DOMAIN bundle = {} THEN store
    ELSE IF prepared # Unprepared /\ PreparedFor(prepared, store, bundle)
         THEN prepared.applied
    ELSE Applied(store, bundle)

(* ... and the evidence of what it changed, in the order of the references. *)
RecordChanges(s, bundle) ==
    LET targets == SetToSeq(DOMAIN bundle)
    IN  [i \in DOMAIN targets |-> [ref |-> targets[i], record |-> s.records[targets[i]]]]

BoundaryId == Len(boundaries) + 1

(* Component writes of a stage are applied one by one; each is numbered in   *)
(* the boundary.                                                            *)
ComponentChanges(entities, first) ==
    LET value(i) == <<BoundaryId, first + i>>
        earlier(i) == {j \in 1..i-1 : entities[j] = entities[i]}
        previous(i) ==
            IF earlier(i) # {} THEN value(Max(earlier(i)))
            ELSE IF entities[i] \in DOMAIN components THEN components[entities[i]]
            ELSE NoRef
    IN  [i \in DOMAIN entities |->
            [entity |-> entities[i], previous |-> previous(i), value |-> value(i)]]

WithComponents(changes) ==
    [e \in DOMAIN components \cup {changes[i].entity : i \in DOMAIN changes} |->
        LET written == {i \in DOMAIN changes : changes[i].entity = e}
        IN  IF written = {} THEN components[e] ELSE changes[Max(written)].value]

(* index_current_domain_record_version for the changes of one stage         *)
Indexed(changes, first) ==
    LET position(r) == CHOOSE i \in DOMAIN changes : changes[i].ref = r
        changed == {changes[i].ref : i \in DOMAIN changes}
    IN  [r \in DOMAIN versions \cup changed |->
            IF r \in changed
            THEN [version |-> changes[position(r)].record.version,
                  boundary |-> BoundaryId, change |-> first + position(r)]
            ELSE versions[r]]

(* apply_boundary_stage *)
ApplyStage(writes, prepared, next) ==
    LET bundle == Bundle(writes, AnyBoundary)
        after == StageStore(prepared, bundle)
        changes == RecordChanges(after, bundle)
        written == ComponentChanges(writes.components, Len(run.components))
    IN  /\ StageOk(prepared, bundle)
        /\ DependentsOk(ToSet(writes.components) \cup DOMAIN components, after)
        /\ store' = after
        /\ components' = WithComponents(written)
        /\ versions' = Indexed(changes, Len(run.changes))
        /\ run' = [next EXCEPT !.changes = @ \o changes, !.components = @ \o written]

----------------------------------------------------------------------------
(* settle_boundary_transaction: the boundary's checkpoint is `saved`.       *)
BeginBoundary ==
    /\ run = Idle
    /\ Len(boundaries) < MaxBoundaries
    /\ run' = [phase |-> 7,
               saved |-> [store |-> store, components |-> components,
                          versions |-> versions],
               visible |-> [store |-> store, components |-> {}],
               candidate |-> [store |-> store, components |-> {}],
               ordinary |-> NoWrites, transitions |-> NoWrites,
               deferred |-> NoWrites, prepared |-> Unprepared,
               changes |-> <<>>, components |-> <<>>, staged |-> 0]
    /\ UNCHANGED <<store, components, versions, boundaries>>

(* The bounds on what one phase stages.                                     *)
Bounded(writes) ==
    /\ run.staged + Size(writes) <= MaxStaged
    /\ \A r \in DOMAIN writes.records :
          r \in Known(store) => store.records[r].version < MaxVersion

(* Phase 7, DomainDeltaProposal.  When every record write is visible in     *)
(* this boundary, one bundle builds both overlays and its drafts are moved  *)
(* into it; otherwise the candidate takes all and the visible one a part.   *)
ProposeDeltas ==
    /\ run.phase = 7
    /\ \E writes \in Proposals :
        LET base == run.saved.store
            all == Bundle(writes, AnyBoundary)
            same == Bundle(writes, SameBoundary)
            taken == DOMAIN all = DOMAIN same
            candidate == Applied(base, all)
            visible == Applied(base, same)
            entities == DOMAIN writes.components
            visibleEntities == ToSet(Part(writes, TRUE).components)
        IN  /\ Bounded(writes)
            /\ OverlayOk(base, all)
            /\ OverlayOk(base, same)
            /\ ComponentOverlayOk(candidate, entities)
            /\ ComponentOverlayOk(visible, visibleEntities)
            /\ run' = [run EXCEPT
                        !.phase = 9,
                        !.staged = @ + Size(writes),
                        !.visible = [store |-> visible, components |-> visibleEntities],
                        !.candidate = [store |-> candidate, components |-> entities],
                        !.prepared = Prepared(base, same, taken),
                        !.ordinary = writes]
            /\ UNCHANGED <<store, components, versions, boundaries>>

(* Phase 9, AtomicDomainCommit.                                             *)
CommitDeltas ==
    /\ run.phase = 9
    /\ ApplyStage(Part(run.ordinary, TRUE), run.prepared,
                  [run EXCEPT !.phase = 10, !.prepared = Unprepared,
                              !.ordinary = NoWrites,
                              !.deferred = Part(run.ordinary, FALSE)])
    /\ UNCHANGED boundaries

(* Phase 10, HistoricalCandidateEvaluation, staged on the committed state.  *)
PrepareTransitions(writes) == Prepared(store, Bundle(writes, SameBoundary), FALSE)

EvaluateCandidates ==
    /\ run.phase = 10
    /\ \E writes \in Proposals :
        LET same == Bundle(writes, SameBoundary)
            visibleEntities == ToSet(Part(writes, TRUE).components)
        IN  /\ Bounded(writes)
            /\ OverlayOk(store, same)
            /\ ComponentOverlayOk(Applied(store, same), visibleEntities)
            /\ run' = [run EXCEPT
                        !.phase = 11,
                        !.staged = @ + Size(writes),
                        !.visible = [store |-> Applied(store, same),
                                     components |-> visibleEntities],
                        !.prepared = PrepareTransitions(writes),
                        !.transitions = writes]
            /\ UNCHANGED <<store, components, versions, boundaries>>

(* Next-boundary writes join those of earlier phases.                       *)
Deferring(writes) ==
    [run EXCEPT !.deferred = Merged(@, Part(writes, FALSE))]

(* Phase 11, ConditionalTransitionCommit.                                   *)
CommitTransitions ==
    /\ run.phase = 11
    /\ Disjoint(run.deferred, Part(run.transitions, FALSE))
    /\ ApplyStage(Part(run.transitions, TRUE), run.prepared,
                  [Deferring(run.transitions) EXCEPT
                      !.phase = 12, !.prepared = Unprepared, !.transitions = NoWrites])
    /\ UNCHANGED boundaries

(* Phases 12 and 13 commit what they propose.                               *)
ProposeLate ==
    /\ run.phase \in {12, 13}
    /\ \E writes \in Proposals :
        /\ Bounded(writes)
        /\ Disjoint(run.deferred, Part(writes, FALSE))
        /\ ApplyStage(Part(writes, TRUE), Unprepared,
                      [Deferring(writes) EXCEPT !.phase = @ + 1,
                                                !.staged = @ + Size(writes)])
    /\ UNCHANGED boundaries

(* The writes of every phase that are visible from the next boundary on.    *)
CommitDeferred ==
    /\ run.phase = 14
    /\ ApplyStage(run.deferred, Unprepared,
                  [run EXCEPT !.phase = 15, !.deferred = NoWrites])
    /\ UNCHANGED boundaries

JournalBoundary ==
    /\ run.phase = 15
    /\ boundaries' = Append(boundaries,
                        [changes |-> run.changes, components |-> run.components])
    /\ run' = Idle
    /\ UNCHANGED <<store, components, versions>>

(* Mutant: the index of current versions is left out of the checkpoint.     *)
FailBoundaryKeepingIndex ==
    /\ run # Idle
    /\ store' = run.saved.store
    /\ components' = run.saved.components
    /\ run' = Idle
    /\ UNCHANGED <<boundaries, versions>>

(* A system fails or panics, a write is refused: the transaction restores   *)
(* what it captured.                                                        *)
FailBoundary ==
    /\ run # Idle
    /\ store' = run.saved.store
    /\ components' = run.saved.components
    /\ versions' = run.saved.versions
    /\ run' = Idle
    /\ UNCHANGED boundaries

Next ==
    \/ BeginBoundary \/ ProposeDeltas \/ CommitDeltas
    \/ EvaluateCandidates \/ CommitTransitions \/ ProposeLate
    \/ CommitDeferred \/ JournalBoundary \/ FailBoundary

Spec == Init /\ [][Next]_vars

----------------------------------------------------------------------------
\* The evidence of the settled boundaries and of the running one.
Evidence ==
    IF run = Idle THEN boundaries
    ELSE Append(boundaries, [changes |-> run.changes, components |-> run.components])

\* Where the evidence changes a record, and where it writes a component.
Places(trail, r) ==
    UNION {{<<b, i>> : i \in {j \in DOMAIN trail[b].changes :
                                trail[b].changes[j].ref = r}} : b \in DOMAIN trail}
RecordAt(trail, p) == trail[p[1]].changes[p[2]].record

WritePlaces(trail, e) ==
    UNION {{<<b, i>> : i \in {j \in DOMAIN trail[b].components :
                                trail[b].components[j].entity = e}} : b \in DOMAIN trail}
WriteAt(trail, p) == trail[p[1]].components[p[2]]

Before(p, q) == p[1] < q[1] \/ (p[1] = q[1] /\ p[2] < q[2])
Earliest(places, p) == ~\E q \in places : Before(q, p)
Latest(places, p) == ~\E q \in places : Before(p, q)
Follows(places, p, q) == Before(p, q) /\ ~\E o \in places : Before(p, o) /\ Before(o, q)

TypeOK ==
    /\ Known(store) \subseteq Refs
    /\ \A r \in Known(store) : store.records[r] \in Record
    /\ DOMAIN components \subseteq Refs
    /\ \A r \in DOMAIN versions : versions[r].boundary \in 1..BoundaryId
    /\ run = Idle \/ run.phase \in {7, 9, 10, 11, 12, 13, 14, 15}

(* After every stage, and not only after the last, the store is one a load  *)
(* accepts and no component belongs to an entity that is gone, although the *)
(* writes of five phases with two visibilities meet in one boundary.        *)
Sound ==
    /\ StoreOk(store)
    /\ \A e \in DOMAIN components : e \in Known(store) /\ ~IsDeleted(store, e)

(* The evidence of the settled boundaries and of the running one rebuilds   *)
(* the records and components, each change giving the value it replaced.    *)
RecordsReplay(s, trail) ==
    \A r \in Refs :
        LET places == Places(trail, r)
            version(p) == RecordAt(trail, p).version
        IN  /\ r \in Known(s) <=> places # {}
            /\ \A p \in places :
                  /\ Earliest(places, p) => version(p) = 1
                  /\ Latest(places, p) => s.records[r] = RecordAt(trail, p)
                  /\ \A q \in places : Follows(places, p, q) => version(q) = version(p) + 1

ComponentsReplay(values, trail) ==
    \A e \in Refs :
        LET places == WritePlaces(trail, e)
            write(p) == WriteAt(trail, p)
        IN  /\ e \in DOMAIN values <=> places # {}
            /\ \A p \in places :
                  /\ Earliest(places, p) => write(p).previous = NoRef
                  /\ Latest(places, p) => values[e] = write(p).value
                  /\ \A q \in places :
                        Follows(places, p, q) => write(q).previous = write(p).value

EvidenceReplays == RecordsReplay(store, Evidence) /\ ComponentsReplay(components, Evidence)

(* The index of current versions names, for every record, the change in the *)
(* evidence that made its current version; transition manifests and archive *)
(* dependencies are resolved through it.                                    *)
VersionsEstablished ==
    /\ DOMAIN versions = Known(store)
    /\ \A r \in Known(store) :
        LET v == versions[r]
            changes == IF v.boundary = BoundaryId THEN run.changes
                       ELSE boundaries[v.boundary].changes
        IN  /\ v.boundary = BoundaryId => run # Idle
            /\ v.change \in DOMAIN changes
            /\ changes[v.change].ref = r
            /\ changes[v.change].record.version = v.version
            /\ v.version = store.records[r].version

(* Phase 9 commits exactly what phase 8 was shown, and phase 11 what was     *)
(* validated in phase 10: a stage that was applied when it was proposed is  *)
(* the stage that commits.                                                  *)
CommitsWhatWasShown ==
    (run.phase \in {9, 11} /\ run'.phase = run.phase + 1) =>
        /\ store' = run.visible.store
        /\ DOMAIN components' = DOMAIN components \cup run.visible.components

(* A boundary that fails leaves no trace, one that settles leaves all of its *)
(* writes: nothing it deferred is lost.                                     *)
EndsWholeOrUndone ==
    (run # Idle /\ run' = Idle) =>
        \/ boundaries' # boundaries /\ run.deferred = NoWrites /\ run.ordinary = NoWrites
        \/ /\ boundaries' = boundaries
           /\ [store |-> store', components |-> components', versions |-> versions']
                = run.saved

(* After every stage the store is one a load accepts, and the evidence of   *)
(* the settled boundaries and of the running one rebuilds the records, the  *)
(* components and the index of current versions (settlement.rs, phases 7 to *)
(* 15).                                                                     *)
StagesSound == TypeOK /\ Sound /\ EvidenceReplays /\ VersionsEstablished

(* What phase 8 was shown is what phase 9 commits, and what phase 10        *)
(* validated is what phase 11 does; and a boundary that ends has written    *)
(* everything it deferred or leaves no trace.                               *)
ShownOrUndone == [][CommitsWhatWasShown /\ EndsWholeOrUndone]_vars

=============================================================================
