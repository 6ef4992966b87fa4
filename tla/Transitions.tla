---------------------------- MODULE Transitions ----------------------------
(***************************************************************************)
(* Transition manifests (canwu-sim, runtime/transitions.rs): a coordinator *)
(* names the plugins whose writes form one transition, the record versions *)
(* each expects before and after it, and the one boundary in which all of  *)
(* them stage and commit.  The boundary keeps a ledger that starts from    *)
(* the pending manifests; phase 11 audits those that are ready.            *)
(*                                                                         *)
(* A record is its version, 0 while it does not exist: BoundaryStages      *)
(* checks that a version has one establishing change.  One manifest of a   *)
(* lineage is pending at a time, so an attempt number adds no identity.    *)
(***************************************************************************)
EXTENDS Naturals, Sequences, FiniteSets, SequencesExt, FiniteSetsExt

CONSTANTS
    Plugins,
    Coordinators,      \* the plugins that register manifests
    Groups,            \* the sets of participants that manifests name
    Lineages,
    RecordOf,          \* the record each plugin owns
    None,              \* "no version expected"
    Declared,          \* the versions that manifests declare
    MaxPending,        \* MAX_PENDING_TRANSITION_MANIFESTS
    MaxPerCoordinator, \* MAX_PENDING_TRANSITION_MANIFESTS_PER_COORDINATOR
    Horizon,           \* MAX_TRANSITION_READY_HORIZON
    MaxBoundaries,     \* bound on the settled boundaries
    MaxWrites,         \* bound on the record writes of a run
    MaxRegistered      \* bound on the manifests ever registered

TransitionAssumption ==
    /\ IsFiniteSet(Plugins)
    /\ DOMAIN RecordOf = Plugins
    /\ Coordinators \subseteq Plugins
    /\ Groups \subseteq (SUBSET Plugins) \ {{}}
    /\ None \notin Nat
    /\ Declared \subseteq Nat \ {0}
    /\ {MaxPending, MaxPerCoordinator, Horizon} \subseteq Nat

Records == {RecordOf[p] : p \in Plugins}

VARIABLES
    versions,  \* the current version of each record
    pending,   \* RuntimeScheduler::transition_manifests
    journal,   \* RuntimeEvidence::boundaries: registrations, audits, changes
    run        \* the locals of settle_boundary_inner, or Idle

vars == <<versions, pending, journal, run>>

Idle == [phase |-> 0]

Init ==
    /\ versions = [r \in Records |-> 0]
    /\ pending = {}
    /\ journal = <<>>
    /\ run = Idle

BoundaryId == Len(journal) + 1

(* TransitionManifestId *)
IdOf(m) == <<m.coordinator, m.lineage>>

(* BoundaryTransitionLedger::new *)
BeginBoundary ==
    /\ run = Idle
    /\ Len(journal) < MaxBoundaries
    /\ run' = [phase |-> 7, saved |-> versions,
               pending |-> pending, proposed |-> {}, registered |-> <<>>,
               staged |-> <<>>, audits |-> <<>>, postChecks |-> {},
               writes |-> {}, deferred |-> {}, changes |-> <<>>, wrote |-> 0]
    /\ UNCHANGED <<versions, pending, journal>>

----------------------------------------------------------------------------
(* Registration *)

(* ready_at_is_valid: a manifest of phase 7 may be ready in its boundary.   *)
ReadyAtValid(phase, registered, ready) ==
    /\ ready >= (IF phase = 7 THEN registered ELSE registered + 1)
    /\ ready - registered <= Horizon

(* pending_admission_error *)
Admissible(manifests, coordinator, lineage) ==
    LET own == {m \in manifests : m.coordinator = coordinator}
    IN  /\ \A m \in own : m.lineage # lineage
        /\ Cardinality(manifests) < MaxPending
        /\ Cardinality(own) < MaxPerCoordinator

(* What a manifest may expect of a participant's record before and after:    *)
(* nothing, or any version, whatever the record's present one.              *)
Expectations == [pre : Declared \cup {None}, post : Declared \cup {None}]

RegisteredSoFar ==
    Len(FlattenSeq([b \in DOMAIN journal |-> journal[b].registered]))
        + Len(run.registered) + Cardinality(run.proposed)

(* admit_registration, in the phases that may register                      *)
Register ==
    /\ run.phase \in {7, 10, 12}
    /\ RegisteredSoFar < MaxRegistered
    /\ \E coordinator \in Coordinators, lineage \in Lineages,
          participants \in Groups,
          ready \in BoundaryId..MaxBoundaries :
       \E expects \in [participants -> Expectations] :
        /\ ReadyAtValid(run.phase, BoundaryId, ready)
        /\ Admissible(run.pending \cup run.proposed, coordinator, lineage)
        /\ run' = [run EXCEPT !.proposed = @ \cup
                    {[coordinator |-> coordinator, lineage |-> lineage,
                      expects |-> expects, ready |-> ready,
                      registered |-> BoundaryId, phase |-> run.phase]}]
    /\ UNCHANGED <<versions, pending, journal>>

----------------------------------------------------------------------------
(* Writes.  A write expects the version its writer saw or, when it waits    *)
(* for the end of the boundary, the one that a write before it makes.       *)

Writes(r) ==
    {w \in [record : {r}, expects : {versions[r], versions[r] + 1}, same : BOOLEAN,
            phase : {run.phase}] :
        w.expects # versions[r] => ~w.same /\ run.phase # 7}

(* A bundle names a record once: that of a stage, and that of the end of     *)
(* the boundary. Phase 7 tries all its writes as one bundle.                *)
Free(w) ==
    \A other \in run.writes :
        other.record = w.record => run.phase # 7 /\ other.same # w.same

RoomToWrite ==
    Len(FlattenSeq([b \in DOMAIN journal |-> journal[b].changes])) + run.wrote < MaxWrites

(* admit_stage: a participant stages its part of a ready manifest, perhaps  *)
(* without a write; a write it stages later adds to the count.              *)
StagedSoFar(key) == IF key \in DOMAIN run.staged THEN run.staged[key] ELSE 0

StageWrites ==
    /\ run.phase = 10
    /\ \E m \in run.pending : \E p \in DOMAIN m.expects :
       \E writes \in {{}} \cup {{w} : w \in Writes(RecordOf[p])} :
        /\ m.ready = BoundaryId
        /\ \A w \in writes : Free(w) /\ RoomToWrite
        /\ run' = [run EXCEPT
              !.staged = (<<IdOf(m), p>> :>
                            StagedSoFar(<<IdOf(m), p>>) + Cardinality(writes)) @@ @,
              !.writes = @ \cup writes,
              !.wrote = @ + Cardinality(writes)]
    /\ UNCHANGED <<versions, pending, journal>>

(* Any system of phases 7, 10, 12 and 13 writes its records.                *)
PlainWrite ==
    /\ run.phase \in {7, 10, 12, 13}
    /\ RoomToWrite
    /\ \E r \in Records : \E w \in Writes(r) :
        /\ Free(w)
        /\ run' = [run EXCEPT !.writes = @ \cup {w}, !.wrote = @ + 1]
    /\ UNCHANGED <<versions, pending, journal>>

----------------------------------------------------------------------------
(* close_phase: registrations become visible to later phases.               *)
Closed(r) ==
    [r EXCEPT !.pending = @ \cup r.proposed,
              !.registered = @ \o SetToSeq(r.proposed),
              !.proposed = {}]

Fresh(w) == versions[w.record] = w.expects

Bumped(writes) ==
    [r \in Records |->
        IF \E w \in writes : w.record = r THEN versions[r] + 1 ELSE versions[r]]

(* The writes of a stage that are visible in this boundary commit; the      *)
(* others wait for the end, where no two may name one record.               *)
CommitWrites(next) ==
    LET now == {w \in run.writes : w.same}
        later == run.writes \ now
    IN  /\ \A w \in now : Fresh(w)
        /\ \A w \in later, d \in run.deferred : w.record # d.record
        /\ versions' = Bumped(now)
        /\ run' = [next EXCEPT !.writes = {}, !.deferred = @ \cup later,
                               !.changes = @ \o SetToSeq(now)]

(* Phases 7 to 9, 12 and 13.                                                *)
ClosePhase ==
    /\ run.phase \in {7, 12, 13}
    /\ CommitWrites([Closed(run) EXCEPT !.phase = IF run.phase = 7 THEN 10 ELSE @ + 1])
    /\ UNCHANGED <<pending, journal>>

CloseEvaluation ==
    /\ run.phase = 10
    /\ run' = [Closed(run) EXCEPT !.phase = 11]
    /\ UNCHANGED <<versions, pending, journal>>

----------------------------------------------------------------------------
(* settle_ready: the audit before the transition bundle commits.            *)

Ready == {m \in run.pending : m.ready = BoundaryId}
StagedBy(m) == {p \in DOMAIN m.expects : <<IdOf(m), p>> \in DOMAIN run.staged}

(* Mutant: the versions before a transition are not compared.               *)
PreUnchecked(m) == TRUE

PreHolds(m) ==
    \A p \in DOMAIN m.expects :
        m.expects[p].pre # None => versions[RecordOf[p]] = m.expects[p].pre

Outcome(m) == IF StagedBy(m) = {} THEN "expired" ELSE "committed"

(* A manifest that some participants staged must be staged by all.          *)
SettleOk ==
    /\ \A m \in run.pending : m.ready >= BoundaryId
    /\ \A m \in Ready :
          StagedBy(m) # {} => StagedBy(m) = DOMAIN m.expects /\ PreHolds(m)
    /\ \A key \in DOMAIN run.staged : \E m \in Ready : IdOf(m) = key[1]

Audit(m) ==
    [id |-> IdOf(m), outcome |-> Outcome(m), manifest |-> m,
     staged |-> [p \in StagedBy(m) |-> run.staged[<<IdOf(m), p>>]]]

(* check_expected_post, on the committed versions and the deferred writes   *)
(* of phases 7 and 10                                                       *)
PostHolds(after, deferred) ==
    \A m \in {x \in Ready : Outcome(x) = "committed"} : \A p \in DOMAIN m.expects :
        LET r == RecordOf[p]
            later == IF \E w \in deferred : w.record = r THEN 1 ELSE 0
        IN  m.expects[p].post # None => after[r] + later = m.expects[p].post

SettleReady ==
    /\ run.phase = 11
    /\ SettleOk
    /\ CommitWrites([run EXCEPT
            !.phase = 12,
            !.pending = @ \ Ready,
            !.staged = <<>>,
            !.audits = SetToSeq({Audit(m) : m \in Ready})])
    /\ (\E m \in Ready : Outcome(m) = "committed" /\ \E p \in DOMAIN m.expects :
            m.expects[p].post # None)
        => /\ \A w \in run'.deferred : versions'[w.record] = w.expects
           /\ PostHolds(versions', run'.deferred)
    /\ UNCHANGED <<pending, journal>>

----------------------------------------------------------------------------
(* Mutant: a boundary that only audits keeps the pending manifests.         *)
CommitBoundaryKeepingPending ==
    /\ run.phase = 14
    /\ \A w \in run.deferred : Fresh(w)
    /\ versions' = Bumped(run.deferred)
    /\ pending' = IF run.registered = <<>> THEN pending ELSE run.pending
    /\ journal' = Append(journal,
            [registered |-> run.registered, audits |-> run.audits,
             changes |-> run.changes \o SetToSeq(run.deferred)])
    /\ run' = Idle

(* The deferred stage, then finish and the boundary record.                 *)
CommitBoundary ==
    /\ run.phase = 14
    /\ \A w \in run.deferred : Fresh(w)
    /\ versions' = Bumped(run.deferred)
    /\ pending' = run.pending
    /\ journal' = Append(journal,
            [registered |-> run.registered, audits |-> run.audits,
             changes |-> run.changes \o SetToSeq(run.deferred)])
    /\ run' = Idle

(* Any failure rolls the whole boundary back.                               *)
FailBoundary ==
    /\ run # Idle
    /\ versions' = run.saved
    /\ run' = Idle
    /\ UNCHANGED <<pending, journal>>

Next ==
    \/ BeginBoundary \/ Register \/ StageWrites \/ PlainWrite
    \/ ClosePhase \/ CloseEvaluation \/ SettleReady
    \/ CommitBoundary \/ FailBoundary

Spec == Init /\ [][Next]_vars

----------------------------------------------------------------------------
(* validate_snapshot_transitions, run on every load: what the evidence of   *)
(* one boundary makes of the pending manifests.                             *)
Inserted(manifests, m) ==
    IF manifests # None /\ Admissible(manifests, m.coordinator, m.lineage)
    THEN manifests \cup {m} ELSE None

Reconstructed(manifests, b) ==
    LET entry == journal[b]
        valid(m) == m.registered = b /\ ReadyAtValid(m.phase, b, m.ready)
        early == SelectSeq(entry.registered, LAMBDA m : m.phase < 11)
        late == SelectSeq(entry.registered, LAMBDA m : m.phase >= 11)
        before == FoldLeft(Inserted, manifests, early)
        ready == {m \in before : m.ready = b}
        audited == {entry.audits[i].manifest : i \in DOMAIN entry.audits}
        left == before \ ready
    IN  IF before = None THEN None
        ELSE IF /\ \A i \in DOMAIN entry.registered : valid(entry.registered[i])
                /\ ready = audited
                /\ \A i \in DOMAIN entry.audits :
                     LET audit == entry.audits[i]
                     IN  audit.outcome = "expired" => DOMAIN audit.staged = {}
                /\ \A m \in left : m.ready > b
             THEN FoldLeft(Inserted, left, late)
        ELSE None

Rebuilt ==
    LET after[b \in 0..Len(journal)] ==
            IF b = 0 THEN {}
            ELSE IF after[b - 1] = None THEN None
            ELSE Reconstructed(after[b - 1], b)
    IN  after[Len(journal)]

TypeOK ==
    /\ versions \in [Records -> Nat]
    /\ \A m \in pending :
          /\ m.coordinator \in Coordinators /\ m.lineage \in Lineages
          /\ DOMAIN m.expects \in Groups
    /\ Cardinality(pending) <= MaxPending
    /\ run # Idle => run.phase \in {7, 10, 11, 12, 13, 14}

(* The evidence a save keeps rebuilds the pending manifests the run holds;   *)
(* a run that is saved at any boundary can be restored.                     *)
PendingRebuilt == run = Idle => Rebuilt = pending

(* A manifest settles in its ready boundary or is still ahead of it, never   *)
(* further than the horizon, and no lineage has two of them.                *)
SettlesOnTime ==
    run = Idle =>
        \A m \in pending :
            /\ m.ready > Len(journal)
            /\ m.ready - m.registered <= Horizon
            /\ \A other \in pending : IdOf(other) = IdOf(m) => other = m

(* The version of a record when phase 11 audits boundary b, and the one      *)
(* that the writes of phases 7 and 10 of b make of it, from the evidence.   *)
ChangesTo(r, b) == SelectSeq(journal[b].changes, LAMBDA w : w.record = r)
VersionBefore(r, b) ==
    FoldLeft(+, 0, [x \in 1..b-1 |-> Len(ChangesTo(r, x))])
        + Len(SelectSeq(ChangesTo(r, b), LAMBDA w : w.phase = 7 /\ w.same))
VersionMade(r, b) ==
    VersionBefore(r, b)
        + Len(SelectSeq(ChangesTo(r, b),
                        LAMBDA w : w.phase = 10 \/ (w.phase = 7 /\ ~w.same)))

(* A committed transition was staged by every participant, found the         *)
(* versions each expected and made the versions each promised, whatever     *)
(* other systems of the boundary wrote and deferred.                        *)
CommitsAsDeclared ==
    \A b \in DOMAIN journal : \A i \in DOMAIN journal[b].audits :
        LET audit == journal[b].audits[i]
            expects == audit.manifest.expects
        IN  audit.outcome = "committed" =>
              /\ DOMAIN audit.staged = DOMAIN expects
              /\ \A p \in DOMAIN expects :
                    LET r == RecordOf[p]
                    IN  /\ expects[p].pre \in {None, VersionBefore(r, b)}
                        /\ expects[p].post \in {None, VersionMade(r, b)}

(* "Expiry is also the recovery from a boundary that fails on every retry":  *)
(* the audit lets a boundary pass in which no participant stages.           *)
ExpiryRecovers == run.phase = 11 /\ run.staged = <<>> => SettleOk

(* No manifest is lost and none is settled twice: whatever boundaries fail,  *)
(* the evidence shows each manifest registered in one boundary, and audited *)
(* in its ready boundary or still pending; an audit is of a manifest that   *)
(* was registered, and finds that all its participants staged or none did.  *)
(* (BoundaryTransitionLedger::settle_ready, finish)                         *)
RegisteredIn(b) == ToSet(journal[b].registered)
AuditedIn(b) == {a.manifest : a \in ToSet(journal[b].audits)}

WholeAudit(a) ==
    /\ a.id = IdOf(a.manifest)
    /\ DOMAIN a.staged = IF a.outcome = "committed" THEN DOMAIN a.manifest.expects ELSE {}

NoneForgotten ==
    \A b \in DOMAIN journal :
        /\ \A m \in RegisteredIn(b) :
              /\ m.registered = b
              /\ IF m.ready <= Len(journal) THEN m \in AuditedIn(m.ready) ELSE m \in pending
        /\ \A m \in AuditedIn(b) :
              /\ m.ready = b
              /\ m.registered \in DOMAIN journal /\ m \in RegisteredIn(m.registered)
        /\ \A i, j \in DOMAIN journal[b].audits :
              journal[b].audits[i].id = journal[b].audits[j].id => i = j
        /\ \A a \in ToSet(journal[b].audits) : WholeAudit(a)

=============================================================================
