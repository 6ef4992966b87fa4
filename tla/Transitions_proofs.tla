-------------------------- MODULE Transitions_proofs --------------------------
(***************************************************************************)
(* Proofs about transition manifests: each is audited in its ready         *)
(* boundary or still ahead of it, none is lost or settled twice, and a     *)
(* boundary in which nobody stages passes the audit.                       *)
(*                                                                         *)
(* The argument: at any point of a boundary the ledger holds what was      *)
(* pending before it and what it registered so far, without those that its *)
(* audit has settled; a manifest registered after phase 7 is for a later   *)
(* boundary, so the audit sees all that is ready.                          *)
(***************************************************************************)
EXTENDS Transitions, FiniteSetTheorems, SequenceTheorems, TLAPS

-----------------------------------------------------------------------------
(* Lists of sets. *)

(* A list: what it lists is in ToSet.                                       *)
IsList(s) == s \in Seq(ToSet(s))

\* SetToSeq lists exactly the elements of a finite set, each once.
LEMMA SetToSeqLists ==
    ASSUME NEW S, IsFiniteSet(S)
    PROVE  /\ IsList(SetToSeq(S)) /\ ToSet(SetToSeq(S)) = S
           /\ \A i, j \in DOMAIN SetToSeq(S) : SetToSeq(S)[i] = SetToSeq(S)[j] => i = j
<1>1. Cardinality(S) \in Nat /\ ExistsBijection(1 .. Cardinality(S), S)
  BY FS_CardinalityType
<1> DEFINE n == Cardinality(S)
<1>2. \E f \in [1 .. n -> S] : IsInjective(f)
  BY <1>1 DEF ExistsBijection, Bijection, Injection
<1>3. SetToSeq(S) \in [1 .. n -> S] /\ IsInjective(SetToSeq(S))
  BY <1>2 DEF SetToSeq
<1>4. SetToSeq(S) \in Injection(1 .. n, S)
  BY <1>3 DEF Injection
<1>5. Cardinality(1 .. n) = n /\ IsFiniteSet(1 .. n)
  <2>1. Cardinality(1 .. n) = IF 1 > n THEN 0 ELSE n - 1 + 1
    BY <1>1, FS_Interval
  <2> QED  BY <1>1, <2>1, FS_Interval
<1>6. SetToSeq(S) \in Surjection(1 .. n, S)
  BY <1>4, <1>5, FS_Injection
<1>7. \A x \in S : \E i \in 1 .. n : SetToSeq(S)[i] = x
  BY <1>6 DEF Surjection
<1> HIDE DEF n
<1>8. SetToSeq(S) \in Seq(S)
  BY <1>1, <1>3 DEF n
<1>9. ToSet(SetToSeq(S)) = S
  BY <1>3, <1>7 DEF ToSet
<1>10. \A i, j \in DOMAIN SetToSeq(S) : SetToSeq(S)[i] = SetToSeq(S)[j] => i = j
  BY <1>3 DEF IsInjective
<1> QED  BY <1>8, <1>9, <1>10 DEF IsList

\* What one list followed by another lists.
LEMMA ConcatLists ==
    ASSUME NEW s, IsList(s), NEW t, IsList(t)
    PROVE  IsList(s \o t) /\ ToSet(s \o t) = ToSet(s) \cup ToSet(t)
<1> DEFINE U == ToSet(s) \cup ToSet(t)
<1>1. s \in Seq(U) /\ t \in Seq(U)
  BY DEF IsList
<1>2. Len(s) \in Nat /\ Len(t) \in Nat /\ DOMAIN s = 1 .. Len(s) /\ DOMAIN t = 1 .. Len(t)
  BY <1>1
<1>3. s \o t \in Seq(U) /\ Len(s \o t) = Len(s) + Len(t)
  BY <1>1
<1>4. \A i \in 1 .. Len(s) : (s \o t)[i] = s[i]
  BY <1>1
<1>5. \A i \in 1 .. Len(t) : (s \o t)[i + Len(s)] = t[i]
  BY <1>1, <1>2
<1>6. ToSet(s \o t) = U
  <2>1. ToSet(s \o t) \subseteq U
    BY <1>3 DEF ToSet
  <2>2. ASSUME NEW x \in ToSet(s) PROVE x \in ToSet(s \o t)
    <3>1. PICK i \in 1 .. Len(s) : s[i] = x
      BY <1>2 DEF ToSet
    <3>2. i \in DOMAIN (s \o t) /\ (s \o t)[i] = x
      BY <1>2, <1>3, <1>4, <3>1
    <3> QED  BY <3>2 DEF ToSet
  <2>3. ASSUME NEW x \in ToSet(t) PROVE x \in ToSet(s \o t)
    <3>1. PICK i \in 1 .. Len(t) : t[i] = x
      BY <1>2 DEF ToSet
    <3>2. i + Len(s) \in DOMAIN (s \o t) /\ (s \o t)[i + Len(s)] = x
      BY <1>2, <1>3, <1>5, <3>1
    <3> QED  BY <3>2 DEF ToSet
  <2> QED  BY <2>1, <2>2, <2>3
<1> QED  BY <1>3, <1>6 DEF IsList

\* What a list with one more element lists, and where.
LEMMA AppendLists ==
    ASSUME NEW s, IsList(s), NEW e
    PROVE  /\ IsList(Append(s, e)) /\ Len(s) \in Nat
           /\ DOMAIN s = 1 .. Len(s)
           /\ Len(Append(s, e)) = Len(s) + 1
           /\ DOMAIN Append(s, e) = 1 .. Len(s) + 1
           /\ \A i \in DOMAIN s : Append(s, e)[i] = s[i]
           /\ Append(s, e)[Len(s) + 1] = e
<1> DEFINE U == ToSet(s) \cup {e}
<1>1. s \in Seq(U) /\ e \in U
  BY DEF IsList
<1>2. Append(s, e) \in Seq(U) /\ Len(s) \in Nat /\ DOMAIN s = 1 .. Len(s)
  BY <1>1
<1>3. /\ Len(Append(s, e)) = Len(s) + 1
      /\ \A i \in 1 .. Len(s) : Append(s, e)[i] = s[i]
      /\ Append(s, e)[Len(s) + 1] = e
  BY <1>1
<1>4. DOMAIN Append(s, e) = 1 .. Len(s) + 1
  BY <1>2, <1>3
<1>5. ToSet(Append(s, e)) = U
  BY <1>2, <1>3, <1>4 DEF ToSet
<1> QED  BY <1>2, <1>3, <1>4, <1>5 DEF IsList

-----------------------------------------------------------------------------
(* The inductive invariant. *)

(* A manifest as it is registered.                                          *)
ManifestOk(m) ==
    /\ m.coordinator \in Coordinators /\ m.lineage \in Lineages
    /\ DOMAIN m.expects \in Groups
    /\ m.ready \in Nat /\ m.registered \in Nat
    /\ m.ready >= m.registered /\ m.ready - m.registered <= Horizon

(* Manifests that may be pending together.                                  *)
Together(M) ==
    /\ IsFiniteSet(M) /\ Cardinality(M) <= MaxPending
    /\ \A m \in M : ManifestOk(m)
    /\ \A m, other \in M : IdOf(other) = IdOf(m) => other = m

(* Of each settled boundary, with what is pending after all of them.        *)
BoundaryOk(b) ==
    /\ \A m \in RegisteredIn(b) :
          /\ m.ready \in Nat /\ m.ready >= b /\ m.registered = b
          /\ IF m.ready <= Len(journal) THEN m \in AuditedIn(m.ready) ELSE m \in pending
    /\ \A m \in AuditedIn(b) :
          /\ m.ready = b
          /\ m.registered \in DOMAIN journal /\ m \in RegisteredIn(m.registered)
    /\ \A i, j \in DOMAIN journal[b].audits :
          journal[b].audits[i].id = journal[b].audits[j].id => i = j
    /\ \A a \in ToSet(journal[b].audits) : WholeAudit(a)

JournalInv ==
    /\ IsList(journal)
    /\ \A b \in DOMAIN journal : BoundaryOk(b)
    /\ Together(pending)
    /\ \A m \in pending :
          /\ m.ready > Len(journal)
          /\ m.registered \in DOMAIN journal /\ m \in RegisteredIn(m.registered)

(* What a boundary in progress has to settle, in all.                       *)
Known == pending \cup ToSet(run.registered)

Fields == {"phase", "saved", "pending", "proposed", "registered", "staged",
           "audits", "postChecks", "writes", "deferred", "changes", "wrote"}

RunTyped ==
    /\ DOMAIN run = Fields
    /\ run.phase \in {7, 10, 11, 12, 13, 14}
    /\ run.saved \in [Records -> Nat]

(* What is proposed is closed with its phase; what is ready is settled by   *)
(* phase 11, and after phase 7 nothing is registered for this boundary.     *)
RunManifests ==
    /\ Together(run.pending \cup run.proposed)
    /\ IsList(run.registered)
    /\ \A m \in run.proposed \cup ToSet(run.registered) :
          m.registered = BoundaryId /\ m.ready \in Nat /\ m.ready >= BoundaryId
    /\ run.phase > 10 => \A m \in run.proposed : m.ready > BoundaryId
    /\ run.phase \in {11, 13, 14} => run.proposed = {}

(* The ledger before the audit and after it.                                *)
RunLedger ==
    IF run.phase <= 11
    THEN run.pending = Known /\ run.audits = <<>>
    ELSE /\ run.pending = {m \in Known : m.ready > BoundaryId}
         /\ {a.manifest : a \in ToSet(run.audits)} = {m \in Known : m.ready = BoundaryId}
         /\ \A i, j \in DOMAIN run.audits : run.audits[i].id = run.audits[j].id => i = j
         /\ \A a \in ToSet(run.audits) : WholeAudit(a)

RunInv == run # Idle => RunTyped /\ RunManifests /\ RunLedger

Inv ==
    /\ versions \in [Records -> Nat]
    /\ JournalInv
    /\ RunInv

-----------------------------------------------------------------------------
(* Steps inside a boundary. *)

\* The next boundary's number is a number, and the settled ones come before it.
LEMMA BoundaryIdIs ==
    ASSUME JournalInv
    PROVE  Len(journal) \in Nat /\ DOMAIN journal = 1 .. Len(journal) /\ BoundaryId \in Nat
<1>1. Len(journal) \in Nat /\ DOMAIN journal = 1 .. Len(journal)
  BY DEF JournalInv, IsList
<1> QED  BY <1>1 DEF BoundaryId

\* Inside a boundary neither the evidence nor what was pending changes.
LEMMA JournalStays ==
    ASSUME JournalInv, UNCHANGED <<pending, journal>>
    PROVE  JournalInv' /\ BoundaryId' = BoundaryId
BY DEF JournalInv, BoundaryOk, Together, ManifestOk, RegisteredIn, AuditedIn, BoundaryId

\* A part of manifests that may be pending together.
LEMMA PartTogether ==
    ASSUME MaxPending \in Nat, NEW M, Together(M), NEW N \in SUBSET M
    PROVE  Together(N)
<1>1. IsFiniteSet(N) /\ Cardinality(N) <= Cardinality(M)
  BY FS_Subset DEF Together
<1>2. Cardinality(N) \in Nat /\ Cardinality(M) \in Nat
  BY <1>1, FS_CardinalityType DEF Together
<1> QED  BY <1>1, <1>2 DEF Together

\* Writes leave versions that are numbers.
LEMMA BumpedTyped ==
    ASSUME versions \in [Records -> Nat], NEW writes
    PROVE  Bumped(writes) \in [Records -> Nat]
BY DEF Bumped

\* A step of a boundary that leaves the ledger alone.
LEMMA LedgerStays ==
    ASSUME JournalInv, RunInv, run # Idle, UNCHANGED <<pending, journal>>,
           DOMAIN run' = Fields, run'.phase = run.phase, run'.saved = run.saved,
           run'.pending = run.pending, run'.proposed = run.proposed,
           run'.registered = run.registered, run'.audits = run.audits
    PROVE  RunInv'
<1>1. BoundaryId' = BoundaryId
  BY JournalStays
<1>2. RunTyped'
  BY DEF RunInv, RunTyped
<1>3. RunManifests'
  BY <1>1 DEF RunInv, RunManifests, Together, ManifestOk
<1>4. RunLedger'
  BY <1>1 DEF RunInv, RunLedger, Known
<1> QED  BY <1>2, <1>3, <1>4 DEF RunInv

\* What a phase proposed is registered when it closes.
LEMMA PhaseCloses ==
    ASSUME JournalInv, RunInv, run # Idle, UNCHANGED <<pending, journal>>,
           DOMAIN run' = Fields, run'.saved = run.saved,
           run'.pending = run.pending \cup run.proposed,
           run'.registered = run.registered \o SetToSeq(run.proposed),
           run'.proposed = {}, run'.audits = run.audits,
           run'.phase \in {7, 10, 11, 12, 13, 14},
           run'.phase <= 11 <=> run.phase <= 11,
           MaxPending \in Nat
    PROVE  RunInv'
<1>1. BoundaryId' = BoundaryId /\ BoundaryId \in Nat
  BY JournalStays, BoundaryIdIs
<1>2. RunTyped /\ RunManifests /\ RunLedger
  BY DEF RunInv
<1>3. Together(run.proposed)
  BY <1>2, PartTogether DEF RunManifests
<1>4. /\ IsList(SetToSeq(run.proposed))
      /\ ToSet(SetToSeq(run.proposed)) = run.proposed
  BY <1>3, SetToSeqLists DEF Together
<1>5. /\ IsList(run'.registered)
      /\ ToSet(run'.registered) = ToSet(run.registered) \cup run.proposed
  BY <1>2, <1>4, ConcatLists DEF RunManifests
<1>6. Known' = Known \cup run.proposed
  BY <1>5 DEF Known
<1>7. RunTyped'
  BY <1>2 DEF RunTyped
<1>8. RunManifests'
  <2>1. run'.pending \cup run'.proposed = run.pending \cup run.proposed
    OBVIOUS
  <2>2. Together(run.pending \cup run.proposed)'
    BY <1>2, <2>1 DEF RunManifests, Together, ManifestOk
  <2> QED  BY <1>1, <1>2, <1>5, <2>2 DEF RunManifests
<1>9. RunLedger'
  <2>1. CASE run.phase <= 11
    BY <1>2, <1>6, <2>1 DEF RunLedger
  <2>2. CASE ~ (run.phase <= 11)
    <3>1. \A m \in run.proposed : m.ready > BoundaryId /\ m.ready \in Nat
      BY <1>2, <2>2 DEF RunManifests, RunTyped
    <3>2. run'.pending = {m \in Known' : m.ready > BoundaryId}
      BY <1>2, <1>6, <2>2, <3>1 DEF RunLedger
    <3>3. {m \in Known' : m.ready = BoundaryId} = {m \in Known : m.ready = BoundaryId}
      BY <1>1, <1>6, <3>1
    <3> QED  BY <1>1, <1>2, <2>2, <3>2, <3>3 DEF RunLedger, WholeAudit, IdOf
  <2> QED  BY <2>1, <2>2
<1> QED  BY <1>7, <1>8, <1>9 DEF RunInv

-----------------------------------------------------------------------------
(* One lemma for each action. *)

\* Nothing is pending, and no boundary runs.
LEMMA InitKeeps == ASSUME TransitionAssumption, Init PROVE Inv
<1>1. IsList(journal) /\ DOMAIN journal = {} /\ Len(journal) = 0
  BY DEF Init, IsList, ToSet
<1>2. Together(pending)
  BY FS_EmptySet DEF Init, Together, TransitionAssumption
<1> QED  BY <1>1, <1>2 DEF Init, Inv, JournalInv, RunInv, Idle

\* The ledger starts from what is pending.
LEMMA BeginKeeps ==
    ASSUME TransitionAssumption, Inv, BeginBoundary
    PROVE  Inv'
<1>1. JournalInv' /\ BoundaryId' = BoundaryId
  BY JournalStays DEF Inv, BeginBoundary
<1>2. /\ run'.phase = 7 /\ run'.saved = versions /\ run'.pending = pending
      /\ run'.proposed = {} /\ run'.registered = <<>> /\ run'.audits = <<>>
      /\ DOMAIN run' = Fields
  BY DEF BeginBoundary, Fields
<1>3. ToSet(run'.registered) = {} /\ IsList(run'.registered)
  BY <1>2 DEF ToSet, IsList
<1>4. RunTyped'
  BY <1>2 DEF Inv, RunTyped, BeginBoundary
<1>5. RunManifests'
  <2>1. Together(pending)'
    BY <1>1 DEF JournalInv
  <2>2. Together(run.pending \cup run.proposed)'
    BY <1>2, <2>1 DEF BeginBoundary, Together, ManifestOk
  <2> QED  BY <1>2, <1>3, <2>2 DEF RunManifests
<1>6. RunLedger'
  BY <1>2, <1>3 DEF RunLedger, Known, BeginBoundary
<1> QED  BY <1>1, <1>4, <1>5, <1>6 DEF Inv, RunInv, BeginBoundary

\* A registration is admitted next to what is pending and proposed.
LEMMA RegisterKeeps ==
    ASSUME TransitionAssumption, Inv, Register
    PROVE  Inv'
<1>1. PICK coordinator \in Coordinators, lineage \in Lineages, participants \in Groups,
           ready \in BoundaryId .. MaxBoundaries :
      \E expects \in [participants -> Expectations] :
        /\ ReadyAtValid(run.phase, BoundaryId, ready)
        /\ Admissible(run.pending \cup run.proposed, coordinator, lineage)
        /\ run' = [run EXCEPT !.proposed = @ \cup
                    {[coordinator |-> coordinator, lineage |-> lineage,
                      expects |-> expects, ready |-> ready,
                      registered |-> BoundaryId, phase |-> run.phase]}]
  BY DEF Register
<1>0. PICK expects :
        /\ DOMAIN expects = participants
        /\ ReadyAtValid(run.phase, BoundaryId, ready)
        /\ Admissible(run.pending \cup run.proposed, coordinator, lineage)
        /\ run' = [run EXCEPT !.proposed = @ \cup
                    {[coordinator |-> coordinator, lineage |-> lineage,
                      expects |-> expects, ready |-> ready,
                      registered |-> BoundaryId, phase |-> run.phase]}]
  BY <1>1
<1> DEFINE m == [coordinator |-> coordinator, lineage |-> lineage,
                 expects |-> expects, ready |-> ready,
                 registered |-> BoundaryId, phase |-> run.phase]
           M == run.pending \cup run.proposed
<1>2. JournalInv' /\ BoundaryId' = BoundaryId /\ BoundaryId \in Nat
  BY JournalStays, BoundaryIdIs DEF Inv, Register
<1>3. run.phase \in {7, 10, 12} /\ run # Idle /\ UNCHANGED <<versions, pending, journal>>
  BY DEF Register, Idle
<1>4. RunTyped /\ RunManifests /\ RunLedger
  BY <1>3 DEF Inv, RunInv
<1>5. /\ run'.phase = run.phase /\ run'.saved = run.saved /\ run'.pending = run.pending
      /\ run'.proposed = run.proposed \cup {m}
      /\ run'.registered = run.registered /\ run'.audits = run.audits
      /\ DOMAIN run' = Fields
  BY <1>0, <1>4 DEF RunTyped, Fields
<1>6. /\ ready \in Nat /\ ready >= BoundaryId /\ ready - BoundaryId <= Horizon
      /\ run.phase # 7 => ready > BoundaryId
  BY <1>0, <1>1, <1>2 DEF ReadyAtValid
<1>7. ManifestOk(m)
  BY <1>0, <1>2, <1>6 DEF ManifestOk
<1>8. Together(M)
  BY <1>4 DEF RunManifests
<1>9. \A x \in M : IdOf(x) # IdOf(m)
  BY <1>0 DEF Admissible, IdOf
<1>10. Cardinality(M) < MaxPending
  BY <1>0 DEF Admissible
<1>11. Together(M \cup {m})
  <2>1. /\ IsFiniteSet(M) /\ IsFiniteSet(M \cup {m})
        /\ Cardinality(M \cup {m}) = IF m \in M THEN Cardinality(M) ELSE Cardinality(M) + 1
    <3>1. IsFiniteSet(M)
      BY <1>8 DEF Together
    <3> HIDE DEF m, M
    <3> QED  BY <3>1, FS_AddElement
  <2>2. Cardinality(M) \in Nat
    BY <2>1, FS_CardinalityType
  <2>3. Cardinality(M \cup {m}) <= MaxPending
    BY <1>10, <2>1, <2>2 DEF TransitionAssumption
  <2>4. \A x \in M \cup {m} : ManifestOk(x)
    BY <1>7, <1>8 DEF Together
  <2>5. \A x, y \in M \cup {m} : IdOf(y) = IdOf(x) => y = x
    BY <1>8, <1>9 DEF Together
  <2> HIDE DEF m, M
  <2> QED  BY <2>1, <2>3, <2>4, <2>5 DEF Together
<1>12. RunTyped'
  BY <1>4, <1>5 DEF RunTyped
<1>13. RunManifests'
  <2>1. run'.pending \cup run'.proposed = M \cup {m}
    BY <1>5
  <2>2. Together(run.pending \cup run.proposed)'
    <3> HIDE DEF m, M
    <3> QED  BY <1>11, <2>1 DEF Together, ManifestOk
  <2>3. m.registered = BoundaryId /\ m.ready = ready
    OBVIOUS
  <2> HIDE DEF m, M
  <2> QED  BY <1>2, <1>3, <1>4, <1>5, <1>6, <2>2, <2>3 DEF RunManifests
<1>14. RunLedger'
  <2> HIDE DEF m, M
  <2> QED  BY <1>2, <1>3, <1>4, <1>5 DEF RunLedger, Known
<1> QED  BY <1>2, <1>3, <1>12, <1>13, <1>14 DEF Inv, RunInv

\* A participant's stage touches the ledger's stages only.
LEMMA StageKeeps ==
    ASSUME TransitionAssumption, Inv, StageWrites
    PROVE  Inv'
<1>1. run # Idle /\ UNCHANGED <<versions, pending, journal>>
  BY DEF StageWrites, Idle
<1>2. DOMAIN run = Fields
  BY <1>1 DEF Inv, RunInv, RunTyped
<1>3. \E staged, writes, wrote :
        run' = [run EXCEPT !.staged = staged, !.writes = writes, !.wrote = wrote]
  BY DEF StageWrites
<1>4. RunInv'
  BY <1>1, <1>2, <1>3, LedgerStays DEF Inv, Fields
<1> QED  BY <1>1, <1>4, JournalStays DEF Inv

\* A plain write touches the writes only.
LEMMA PlainWriteKeeps ==
    ASSUME TransitionAssumption, Inv, PlainWrite
    PROVE  Inv'
<1>1. run # Idle /\ UNCHANGED <<versions, pending, journal>>
  BY DEF PlainWrite, Idle
<1>2. DOMAIN run = Fields
  BY <1>1 DEF Inv, RunInv, RunTyped
<1>3. \E writes, wrote : run' = [run EXCEPT !.writes = writes, !.wrote = wrote]
  BY DEF PlainWrite
<1>4. RunInv'
  BY <1>1, <1>2, <1>3, LedgerStays DEF Inv, Fields
<1> QED  BY <1>1, <1>4, JournalStays DEF Inv

\* A phase closes and commits what it wrote.
LEMMA ClosePhaseKeeps ==
    ASSUME TransitionAssumption, Inv, ClosePhase
    PROVE  Inv'
<1>1. run.phase \in {7, 12, 13} /\ run # Idle /\ UNCHANGED <<pending, journal>>
  BY DEF ClosePhase, Idle
<1>2. DOMAIN run = Fields
  BY <1>1 DEF Inv, RunInv, RunTyped
<1> DEFINE next == [Closed(run) EXCEPT !.phase = IF run.phase = 7 THEN 10 ELSE @ + 1]
<1>3. /\ DOMAIN next = Fields /\ next.saved = run.saved
      /\ next.pending = run.pending \cup run.proposed
      /\ next.registered = run.registered \o SetToSeq(run.proposed)
      /\ next.proposed = {} /\ next.audits = run.audits
      /\ next.phase = IF run.phase = 7 THEN 10 ELSE run.phase + 1
  BY <1>2 DEF Closed, Fields
<1>4. CommitWrites(next)
  BY DEF ClosePhase
<1> HIDE DEF next
<1>5. \E writes, deferred, changes :
        run' = [next EXCEPT !.writes = writes, !.deferred = deferred, !.changes = changes]
  BY <1>4 DEF CommitWrites
<1>6. /\ DOMAIN run' = Fields /\ run'.saved = run.saved
      /\ run'.pending = run.pending \cup run.proposed
      /\ run'.registered = run.registered \o SetToSeq(run.proposed)
      /\ run'.proposed = {} /\ run'.audits = run.audits
      /\ run'.phase = IF run.phase = 7 THEN 10 ELSE run.phase + 1
  BY <1>3, <1>5 DEF Fields
<1>7. RunInv'
  <2>1. run'.phase \in {7, 10, 11, 12, 13, 14} /\ (run'.phase <= 11 <=> run.phase <= 11)
    BY <1>1, <1>6
  <2> QED  BY <1>1, <1>6, <2>1, PhaseCloses DEF Inv, TransitionAssumption
<1>8. (versions \in [Records -> Nat])'
  BY <1>4, BumpedTyped DEF CommitWrites, Inv
<1> QED  BY <1>1, <1>7, <1>8, JournalStays DEF Inv

\* The evaluation closes; nothing commits before the audit.
LEMMA CloseEvaluationKeeps ==
    ASSUME TransitionAssumption, Inv, CloseEvaluation
    PROVE  Inv'
<1>1. run.phase = 10 /\ run # Idle /\ UNCHANGED <<versions, pending, journal>>
  BY DEF CloseEvaluation, Idle
<1>2. DOMAIN run = Fields
  BY <1>1 DEF Inv, RunInv, RunTyped
<1>3. /\ DOMAIN run' = Fields /\ run'.saved = run.saved
      /\ run'.pending = run.pending \cup run.proposed
      /\ run'.registered = run.registered \o SetToSeq(run.proposed)
      /\ run'.proposed = {} /\ run'.audits = run.audits /\ run'.phase = 11
  BY <1>2 DEF Closed, Fields, CloseEvaluation
<1>4. RunInv'
  BY <1>1, <1>3, PhaseCloses DEF Inv, TransitionAssumption
<1> QED  BY <1>1, <1>4, JournalStays DEF Inv

\* The audits list the manifests that are ready, each once, and find each whole.
LEMMA AuditsList ==
    ASSUME NEW M, Together(M), SettleOk, Ready \subseteq M,
           NEW audits, audits = SetToSeq({Audit(m) : m \in Ready})
    PROVE  /\ {a.manifest : a \in ToSet(audits)} = Ready
           /\ \A i, j \in DOMAIN audits : audits[i].id = audits[j].id => i = j
           /\ \A a \in ToSet(audits) : WholeAudit(a)
<1> DEFINE S == {Audit(m) : m \in Ready}
           f == [m \in Ready |-> Audit(m)]
<1>1. IsFiniteSet(Ready)
  BY FS_Subset DEF Together
<1>2. f \in Surjection(Ready, S)
  BY DEF Surjection
<1>3. IsFiniteSet(S)
  BY <1>1, <1>2, FS_Surjection
<1>4. /\ ToSet(audits) = S
      /\ \A i, j \in DOMAIN audits : audits[i] = audits[j] => i = j
  BY <1>3, SetToSeqLists
<1>5. \A m : Audit(m).manifest = m /\ Audit(m).id = IdOf(m)
  BY DEF Audit
<1>6. {a.manifest : a \in ToSet(audits)} = Ready
  BY <1>4, <1>5
<1>7. ASSUME NEW i \in DOMAIN audits, NEW j \in DOMAIN audits, audits[i].id = audits[j].id
      PROVE  i = j
  <2>1. audits[i] \in S /\ audits[j] \in S
    BY <1>4 DEF ToSet
  <2>2. PICK m \in Ready, x \in Ready : audits[i] = Audit(m) /\ audits[j] = Audit(x)
    BY <2>1
  <2>3. m = x
    BY <1>5, <1>7, <2>2 DEF Together
  <2> QED  BY <1>4, <2>2, <2>3
<1>8. ASSUME NEW m \in Ready PROVE WholeAudit(Audit(m))
  <2>1. DOMAIN Audit(m).staged = StagedBy(m) /\ Audit(m).outcome = Outcome(m)
    BY DEF Audit
  <2>2. CASE StagedBy(m) = {}
    BY <1>5, <2>1, <2>2 DEF WholeAudit, Outcome
  <2>3. CASE StagedBy(m) # {}
    BY <1>5, <2>1, <2>3 DEF WholeAudit, Outcome, SettleOk
  <2> QED  BY <2>2, <2>3
<1> QED  BY <1>4, <1>6, <1>7, <1>8

\* The audit settles what is ready, and leaves what is for a later boundary.
LEMMA SettleKeeps ==
    ASSUME TransitionAssumption, Inv, SettleReady
    PROVE  Inv'
<1>1. run.phase = 11 /\ run # Idle /\ UNCHANGED <<pending, journal>> /\ SettleOk
  BY DEF SettleReady, Idle
<1>2. RunTyped /\ RunManifests /\ RunLedger
  BY <1>1 DEF Inv, RunInv
<1>3. JournalInv' /\ BoundaryId' = BoundaryId /\ BoundaryId \in Nat
  BY <1>1, JournalStays, BoundaryIdIs DEF Inv
<1> DEFINE next == [run EXCEPT
            !.phase = 12,
            !.pending = @ \ Ready,
            !.staged = <<>>,
            !.audits = SetToSeq({Audit(m) : m \in Ready})]
<1>4. CommitWrites(next)
  BY DEF SettleReady
<1>5. /\ DOMAIN next = Fields /\ next.saved = run.saved
      /\ next.pending = run.pending \ Ready
      /\ next.registered = run.registered
      /\ next.proposed = run.proposed
      /\ next.audits = SetToSeq({Audit(m) : m \in Ready})
      /\ next.phase = 12
  BY <1>2 DEF RunTyped, Fields
<1> HIDE DEF next
<1>6. \E writes, deferred, changes :
        run' = [next EXCEPT !.writes = writes, !.deferred = deferred, !.changes = changes]
  BY <1>4 DEF CommitWrites
<1>7. /\ DOMAIN run' = Fields /\ run'.saved = run.saved
      /\ run'.pending = run.pending \ Ready
      /\ run'.registered = run.registered
      /\ run'.proposed = {}
      /\ run'.audits = SetToSeq({Audit(m) : m \in Ready})
      /\ run'.phase = 12
  BY <1>1, <1>2, <1>5, <1>6 DEF Fields, RunManifests
<1>8. Together(run.pending)
  BY <1>2, PartTogether DEF RunManifests, TransitionAssumption
<1>9. Ready \subseteq run.pending
  BY DEF Ready
<1>10. /\ {a.manifest : a \in ToSet(run'.audits)} = Ready
       /\ \A i, j \in DOMAIN run'.audits : run'.audits[i].id = run'.audits[j].id => i = j
       /\ \A a \in ToSet(run'.audits) : WholeAudit(a)
  BY <1>1, <1>7, <1>8, <1>9, AuditsList
<1>11. run.pending = Known /\ Known' = Known
  BY <1>1, <1>2, <1>7 DEF RunLedger, Known
<1>12. \A m \in run.pending : m.ready \in Nat /\ m.ready >= BoundaryId
  BY <1>1, <1>8 DEF Together, ManifestOk, SettleOk
<1>13. Ready = {m \in Known : m.ready = BoundaryId}
  BY <1>11 DEF Ready
<1>14. run'.pending = {m \in Known : m.ready > BoundaryId}
  BY <1>3, <1>7, <1>11, <1>12, <1>13
<1>15. RunTyped'
  BY <1>2, <1>7 DEF RunTyped
<1>16. RunManifests'
  <2>1. run'.pending \cup run'.proposed \in SUBSET run.pending
    BY <1>7
  <2>2. Together(run'.pending \cup run'.proposed)
    BY <1>8, <2>1, PartTogether DEF TransitionAssumption
  <2>3. Together(run.pending \cup run.proposed)'
    BY <2>2 DEF Together, ManifestOk
  <2> QED  BY <1>2, <1>3, <1>7, <2>3 DEF RunManifests
<1>17. RunLedger'
  <2>1. (run.pending = {m \in Known : m.ready > BoundaryId})'
    BY <1>3, <1>11, <1>14
  <2>2. ({a.manifest : a \in ToSet(run.audits)} = {m \in Known : m.ready = BoundaryId})'
    BY <1>3, <1>10, <1>11, <1>13
  <2>3. (\A i, j \in DOMAIN run.audits : run.audits[i].id = run.audits[j].id => i = j)'
    BY <1>10
  <2>4. (\A a \in ToSet(run.audits) : WholeAudit(a))'
    BY <1>10 DEF WholeAudit, IdOf
  <2>5. ~ (run'.phase <= 11)
    BY <1>7
  <2> QED  BY <2>1, <2>2, <2>3, <2>4, <2>5 DEF RunLedger
<1>18. (versions \in [Records -> Nat])'
  BY <1>4, BumpedTyped DEF CommitWrites, Inv
<1> QED  BY <1>1, <1>3, <1>15, <1>16, <1>17, <1>18 DEF Inv, RunInv

\* The evidence takes over what the boundary registered and audited.
LEMMA CommitKeeps ==
    ASSUME TransitionAssumption, Inv, CommitBoundary
    PROVE  Inv'
<1>1. run.phase = 14 /\ run # Idle /\ run' = Idle /\ pending' = run.pending
  BY DEF CommitBoundary, Idle
<1>2. RunTyped /\ RunManifests /\ RunLedger /\ JournalInv
  BY <1>1 DEF Inv, RunInv
<1> DEFINE n == Len(journal)
<1>3. /\ n \in Nat /\ DOMAIN journal = 1 .. n /\ BoundaryId = n + 1
  BY <1>2, BoundaryIdIs DEF BoundaryId
<1> DEFINE e == [registered |-> run.registered, audits |-> run.audits,
                 changes |-> run.changes \o SetToSeq(run.deferred)]
<1>4. journal' = Append(journal, e) /\ e.registered = run.registered /\ e.audits = run.audits
  BY DEF CommitBoundary
<1> HIDE DEF e
<1>5. /\ IsList(journal') /\ Len(journal') = n + 1 /\ DOMAIN journal' = 1 .. n + 1
      /\ \A b \in 1 .. n : journal'[b] = journal[b]
      /\ journal'[n + 1] = e
  BY <1>2, <1>3, <1>4, AppendLists DEF JournalInv
<1> HIDE DEF n
<1> DEFINE R(b) == ToSet(journal'[b].registered)
           A(b) == {a.manifest : a \in ToSet(journal'[b].audits)}
<1>6. \A b \in 1 .. n : R(b) = RegisteredIn(b) /\ A(b) = AuditedIn(b)
  BY <1>5 DEF RegisteredIn, AuditedIn
<1>7. R(n + 1) = ToSet(run.registered)
  BY <1>4, <1>5
<1>8. A(n + 1) = {m \in Known : m.ready = n + 1}
  <2>1. A(n + 1) = {a.manifest : a \in ToSet(run.audits)}
    BY <1>4, <1>5
  <2>2. {a.manifest : a \in ToSet(run.audits)} = {m \in Known : m.ready = BoundaryId}
    BY <1>1, <1>2 DEF RunLedger
  <2>3. {m \in Known : m.ready = BoundaryId} = {m \in Known : m.ready = n + 1}
    BY <1>3
  <2> HIDE DEF A
  <2> QED  BY <2>1, <2>2, <2>3
<1> HIDE DEF R, A
<1>9. pending' = {m \in Known : m.ready > n + 1}
  BY <1>1, <1>2, <1>3 DEF RunLedger
<1>10. \A m \in Known : m.ready \in Nat
  BY <1>2 DEF JournalInv, Together, ManifestOk, RunManifests, Known
<1>11. ASSUME NEW m \in Known
       PROVE  m.registered \in 1 .. n + 1 /\ m \in R(m.registered)
  <2>1. CASE m \in pending
    <3>1. m.registered \in 1 .. n /\ m \in RegisteredIn(m.registered)
      BY <1>2, <1>3, <2>1 DEF JournalInv
    <3> QED  BY <1>3, <1>6, <3>1
  <2>2. CASE m \in ToSet(run.registered)
    <3>1. m.registered = n + 1
      BY <1>2, <1>3, <2>2 DEF RunManifests
    <3> QED  BY <1>3, <1>7, <2>2, <3>1
  <2> QED  BY <2>1, <2>2 DEF Known
<1>12. ASSUME NEW b \in 1 .. n + 1 PROVE BoundaryOk(b)'
  <2>1. ASSUME NEW m \in R(b)
        PROVE  /\ m.ready \in Nat /\ m.ready >= b /\ m.registered = b
               /\ IF m.ready <= n + 1 THEN m \in A(m.ready) ELSE m \in pending'
    <3>1. CASE b \in 1 .. n
      <4>1. /\ m.ready \in Nat /\ m.ready >= b /\ m.registered = b
            /\ IF m.ready <= n THEN m \in AuditedIn(m.ready) ELSE m \in pending
        BY <1>2, <1>3, <1>6, <2>1, <3>1 DEF JournalInv, BoundaryOk, n
      <4>2. CASE m.ready <= n
        <5>1. m.ready \in 1 .. n
          BY <1>3, <3>1, <4>1, <4>2
        <5>2. m \in A(m.ready)
          BY <1>6, <4>1, <4>2, <5>1
        <5> QED  BY <1>3, <4>1, <4>2, <5>2
      <4>3. CASE ~ (m.ready <= n)
        <5>1. m \in Known
          BY <4>1, <4>3 DEF Known
        <5> QED  BY <1>3, <1>8, <1>9, <4>1, <4>3, <5>1
      <4> QED  BY <4>2, <4>3
    <3>2. CASE b = n + 1
      <4>1. m \in ToSet(run.registered) /\ m \in Known
        BY <1>7, <2>1, <3>2 DEF Known
      <4>2. m.ready \in Nat /\ m.ready >= n + 1 /\ m.registered = n + 1
        BY <1>2, <1>3, <4>1 DEF RunManifests
      <4> QED  BY <1>3, <1>8, <1>9, <3>2, <4>1, <4>2
    <3> QED  BY <1>3, <3>1, <3>2
  <2>2. ASSUME NEW m \in A(b)
        PROVE  /\ m.ready = b
               /\ m.registered \in 1 .. n + 1 /\ m \in R(m.registered)
    <3>1. CASE b \in 1 .. n
      <4>1. /\ m.ready = b /\ m.registered \in 1 .. n
            /\ m \in RegisteredIn(m.registered)
        BY <1>2, <1>3, <1>6, <2>2, <3>1 DEF JournalInv, BoundaryOk
      <4> QED  BY <1>3, <1>6, <4>1
    <3>2. CASE b = n + 1
      BY <1>8, <1>11, <2>2, <3>2
    <3> QED  BY <1>3, <3>1, <3>2
  <2>3. /\ \A i, j \in DOMAIN journal'[b].audits :
              journal'[b].audits[i].id = journal'[b].audits[j].id => i = j
        /\ \A a \in ToSet(journal'[b].audits) : WholeAudit(a)
    <3>1. CASE b \in 1 .. n
      BY <1>2, <1>3, <1>5, <3>1 DEF JournalInv, BoundaryOk
    <3>2. CASE b = n + 1
      BY <1>1, <1>2, <1>4, <1>5, <3>2 DEF RunLedger
    <3> QED  BY <1>3, <3>1, <3>2
  <2> QED  BY <1>5, <2>1, <2>2, <2>3
           DEF BoundaryOk, RegisteredIn, AuditedIn, WholeAudit, IdOf, R, A
<1>13. Together(pending)'
  <2>1. Together(run.pending)
    BY <1>2, PartTogether DEF RunManifests, TransitionAssumption
  <2> QED  BY <1>1, <2>1 DEF Together, ManifestOk
<1>14. JournalInv'
  <2>1. \A m \in pending' : /\ m.ready > Len(journal')
                            /\ m.registered \in DOMAIN journal'
                            /\ m \in R(m.registered)
    BY <1>5, <1>9, <1>11
  <2> QED  BY <1>5, <1>12, <1>13, <2>1 DEF JournalInv, RegisteredIn, R
<1>15. (versions \in [Records -> Nat])'
  BY BumpedTyped DEF CommitBoundary, Inv
<1> QED  BY <1>1, <1>14, <1>15 DEF Inv, RunInv

\* A boundary that fails leaves what was pending before it.
LEMMA FailKeeps ==
    ASSUME TransitionAssumption, Inv, FailBoundary
    PROVE  Inv'
<1>1. run # Idle /\ run' = Idle /\ versions' = run.saved /\ UNCHANGED <<pending, journal>>
  BY DEF FailBoundary
<1>2. (versions \in [Records -> Nat])'
  BY <1>1 DEF Inv, RunInv, RunTyped
<1> QED  BY <1>1, <1>2, JournalStays DEF Inv, RunInv

\* Nothing happens.
LEMMA StutterKeeps == ASSUME Inv, UNCHANGED vars PROVE Inv'
<1>1. UNCHANGED <<versions, pending, journal, run>>
  BY DEF vars
<1>2. JournalInv' /\ BoundaryId' = BoundaryId
  BY <1>1, JournalStays DEF Inv
<1>3. RunInv'
  BY <1>1, <1>2 DEF Inv, RunInv, RunTyped, RunManifests, RunLedger, Known, Together,
     ManifestOk, WholeAudit, IdOf
<1> QED  BY <1>1, <1>2, <1>3 DEF Inv

\* The invariant is inductive.
LEMMA Inductive == ASSUME TransitionAssumption PROVE Spec => []Inv
<1>1. Init => Inv
  BY InitKeeps
<1>2. Inv /\ [Next]_vars => Inv'
  <2> SUFFICES ASSUME Inv, [Next]_vars PROVE Inv'
    OBVIOUS
  <2>1. CASE BeginBoundary
    BY <2>1, BeginKeeps
  <2>2. CASE Register
    BY <2>2, RegisterKeeps
  <2>3. CASE StageWrites
    BY <2>3, StageKeeps
  <2>4. CASE PlainWrite
    BY <2>4, PlainWriteKeeps
  <2>5. CASE ClosePhase
    BY <2>5, ClosePhaseKeeps
  <2>6. CASE CloseEvaluation
    BY <2>6, CloseEvaluationKeeps
  <2>7. CASE SettleReady
    BY <2>7, SettleKeeps
  <2>8. CASE CommitBoundary
    BY <2>8, CommitKeeps
  <2>9. CASE FailBoundary
    BY <2>9, FailKeeps
  <2>10. CASE UNCHANGED vars
    BY <2>10, StutterKeeps
  <2> QED
    BY <2>1, <2>2, <2>3, <2>4, <2>5, <2>6, <2>7, <2>8, <2>9, <2>10 DEF Next
<1> QED  BY <1>1, <1>2, PTL DEF Spec

-----------------------------------------------------------------------------
(* The theorems. *)

\* Whatever boundaries fail, a registered manifest is pending until its ready
\* boundary and audited there, once, and found staged by all its participants
\* or by none (BoundaryTransitionLedger).
THEOREM NoneLost == ASSUME TransitionAssumption PROVE Spec => []NoneForgotten
<1>1. Inv => NoneForgotten
  BY DEF Inv, JournalInv, BoundaryOk, NoneForgotten
<1> QED  BY <1>1, Inductive, PTL

\* A pending manifest is ahead of its ready boundary by no more than the horizon,
\* one for each identity, no more of them than the scheduler admits, and a
\* boundary in which no participant stages passes the audit: no manifest can
\* hold up the run for good (settle_ready, pending_admission_error).
THEOREM SettlesInTime ==
    ASSUME TransitionAssumption
    PROVE  Spec => [](TypeOK /\ SettlesOnTime /\ ExpiryRecovers)
<1>1. Inv => TypeOK
  BY DEF Inv, JournalInv, Together, ManifestOk, RunInv, RunTyped, TypeOK
<1>2. Inv => SettlesOnTime
  BY DEF Inv, JournalInv, Together, ManifestOk, SettlesOnTime
<1>3. Inv => ExpiryRecovers
  <2> SUFFICES ASSUME Inv, run.phase = 11, run.staged = <<>> PROVE SettleOk
    BY DEF ExpiryRecovers
  <2>1. RunManifests /\ RunLedger /\ JournalInv
    BY DEF Inv, RunInv, Idle
  <2>2. \A m \in run.pending : m.ready >= BoundaryId
    <3>1. BoundaryId = Len(journal) + 1 /\ Len(journal) \in Nat
      BY <2>1, BoundaryIdIs DEF BoundaryId
    <3>2. \A m \in pending : m.ready \in Nat /\ m.ready > Len(journal)
      BY <2>1 DEF JournalInv, Together, ManifestOk
    <3>3. run.pending = pending \cup ToSet(run.registered)
      BY <2>1 DEF RunLedger, Known
    <3> QED  BY <2>1, <3>1, <3>2, <3>3 DEF RunManifests
  <2>3. DOMAIN run.staged = {}
    OBVIOUS
  <2>4. \A m : StagedBy(m) = {}
    BY <2>3 DEF StagedBy
  <2> QED  BY <2>2, <2>3, <2>4 DEF SettleOk
<1> QED  BY <1>1, <1>2, <1>3, Inductive, PTL
=============================================================================
