-------------------------- MODULE BoundaryWindow --------------------------
(***************************************************************************)
(* The boundaries of a window of time (canwu-sim,                          *)
(* runtime/boundary_window.rs): those settled in it, the one being         *)
(* settled, and those still queued.  The scheduler keeps a ledger of       *)
(* settled boundaries as far back as any registered system may look; it is *)
(* trimmed as boundaries settle, rebuilt from the journal on a load, and   *)
(* carried over a seal, whose evidence is gone.                            *)
(***************************************************************************)
EXTENDS Integers, Sequences, FiniteSets, SequencesExt, FiniteSetsExt

CONSTANTS
    Horizons,      \* the schedule horizons that systems declare
    MaxTime,       \* bound on the clock
    MaxIngress,    \* bound on the packets ever issued
    MaxActions,    \* bound on the scheduled actions at one time
    MaxBoundaries  \* bound on the settled boundaries

WindowAssumption == Horizons \subseteq Nat

VARIABLES
    now,       \* RuntimeScheduler::now
    systems,   \* the declared horizons of the registered systems
    closed,    \* RuntimeMetadata::plugin_registration_closed
    ingress,   \* RuntimeEvidence::ingress: due time and issuing boundary
    queue,     \* RuntimeScheduler::pending_ingress
    actions,   \* RuntimeScheduler::actions: how many are due at each time
    journal,   \* RuntimeEvidence::boundaries, sealed or not
    ledger,    \* RuntimeScheduler::settled_boundaries
    run        \* the boundary being settled, or Idle

vars == <<now, systems, closed, ingress, queue, actions, journal, ledger, run>>

Times == 0..MaxTime
Idle == [phase |-> "idle"]

Init ==
    /\ now = 0
    /\ systems = {}
    /\ closed = FALSE
    /\ ingress = <<>>
    /\ queue = {}
    /\ actions = [t \in Times |-> 0]
    /\ journal = <<>>
    /\ ledger = <<>>
    /\ run = Idle

BoundaryId == Len(journal) + 1

(* PluginRegistry::boundary_schedule_horizon *)
Horizon == IF systems = {} THEN 0 ELSE Max(systems)

KeptFrom(t, horizon) == t - horizon

(* summarize_boundary *)
Summary(id, t, admitted) == [id |-> id, at |-> t, count |-> Cardinality(admitted)]

----------------------------------------------------------------------------
(* Mutant: a boundary exactly as old as the horizon is dropped.             *)
RecordSettledStrictly(summary) ==
    Append(SelectSeq(ledger, LAMBDA s : s.at > KeptFrom(summary.at, Horizon)), summary)

(* record_settled_boundary *)
RecordSettled(summary) ==
    Append(SelectSeq(ledger, LAMBDA s : s.at >= KeptFrom(summary.at, Horizon)), summary)

(* rebuild_settled_boundaries, from the full journal                        *)
Rebuilt ==
    IF journal = <<>> THEN <<>>
    ELSE LET kept == SelectSeq(journal,
                        LAMBDA b : b.at >= KeptFrom(Last(journal).at, Horizon))
         IN  [i \in DOMAIN kept |-> Summary(kept[i].id, kept[i].at, kept[i].admitted)]

(* queued_boundaries: one for each due time of the two queues               *)
Queued(from, to) ==
    LET dueAt(t) == {i \in queue : ingress[i].due = t}
        open == {t \in from..to-1 : dueAt(t) # {} \/ (t \in Times /\ actions[t] > 0)}
    IN  {[at |-> t, count |-> Cardinality(dueAt(t))] : t \in open}

(* boundary_window, for a reader that may look back `horizon`               *)
WindowAllowed(horizon, from, to) == from <= to /\ from >= KeptFrom(now, horizon)

Settled(from, to) == SelectSeq(ledger, LAMBDA s : from <= s.at /\ s.at < to)

Current(from, to) ==
    IF run # Idle /\ from <= run.at /\ run.at < to
    THEN {Summary(BoundaryId, run.at, run.admitted)} ELSE {}

Window(from, to) ==
    [settled |-> Settled(from, to), current |-> Current(from, to),
     queued |-> Queued(Max({from, now}), to)]

----------------------------------------------------------------------------
(* Systems are registered before the first boundary settles.                *)
RegisterSystem(horizon) ==
    /\ run = Idle /\ ~closed
    /\ horizon \notin systems
    /\ systems' = systems \cup {horizon}
    /\ UNCHANGED <<now, closed, ingress, queue, actions, journal, ledger, run>>

Issued(due, boundary) == Append(ingress, [due |-> due, boundary |-> boundary])

Enqueue(due) ==
    /\ run = Idle
    /\ Len(ingress) < MaxIngress
    /\ due >= now
    /\ ingress' = Issued(due, 0)
    /\ queue' = queue \cup {Len(ingress) + 1}
    /\ UNCHANGED <<now, systems, closed, actions, journal, ledger, run>>

Schedule(t) ==
    /\ run = Idle
    /\ t >= now /\ actions[t] < MaxActions
    /\ actions' = [actions EXCEPT ![t] = @ + 1]
    /\ UNCHANGED <<now, systems, closed, ingress, queue, journal, ledger, run>>

(* advance: the clock may not cross queued ingress.                         *)
Executed(t) == [x \in Times |-> IF x <= t THEN 0 ELSE actions[x]]

Advance(t) ==
    /\ run = Idle
    /\ t > now
    /\ \A i \in queue : ingress[i].due > t
    /\ now' = t
    /\ actions' = Executed(t)
    /\ UNCHANGED <<systems, closed, ingress, queue, journal, ledger, run>>

(* A packet that a boundary issues with no delay waits for the next one.    *)
Due(t) == {i \in queue : ingress[i].due <= t}

BeginBoundary(t) ==
    /\ run = Idle
    /\ Len(journal) < MaxBoundaries
    /\ t >= now
    /\ \A i \in queue : ingress[i].due >= t
    /\ now' = t
    /\ actions' = Executed(t)
    /\ queue' = queue \ Due(t)
    /\ run' = [phase |-> "settling", at |-> t, admitted |-> Due(t),
               saved |-> [now |-> now, queue |-> queue, actions |-> actions,
                          issued |-> Len(ingress)]]
    /\ UNCHANGED <<systems, closed, ingress, journal, ledger>>

(* append_boundary_ingress: same-boundary proposals of phase 7 are committed *)
(* in phase 9, before the systems of phases 10 to 14 run.                    *)
Propose(delay) ==
    /\ run # Idle
    /\ Len(ingress) < MaxIngress
    /\ run.at + delay <= MaxTime
    /\ ingress' = Issued(run.at + delay, BoundaryId)
    /\ queue' = queue \cup {Len(ingress) + 1}
    /\ UNCHANGED <<now, systems, closed, actions, journal, ledger, run>>

Commit ==
    /\ run # Idle
    /\ journal' = Append(journal,
            [id |-> BoundaryId, at |-> run.at, admitted |-> run.admitted])
    /\ ledger' = RecordSettled(Summary(BoundaryId, run.at, run.admitted))
    /\ closed' = TRUE
    /\ run' = Idle
    /\ UNCHANGED <<now, systems, ingress, queue, actions>>

(* BoundaryTransactionCheckpoint::restore *)
Fail ==
    /\ run # Idle
    /\ now' = run.saved.now
    /\ queue' = run.saved.queue
    /\ actions' = run.saved.actions
    /\ ingress' = SubSeq(ingress, 1, run.saved.issued)
    /\ run' = Idle
    /\ UNCHANGED <<systems, closed, journal, ledger>>

Next ==
    \/ \E h \in Horizons : RegisterSystem(h)
    \/ \E t \in Times :
          Enqueue(t) \/ Schedule(t) \/ Advance(t) \/ BeginBoundary(t) \/ Propose(t)
    \/ Commit \/ Fail

Spec == Init /\ [][Next]_vars

----------------------------------------------------------------------------
TypeOK ==
    /\ now \in Times
    /\ systems \subseteq Horizons
    /\ queue \subseteq DOMAIN ingress
    /\ \A i \in DOMAIN ingress :
          ingress[i].due \in Times /\ ingress[i].boundary \in 0..BoundaryId
    /\ actions \in [Times -> 0..MaxActions]
    /\ run # Idle => run.at = now /\ run.admitted \subseteq DOMAIN ingress

(* The ledger that is trimmed boundary by boundary is the one a load builds  *)
(* from the full journal, so a sealed run, which carries it, sees what an   *)
(* unsealed run sees.                                                       *)
LedgerRebuilt == ledger = Rebuilt

(* check_boundary_ledger_form: a continuation accepts the ledger.            *)
LedgerForm ==
    /\ (ledger = <<>>) <=> (journal = <<>>)
    /\ ledger # <<>> =>
          /\ Last(ledger).id = Len(journal)
          /\ Head(ledger).at >= KeptFrom(Last(ledger).at, Horizon)
          /\ \A i \in 1..Len(ledger) - 1 : ledger[i + 1].id = ledger[i].id + 1

(* Whatever a registered system is allowed to ask for, before or during a    *)
(* boundary, it is told of every boundary that settled in the window.       *)
WindowComplete ==
    \A horizon \in systems \cup {Horizon} : \A from, to \in KeptFrom(0, MaxTime)..MaxTime :
        WindowAllowed(horizon, from, to) =>
            LET settled == SelectSeq(journal, LAMBDA b : from <= b.at /\ b.at < to)
            IN  Window(from, to).settled =
                  [i \in DOMAIN settled |->
                     Summary(settled[i].id, settled[i].at, settled[i].admitted)]

(* A packet is counted once: by the boundary that settled it, by the one     *)
(* that is settling it, or by a queued one.                                 *)
Total(S) == FoldSet(LAMBDA s, n : s.count + n, 0, S)
CountedOnce ==
    \A from \in KeptFrom(now, Horizon)..now :
        LET window == Window(from, MaxTime + 1)
            older == {b \in DOMAIN journal : journal[b].at < from}
            gone == UNION {journal[b].admitted : b \in older}
        IN  FoldLeft(LAMBDA n, s : n + s.count, 0, window.settled)
              + Total(window.current) + Total(window.queued)
            = Cardinality(DOMAIN ingress \ gone)

=============================================================================
