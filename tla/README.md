# A verification project for canwu

canwu is a deterministic historical-simulation engine in Rust.  A host holds a
`Simulation`, feeds it ingress (commands, plugin packets, calendar events, decision
requests), and settles *boundaries*: atomic, phased transactions at one simulation
time.  Domain rules are plugins, here called extensions: law, military engagements,
movement, correspondence, information, resources, production and more.  Everything a
run did can be saved, validated and replayed from its journals, so the engine lives by
two promises: a call that fails leaves no trace, and what the journals say is what
happened.

This directory holds TLA+ modules translated from the code under `src/`, TLC
configurations that check them on small instances, and TLAPS proofs about them.
`PROJECT.json` names, for every definition that models code, the lines it stands for;
it also lists the components, the hazards and the properties that cover them, the
runs, one mutant for each property of each passing run, and the theorems.

Paths below are relative to `src/crates/runtime/canwu-sim/src/` unless they start with
`canwu-` (a crate under `src/crates/`) or `docs/`.


## 1. The system and its parts

A `Simulation` is owned by one thread (`&mut self`); nothing in the kernel runs
concurrently.  What makes it hard is different: long calls with many fallible steps,
three nested kinds of checkpoint that restore different parts of the state, callbacks
of plugins in the middle (command handlers, event reactors, boundary systems), state
that is read at one time and acted on at a later one (queued commands, prepared
decisions, prepared archive commits, packets an extension scheduled for itself), host
calls in any order between them, and derived data (indexes, counters, ledgers) that is
maintained by hand while the run lives and rebuilt by other code when it is loaded.

The parts interact in three ways.  The host calls the runtime.  The runtime calls the
plugins, inside a boundary, and applies what they return: directives, proposals,
record mutations, draws, knowledge.  Extensions speak to each other and to themselves
only through ingress packets and through records, of which a boundary shows each the
state its phase is allowed to see.

| part (source) | state | operations | correct when |
| --- | --- | --- | --- |
| ingress journal and queue (`runtime/ingress.rs`) | the append-only journal, the ordered queue, withdrawals, the next identifier | enqueue, withdraw, admit, `take_due_ingress`, `step_canonical` | identifiers are not reused, every record has one fate, the queue can be recomputed from the journal, nothing is left behind the clock |
| scheduler and legacy advance (`runtime/scheduling.rs`) | clock, scheduled actions, events | `advance`, `step`, `schedule_at`, reactors | a failing batch is undone as a whole, time passes over no queued record |
| settlement boundary (`runtime/settlement.rs`, `boundary.rs`) | the phases' overlays and proposals | `settle_boundary` | it is atomic, admits what is due, commits what it staged and showed |
| transaction checkpoints (`runtime/transactions.rs`) | saved counters, queue, journal lengths | capture, restore | what a failed call could have changed is what comes back |
| command history (`runtime/state.rs`, `persistence.rs`, `continuation.rs`) | journals above the archived cut, archived tables, the history index | submit, enqueue, seal, checkpoint, restore | a request runs once and its answer does not depend on seals and restores |
| decisions (`canwu-decision`, `runtime/decision.rs`, `persons.rs`) | tickets with versions, three indexes, traces, attempts, receipts | seven mutations, expiry, archive commits | indexes agree with tickets, a version changes once, nothing is hot and archived |
| domain records (`runtime/records.rs`) | versioned records, references, successors, indexes | bundles | the whole store stays valid though only the affected part is checked |
| knowledge (`canwu-knowledge`, `runtime/knowledge.rs`) | bodies, holders' entries, counts, commitments, the budget | publish, supersede, retire | derived data is exact, shares are kept, a load gives the same ledgers |
| transition manifests, reservations, boundary window, random draws | pending manifests; offers and requests; the ledger of settled boundaries; streams and keyed draws | see the modules | what is promised is settled when and as declared, shared within the offer, listed once, drawn once |
| resource and production (`canwu-resource`, `canwu-production`) | leases, grants, locks, tokens; accounts, demands, transfers | acquire, grant, prepare, activate, redeem; allocate, certify, debit, deliver | nothing is spent twice or held for ever, the books balance |
| movement, transport (`canwu-movement`, `canwu-transport`) | orders, legs, dues, bookings, pools | dispatch, hold, reroute, revoke, settle dues | pools balance, each due has one packet, nothing waits for nothing |
| correspondence (`canwu-correspondence`) | operation, execution, dispatch and attempts | start, progress, incidents, seizure, retry | a letter comes to an end and both sides agree on which |
| information (`canwu-information`) | operations, chunks, publications, delegations | accept, plan, publish, close | everybody is told, once, within the budget |
| law (`canwu-law`) | versions, schedule, projections; procedures, seats, outbox | adopt, publish, apply; stages, votes, expiry | what is in force is what a load derives; stages count only timely votes |
| military (`canwu-military`) | forces, fights, sieges, crossings, report queue | commands, a pass over due work, closing | roles agree, losses add up, no work is forgotten |

The hazards of these parts, each at its line with the properties that cover it, are
the list `hazards` of `PROJECT.json`.


## 2. Modules

Component modules translate code; the two abstract ones, `IngressLedger` and
`TicketBook`, say what a component promises.

### Runtime

**`Kernel`**: journal and queue, command admission, scheduler, boundary, rollback.  A
host call is atomic to its callers, but `settle_boundary` and `advance` are split into
the steps of their loops, because each may fail and what must be undone depends on
which checkpoint is open.  `pc` says where the running call is, `run` holds its locals,
`todo` the directives still to apply, `saved` the boundary checkpoint and `batch` the
command or scheduled-batch checkpoint.  No host call starts unless `pc = "idle"`.

| variables | code |
| --- | --- |
| `now`, `pending`, `cancelled`, `actions` | `RuntimeScheduler` |
| `ingress`, `events`, `attempts`, `boundaries` | `RuntimeEvidence` |
| `revision`, `nextId`, `nextSeq`, `cursor` | `RuntimeCounters` (`cursor` is `admitted_event_count`) |

| actions | code |
| --- | --- |
| `EnqueueCommand`, `EnqueuePlugin`, `ScheduleCalendar`, `CancelPlugin` | the host's calls of `ingress.rs` |
| `BeginAdvance`, `BeginBatch`, `RunScheduled`, `EndScheduled`, `FinishAdvance`, `RollBackBatch` | `advance`, `advance_to`, `execute_scheduled` |
| `SettleBoundary`, `StepCanonical`, `TakeDueIngress` | `settle_boundary_transaction`, `step_canonical`, `take_due_ingress` |
| `AdmitPacket`, `RejectCommand`, `BeginCommand`, `EndApply`, `RollBackCommand`, `HandlerPanics`, `RecordLost`, `EndAdmission` | the admission loop and `admit_command` |
| `ApplyEmit`, `ApplySchedule`, `ApplyEnqueue` | `apply_directives`, `emit`, `schedule_at` |
| `SystemSchedules`, `SystemCancels`, `SystemEmits`, `SystemFails` | boundary system dispatch |
| `Commit`, `RollBackBoundary` | the end of `settle_boundary_inner`, and its failure |

Abstracted: payloads, entities, correlation identifiers and hashes.  A command's
handler returns any program of `Programs`, a reactor any of `Reactions`; a directive
that cannot be applied is `fail`.  A command may always be rejected before it changes
anything (authority, issuer, payload, time), and one whose revision is stale always is.
A queue is a set of keys with the order of `IngressQueueKey`.  Boundary systems take
their steps in any order.  The built-in scheduled work (arrivals, reports) is an action
that emits or fails.

**`IngressLedger`** is the host's view: a clock, an append-only journal, the set each
boundary admitted, the withdrawals.  Its `Settle` is one step: of a boundary that fails
nothing is seen.  `Kernel!ImplementsLedger` maps the committed state, which is the open
checkpoint while a call runs, to it; so the refinement says at once that calls are
atomic, that each boundary admits exactly what is due, that time passes over no record,
and that a withdrawal comes before its record is due.  Two things the code does are in
the ledger, too.  A record a reactor issued is `loose`: the clock need not wait for it
(finding 1), and it may be admitted by the boundary that issued it.  And `intact` tells
whether a refused call has left a packet behind (section 4); from then on the ledger only
promises that nothing is taken back (`Broken`).

**`CommandAdmission`**: the three ways a command comes in (direct, queued, nested in a
decision), the answers to retries, retention, seals, continuation checkpoints and
restores.  `evidence` is the part of `RuntimeEvidence` admission asks; operators on it
are the code's functions from one such state to the next.  The journals are kept whole
and `cut` says how much of them is sealed; no operator of the code reads below the cut
but through pinned records, the tables, and the restore that has the segments.

**`RandomDraws`**: sequential streams, the keyed-draw ledger with retirement, the ids
handed out before a boundary commits, and the rebuilds of the ledger from the journal or
from a continuation's entries.  **`BoundaryWindow`**: the ledger of settled boundaries,
trimmed live, rebuilt on load, carried over a seal, and the windows systems read.

**`RecordStore`** (operators on a store of records: mutations, indexes, the affected
closure) and **`RecordBundles`** (a store over any sequence of accepted bundles).
**`BoundaryStages`** composes `RecordStore` into the phases of a boundary: what is
staged in phases 7 to 13, on which overlay, and when it commits.  **`Transitions`**:
registration, readiness, audit and expiry of transition manifests.  **`Reservations`**:
the offers, requests and allocations of phase 6 and the check a load makes of them.

**`KnowledgeBook`** (the content of the ledgers), **`HolderLedgers`** (it with its
counts, its digest index and its commitment) and **`KnowledgePublication`** (it used by
a boundary: cuts, budget, ids, commit, retention, and the load that rebuilds it).

### Decisions

**`Decisions`**: `book` is the `DecisionState`; each mutation is a pair `CanX`/`X` of the
guard and the new state, so `Applied` is `DecisionState::apply`, its trailing
`advance_time` included.  The host's calls are `EnqueueDecision`, `EnqueueArchive`,
`Advance`; a boundary is `BeginBoundary`, then `AcceptDecision` or `RejectDecision` of
each request taken, then `ApplyArchive` of each commit, `EndAdmission` (expiry),
`ResolveAtRandom` by its systems, and `Commit`, or `FailBoundary` at any point.
Abstracted: the queue is `Kernel`'s, and a boundary never passes queued ingress, so all
it takes is due at its own time; a request ID is its position in the journal; a nested
command is a step of the revision; options, policies and evaluations are left out; two
archive roots are equal exactly when the histories are; the tickets a boundary opened are
a set, without their order.  Hosts may open a ticket under an ID that is archived, as
the code lets them (section 4).
**`TicketBook`**: one ticket opens once, closes once, by a resolution no later than its
deadline, by expiry after it or by a cancellation, and may then be archived; the ID of
an archived ticket may be used once more, by a ticket that is not archived;
`Decisions!ImplementsBook` maps the committed tickets to it.

### Extensions

In an extension's module a step is a command, a packet or a boundary's pass, as the
plugin's dispatch has them; handlers are operators from one state to the set of the next
ones, empty where the code refuses, since the code works on a candidate copy.

| module | models | left to |
| --- | --- | --- |
| `CompletionLeases` | leases: budget, tokens and slots, grants, locks, activation, redemption, expiry by self-queued ticks | |
| `CompletionCoordinator` | a lease coordinated by production with resource as the other participant; the host carries messages in any order or never | |
| `ResourceAccounts` | accounts with floors, demands, allocation, access grants, transfers and escrow, archive commits | |
| `CapacityPools`, `Movement` | pools and bookings (operators); orders, legs, holds, reroutes, seizures, dues and their packets | |
| `Correspondence` | one letter: legs, incidents, seizure reports, replanning, retries, against the dispatch and attempts of the information extension | |
| `InformationOperations` | operations accepted, planned and published in chunks; delegations | |
| `LawRules`, `LawProcedures` | the versions of a rule; one procedure with its stages, seats and votes | adoption is `LawRules`, how a vote passes `LawProcedures` |
| `Engagements` | forces, fights, sieges, crossings, the pass over due work; the resolver's outcome is chosen | |


## 3. Runs

A run plays several *scenes*: instances of component modules with different constants,
side by side in one state space.  The variable `scene` is chosen in the initial state
and never changes; a scene's step is the component's `Next` on its own variables, and
the variables it does not use stay `Off`.  A property of a run is the conjunction of
the component's properties in each scene, `scene = "x" => X!Property`, so a scene
checks exactly what a run of its own would.

| run | states | scenes and bounds |
| --- | --- | --- |
| `Kernel` | 1.09 million | `commands`: two requests, two priorities, a packet class behind commands, three records, times 0 and 1, programs that are refused half way, scheduled work that fails. `packets`: two plugins, one driven by events and one by cadence, that issue and withdraw packets, one failing system. `reactions`: one command, depth 2, reactions that emit again or fail at the limit. `issuing`: reactions that issue a packet, due before and after the target of an advance. `traces`: a command that is refused after it issued a packet, and calls before, in between and after |
| `Decisions` | 2.3 million | `life`: one ticket with deadline 0, resolved, deferred, extended to 1, requests at times before, at and after. `lineage`: a parent and a follow-up, three controllers of which two share a seat, people who come and go. `archive`: commits queued together, a failing boundary. `reuse`: a ticket that is resolved, archived and opened again under its ID |
| `Continuity` | 0.2 million | `retries`: two requests, one of which may be a decision's, a retention of one minute and times 0 to 2, so that outcomes are younger, exactly as old, and older, and everything recorded asks for one input while the answers are asked for both. `draws`: two systems, keyed draws that retire. `window`: systems that look back one and two instants |
| `Boundary` | 1.8 million | `stages`: records and components written in every phase, visible now or next. `pending`: two coordinators, two lineages. `writes`: two participants and another system with three writes in the boundary, of one record or of two, visible now or next, in any of the phases; the manifest declares any versions. `ahead`: two writes around a manifest that is registered a boundary ahead. `reservations`: two systems that offer and ask from two pools |
| `Stores` | 0.2 million | `records`: bundles over a few records that reference and succeed each other. `ledgers`: one holder, kinds and subjects whose digests collide. `shared ledgers`: two holders of common bodies. `publication`: three systems of two plugins under a narrow budget. `chains`: two boundaries that supersede in chains |
| `Resources` | 0.9 million | `provider`: a lease of two participants. `leases`: two leases of two authorities. `room`: two leases that are granted while other work fills the root, with expiries that do not fit, archive commits, ticks of the host and expiries other plugins send. `admission`: five leases that only ask, two pending for each authority at most. `coordinator`: one lease passed between plugins. `transfers`, `grant`, `order`: demands on accounts of at most three units |
| `Polity` | 1.0 million | `versions`, `publicity`: a few proposals on one rule and a culture generation that retires. `consultation`, `voting`: one procedure, two seats and a veto. `field`, `sieges`, `sorties`, `crossing`: three or four forces; but in `sorties` time may pass over work that is due, so that a pass settles several steps and days at once |
| `Transport` | 0.7 million | `holds`, `pools`: an order with a delivery; two orders for one pool. `loss`, `seized`, `retry`: one letter. `chunks`, `rivals`, `deliveries`, `readings`: information operations on few records and holders |
| `RuntimeProgress` | 0.1 million | `settling`: the kernel with two records, a failure, plugins that issue more. `leases`: two leases left to expire, the root full or not |
| `ExtensionProgress` | 0.1 million | `schedule`, `procedure`, `fights`, `letters`, `releases`: undertakings started and left to themselves |
| `KernelReactorIngress` | violation | finding 1 |
| `CorrespondenceDropped` | violation | finding 2 |

What each run shows:

- `Kernel`.  `JournalSound`: the journal explains the run (it recomputes, from the
  journal alone and as `validation.rs` and `replay.rs` do, what each boundary admitted,
  in which order, and what is still queued), cuts agree with boundaries, no identifier
  is given out twice, a request is answered once.  `QueueSound`: every record has one
  fate, a withdrawal precedes the admission it prevents, nothing but a reactor's packet
  is left behind the clock.  Both are said as long as no refused call left a packet
  behind (`Intact`); after that `JournalSound` says that the journal tells of the refused
  call.  `OneWinnerPerRevision`, `EventsSeenOnce`, and `ImplementsLedger`.
- `Decisions`.  `BookSound`: the three indexes agree with the tickets, lineages stay
  causal, no open ticket waits for somebody unavailable.  `HistorySound`: a version is
  changed once, each request answered once, no trace or attempt hot and archived, traces
  resolve; a ticket that was opened again counts its versions again, and the traces of
  its first life are told apart.
  `ArchiveKeepsBatch`: a commit does not take tickets opened in its own boundary.
  `ImplementsBook`.
- `Continuity`.  `HistoryAnswers` compares the answer to every possible request with
  that of an unsealed run, and a sealed history with a continued one; `AnswersStand`: an
  answer once given is only ever replaced by "retired".  `DrawsKept`: promised ids are
  kept, retries get the recorded draw, rebuilt ledgers and streams agree with the
  journal.  `WindowKept`: the trimmed ledger is the rebuilt one and counts each boundary
  once.
- `Boundary`.  `ShownOrUndone`: what commits is what phases were shown, and a failing
  boundary leaves nothing.  `CommittedAsDeclared`: a transition that settles found and
  made the versions it declared, whatever other systems wrote before it, beside it and,
  in phases 12 and 13, after it was checked.  `StagesSound`, `ManifestsPending`,
  `ReservationsSound`.
- `Stores`.  `RecordsSound`: validating the affected closure suffices for the whole store.
  `LifeCycle`, `LedgersSound`, `PublicationSound`.
- `Resources`.  `LeasesSound`: the root stays one a load accepts in all scenes that
  grant; while a lease aborts or is due a tick is on its way, or the last one found no
  room; guaranteed work is not refused for slots that burst work took, while its
  authority is below the limit of pending requests; tokens bound the rate.
  `ActivationsHold`, `CoordinatorSound`, `AccountsSound`, `AccountsInOrder`.
- `Polity`.  `RulesSound`, `ProceduresSound`, `EngagementsSound`, `StepsSound`.
- `Transport`.  `MovementSound`, `CorrespondenceSound`, `InformationSound`,
  `BoundariesChangeOnce`.
- `RuntimeProgress`, `ExtensionProgress`: liveness, see below.

The bounds are named constants (`MaxTime`, `MaxIngress`, `MaxBoundary`, ...) and chosen
so that the case a property is about occurs: each property of each passing run has a
mutant, a definition changed as a plausible bug would change it, that the same run
finds.  The mutated operators stand beside the ones they replace.  `MaxIngress` also
bounds chains of packets issued without delay; a plugin that issues them for ever keeps
a real run at one time for ever, too.  Deadlock is checked where the host can always do
something (`Kernel`); where a scene ends because its bounds are reached, the cfg says
`CHECK_DEADLOCK FALSE`.

Some scenes say less than the name of their property, because what the code breaks
(section 4) is kept out of their inputs:

- `RulesSound` has no mutation budget in `versions`, and its proposals avoid two versions
  of one rule at one instant and a generation that retires under an unpublished version;
  the budget is in `LawComesAbout`.
- `EngagementsSound`: in `sorties` no force from outside the siege joins a fight (then
  both sides match), and every pass comes in time (then no day fought is credited).
- `CorrespondenceSound` and `UndertakingsEnd`: that a letter on its way always has a
  packet is checked where incidents keep apart from its progress packets (`Apart`);
  otherwise it is finding 2.
- `InformationSound`: that no boundary fails is checked in `rivals`; a withdrawal between
  two chunks, which fails one, is not among its inputs.

### Fairness

`RuntimeProgress` and `ExtensionProgress` assume what the engine's contract gives: a call
that started runs to its end (weak fairness of a call's steps), the host settles what
is due (weak fairness of a boundary, or strong fairness of `StepCanonical`, which other
calls of the host disable while they run), and time passes when nothing is due.
Nothing is assumed of holders, seats, forces or carriers: what must come about comes
about by the wakes and packets an extension queued for itself.  The kernel's scene gives
commands only directives that succeed when they run: one that fails then fails every
retry (listed under `hazards`).


## 4. Findings

Two are runs, chosen because they leave a run stuck:

1. **A reactor can leave a packet behind the clock** (`KernelReactorIngress`).  `advance`
   checks the queue once, before it runs scheduled work; a reactor of that work may
   issue a packet due before the target, which the clock then passes.  Every later call
   refuses, and the saved state does not validate.
2. **An interception can drop a letter's progress** (`CorrespondenceDropped`).  Incidents
   claim the operation for the boundary; a progress packet due in it then returns
   without scheduling another, and the letter stays in flight for good.

The others were met while modelling.  Each is kept in the modules, as the code has it,
and the scenes say where their inputs avoid it:

- A command refused after it issued a packet leaves the packet queued and journalled
  while the counter goes back (`transactions.rs:101`, against `docs/architecture.md:2961`).
  The next record is journalled under the same identifier, one place behind it: a look-up
  of that identifier finds the earlier of the two, and of the later ones nothing, so that
  the boundary that is to admit one is refused (`RecordLost`), on every retry.  A scheduled batch whose reactor issued a packet does
  the same.  `Kernel` has all of this (scene `traces`); a boundary that fails puts the
  counter right again, if the refusal was its own.  What the properties claim they claim
  while the journal is `Intact`, and of what is then lost, that the journal tells of it.
- The ID of an archived ticket may be opened again (`canwu-decision/src/engine.rs:2477`
  asks hot history only); the state is then hot and archived at once and does not
  validate.  Scene `reuse` does it.  No archive commit takes such a ticket, since its ID
  has a receipt already.
- A packet proposed by an early phase is listed to later phases of its own boundary,
  against the doc comment of `boundaries_between` (`view.rs:577`).
- Leases: an expiry that does not fit the root settles nothing, and the tick does not
  queue itself again (`canwu-resource/src/plugin.rs:2706` says so: an archive commit,
  another grant or the host does).  Until then what is due keeps its units; `ClockRuns`
  and `HoldsEnd` say what is left.  Burst work of an authority can fill its limit of
  pending requests, and its guaranteed work is then refused (`lease.rs:1404`).
- Leases: one lease's end removes locks another holds on the same target
  (`canwu-resource/src/lease.rs:2424`); a lease granted at two boundaries leaves units
  reserved when the first grant is due (`runtime.rs:3908`); the order of requests is by
  authority, not by round (`lease.rs:1521`).
- The coordinator (`canwu-production/src/completion.rs`, `canwu-resource/src/lease.rs`): an
  abort before any participant grant is refused; a certified participant grant expires;
  an ended lease becomes granted again by a late acknowledgement; the participant's
  release unlocks targets of others and returns units twice after a rejection; an expired
  lease cannot leave.
- Law (`canwu-law/src/runtime.rs`): at one instant an older version can replace a newer
  one (5165, 6416), a version the budget leaves behind makes the ledger unloadable
  meanwhile (3845), an unpublished version does not protect its culture generation
  (6398), a vote before the dispatch's acknowledgement is rejected for good (3276).
- Information: a release withdrawn between two chunks fails every later boundary
  (`canwu-information/src/plugin.rs:909`).
- Military: a force outside a siege can join its assault (`command.rs:1260`), progress
  items can exceed the report queue's bound (`settle.rs:340`), a late pass credits rest
  for a day that was fought (`settle.rs:2017`).


## 5. Proofs

The modules below prove everything the runs `Kernel` and `Decisions` check, what
`Continuity` checks of command admission, `Stores` of domain records, `Boundary` of the
stages of a boundary and `Resources` of the completion coordinator, and most of what
`Boundary` checks of transition manifests, for every value of the constants that
satisfies `KernelAssumption`, `DecisionsAssumption`, `AdmissionAssumption`,
`RecordAssumption`, `CoordinatorAssumption` and `TransitionAssumption`: sets of requests,
inputs, plugins, programs, reactions, tickets, people, mutations, records, writes, leases
and manifests of any size, any bound, any depth.  What holds of a store of records and of
any bundle is in `RecordStore_proofs`, which the two modules about records extend.

| module | theorem | of |
| --- | --- | --- |
| `Kernel_proofs` | `TypeCorrect`, `OneWinner`, `EverySeenOnce` | `TypeOK`, `OneWinnerPerRevision`, `EventsSeenOnce` |
| | `QueueKept`, `JournalKept`, `LedgerImplemented` | `QueueSound`, `JournalSound`, `ImplementsLedger` |
| | `TracesOnlyByRefusal` | how a journal stops being intact |
| `Decisions_proofs` | `BookKept`, `HistoryKept`, `BatchKept`, `BookImplemented` | `BookSound`, `HistorySound`, `ArchiveKeepsBatch`, `ImplementsBook` |
| `CommandAdmission_proofs` | `AnswersLikeWhole`, `AnswersStay` | `HistoryAnswers`, `AnswersStand` |
| `RecordBundles_proofs` | `StoreStaysSound`, `RecordsFollowLifeCycle` | `RecordsSound`, `LifeCycle` |
| `BoundaryStages_proofs` | `StagesKeepSound`, `BoundariesWhole` | `StagesSound`, `ShownOrUndone` |
| `Transitions_proofs` | `NoneLost`, `SettlesInTime` | `NoneForgotten`; `TypeOK`, `SettlesOnTime`, `ExpiryRecovers` (all in `ManifestsPending`) |
| `CompletionCoordinator_proofs` | `SidesAgree`, `ActivationHoldsBoth` | `CoordinatorSound`, `ActivatesBoth` (in `ActivationsHold`) |

### The kernel

The theorems are about every program a command may have and every reaction, those that
issue packets and are refused after it included.  What holds always, and what only while
no refused call left a packet behind, is told apart by `Intact`: the next identifier is
the one after the journal's last.  The properties say "as long as"; the proofs have to
say what happens at the edge of it, and what a boundary that began intact gives back.

- **`TypeCorrect`**.  `TypeOK` is not inductive: taking the first key of the taken set,
  looking up the record of a key, or restoring a checkpoint gives a value of the right
  type only because of facts about other variables.  The inductive invariant is
  `TypeInv`, the conjunction of
  - `JournalInv`: the queue is finite, its keys name journalled records, and
    `nextId <= Len(ingress) + 1` (only `<=`: the counter falls behind the journal when
    a refused call left a packet there);
  - `CallInv`: what the locals of a call are at each `pc`, and that what it took off
    the queue is journalled;
  - `CommandInv`: while a command is applied the first key taken names a command;
  - `CheckpointInv`: an open checkpoint is not ahead of the state, so restoring it cuts
    journals to prefixes of themselves.

  There is one lemma per action, and lemmas for what they share: issuing and
  withdrawing ingress, recording an attempt, restoring either kind of checkpoint.
  That the queue order has a first element in every finite set of keys, before all
  others, is `FirstExists`, by well-founded induction over subsets.
- **`OneWinner`**.  Its first part, that the revision is the number of attempts plus the
  number of boundaries, has to hold of the open boundary checkpoint, too, and the second
  follows from every accepted attempt having expected a revision below the current one,
  in the state and in the checkpoint: `CountInv` says so, and that no revision passes
  while a command or a scheduled batch runs.  Each rollback restores the counter
  together with the journals it counts.
- **`EverySeenOnce`**.  The windows of the boundaries tile the journal of events up to the
  cursor.  Behind it are `ClockInv` (the clock against the running call's goal),
  `ClockBackInv` (no event, action or boundary of a checkpoint is after its clock),
  `StampInv` (no event is later than the clock, in the state and in what a checkpoint
  keeps) and `CursorInv` (the cursor is never taken past events that remain, and no
  rollback moves it).
- **`QueueKept`**.  As long as the journal is intact, `RecordsInv` is about the data: an
  identifier is a position (`IdentityIsPosition`), a queued key is the one its record gives
  (`KeyInv`), what is withdrawn was not due (`WithdrawalInv`), and the records are parted
  between queue, running boundary, settled boundaries and withdrawals (`FateInv`); `DueInv`:
  nothing queued but a reactor's packet is behind the clock, or behind what the running
  call moves it to.  Always: only a command's own directives issue what is not a
  reactor's (`TodoInv`), no rollback of a command brings the counter nearer to the
  journal's end (`GapInv`), the locals are empty before and after admission (`LocalsInv`),
  and what a failing boundary goes back to is sound if it was intact then, though it need
  not be now (`BackInv`).
- **`TracesOnlyByRefusal`**.  From `GapInv`: the journal stops being intact only by the
  rollback of a command or a batch during which the counter grew.  Every other step moves
  both or neither, and a boundary's failure cuts off at least as many records as it
  gives identifiers back.
- **`JournalKept`**.  `CutsInv` relates the cut a record carries to the boundaries: cuts
  and issue times grow along the journal, and what the open boundary issued is exactly
  what its failure cuts off and only the next boundary sees.  `AnswerInv`: the attempts
  answer the commands admitted by the settled boundaries and the running one, each
  once, and those of the checkpoint the settled ones only.  `ReplayInv` says
  what replay will compute for the boundary in progress: what it has admitted and what
  it still holds are together what was due, admitted before held, in the queue's order.
  Each is said of the present while it is intact and of the open checkpoint if that was.
  `TraceInv` is the other half of `JournalSound`: a journal that is not intact has a
  refused attempt or a reactor's packet in it, and so has a checkpoint.
  The steps are taken by what they do to the journal (`Frame`): those that journal
  nothing (`Runs`), those that journal a record (`Journals`), the settlement (`Commit`),
  and the failure of a boundary (`Aborts`); a settled boundary stays replayed because
  no later record but a reactor's carries a cut it can see.
- **`LedgerImplemented`**.  The refinement mapping `HostView` reads the open checkpoint
  while a call runs, also of whether the journal is intact (`HostIntact`).  A submission
  or withdrawal between calls is the ledger's own; the end of a legacy batch that is not
  part of a boundary is a `Tick` or nothing; `Commit` is `Settle` of all the boundary
  admitted, which is all that was due by `DueInv` and `ReplayInv`, and of its own reactors'
  packets those due by then (`LateInv`); every other step, failures among them, leaves
  the view as it is, or loses intactness and is `Broken`, as all are from then on.

### The decision framework

Nothing is assumed of the IDs hosts use: an archived ID may be opened again, at version 1
(`engine.rs:2477`).  What that breaks is said of the tickets it opened again (`Reopened`,
in the proofs `Again`) and of no other.

- **`BookKept`**.  `SoundInv` says of the current state and, while a boundary runs, of
  the checkpoint it may restore (`Sound(saved)`), that the book has its types; that each
  index holds an entry exactly if the ticket is open and has that deadline, maker or
  controller (`Indexed`); that lineages hold (`Lineal`), which needs that no ticket was
  updated after the clock (`Dated`): a parent that closed before its child was opened
  is never touched again; and that no open ticket waits for somebody who is away
  (`Present`), inside a boundary too.  Queued archive commits name only closed tickets
  of the history they were prepared from (`CommitsOf`), and so does a commit that is
  still current when it is applied.  The book operations are taken apart once, in
  `ChangeFields`, `AdvanceFields`, `SweptFields`, `OpenFields` and `ArchivedFields`;
  `AppliedIs` then says that every mutation registers a controller, opens a ticket or
  moves one that is open, and lets time pass over the result, so that the seven kinds of
  mutation become three.
- **`HistoryKept`**.  The versions of a ticket only grow while it is in history, so an
  accepted request is `Overtaken`: the version it changed is past, or its ticket is
  archived, and the revision it was prepared at is past if it acts.  A second request of
  the same version, or an act of the same revision, finds its precondition gone, unless
  the ticket was opened again (`Exclude`, `ChangesOnce`).  `Traced` ties traces to tickets
  both ways: the trace a resolved ticket names explains it (`Explained`), and a trace is
  the one its ticket names, unless the ticket was opened again and the trace is of its
  first life (`Accounts`).
- **`BatchKept`**.  A commit that archives is current, that is, prepared from exactly the
  hot history there is now.  It was prepared before the boundary began.  Once the boundary
  opened a ticket, the request that did has its answer in hot history, which no commit's
  source had (`Answers`, `BatchInv`), whatever ID the ticket has.
- **`BookImplemented`**.  The mapping reads the checkpoint while a boundary runs.
  `ProgressInv` follows each ticket from how it stood when the boundary began to how it
  stands (`Progress`), through any number of requests on it; after `EndAdmission` none is
  overdue (`Settled`), which a sweep at the boundary's end keeps, and `Commit` then is
  `Settle`.  That archival takes only tickets that were closed before the boundary rests
  on `Known`, of `HistInv`: a commit's source has a ticket at a version it had by then.

### Command admission

- **`AnswersLikeWhole`**.  The inductive invariant `AdmissionSound` gives every table and
  every index entry in closed form: `EvidenceOk` says that the archived tables, the family
  flags and the history index are functions of the whole journals, the cut, the retired
  requests and the pins (`TablesOk`, `IndexOk`), of journals in which a request is attempted
  and carried at most once and an accepted attempt and its command name each other
  (`JournalsOk`), cut where no attempt is parted from its command (`Aligned`).  So two
  histories over the same journals and cut are one (`Determined`), which makes a seal and a
  continuation checkpoint the same, and each answer is a function of the journals alone
  (`CommandAnswered`, `EnqueueAnswered`, `DecisionAnswered`, `FamiliesRead`), which makes
  it that of an unsealed run.  That retirement depends only on the time of the attempt
  (`RetiredByTime`) is what lets an archived ID, an archived outcome and a retained attempt
  agree.  There is one lemma per operation on the history, that it keeps the form:
  `AdmittedInForm`, `QueuedInForm`, `SubmittedInForm`, `SealedInForm`, `ContinuedInForm`,
  `UnsealedInForm`, and `TruncatedInForm` for a rollback, the hardest, since it repairs the
  index entry by entry and rebuilds only what a removed record had hidden.  For that the
  state has to say of an open boundary what a failure will find (`SavedOk`): every attempt
  belongs to a record from before the boundary, and what was pending then is readable still,
  and attempted only since.
- **`AnswersStay`**.  Committed attempts are only added to (`CommittedGrows`): a rollback
  leaves exactly those from before the boundary, and no other step removes one.

### Domain records

Here the invariant the run checks is inductive as it stands: `RecordsSound` says of the
store that its indexes are exact and that all of it is valid, and an accepted bundle
keeps that.

- **`StoreStaysSound`**.  What has to be shown is that it is enough to validate what a
  bundle can affect (`LocalValidationSuffices`).  The affected records hold the changed
  ones and are closed under both indexes, which are exact (`IndexesStayExact`); so a
  record outside them refers only to records outside them, none of which changed, and is
  as valid as it was.  A cycle of successors that avoids the changed records was there
  before; one that passes through a changed record lies in the chain that was followed
  from it (`ChainMeetsNoCycle`).
- **`RecordsFollowLifeCycle`**.  From what `require_mutable_record` and the guard of a
  deletion leave possible (`MutatedIs`).

### The stages of a boundary

- **`StagesKeepSound`**.  Here the store is not the difficulty, it is `RecordStore`'s again,
  but what the evidence says of it after each of five stages.  `BoundaryInv` names the
  last change of everything: the index of versions names, for each record, the last place
  in the evidence where it changed (`IndexNames`), and a component's value is the place
  that wrote it (`ValuesName`).  Places are ordered by boundary and by number in it; what
  a stage appends comes after all there was (`ChangesGrow`, `WritesGrow`), so that the
  only new pairs of neighbours are those of a last place and a first new one
  (`PlacesGrow`), where the stage took the version or the previous value from
  (`RecordsStayReplayed`, `ComponentsStayReplayed`).  `RunKept` says the same of the state the
  boundary saved, with the evidence of the settled boundaries: that is what a failure
  goes back to.
- **`BoundariesWhole`**.  A prepared stage is committed without being applied again.  That
  this leaves what was shown is `ReadyFor`: until it commits, the store is the one it was
  prepared on, and it was prepared from the writes that commit, of which the next-boundary
  part is put off (`StageLeaves`, `CommitsShown`).  `StageKeeps` is the one lemma for the five
  stages; an action adds what it does to the locals.

### Transition manifests

The run keeps two manifests; the theorems are about any number of coordinators, lineages,
participants and boundaries.

- **`NoneLost`**.  The ledger of a boundary is what was pending before it and what it
  registered so far (`Known`), without those that its audit settled (`RunLedger`).  The
  audit sees all that is ready because a manifest proposed after phase 7 is for a later
  boundary (`RunManifests`, from `ReadyAtValid`), so none becomes ready behind it; two
  audits of one identity are excluded because admission compares with what is pending
  and what is proposed alike (`Together`).  A failed boundary drops its ledger.
- **`SettlesInTime`**.  `SettleOk` refuses a manifest that is overdue; none ever is, so a
  boundary in which no participant stages passes, and expiry always can end a manifest.

That a committed transition found and made the versions it declared
(`CommittedAsDeclared`) sums over the evidence, and that a load rebuilds the pending
manifests (`PendingRebuilt`) folds over it: both are model-checked only.

### The completion coordinator

The run has one lease; the theorems are about any number of them, any capacity, and any
lifetime and guard of at least one boundary.

- **`SidesAgree`**.  `CoordinatorInv` adds to `CoordinatorSound` what both plugins saw of
  each other when the boundary began, and three facts about one lease at a time.
  `GrantOk`: the version of a grant tells how far it has come, so of two versions of one
  grant the higher is the later (`Past`).  `LeaseOk`: a certificate is only there behind
  a grant the participant had prepared (`mirror.rev >= 2`), hence the late
  acknowledgement of a grant, which puts an aborting or expired lease back to
  `preparing` (`recompute_acquisition_state` does not look at the state), never meets
  one; a lease that is over has a local grant that is over; and what
  `validate_completion_coordinator` refuses is needed for both, since it keeps an abort
  from ending a lease at once.  `Agree`: the participant spends its grant for a certificate it
  saw, and releases it for a lease it saw end, and neither is ever taken back.
- **`ActivationHoldsBoth`**.  The participant's grant had been prepared when the
  coordinator recorded it.  Since then it was not spent (there is no certificate), not
  released (the local grant is not over), and not expired, because the guard keeps
  activation away from the deadline (`ActivatesPrepared`).

### Model-checked only

Out of the prover's reach: liveness and whatever needs `ENABLED` (`RuntimeProgress`,
`ExtensionProgress`), what recursive operators compute, and steps that fold over a list:
those of `HolderLedgers`, `KnowledgePublication`, `CompletionLeases`, `ResourceAccounts`,
`LawRules`, `LawProcedures`, `Engagements`, `Correspondence` and `InformationOperations`,
and the sums and replays of `RandomDraws`, `BoundaryWindow`, `Reservations` and
`Transitions`.  `Movement` has no proof either; all of these are model-checked.


## 6. What is not modelled

- Encoding, paging and hashing of snapshots (`page_store.rs`, `hashing.rs`,
  `stream_hash.rs`): data layout and digests; two digests are equal exactly when what
  they digest is.
- Views, policies and evaluation, which only read; scenario and manifest parsing; the
  registration checks of `plugins.rs`, whose results are constants of the modules.
- Owner-authorized maintenance (`maintenance.rs`): drafts of the owners applied to a copy
  and compared by digest; what it applies is a bundle of `RecordBundles`.
- Replay (`replay.rs`) calls the modelled entry points with the journal's records; that
  the journal determines the run is `JournalReplays`.
- Routing (`canwu-routing`), a pure search over a snapshot.
- In the kernel's directives: an event that itself schedules or issues something is an
  event; a scheduled directive is one that emits or fails (`plugins.rs:286` refuses a
  scheduled packet; one that schedules again comes to its end as the last of the chain).
- Correspondence: a sender's cancellation of an active dispatch, opportunities, what a
  carrier knows of routes, the access record of an interceptor.  The host hands in at most
  one command or incident in a boundary, and none for an operation that has ended: a
  second one, one without its cause, one for a missing or ended operation, and a start
  whose route cannot be planned or has no leg fail the whole boundary
  (`canwu-correspondence/src/plugin.rs:818`, 869, 1308, 1540, 1566), which leaves
  nothing, here as in `Kernel`.  An information operation takes effect two boundaries
  after it is asked for and is seen in that one (`Ask`); in the code it is accepted,
  applied and seen one boundary later still, which makes for more polls.
- Military: authority, the resolver's arithmetic and environment, naval and investment
  numbers, registering and revising forces, installing a rulebook; a join brings one
  force.  Rivers are open: a closed one passes a wave's slot, a hard one makes the wave
  smaller, and without an environment a crossing waits (`settle.rs:2369`).  The wake runs
  in every boundary, in the code in those of the host's cadence (`settle.rs:568`); that
  a pass comes late is in the scenes where `Prompt` is false; every subject has somebody to report to (`settle.rs:347` skips one that has not).
- Resource: the limit of archive candidates that keeps a demand's closure from being
  marked (`runtime.rs:1675`); it refuses the operation until a commit has made room.
- Movement: operation keys, authority, reports to observers.  Information: the shapes of
  records; that an envelope's authenticity binding is no longer current
  (`canwu-information/src/plugin.rs:506`) is one of the reasons to reject an operation.  Law: the archive, the caseload, filed cases, the compiler.  Production:
  recipes, work orders.  Fiscal, society, culture, technology, history research and the
  reference content: domain rules on top of the modelled boundary.
- The interplay of several extensions in one boundary, beyond the messages each module
  takes as input: the product of two such modules is out of TLC's reach.
