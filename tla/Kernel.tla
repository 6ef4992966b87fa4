------------------------------- MODULE Kernel -------------------------------
(***************************************************************************)
(* The ingress kernel of canwu-sim: the journal and the queue of canonical *)
(* ingress, command admission, the internal scheduler, and the settlement  *)
(* boundary with its rollback.                                             *)
(*                                                                         *)
(* A Simulation is owned by one thread (`&mut self`), so a host call is    *)
(* atomic to its callers.  The model still splits the long calls           *)
(* (settle_boundary, advance) into the steps of their loops, driven by pc, *)
(* because every one of those steps may fail and what must then be undone  *)
(* depends on which checkpoint is open: the command's, the scheduled       *)
(* batch's or the boundary's.  No host call starts unless pc = "idle".     *)
(***************************************************************************)
EXTENDS Integers, Sequences, FiniteSets

CONSTANTS
    Requests,        \* command request IDs a host may use
    Plugins,         \* registered plugins
    EventPlugins,    \* plugins with an EventDriven boundary system
    CadencePlugins,  \* plugins with a boundary system of a calendar cadence
    Host,            \* the issuer of packets the host enqueued
    Event,           \* the issuer of packets an event reactor enqueued
    PacketClasses,   \* ingress classes of the registered packet types
    Priorities,      \* priorities a caller may ask for
    Delays,          \* delays a boundary system may ask for
    Programs,        \* directive sequences a command handler may return
    Reactions,       \* directive sequences the event reactors may return
    MaxDepth,        \* MAX_SYNCHRONOUS_REACTION_DEPTH
    MaxTime,         \* bound: the last simulation time
    MaxIngress,      \* bound: ingress the host and the systems add up to
    MaxEvents,       \* bound: events up to which boundary systems emit
    MaxBoundaries,   \* bound: boundaries the host settles unprompted
    MaxFailures      \* bound: handlers that panic and systems that fail

Command == 0             \* IngressClass::Command, the first to be admitted
ScheduledSystem == 5     \* IngressClass::ScheduledSystem, the last

Ops == {"emit", "schedule", "enqueue", "fail"}

(***************************************************************************)
(* A directive a handler returns: emit an event, run the directive `next`  *)
(* after a delay, enqueue a packet after a delay, or one whose application *)
(* is refused with a code that rejects a command (for instance a packet    *)
(* type that is not registered).                                           *)
(***************************************************************************)
Directive == [op : Ops, after : Nat, next : {"emit", "fail"}]

ASSUME KernelAssumption ==
    /\ Host \notin Plugins /\ Event \notin Plugins /\ Host # Event
    /\ EventPlugins \subseteq Plugins /\ CadencePlugins \subseteq Plugins
    /\ PacketClasses \subseteq 0 .. 5 /\ Priorities \subseteq Int
    /\ Delays \subseteq Nat
    /\ Programs \subseteq Seq(Directive) /\ Reactions \subseteq Seq(Directive)
    /\ MaxDepth \in Nat /\ MaxTime \in Nat /\ MaxIngress \in Nat /\ MaxEvents \in Nat
    /\ MaxBoundaries \in Nat /\ MaxFailures \in Nat

VARIABLES
    now,         \* scheduler.now
    revision,    \* counters.state_revision
    ingress,     \* evidence.ingress, the ingress journal
    nextId,      \* counters.next_ingress_id
    pending,     \* scheduler.pending_ingress, a set of queue keys
    cancelled,   \* scheduler.cancelled_ingress, a set of ingress IDs
    actions,     \* scheduler.actions
    nextSeq,     \* counters.next_schedule_sequence
    events,      \* evidence.events, by timestamp
    attempts,    \* evidence.command_attempts
    boundaries,  \* evidence.boundaries
    cursor,      \* counters.admitted_event_count
    pc,          \* the step the running host call is at
    run,         \* the locals of the running host call
    todo,        \* the directives being applied, each with its emit depth
    saved,       \* the boundary checkpoint
    batch,       \* the command or scheduled-batch checkpoint
    failures     \* how many handlers panicked or systems failed

journal == <<ingress, nextId, pending, cancelled>>
schedule == <<actions, nextSeq>>
outcomes == <<attempts, revision>>
settled == <<boundaries, cursor>>
control == <<pc, run, todo>>
vars == <<now, journal, schedule, events, outcomes, settled, control, saved,
          batch, failures>>

-----------------------------------------------------------------------------
(* The ingress journal and its queue. *)

\* What an ingress record carries, by kind.
Body ==
         [kind : {"command"}, request : Requests, expected : Nat]
    \cup [kind : {"plugin"}, plugin : Plugins, internal : BOOLEAN,
          issuer : Plugins \cup {Host, Event}]
    \cup [kind : {"calendar"}]
    \cup [kind : {"cancel"}, target : Nat]

IngressRecord ==
    [id : Nat, issued : Nat, eligible : Nat, due : Nat, class : 0 .. 5,
     priority : Int, body : Body]

QueueKeys == [due : Nat, class : 0 .. 5, priority : Int, issued : Nat, id : Nat]

QueueKey(record) ==
    [due |-> record.due, class |-> record.class, priority |-> record.priority,
     issued |-> record.issued, id |-> record.id]

\* The order in which the queue admits its keys.
Before(a, b) ==
    \/ a.due < b.due
    \/ /\ a.due = b.due
       /\ \/ a.class < b.class
          \/ /\ a.class = b.class
             /\ \/ a.priority > b.priority
                \/ /\ a.priority = b.priority
                   /\ \/ a.issued < b.issued
                      \/ a.issued = b.issued /\ a.id < b.id

First(keys) == CHOOSE k \in keys : \A j \in keys : j = k \/ Before(k, j)

\* The record a queue key stands for: journals are indexed by identifier, and a
\* record at another identifier's place is not found.
RecordOf(key) == ingress[key.id]

Found(key) == RecordOf(key).id = key.id

\* Mutant: the count of the boundaries before the last one.
EligibleFromPrevious(afterCurrentBoundary) ==
    Len(boundaries) - (IF afterCurrentBoundary THEN 0 ELSE 1)

\* The boundary count from which a record is part of the queue.
Eligible(afterCurrentBoundary) ==
    Len(boundaries) + (IF afterCurrentBoundary THEN 1 ELSE 0)

NewRecord(body, due, class, priority, afterCurrentBoundary) ==
    [id |-> nextId, issued |-> now, due |-> due, class |-> class,
     priority |-> priority, body |-> body,
     eligible |-> Eligible(afterCurrentBoundary)]

PushIngress(body, due, class, priority, afterCurrentBoundary) ==
    LET record == NewRecord(body, due, class, priority, afterCurrentBoundary) IN
    /\ due >= now
    /\ ingress' = Append(ingress, record)
    /\ pending' = pending \cup {QueueKey(record)}
    /\ nextId' = nextId + 1
    /\ UNCHANGED cancelled

\* A withdrawal is journalled, never queued, and takes its target off the queue.
PushCancellation(key, afterCurrentBoundary) ==
    LET record == NewRecord([kind |-> "cancel", target |-> key.id],
                            now, key.class, 0, afterCurrentBoundary) IN
    /\ ingress' = Append(ingress, record)
    /\ pending' = pending \ {key}
    /\ cancelled' = cancelled \cup {key.id}
    /\ nextId' = nextId + 1

\* Who may withdraw a packet: its issuer, by the authority the issuer holds.
MayCancel(body, authority, plugin) ==
    CASE authority = "host" -> body.issuer = Host /\ ~body.internal
      [] authority = "permit" ->
            /\ body.internal /\ body.plugin = plugin
            /\ body.issuer \in {Host, plugin}
      [] authority = "boundary" -> body.issuer = plugin

\* Mutant: a packet due now may still be withdrawn.
CancellableWhenDue(key, authority, plugin) ==
    /\ key \in pending /\ key = QueueKey(RecordOf(key))
    /\ RecordOf(key).body.kind = "plugin"
    /\ MayCancel(RecordOf(key).body, authority, plugin)

Cancellable(key, authority, plugin) ==
    /\ key \in pending /\ key = QueueKey(RecordOf(key))
    /\ key.due > now
    /\ RecordOf(key).body.kind = "plugin"
    /\ MayCancel(RecordOf(key).body, authority, plugin)
-----------------------------------------------------------------------------
(* Checkpoints.  A running call restores the one it captured.              *)

\* The locals of a host call: its target time, whether it is a settlement
\* boundary, and what the boundary has admitted and generated so far.
Call(goal, canonical) ==
    [goal |-> goal, canonical |-> canonical, caller |-> "none", taken |-> {},
     admitted |-> <<>>, generated |-> {}, cadence |-> FALSE, cut |-> 0]

\* What a command or a scheduled batch can undo: it holds the counters, but
\* neither the queue nor the length of the ingress journal.
PartialCheckpoint ==
    [now |-> now, actions |-> actions, nextSeq |-> nextSeq, nextId |-> nextId,
     revision |-> revision, cursor |-> cursor, events |-> Len(events)]

RestorePartial ==
    /\ now' = batch.now
    /\ actions' = batch.actions /\ nextSeq' = batch.nextSeq
    /\ nextId' = batch.nextId
    /\ cursor' = batch.cursor
    /\ events' = SubSeq(events, 1, batch.events)

\* No checkpoint is open.
NoPartial ==
    [now |-> 0, actions |-> {}, nextSeq |-> 1, nextId |-> 1, revision |-> 0,
     cursor |-> 0, events |-> 0]

\* What a boundary can undo.  It pushes its own record last, so it never has
\* one to drop.
FullCheckpoint ==
    [now |-> now, actions |-> actions, nextSeq |-> nextSeq, nextId |-> nextId,
     revision |-> revision, cursor |-> cursor, events |-> Len(events),
     pending |-> pending, cancelled |-> cancelled, ingress |-> Len(ingress),
     attempts |-> Len(attempts)]

NoFull ==
    [now |-> 0, actions |-> {}, nextSeq |-> 1, nextId |-> 1, revision |-> 0,
     cursor |-> 0, events |-> 0, pending |-> {}, cancelled |-> {}, ingress |-> 0,
     attempts |-> 0]

Return ==
    pc' = "idle" /\ run' = Call(0, FALSE) /\ saved' = NoFull /\ batch' = NoPartial

\* Mutant: what the boundary took off the queue is not put back.
LoseTaken == pending' = pending \cap saved.pending /\ cancelled' = saved.cancelled

RestoreQueue == pending' = saved.pending /\ cancelled' = saved.cancelled

\* Mutant: the ingress journal keeps what the boundary issued.
KeepIngress ==
    /\ ingress' = ingress
    /\ events' = SubSeq(events, 1, saved.events)
    /\ attempts' = SubSeq(attempts, 1, saved.attempts)

RestoreEvidence ==
    /\ ingress' = SubSeq(ingress, 1, saved.ingress)
    /\ events' = SubSeq(events, 1, saved.events)
    /\ attempts' = SubSeq(attempts, 1, saved.attempts)

AbortBoundary ==
    /\ now' = saved.now
    /\ actions' = saved.actions /\ nextSeq' = saved.nextSeq
    /\ nextId' = saved.nextId /\ revision' = saved.revision
    /\ cursor' = saved.cursor
    /\ RestoreQueue /\ RestoreEvidence
    /\ todo' = <<>> /\ Return
    /\ UNCHANGED boundaries

-----------------------------------------------------------------------------
(* Calls that issue or withdraw ingress.  They run to their end at once.   *)

Unused(request) ==
    \A i \in DOMAIN ingress :
        ingress[i].body.kind = "command" => ingress[i].body.request # request

\* A request the journal already holds is answered from it and changes nothing.
EnqueueCommand(due, priority, request, expected) ==
    /\ pc = "idle" /\ Unused(request)
    /\ PushIngress([kind |-> "command", request |-> request, expected |-> expected],
                   due, Command, priority, FALSE)
    /\ UNCHANGED <<now, schedule, events, outcomes, settled, control, saved,
                   batch, failures>>

EnqueuePlugin(plugin, internal, class, due, priority) ==
    /\ pc = "idle"
    /\ PushIngress([kind |-> "plugin", plugin |-> plugin, internal |-> internal,
                    issuer |-> Host], due, class, priority, FALSE)
    /\ UNCHANGED <<now, schedule, events, outcomes, settled, control, saved,
                   batch, failures>>

ScheduleCalendar(due) ==
    /\ pc = "idle"
    /\ PushIngress([kind |-> "calendar"], due, ScheduledSystem, 0, FALSE)
    /\ UNCHANGED <<now, schedule, events, outcomes, settled, control, saved,
                   batch, failures>>

CancelPlugin(key, authority, plugin) ==
    /\ pc = "idle" /\ authority \in {"host", "permit"}
    /\ Cancellable(key, authority, plugin)
    /\ PushCancellation(key, FALSE)
    /\ UNCHANGED <<now, schedule, events, outcomes, settled, control, saved,
                   batch, failures>>

-----------------------------------------------------------------------------
(* Calls that move time: legacy advance and the settlement boundary.       *)

\* Mutant: ingress due at the target itself is overlooked.
ClearBefore(target) == \A k \in pending : k.due >= target

ClearTo(target) == \A k \in pending : k.due > target

\* advance, and step when nothing is queued.
BeginAdvance(target) ==
    /\ pc = "idle" /\ target >= now /\ ClearTo(target)
    /\ run' = Call(target, FALSE) /\ pc' = "advance"
    /\ UNCHANGED <<now, journal, schedule, events, outcomes, settled, todo,
                   saved, batch, failures>>

BeginBoundary(at) ==
    /\ pc = "idle" /\ at >= now
    /\ \A k \in pending : k.due >= at
    /\ saved' = FullCheckpoint
    /\ run' = Call(at, TRUE) /\ pc' = "advance"
    /\ UNCHANGED <<now, journal, schedule, events, outcomes, settled, todo,
                   batch, failures>>

SettleBoundary(at) == Len(boundaries) < MaxBoundaries /\ BeginBoundary(at)

\* The earliest action or queued ingress.
DueTimes == {a.at : a \in actions} \cup {k.due : k \in pending}

NextDue == CHOOSE t \in DueTimes : \A u \in DueTimes : t <= u

StepCanonical ==
    /\ DueTimes # {}
    /\ BeginBoundary(IF NextDue < now THEN now ELSE NextDue)

\* The actions a call runs before its target: a boundary leaves those at its
\* own time until its ingress is admitted.
Reached(action) ==
    IF run.canonical THEN action.at < run.goal ELSE action.at <= run.goal

Earliest(action) ==
    \A other \in actions :
        \/ action.at < other.at
        \/ action.at = other.at /\ action.seq <= other.seq

BeginBatch ==
    /\ pc = "advance"
    /\ \E action \in actions :
          /\ Earliest(action) /\ Reached(action)
          /\ batch' = PartialCheckpoint
          /\ now' = action.at
    /\ run' = [run EXCEPT !.caller = "batch"] /\ pc' = "scheduled"
    /\ UNCHANGED <<journal, schedule, events, outcomes, settled, todo, saved,
                   failures>>

FinishAdvance ==
    /\ pc = "advance" /\ ~run.canonical
    /\ \A action \in actions : ~Reached(action)
    /\ now' = run.goal
    /\ Return
    /\ UNCHANGED <<journal, schedule, events, outcomes, settled, todo, failures>>

\* The boundary reaches its time and takes what is due off the queue.
TakeDueIngress ==
    /\ pc = "advance" /\ run.canonical
    /\ \A action \in actions : ~Reached(action)
    /\ now' = run.goal
    /\ LET due == {k \in pending : k.due <= run.goal} IN
          /\ run' = [run EXCEPT !.taken = due]
          /\ pending' = pending \ due
    /\ pc' = "admit"
    /\ UNCHANGED <<ingress, nextId, cancelled, schedule, events, outcomes,
                   settled, todo, saved, batch, failures>>

\* Runs the next action at the current time, or ends the batch.
RunScheduled ==
    /\ pc = "scheduled"
    /\ \E action \in actions :
          /\ action.at = now /\ Earliest(action)
          /\ actions' = actions \ {action}
          /\ todo' = <<[directive |-> [op |-> action.op, after |-> 0, next |-> action.op],
                       plugin |-> action.plugin, depth |-> 0]>>
    /\ pc' = "apply"
    /\ UNCHANGED <<now, journal, nextSeq, events, outcomes, settled, run, saved,
                   batch, failures>>

EndScheduled ==
    /\ pc = "scheduled"
    /\ \A action \in actions : action.at # now
    /\ IF run.caller = "batch"
       THEN pc' = "advance" /\ UNCHANGED run
       ELSE pc' = "systems" /\ run' = [run EXCEPT !.cut = Len(events)]
    /\ batch' = NoPartial
    /\ UNCHANGED <<now, journal, schedule, events, outcomes, settled, todo,
                   saved, failures>>

-----------------------------------------------------------------------------
(* Admission, in queue order. *)

Admit(key) ==
    [run EXCEPT !.taken = @ \ {key}, !.admitted = Append(@, key.id)]

RecordAttempt(record, before, accepted) ==
    /\ attempts' = Append(attempts,
          [request |-> record.body.request, at |-> now, revision |-> before,
           expected |-> record.body.expected, accepted |-> accepted])
    /\ revision' = before + 1

AdmitPacket ==
    /\ pc = "admit" /\ run.taken # {}
    /\ LET key == First(run.taken) IN
          /\ Found(key) /\ RecordOf(key).body.kind # "command"
          /\ run' = [Admit(key) EXCEPT
                        !.cadence = @ \/ RecordOf(key).body.kind = "calendar"]
    /\ UNCHANGED <<now, journal, schedule, events, outcomes, settled, pc, todo,
                   saved, batch, failures>>

\* Refused before it changed anything: a stale revision, or the policy,
\* authority, issuer or payload checks of its admission.
RejectCommand ==
    /\ pc = "admit" /\ run.taken # {}
    /\ LET key == First(run.taken) IN
          /\ Found(key) /\ RecordOf(key).body.kind = "command"
          /\ RecordAttempt(RecordOf(key), revision, FALSE)
          /\ run' = Admit(key)
    /\ UNCHANGED <<now, journal, schedule, events, settled, pc, todo, saved,
                   batch, failures>>

\* Mutant: any revision up to the current one is accepted.
NotAhead(record) == record.body.expected <= revision

UpToDate(record) == record.body.expected = revision

BeginCommand(plugin, program) ==
    /\ pc = "admit" /\ run.taken # {}
    /\ Found(First(run.taken))
    /\ LET record == RecordOf(First(run.taken)) IN
          record.body.kind = "command" /\ UpToDate(record)
    /\ batch' = PartialCheckpoint
    /\ todo' = [i \in DOMAIN program |->
                  [directive |-> program[i], plugin |-> plugin, depth |-> 0]]
    /\ run' = [run EXCEPT !.caller = "command"] /\ pc' = "apply"
    /\ UNCHANGED <<now, journal, schedule, events, outcomes, settled, saved,
                   failures>>

\* The command's handler panics, which no command is rejected for.
HandlerPanics ==
    /\ pc = "admit" /\ run.taken # {} /\ failures < MaxFailures
    /\ Found(First(run.taken))
    /\ LET record == RecordOf(First(run.taken)) IN
          record.body.kind = "command" /\ UpToDate(record)
    /\ AbortBoundary
    /\ failures' = failures + 1

\* The journal has another record at the place of one that was taken.
RecordLost ==
    /\ pc = "admit" /\ run.taken # {} /\ ~Found(First(run.taken))
    /\ AbortBoundary
    /\ UNCHANGED failures

\* All admitted: the scheduled actions at the boundary's own time run next.
EndAdmission ==
    /\ pc = "admit" /\ run.taken = {}
    /\ run' = [run EXCEPT !.caller = "boundary"] /\ pc' = "scheduled"
    /\ UNCHANGED <<now, journal, schedule, events, outcomes, settled, todo,
                   saved, batch, failures>>
-----------------------------------------------------------------------------
(* Applying directives, depth first: the reactions to an event come before *)
(* the directives that follow the one that emitted it.                     *)

Applying(op) == pc = "apply" /\ todo # <<>> /\ Head(todo).directive.op = op

ApplyEmit(reaction, reactor) ==
    /\ Applying("emit") /\ Head(todo).depth < MaxDepth
    /\ events' = Append(events, now)
    /\ todo' = [i \in DOMAIN reaction |->
                   [directive |-> reaction[i], plugin |-> reactor,
                    depth |-> Head(todo).depth + 1]] \o Tail(todo)
    /\ UNCHANGED <<now, journal, schedule, outcomes, settled, pc, run, saved,
                   batch, failures>>

ApplySchedule ==
    /\ Applying("schedule") /\ Head(todo).directive.after > 0
    /\ actions' = actions \cup
          {[at |-> now + Head(todo).directive.after, seq |-> nextSeq,
            op |-> Head(todo).directive.next, plugin |-> Head(todo).plugin]}
    /\ nextSeq' = nextSeq + 1
    /\ todo' = Tail(todo)
    /\ UNCHANGED <<now, journal, events, outcomes, settled, pc, run, saved,
                   batch, failures>>

\* A packet a command issues belongs to its plugin; a reactor's to no one.
ApplyEnqueue(class, priority) ==
    /\ Applying("enqueue")
    /\ LET head == Head(todo) IN
          PushIngress([kind |-> "plugin", plugin |-> head.plugin, internal |-> FALSE,
                       issuer |-> IF head.depth = 0 THEN head.plugin ELSE Event],
                      now + head.directive.after, class, priority, TRUE)
    /\ todo' = Tail(todo)
    /\ UNCHANGED <<now, schedule, events, outcomes, settled, pc, run, saved,
                   batch, failures>>

\* The head cannot be applied: with a code that rejects a command ...
Refused == \/ Applying("fail")
           \/ Applying("schedule") /\ Head(todo).directive.after = 0

\* ... or because events nest too deep, which no command is rejected for.
TooDeep == Applying("emit") /\ Head(todo).depth >= MaxDepth

RollBackCommand ==
    /\ Refused /\ run.caller = "command"
    /\ RestorePartial
    /\ LET key == First(run.taken) IN
          /\ RecordAttempt(RecordOf(key), batch.revision, FALSE)
          /\ run' = [Admit(key) EXCEPT !.caller = "none"]
    /\ todo' = <<>> /\ pc' = "admit" /\ batch' = NoPartial
    /\ UNCHANGED <<ingress, pending, cancelled, boundaries, saved, failures>>

RollBackBatch ==
    /\ Refused \/ TooDeep
    /\ ~run.canonical
    /\ RestorePartial /\ revision' = batch.revision
    /\ todo' = <<>> /\ Return
    /\ UNCHANGED <<ingress, pending, cancelled, attempts, boundaries, failures>>

RollBackBoundary ==
    /\ \/ Refused /\ run.caller # "command"
       \/ TooDeep
    /\ run.canonical
    /\ AbortBoundary
    /\ UNCHANGED failures

EndApply ==
    /\ pc = "apply" /\ todo = <<>>
    /\ IF run.caller = "command"
       THEN LET key == First(run.taken) IN
              /\ RecordAttempt(RecordOf(key), revision, TRUE)
              /\ run' = [Admit(key) EXCEPT !.caller = "none"]
              /\ pc' = "admit" /\ batch' = NoPartial
       ELSE pc' = "scheduled" /\ UNCHANGED <<run, outcomes, batch>>
    /\ UNCHANGED <<now, journal, schedule, events, settled, todo, saved, failures>>

-----------------------------------------------------------------------------
(* Boundary systems and commit. *)

\* A plugin whose boundary systems this boundary dispatches.  They see the
\* events since the last boundary's cut, their own not among them.
Due(plugin) ==
    \/ plugin \in EventPlugins /\ (run.cut > cursor \/ run.admitted # <<>>)
    \/ plugin \in CadencePlugins /\ run.cadence

SystemSchedules(plugin, target, internal, class, after, priority) ==
    /\ pc = "systems" /\ Due(plugin)
    /\ PushIngress([kind |-> "plugin", plugin |-> target, internal |-> internal,
                    issuer |-> plugin], now + after, class, priority, TRUE)
    /\ run' = [run EXCEPT !.generated = @ \cup {nextId}]
    /\ UNCHANGED <<now, schedule, events, outcomes, settled, pc, todo, saved,
                   batch, failures>>

SystemCancels(plugin, key) ==
    /\ pc = "systems" /\ Due(plugin)
    /\ Cancellable(key, "boundary", plugin)
    /\ PushCancellation(key, TRUE)
    /\ run' = [run EXCEPT !.generated = @ \cup {nextId}]
    /\ UNCHANGED <<now, schedule, events, outcomes, settled, pc, todo, saved,
                   batch, failures>>

\* No reactor runs for an event of a boundary system.
SystemEmits(plugin) ==
    /\ pc = "systems" /\ Due(plugin)
    /\ events' = Append(events, now)
    /\ UNCHANGED <<now, journal, schedule, outcomes, settled, control, saved,
                   batch, failures>>

\* A system that panics, or proposes what the boundary cannot commit.
SystemFails(plugin) ==
    /\ pc = "systems" /\ Due(plugin) /\ failures < MaxFailures
    /\ AbortBoundary
    /\ failures' = failures + 1

\* Mutant: the cursor passes over the events of the boundary's own systems.
CommitPastOwnEvents ==
    /\ pc = "systems"
    /\ boundaries' = Append(boundaries,
          [at |-> run.goal, admitted |-> run.admitted, generated |-> run.generated,
           first |-> cursor + 1, last |-> run.cut])
    /\ cursor' = Len(events)
    /\ revision' = revision + 1
    /\ Return
    /\ UNCHANGED <<now, journal, schedule, events, attempts, todo, failures>>

Commit ==
    /\ pc = "systems"
    /\ boundaries' = Append(boundaries,
          [at |-> run.goal, admitted |-> run.admitted, generated |-> run.generated,
           first |-> cursor + 1, last |-> run.cut])
    /\ cursor' = run.cut
    /\ revision' = revision + 1
    /\ Return
    /\ UNCHANGED <<now, journal, schedule, events, attempts, todo, failures>>

-----------------------------------------------------------------------------
(* The specification. *)

Init ==
    /\ now = 0 /\ revision = 0
    /\ ingress = <<>> /\ nextId = 1 /\ pending = {} /\ cancelled = {}
    /\ actions = {} /\ nextSeq = 1
    /\ events = <<>> /\ attempts = <<>> /\ boundaries = <<>> /\ cursor = 0
    /\ pc = "idle" /\ run = Call(0, FALSE) /\ todo = <<>>
    /\ saved = NoFull /\ batch = NoPartial
    /\ failures = 0

\* Times a host asks for: now, and the later ones up to the bound.
Times == {now} \cup (now .. MaxTime)

Room == Len(ingress) < MaxIngress

Enqueue ==
    /\ Room
    /\ \E due \in Times :
          \/ \E priority \in Priorities, request \in Requests,
                expected \in revision .. revision + 1 :
                EnqueueCommand(due, priority, request, expected)
          \/ \E plugin \in Plugins, internal \in BOOLEAN,
                class \in PacketClasses, priority \in Priorities :
                EnqueuePlugin(plugin, internal, class, due, priority)
          \/ ScheduleCalendar(due)

Withdraw ==
    /\ Room
    /\ \E key \in pending, plugin \in Plugins :
          CancelPlugin(key, "host", plugin) \/ CancelPlugin(key, "permit", plugin)

\* The steps of a running call whose order and inputs are the code's own.
Step ==
    \/ BeginBatch \/ FinishAdvance \/ TakeDueIngress
    \/ RunScheduled \/ EndScheduled
    \/ AdmitPacket \/ RejectCommand \/ EndAdmission
    \/ \E plugin \in Plugins, program \in Programs : BeginCommand(plugin, program)
    \/ \E plugin \in Plugins, reaction \in Reactions : ApplyEmit(reaction, plugin)
    \/ ApplySchedule
    \/ \E class \in PacketClasses, priority \in Priorities :
          ApplyEnqueue(class, priority)
    \/ HandlerPanics \/ RecordLost \/ RollBackCommand \/ RollBackBatch \/ RollBackBoundary
    \/ EndApply \/ Commit

\* What a boundary system may do before the boundary commits.
System ==
    \E plugin \in Plugins :
        \/ /\ Room
           /\ \/ \E target \in Plugins, internal \in BOOLEAN,
                    class \in PacketClasses, after \in Delays,
                    priority \in Priorities :
                    SystemSchedules(plugin, target, internal, class, after, priority)
              \/ \E key \in pending : SystemCancels(plugin, key)
        \/ Len(events) < MaxEvents /\ SystemEmits(plugin)
        \/ SystemFails(plugin)

Next ==
    \/ Enqueue \/ Withdraw
    \/ \E at \in Times : BeginAdvance(at) \/ SettleBoundary(at)
    \/ StepCanonical
    \/ Step \/ System

Spec == Init /\ [][Next]_vars

\* A call that started runs to its end, and the host calls step_canonical
\* again and again, however many other calls it makes in between.
FairSpec == Spec /\ WF_vars(Step) /\ SF_vars(StepCanonical)

-----------------------------------------------------------------------------
(* What the state is. *)

Actions == [at : Nat, seq : Nat, op : {"emit", "fail"}, plugin : Plugins]

Attempt == [request : Requests, at : Nat, revision : Nat, expected : Nat,
            accepted : BOOLEAN]

Boundary == [at : Nat, admitted : Seq(Nat), generated : SUBSET Nat,
             first : Nat, last : Nat]

CallState == [goal : Nat, canonical : BOOLEAN, taken : SUBSET QueueKeys,
              caller : {"none", "batch", "boundary", "command"},
              admitted : Seq(Nat), generated : SUBSET Nat, cadence : BOOLEAN,
              cut : Nat]

Work == [directive : Directive, plugin : Plugins, depth : Nat]

Partial == [now : Nat, actions : SUBSET Actions, nextSeq : Nat, nextId : Nat,
            revision : Nat, cursor : Nat, events : Nat]

Full == [now : Nat, actions : SUBSET Actions, nextSeq : Nat, nextId : Nat,
         revision : Nat, cursor : Nat, events : Nat, pending : SUBSET QueueKeys,
         cancelled : SUBSET Nat, ingress : Nat, attempts : Nat]

\* Every variable has the type the runtime gives it.
TypeOK ==
    /\ now \in Nat /\ revision \in Nat /\ nextId \in Nat /\ nextSeq \in Nat
    /\ ingress \in Seq(IngressRecord) /\ pending \subseteq QueueKeys
    /\ cancelled \subseteq Nat /\ actions \subseteq Actions
    /\ events \in Seq(Nat) /\ attempts \in Seq(Attempt)
    /\ boundaries \in Seq(Boundary) /\ cursor \in Nat
    /\ pc \in {"idle", "advance", "scheduled", "admit", "apply", "systems"}
    /\ run \in CallState /\ todo \in Seq(Work)
    /\ saved \in Full /\ batch \in Partial /\ failures \in Nat
-----------------------------------------------------------------------------
(* Safety. *)

Elements(seq) == {seq[i] : i \in DOMAIN seq}

Admitted(i) == \E b \in DOMAIN boundaries : i \in Elements(boundaries[b].admitted)

Ids(keys) == {k.id : k \in keys}

\* No identifier was given out twice: the counter is where the journal ends.  A
\* call that is refused after it issued packets takes back the counter and leaves
\* their records (CommandTransactionCheckpoint::restore), and only a boundary that
\* fails later puts that right.
Intact == nextId = Len(ingress) + 1

\* A packet that the host, a plugin's command or a boundary system did not issue.
\* The queue of an advance is checked once, before the reactors it runs.
ByReactor(record) == record.body.kind = "plugin" /\ record.body.issuer = Event

FromReactor(i) == ByReactor(ingress[i])

\* Every journalled record is at its own identifier.
IdentityIsPosition == \A i \in DOMAIN ingress : ingress[i].id = i

\* A record that is not a withdrawal is in exactly one place: still queued,
\* taken by the running boundary, admitted by it, admitted by an earlier one,
\* or withdrawn.  A withdrawal is never queued.
OneFate ==
    \A i \in DOMAIN ingress :
        LET places == << i \in Ids(pending), i \in Ids(run.taken),
                         i \in Elements(run.admitted), Admitted(i),
                         i \in cancelled >>
        IN  Cardinality({p \in DOMAIN places : places[p]})
              = (IF ingress[i].body.kind = "cancel" THEN 0 ELSE 1)

\* What the journal alone says was queued when boundary b admitted: the records
\* its issue cut lets it see, without those withdrawn or admitted before.  It does
\* not tell of a reactor's packets: one that an advance issued is admitted by the
\* boundary it is to be eligible after.
QueueAt(b) ==
    LET known == {i \in DOMAIN ingress : ingress[i].eligible < b} IN
    {i \in known :
        /\ ingress[i].body.kind # "cancel" /\ ~FromReactor(i)
        /\ \A c \in known : ingress[c].body.kind = "cancel"
                               => ingress[c].body.target # i
        /\ \A a \in 1 .. b - 1 : i \notin Elements(boundaries[a].admitted)}

\* The saved journal explains itself: what each boundary admitted, and in which
\* order, and what is still queued, are those a reader of the journal computes.
JournalReplays ==
    /\ \A b \in DOMAIN boundaries :
          LET admitted == boundaries[b].admitted
              queue == QueueAt(b) IN
          /\ \A i \in queue : ingress[i].due >= boundaries[b].at
          /\ {i \in Elements(admitted) : ~FromReactor(i)}
                = {i \in queue : ingress[i].due = boundaries[b].at}
          /\ \A i, j \in DOMAIN admitted :
                i < j => Before(QueueKey(ingress[admitted[i]]),
                                QueueKey(ingress[admitted[j]]))
    /\ pc = "idle" =>
          {k \in pending : ~FromReactor(k.id)}
            = {QueueKey(ingress[i]) : i \in QueueAt(Len(boundaries) + 1)}

\* Issue times only grow along the journal, and so do the issue cuts of what no
\* reactor issued; a record is not issued before the boundary that made it eligible.
IssueCuts ==
    /\ \A i, j \in DOMAIN ingress :
          i < j => /\ ingress[i].issued <= ingress[j].issued
                   /\ ~FromReactor(i) /\ ~FromReactor(j)
                        => ingress[i].eligible <= ingress[j].eligible
    /\ \A i \in DOMAIN ingress : ~FromReactor(i) =>
          /\ ingress[i].eligible <= Len(boundaries) + (IF pc = "idle" THEN 0 ELSE 1)
          /\ \A b \in DOMAIN boundaries :
                b <= ingress[i].eligible => boundaries[b].at <= ingress[i].issued

\* Between calls no queued ingress and no scheduled action is behind the clock,
\* so a boundary can always be settled at the earliest of them.
NothingOverdue ==
    pc = "idle" => /\ \A k \in pending : k.due >= now
                   /\ \A a \in actions : a.at > now

\* The same, but for the packets of reactors: an advance passes over them.
Punctual ==
    pc = "idle" => /\ \A k \in pending : k.due >= now \/ FromReactor(k.id)
                   /\ \A a \in actions : a.at > now

\* Every event is seen by the boundary systems of exactly one boundary, and
\* those a boundary's own systems emit by a later one.
EventsSeenOnce ==
    /\ \A b \in DOMAIN boundaries :
          /\ boundaries[b].first = (IF b = 1 THEN 1 ELSE boundaries[b - 1].last + 1)
          /\ \A e \in boundaries[b].first .. boundaries[b].last :
                e \in DOMAIN events /\ events[e] <= boundaries[b].at
    /\ cursor = (IF boundaries = <<>> THEN 0 ELSE boundaries[Len(boundaries)].last)

\* The revision counts the settled boundaries and the command attempts, so no
\* two commands that expect the same revision are both accepted.
OneWinnerPerRevision ==
    /\ revision = Len(attempts) + Len(boundaries)
    /\ \A i, j \in DOMAIN attempts :
          /\ attempts[i].accepted /\ attempts[j].accepted
          /\ attempts[i].expected = attempts[j].expected
          => i = j

\* A request has an attempt exactly when its ingress was admitted, one only, and
\* at the time the ingress was due.
AnsweredOnce ==
    \A i \in DOMAIN ingress : ingress[i].body.kind = "command" =>
        LET answers == {a \in DOMAIN attempts :
                          attempts[a].request = ingress[i].body.request} IN
        /\ Cardinality(answers)
             = (IF Admitted(i) \/ i \in Elements(run.admitted) THEN 1 ELSE 0)
        /\ \A a \in answers : attempts[a].at = ingress[i].due

\* A packet is withdrawn before it is due, by a later record, once.
WithdrawnInTime ==
    \A c \in DOMAIN ingress : ingress[c].body.kind = "cancel" =>
        LET target == ingress[c].body.target IN
        /\ target < c /\ ingress[c].issued < ingress[target].due
        /\ \A d \in DOMAIN ingress :
              ingress[d].body = ingress[c].body => d = c

\* As long as no refused call left a packet behind, the queue keeps faith with the
\* journal: every record has one fate, nothing but a reactor's packet is left
\* behind the clock, and what was withdrawn was not yet due.
QueueSound == Intact => OneFate /\ Punctual /\ WithdrawnInTime

\* As long as no refused call left a packet behind, the journal can be read back:
\* identifiers are positions, issue cuts grow, a request is answered once, and what
\* each boundary admitted follows from it.  Otherwise the call was a command that is
\* on record as refused, or scheduled work whose reactor had issued the packet.
JournalSound ==
    IF Intact
    THEN IdentityIsPosition /\ IssueCuts /\ AnsweredOnce /\ JournalReplays
    ELSE \/ \E a \in DOMAIN attempts : ~attempts[a].accepted
         \/ \E i \in DOMAIN ingress : FromReactor(i)

-----------------------------------------------------------------------------
(* What a call may do, and what must come about. *)

Settled(i) ==
    i \in cancelled \/ \E b \in DOMAIN boundaries : i \in Elements(boundaries[b].admitted)

-----------------------------------------------------------------------------
(* Refinement: to its host the kernel is an IngressLedger.  While a boundary *)
(* or a scheduled batch runs, the host's view is the open checkpoint.        *)

InBoundary == pc # "idle" /\ run.canonical

CommittedTime ==
    CASE InBoundary -> saved.now
      [] ~InBoundary /\ pc \in {"scheduled", "apply"} -> batch.now
      [] OTHER -> now

Committed == SubSeq(ingress, 1, IF InBoundary THEN saved.ingress ELSE Len(ingress))

Entry(record) ==
    [due |-> record.due,
     target |-> IF record.body.kind = "cancel" THEN record.body.target ELSE 0,
     loose |-> ByReactor(record)]

Ledger == INSTANCE IngressLedger WITH
    clock <- CommittedTime,
    issued <- [i \in DOMAIN Committed |-> Entry(ingress[i])],
    settled <- [b \in DOMAIN boundaries |-> Elements(boundaries[b].admitted)],
    withdrawn <- IF InBoundary THEN saved.cancelled ELSE cancelled,
    intact <- IF InBoundary THEN saved.nextId = saved.ingress + 1 ELSE Intact

\* Every step of the kernel is a step of the ledger or changes nothing the host
\* can see: the journal is append-only, failed boundaries leave no trace, each
\* boundary admits exactly what is due, and withdrawals come before due times; once
\* a refused call left a packet behind, only that nothing is taken back.
ImplementsLedger == Ledger!LedgerSpec
=============================================================================
