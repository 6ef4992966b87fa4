----------------------------- MODULE Decisions -----------------------------
(***************************************************************************)
(* Decision tickets: their life under canonical boundaries, the requests   *)
(* that change them, the traces and attempts that account for it, their    *)
(* archival, and the cancellation of tickets whose people become           *)
(* unavailable.                                                            *)
(*                                                                         *)
(* A request or archive commit is prepared against one state and applied   *)
(* in a later boundary, after the commands and requests admitted before    *)
(* it.  The queue is that of Kernel; requests due together are admitted by *)
(* priorities their issuers choose, so here in any order.                  *)
(***************************************************************************)
EXTENDS Integers, Sequences, FiniteSets

CONSTANTS
    Tickets,         \* ticket IDs a host may use
    People,          \* persons, whose availability may change
    Makers,          \* decision makers, some of them persons
    Controllers,     \* controllers that may be registered
    Registered,      \* those registered before
    Seat,            \* the seat a controller is bound to, or None
    Authority,       \* the person whose authority it carries, or None
    Mutations,       \* mutations a host asks for
    None,            \* no deadline, no parent, no seat, no person
    MaxTime,         \* bound: the last simulation time
    MaxRevision,     \* bound: the revision at which a host stops asking for more
    MaxRequests,     \* bound: decision requests
    MaxKeys,         \* bound: records in an archive commit
    MaxArchives,     \* bound: archive commits queued together
    MaxFailures      \* bound: boundaries that fail

Deadlines == Nat \cup {None}
Versions == Nat \ {0}

\* What a request may ask for.  A resolution selects an option or defers the
\* ticket, and a selected option may carry a command.
Mutation ==
         [kind : {"register"}, controller : Controllers]
    \cup [kind : {"open"}, ticket : Tickets, maker : Makers, controller : Controllers,
          deadline : Deadlines, parent : Tickets \cup {None}]
    \cup [kind : {"replace", "cancel"}, ticket : Tickets, version : Versions]
    \cup [kind : {"resolve"}, ticket : Tickets, version : Versions,
          controller : Controllers, selects : BOOLEAN, acts : BOOLEAN]
    \cup [kind : {"extend"}, ticket : Tickets, version : Versions, deadline : Nat]
    \cup [kind : {"reassign"}, ticket : Tickets, version : Versions,
          controller : Controllers]

ASSUME DecisionsAssumption ==
    /\ None \notin Tickets \cup People \cup Nat
    /\ Registered \subseteq Controllers
    /\ Authority \in [Controllers -> People \cup {None}]
    /\ DOMAIN Seat = Controllers
    /\ Mutations \subseteq Mutation
    /\ \A m \in Mutations : m.kind = "resolve" /\ m.acts => m.selects
    /\ {MaxTime, MaxRevision, MaxRequests, MaxKeys, MaxArchives, MaxFailures} \subseteq Nat

VARIABLES
    now,         \* scheduler.now
    revision,    \* counters.state_revision
    book,        \* current.decisions, the DecisionState
    away,        \* people current.person_availability holds unavailable
    nextTrace,   \* counters.next_decision_trace_id
    issued,      \* the decision requests in the ingress journal
    queue,       \* positions of those still queued
    archives,    \* queued archive commits
    pc,          \* the step the running boundary is at, or "idle"
    saved,       \* the boundary checkpoint
    failures     \* how many boundaries failed

clock == <<now, revision>>
decided == <<book, away, nextTrace>>
journal == <<issued, queue, archives>>
control == <<pc, saved, failures>>

vars == <<now, revision, book, away, nextTrace, issued, queue, archives, pc, saved,
          failures>>

-----------------------------------------------------------------------------
(* The decision state.                                                     *)

Nothing == [x \in {} |-> None]

NoKeys == [tickets |-> {}, traces |-> {}, attempts |-> {}]

EmptyBook ==
    [controllers |-> Registered, tickets |-> Nothing, opened |-> {},
     byDeadline |-> {}, byMaker |-> {}, byController |-> {},
     traces |-> Nothing, attempts |-> Nothing, archived |-> NoKeys]

IsOpen(ticket) == ticket.state = "open"

Past(deadline, at) == deadline # None /\ deadline < at

\* ensure_open_at_version, on a ticket that is in hot history.
OpenAtVersion(id, version, at) ==
    /\ id \in DOMAIN book.tickets
    /\ IsOpen(book.tickets[id]) /\ ~Past(book.tickets[id].deadline, at)
    /\ book.tickets[id].version = version

DeadlineEntry(id, ticket) ==
    IF ticket.deadline = None THEN {} ELSE {<<ticket.deadline, id>>}

\* index_open_ticket
Index(b, id, ticket) ==
    [b EXCEPT !.byDeadline = @ \cup DeadlineEntry(id, ticket),
              !.byMaker = @ \cup {<<ticket.maker, id>>},
              !.byController = @ \cup {<<ticket.controller, id>>}]

\* unindex_closed_ticket
Unindex(b, id, ticket) ==
    [b EXCEPT !.byDeadline = @ \ DeadlineEntry(id, ticket),
              !.byMaker = @ \ {<<ticket.maker, id>>},
              !.byController = @ \ {<<ticket.controller, id>>}]

\* A map with one entry more, or another one.
With(map, key, entry) ==
    [k \in DOMAIN map \cup {key} |-> IF k = key THEN entry ELSE map[k]]

Put(b, id, ticket) == [b EXCEPT !.tickets = With(@, id, ticket)]

\* A ticket that is still open moves in the indexes with its fields, one that
\* closed leaves them.
Change(b, id, ticket) ==
    LET without == Put(Unindex(b, id, b.tickets[id]), id, ticket) IN
    IF IsOpen(ticket) THEN Index(without, id, ticket) ELSE without

Bumped(b, id, at) == [b.tickets[id] EXCEPT !.version = @ + 1, !.updated = at]

\* Mutant: a deadline is over at its own time already.
OverAt(b, at) == {e \in b.byDeadline : e[1] <= at}

Over(b, at) == {e \in b.byDeadline : e[1] < at}

\* advance_time: open tickets whose deadline lies before `at` expire.
AdvanceTime(b, at) ==
    LET late == {e[2] : e \in {d \in Over(b, at) : IsOpen(b.tickets[d[2]])}} IN
    [b EXCEPT !.byDeadline = @ \ Over(b, at),
              !.byMaker = {e \in @ : e[2] \notin late},
              !.byController = {e \in @ : e[2] \notin late},
              !.tickets = [id \in DOMAIN @ |->
                  IF id \in late THEN [Bumped(b, id, at) EXCEPT !.state = "expired"]
                  ELSE @[id]]]

\* lineage_links: one decision maker, or two controllers of one seat.
Linked(parent, maker, controller) ==
    \/ parent.maker = maker
    \/ Seat[parent.controller] # None /\ Seat[parent.controller] = Seat[controller]

\* validate_parent_admission
ParentAdmits(parent, maker, controller) ==
    \/ parent = None
    \/ /\ parent \in DOMAIN book.tickets
       /\ ~IsOpen(book.tickets[parent])
       /\ Linked(book.tickets[parent], maker, controller)

-----------------------------------------------------------------------------
(* Whether a mutation applies, and the state it leads to.                  *)

\* decision_mutation_availability_error: the people who must be available.
Needs(m) ==
    CASE m.kind = "open" -> {m.maker, Authority[m.controller]}
      [] m.kind \in {"resolve", "reassign"} -> {Authority[m.controller]}
      [] OTHER -> {}

CanRegister(m) == m.controller \notin book.controllers

Register(m) == [book EXCEPT !.controllers = @ \cup {m.controller}]

\* A ticket ID is refused while it is in hot history, not once it is archived.
CanOpen(m, at) ==
    /\ m.ticket \notin DOMAIN book.tickets
    /\ m.controller \in book.controllers
    /\ ~Past(m.deadline, at)
    /\ ParentAdmits(m.parent, m.maker, m.controller)

Open(m, at) ==
    LET ticket == [maker |-> m.maker, controller |-> m.controller,
                   deadline |-> m.deadline, parent |-> m.parent, version |-> 1,
                   state |-> "open", trace |-> 0, opened |-> at, updated |-> at]
        listed == [book EXCEPT !.opened = @ \cup {m.ticket}]
    IN  Index(Put(listed, m.ticket, ticket), m.ticket, ticket)

Replace(m, at) == Change(book, m.ticket, Bumped(book, m.ticket, at))

\* Takes a state of its own: the sweep at a boundary's end cancels many.
Cancel(b, id, at) == Change(b, id, [Bumped(b, id, at) EXCEPT !.state = "cancelled"])

CanExtend(m, at) ==
    /\ OpenAtVersion(m.ticket, m.version, at)
    /\ book.tickets[m.ticket].deadline # None
    /\ m.deadline > book.tickets[m.ticket].deadline

\* Mutant: the deadline index keeps the old deadline.
ExtendKeepsIndex(m, at) ==
    Put(book, m.ticket, [Bumped(book, m.ticket, at) EXCEPT !.deadline = m.deadline])

Extend(m, at) ==
    Change(book, m.ticket, [Bumped(book, m.ticket, at) EXCEPT !.deadline = m.deadline])

\* A hot parent must stay linked; an archived one is not looked at.
CanReassign(m, at) ==
    /\ OpenAtVersion(m.ticket, m.version, at)
    /\ m.controller \in book.controllers
    /\ book.tickets[m.ticket].controller # m.controller
    /\ LET ticket == book.tickets[m.ticket] IN
          ticket.parent \in DOMAIN book.tickets
             => Linked(book.tickets[ticket.parent], ticket.maker, m.controller)

Reassign(m, at) ==
    Change(book, m.ticket, [Bumped(book, m.ticket, at) EXCEPT !.controller = m.controller])

CanResolve(m, at) ==
    /\ m.controller \in book.controllers
    /\ OpenAtVersion(m.ticket, m.version, at)
    /\ book.tickets[m.ticket].controller = m.controller

TraceOf(m) ==
    [ticket |-> m.ticket, version |-> book.tickets[m.ticket].version,
     selects |-> m.selects]

\* A resolution that selects an option closes the ticket, one that defers leaves
\* it open; both leave a trace and a new version.
Resolve(m, at) ==
    LET ticket == IF m.selects
                  THEN [Bumped(book, m.ticket, at) EXCEPT
                          !.state = "resolved", !.trace = nextTrace]
                  ELSE Bumped(book, m.ticket, at)
    IN  [Change(book, m.ticket, ticket) EXCEPT !.traces = With(@, nextTrace, TraceOf(m))]

CanApply(m, at) ==
    CASE m.kind = "register" -> CanRegister(m)
      [] m.kind = "open" -> CanOpen(m, at)
      [] m.kind \in {"replace", "cancel"} -> OpenAtVersion(m.ticket, m.version, at)
      [] m.kind = "extend" -> CanExtend(m, at)
      [] m.kind = "reassign" -> CanReassign(m, at)
      [] m.kind = "resolve" -> CanResolve(m, at)

\* DecisionState::apply
Applied(m, at) ==
    AdvanceTime(CASE m.kind = "register" -> Register(m)
                  [] m.kind = "open" -> Open(m, at)
                  [] m.kind = "replace" -> Replace(m, at)
                  [] m.kind = "cancel" -> Cancel(book, m.ticket, at)
                  [] m.kind = "extend" -> Extend(m, at)
                  [] m.kind = "reassign" -> Reassign(m, at)
                  [] m.kind = "resolve" -> Resolve(m, at),
                at)

\* append_attempt
Attempted(b, request, accepted) ==
    [b EXCEPT !.attempts = With(@, request, accepted)]

-----------------------------------------------------------------------------
(* Archival of hot history.                                                *)

\* The records a commit's source root stands for: all of hot history.
Hot == [tickets |-> book.tickets, traces |-> book.traces, attempts |-> book.attempts]

\* validate_archive_eligibility
Eligible(keys) ==
    /\ \A f \in DOMAIN keys : keys[f] \cap book.archived[f] = {}
    /\ keys.tickets \subseteq {t \in DOMAIN book.tickets : ~IsOpen(book.tickets[t])}
    /\ keys.traces \subseteq DOMAIN book.traces
    /\ keys.attempts \subseteq DOMAIN book.attempts
    /\ \A i \in keys.traces :
          LET t == book.traces[i].ticket IN
          IF t \in DOMAIN book.tickets THEN ~IsOpen(book.tickets[t])
                                       ELSE t \in book.archived.tickets

Keep(f, gone) == [x \in DOMAIN f \ gone |-> f[x]]

\* commit_verified_decision_archive, of a commit whose source is current.
Archived(keys) ==
    [book EXCEPT !.tickets = Keep(@, keys.tickets),
                 !.traces = Keep(@, keys.traces),
                 !.attempts = Keep(@, keys.attempts),
                 !.opened = @ \ keys.tickets,
                 !.archived = [f \in DOMAIN @ |-> @[f] \cup keys[f]]]

-----------------------------------------------------------------------------
(* Host calls between boundaries.                                          *)

Issue(request) ==
    /\ issued' = Append(issued, request)
    /\ queue' = queue \cup {Len(issued) + 1}
    /\ UNCHANGED archives

\* enqueue_decision of a request whose ID is new; one whose ID was used returns
\* its receipt or is refused, and changes nothing.
EnqueueDecision(due, mutation) ==
    /\ pc = "idle" /\ due >= now
    /\ Issue([due |-> due, expected |-> revision, mutation |-> mutation])
    /\ UNCHANGED <<clock, decided, control>>

\* prepare_decision_archive, and enqueue_decision_archive_commit of what it
\* prepared.
EnqueueArchive(due, keys) ==
    /\ pc = "idle" /\ due >= now
    /\ keys # NoKeys /\ Eligible(keys)
    /\ archives' = archives \cup {[due |-> due, keys |-> keys, source |-> Hot]}
    /\ UNCHANGED <<clock, decided, issued, queue, control>>

QueuedAt == {issued[i].due : i \in queue} \cup {a.due : a \in archives}

\* advance: time passes, tickets stay as they are.
Advance(target) ==
    /\ pc = "idle" /\ target >= now
    /\ \A due \in QueuedAt : due > target
    /\ now' = target
    /\ UNCHANGED <<revision, decided, journal, control>>

-----------------------------------------------------------------------------
(* The boundary.                                                           *)

Checkpoint ==
    [now |-> now, revision |-> revision, book |-> book, away |-> away,
     nextTrace |-> nextTrace, issued |-> issued, queue |-> queue, archives |-> archives]

NoCheckpoint == [now |-> 0]

\* Mutant: the tickets the last boundary opened stay listed.
BeginKeepingBatch(at, commands) ==
    /\ pc = "idle" /\ at >= now
    /\ \A due \in QueuedAt : due >= at
    /\ saved' = Checkpoint /\ pc' = "admit"
    /\ now' = at /\ revision' = revision + commands
    /\ UNCHANGED <<decided, journal, failures>>

\* Starts a boundary and admits the commands due with it, which come before
\* every decision; each takes a revision.
BeginBoundary(at, commands) ==
    /\ pc = "idle" /\ at >= now
    /\ \A due \in QueuedAt : due >= at
    /\ saved' = Checkpoint /\ pc' = "admit"
    /\ now' = at /\ revision' = revision + commands
    /\ book' = [book EXCEPT !.opened = {}]
    /\ UNCHANGED <<away, nextTrace, journal, failures>>

\* The requests and archive commits the boundary took: those due at its time.
Taken == {i \in queue : issued[i].due = now}
TakenArchives == {a \in archives : a.due = now}

UpToDate(i) == issued[i].expected = revision

\* record_decision_rejection.  Beyond what follows from the tickets, a request
\* may be refused for its entities, its payload or its nested command.
RejectDecision(i) ==
    /\ pc = "admit" /\ i \in Taken
    /\ book' = Attempted(book, i, FALSE)
    /\ queue' = queue \ {i}
    /\ UNCHANGED <<clock, away, nextTrace, issued, archives, control>>

\* apply_decision_request; the nested command takes a revision of its own,
\* whether it is applied or rejected.
AcceptDecision(i) ==
    LET mutation == issued[i].mutation
        resolves == mutation.kind = "resolve"
    IN
    /\ pc = "admit" /\ i \in Taken
    /\ UpToDate(i) /\ Needs(mutation) \cap away = {} /\ CanApply(mutation, now)
    /\ book' = Attempted(Applied(mutation, now), i, TRUE)
    /\ nextTrace' = IF resolves THEN nextTrace + 1 ELSE nextTrace
    /\ revision' = IF resolves /\ mutation.acts THEN revision + 1 ELSE revision
    /\ queue' = queue \ {i}
    /\ UNCHANGED <<now, away, issued, archives, control>>

\* apply_maintenance_request: maintenance comes after every decision, and a
\* commit prepared from another hot history is dropped as stale.  A current one is
\* prepared again; a record of it that was archived meanwhile, which takes an ID
\* that is used twice, fails the boundary.
ApplyArchive(commit) ==
    /\ pc = "admit" /\ Taken = {} /\ commit \in TakenArchives
    /\ commit.source = Hot => Eligible(commit.keys)
    /\ book' = IF commit.source = Hot THEN Archived(commit.keys) ELSE book
    /\ archives' = archives \ {commit}
    /\ UNCHANGED <<clock, away, nextTrace, issued, queue, control>>

\* With its ingress admitted, the boundary expires what its time has passed.
EndAdmission ==
    /\ pc = "admit" /\ Taken = {} /\ TakenArchives = {}
    /\ book' = AdvanceTime(book, now)
    /\ pc' = "systems"
    /\ UNCHANGED <<clock, away, nextTrace, journal, saved, failures>>

\* A system draws the resolution of an open ticket at random: the boundary issues
\* it for the revision it will leave behind, due at once.
ResolveAtRandom(id, acts) ==
    LET ticket == book.tickets[id] IN
    /\ pc = "systems" /\ id \in DOMAIN book.tickets /\ IsOpen(ticket)
    /\ {ticket.maker, Authority[ticket.controller]} \cap away = {}
    /\ Issue([due |-> now, expected |-> revision + 1,
              mutation |-> [kind |-> "resolve", ticket |-> id, version |-> ticket.version,
                            controller |-> ticket.controller, selects |-> TRUE,
                            acts |-> acts]])
    /\ UNCHANGED <<clock, decided, control>>

\* sweep_unavailable_person_tickets: cancels every open ticket of the people who
\* became unavailable.
Swept(b, gone) ==
    LET swept == {t \in DOMAIN b.tickets :
            /\ IsOpen(b.tickets[t])
            /\ {b.tickets[t].maker, Authority[b.tickets[t].controller]} \cap gone # {}}
    IN  [b EXCEPT !.tickets = [t \in DOMAIN @ |->
                      IF t \in swept THEN [Bumped(b, t, now) EXCEPT !.state = "cancelled"]
                      ELSE @[t]],
                  !.byDeadline = {e \in @ : e[2] \notin swept},
                  !.byMaker = {e \in @ : e[2] \notin swept},
                  !.byController = {e \in @ : e[2] \notin swept}]

\* The boundary's systems may have changed who is available.
Commit(gone, back) ==
    /\ pc = "systems"
    /\ away' = (away \cup gone) \ back
    /\ book' = Swept(book, gone)
    /\ revision' = revision + 1
    /\ pc' = "idle" /\ saved' = NoCheckpoint
    /\ UNCHANGED <<now, nextTrace, journal, failures>>

\* Mutant: the trace counter is not in the checkpoint.
RestoreButTraces ==
    /\ now' = saved.now /\ revision' = saved.revision
    /\ book' = saved.book /\ away' = saved.away /\ UNCHANGED nextTrace
    /\ issued' = saved.issued /\ queue' = saved.queue /\ archives' = saved.archives

\* BoundaryTransactionCheckpoint::restore
RestoreBoundary ==
    /\ now' = saved.now /\ revision' = saved.revision
    /\ book' = saved.book /\ away' = saved.away /\ nextTrace' = saved.nextTrace
    /\ issued' = saved.issued /\ queue' = saved.queue /\ archives' = saved.archives

FailBoundary ==
    /\ pc # "idle" /\ failures < MaxFailures
    /\ RestoreBoundary
    /\ pc' = "idle" /\ saved' = NoCheckpoint /\ failures' = failures + 1

-----------------------------------------------------------------------------
(* The specification.                                                      *)

Init ==
    /\ now = 0 /\ revision = 0
    /\ book = EmptyBook /\ away = {} /\ nextTrace = 1
    /\ issued = <<>> /\ queue = {} /\ archives = {}
    /\ pc = "idle" /\ saved = NoCheckpoint /\ failures = 0

\* Times a host asks for: now, and the later ones up to the bound.
Times == {now} \cup (now .. MaxTime)

Keys ==
    {keys \in [tickets : SUBSET DOMAIN book.tickets, traces : SUBSET DOMAIN book.traces,
               attempts : SUBSET DOMAIN book.attempts] :
        Cardinality(keys.tickets) + Cardinality(keys.traces)
            + Cardinality(keys.attempts) <= MaxKeys}

Host ==
    \E at \in Times :
        \/ Advance(at)
        \/ /\ revision < MaxRevision /\ Len(issued) < MaxRequests
           /\ \E mutation \in Mutations : EnqueueDecision(at, mutation)
        \/ /\ revision < MaxRevision /\ Cardinality(archives) < MaxArchives
           /\ \E keys \in Keys : EnqueueArchive(at, keys)
        \/ /\ revision < MaxRevision \/ at \in QueuedAt
           /\ \E commands \in 0 .. 1 : BeginBoundary(at, commands)

Boundary ==
    \/ \E i \in Taken : RejectDecision(i) \/ AcceptDecision(i)
    \/ \E commit \in TakenArchives : ApplyArchive(commit)
    \/ EndAdmission
    \/ /\ Len(issued) < MaxRequests
       /\ \E id \in DOMAIN book.tickets, acts \in BOOLEAN : ResolveAtRandom(id, acts)
    \/ \E gone \in SUBSET People : \E back \in SUBSET People : Commit(gone, back)
    \/ FailBoundary

Next == Host \/ Boundary

Spec == Init /\ [][Next]_vars
-----------------------------------------------------------------------------
(* Properties.                                                             *)

Ticket ==
    [maker : Makers, controller : Controllers, deadline : Deadlines,
     parent : Tickets \cup {None}, version : Versions,
     state : {"open", "resolved", "cancelled", "expired"}, trace : Nat,
     opened : Nat, updated : Nat]

Trace == [ticket : Tickets, version : Versions, selects : BOOLEAN]

BookOK(b) ==
    /\ b.controllers \subseteq Controllers
    /\ DOMAIN b.tickets \subseteq Tickets
    /\ \A t \in DOMAIN b.tickets : b.tickets[t] \in Ticket
    /\ DOMAIN b.traces \subseteq Versions
    /\ \A i \in DOMAIN b.traces : b.traces[i] \in Trace
    /\ DOMAIN b.attempts \subseteq Versions
    /\ \A i \in DOMAIN b.attempts : b.attempts[i] \in BOOLEAN
    /\ b.byDeadline \subseteq Nat \X Tickets
    /\ b.byMaker \subseteq Makers \X Tickets
    /\ b.byController \subseteq Controllers \X Tickets
    /\ b.opened \subseteq Tickets
    /\ b.archived \in [tickets : SUBSET Tickets, traces : SUBSET Versions,
                       attempts : SUBSET Versions]

\* The state has its types: hot records and archive receipts are keyed by identifiers
\* that were really given out, and the indexes hold deadlines, makers and controllers.
TypeOK ==
    /\ now \in Nat /\ revision \in Nat /\ nextTrace \in Versions
    /\ BookOK(book) /\ away \subseteq People
    /\ \A i \in DOMAIN issued :
          /\ issued[i].due \in Nat /\ issued[i].expected \in Nat
          /\ issued[i].mutation \in Mutation
    /\ queue \subseteq DOMAIN issued
    /\ pc \in {"idle", "admit", "systems"}
    /\ failures \in Nat

\* The indexes of open tickets, kept by hand by every operation, hold exactly the
\* open tickets: what DecisionState::validate requires of every state it loads.
IndexesAgree ==
    LET open == {t \in DOMAIN book.tickets : IsOpen(book.tickets[t])} IN
    /\ book.byDeadline = UNION {DeadlineEntry(t, book.tickets[t]) : t \in open}
    /\ book.byMaker = {<<book.tickets[t].maker, t>> : t \in open}
    /\ book.byController = {<<book.tickets[t].controller, t>> : t \in open}

\* Every hot ticket with a parent was opened after the parent closed, for the
\* parent's maker or seat, and stays so through reassignment; a parent that left
\* hot history was archived.  Ticket lineages are the causal record of a run.
Lineage ==
    \A t \in DOMAIN book.tickets :
        LET ticket == book.tickets[t]
            parent == book.tickets[ticket.parent]
        IN  \/ ticket.parent \in book.archived.tickets \cup {None}
            \/ /\ ticket.parent \in DOMAIN book.tickets
               /\ ~IsOpen(parent) /\ parent.updated <= ticket.opened
               /\ Linked(parent, ticket.maker, ticket.controller)

\* Tickets opened again under an ID that is archived: a new ticket is refused only an
\* ID in hot history.  No archive commit takes such a ticket, so it stays hot.
Reopened == DOMAIN book.tickets \cap book.archived.tickets

\* A ticket is resolved by exactly one trace, the one it names, made at the version
\* before; traces are numbered without a gap, across boundaries that failed and
\* across archival.  Of a reopened ticket, the traces of its first life may be hot.
TracesResolve ==
    /\ DOMAIN book.traces \cup book.archived.traces = 1 .. nextTrace - 1
    /\ \A t \in DOMAIN book.tickets :
          LET ticket == book.tickets[t] IN
          ticket.state = "resolved" =>
              \/ ticket.trace \in book.archived.traces
              \/ /\ ticket.trace \in DOMAIN book.traces
                 /\ book.traces[ticket.trace] =
                       [ticket |-> t, version |-> ticket.version - 1, selects |-> TRUE]
    /\ \A i \in DOMAIN book.traces :
          LET t == book.traces[i].ticket IN
          t \in DOMAIN book.tickets \ Reopened /\ book.traces[i].selects
              => book.tickets[t].state = "resolved" /\ book.tickets[t].trace = i

Accepted(i) == i \in DOMAIN book.attempts /\ book.attempts[i]

\* Two requests prepared against the same version of a ticket never both change it,
\* however they were queued, unless the ticket was reopened and counts its versions
\* again; a resolution that acts lets no other one prepared at its revision act.
OneChangePerVersion ==
    \A i, j \in DOMAIN issued :
        LET m == issued[i].mutation
            n == issued[j].mutation
        IN
        i # j /\ Accepted(i) /\ Accepted(j) =>
            /\ "version" \in DOMAIN m /\ "version" \in DOMAIN n
                  => m.ticket # n.ticket \/ m.version # n.version \/ m.ticket \in Reopened
            /\ m.kind = "resolve" /\ n.kind = "resolve" /\ m.acts /\ n.acts
                  => issued[i].expected # issued[j].expected

\* Every request is queued until it is answered, and answered once, also when
\* boundaries that admitted it fail and when its attempt is archived.
AnsweredOnce ==
    LET answered == DOMAIN book.attempts \cup book.archived.attempts IN
    queue \cap answered = {} /\ queue \cup answered = DOMAIN issued

\* No trace and no attempt is hot and archived at once: what validate refuses in a
\* snapshot as overlapping hot history.
HotOrArchived ==
    /\ DOMAIN book.traces \cap book.archived.traces = {}
    /\ DOMAIN book.attempts \cap book.archived.attempts = {}

\* Between boundaries no open ticket waits for somebody unavailable: neither its
\* decision maker nor the person behind its controller.
NoneForTheAway ==
    pc = "idle" =>
        \A t \in DOMAIN book.tickets :
            IsOpen(book.tickets[t]) =>
                {book.tickets[t].maker, Authority[book.tickets[t].controller]} \cap away = {}

\* The decision book can be searched: a ticket's status, its index entries and its
\* lineage agree after every boundary and every restore, whichever of them the mutation
\* or the failure touched, and nobody unavailable is waited for.
BookSound == TypeOK /\ IndexesAgree /\ Lineage /\ NoneForTheAway

\* Nothing of a decision is lost or told twice: every trace leads to its ticket, hot or
\* archived, every version changed once, every request got one answer, and an archived
\* trace or attempt is nowhere in the hot state.  It holds whatever IDs hosts use again:
\* what reuse breaks is said of the tickets it opened again, and of no other.
HistorySound == OneChangePerVersion /\ AnsweredOnce /\ HotOrArchived /\ TracesResolve

\* Archiving inside a boundary drops none of the tickets that boundary opened.
ArchiveKeepsBatch ==
    [][pc' = "admit" /\ book'.archived # book.archived => book'.opened = book.opened]_vars

-----------------------------------------------------------------------------
(* Decisions implements TicketBook: the committed tickets, as they are when *)
(* no boundary runs.                                                       *)

CommittedBook == IF pc = "idle" THEN book ELSE saved.book

Life(b, t) ==
    IF t \in DOMAIN b.tickets
    THEN [phase |-> b.tickets[t].state, version |-> b.tickets[t].version,
          deadline |-> b.tickets[t].deadline, again |-> t \in b.archived.tickets]
    ELSE [phase |-> IF t \in b.archived.tickets THEN "archived" ELSE "absent",
          version |-> 0, deadline |-> None, again |-> FALSE]

Promise == INSTANCE TicketBook WITH
    clock <- IF pc = "idle" THEN now ELSE saved.now,
    life <- [t \in Tickets |-> Life(CommittedBook, t)]

\* Every step of the decision framework is one TicketBook allows, or changes nothing
\* it shows: requests, failures, archival and random resolutions included.
ImplementsBook == Promise!BookSpec
=============================================================================
