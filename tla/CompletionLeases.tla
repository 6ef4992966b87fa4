--------------------------- MODULE CompletionLeases ---------------------------
(***************************************************************************)
(* The completion leases of the resource plugin (canwu-resource, lease.rs, *)
(* runtime.rs and plugin.rs).  An irreversible operation is paid for in    *)
(* advance: a holder acquires a lease, every participant of it grants      *)
(* units of the run budget and names the record versions it will touch,    *)
(* each grant is prepared, which locks those versions, and the lease is    *)
(* activated.  The certificate of the activation is redeemed by one        *)
(* operation, at the instant it was issued for.  A grant that is not       *)
(* activated in time expires, by ticks that the plugin queues to itself;   *)
(* while its expiry does not fit the root, it waits for an archive commit, *)
(* another grant or a tick of the host.                                    *)
(***************************************************************************)
EXTENDS Integers, FiniteSets, FiniteSetsExt, Functions

CONSTANTS
    Leases,         \* CompletionLeaseAcquisitionId
    Holder,         \* the authority of each lease, as a number
    Burst,          \* the leases of class SharedBurst; the rest are Guaranteed
    Participants,   \* the plugins each lease expects a grant of
    Units,          \* canonical units of each lease's recipe
    Targets,        \* the accounts each grant <<lease, plugin>> names
    Reported,       \* the leases whose recipe reserves a report
    Budget,         \* RunBudgetRevisionV1: [total, shared, partition]
    PendingLimit,   \* MAX_PENDING_LEASE_ACQUISITIONS_PER_AUTHORITY
    Lifetime,       \* PREACTIVATION_LEASE_TTL_BOUNDARIES
    Guard,          \* ACTIVATION_GUARD_BOUNDARIES
    Operations,     \* the operations that are sent
    MaxBoundary,    \* bound on the boundaries in which operations are sent
    MaxTime         \* bound on the minutes that pass

Plugin == "resource"
Pending == {"requested", "partially_granted", "fully_granted", "preparing",
            "prepared_all", "aborting"}
Over == {"released", "expired"}
Live == {"held", "prepared", "consumed"}
LeaseAssumption ==
    /\ Units \in [Leases -> Nat \ {0}]
    /\ \A a \in Leases : Participants[a] # {}
    /\ Lifetime \in Nat /\ Guard \in Nat

VARIABLES
    book,      \* CompletionLeaseBookV1
    epochs,    \* AdmissionEpochV1 of each authority that has asked
    reports,   \* completion_report_reservations and completion_report_ready
    named,     \* the leases an applied outcome names
    version,   \* the revision of each account
    clock,     \* the instant and the boundary
    tick,      \* the expiry ticks admitted and scheduled, whether the last of them
               \* found no room, and whether other work took this boundary's key
    full,      \* neither a record nor an expiry fits the root beside what its leases
               \* reserve (max_archive_candidates, max_operation_outcomes)
    failed     \* a boundary has failed: nothing settles any more

vars == <<book, epochs, reports, named, version, clock, tick, full, failed>>

Accounts == UNION Range(Targets)
GrantsOf(b, a) == {g \in DOMAIN b.grant : g[1] = a}
In(b, states) == {a \in DOMAIN b.acquisition : b.acquisition[a].state \in states}
Partition(a) == Budget.partition[Holder[a]]

EmptyBook == [acquisition |-> <<>>, grant |-> <<>>, certificate |-> <<>>,
              lock |-> <<>>, due |-> {}, reserved |-> 0]

Init ==
    /\ book = EmptyBook
    /\ epochs = <<>>
    /\ reports = [reserved |-> {}, ready |-> {}]
    /\ named = {}
    /\ version = [x \in Accounts |-> 1]
    /\ clock = [at |-> 0, boundary |-> 1]
    /\ tick = [admitted |-> FALSE, scheduled |-> FALSE, skipped |-> FALSE, taken |-> FALSE]
    /\ full = FALSE
    /\ failed = FALSE

----------------------------------------------------------------------------
(* Admission.                                                               *)

(* request_acquisition: its pending limits.  The slots of a run budget are   *)
(* within the global limit, so that limit adds nothing to them.             *)
RoomToAsk(b, a) ==
    LET pending == In(b, Pending)
        slots == Budget.shared + FoldFunction(LAMBDA p, n : p.slots + n, 0, Budget.partition)
    IN  /\ Cardinality(pending) < slots
        /\ Cardinality({x \in pending : Holder[x] = Holder[a]}) < PendingLimit
        /\ IF a \in Burst
           THEN Cardinality(pending \cap Burst) < Budget.shared
           ELSE Cardinality({x \in pending \ Burst : Holder[x] = Holder[a]}) < Partition(a).slots

Lesser(x, y) == IF x < y THEN x ELSE y

(* ... and the refill of the authority's tokens at a later instant          *)
Refilled(e, p, at) ==
    LET refill == (at - e.refilled) \div p.refill
    IN  IF at = e.at THEN e
        ELSE [e EXCEPT !.at = at, !.count = 0,
                       !.tokens = IF refill > 0 THEN Lesser(@ + refill, p.capacity) ELSE @,
                       !.refilled = IF refill > 0 THEN at ELSE @]

(* ... and the epoch a request of lease a leaves, if it is admitted         *)
Spent(es, a, at) ==
    LET p == Partition(a)
        e == IF Holder[a] \in DOMAIN es THEN Refilled(es[Holder[a]], p, at)
             ELSE [at |-> at, tokens |-> p.capacity, refilled |-> at, eligible |-> at, count |-> 0]
    IN  IF at >= e.eligible /\ e.tokens > 0 /\ e.count < p.cap
        THEN {[h \in DOMAIN es \cup {Holder[a]} |->
                IF h = Holder[a]
                THEN [e EXCEPT !.tokens = @ - 1, !.count = @ + 1, !.eligible = at + p.cooldown]
                ELSE es[h]]}
        ELSE {}

Requested(b, a, at) ==
    [b EXCEPT !.acquisition = [x \in DOMAIN @ \cup {a} |->
        IF x = a THEN [state |-> "requested", at |-> at, sequence |-> Cardinality(named) + 1]
        ELSE @[x]]]

(* CompletionFairnessKeyV1, in deterministic_completion_fairness_order      *)
Precedes(b, x, y) ==
    LET key(a) == <<IF a \in Burst THEN 1 ELSE 0, Holder[a], b.acquisition[a].sequence>>
    IN  \E i \in 1..3 : key(x)[i] < key(y)[i] /\ \A j \in 1..i-1 : key(x)[j] = key(y)[j]

First(b) == {a \in In(b, {"requested"}) : \A x \in In(b, {"requested"}) \ {a} : Precedes(b, a, x)}

----------------------------------------------------------------------------
(* The steps of one lease; each yields the books it may leave, none if it   *)
(* is refused.                                                              *)

SetState(b, a, state) == [b EXCEPT !.acquisition[a].state = state]

Current(g, v) == {<<x, v[x]>> : x \in Targets[g]}

(* validate_completion_locked_targets                                       *)
TargetsCurrent(versions, v) == \A t \in versions : v[t[1]] = t[2]

(* grant_capacity                                                           *)
Grant(b, g, v, boundary) ==
    LET a == g[1]
        all == {<<a, p>> : p \in Participants[a]}
    IN  IF /\ a \in In(b, {"requested", "partially_granted"}) /\ g \in all
           /\ GrantsOf(b, a) = {} => a \in First(b)
           /\ g \notin DOMAIN b.grant
           /\ b.reserved + Units[a] <= Budget.total
        THEN {SetState(
                [b EXCEPT !.reserved = @ + Units[a],
                          !.due = @ \cup {g},
                          !.grant = [h \in DOMAIN @ \cup {g} |-> IF h = g
                            THEN [state |-> "held", targets |-> Current(g, v), expires |-> boundary + Lifetime]
                            ELSE @[h]]],
                a, IF GrantsOf(b, a) \cup {g} = all THEN "fully_granted" ELSE "partially_granted")}
        ELSE {}

(* reject_preparation                                                       *)
Rejected(b, g) ==
    SetState([b EXCEPT !.grant[g].state = "rejected",
                       !.reserved = @ - Units[g[1]],
                       !.due = @ \ {g}], g[1], "aborting")

(* prepare_capacity: a target is locked by another grant                    *)
Locked(b, g) == \E t \in b.grant[g].targets \cap DOMAIN b.lock : b.lock[t] # g

(* prepare_capacity, apply_completion: Prepare                              *)
Prepare(b, g, v, boundary) ==
    LET a == g[1]
        prepared == [b EXCEPT !.grant[g].state = "prepared",
                              !.lock = [t \in DOMAIN @ \cup b.grant[g].targets |->
                                         IF t \in b.grant[g].targets THEN g ELSE @[t]]]
        all == \A h \in GrantsOf(prepared, a) : prepared.grant[h].state = "prepared"
    IN  IF g \notin DOMAIN b.grant \/ b.grant[g].state # "held" THEN {}
        ELSE IF ~TargetsCurrent(b.grant[g].targets, v) THEN {Rejected(b, g)}
        ELSE IF a \notin In(b, {"fully_granted", "preparing"}) THEN {}
        ELSE IF Locked(b, g) \/ b.grant[g].expires < boundary + Guard THEN {Rejected(b, g)}
        ELSE {SetState(prepared, a, IF all THEN "prepared_all" ELSE "preparing")}

(* activate_capacity                                                        *)
Activate(b, a, at, boundary) ==
    IF /\ a \in In(b, {"prepared_all"}) /\ b.acquisition[a].at = at
       /\ \A g \in GrantsOf(b, a) : b.grant[g].state = "prepared" /\ boundary < b.grant[g].expires
    THEN {[SetState(b, a, "activated") EXCEPT
            !.certificate = [x \in DOMAIN @ \cup {a} |->
                IF x = a THEN [at |-> at, grants |-> GrantsOf(b, a)] ELSE @[x]],
            !.due = @ \ GrantsOf(b, a)]}
    ELSE {}

(* consume_completion_certificate, consume_authoritative_grant: the         *)
(* operation redeems the whole lease, at its instant, for the current       *)
(* versions of every target.                                                *)
Redeemable(b, a, v, at) ==
    /\ a \in DOMAIN b.certificate /\ b.certificate[a].at = at
    /\ a \in In(b, {"activated"})
    /\ \A g \in GrantsOf(b, a) :
        /\ g \in b.certificate[a].grants /\ b.grant[g].state = "prepared"
        /\ b.grant[g].targets = Current(g, v)
        /\ \A t \in b.grant[g].targets : t \in DOMAIN b.lock /\ b.lock[t] = g

Without(lock, targets) == [t \in DOMAIN lock \ targets |-> lock[t]]

(* complete_grant, for a lease whose every grant was consumed               *)
Completed(b, a) ==
    LET done == GrantsOf(b, a)
    IN  SetState([b EXCEPT
            !.grant = [g \in DOMAIN @ |-> IF g \in done THEN [@[g] EXCEPT !.state = "completed"] ELSE @[g]],
            !.reserved = @ - Units[a] * Cardinality(done),
            !.lock = Without(@, UNION {b.grant[g].targets : g \in done})], a, "released")

(* Mutant: the units of a released grant stay reserved.                     *)
ReleasedHolding(b, g) ==
    IF b.grant[g].state \in {"released", "expired", "completed"} THEN b
    ELSE LET r == [b EXCEPT !.grant[g].state = "released", !.due = @ \ {g}]
         IN  IF b.grant[g].state = "rejected" THEN r
             ELSE [r EXCEPT !.lock = Without(@, b.grant[g].targets)]

(* release_grant: it drops the locks on the grant's targets, whoever's      *)
Released(b, g) ==
    IF b.grant[g].state \in {"released", "expired", "completed"} THEN b
    ELSE LET r == [b EXCEPT !.grant[g].state = "released", !.due = @ \ {g}]
         IN  IF b.grant[g].state = "rejected" THEN r
             ELSE [r EXCEPT !.reserved = @ - Units[g[1]],
                            !.lock = Without(@, b.grant[g].targets)]

AllReleased(b, a) == FoldSet(LAMBDA g, c : Released(c, g), b, GrantsOf(b, a))

(* Mutant: an activated lease is aborted too.                               *)
AbortAny(b, a) ==
    IF a \in In(b, Pending \cup {"activated"}) THEN {SetState(AllReleased(b, a), a, "released")} ELSE {}

(* abort: what it may still undo                                            *)
Abort(b, a) ==
    IF a \in In(b, Pending) THEN {SetState(AllReleased(b, a), a, "released")} ELSE {}

(* release_capacity                                                         *)
Release(b, g) ==
    IF g \notin DOMAIN b.grant THEN {}
    ELSE LET r == Released(b, g)
             all == \A h \in GrantsOf(r, g[1]) :
                        r.grant[h].state \in {"released", "expired", "completed", "rejected"}
         IN  {IF all THEN SetState(r, g[1], "released") ELSE r}

(* cleanup_aborting                                                         *)
CleanedUp(b) ==
    FoldSet(LAMBDA a, c : SetState(AllReleased(c, a), a, "released"), b, In(b, {"aborting"}))

(* expire_capacity                                                          *)
Overdue(b, boundary) == {g \in b.due : b.grant[g].expires <= boundary}
ExpiredGrant(b, g) ==
    SetState([Released(b, g) EXCEPT !.grant[g].state = "expired"], g[1], "expired")
Expired(b, boundary) == FoldSet(LAMBDA g, c : ExpiredGrant(c, g), b, Overdue(b, boundary))

----------------------------------------------------------------------------
(* What the root does around a step.                                        *)

(* retire_finished_leases                                                   *)
Retired(b, r) ==
    LET finished == In(b, Over) \ (r.reserved \cup r.ready)
        gone == UNION {GrantsOf(b, a) : a \in finished}
    IN  [b EXCEPT !.acquisition = Restrict(@, DOMAIN @ \ finished),
                  !.certificate = Restrict(@, DOMAIN @ \ finished),
                  !.grant = Restrict(@, DOMAIN @ \ gone),
                  !.lock = Restrict(@, {t \in DOMAIN @ : @[t] \notin gone}),
                  !.due = @ \ gone]

HeldUnits(b) ==
    FoldSet(LAMBDA g, n : n + Units[g[1]], 0, {g \in DOMAIN b.grant : b.grant[g].state \in Live})

(* CompletionLeaseBookV1::validate                                          *)
BookValid(b) ==
    /\ \A g \in DOMAIN b.grant : g[1] \in DOMAIN b.acquisition
    /\ b.reserved = HeldUnits(b) /\ b.reserved <= Budget.total
    /\ \A t \in DOMAIN b.lock :
        /\ b.lock[t] \in DOMAIN b.grant
        /\ t \in b.grant[b.lock[t]].targets
        /\ b.grant[b.lock[t]].state \in {"prepared", "consumed"}
    /\ \A g \in DOMAIN b.grant : b.grant[g].state \in {"prepared", "consumed"} =>
        \A t \in b.grant[g].targets : t \in DOMAIN b.lock /\ b.lock[t] = g
    /\ b.due = {g \in DOMAIN b.grant :
                  b.grant[g].state \in {"held", "prepared"} /\ g[1] \notin In(b, {"activated"})}
    /\ DOMAIN b.certificate \subseteq DOMAIN b.acquisition

(* ResourceState::validate, of the report reservations                      *)
ReportsValid(b, r) == r.reserved \subseteq DOMAIN b.acquisition /\ r.ready \subseteq r.reserved

(* settle_operation_measured: an applied step retires the leases it         *)
(* finished, and a root that is then invalid fails the boundary.            *)
Outcome(b, r) ==
    LET next == Retired(b, r)
    IN  IF BookValid(next) /\ ReportsValid(next, r)
        THEN [book |-> next, reports |-> r, failed |-> FALSE]
        ELSE [book |-> book, reports |-> reports, failed |-> TRUE]

Becomes(o) == book' = o.book /\ reports' = o.reports /\ failed' = o.failed
Settle(b, r) == Becomes(Outcome(b, r))

Drop(r, gone) == [r EXCEPT !.reserved = @ \ gone, !.ready = @ \ gone]

Sent(operation) ==
    operation \in Operations /\ ~failed /\ clock.boundary <= MaxBoundary

(* room_shortage: an operation that gives up no reservation needs room in   *)
(* the root; one that ends a lease may fit what the lease reserved.         *)
Fits(operation) == Sent(operation) /\ ~full

(* schedule_expiry_tick, enqueue_resource_completion_expiry_tick            *)
Schedule == tick' = [tick EXCEPT !.scheduled = TRUE, !.skipped = FALSE]

(* apply_completion: Acquire, lease_identity_taken_in_root                  *)
Taken(a) == a \in DOMAIN book.acquisition \cup named

Ask(a) ==
    /\ ~Taken(a)
    /\ RoomToAsk(book, a)
    /\ Units[a] <= IF a \in Burst THEN Partition(a).burst ELSE Partition(a).guaranteed
    /\ epochs' \in Spent(epochs, a, clock.at)
    /\ named' = named \cup {a}

Reserve(r, a) == IF a \in Reported THEN [r EXCEPT !.reserved = @ \cup {a}] ELSE r

SubmitAcquire(a) ==
    /\ Fits("acquire")
    /\ Ask(a)
    /\ Settle(Requested(book, a, clock.at), Reserve(reports, a))
    /\ UNCHANGED <<version, clock, tick, full>>

SubmitGrant(g) ==
    /\ Fits("grant")
    /\ \E b \in Grant(book, g, version, clock.boundary) : Settle(b, reports)
    /\ Schedule
    /\ UNCHANGED <<epochs, named, version, clock, full>>

SubmitPrepare(g) ==
    /\ Fits("prepare")
    /\ \E b \in Prepare(book, g, version, clock.boundary) :
        /\ Settle(b, reports)
        /\ IF g[1] \in In(b, {"aborting"}) THEN Schedule ELSE UNCHANGED tick
    /\ UNCHANGED <<epochs, named, version, clock, full>>

SubmitActivate(a) ==
    /\ Fits("activate")
    /\ \E b \in Activate(book, a, clock.at, clock.boundary) : Settle(b, reports)
    /\ UNCHANGED <<epochs, named, version, clock, tick, full>>

SubmitAbort(a) ==
    /\ Sent("abort")
    /\ \E b \in Abort(book, a) : Settle(b, Drop(reports, {a}))
    /\ UNCHANGED <<epochs, named, version, clock, tick, full>>

SubmitRelease(g) ==
    /\ Sent("release")
    /\ \E b \in Release(book, g) :
        Settle(b, IF g[1] \in In(b, {"released"}) THEN Drop(reports, {g[1]}) ELSE reports)
    /\ UNCHANGED <<epochs, named, version, clock, tick, full>>

(* lease_single_step: the four steps at once, or nothing                    *)
SubmitSingleStep(a) ==
    /\ Fits("single_step")
    /\ Participants[a] = {Plugin}
    /\ Ask(a)
    /\ LET g == <<a, Plugin>>
       IN  \E b1 \in Grant(Requested(book, a, clock.at), g, version, clock.boundary) :
           \E b2 \in Prepare(b1, g, version, clock.boundary) :
           \E b3 \in Activate(b2, a, clock.at, clock.boundary) : Settle(b3, Reserve(reports, a))
    /\ UNCHANGED <<version, clock, tick, full>>

(* consume, and every operation like it: the lease is redeemed and          *)
(* completed, and the accounts it names move to their next version.         *)
Redeem(a) ==
    /\ Sent("redeem")
    /\ Redeemable(book, a, version, clock.at)
    /\ Settle(Completed(book, a),
              IF a \in reports.reserved THEN [reports EXCEPT !.ready = @ \cup {a}] ELSE reports)
    /\ version' = [x \in Accounts |->
                    IF \E g \in GrantsOf(book, a) : x \in Targets[g] THEN version[x] + 1 ELSE version[x]]
    /\ UNCHANGED <<epochs, named, clock, tick, full>>

(* Any operation that needs no lease, such as an allocation: it moves an    *)
(* account whether it is locked or not.                                     *)
Touch(x) ==
    /\ Sent("touch") /\ version[x] = 1
    /\ version' = [version EXCEPT ![x] = 2]
    /\ UNCHANGED <<book, epochs, reports, named, clock, tick, full, failed>>

(* release_completion_report: the last report is published or given up, and *)
(* the next settlement retires the lease.                                   *)
Publish(a) ==
    /\ ~failed
    /\ a \in reports.ready
    /\ reports' = Drop(reports, {a})
    /\ book' = Retired(book, reports')
    /\ UNCHANGED <<epochs, named, version, clock, tick, full, failed>>

----------------------------------------------------------------------------
(* Mutant: the tick looks only at the grants that are due now.              *)
TicksOnDue(b) == Overdue(b, clock.boundary) # {} \/ In(b, {"aborting"}) # {}

(* settle_expiry_tick: whether it queues the next one                       *)
TicksOn(b) == b.due # {} \/ In(b, {"aborting"}) # {}

(* settle_expiry_tick: the aborting leases are cleaned up first             *)
CleanUp(b, r) ==
    IF In(b, {"aborting"}) = {} THEN [book |-> b, reports |-> r]
    ELSE [book |-> Retired(CleanedUp(b), Drop(r, In(b, {"aborting"}))),
          reports |-> Drop(r, In(b, {"aborting"}))]

(* ... and then what is overdue expires.                                    *)
Expire(c, boundary) ==
    Outcome(Expired(c.book, boundary),
            [c.reports EXCEPT !.reserved = @ \ {g[1] : g \in Overdue(c.book, boundary)}])

(* What settles nothing: the expiry's key is taken in this boundary, or its *)
(* result does not fit the root.  Only the latter ends the ticks.           *)
Tick ==
    /\ ~failed /\ tick.admitted
    /\ \E c \in {CleanUp(book, reports)} :
       LET overdue == Overdue(c.book, clock.boundary) # {}
           noRoom == overdue /\ ~tick.taken /\ full
       IN  \E o \in {IF overdue /\ ~tick.taken /\ ~full THEN Expire(c, clock.boundary)
                     ELSE Outcome(c.book, c.reports)} :
            LET next == tick.scheduled \/ (~noRoom /\ TicksOn(o.book))
            IN  /\ Becomes(o)
                /\ tick' = [tick EXCEPT !.admitted = FALSE, !.scheduled = next,
                                        !.skipped = noRoom /\ ~next]
    /\ UNCHANGED <<epochs, named, version, clock, full>>

(* An expiry of this boundary that another plugin sends: it takes the key   *)
(* of the tick's, whether it is applied or rejected, as one is whose        *)
(* candidate limit is too small.                                            *)
SubmitExpire ==
    /\ Fits("expire") /\ ~tick.taken
    /\ \/ Becomes(Expire([book |-> book, reports |-> reports], clock.boundary))
       \/ UNCHANGED <<book, reports, failed>>
    /\ tick' = [tick EXCEPT !.taken = TRUE]
    /\ UNCHANGED <<epochs, named, version, clock, full>>

(* The host queues a tick.                                                  *)
HostTick ==
    /\ Sent("tick")
    /\ Schedule
    /\ UNCHANGED <<book, epochs, reports, named, version, clock, full, failed>>

(* Other work takes the room of the root, or gives some of it up.           *)
OtherWork ==
    /\ Sent("fill")
    /\ full' = ~full
    /\ UNCHANGED <<book, epochs, reports, named, version, clock, tick, failed>>

(* apply_archive_commit: it makes room, unless it archives little more than *)
(* its own receipt takes, and has the ticks go on while an expiry is due.   *)
(* expiry_overdue                                                           *)
ArchiveCommit ==
    /\ Sent("archive")
    /\ full' \in {full, FALSE}
    /\ IF Overdue(book, clock.boundary) # {} THEN Schedule ELSE UNCHANGED tick
    /\ UNCHANGED <<book, epochs, reports, named, version, clock, failed>>

(* The next boundary, at the same instant or a later one; a tick is queued  *)
(* with no delay, so it is admitted before the instant passes.              *)
NextBoundary(minutes) ==
    /\ ~failed /\ ~tick.admitted
    /\ clock.boundary <= MaxBoundary \/ tick.scheduled
    /\ tick.scheduled => minutes = 0
    /\ clock.at + minutes <= MaxTime
    /\ clock' = [at |-> clock.at + minutes, boundary |-> clock.boundary + 1]
    /\ tick' = [tick EXCEPT !.admitted = tick.scheduled, !.scheduled = FALSE, !.taken = FALSE]
    /\ UNCHANGED <<book, epochs, reports, named, version, full, failed>>

Next ==
    \/ \E a \in Leases : \/ SubmitAcquire(a) \/ SubmitActivate(a) \/ SubmitAbort(a)
                         \/ SubmitSingleStep(a) \/ Redeem(a) \/ Publish(a)
    \/ \E g \in DOMAIN Targets : SubmitGrant(g) \/ SubmitPrepare(g) \/ SubmitRelease(g)
    \/ \E x \in Accounts : Touch(x)
    \/ Tick \/ SubmitExpire \/ HostTick \/ OtherWork \/ ArchiveCommit
    \/ \E minutes \in {0, 1} : NextBoundary(minutes)

Spec == Init /\ [][Next]_vars

(* A host application settles the boundaries its queue holds work for.      *)
TickBoundary == tick.scheduled /\ NextBoundary(0)
LiveSpec == Spec /\ WF_vars(Tick) /\ WF_vars(TickBoundary)

----------------------------------------------------------------------------
(* The shape of the state.                                                  *)
TypeOK ==
    /\ DOMAIN book.acquisition \subseteq Leases
    /\ \A a \in DOMAIN book.acquisition : book.acquisition[a].state \in Pending \cup Over \cup {"activated"}
    /\ DOMAIN book.grant \subseteq DOMAIN Targets
    /\ \A g \in DOMAIN book.grant :
        book.grant[g].state \in Live \cup {"completed", "released", "rejected", "expired"}
    /\ book.due \subseteq DOMAIN book.grant
    /\ DOMAIN book.certificate \subseteq DOMAIN book.acquisition
    /\ reports.ready \subseteq reports.reserved
    /\ tick \in [admitted : BOOLEAN, scheduled : BOOLEAN, skipped : BOOLEAN, taken : BOOLEAN]
    /\ full \in BOOLEAN
    /\ named \subseteq Leases /\ failed \in BOOLEAN

(* Every step that is applied leaves a root that validates, and no boundary *)
(* fails on the books of its own leases, unless the grants of one lease     *)
(* were given in two boundaries: the first that is due ends the lease.      *)
RootStaysValid ==
    failed => \E g, h \in DOMAIN book.grant :
                 g[1] = h[1] /\ book.grant[g].expires < book.grant[h].expires

(* While a lease waits for its cleanup a tick is on its way, and while a     *)
(* grant waits for its activation one is, or the last found no room in the  *)
(* root and told the host: the time of the plugin never stops unnoticed.    *)
ClockRuns ==
    ~failed /\ ~(tick.admitted \/ tick.scheduled) =>
        /\ In(book, {"aborting"}) = {}
        /\ book.due # {} => tick.skipped

(* Lease a holds units that a tick is to give back.                         *)
Holds(a) ==
    \/ a \in In(book, {"aborting"})
    \/ ~tick.skipped /\ \E g \in book.due : g[1] = a

(* Work of the guaranteed class is never refused for want of a pending slot *)
(* that other authorities have taken, nor for burst work of its own short   *)
(* of the limit that an authority has.                                      *)
SlotsReserved ==
    \A a \in Leases \ Burst :
        LET own == {x \in In(book, Pending) : Holder[x] = Holder[a]}
        IN  Cardinality(own) < PendingLimit /\ Cardinality(own \ Burst) < Partition(a).slots
                => RoomToAsk(book, a)

(* Over any run an authority acquires at most its tokens and what time gave *)
(* back.                                                                    *)
RateBound ==
    \A h \in DOMAIN epochs :
        /\ epochs[h].tokens <= Budget.partition[h].capacity
        /\ Cardinality({a \in named : Holder[a] = h}) + epochs[h].tokens
            <= Budget.partition[h].capacity + epochs[h].at \div Budget.partition[h].refill

(* An activated lease is either redeemed or released: neither a tick nor an *)
(* abort takes it, and what it locked stays locked for it.                  *)
HoldsActivation ==
    \A a \in In(book, {"activated"}) :
        \/ Redeem(a)
        \/ \E g \in GrantsOf(book, a) : SubmitRelease(g)
        \/ /\ a \in DOMAIN book'.acquisition /\ book'.acquisition[a] = book.acquisition[a]
           /\ \A g \in GrantsOf(book, a) :
                /\ g \in DOMAIN book'.grant /\ book'.grant[g] = book.grant[g]
                /\ \A t \in book.grant[g].targets :
                    t \in DOMAIN book.lock => t \in DOMAIN book'.lock /\ book'.lock[t] = book.lock[t]

(* A certificate issued for grants in their time is worth something: when   *)
(* it is issued, none of its grants is past the boundary it was held until. *)
IssuesInTime ==
    \A a \in DOMAIN book'.certificate \ DOMAIN book.certificate :
        \A g \in book'.certificate[a].grants :
            clock.boundary < book'.grant[g].expires /\ g \notin book'.due

(* A lease that has left the root, or is over, never acts again.            *)
EndsOnce ==
    \A a \in named : a \notin In(book, Pending \cup {"activated"})
            => a \notin In(book', Pending \cup {"activated"})

=============================================================================
