------------------------------ MODULE Movement ------------------------------
(***************************************************************************)
(* Movements under way (canwu-movement lifecycle.rs, model.rs, plugin.rs   *)
(* over canwu-transport lib.rs): the transport execution of each order,    *)
(* its legs, holds, reroutes, hand-offs and capacity bookings, and the     *)
(* leg-due packets the plugin keeps in the runtime's queue.  A boundary    *)
(* applies the operations it admitted in order, allocates the pools,       *)
(* settles the dues it admitted, retires what closed, and last withdraws   *)
(* superseded packets and schedules new ones.                              *)
(*                                                                         *)
(* Handlers are operators on the runtime record that return the set of     *)
(* their results, empty when refused: the code works on a candidate copy.  *)
(* Operation keys, authority and observers' reports are left out, and      *)
(* MovementState::validate is the invariant CandidateValid, so no guard    *)
(* repeats it.                                                             *)
(***************************************************************************)
EXTENDS CapacityPools, Bags

CONSTANTS
    Executions,       \* order and transport execution ids, one to one
    Subject(_),       \* the moved subject of an order
    Destination(_),   \* where an order goes
    Deliveries,       \* the executions that carry a delivery attempt
    PlanIds, Plans,   \* RoutePlan: id -> legs [from, to, departs, arrives]
    Operations,       \* the operations a run submits
    PoolIds,
    Offers,           \* [from, until, quantity] offered for a pool
    BookingIds,
    Windows,          \* booking windows, as [from, until]
    Quantities, Priorities,
    Bound,            \* MovementLimitsV1::time_bound_minutes, and bound on time
    ReportDelay,      \* the latest observer delay of an order
    MaxRevisions,     \* revisions_per_execution
    MaxBookings,      \* bookings_per_execution
    MaxHandoffs,      \* handoffs_per_execution
    MaxSubmitted      \* bound on the operations a boundary admits

PlansChain ==
    /\ PlanIds = DOMAIN Plans
    /\ \A p \in PlanIds :
        /\ Plans[p] # <<>>
        /\ \A i \in DOMAIN Plans[p] : Plans[p][i].departs <= Plans[p][i].arrives
        /\ \A i \in DOMAIN Plans[p] \ {1} : Plans[p][i - 1].to = Plans[p][i].from

VARIABLES
    now,
    runtime,    \* MovementState, with the dues the open boundary scheduled
    queue,      \* the leg-due packets in the ingress queue, a bag
    boundary    \* the boundary being settled

vars == <<now, runtime, queue, boundary>>

NoDue == [leg |-> 0, kind |-> "none", at |-> 0]
NoHold == [leg |-> 0, kind |-> "none", scheduled |-> 0, until |-> 0, retime |-> FALSE]
Idle == [open |-> FALSE, admitted |-> {}, queued |-> {}, submitted |-> 0]
Empty == [x \in {} |-> 0]
Open == -1

Init ==
    /\ now = 0
    /\ runtime = [executions |-> Empty, pools |-> Empty, bookings |-> Empty, sequence |-> 0,
                  retired |-> {}, retiredUse |-> [p \in PoolIds |-> 0], scheduled |-> {}]
    /\ queue = EmptyBag
    /\ boundary = Idle

----------------------------------------------------------------------------
Later(s, t) == IF s < t THEN t ELSE s
Terminal(x) == x.state \in {"settled", "failed", "cancelled"}
Moving(x) == x.state \in {"planning", "ready", "executing"}

ActiveLegs(x) == {i \in DOMAIN x.legs : x.legs[i].revision = Len(x.plans)}

(* current_leg: its id, if there is one                                     *)
CurrentLeg(x) == {i \in ActiveLegs(x) : x.legs[i].index = x.current}

RouteLeg(x, i) == Plans[x.plans[x.legs[i].revision]][x.legs[i].index]
Duration(x, i) == RouteLeg(x, i).arrives - RouteLeg(x, i).departs

(* custody_left_itinerary                                                   *)
CustodyLeft(x) == \E h \in x.handoffs : h.from = h.to

Legs(plan, revision) ==
    [i \in DOMAIN Plans[plan] |-> [revision |-> revision, index |-> i, status |-> "planned", departed |-> Open]]

BookingsOf(m, e) == {b \in DOMAIN m.bookings : m.bookings[b].execution = e}

(* schedule: the order's pending due, and a packet to place for it          *)
Schedule(m, e, due) ==
    IF due.at > Bound THEN {}
    ELSE {[m EXCEPT !.executions[e].due = due, !.scheduled = @ \cup {[execution |-> e, due |-> due]}]}

(* As Schedule, for a due that no hold moves: the leg is planned for it.    *)
Plan(m, e, leg, kind, at) ==
    {[s EXCEPT !.executions[e].planned = at] : s \in Schedule(m, e, [leg |-> leg, kind |-> kind, at |-> at])}

(* clear_due                                                                *)
ClearDue(m, e) == [m EXCEPT !.executions[e].due = NoDue, !.executions[e].hold = NoHold]

(* transition_booking on each of a set of bookings                          *)
Transition(m, B, to, at) ==
    IF \E b \in B : ~MayBecome(m.bookings[b], to[b], at) THEN {}
    ELSE LET Moved(p, b) ==
                 [p EXCEPT ![m.bookings[b].pool] =
                     Effect(@, m.bookings[b].quantity, m.bookings[b].status, to[b])]
         IN  {[m EXCEPT
                 !.bookings = [b \in DOMAIN @ |-> IF b \in B THEN [@[b] EXCEPT !.status = to[b]] ELSE @[b]],
                 !.pools = FoldLeft(Moved, @, SetToSeq(B))]}

(* release_leg_bookings_with: requests are cancelled, what is confirmed is  *)
(* returned                                                                 *)
Release(m, e, legs, confirmedTo, at) ==
    LET Returned == [b \in DOMAIN m.bookings |->
                        IF m.bookings[b].status = "requested" THEN "cancelled" ELSE confirmedTo]
    IN  Transition(m, {b \in BookingsOf(m, e) : /\ m.bookings[b].leg \in legs
                                                /\ m.bookings[b].status \in {"requested", "confirmed"}},
                   Returned, at)

(* Mutant: the consumption of a removed booking is forgotten.               *)
RemoveBookingsForgetting(m, B) == [m EXCEPT !.bookings = Restrict(@, DOMAIN @ \ B)]

(* remove_booking                                                           *)
RemoveBookings(m, B) ==
    [m EXCEPT !.bookings = Restrict(@, DOMAIN @ \ B),
              !.retiredUse = [p \in PoolIds |-> @[p] + MapThenSumSet(
                  LAMBDA b : m.bookings[b].quantity,
                  {b \in B : m.bookings[b].status = "consumed" /\ m.bookings[b].pool = p})]]

(* execution_keeps_booking                                                  *)
Keeps(x, booking) ==
    LET leg == x.legs[booking.leg]
    IN  \/ booking.status \in {"requested", "confirmed"}
        \/ booking.status = "consumed" /\ leg.status = "departed"
        \/ booking.status \in Lost /\ ~Terminal(x) /\ booking.leg \in ActiveLegs(x) /\ leg.status = "planned"

(* remove_closed_bookings                                                   *)
RemoveClosed(m, e) ==
    RemoveBookings(m, {b \in BookingsOf(m, e) : ~Keeps(m.executions[e], m.bookings[b])})

(* close                                                                    *)
Close(m, e, at, confirmedTo) ==
    {[ClearDue(r, e) EXCEPT !.executions[e].closed = at] :
        r \in Release(m, e, DOMAIN m.executions[e].legs, confirmedTo, at)}

(* end_hold: a re-timing hold adds what elapsed of it to the shift          *)
EndHold(x, leg, kind, at) ==
    IF x.hold.leg # leg \/ x.hold.kind # kind THEN {x}
    ELSE LET elapsed == Min({Later(0, at - x.hold.scheduled), x.hold.until - x.hold.scheduled})
             shift == x.shift + (IF x.hold.retime THEN elapsed ELSE 0)
         IN  IF shift > Bound THEN {} ELSE {[x EXCEPT !.hold = NoHold, !.shift = shift]}

----------------------------------------------------------------------------
(* fail_leg: the movement stands until it is rerouted or cancelled          *)
FailLeg(m, e, leg, at) ==
    LET x == m.executions[e]
    IN  IF \/ ~Moving(x) \/ leg \notin CurrentLeg(x) \/ CustodyLeft(x)
           \/ x.legs[leg].status \notin {"planned", "departed"}
        THEN {}
        ELSE {ClearDue(r, e) : r \in Release(
                 [m EXCEPT !.executions[e].legs[leg].status = "failed",
                           !.executions[e].state = "replan"],
                 e, {leg}, "released", at)}

(* depart: at its due, a leg whose capacity is lost fails, and one whose    *)
(* window has yet to open waits; asked for explicitly, both are refused     *)
Depart(m, e, leg, explicit, at) ==
    LET x == m.executions[e]
        mine == {b \in BookingsOf(m, e) : m.bookings[b].leg = leg}
        granted == {b \in mine : m.bookings[b].status = "confirmed"}
        early == {b \in granted : m.bookings[b].from > at}
        ended == {[m EXCEPT !.executions[e] = y] : y \in EndHold(x, leg, "departure", at)}
        Used == [b \in DOMAIN m.bookings |-> "consumed"]
    IN  CASE \/ ~Moving(x) \/ leg \notin CurrentLeg(x)
             \/ \E b \in mine : m.bookings[b].status = "requested" -> {}
          [] \E b \in mine : m.bookings[b].status \in Lost ->
                IF explicit THEN {} ELSE UNION {FailLeg(h, e, leg, at) : h \in ended}
          [] early # {} ->
                IF explicit THEN {}
                ELSE UNION {Plan(h, e, leg, "departure", Max({m.bookings[b].from : b \in early})) : h \in ended}
          [] x.legs[leg].status # "planned" -> {}
          [] OTHER ->
                UNION {Plan(r, e, leg, "arrival", at + Duration(x, leg)) : r \in UNION {Transition(
                    [h EXCEPT !.executions[e].legs[leg].status = "departed",
                              !.executions[e].legs[leg].departed = at,
                              !.executions[e].state = "executing"], granted, Used, at) : h \in ended}}

(* arrive: the last leg settles the movement, or leaves a delivery to be    *)
(* reconciled; an earlier one plans the next departure, moved by the shift  *)
Arrive(m, e, leg, at) ==
    LET x == m.executions[e]
        final == x.current = Cardinality(ActiveLegs(x))
        Arrived(h, state) ==
            [h EXCEPT !.executions[e].legs[leg].status = "arrived",
                      !.executions[e].place = RouteLeg(x, leg).to,
                      !.executions[e].current = @ + 1,
                      !.executions[e].state = state]
        ended == {[m EXCEPT !.executions[e] = y] : y \in EndHold(x, leg, "arrival", at)}
    IN  IF leg \notin CurrentLeg(x) \/ x.legs[leg].status # "departed" THEN {}
        ELSE CASE final /\ e \notin Deliveries ->
                    UNION {Close(Arrived(h, "settled"), e, at, "released") : h \in ended}
               [] final /\ e \in Deliveries ->
                    {ClearDue([Arrived(h, "arrival_pending") EXCEPT !.executions[e].saga = "arrival_pending"], e) :
                        h \in {g \in ended : ~CustodyLeft(x)}}
               [] OTHER ->
                    UNION {Plan(ClearDue(Arrived(h, "ready"), e), e, leg + 1, "departure",
                                Later(at, RouteLeg(x, leg + 1).departs + h.executions[e].shift)) : h \in ended}

(* order                                                                    *)
Order(m, e, plan, at) ==
    IF \/ e \in DOMAIN m.executions \cup m.retired
       \/ Plans[plan][Len(Plans[plan])].to # Destination(e)
       \/ \E f \in DOMAIN m.executions : Subject(f) = Subject(e) /\ ~Terminal(m.executions[f])
    THEN {}
    ELSE Plan([m EXCEPT !.executions = @ @@ (e :>
                  [state |-> IF e \in Deliveries THEN "executing" ELSE "planning",
                   plans |-> <<plan>>, current |-> 1, legs |-> Legs(plan, 1), place |-> Plans[plan][1].from,
                   handoffs |-> {}, saga |-> IF e \in Deliveries THEN "intent" ELSE "none",
                   due |-> NoDue, hold |-> NoHold, shift |-> 0, closed |-> Open, planned |-> 0])],
              e, 1, "departure", Later(at, Plans[plan][1].departs))

(* delay_leg: the due a hold counts from, the first bound of repeated ones  *)
HeldDue(x, leg) ==
    CASE x.legs[leg].status = "departed" -> {x.legs[leg].departed + Duration(x, leg)}
      [] x.legs[leg].status = "planned" ->
            IF x.hold.leg = leg /\ x.hold.kind = "departure" THEN {x.hold.scheduled}
            ELSE IF x.due.leg = leg /\ x.due.kind = "departure" THEN {x.due.at} ELSE {}
      [] OTHER -> {}

DelayLeg(m, e, leg, until, retime, at) ==
    LET x == m.executions[e]
        kind == IF x.legs[leg].status = "departed" THEN "arrival" ELSE "departure"
    IN  IF leg \notin CurrentLeg(x) THEN {}
        ELSE UNION {{[s EXCEPT !.executions[e].hold =
                         [leg |-> leg, kind |-> kind, scheduled |-> bound, until |-> until, retime |-> retime]] :
                        s \in Schedule(m, e, [leg |-> leg, kind |-> kind, at |-> until])} :
                    bound \in {d \in HeldDue(x, leg) : until >= at /\ until >= d}}

(* Mutant: a reroute of what was seized for good.                           *)
ReroutableSeized(x, plan, destination, validFrom, at) ==
    /\ ~Terminal(x) /\ x.state # "arrival_pending"
    /\ \A i \in ActiveLegs(x) : x.legs[i].status # "departed"
    /\ Len(x.plans) < MaxRevisions /\ Plans[plan][Len(Plans[plan])].to = destination
    /\ validFrom >= at

(* What a reroute asks: never under way, from where the movement stands     *)
(* unless a leg failed on the way                                           *)
Reroutable(x, plan, destination, validFrom, at) ==
    /\ ~Terminal(x) /\ x.state # "arrival_pending"
    /\ \A i \in ActiveLegs(x) : x.legs[i].status # "departed"
    /\ Len(x.plans) < MaxRevisions /\ Plans[plan][Len(Plans[plan])].to = destination
    /\ \/ \E i \in ActiveLegs(x) : x.legs[i].status = "failed" /\ x.legs[i].departed # Open
       \/ Plans[plan][1].from = x.place
    /\ validFrom >= at /\ ~CustodyLeft(x)

(* reroute: the capacity of the old revision is returned, its hold and      *)
(* shift end                                                                *)
Reroute(m, e, plan, validFrom, at) ==
    LET x == m.executions[e]
        rerouted == [m EXCEPT !.executions[e] =
            [x EXCEPT !.plans = Append(@, plan), !.current = 1,
                      !.legs = @ \o Legs(plan, Len(x.plans) + 1), !.state = "planning"]]
    IN  IF ~Reroutable(x, plan, Destination(e), validFrom, at) THEN {}
        ELSE UNION {Plan([r EXCEPT !.executions[e].hold = NoHold, !.executions[e].shift = 0],
                         e, Len(x.legs) + 1, "departure", Later(validFrom, Plans[plan][1].departs)) :
                    r \in Release(rerouted, e, ActiveLegs(x), "released", at)}

(* record_handoff into a leg of the active itinerary; a seizure that names  *)
(* the failed current leg twice is terminal                                 *)
Handoff(m, e, from, to, at) ==
    LET x == m.executions[e]
        departsFrom == x.legs[from].status \in {"arrived", "failed"}
        terminal == from = to
    IN  IF \/ Terminal(x) \/ to \notin ActiveLegs(x) \/ CustodyLeft(x)
           \/ Cardinality(x.handoffs) >= MaxHandoffs
           \/ terminal /\ \/ from \notin CurrentLeg(x) \/ x.legs[from].status # "failed"
                          \/ \E h \in x.handoffs : h.from = from
           \/ ~terminal /\ (~departsFrom \/ x.legs[to].status # "planned")
        THEN {}
        ELSE {[m EXCEPT !.executions[e].handoffs = @ \cup {[from |-> from, to |-> to]}]}

(* booking_shift: how far holds move the window of a leg                    *)
BookingShift(x, leg) ==
    LET held == x.hold.leg
    IN  IF held = 0 THEN x.shift
        ELSE IF x.hold.kind = "departure" /\ leg = held
             THEN Later(x.shift, x.hold.until - RouteLeg(x, leg).departs)
        ELSE IF x.hold.retime /\ x.legs[leg].index > x.legs[held].index
             THEN x.shift + x.hold.until - x.hold.scheduled
        ELSE x.shift

(* replace_booking: the original leaves, whatever it still held returned    *)
Replace(m, e, leg, original, at) ==
    IF original \notin BookingsOf(m, e) \/ m.bookings[original].leg # leg THEN {}
    ELSE LET status == m.bookings[original].status
             left == [b \in {original} |-> IF status = "requested" THEN "cancelled" ELSE "released"]
         IN  CASE status \in Lost -> {RemoveBookings(m, {original})}
               [] status \in {"requested", "confirmed"} ->
                    {RemoveBookings(r, {original}) : r \in Transition(m, {original}, left, at)}
               [] OTHER -> {}

(* a leg capacity may be booked for                                         *)
Bookable(x, leg) ==
    /\ x.state # "arrival_pending" /\ ~Terminal(x) /\ ~CustodyLeft(x)
    /\ leg \in ActiveLegs(x) /\ x.legs[leg].status = "planned"

(* request_booking; replaces is 0 when it replaces none                     *)
RequestBooking(m, e, id, pool, leg, window, quantity, priority, replaces, at) ==
    LET x == m.executions[e]
        shift == BookingShift(x, leg)
        replaced == IF replaces = 0 THEN {m} ELSE Replace(m, e, leg, replaces, at)
    IN  IF \/ pool \notin DOMAIN m.pools
           \/ id \in DOMAIN m.bookings \/ \E b \in DOMAIN m.bookings : m.bookings[b].replaces = id
           \/ ~Bookable(x, leg)
           \/ window.from < RouteLeg(x, leg).departs + shift
           \/ window.until > RouteLeg(x, leg).arrives + shift
        THEN {}
        ELSE {[r EXCEPT !.sequence = @ + 1, !.bookings = @ @@ (id :>
                  [execution |-> e, pool |-> pool, leg |-> leg, from |-> window.from, until |-> window.until,
                   quantity |-> quantity, priority |-> priority, sequence |-> r.sequence,
                   status |-> "requested", replaces |-> replaces])] :
                 r \in {q \in replaced : Cardinality(BookingsOf(q, e)) < MaxBookings}}

(* revoke_booking                                                           *)
RevokeBooking(m, id, at) ==
    IF id \notin DOMAIN m.bookings THEN {} ELSE Transition(m, {id}, [b \in {id} |-> "revoked"], at)

Cancel(m, e, at) ==
    LET x == m.executions[e]
        cancelled == [x EXCEPT
            !.legs = [i \in DOMAIN @ |-> IF i \in ActiveLegs(x) /\ @[i].status = "planned"
                                         THEN [@[i] EXCEPT !.status = "cancelled"] ELSE @[i]],
            !.saga = IF @ = "none" THEN @ ELSE "compensation",
            !.state = "cancelled"]
    IN  IF \/ Terminal(x) \/ x.state = "arrival_pending"
           \/ \E i \in ActiveLegs(x) : x.legs[i].status = "departed"
        THEN {}
        ELSE Close([m EXCEPT !.executions[e] = cancelled], e, at, "cancelled")

(* reconcile, reconcile_information                                         *)
Reconcile(m, e, success, at) ==
    IF m.executions[e].state # "arrival_pending" \/ (success /\ CustodyLeft(m.executions[e])) THEN {}
    ELSE Close([m EXCEPT !.executions[e].saga = IF success THEN "settled" ELSE "compensation",
                         !.executions[e].state = IF success THEN "settled" ELSE "failed"], e, at, "released")

(* offer_pool                                                               *)
OfferPool(m, pool, offer) ==
    LET granted == {b \in DOMAIN m.bookings : /\ m.bookings[b].pool = pool
                                              /\ m.bookings[b].status \in {"confirmed", "consumed"}}
        offered == IF pool \notin DOMAIN m.pools THEN NewPool(offer.from, offer.until, offer.quantity)
                   ELSE Revise(m.pools[pool], offer.from, offer.until, offer.quantity)
    IN  IF \E b \in granted : m.bookings[b].from < offer.from \/ m.bookings[b].until > offer.until THEN {}
        ELSE {[m EXCEPT !.pools = (pool :> p) @@ @] : p \in offered}

----------------------------------------------------------------------------
(* What an allocation pass makes of a booking                               *)
Answered(booking, granted) ==
    IF booking.status # "requested" THEN booking
    ELSE [booking EXCEPT !.status = IF booking \in granted[booking.pool] THEN "confirmed" ELSE "failed"]

(* allocate_pools: confirmed bookings whose window ended expire, then each  *)
(* pool allocates its requests                                              *)
AllocatePools(m, at) ==
    LET lapsed == {b \in DOMAIN m.bookings : m.bookings[b].status = "confirmed" /\ m.bookings[b].until < at}
        Requests(r, p) == {b \in DOMAIN r.bookings : r.bookings[b].pool = p /\ r.bookings[b].status = "requested"}
        Allocation(r) ==
            LET granted == [p \in DOMAIN r.pools |->
                    Granted(r.pools[p], {r.bookings[b] : b \in Requests(r, p)}, at)]
            IN  [r EXCEPT !.pools = [p \in DOMAIN @ |-> Allocated(@[p], granted[p])],
                          !.bookings = [b \in DOMAIN @ |-> Answered(@[b], granted)]]
    IN  {Allocation(r) : r \in Transition(m, lapsed, [b \in lapsed |-> "expired"], at)}

(* settle_due                                                               *)
SettleDue(m, e, due, at) ==
    LET taken == [m EXCEPT !.executions[e].due = NoDue]
        settled == IF due.kind = "departure" THEN Depart(taken, e, due.leg, FALSE, at)
                   ELSE Arrive(taken, e, due.leg, at)
    IN  {RemoveClosed(r, e) : r \in settled}

(* apply_due: a due that cannot be settled fails its leg                    *)
ApplyDue(m, packet, at) ==
    LET e == packet.execution
        settled == SettleDue(m, e, packet.due, at)
        failed == {RemoveClosed(r, e) : r \in
                      FailLeg([m EXCEPT !.executions[e].due = NoDue], e, packet.due.leg, at)}
    IN  IF \/ e \notin DOMAIN m.executions
           \/ m.executions[e].due # packet.due \/ packet.due.at > at THEN m
        ELSE IF settled # {} THEN CHOOSE r \in settled : TRUE
        ELSE IF failed # {} THEN CHOOSE r \in failed : TRUE
        ELSE m

(* retire_closed: after the latest observer delay, once reports are out     *)
Retired(m, E) ==
    [m EXCEPT !.executions = Restrict(@, DOMAIN @ \ E), !.retired = @ \cup E]

Pending(m) == {[execution |-> e, due |-> m.executions[e].due] :
                  e \in {f \in DOMAIN m.executions : m.executions[f].due # NoDue}}

----------------------------------------------------------------------------
(* A boundary opens at the time of the first packet waiting or before, and  *)
(* admits every packet due by then                                          *)
OpenBoundary(at) ==
    /\ ~boundary.open
    /\ at >= now /\ at <= Bound
    /\ \A p \in BagToSet(queue) : at <= p.due.at
    /\ LET admitted == {p \in BagToSet(queue) : p.due.at <= at}
       IN  /\ boundary' = [open |-> TRUE, admitted |-> admitted, queued |-> Pending(runtime), submitted |-> 0]
           /\ queue' = Restrict(queue, DOMAIN queue \ admitted)
    /\ now' = at
    /\ runtime' = [runtime EXCEPT !.scheduled = {}]

(* apply_operation on a candidate, which replaces the state when it is not  *)
(* refused; what the operation closed leaves the execution                  *)
Submit(operation, e, results) ==
    /\ boundary.open /\ operation \in Operations
    /\ boundary.submitted < MaxSubmitted
    /\ boundary' = [boundary EXCEPT !.submitted = @ + 1]
    /\ \E r \in results : runtime' = IF e \in DOMAIN r.executions THEN RemoveClosed(r, e) ELSE r
    /\ UNCHANGED <<now, queue>>

Live == DOMAIN runtime.executions
LegsOf(e) == DOMAIN runtime.executions[e].legs

SubmitOrder ==
    \E e \in Executions, p \in PlanIds : Submit("order", e, Order(runtime, e, p, now))

SubmitOffer ==
    \E p \in PoolIds, o \in Offers : Submit("offer", 0, OfferPool(runtime, p, o))

SubmitStart ==
    \E e \in Live : \E l \in LegsOf(e) : Submit("start", e, Depart(runtime, e, l, TRUE, now))

SubmitComplete ==
    \E e \in Live : \E l \in LegsOf(e) : Submit("complete", e, Arrive(runtime, e, l, now))

SubmitFail ==
    \E e \in Live : \E l \in LegsOf(e) : Submit("fail", e, FailLeg(runtime, e, l, now))

SubmitDelay ==
    \E e \in Live, until \in now..Bound, retime \in BOOLEAN : \E l \in LegsOf(e) :
        Submit("delay", e, DelayLeg(runtime, e, l, until, retime, now))

SubmitReroute ==
    \E e \in Live, p \in PlanIds, validFrom \in {now, now + 1} :
        Submit("reroute", e, Reroute(runtime, e, p, validFrom, now))

SubmitHandoff ==
    \E e \in Live : \E from, to \in LegsOf(e) : Submit("handoff", e, Handoff(runtime, e, from, to, now))

SubmitBooking ==
    \E e \in Live, id \in BookingIds, p \in PoolIds, w \in Windows, q \in Quantities, pr \in Priorities :
        \E l \in LegsOf(e), old \in BookingIds \cup {0} :
            Submit("book", e, RequestBooking(runtime, e, id, p, l, w, q, pr, old, now))

SubmitRevoke ==
    \E id \in BookingIds : Submit("revoke", 0, RevokeBooking(runtime, id, now))

SubmitCancel == \E e \in Live : Submit("cancel", e, Cancel(runtime, e, now))

SubmitReconcile ==
    \E e \in Live, ok \in BOOLEAN : Submit("reconcile", e, Reconcile(runtime, e, ok, now))

(* the packets queued before the boundary for dues it replaced              *)
Superseded(m) == {p \in boundary.queued \ Pending(m) : p.due.at > now}

(* Each order's final due, unless its packet is queued already              *)
Placed(m) == {p \in Pending(m) \cap m.scheduled : p.due.at > now => p \notin boundary.queued}

(* settle_movement_lifecycle, after its operations                          *)
SettleBoundary ==
    /\ boundary.open
    /\ \E r \in AllocatePools(runtime, now) :
        LET settled == FoldLeft(LAMBDA m, p : ApplyDue(m, p, now), r, SetToSeq(boundary.admitted))
            old == {e \in DOMAIN settled.executions :
                       /\ settled.executions[e].closed # Open
                       /\ now > settled.executions[e].closed + ReportDelay}
        IN  \E reported \in SUBSET old :
                LET m == Retired(settled, reported)
                IN  /\ runtime' = [m EXCEPT !.scheduled = {}]
                    /\ queue' = Restrict(queue, DOMAIN queue \ Superseded(m)) (+) SetToBag(Placed(m))
    /\ boundary' = Idle
    /\ UNCHANGED now

Next ==
    \/ \E at \in now..Bound : OpenBoundary(at)
    \/ SubmitOrder \/ SubmitOffer \/ SubmitStart \/ SubmitComplete \/ SubmitFail \/ SubmitDelay
    \/ SubmitReroute \/ SubmitHandoff \/ SubmitBooking \/ SubmitRevoke \/ SubmitCancel \/ SubmitReconcile
    \/ SettleBoundary

Spec == Init /\ [][Next]_vars

----------------------------------------------------------------------------
Due == [leg : Nat, kind : {"none", "departure", "arrival"}, at : 0..Bound]

(* The runtime record, the packets and the open boundary have their types.  *)
TypeOK ==
    /\ now \in 0..Bound
    /\ DOMAIN runtime.executions \subseteq Executions \ runtime.retired
    /\ \A e \in Live :
        LET x == runtime.executions[e]
        IN  /\ x.state \in {"planning", "ready", "executing", "replan", "arrival_pending",
                            "settled", "failed", "cancelled"}
            /\ x.due \in Due /\ x.shift \in 0..Bound /\ x.closed \in Open..Bound
            /\ \A i \in LegsOf(e) : x.legs[i].status \in {"planned", "departed", "arrived", "failed", "cancelled"}
    /\ DOMAIN runtime.pools \subseteq PoolIds
    /\ DOMAIN runtime.bookings \subseteq BookingIds
    /\ IsABag(queue)
    /\ \A p \in BagToSet(queue) \cup boundary.admitted : p.execution \in Executions /\ p.due \in Due

(* What validate_execution asks of an order's due and hold                  *)
DueFits(x) ==
    /\ x.due # NoDue =>
         /\ x.due.leg \in CurrentLeg(x)
         /\ x.legs[x.due.leg].status = (IF x.due.kind = "arrival" THEN "departed" ELSE "planned")
    /\ x.hold # NoHold =>
         /\ x.hold.leg = x.due.leg /\ x.hold.kind = x.due.kind
         /\ x.due.at = x.hold.until /\ x.hold.scheduled <= x.hold.until
    /\ x.hold = NoHold /\ x.due.kind = "arrival" =>
         x.due.at = x.legs[x.due.leg].departed + Duration(x, x.due.leg)

(* What validate_execution asks of the legs                                 *)
LegsFit(x) ==
    /\ x.current <= Cardinality(ActiveLegs(x)) + 1
    /\ \A i \in ActiveLegs(x) :
        /\ x.legs[i].index < x.current => x.legs[i].status = "arrived"
        /\ x.legs[i].index > x.current => x.legs[i].status \in {"planned", "cancelled"}
    /\ \A i \in DOMAIN x.legs : x.legs[i].status = "departed" =>
        i \in CurrentLeg(x) /\ x.state = "executing" /\ x.due # NoDue
    /\ x.state \in {"settled", "arrival_pending"} => CurrentLeg(x) = {}

(* What validate asks of the bookings: the pool, the window, that the       *)
(* execution still needs it, and whom it replaces                           *)
BookingFits(m, b) ==
    LET booking == m.bookings[b]
        x == m.executions[booking.execution]
    IN  /\ booking.execution \in DOMAIN m.executions /\ booking.pool \in DOMAIN m.pools
        /\ booking.from >= RouteLeg(x, booking.leg).departs
        /\ booking.until - booking.from \in 0..Duration(x, booking.leg)
        /\ booking.until <= Bound
        /\ Keeps(x, booking)
        /\ booking.replaces \notin DOMAIN m.bookings
        /\ \A c \in DOMAIN m.bookings \ {b} :
            booking.replaces # 0 => m.bookings[c].replaces # booking.replaces

(* MovementState::validate, whatever operations, dues and allocations led   *)
(* here: a state that failed it would refuse every later boundary.  Also no *)
(* subject moves twice at once and a closed execution keeps no booking, on  *)
(* which its retirement relies.                                             *)
CandidateValid ==
    /\ \A e \in Live :
        LET x == runtime.executions[e]
        IN  /\ DueFits(x) /\ LegsFit(x)
            /\ Terminal(x) <=> x.closed # Open
            /\ Terminal(x) => x.due = NoDue /\ BookingsOf(runtime, e) = {}
            /\ \A f \in Live \ {e} :
                Subject(e) = Subject(f) => Terminal(x) \/ Terminal(runtime.executions[f])
    /\ \A b \in DOMAIN runtime.bookings : BookingFits(runtime, b)

(* A pool's counters are what its bookings hold and what the legs consumed, *)
(* also after the bookings, and the executions, left; and never more than   *)
(* the pool offers.                                                         *)
PoolsBalance ==
    \A p \in DOMAIN runtime.pools :
        LET Held(status) == MapThenSumSet(
                LAMBDA b : runtime.bookings[b].quantity,
                {b \in DOMAIN runtime.bookings :
                    runtime.bookings[b].pool = p /\ runtime.bookings[b].status = status})
        IN  /\ Sound(runtime.pools[p])
            /\ runtime.pools[p].booked = Held("confirmed")
            /\ runtime.pools[p].consumed = Held("consumed") + runtime.retiredUse[p]

(* Between boundaries each order's due has its packet, once, and no other   *)
(* packet waits: what was superseded wakes no boundary.                     *)
OnePacketPerDue ==
    ~boundary.open =>
        /\ BagToSet(queue) = Pending(runtime)
        /\ \A p \in BagToSet(queue) : queue[p] = 1

(* Between boundaries a movement that is under way has a due to come; one   *)
(* without waits for its owner or its delivery, or is closed.               *)
NothingStuck ==
    ~boundary.open =>
        \A e \in Live : Moving(runtime.executions[e]) =>
            runtime.executions[e].due # NoDue /\ runtime.executions[e].due.at >= now

(* A hold, and any number of holds one after the other, never moves a leg   *)
(* before the time it was planned for when its due was first set.           *)
NeverEarlier ==
    \A e \in Live : runtime.executions[e].due # NoDue =>
        runtime.executions[e].due.at >= runtime.executions[e].planned

(* A leg under way consumed everything that was booked for it: none of its  *)
(* bookings was lost, revoked or left waiting.                              *)
DepartedPaid ==
    \A b \in DOMAIN runtime.bookings :
        LET booking == runtime.bookings[b]
            status == runtime.executions[booking.execution].legs[booking.leg].status
        IN  status = "departed" => booking.status = "consumed"

(* Once a terminal seizure took custody out of the itinerary, the movement  *)
(* only closes, failed or cancelled: no leg starts, no hand-off or booking  *)
(* is added.                                                                *)
SeizureEnds ==
    \A e \in Live \cap DOMAIN runtime'.executions :
        LET x == runtime.executions[e]
            y == runtime'.executions[e]
        IN  CustodyLeft(x) =>
              /\ y.state \in {x.state, "failed", "cancelled"}
              /\ y.handoffs = x.handoffs /\ y.plans = x.plans /\ y.due = NoDue
              /\ BookingsOf(runtime', e) \subseteq BookingsOf(runtime, e)

=============================================================================
