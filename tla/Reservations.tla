---------------------------- MODULE Reservations ----------------------------
(***************************************************************************)
(* Reservation and allocation, phase 6 of a boundary (canwu-sim,           *)
(* runtime/settlement.rs, plugins.rs, validation.rs).  The systems of one  *)
(* plugin are dispatched in order; each may offer capacity in pools of the *)
(* state it declared and ask for quantities of declared pools.  When the   *)
(* phase ends every pool is shared out by priority, and the boundary       *)
(* record keeps the offers, the requests and the allocations, which a      *)
(* load derives again.                                                     *)
(***************************************************************************)
EXTENDS Integers, Sequences, FiniteSets, SequencesExt, FiniteSetsExt, Functions

CONSTANTS
    Systems,      \* the phase-6 systems: numbers, in dispatch order
    Pools,        \* ReservationPoolKey: numbers, in canonical order
    StateOf,      \* the state key of each pool
    Capacities,   \* what a pool may be offered with
    Quantities,   \* what a request may ask for, zero included
    Priorities,
    Ties,         \* tie_break texts, as numbers
    Names,        \* the names of a system's requests, as numbers
    MaxRequests   \* bound on the requests of one boundary

States == Range(StateOf)
NoSystem == 0
ReservationAssumption ==
    Systems \subseteq Nat \ {NoSystem} /\ Capacities \subseteq Nat /\ Quantities \subseteq Nat

VARIABLES
    contracts,  \* the registered systems: what each may offer and request
    offerers,   \* PluginRegistry::reservation_offerers
    stage,      \* "register", "dispatch", or how the phase ended
    turn,       \* the system under dispatch, or NoSystem
    offers,     \* PendingReservationOffer
    requests,   \* PendingReservationRequest
    record      \* the boundary record's offers, requests and allocations

vars == <<contracts, offerers, stage, turn, offers, requests, record>>

NoRecord == [offers |-> <<>>, requests |-> <<>>, allocations |-> <<>>]
Request == [system : Systems, name : Names, pool : Pools, priority : Priorities,
            tie : Ties, quantity : Quantities]

Init ==
    /\ contracts = <<>>
    /\ offerers = [s \in States |-> NoSystem]
    /\ stage = "register" /\ turn = NoSystem
    /\ offers = {} /\ requests = {}
    /\ record = NoRecord

----------------------------------------------------------------------------
(* register_reservation_offerers: a state has one offering system           *)
OfferersFree(system, offered) ==
    \A s \in offered : offerers[s] \in {NoSystem, system}

(* register_boundary_system, for a contract of phase 6                      *)
Register(system, offered, requested) ==
    /\ stage = "register"
    /\ system \notin DOMAIN contracts
    /\ OfferersFree(system, offered)
    /\ contracts' = [i \in DOMAIN contracts \cup {system} |->
            IF i = system THEN [offers |-> offered, requests |-> requested] ELSE contracts[i]]
    /\ offerers' = [s \in States |-> IF s \in offered THEN system ELSE offerers[s]]
    /\ UNCHANGED <<stage, turn, offers, requests, record>>

(* The next system in dispatch order, or the end of the phase               *)
Dispatch(after) ==
    LET rest == {s \in DOMAIN contracts : s > after}
    IN  /\ stage' = IF rest = {} THEN "dispatched" ELSE "dispatch"
        /\ turn' = IF rest = {} THEN NoSystem ELSE Min(rest)

(* settle_boundary_inner reaches phase 6                                    *)
BeginPhase ==
    /\ stage = "register" /\ contracts # <<>>
    /\ Dispatch(NoSystem)
    /\ UNCHANGED <<contracts, offerers, offers, requests, record>>

(* validate_boundary_proposal, for one offer of the system's proposal       *)
OfferValid(o) ==
    /\ StateOf[o.pool] \in contracts[o.system].offers
    /\ \A other \in offers : other.system = o.system => other.pool # o.pool

(* ... and for one request                                                  *)
RequestValid(r) ==
    /\ r.quantity > 0
    /\ StateOf[r.pool] \in contracts[r.system].requests
    /\ \A other \in requests : other.system = r.system => other.name # r.name

(* The system under dispatch offers or asks; an invalid proposal fails the  *)
(* boundary, and nothing of it is kept.                                     *)
Offer(pool, capacity) ==
    /\ stage = "dispatch"
    /\ LET o == [system |-> turn, pool |-> pool, capacity |-> capacity]
       IN  IF OfferValid(o)
           THEN offers' = offers \cup {o} /\ UNCHANGED <<stage, requests>>
           ELSE stage' = "failed" /\ offers' = {} /\ requests' = {}
    /\ UNCHANGED <<contracts, offerers, turn, record>>

Ask(name, pool, priority, tie, quantity) ==
    /\ stage = "dispatch" /\ Cardinality(requests) < MaxRequests
    /\ LET r == [system |-> turn, name |-> name, pool |-> pool, priority |-> priority,
                 tie |-> tie, quantity |-> quantity]
       IN  IF RequestValid(r)
           THEN requests' = requests \cup {r} /\ UNCHANGED <<stage, offers>>
           ELSE stage' = "failed" /\ offers' = {} /\ requests' = {}
    /\ UNCHANGED <<contracts, offerers, turn, record>>

NextSystem ==
    /\ stage = "dispatch"
    /\ Dispatch(turn)
    /\ UNCHANGED <<contracts, offerers, offers, requests, record>>

----------------------------------------------------------------------------
(* The first of the keys that differ decides.                               *)
Lexicographic(left, right) ==
    \E i \in DOMAIN left : left[i] < right[i] /\ \A j \in 1..i-1 : left[j] = right[j]

(* allocate_reservations: the order of the requests                         *)
RequestKey(r) == <<r.pool, -r.priority, r.tie, r.system, r.name>>

(* compare_reservation_request_records                                      *)
RecordKey(r) == <<r.pool, -r.priority, r.tie, r.system, r.name>>

OfferKey(o) == <<o.pool, o.system>>

Least(a, b) == IF a < b THEN a ELSE b

Disposition(requested, granted) ==
    CASE granted = requested -> "fulfilled"
      [] granted = 0 /\ requested # 0 -> "rejected"
      [] OTHER -> "partial"

(* Mutant: every request is served from the whole offer.                    *)
SharesOfTheWhole(sorted, available) ==
    [i \in 1..Len(sorted) |->
        LET r == sorted[i]
            granted == Least(r.quantity, available[r.pool])
        IN  [system |-> r.system, name |-> r.name, pool |-> r.pool,
             requested |-> r.quantity, granted |-> granted,
             remaining |-> available[r.pool] - granted,
             disposition |-> Disposition(r.quantity, granted)]]

(* What the requests of a sorted list get, each from what is left of its    *)
(* pool                                                                     *)
Shares(sorted, available) ==
    LET left[i \in 0..Len(sorted)] ==
            IF i = 0 THEN available
            ELSE [left[i-1] EXCEPT ![sorted[i].pool] =
                    @ - Least(sorted[i].quantity, @)]
        share(i) ==
            LET r == sorted[i]
                granted == Least(r.quantity, left[i-1][r.pool])
            IN  [system |-> r.system, name |-> r.name, pool |-> r.pool,
                 requested |-> r.quantity, granted |-> granted,
                 remaining |-> left[i][r.pool],
                 disposition |-> Disposition(r.quantity, granted)]
    IN  [i \in 1..Len(sorted) |-> share(i)]

Available(offered) ==
    [p \in Pools |-> LET of == {o \in offered : o.pool = p}
                     IN  IF of = {} THEN 0 ELSE (CHOOSE o \in of : TRUE).capacity]

OfferedTwice == \E o, p \in offers : o # p /\ o.pool = p.pool

(* allocate_reservations, at the end of the phase                           *)
Allocate ==
    /\ stage = "dispatched"
    /\ ~OfferedTwice
    /\ LET sorted == SetToSortSeq(requests,
                        LAMBDA r, s : Lexicographic(RequestKey(r), RequestKey(s)))
       IN  record' = [offers |-> SetToSortSeq(offers,
                            LAMBDA o, p : Lexicographic(OfferKey(o), OfferKey(p))),
                      requests |-> sorted,
                      allocations |-> Shares(sorted, Available(offers))]
    /\ stage' = "allocated"
    /\ UNCHANGED <<contracts, offerers, turn, offers, requests>>

(* allocate_reservations refuses a pool offered more than once              *)
RefusePool ==
    /\ stage = "dispatched" /\ OfferedTwice
    /\ stage' = "pool offered twice"
    /\ UNCHANGED <<contracts, offerers, turn, offers, requests, record>>

Next ==
    \/ \E s \in Systems, o, r \in SUBSET States : Register(s, o, r)
    \/ BeginPhase
    \/ \E p \in Pools, c \in Capacities : Offer(p, c)
    \/ \E n \in Names, p \in Pools, y \in Priorities, t \in Ties, q \in Quantities :
            Ask(n, p, y, t, q)
    \/ NextSystem
    \/ Allocate
    \/ RefusePool

Spec == Init /\ [][Next]_vars

----------------------------------------------------------------------------
(* validate_boundary_reservations, on a load                                *)
RecordAccepted(rec) ==
    /\ \A i \in 1..Len(rec.offers)-1 :
            Lexicographic(OfferKey(rec.offers[i]), OfferKey(rec.offers[i+1]))
    /\ \A o \in Range(rec.offers) :
            /\ StateOf[o.pool] \in contracts[o.system].offers
            /\ offerers[StateOf[o.pool]] = o.system
    /\ \A i, j \in DOMAIN rec.offers : i # j => rec.offers[i].pool # rec.offers[j].pool
    /\ \A i \in 1..Len(rec.requests)-1 :
            Lexicographic(RecordKey(rec.requests[i]), RecordKey(rec.requests[i+1]))
    /\ \A i, j \in DOMAIN rec.requests : i # j =>
            <<rec.requests[i].system, rec.requests[i].name>>
                # <<rec.requests[j].system, rec.requests[j].name>>
    /\ \A r \in Range(rec.requests) :
            r.quantity > 0 /\ StateOf[r.pool] \in contracts[r.system].requests
    /\ rec.allocations = Shares(rec.requests, Available(Range(rec.offers)))

----------------------------------------------------------------------------
(* The state has its types; nothing is allocated before the phase ends.     *)
TypeOK ==
    /\ DOMAIN contracts \subseteq Systems
    /\ \A s \in DOMAIN contracts :
            contracts[s] \in [offers : SUBSET States, requests : SUBSET States]
    /\ offerers \in [States -> Systems \cup {NoSystem}]
    /\ turn \in IF stage = "dispatch" THEN DOMAIN contracts ELSE Systems \cup {NoSystem}
    /\ stage \in {"register", "dispatch", "dispatched", "failed", "allocated",
                               "pool offered twice"}
    /\ \A o \in offers : o \in [system : Systems, pool : Pools, capacity : Capacities]
    /\ requests \subseteq Request
    /\ stage # "allocated" => record = NoRecord

(* What a request gets is what is left of its pool's offer once everything  *)
(* asked by the requests ranked above it is served in full: it depends on   *)
(* neither the order of the proposals nor the other pools, no capacity is   *)
(* held back from a request that still wants it, and none is given twice.   *)
(* (allocate_reservations)                                                  *)
RankedAbove(r, pool) ==
    {q \in requests : /\ q.pool = pool
                      /\ \/ q.priority > r.priority
                         \/ q.priority = r.priority /\ q.tie < r.tie
                         \/ /\ q.priority = r.priority /\ q.tie = r.tie
                            /\ <<q.system, q.name>> # <<r.system, r.name>>
                            /\ \/ q.system < r.system
                               \/ q.system = r.system /\ q.name < r.name}
GrantsFollowRank ==
    stage = "allocated" =>
        \A r \in requests :
            LET above == MapThenSumSet(LAMBDA q : q.quantity, RankedAbove(r, r.pool))
                offered == MapThenSumSet(LAMBDA o : o.capacity, {o \in offers : o.pool = r.pool})
                left == IF above >= offered THEN 0 ELSE offered - above
            IN  \E a \in Range(record.allocations) :
                    /\ a.system = r.system /\ a.name = r.name
                    /\ a.granted = Least(r.quantity, left)

(* A pool never gives more than it was offered with, and one nobody offered *)
(* gives nothing.                                                           *)
WithinOffer ==
    \A p \in Pools :
        MapThenSumSet(LAMBDA i : record.allocations[i].granted,
                      {i \in DOMAIN record.allocations : record.allocations[i].pool = p})
            <= MapThenSumSet(LAMBDA o : o.capacity, {o \in offers : o.pool = p})

(* Every system that plays by its contract leaves the phase able to end:    *)
(* two systems never meet in a pool, so the boundary is not lost to it.     *)
(* (register_reservation_offerers)                                          *)
OneOffererOfAPool == stage # "pool offered twice"

(* A load accepts the record that the settlement wrote: both put requests   *)
(* in one order and derive one allocation from it.                          *)
(* (allocate_reservations, validate_boundary_reservations)                  *)
RecordReplays == stage = "allocated" => RecordAccepted(record)
=============================================================================
