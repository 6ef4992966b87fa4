--------------------------- MODULE CapacityPools ---------------------------
(***************************************************************************)
(* Windowed pools of transport capacity and the bookings that draw on them *)
(* (canwu-transport, lib.rs): what a booking may become and when, what     *)
(* that does to its pool's counters, and the pass that allocates every     *)
(* request of a pool.  An operator returns the set of its results: empty   *)
(* when the code refuses.  Pool revisions and allocation evidence are not  *)
(* modelled.                                                               *)
(***************************************************************************)
EXTENDS Integers, SequencesExt, FiniteSetsExt, Functions

(* A booking that asks for or holds capacity, or lost it                    *)
Lost == {"failed", "expired", "revoked"}

(* TransportCapacityPoolV1::validate                                        *)
Sound(pool) ==
    /\ pool.from <= pool.until
    /\ pool.booked >= 0 /\ pool.consumed >= 0
    /\ pool.booked + pool.consumed <= pool.quantity

NewPool(from, until, quantity) ==
    {p \in {[from |-> from, until |-> until, quantity |-> quantity, booked |-> 0, consumed |-> 0]} :
        Sound(p)}

Revise(pool, from, until, quantity) ==
    {p \in {[pool EXCEPT !.from = from, !.until = until, !.quantity = quantity]} : Sound(p)}

Available(pool) == pool.quantity - pool.booked - pool.consumed

(* CapacityBooking::transition and revoke: what a booking may become at an  *)
(* instant                                                                  *)
MayBecome(booking, status, at) ==
    /\ <<booking.status, status>> \in
           ({"requested"} \X {"confirmed", "failed", "cancelled"})
             \cup ({"confirmed"} \X {"consumed", "released", "cancelled", "expired", "revoked"})
             \cup {<<"consumed", "released">>}
    /\ status = "consumed" => booking.from <= at /\ at <= booking.until
    /\ status = "confirmed" => at <= booking.until
    /\ status = "expired" => booking.until < at

(* apply_booking_transition                                                 *)
Effect(pool, quantity, from, to) ==
    CASE from = "confirmed" /\ to = "consumed" ->
           [pool EXCEPT !.booked = @ - quantity, !.consumed = @ + quantity]
      [] from = "confirmed" -> [pool EXCEPT !.booked = @ - quantity]
      [] from = "consumed" -> [pool EXCEPT !.consumed = @ - quantity]
      [] OTHER -> pool

(* allocation_order: by priority, then the opening of the window, then the  *)
(* order of admission (a tie-break key that equals for all comes between)   *)
Before(a, b) ==
    \/ a.priority > b.priority
    \/ a.priority = b.priority /\ a.from < b.from
    \/ a.priority = b.priority /\ a.from = b.from /\ a.sequence < b.sequence

(* allocate_capacity_bookings: the bookings confirmed of the requests, each *)
(* whole, in that order; a later, smaller one may still fit                 *)
Granted(pool, requests, at) ==
    LET Admissible(r) == r.until >= at /\ pool.from <= r.from /\ r.until <= pool.until
        Visit(left, r) ==
            IF Admissible(r) /\ r.quantity <= left.remaining
            THEN [remaining |-> left.remaining - r.quantity, granted |-> left.granted \cup {r}]
            ELSE left
    IN  FoldLeft(Visit, [remaining |-> Available(pool), granted |-> {}],
                 SetToSortSeq(requests, Before)).granted

(* apply_allocations                                                        *)
Allocated(pool, granted) ==
    [pool EXCEPT !.booked = @ + MapThenSumSet(LAMBDA r : r.quantity, granted)]
=============================================================================
