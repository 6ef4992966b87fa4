--------------------------- MODULE ResourceAccounts ---------------------------
(***************************************************************************)
(* The quantities of the resource plugin (canwu-resource, runtime.rs):     *)
(* accounts with their protected floors, demands and what is reserved for  *)
(* them, access grants, transfers and their escrow, and the books that     *)
(* must balance.  A debit runs under a certificate that locked the exact   *)
(* versions of its account, its allocation leg and its demand; a terminal  *)
(* step of a transfer, a credit or a loss takes its lease in the same      *)
(* boundary.  A request that is refused changes nothing.  What ended is    *)
(* taken out of the root by archive commits, whatever still refers to it.  *)
(***************************************************************************)
EXTENDS Integers, Sequences, FiniteSets, FiniteSetsExt, SequencesExt

CONSTANTS
    Capacity,     \* capacity of each account
    Demands,      \* the demands that may be submitted, as numbers: their tie break
    Plan,         \* [owner, requested, minimum, whole, sources, granted, override, due, expires, priority]
    Floors,       \* the protected floors a custodian sets
    AccessGrant,        \* ResourceAccessGrantV1: [cap, from, until]
    Opening,      \* opening balances
    Amounts,      \* quantities of credits, debits and losses
    Operations,   \* the operations that are sent
    MaxLegs, MaxTransfers, MaxTime, MaxFlow

Accounts == DOMAIN Capacity
Open == {"open", "partially_fulfilled"}
InFlight == {"pending_dispatch", "in_transit", "arrival_pending"}
AccountAssumption ==
    /\ Opening \in [Accounts -> Nat]
    /\ \A x \in Accounts : Opening[x] <= Capacity[x]
    /\ \A d \in Demands : Plan[d].minimum \in 1..Plan[d].requested /\ Plan[d].due < Plan[d].expires

VARIABLES
    root,   \* ResourceState
    now     \* the boundary time

vars == <<root, now>>

Init ==
    /\ root = [account |-> [x \in Accounts |-> [balance |-> Opening[x], floor |-> 0]],
               demand |-> <<>>, indexed |-> {}, dirty |-> {},
               leg |-> <<>>, transfer |-> <<>>, cert |-> {}, candidates |-> {},
               grant |-> [status |-> "active", reserved |-> 0, debited |-> 0],
               flow |-> [credited |-> 0, consumed |-> 0, lost |-> 0, outflow |-> 0],
               legs |-> 0]
    /\ now = 0

Lesser(x, y) == IF x < y THEN x ELSE y
Minus(x, y) == IF x > y THEN x - y ELSE 0
Put(f, k, v) == [x \in DOMAIN f \cup {k} |-> IF x = k THEN v ELSE f[x]]
SumOver(f, S) == MapThenSumSet(LAMBDA k : f[k].quantity, S)

----------------------------------------------------------------------------
(* What is reserved, in flight and on offer.                                *)
LegsOf(s, d) == {l \in DOMAIN s.leg : s.leg[l].demand = d}
Holding(s) == {l \in DOMAIN s.leg : s.leg[l].status = "reserved"}
Reserved(s, x) == SumOver(s.leg, {l \in Holding(s) : s.leg[l].account = x})
OpenTransfers(s) == {t \in DOMAIN s.transfer : s.transfer[t].escrow > 0}

(* in_flight_by_demand                                                      *)
Carried(s, d) ==
    MapThenSumSet(LAMBDA t : s.transfer[t].escrow,
        {t \in OpenTransfers(s) : s.transfer[t].state \in InFlight /\ s.transfer[t].leg \in LegsOf(s, d)})

(* active_reserved_for_demand, with what open transfers carry               *)
Drawn(s, d) == SumOver(s.leg, Holding(s) \cap LegsOf(s, d)) + Carried(s, d)

Remainder(s, d) == s.demand[d].requested - s.demand[d].fulfilled
Remaining(s) == AccessGrant.cap - s.grant.reserved - s.grant.debited
Current == root.grant.status = "active" /\ AccessGrant.from <= now /\ now < AccessGrant.until

Spare(s, x, protected) ==
    LET a == s.account[x]
    IN  Minus(Minus(a.balance, Reserved(s, x)), IF protected THEN Lesser(a.floor, a.balance) ELSE 0)

(* available_for_source: a granted demand is offered nothing from an        *)
(* account whose floor has changed.                                         *)
Offer(s, x, d) ==
    IF Plan[d].granted /\ s.account[x].floor # s.demand[d].floor THEN 0
    ELSE Spare(s, x, ~Plan[d].override)

(* ... where any other demand fails the whole pass                          *)
FloorMoved(s, d) ==
    ~Plan[d].granted /\ \E x \in Plan[d].sources : s.account[x].floor # s.demand[d].floor

----------------------------------------------------------------------------
(* The end of a demand.                                                     *)

(* demand_closure_held                                                      *)
ClosureHeld(s, d) ==
    \/ LegsOf(s, d) \cap Holding(s) # {}
    \/ \E t \in OpenTransfers(s) : s.transfer[t].leg \in LegsOf(s, d)

(* mark_terminal_demand_closure                                             *)
MarkClosure(s, d) ==
    IF s.demand[d].status \in Open \/ ClosureHeld(s, d) THEN s
    ELSE [s EXCEPT !.candidates = @ \cup {d}]

(* cancel_demand, expire_demands: the reservations of a demand that ends    *)
Released(s, d, status) ==
    LET held == Holding(s) \cap LegsOf(s, d)
    IN  [s EXCEPT !.leg = [l \in DOMAIN @ |-> IF l \in held THEN [@[l] EXCEPT !.status = status] ELSE @[l]],
                  !.grant.reserved = IF Plan[d].granted THEN @ - SumOver(s.leg, held) ELSE @]

Ended(s, d, status) ==
    MarkClosure([s EXCEPT !.demand[d].status = status, !.indexed = @ \ {d}, !.dirty = @ \ {d}], d)

(* expire_demands                                                           *)
Expire(s, due) ==
    FoldSet(LAMBDA d, c : Ended(Released(c, d, "expired"), d, "expired"), s, due)

----------------------------------------------------------------------------
(* Allocation.                                                              *)

(* One account's share: allocate, the reservation and its leg               *)
ReserveLeg(s, d, x, quantity) ==
    IF quantity = 0 THEN s
    ELSE [s EXCEPT !.legs = @ + 1,
                   !.leg = Put(@, s.legs + 1, [demand |-> d, account |-> x, quantity |-> quantity,
                                               status |-> "reserved", fresh |-> TRUE]),
                   !.grant.reserved = IF Plan[d].granted THEN @ + quantity ELSE @]

(* allocate: the accounts of one demand in their order, until it is served  *)
Take(s, d, quantity) ==
    LET step(x, c) == [left |-> c.left - Lesser(c.left, Offer(c.s, x, d)),
                       s |-> ReserveLeg(c.s, d, x, Lesser(c.left, Offer(c.s, x, d)))]
    IN  FoldLeft(LAMBDA c, x : step(x, c), [left |-> quantity, s |-> s],
                 SetToSortSeq(Plan[d].sources, <)).s

(* ... and what one candidate is granted                                    *)
Serve(s, d) ==
    LET total == MapThenSumSet(LAMBDA x : Offer(s, x, d), Plan[d].sources)
        limit == IF ~Plan[d].granted THEN total ELSE IF Current THEN Lesser(total, Remaining(s)) ELSE 0
        need == Minus(Remainder(s, d), Drawn(s, d))
        grantable == Lesser(need, limit)
        untouched == Drawn(s, d) = 0 /\ s.demand[d].fulfilled = 0
    IN  IF need = 0 THEN s
        ELSE IF \/ grantable = 0
                \/ grantable < Minus(Plan[d].minimum, s.demand[d].fulfilled + Drawn(s, d))
                \/ Plan[d].whole /\ grantable < need
        THEN IF untouched /\ grantable < Plan[d].minimum THEN Ended(s, d, "rejected_minimum") ELSE s
        ELSE Take(s, d, grantable)

(* Mutant: candidates are served in the order they were submitted.          *)
BeforeSubmitted(d, e) == d < e

(* ... in the order of priority, due time and tie break                     *)
Before(d, e) ==
    LET key(c) == <<0 - Plan[c].priority, Plan[c].due, c>>
    IN  \E i \in 1..3 : key(d)[i] < key(e)[i] /\ \A j \in 1..i-1 : key(d)[j] = key(e)[j]

(* ... the candidates of a pass for the demands of `mine`                   *)
Candidates(s, mine) ==
    {d \in (s.indexed \cup s.dirty) \cap mine :
        Plan[d].due <= now /\ now < Plan[d].expires /\ Remainder(s, d) > Drawn(s, d)}

Overdue(s, mine) == {d \in s.indexed \cap mine : Plan[d].expires <= now}

Allocate(s, mine) ==
    LET e == Expire(s, Overdue(s, mine))
        order == SetToSortSeq(Candidates(e, mine), Before)
        served == FoldLeft(Serve, e, order)
    IN  IF \E d \in Candidates(e, mine) : FloorMoved(e, d) THEN {}
        ELSE {[served EXCEPT !.dirty =
                @ \ {d \in (e.indexed \cup e.dirty) \cap mine : d \in e.dirty \/ Plan[d].due <= now}]}

----------------------------------------------------------------------------
(* Debits and credits.                                                      *)

(* Every certificate that locked a version of account x is stale.           *)
Moved(s, x) ==
    [s EXCEPT !.cert = {[c EXCEPT !.moved = @ \cup {l \in c.legs : c.at[l] = x}] : c \in @}]

Credited(s, x, quantity) ==
    IF s.account[x].balance + quantity > Capacity[x] THEN {}
    ELSE {Moved([s EXCEPT !.account[x].balance = @ + quantity], x)}

(* No certificate in force locks the current version of the account.        *)
Unlocked(s, x) == \A c \in s.cert : \A l \in c.legs \ c.moved : c.at[l] # x

(* validate_completion_locked_targets, prepare_capacity: the locks of a     *)
(* lease that is to debit these legs                                        *)
Lockable(s, legs) ==
    /\ \A l \in legs : s.leg[l].status = "reserved" /\ s.leg[l].fresh
    /\ \A c \in s.cert, l \in legs : \A m \in c.legs :
        /\ l # m
        /\ m \notin c.moved => c.at[m] # s.leg[l].account
        /\ m \in DOMAIN s.leg /\ s.leg[m].fresh => s.leg[m].demand # s.leg[l].demand

(* consume_leg                                                              *)
ConsumeLeg(s, l) ==
    LET g == s.leg[l]
    IN  [Moved(s, g.account) EXCEPT
            !.account[g.account].balance = @ - g.quantity,
            !.leg[l].status = "consumed",
            !.grant.reserved = IF Plan[g.demand].granted THEN @ - g.quantity ELSE @,
            !.grant.debited = IF Plan[g.demand].granted THEN @ + g.quantity ELSE @]

(* record_fulfillment: the demand moves to its next revision, and the legs  *)
(* reserved at an earlier one no longer name its current one.               *)
Fulfilled(s, l, quantity) ==
    LET d == s.leg[l].demand
        total == s.demand[d].fulfilled + quantity
        open == s.demand[d].status \in Open
        full == total = s.demand[d].requested
    IN  IF d \notin DOMAIN s.demand \/ total > s.demand[d].requested THEN {}
        ELSE {[s EXCEPT
                !.demand[d].fulfilled = total,
                !.demand[d].status = IF ~open THEN @ ELSE IF full THEN "fulfilled" ELSE "partially_fulfilled",
                !.indexed = IF open /\ full THEN @ \ {d} ELSE @,
                !.dirty = IF ~open THEN @ ELSE IF full THEN @ \ {d} ELSE @ \cup {d},
                !.leg = [m \in DOMAIN @ |-> IF @[m].demand = d THEN [@[m] EXCEPT !.fresh = FALSE] ELSE @[m]]]}

(* The leg is as the certificate locked it.                                 *)
Usable(s, c, l) == l \in DOMAIN s.leg /\ s.leg[l].status = "reserved" /\ l \notin c.moved

(* granted_debit_authority, consume_leg: the checks of one leg              *)
Debitable(s, c, l) ==
    /\ Usable(s, c, l)
    /\ Plan[s.leg[l].demand].granted => Current
    /\ s.account[s.leg[l].account].balance >= s.leg[l].quantity
    /\ s.demand[s.leg[l].demand].fulfilled + s.leg[l].quantity <= s.demand[s.leg[l].demand].requested

(* Mutant: the books do not say what was consumed.                          *)
ConsumedUnbooked(s, l) ==
    UNION {{MarkClosure(f, s.leg[l].demand)} : f \in Fulfilled(ConsumeLeg(s, l), l, s.leg[l].quantity)}

(* settle_consumption                                                       *)
Consumed(s, l) ==
    UNION {{MarkClosure([f EXCEPT !.flow.consumed = @ + s.leg[l].quantity], s.leg[l].demand)} :
           f \in Fulfilled(ConsumeLeg(s, l), l, s.leg[l].quantity)}

(* consume, consume_batch: an item that fails its checks is refused alone;  *)
(* an account the batch itself has moved is as the batch left it.           *)
ConsumeAll(s, c) ==
    FoldLeft(LAMBDA r, l : IF Debitable(r, c, l) THEN CHOOSE t \in Consumed(r, l) : TRUE ELSE r,
             [s EXCEPT !.cert = @ \ {c}], SetToSortSeq(c.legs, <))

(* settle_transfer_start                                                    *)
Started(s, c, l, t, destination) ==
    [ConsumeLeg([s EXCEPT !.cert = @ \ {c}], l) EXCEPT
        !.transfer = Put(@, t, [leg |-> l, destination |-> destination, state |-> "pending_dispatch",
                                quantity |-> s.leg[l].quantity, escrow |-> s.leg[l].quantity,
                                accepted |-> 0, lost |-> 0, returned |-> 0, outflow |-> 0])]

(* settle_transfer_acceptance                                               *)
Accepted(s, t) ==
    LET q == s.transfer[t].escrow
        l == s.transfer[t].leg
        done == [s EXCEPT !.transfer[t].accepted = q, !.transfer[t].escrow = 0,
                          !.transfer[t].state = "accepted"]
    IN  IF l \notin DOMAIN s.leg THEN {}
        ELSE UNION {{MarkClosure(f, s.leg[l].demand) : f \in Fulfilled(c, l, q)} :
                    c \in Credited(done, s.transfer[t].destination, q)}

(* complete_transfer: a demand that ended while this transfer was in flight *)
(* held its closure back for it.                                            *)
CloseAfter(s, t) ==
    LET l == s.transfer[t].leg
    IN  IF l \in DOMAIN s.leg /\ s.leg[l].demand \in DOMAIN s.demand
        THEN MarkClosure(s, s.leg[l].demand) ELSE s

(* ... the disposition of the rest of the escrow                            *)
Disposed(s, t, disposition) ==
    LET q == s.transfer[t].escrow
        over(field, state) ==
            [s EXCEPT !.transfer[t] = [@ EXCEPT ![field] = @ + q, !.escrow = 0, !.state = state]]
    IN  CASE disposition = "accept" ->
                IF s.transfer[t].state \in {"arrival_pending", "pending_dispatch"} THEN Accepted(s, t) ELSE {}
          [] disposition = "return" ->
                IF s.transfer[t].state # "return_pending" THEN {}
                ELSE {CloseAfter(c, t) : c \in Credited(over("returned", "returned"),
                                                        s.leg[s.transfer[t].leg].account, q)}
          [] disposition = "lose" -> {CloseAfter([over("lost", "lost") EXCEPT !.flow.lost = @ + q], t)}
          [] disposition = "outflow" ->
                {CloseAfter([over("outflow", "external_outflow_settled") EXCEPT !.flow.outflow = @ + q], t)}

(* advance_transfer, cancel_transfer                                        *)
Advances(state) ==
    CASE state = "pending_dispatch" -> {"in_transit", "return_pending"}
      [] state = "in_transit" -> {"arrival_pending", "return_pending"}
      [] state = "arrival_pending" -> {"return_pending"}
      [] OTHER -> {}

----------------------------------------------------------------------------
Sent(operation) == operation \in Operations
Settle(results) == root' \in results /\ UNCHANGED now
Flowing(s) == s.flow.credited + s.flow.lost + s.flow.outflow <= MaxFlow

CreditAccount(x, q) ==
    /\ Sent("credit") /\ Unlocked(root, x)
    /\ Settle({[c EXCEPT !.flow.credited = @ + q] : c \in Credited(root, x, q)})
    /\ Flowing(root')

(* record_account_loss, external_outflow                                    *)
Debit(x, q, book, protected) ==
    /\ Sent("debit") /\ Unlocked(root, x)
    /\ q <= Spare(root, x, protected)
    /\ Settle({[Moved([root EXCEPT !.account[x].balance = @ - q], x) EXCEPT !.flow[book] = @ + q]})
    /\ Flowing(root')

SetFloor(x, floor) ==
    /\ Sent("floor") /\ floor # root.account[x].floor
    /\ Settle({Moved([root EXCEPT !.account[x].floor = floor], x)})

(* validate_demand_admission, for a demand that has drawn nothing           *)
Admissible(d, requested, drawn) ==
    Plan[d].granted => root.grant.status = "active" /\ (drawn \/ requested <= Remaining(root))

SubmitDemand(d, floor) ==
    /\ Sent("demand")
    /\ d \notin DOMAIN root.demand /\ d \notin {root.leg[l].demand : l \in DOMAIN root.leg}
    /\ Admissible(d, Plan[d].requested, FALSE)
    /\ Settle({[root EXCEPT !.demand = Put(@, d, [status |-> "open", requested |-> Plan[d].requested,
                                                  fulfilled |-> 0, floor |-> floor]),
                            !.indexed = @ \cup {d}, !.dirty = @ \cup {d}]})

AmendDemand(d, requested, floor) ==
    /\ Sent("amend") /\ d \in DOMAIN root.demand
    /\ root.demand[d].status \in Open
    /\ Plan[d].minimum <= requested
    /\ Drawn(root, d) + root.demand[d].fulfilled <= requested
    /\ Admissible(d, requested, root.demand[d].fulfilled > 0 \/ LegsOf(root, d) # {})
    /\ <<requested, floor>> # <<root.demand[d].requested, root.demand[d].floor>>
    /\ Settle({[root EXCEPT
                !.demand[d] = [@ EXCEPT !.requested = requested, !.floor = floor],
                !.dirty = @ \cup {d},
                !.leg = [l \in DOMAIN @ |-> IF @[l].demand = d THEN [@[l] EXCEPT !.fresh = FALSE] ELSE @[l]]]})

CancelDemand(d) ==
    /\ Sent("cancel") /\ d \in DOMAIN root.demand
    /\ root.demand[d].status \in Open \cup {"rejected_minimum"}
    /\ Settle({Ended(Released(root, d, "released"), d, "cancelled")})

AllocateFor(mine) ==
    /\ Sent("allocate") /\ mine # {}
    /\ Settle(Allocate(root, mine))
    /\ root'.legs <= MaxLegs

(* Acquire, grant, prepare and activate the lease of a debit                *)
Certify(legs) ==
    /\ Sent("certify") /\ legs # {} /\ Lockable(root, legs)
    /\ Settle({[root EXCEPT !.cert = @ \cup {[legs |-> legs, at |-> [l \in legs |-> root.leg[l].account], moved |-> {}]}]})

(* The holder releases a certificate it no longer needs.                    *)
Uncertify(c) ==
    /\ Sent("certify")
    /\ \E l \in c.legs : ~Usable(root, c, l)
    /\ Settle({[root EXCEPT !.cert = @ \ {c}]})

Consume(c) ==
    /\ Sent("consume")
    /\ Cardinality(c.legs) = 1 => \A l \in c.legs : Debitable(root, c, l)
    /\ Settle({ConsumeAll(root, c)})

BeginTransfer(c, t, destination) ==
    /\ Sent("transfer") /\ Cardinality(c.legs) = 1 /\ t \notin DOMAIN root.transfer
    /\ \E l \in c.legs :
        /\ Usable(root, c, l)
        /\ Plan[root.leg[l].demand].granted => Current
        /\ destination # root.leg[l].account
        /\ Settle({Started(root, c, l, t, destination)})

AdvanceTransfer(t, state) ==
    /\ Sent("transfer") /\ t \in OpenTransfers(root)
    /\ state \in Advances(root.transfer[t].state)
    /\ Settle({[root EXCEPT !.transfer[t].state = state]})

CompleteTransfer(t, disposition) ==
    /\ Sent("transfer") /\ t \in OpenTransfers(root)
    /\ disposition = "accept" => Unlocked(root, root.transfer[t].destination)
    /\ disposition = "return" => root.transfer[t].leg \in DOMAIN root.leg
                                   /\ Unlocked(root, root.leg[root.transfer[t].leg].account)
    /\ Settle(Disposed(root, t, disposition))

(* record_transfer_loss: part of the escrow                                 *)
LoseEscrow(t, q) ==
    /\ Sent("loss") /\ t \in OpenTransfers(root) /\ q < root.transfer[t].escrow
    /\ Settle({[root EXCEPT !.transfer[t] = [@ EXCEPT !.escrow = @ - q, !.lost = @ + q],
                            !.flow.lost = @ + q]})

RevokeGrant ==
    /\ Sent("revoke") /\ root.grant.status = "active"
    /\ root.grant.reserved = 0 /\ root.grant.debited = 0
    /\ Settle({[root EXCEPT !.grant.status = "revoked"]})

(* remove_hot_terminal: an archive commit takes the closure of a demand; a  *)
(* certificate over a leg it takes stands and can no longer be used.        *)
Archive(d) ==
    /\ Sent("archive") /\ d \in root.candidates
    /\ Settle({[root EXCEPT !.candidates = @ \ {d},
                            !.demand = [e \in DOMAIN @ \ {d} |-> @[e]],
                            !.leg = [l \in DOMAIN @ \ LegsOf(root, d) |-> @[l]]]})

Wait == now < MaxTime /\ now' = now + 1 /\ UNCHANGED root

Next ==
    \/ \E x \in Accounts, q \in Amounts :
        \/ CreditAccount(x, q)
        \/ \E book \in {"lost", "outflow"}, protected \in BOOLEAN : Debit(x, q, book, protected)
    \/ \E x \in Accounts, floor \in Floors : SetFloor(x, floor)
    \/ \E d \in Demands, floor \in Floors :
        \/ SubmitDemand(d, floor)
        \/ \E requested \in {1, 2, 3} : AmendDemand(d, requested, floor)
    \/ \E d \in Demands : CancelDemand(d) \/ Archive(d)
    \/ \E mine \in {{d \in Demands : Plan[d].owner = o} : o \in {Plan[d].owner : d \in Demands}} \cup {Demands} :
        AllocateFor(mine)
    \/ \E legs \in SUBSET Holding(root) : Certify(legs)
    \/ \E c \in root.cert : Uncertify(c) \/ Consume(c)
    \/ \E c \in root.cert, t \in 1..MaxTransfers, x \in Accounts : BeginTransfer(c, t, x)
    \/ \E t \in DOMAIN root.transfer :
        \/ \E state \in InFlight \cup {"return_pending"} : AdvanceTransfer(t, state)
        \/ \E disposition \in {"accept", "return", "lose", "outflow"} : CompleteTransfer(t, disposition)
        \/ \E q \in Amounts : LoseEscrow(t, q)
    \/ RevokeGrant
    \/ Wait

Spec == Init /\ [][Next]_vars

----------------------------------------------------------------------------
(* The shape of the root.                                                   *)
TypeOK ==
    /\ \A x \in Accounts : root.account[x].balance \in 0..Capacity[x] /\ root.account[x].floor \in Floors
    /\ DOMAIN root.demand \subseteq Demands
    /\ root.dirty \subseteq root.indexed /\ root.candidates \subseteq DOMAIN root.demand
    /\ \A t \in DOMAIN root.transfer :
        LET r == root.transfer[t]
        IN  r.escrow \in Nat /\ r.quantity = r.escrow + r.accepted + r.lost + r.returned + r.outflow
    /\ root.grant.status \in {"active", "revoked"}

(* validate_conservation: what accounts and escrow hold is what was there   *)
(* and came in, less what was consumed, lost and paid out.                  *)
Conserved ==
    LET held == MapThenSumSet(LAMBDA x : root.account[x].balance, Accounts)
        escrow == MapThenSumSet(LAMBDA t : root.transfer[t].escrow, DOMAIN root.transfer)
    IN  held + escrow + root.flow.consumed + root.flow.lost + root.flow.outflow
            = MapThenSumSet(LAMBDA x : Opening[x], Accounts) + root.flow.credited

(* What is reserved on an account is there.                                 *)
Backed == \A x \in Accounts : Reserved(root, x) <= root.account[x].balance

(* A demand is never promised more than it asks for: what it has, what is   *)
(* reserved for it and what is on its way, over all its sources and passes. *)
NeverOverserved ==
    \A d \in DOMAIN root.demand :
        root.demand[d].fulfilled + SumOver(root.leg, Holding(root) \cap LegsOf(root, d)) + Carried(root, d)
            <= root.demand[d].requested

(* validate_access_grants: the grant is charged for exactly what is         *)
(* reserved and debited under it, and never beyond its cap.                 *)
GrantReconciles ==
    /\ root.grant.reserved =
        SumOver(root.leg, {l \in Holding(root) : Plan[root.leg[l].demand].granted})
    /\ root.grant.reserved + root.grant.debited <= AccessGrant.cap
    /\ root.grant.status = "revoked" => root.grant.reserved = 0 /\ root.grant.debited = 0

(* validate: an ended demand is a candidate of the archive unless something *)
(* of it is still to come, and only open demands are indexed.               *)
ClosuresMarked ==
    /\ root.indexed = {d \in DOMAIN root.demand : root.demand[d].status \in Open}
    /\ \A d \in DOMAIN root.demand \ root.indexed : d \in root.candidates <=> ~ClosureHeld(root, d)

(* A transfer that is still open can be finished: the leg and the demand it *)
(* was drawn on are in the root until then, whatever the archive takes.     *)
TransfersAnchored ==
    \A t \in OpenTransfers(root) :
        root.transfer[t].leg \in DOMAIN root.leg
        /\ root.leg[root.transfer[t].leg].demand \in DOMAIN root.demand

(* A demand is not served in a pass while one of higher priority, from      *)
(* the same accounts and on the same terms, could have used its units.      *)
ServesInOrder ==
    \A d, e \in DOMAIN root.demand :
        (/\ root'.legs > root.legs /\ d # e /\ Plan[d].owner = Plan[e].owner
         /\ Plan[d].priority > Plan[e].priority /\ {d, e} \subseteq Candidates(root, Demands)
         /\ Plan[d].sources = Plan[e].sources /\ ~Plan[d].granted /\ ~Plan[d].whole
         /\ Plan[d].override = Plan[e].override /\ Plan[d].minimum = 1
         /\ \E l \in DOMAIN root'.leg \ DOMAIN root.leg : root'.leg[l].demand = e)
            => Remainder(root', d) = Drawn(root', d)

(* An ended demand never opens again, and nothing is reserved for it.       *)
EndsDemands ==
    \A d \in DOMAIN root.demand \ root.indexed :
        /\ d \notin root'.indexed
        /\ d \in DOMAIN root'.demand => LegsOf(root', d) = LegsOf(root, d)
=============================================================================
