------------------------- MODULE CompletionCoordinator -------------------------
(***************************************************************************)
(* A completion lease of two plugins: canwu-production coordinates it      *)
(* (completion.rs) and keeps its own grant, canwu-resource takes part      *)
(* (ExternalCompletionParticipantBookV1, lease.rs) with a grant and an     *)
(* exact-target lock of its own.  Neither writes the other's root: each    *)
(* reads the other's as it was when the boundary began, and the host       *)
(* carries what one side did to the other, in any order or never.  A step  *)
(* whose result the production root refuses settles nothing.               *)
(***************************************************************************)
EXTENDS Integers, FiniteSets, FiniteSetsExt

CONSTANTS
    Leases,        \* completion acquisitions of one holder
    Class,         \* policy class of each, 1 for guaranteed
    Target,        \* the resource account each is to lock
    Capacity,      \* units of each budget; a recipe takes one
    MaxPending,    \* MAX_PENDING_LEASE_ACQUISITIONS_PER_AUTHORITY
    Tokens,        \* request tokens of the partition
    TTL,           \* PREACTIVATION_LEASE_TTL_BOUNDARIES
    Guard,         \* ACTIVATION_GUARD_BOUNDARIES
    Moves,         \* whether accounts change for other reasons
    MaxTime, MaxBoundary

CoordinatorAssumption ==
    Guard \in 1..TTL /\ {Capacity, MaxPending, Tokens, TTL} \subseteq Nat \ {0} /\ Moves \in BOOLEAN

VARIABLES
    prod,       \* ProductionState: leases with their local grant and the participant's mirror
    res,        \* the participant book of the resource root
    view,       \* both as they were when the boundary began
    boundary, now

vars == <<prod, res, view, boundary, now>>

Live == {"held", "prepared", "consumed"}
Terminal == {"completed", "released", "rejected", "expired"}
Pending == {"requested", "partially_granted", "fully_granted", "preparing", "prepared_all", "aborting"}

NoGrant == [state |-> "none", rev |-> 0, expires |-> 0]
Held(expires) == [state |-> "held", rev |-> 1, expires |-> expires]
Next1(g, state) == [g EXCEPT !.state = state, !.rev = @ + 1]
Deadline(g) == g.expires - (Guard - 1)
Unasked == [state |-> "none", at |-> 0, seq |-> 0, local |-> NoGrant, mirror |-> NoGrant, cert |-> FALSE, due |-> FALSE]

Init ==
    /\ prod = [lease |-> [l \in Leases |-> Unasked], locks |-> {}, tokens |-> Tokens, asked |-> 0]
    /\ res = [part |-> [l \in Leases |-> NoGrant], lock |-> [t \in {Target[l] : l \in Leases} |-> {}],
              due |-> {}, units |-> 0, moved |-> {}]
    /\ view = [prod |-> prod, res |-> res]
    /\ boundary = 0 /\ now = 0

----------------------------------------------------------------------------
(* The coordinator.                                                         *)
Known(p) == {l \in Leases : p.lease[l].state \notin {"none", "gone"}}
Count(p, states) == Cardinality({l \in Leases : p.lease[l].state \in states})
LocalUnits(p) == Cardinality({l \in Known(p) : p.lease[l].local.state \in Live})

(* validate_completion_coordinator                                          *)
ValidLease(c) ==
    /\ c.state \in {"fully_granted", "preparing", "prepared_all", "activated", "aborting", "released"}
        => c.local # NoGrant /\ c.mirror # NoGrant
    /\ c.state \in {"activated", "released"} <=> c.cert

Valid(p) == \A l \in Known(p) : ValidLease(p.lease[l])

(* Mutant: a grant that ended counts as prepared.                           *)
RecomputedEnded(c) ==
    LET grants == {c.local, c.mirror} \ {NoGrant}
        prepared == {g \in grants : g.state = "prepared" \/ g.state \in Terminal}
        all == c.local # NoGrant /\ c.mirror # NoGrant
    IN  [c EXCEPT !.state =
            IF all /\ prepared = grants THEN "prepared_all"
            ELSE IF prepared # {} THEN "preparing"
            ELSE IF all THEN "fully_granted"
            ELSE IF grants = {} THEN "requested" ELSE "partially_granted"]

(* recompute_acquisition_state                                              *)
Recomputed(c) ==
    LET grants == {c.local, c.mirror} \ {NoGrant}
        prepared == {g \in grants : g.state = "prepared"}
        all == c.local # NoGrant /\ c.mirror # NoGrant
    IN  [c EXCEPT !.state =
            IF all /\ prepared = grants THEN "prepared_all"
            ELSE IF prepared # {} THEN "preparing"
            ELSE IF all THEN "fully_granted"
            ELSE IF grants = {} THEN "requested" ELSE "partially_granted"]

(* release_acquisition_if_terminal                                          *)
ReleasedIfTerminal(c) ==
    IF \A g \in {c.local, c.mirror} \ {NoGrant} : g.state \in Terminal
    THEN [c EXCEPT !.state = "released"] ELSE c

SetLease(p, l, c) == [p EXCEPT !.lease[l] = c]
Unlock(p, l) == [p EXCEPT !.locks = @ \ {l}]

(* request_completion_acquisition                                           *)
Request(p, l, at) ==
    IF \/ p.lease[l].state # "none" \/ Count(p, Pending) >= MaxPending \/ p.tokens = 0
    THEN {}
    ELSE {[SetLease(p, l, [Unasked EXCEPT !.state = "requested", !.at = at, !.seq = p.asked + 1])
           EXCEPT !.tokens = @ - 1, !.asked = @ + 1]}

(* deterministic_completion_fairness_order                                  *)
First(p, l) ==
    \A m \in Leases \ {l} : p.lease[m].state = "requested" =>
        \/ Class[l] < Class[m]
        \/ Class[l] = Class[m] /\ p.lease[l].seq < p.lease[m].seq

(* grant_local_completion                                                   *)
GrantLocal(p, l) ==
    LET c == p.lease[l]
    IN  IF c.state # "requested" \/ ~First(p, l) \/ LocalUnits(p) >= Capacity THEN {}
        ELSE {SetLease(p, l, [c EXCEPT !.local = Held(boundary + TTL), !.state = "partially_granted", !.due = TRUE])}

(* acknowledge_participant_grant, for a held and for a prepared grant: it   *)
(* reads the grant of the resource root and not the state of the lease.     *)
AckGrant(p, l, g) ==
    LET c == p.lease[l]
        follows ==
            \/ c.mirror = NoGrant
            \/ g.state = "prepared" /\ c.mirror.state = "held" /\ g.rev = c.mirror.rev + 1
    IN  IF l \notin Known(p) \/ g.state \notin {"held", "prepared"} \/ ~follows THEN {}
        ELSE {SetLease(p, l, Recomputed([c EXCEPT !.mirror = g]))}

(* prepare_local_completion: a lock is the version of the root's record.    *)
PrepareLocal(p, l) ==
    LET c == p.lease[l]
    IN  IF \/ c.state \notin {"fully_granted", "preparing"} \/ c.local.state # "held"
           \/ boundary + Guard > c.local.expires
        THEN {}
        ELSE {SetLease([p EXCEPT !.locks = @ \cup {l}], l,
                       Recomputed([c EXCEPT !.local = Next1(@, "prepared")]))}

(* activate_completion                                                      *)
Activate(p, l) ==
    LET c == p.lease[l]
    IN  IF \/ c.state # "prepared_all" \/ c.at # now
           \/ \E g \in {c.local, c.mirror} : boundary >= Deadline(g)
        THEN {}
        ELSE {SetLease(p, l, [c EXCEPT !.state = "activated", !.cert = TRUE, !.due = FALSE])}

(* acknowledge_participant_consumed                                         *)
AckConsumed(p, l, g) ==
    LET c == p.lease[l]
    IN  IF \/ c.state # "activated" \/ g.state # "consumed"
           \/ c.mirror.state # "prepared" \/ g.rev # c.mirror.rev + 1
        THEN {}
        ELSE {SetLease(p, l, [c EXCEPT !.mirror = g])}

(* acknowledge_participant_terminal                                         *)
AckTerminal(p, l, g) ==
    LET c == p.lease[l]
        before == CASE g.state = "completed" -> {"consumed"}
                    [] g.state \in {"released", "expired"} -> {"held", "prepared"}
                    [] OTHER -> {}
    IN  IF l \notin Known(p) \/ c.mirror.state \notin before \/ g.rev # c.mirror.rev + 1 THEN {}
        ELSE {SetLease(p, l, ReleasedIfTerminal([c EXCEPT !.mirror = g]))}

(* consume_local_completion_grant, when the execution starts                *)
ConsumeLocal(p, l) ==
    LET c == p.lease[l]
    IN  IF c.state # "activated" \/ c.at # now \/ c.local.state # "prepared" \/ l \notin p.locks THEN {}
        ELSE {SetLease(p, l, [c EXCEPT !.local = Next1(@, "consumed")])}

(* complete_local_completion_grant                                          *)
CompleteLocal(p, l) ==
    LET c == p.lease[l]
    IN  IF l \notin Known(p) \/ c.local.state # "consumed" THEN {}
        ELSE {SetLease(Unlock(p, l), l, ReleasedIfTerminal([c EXCEPT !.local = Next1(@, "completed")]))}

(* abort_completion_acquisition                                             *)
Aborted(p, l) ==
    LET c == p.lease[l]
        local == IF c.local.state \in {"held", "prepared"} THEN Next1(c.local, "released") ELSE c.local
        done == c.mirror = NoGrant \/ c.mirror.state \in Terminal
    IN  IF c.state \notin Pending THEN {}
        ELSE {SetLease(Unlock(p, l), l,
                       [c EXCEPT !.local = local, !.state = IF done THEN "released" ELSE "aborting"])}

(* expire_local_completion                                                  *)
ExpiredLocal(p) ==
    LET due == {l \in Known(p) : p.lease[l].due /\ p.lease[l].local.expires <= boundary}
        over(c) == [c EXCEPT !.local = IF @.state \in {"held", "prepared"} THEN Next1(@, "expired") ELSE @,
                             !.state = "expired", !.due = FALSE]
    IN  IF due = {} THEN {}
        ELSE {[p EXCEPT !.lease = [l \in Leases |-> IF l \in due THEN over(@[l]) ELSE @[l]],
                        !.locks = @ \ due]}

(* lease_fully_ended: the residue an archive commit takes out of the root   *)
Retired(p, l) ==
    LET c == p.lease[l]
    IN  IF c.state \notin {"released", "expired"} \/ c.mirror.state \in Live THEN {}
        ELSE {SetLease(p, l, [c EXCEPT !.state = "gone"])}

----------------------------------------------------------------------------
(* The participant.                                                         *)
Coordinated(l) == view.prod.lease[l]
LiveParts(r) == {l \in Leases : r.part[l].state \in Live}

(* ExternalCompletionParticipantBookV1::validate: the units reconcile.      *)
Reconciles(r) == r.units = Cardinality(LiveParts(r)) /\ r.units <= Capacity

(* GrantExternalParticipant: grant, validate_external_grant_authorization   *)
GrantPart(r, l) ==
    IF \/ l \notin Known(view.prod) \/ Coordinated(l).at # now
       \/ r.part[l] # NoGrant \/ r.units >= Capacity
       \/ Cardinality(LiveParts(r)) >= MaxPending
    THEN {}
    ELSE {[r EXCEPT !.part[l] = Held(boundary + TTL), !.due = @ \cup {l}, !.units = @ + 1]}

(* PrepareExternalParticipant: prepare and reject_prepare; a target that    *)
(* moved is a rejection, one that is locked leaves the grant as it is.      *)
PreparePart(r, l) ==
    LET g == r.part[l]
        granted == Coordinated(l).mirror.state = "held" /\ Coordinated(l).mirror.rev = g.rev
    IN  IF g.state # "held" \/ ~granted THEN {}
        ELSE IF l \in r.moved
        THEN {[r EXCEPT !.part[l] = Next1(g, "rejected"), !.units = @ - 1, !.due = @ \ {l}]}
        ELSE IF boundary + Guard > g.expires \/ r.lock[Target[l]] # {} THEN {}
        ELSE {[r EXCEPT !.part[l] = Next1(g, "prepared"), !.lock[Target[l]] = {l}]}

(* ConsumeExternalParticipant: consume                                      *)
ConsumePart(r, l) ==
    LET g == r.part[l]
        certified == /\ Coordinated(l).mirror.state = "prepared" /\ Coordinated(l).mirror.rev = g.rev
                     /\ Coordinated(l).cert /\ Coordinated(l).at = now
    IN  IF g.state # "prepared" \/ ~certified \/ r.lock[Target[l]] # {l} THEN {}
        ELSE {[r EXCEPT !.part[l] = Next1(g, "consumed"), !.due = @ \ {l}]}

(* CompleteExternalParticipant: complete                                    *)
CompletePart(r, l) ==
    IF r.part[l].state # "consumed" THEN {}
    ELSE {[r EXCEPT !.part[l] = Next1(@, "completed"), !.units = @ - 1, !.lock[Target[l]] = {}]}

(* ReleaseExternalParticipant: release, from any state that is not over as  *)
(* it sees it                                                               *)
ReleasePart(r, l) ==
    LET g == r.part[l]
        allowed == Coordinated(l).state \in {"aborting", "released", "expired"} /\ Coordinated(l).mirror # NoGrant
    IN  IF ~allowed \/ g.state \notin {"held", "prepared", "rejected"} \/ r.units = 0 THEN {}
        ELSE {[r EXCEPT !.part[l] = Next1(g, "released"), !.units = @ - 1,
                        !.lock[Target[l]] = {}, !.due = @ \ {l}]}

(* ExpireExternalParticipants: expire                                       *)
ExpiredParts(r) ==
    LET due == {l \in r.due : r.part[l].expires <= boundary}
    IN  IF due = {} THEN {}
        ELSE {[r EXCEPT !.part = [l \in Leases |-> IF l \in due THEN Next1(@[l], "expired") ELSE @[l]],
                        !.units = @ - Cardinality(due), !.due = @ \ due,
                        !.lock = [t \in DOMAIN @ |-> IF \E l \in due : Target[l] = t THEN {} ELSE @[t]]]}

----------------------------------------------------------------------------
(* settle_completion_step: a root its checks refuse is not installed.       *)
Coordinate(results) == prod' \in {p \in results : Valid(p)} /\ UNCHANGED <<res, view, boundary, now>>
Participate(results) == res' \in {r \in results : Reconciles(r)} /\ UNCHANGED <<prod, view, boundary, now>>

RequestLease(l) == Coordinate(Request(prod, l, now))
GrantLease(l) == Coordinate(GrantLocal(prod, l))
AcknowledgeGrant(l) == Coordinate(AckGrant(prod, l, view.res.part[l]))
PrepareLease(l) == Coordinate(PrepareLocal(prod, l))
ActivateLease(l) == Coordinate(Activate(prod, l))
AcknowledgeConsumed(l) == Coordinate(AckConsumed(prod, l, view.res.part[l]))
AcknowledgeTerminal(l) == Coordinate(AckTerminal(prod, l, view.res.part[l]))
StartExecution(l) == Coordinate(ConsumeLocal(prod, l))
SettleExecution(l) == Coordinate(CompleteLocal(prod, l))
AbortLease(l) == Coordinate(Aborted(prod, l))
ExpireLeases == Coordinate(ExpiredLocal(prod))
RetireLease(l) == Coordinate(Retired(prod, l))

GrantParticipant(l) == Participate(GrantPart(res, l))
PrepareParticipant(l) == Participate(PreparePart(res, l))
ConsumeParticipant(l) == Participate(ConsumePart(res, l))
CompleteParticipant(l) == Participate(CompletePart(res, l))
ReleaseParticipant(l) == Participate(ReleasePart(res, l))
ExpireParticipants == Participate(ExpiredParts(res))

(* The account moves on for another reason: a floor, a credit, a transfer.  *)
MoveTarget(t) ==
    /\ Moves
    /\ LET locked == {l \in LiveParts(res) : Target[l] = t}
       IN  locked \ res.moved # {} /\ Participate({[res EXCEPT !.moved = @ \cup locked]})

EndBoundary(later) ==
    /\ now + later <= MaxTime
    /\ boundary' = IF boundary < MaxBoundary THEN boundary + 1 ELSE boundary
    /\ now' = now + later
    /\ view' = [prod |-> prod, res |-> res]
    /\ UNCHANGED <<prod, res>>

Carried(l) ==
    \/ RequestLease(l) \/ GrantLease(l) \/ AcknowledgeGrant(l) \/ PrepareLease(l) \/ ActivateLease(l)
    \/ AcknowledgeConsumed(l) \/ AcknowledgeTerminal(l) \/ StartExecution(l) \/ SettleExecution(l)
    \/ AbortLease(l) \/ RetireLease(l)
    \/ GrantParticipant(l) \/ PrepareParticipant(l) \/ ConsumeParticipant(l) \/ CompleteParticipant(l)
    \/ ReleaseParticipant(l)

Next ==
    \/ \E l \in Leases : Carried(l)
    \/ ExpireLeases
    \/ ExpireParticipants
    \/ \E t \in DOMAIN res.lock : MoveTarget(t)
    \/ \E later \in {0, 1} : EndBoundary(later)

Spec == Init /\ [][Next]_vars

(* The tick of each plugin expires what is due, boundaries go on, and the   *)
(* host carries the end of a participant back and archives what it can.     *)
Fairness ==
    /\ WF_vars(EndBoundary(0)) /\ WF_vars(ExpireLeases) /\ WF_vars(ExpireParticipants)
    /\ \A l \in Leases : SF_vars(AcknowledgeTerminal(l)) /\ SF_vars(RetireLease(l))

LiveSpec == Spec /\ Fairness

----------------------------------------------------------------------------
(* The shape of both roots.                                                 *)
TypeOK ==
    /\ \A l \in Leases :
        /\ prod.lease[l].state \in Pending \cup {"none", "activated", "released", "expired", "gone"}
        /\ prod.lease[l].local.state \in Live \cup Terminal \cup {"none"}
        /\ res.part[l].state \in Live \cup Terminal \cup {"none"}
    /\ prod.locks = {l \in Known(prod) : prod.lease[l].local.state \in {"prepared", "consumed"}}
    /\ res.due = {l \in Leases : res.part[l].state \in {"held", "prepared"}}

(* What the coordinator keeps of the participant's grant is a version the   *)
(* participant really had: nothing it was never told, nothing of the future.*)
MirrorIsPast ==
    \A l \in Leases :
        LET m == prod.lease[l].mirror
        IN  m # NoGrant => m.rev <= res.part[l].rev /\ (m.rev = res.part[l].rev => m = res.part[l])

(* A certificate always has the coordinator's own grant behind it: no lease *)
(* that was aborted or expired is ever activated, however late the messages *)
(* of the participant arrive.                                               *)
CertificateBacked ==
    \A l \in Known(prod) : prod.lease[l].cert => prod.lease[l].local.state \in {"prepared", "consumed", "completed"}

(* A lease that is over on the coordinator's side holds none of its units.  *)
EndedFreesLocal ==
    \A l \in Known(prod) :
        prod.lease[l].state \in {"aborting", "released", "expired"} => prod.lease[l].local.state \notin Live

(* The participant spends its grant only under a certificate.               *)
SpentUnderCertificate ==
    \A l \in Leases : res.part[l].state \in {"consumed", "completed"} => prod.lease[l].cert

(* A lease leaves the production root only when the participant's grant it  *)
(* recorded is over there too.                                              *)
LeavesAfterParticipant ==
    \A l \in Leases :
        prod.lease[l].state = "gone" /\ prod.lease[l].mirror # NoGrant => res.part[l].state \in Terminal

(* When a lease is activated, both plugins really hold a prepared grant:    *)
(* the guard outlives the delay with which the coordinator sees the other.  *)
ActivatesBoth ==
    \A l \in Leases :
        prod'.lease[l].cert /\ ~prod.lease[l].cert
            => prod.lease[l].local.state = "prepared" /\ res.part[l].state = "prepared"

(* Coordinator and participant agree as far as messages allow: the mirror   *)
(* is a version the participant had, a certificate has the local grant      *)
(* behind it, nothing is spent without one, what is over holds no units,    *)
(* and a lease leaves only when both sides are done.                        *)
CoordinatorSound ==
    /\ TypeOK /\ MirrorIsPast /\ CertificateBacked /\ EndedFreesLocal
    /\ SpentUnderCertificate /\ LeavesAfterParticipant

==============================================================================
