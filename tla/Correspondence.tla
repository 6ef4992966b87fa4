--------------------------- MODULE Correspondence ---------------------------
(***************************************************************************)
(* One correspondence: a dispatch carried leg by leg to its recipient.  The *)
(* correspondence plugin keeps the operation and its transport execution;   *)
(* the dispatch and its delivery attempts are the information extension's,  *)
(* changed only by information operations the plugin asks for and polls.    *)
(* Progress comes by packets the plugin schedules for itself, each with the *)
(* sequence number the operation had; a boundary takes the host's packets   *)
(* first and changes the operation once.                                    *)
(***************************************************************************)
EXTENDS Integers, Sequences, FiniteSets, FiniteSetsExt, SequencesExt

CONSTANTS
  Delegations,  \* expiry of the carrier's successive delegations to the sender
  MaxLegs, Waits,    \* the routes a plan may have: legs, and waits before the first
  Dues,         \* how long an attempt may take
  Kinds,        \* the incidents the host reports
  MaxIncidents, \* bound on them
  MaxAttempts,  \* max_delivery_attempts_per_recipient
  MaxSeq,       \* bound on the operation's sequence
  Apart,        \* incidents come only when no progress packet is due
  MaxTime       \* bound on the simulated time

CorrespondenceAssumption ==
  /\ \A d \in DOMAIN Delegations : Delegations[d] \in Nat
  /\ {MaxLegs, MaxAttempts} \subseteq Nat \ {0} /\ Waits \subseteq Nat /\ Dues \subseteq Nat
  /\ {MaxIncidents, MaxSeq, MaxTime} \subseteq Nat
  /\ Kinds \subseteq {"disaster", "interception", "seizure"} /\ Apart \in BOOLEAN

VARIABLES op, info, queue, host, now
vars == <<op, info, queue, host, now>>

Statuses == {"none", "awaiting_activation", "awaiting_dispatch", "scheduled", "in_transit",
             "awaiting_completion", "settled", "deadline_missed", "waiting", "compensation", "failed"}
Over(st) == st \in {"settled", "deadline_missed", "compensation", "failed"}
Ended(st) == st \in {"delivered", "failed", "cancelled"}

(* The progress packets and the report packet of the plugin.                *)
Progress(seq, act, at) == [k |-> "progress", seq |-> seq, act |-> act, at |-> at]
Report(n, at) == [k |-> "report", n |-> n, at |-> at]
Later(a, b) == Max({a, b})

-----------------------------------------------------------------------------
(* The information extension: operations on the dispatch and its attempts.  *)
(* One takes effect, or is rejected, two boundaries after it is scheduled.  *)
Ask(n, step, to, at, due, by) ==
  [id |-> <<n, step>>, to |-> to, at |-> at, due |-> due, by |-> by, wait |-> 2]

ChangeAttempt(f, a) ==
  LET n == a.id[1]
  IN IF /\ n \in DOMAIN f.attempts /\ ~Ended(f.attempts[n].st)
        /\ a.to = "delivered" => a.at <= f.attempts[n].due
     THEN [f EXCEPT !.attempts[n].st = a.to, !.attempts[n].done = a.at] ELSE f

BeginAttempt(f, a) ==
  IF /\ f.dispatch = (IF a.id[2] = "activate" THEN "prepared" ELSE "active")
     /\ Len(f.attempts) + 1 = a.id[1] /\ a.id[1] <= MaxAttempts
  THEN [f EXCEPT !.dispatch = "active",
                 !.attempts = Append(@, [st |-> "prepared", at |-> a.at, due |-> a.due,
                                         done |-> 0, by |-> a.by])]
  ELSE f

Complete(f) ==
  IF f.dispatch = "active" /\ f.attempts # <<>> /\ Ended(Last(f.attempts).st)
  THEN [f EXCEPT !.dispatch = "completed"] ELSE f

Take(f, a) ==
  LET after == CASE a.id[2] \in {"activate", "begin"} -> BeginAttempt(f, a)
                 [] a.id[2] = "complete" -> Complete(f)
                 [] OTHER -> ChangeAttempt(f, a)
  IN [after EXCEPT !.done = @ \cup {[id |-> a.id, ok |-> after # f]}]

(* The information extension's part of a boundary.                          *)
InformationPart(f) ==
  LET due == SelectSeq(f.ops, LAMBDA a : a.wait = 1)
      rest == SelectSeq(f.ops, LAMBDA a : a.wait = 2)
  IN FoldLeft(Take, [f EXCEPT !.ops = [i \in DOMAIN rest |-> [rest[i] EXCEPT !.wait = 1]]], due)

Result(f, id) == {r \in f.done : r.id = id}

-----------------------------------------------------------------------------
(* The operation.  A handler takes what the boundary has of it so far, w:   *)
(* the operation, the information operations asked for and the packets      *)
(* scheduled; it returns the set of its outcomes.                           *)

(* The routes that can be planned now, as the bound on time lets them end.  *)
Plans(at) ==
  {[i \in 1..n |-> [dep |-> at + wait + i - 1, arr |-> at + wait + i]] :
     n \in {m \in 1..MaxLegs : at + m <= MaxTime}, wait \in {x \in Waits : at + x + MaxLegs <= MaxTime}}

Then(w, act, at) == [w EXCEPT !.out = @ \cup {Progress(w.o.seq, act, at)}]
Asking(w, a) == [w EXCEPT !.asked = Append(@, a), !.o.pend = a.id]
Advanced(w) == [w EXCEPT !.o.seq = @ + 1]
Poll(w, at) == Then(w, "reconcile", at)

(* Mutant: the number of the packet is the one before the operation's.      *)
RerouteStale(w, plan, at) ==
  LET moved == [w EXCEPT !.o.plan = plan, !.o.leg = 1, !.o.legst = "planned", !.o.x = "planning",
                         !.o.handoffs = @ + 1, !.o.st = "scheduled"]
  IN Advanced(Then(moved, "start", Later(at, plan[1].dep)))

(* A new itinerary from where the packet is, or none to be had.             *)
Reroute(w, plan, at) ==
  LET moved == [w EXCEPT !.o.plan = plan, !.o.leg = 1, !.o.legst = "planned", !.o.x = "planning",
                         !.o.handoffs = @ + 1, !.o.st = "scheduled"]
  IN Then(Advanced(moved), "start", Later(at, plan[1].dep))

Replan(w, at) ==
  {Reroute(w, plan, at) : plan \in Plans(at)} \cup {Advanced([w EXCEPT !.o.st = "waiting"])}

FailLeg(w) == [w EXCEPT !.o.legst = "failed", !.o.x = "replan"]

StartLeg(w, at) ==
  Then(Advanced([w EXCEPT !.o.legst = "departed", !.o.x = "executing", !.o.st = "in_transit"]),
       "complete", Later(at, w.o.plan[w.o.leg].arr))

Arrive(w, at) ==
  Poll(Asking(Advanced([w EXCEPT !.o.legst = "arrived", !.o.x = "arrival",
                                 !.o.st = "awaiting_completion"]),
              Ask(w.o.n, "deliver", IF at <= w.o.due THEN "delivered" ELSE "failed", at, 0, 0)), at)

CompleteLeg(w, at) ==
  IF w.o.leg = Len(w.o.plan) THEN Arrive(w, at)
  ELSE Then(Advanced([w EXCEPT !.o.leg = @ + 1, !.o.legst = "planned", !.o.x = "ready",
                               !.o.handoffs = @ + 1, !.o.st = "scheduled"]),
            "start", Later(at, w.o.plan[w.o.leg + 1].dep))

(* The attempt the pending operation closed did not deliver.                *)
CloseFailed(w, f, at) ==
  LET a == f.attempts[w.o.n]
      closed == Advanced([w EXCEPT !.o.pend = <<>>, !.o.x = "failed",
                                   !.o.st = IF a.done > a.due THEN "deadline_missed" ELSE "failed"])
  IN IF \E i \in w.o.incidents : i.kind = "seizure" /\ i.hit /\ <<i.n, "seized">> = w.o.pend
     THEN [closed EXCEPT !.out = @ \cup {Report(w.o.n, at)}] ELSE closed

(* The pending operation took effect.                                       *)
Reconciled(w, f, at) ==
  LET step == w.o.pend[2]  n == w.o.n
  IN CASE step \in {"activate", "begin"} ->
            Poll(Asking(Advanced([w EXCEPT !.o.st = "awaiting_dispatch", !.o.x = "planning",
                                           !.o.leg = 1, !.o.legst = "planned", !.o.handoffs = 0,
                                           !.o.left = FALSE]),
                        Ask(n, "transit", "in_transit", 0, 0, 0)), at)
       [] step = "transit" ->
            Then(Advanced([w EXCEPT !.o.pend = <<>>, !.o.st = "scheduled", !.o.x = "executing"]),
                 "start", Later(at, w.o.plan[1].dep))
       [] step \in {"deliver", "seized"} ->
            IF f.attempts[n].st = "delivered"
            THEN Poll(Asking(Advanced([w EXCEPT !.o.x = "settled"]),
                             Ask(n, "complete", "completed", at, 0, 0)), at)
            ELSE CloseFailed(w, f, at)
       [] step = "complete" ->
            LET a == f.attempts[n]
            IN Advanced([w EXCEPT !.o.pend = <<>>,
                 !.o.st = IF a.st = "delivered" THEN "settled"
                          ELSE IF a.done > a.due THEN "deadline_missed" ELSE "failed"])

Reconcile(w, f, at) ==
  IF Result(f, w.o.pend) = {} THEN Poll(w, at)
  ELSE IF [id |-> w.o.pend, ok |-> TRUE] \in f.done THEN Reconciled(w, f, at)
  ELSE [w EXCEPT !.o.st = "compensation", !.o.pend = <<>>]

(* A progress packet: stale ones, and those of an operation the boundary    *)
(* changed before, do nothing.                                              *)
ProgressPart(w, f, p, claimed, at) ==
  IF p.seq # w.o.seq \/ Over(w.o.st) \/ claimed THEN w
  ELSE CASE p.act = "reconcile" -> Reconcile(w, f, at)
         [] p.act = "start" -> StartLeg(w, at)
         [] p.act = "complete" -> CompleteLeg(w, at)

-----------------------------------------------------------------------------
(* The host's packets.                                                      *)
Covers(d, at) == d # 0 /\ at < Delegations[d]

(* Why an incident is kept as evidence only.                                *)
Suppressed(o, kind, cited) ==
  \/ o.st \notin {"scheduled", "in_transit"} /\ ~(o.st = "waiting" /\ kind = "seizure")
  \/ o.pend # <<>> \/ o.leg > Len(o.plan)
  \/ kind = "disaster" /\ o.x \notin {"planning", "ready", "executing", "replan"}
  \/ kind = "seizure" /\ cited <= o.handoffs

Seize(w, at) ==
  LET failed == IF w.o.legst = "failed" THEN w ELSE FailLeg(w)
      taken == Advanced([failed EXCEPT !.o.left = TRUE, !.o.handoffs = @ + 1,
                                       !.o.st = "awaiting_completion"])
  IN Poll(Asking(taken, Ask(w.o.n, "seized", "failed", at, 0, 0)), at)

Incident(w, kind, cited, hit, at) ==
  LET suppressed == Suppressed(w.o, kind, cited)
      noted == [w EXCEPT !.o.incidents = @ \cup {[no |-> Cardinality(@) + 1, kind |-> kind, n |-> w.o.n,
                                                  hit |-> hit /\ ~suppressed]}]
  IN IF suppressed \/ ~hit \/ kind = "interception" THEN {noted}
     ELSE IF kind = "disaster" THEN Replan(FailLeg(noted), at)
     ELSE {Seize(noted, at)}

(* The operation is begun, unless its carrier no longer takes knowledge.    *)
Begun(w, c, accepts, at) ==
  IF ~accepts THEN {w}
  ELSE {Poll(Asking([w EXCEPT !.o.st = "awaiting_activation", !.o.n = 1, !.o.due = c.due,
                              !.o.auth = c.auth, !.o.plan = plan],
                    Ask(1, "activate", "prepared", at, c.due, c.auth)), at) : plan \in Plans(at)}

Retried(w, c, accepts, at) ==
  LET retry(plan) ==
        Poll(Asking(Advanced([w EXCEPT !.o.st = "awaiting_activation", !.o.n = @ + 1,
                                       !.o.due = c.due, !.o.plan = plan]),
                    Ask(w.o.n + 1, "begin", "prepared", at, c.due, w.o.auth)), at)
  IN {Advanced(w)} \cup IF accepts THEN {retry(plan) : plan \in Plans(at)} ELSE {}

Finalized(w, at) ==
  Poll(Asking(Advanced([w EXCEPT !.o.st = "awaiting_completion"]),
              Ask(w.o.n, "complete", "completed", at, 0, 0)), at)

Recovered(w, c, accepts, at) ==
  CASE c.act = "start" -> Begun(w, c, accepts, at)
    [] c.act = "replan" -> Replan(w, at)
    [] c.act = "retry" -> Retried(w, c, accepts, at)
    [] c.act = "finalize" -> {Finalized(w, at)}

-----------------------------------------------------------------------------
(* The actions.                                                             *)
Init ==
  /\ op = [st |-> "none", pend |-> <<>>, seq |-> 0, n |-> 0, due |-> 0, plan |-> <<>>, leg |-> 1,
           legst |-> "planned", x |-> "planning", handoffs |-> 0, left |-> FALSE, auth |-> 0,
           incidents |-> {}]
  /\ info = [dispatch |-> "prepared", attempts |-> <<>>, ops |-> <<>>, done |-> {}]
  /\ queue = {} /\ now = 0
  /\ host = [deleg |-> 0, offered |-> {}, since |-> [d \in DOMAIN Delegations |-> -1],
             accepts |-> TRUE, wanted |-> <<>>, told |-> <<>>]

(* The carrier accepts to carry; the command is recorded at the next        *)
(* boundary.                                                                *)
Delegate(d) ==
  /\ d = Max(host.offered \cup {host.deleg}) + 1
  /\ d \in DOMAIN Delegations /\ now < Delegations[d] /\ host.accepts
  /\ host' = [host EXCEPT !.offered = @ \cup {d}]
  /\ UNCHANGED <<op, info, queue, now>>

(* The carrier dies or retires.                                             *)
Leave ==
  /\ host.accepts /\ host' = [host EXCEPT !.accepts = FALSE]
  /\ UNCHANGED <<op, info, queue, now>>

(* The sender cancels a dispatch that is not yet active.                    *)
Cancel ==
  /\ info.dispatch = "prepared" /\ info' = [info EXCEPT !.dispatch = "cancelled"]
  /\ UNCHANGED <<op, queue, host, now>>

Command(c) ==
  /\ host.wanted = <<>> /\ host' = [host EXCEPT !.wanted = <<c>>]
  /\ UNCHANGED <<op, info, queue, now>>

Initiate(due) ==
  /\ op.st = "none" /\ info.dispatch = "prepared" /\ due <= MaxTime
  /\ host.accepts /\ Covers(host.deleg, now) /\ Plans(now) # {}
  /\ Command([act |-> "start", due |-> due, auth |-> host.deleg])

Retries(due) ==
  /\ op.st \in {"failed", "deadline_missed"} /\ op.pend = <<>> /\ op.n < MaxAttempts
  /\ host.accepts /\ op.auth = host.deleg /\ Covers(op.auth, now)
  /\ Ended(info.attempts[op.n].st) /\ info.dispatch = "active"
  /\ Command([act |-> "retry", due |-> due, auth |-> op.auth])

Recover ==
  /\ op.seq < MaxSeq
  /\ \/ /\ op.st = "waiting" /\ op.x = "replan" /\ op.pend = <<>>
        /\ Command([act |-> "replan", due |-> 0, auth |-> 0])
     \/ \E d \in Dues : now + d <= MaxTime /\ Retries(now + d)
     \/ /\ op.st \in {"failed", "deadline_missed"} /\ op.pend = <<>>
        /\ Ended(info.attempts[op.n].st) /\ info.dispatch = "active"
        /\ Command([act |-> "finalize", due |-> 0, auth |-> 0])

(* The host's part of a boundary: the command admitted, or an incident.     *)
HostPart(w) ==
  IF host.wanted # <<>> THEN Recovered(w, host.wanted[1], host.accepts, now)
  ELSE {w} \cup
       IF \/ op.st = "none" \/ Over(op.st) \/ Cardinality(op.incidents) >= MaxIncidents
          \/ Apart /\ \E p \in queue : p.k = "progress" /\ p.at <= now
       THEN {}
       ELSE UNION {Incident(w, kind, cited, hit, now) :
                     kind \in Kinds, cited \in 1..2, hit \in BOOLEAN}

Due == {p \in queue : p.at <= now}

Reports(h, due) ==
  [h EXCEPT !.told = @ \o SetToSeq({[n |-> p.n, told |-> h.accepts] : p \in {x \in due : x.k = "report"}})]

RecordDelegations(h) ==
  IF h.offered = {} THEN h
  ELSE [h EXCEPT !.deleg = Max(h.offered), !.offered = {}, !.since[Max(h.offered)] = now]

Boundary ==
  /\ Due # {} \/ info.ops # <<>> \/ host.wanted # <<>> \/ host.offered # {}
     \/ op.st \in {"scheduled", "in_transit", "waiting"}
  /\ \E f \in {InformationPart(info)} :
     \E w \in HostPart([o |-> op, asked |-> <<>>, out |-> {}]) :
     \E claimed \in {host.wanted # <<>> \/ w.o.incidents # op.incidents} :
     \E done \in {FoldSet(LAMBDA p, v : ProgressPart(v, f, p, claimed, now), w,
                          {p \in Due : p.k = "progress"})} :
       /\ op' = done.o
       /\ info' = [f EXCEPT !.ops = @ \o done.asked]
       /\ queue' = (queue \ Due) \cup done.out
       /\ host' = RecordDelegations(Reports([host EXCEPT !.wanted = <<>>], Due))
  /\ UNCHANGED now

Tick ==
  /\ Due = {} /\ info.ops = <<>> /\ host.wanted = <<>> /\ host.offered = {} /\ now < MaxTime
  /\ now' = now + 1
  /\ UNCHANGED <<op, info, queue, host>>

Next == \/ \E d \in DOMAIN Delegations : Delegate(d)
        \/ Leave \/ Cancel
        \/ \E d \in Dues : Initiate(now + d)
        \/ Recover \/ Boundary \/ Tick

Spec == Init /\ [][Next]_vars
FairSpec == Spec /\ WF_vars(Boundary) /\ WF_vars(Tick)

-----------------------------------------------------------------------------
TypeOK ==
  /\ op.st \in Statuses /\ op.n \in 0..MaxAttempts /\ op.leg \in 1..MaxLegs
  /\ op.legst \in {"planned", "departed", "arrived", "failed"}
  /\ op.x \in {"planning", "executing", "ready", "replan", "arrival", "settled", "failed"}
  /\ info.dispatch \in {"prepared", "active", "completed", "cancelled"}
  /\ host.deleg \in {0} \cup DOMAIN Delegations /\ now \in 0..MaxTime

InFlight == op.st # "none" /\ op.st # "waiting" /\ ~Over(op.st)

(* A correspondence that is neither ended nor waiting for a route has a     *)
(* packet on the way that moves it on: nobody else would                    *)
(* (claim_operation_update, schedule_progress, advance_sequence).           *)
ProgressPending == InFlight => \E p \in queue : p.k = "progress" /\ p.seq = op.seq

(* What was seized is never delivered by the attempt it was seized from,    *)
(* whatever was pending when it was taken (incident_suppression_reason).    *)
SeizedNotDelivered ==
  \A i \in op.incidents :
    i.kind = "seizure" /\ i.hit /\ i.n \in DOMAIN info.attempts => info.attempts[i.n].st # "delivered"

(* What the operation says of its end is what the dispatch and its last     *)
(* attempt say, and no attempt delivers after its deadline                  *)
(* (reconcile_information, settle_recovery).                                *)
EndsAgree ==
  /\ op.st = "settled" =>
       info.dispatch = "completed" /\ info.attempts[op.n].st = "delivered"
  /\ op.st \in {"failed", "deadline_missed"} => info.attempts[op.n].st = "failed"
  /\ \A i \in DOMAIN info.attempts :
       info.attempts[i].st = "delivered" => info.attempts[i].done <= info.attempts[i].due

(* A leg is under way only in an attempt that is in transit: the carrier    *)
(* never moves what the information records do not show dispatched          *)
(* (reconcile_information).                                                 *)
MovesInTransit ==
  op.st \in {"scheduled", "in_transit"} => info.attempts[op.n].st = "in_transit"

(* One attempt at a time: every attempt before the last has ended, and the  *)
(* operation's is the last, or the one about to begin (settle_recovery).    *)
OneAttempt ==
  /\ \A i \in 1..Len(info.attempts) - 1 : Ended(info.attempts[i].st)
  /\ op.n = Len(info.attempts) + (IF op.st = "awaiting_activation" /\ Len(info.attempts) < op.n
                                  THEN 1 ELSE 0) \/ op.st = "compensation"

(* The carrier is told of a seizure once, after the attempt was closed, and *)
(* of nothing else; or the report was withheld, once                        *)
(* (seizure_report_directive, attempt_report_directive).                    *)
SeizuresReported ==
  LET of(n) == Cardinality({i \in DOMAIN host.told : host.told[i].n = n})
                 + Cardinality({p \in queue : p.k = "report" /\ p.n = n})
      seized(n) == \E i \in op.incidents : i.kind = "seizure" /\ i.hit /\ i.n = n
  IN \A n \in 1..op.n :
       of(n) = IF seized(n) /\ (n < op.n \/ op.st \in {"failed", "deadline_missed"}
                                \/ op.pend = <<n, "complete">> \/ op.pend = <<n + 1, "begin">>)
               THEN 1 ELSE 0

(* A carrier carries under a delegation that covered the attempt's start    *)
(* and that it had not replaced before (current_carrier_authority,          *)
(* admitted_authority_covers).                                              *)
CarriedUnderDelegation ==
  \A i \in DOMAIN info.attempts :
    LET a == info.attempts[i]
    IN /\ Covers(a.by, a.at)
       /\ \A d \in DOMAIN Delegations : d > a.by /\ host.since[d] >= 0 => host.since[d] >= a.at

=============================================================================
