--------------------------- MODULE LawProcedures ---------------------------
(***************************************************************************)
(* One procedure of the legal ledger, from its proposal to its end: stages  *)
(* with seats and deadlines, the context staged for a seat, the outbox of   *)
(* decision tickets and its three-stage dispatch by the host, the seats'    *)
(* votes coming back as intents, the tally, and the boundary that settles   *)
(* what arrived.  What an adopted proposal does to its rule is LawRules'.   *)
(* A seat's work in a stage is a key <<stage, seat>>: one ticket, at most   *)
(* one vote.                                                                *)
(***************************************************************************)
EXTENDS Integers, Sequences, FiniteSets, FiniteSetsExt, SequencesExt

CONSTANTS
  Stages,         \* <<[kind, seats, len, quorum, threshold], ...>>
  Ballots,        \* what a seat may vote
  NeedsCapacity,  \* the profile reserves capacity of a pool
  NeedsSignal,    \* the source profile requires a provider's signal
  MaxTime         \* bound on the simulated time

ProceduresAssumption ==
  /\ Len(Stages) > 0 /\ MaxTime \in Nat
  /\ Ballots \subseteq {"for", "against", "abstain", "veto"}
  /\ {NeedsCapacity, NeedsSignal} \subseteq BOOLEAN
  /\ \A i \in DOMAIN Stages :
       /\ Stages[i].kind \in {"vote", "veto", "consultation"} /\ Stages[i].len \in Nat
       /\ {Stages[i].quorum, Stages[i].threshold} \subseteq Nat
       /\ Stages[i].kind = "consultation" => i < Len(Stages)

VARIABLES law, core, queue, now
vars == <<law, core, queue, now>>

Keys == UNION {{<<i, seat>> : seat \in Stages[i].seats} : i \in DOMAIN Stages}
Dispatch == {"none", "pending", "enqueued", "acknowledged", "expired"}
Open(s) == s.st = "open"
SeatsNow(s) == {k \in Keys : k[1] = s.stage}
Consults(s) == Stages[s.stage].kind = "consultation"
HasCapacity(s) == NeedsCapacity => s.cap

-----------------------------------------------------------------------------
(* The tally of a stage over the ballots admitted so far.                   *)
Tally(stage, bal) ==
  LET cast == {k \in DOMAIN bal : bal[k] # "none"}
      of(b) == Cardinality({k \in cast : bal[k] = b})
      counted == Cardinality(cast) - of("abstain")
      vetoed == of("veto") > 0 \/ (stage.kind = "veto" /\ of("against") > 0)
  IN IF stage.kind = "consultation" THEN "open"
     ELSE IF vetoed THEN "vetoed"
     ELSE IF /\ Cardinality(cast) >= stage.quorum /\ counted > 0
             /\ of("for") * 1000 >= counted * stage.threshold
     THEN "passed" ELSE "open"

BallotsOf(s) == [k \in SeatsNow(s) |-> s.bal[k]]

-----------------------------------------------------------------------------
(* The end of a stage's seat work, and of the procedure.                    *)

ExpireSeatWork(s) ==
  [s EXCEPT !.out = [k \in Keys |->
     IF k \in SeatsNow(s) /\ @[k] \in {"pending", "enqueued"} THEN "expired" ELSE @[k]]]

Close(s, verdict) == [ExpireSeatWork(s) EXCEPT !.st = verdict, !.dirty = FALSE]

OpenNext(s, at) ==
  [ExpireSeatWork(s) EXCEPT !.stage = @ + 1, !.deadline = at + Stages[s.stage + 1].len]

(* Whether a vote is one of the open stage, of a ticket the ledger knows to *)
(* have been dispatched.                                                    *)
Bound(s, k) == Open(s) /\ k[1] = s.stage /\ s.out[k] \in {"enqueued", "acknowledged"}

(* Mutant: any dispatched ticket will do.                                   *)
RefusalStale(s, k, at) ==
  IF s.out[k] \in {"none", "pending"} THEN "unknown" ELSE IF at > s.deadline THEN "late" ELSE "counted"

Refusal(s, k, at) ==
  CASE ~Open(s) \/ k[1] # s.stage -> "stage"
    [] Open(s) /\ k[1] = s.stage /\ ~Bound(s, k) -> "unknown"
    [] Bound(s, k) /\ at > s.deadline -> "late"
    [] OTHER -> "counted"

(* Every pending intent becomes a participation or an outcome.              *)
ApplyIntents(s, at) ==
  LET voted == {i.k : i \in s.pend}
      ballot(k) == (CHOOSE i \in s.pend : i.k = k).b
  IN [s EXCEPT
       !.bal = [k \in Keys |-> IF k \in voted /\ Refusal(s, k, at) = "counted" THEN ballot(k)
                               ELSE @[k]],
       !.fate = [k \in Keys |-> IF k \in voted THEN Refusal(s, k, at) ELSE @[k]],
       !.out = [k \in Keys |-> IF k \in voted /\ @[k] = "enqueued" THEN "acknowledged" ELSE @[k]],
       !.pend = {}]

(* The verdict on the open stage: it waits, moves on or closes.             *)
Advance(s, at) ==
  LET verdict == Tally(Stages[s.stage], BallotsOf(s))
  IN IF ~HasCapacity(s) \/ verdict = "open" THEN s
     ELSE IF verdict = "vetoed" THEN Close(s, "rejected")
     ELSE IF s.stage < Len(Stages) THEN OpenNext(s, at)
     ELSE IF NeedsSignal /\ ~s.sig THEN s
     ELSE Close(s, "adopted")

Overdue(s, at) ==
  IF Consults(s) /\ HasCapacity(s) THEN OpenNext(s, at) ELSE Close(s, "expired")

(* Tickets for the seats of the open stage that have a context and neither  *)
(* a ticket nor a ballot.                                                   *)
Ticketless(s) ==
  {k \in SeatsNow(s) : s.out[k] = "none" /\ s.bal[k] = "none" /\ k \in s.ctx}
Materialize(s, at) ==
  IF ~Open(s) \/ at > s.deadline \/ ~HasCapacity(s) THEN s
  ELSE [s EXCEPT !.out = [k \in Keys |-> IF k \in Ticketless(s) THEN "pending" ELSE @[k]],
                 !.exp = [k \in Keys |-> IF k \in Ticketless(s) THEN s.deadline ELSE @[k]],
                 !.ctx = @ \ Ticketless(s)]

Prune(s) ==
  [s EXCEPT !.ctx = IF Open(s) THEN {k \in @ \intersect SeatsNow(s) : s.out[k] = "none"} ELSE {}]

-----------------------------------------------------------------------------
(* What the boundary reckons to change before it settles: its mutation      *)
(* budget is spent on this.                                                 *)
Projection(s, at) ==
  LET counted == {i \in s.pend : Refusal(s, i.k, at) = "counted"}
      bal == [k \in SeatsNow(s) |->
                IF \E i \in counted : i.k = k THEN (CHOOSE i \in counted : i.k = k).b ELSE s.bal[k]]
      verdict == Tally(Stages[s.stage], bal)
      moves == verdict = "passed" /\ s.stage < Len(Stages)
      closes == verdict = "vetoed" \/ (verdict = "passed" /\ ~moves /\ (NeedsSignal => s.sig))
      stage == IF moves THEN s.stage + 1 ELSE s.stage
      tickets == {k \in Keys : /\ k[1] = stage /\ k \in s.ctx /\ s.out[k] = "none"
                               /\ ~moves => bal[k] = "none"}
  IN Cardinality(s.pend) +
     (IF ~Open(s) THEN 0
      ELSE IF at > s.deadline THEN 1
      ELSE IF ~HasCapacity(s) THEN 0
      ELSE IF closes THEN 1
      ELSE Cardinality(tickets) + IF moves THEN 1 ELSE 0)

Due(s, at) == Open(s) /\ (s.dirty \/ at > s.deadline)

(* The settlement after the intents: the procedure if it is due, its        *)
(* tickets, its contexts.                                                   *)
Moved(s, v, at) ==
  IF ~Due(s, at) THEN v ELSE IF at > v.deadline THEN Overdue(v, at) ELSE Advance(v, at)
Ticketed(s, m, at) == IF Due(s, at) THEN [Materialize(m, at) EXCEPT !.dirty = FALSE] ELSE m

(* Mutant: the wake is for the last instant of the stage.                   *)
WakeOnDeadline(m, at) == IF Open(m) /\ m.deadline > at THEN {m.deadline} ELSE {}

(* A stage is overdue only after its deadline.                              *)
NextWake(m, at) == IF Open(m) /\ m.deadline + 1 > at THEN {m.deadline + 1} ELSE {}

Accounted(s, v, m, at) ==
  LET tickets == {k \in Keys : v.out[k] = "none" /\ m.out[k] = "pending"}
  IN [m EXCEPT
       !.wakes = @ \union NextWake(m, at),
       !.work = [projected |-> Projection(s, at),
                 done |-> Cardinality(s.pend) + Cardinality(tickets)
                          + IF m.st # s.st \/ m.stage # s.stage THEN 1 ELSE 0]]

(* What a boundary without accepted units leaves alone.                     *)
Settled(s, at) ==
  UNION {UNION {UNION {{Accounted(s, v, p, at) : p \in {IF Due(s, at) THEN Prune(t) ELSE t}}
                        : t \in {Ticketed(s, m, at)}}
                 : m \in {Moved(s, v, at)}}
         : v \in {ApplyIntents(s, at)}}

-----------------------------------------------------------------------------
(* Law packets, as one boundary applies them: the ledger after the packet,  *)
(* or none when it is refused.                                              *)

Submit(s, at) ==
  IF s.st # "none" THEN {}
  ELSE {[s EXCEPT !.st = "open", !.deadline = at + Stages[1].len, !.dirty = TRUE]}

Allocate(s) ==
  IF ~Open(s) \/ ~NeedsCapacity THEN {}
  ELSE {[s EXCEPT !.cap = TRUE, !.dirty = @ \/ ~s.cap]}

Signal(s) == IF ~Open(s) THEN {} ELSE {[s EXCEPT !.sig = TRUE, !.dirty = TRUE]}

StageContext(s, k) ==
  IF ~Open(s) \/ k \notin SeatsNow(s) THEN {}
  ELSE {[s EXCEPT !.ctx = @ \union {k}, !.dirty = @ \/ k \notin s.ctx]}

(* A preparation for work that expired changes nothing; a second one needs  *)
(* a core without any outcome for the ticket.                               *)
Prepare(s, k) ==
  CASE s.out[k] = "none" -> {}
    [] s.out[k] = "expired" -> {s}
    [] OTHER -> IF core[k] # "none" THEN {}
                ELSE IF s.out[k] = "pending" THEN {[s EXCEPT !.prep[k] = "fresh"]} ELSE {}

(* The acknowledgement is checked against the core's own ticket.            *)
Acknowledge(s, k) ==
  CASE s.out[k] = "none" -> {}
    [] s.out[k] = "expired" -> {s}
    [] OTHER -> IF core[k] \notin {"open", "resolved"} THEN {}
                ELSE IF s.out[k] = "pending" THEN {[s EXCEPT !.out[k] = "enqueued"]} ELSE {s}

QueueIntent(s, k, b) ==
  IF s.fate[k] # "none" THEN {s}
  ELSE IF \E i \in s.pend : i.k = k THEN {}
  ELSE {[s EXCEPT !.pend = @ \union {[k |-> k, b |-> b]}, !.dirty = @ \/ Open(s)]}

Wake(s, at) == {[s EXCEPT !.wakes = @ \ {at}]}

Apply(s, p, at) ==
  CASE p.kind = "wake"     -> Wake(s, at)
    [] p.kind = "submit"   -> Submit(s, at)
    [] p.kind = "capacity" -> Allocate(s)
    [] p.kind = "signal"   -> Signal(s)
    [] p.kind = "context"  -> StageContext(s, p.k)
    [] p.kind = "prepare"  -> Prepare(s, p.k)
    [] p.kind = "ack"      -> Acknowledge(s, p.k)
    [] p.kind = "intent"   -> QueueIntent(s, p.k, p.b)

(* The canonical order of the units of one boundary.                        *)
Order == <<"wake", "submit", "capacity", "signal", "context", "prepare", "ack", "intent">>

(* The ledger after the units of every kind, and whether one was accepted:  *)
(* nothing is settled without.                                              *)
Admit(s, packets, at) ==
  FoldLeft(LAMBDA acc, p :
             UNION {IF next = {} THEN {a} ELSE {[s |-> t, settles |-> TRUE] : t \in next}
                      : <<a, next>> \in {<<a, Apply(a.s, p, at)>> : a \in acc}},
           {[s |-> s, settles |-> FALSE]},
           FlattenSeq([i \in DOMAIN Order |-> SetToSeq({p \in packets : p.kind = Order[i]})]))

-----------------------------------------------------------------------------
Init ==
  /\ law = [st |-> "none", stage |-> 1, deadline |-> 0, cap |-> FALSE, sig |-> FALSE, ctx |-> {},
            out |-> [k \in Keys |-> "none"], prep |-> [k \in Keys |-> "none"],
            exp |-> [k \in Keys |-> 0], bal |-> [k \in Keys |-> "none"],
            fate |-> [k \in Keys |-> "none"], pend |-> {}, dirty |-> FALSE, wakes |-> {},
            work |-> [projected |-> 0, done |-> 0]]
  /\ core = [k \in Keys |-> "none"]
  /\ queue = {} /\ now = 0

(* One boundary: the core opens what was enqueued at its revision and       *)
(* resolves what was answered, the answer's command queues an intent for    *)
(* the next boundary, and preparations of another revision are stale.       *)
Boundary ==
  LET due == queue \union IF now \in law.wakes THEN {[kind |-> "wake"]} ELSE {}
      answers == {p \in due : p.kind = "resolve" /\ core[p.k] = "open" /\ now <= law.exp[p.k]}
      stale == [law EXCEPT !.prep = [k \in Keys |-> IF @[k] = "fresh" THEN "stale" ELSE @[k]]]
  IN /\ \E admitted \in Admit(stale, {p \in due : p.kind # "resolve"}, now) :
          law' \in IF admitted.settles THEN Settled(admitted.s, now) ELSE {admitted.s}
     /\ core' = [k \in Keys |-> IF core[k] = "queued" THEN "open"
                                ELSE IF \E p \in answers : p.k = k THEN "resolved" ELSE core[k]]
     /\ queue' = {[kind |-> "intent", k |-> p.k, b |-> p.b] : p \in answers}
     /\ UNCHANGED now

Send(packets) == ~(packets \subseteq queue) /\ queue' = queue \union packets

HostSubmit   == law.st = "none" /\ Send({[kind |-> "submit"]}) /\ UNCHANGED <<law, core, now>>
HostAllocate == /\ NeedsCapacity /\ Open(law) /\ ~law.cap /\ Send({[kind |-> "capacity"]})
                /\ UNCHANGED <<law, core, now>>
HostSignal   == /\ NeedsSignal /\ Open(law) /\ ~law.sig /\ Send({[kind |-> "signal"]})
                /\ UNCHANGED <<law, core, now>>
HostContext  == /\ \E k \in SeatsNow(law) : law.out[k] = "none" /\ Send({[kind |-> "context", k |-> k]})
                /\ Open(law) /\ UNCHANGED <<law, core, now>>

Undispatched == {k \in Keys : law.out[k] = "pending"}

(* prepare_pending_decision_enqueues fails as a whole once the core has an  *)
(* outcome for any pending ticket.                                          *)
HostPrepare ==
  /\ \A k \in Undispatched : core[k] = "none" \/ law.prep[k] = "fresh"
  /\ Send({[kind |-> "prepare", k |-> k] : k \in {j \in Undispatched : law.prep[j] # "fresh"}})
  /\ UNCHANGED <<law, core, now>>

(* enqueue_pending_decisions fails as a whole when a preparation is stale.  *)
HostEnqueue ==
  /\ Undispatched # {} /\ \A k \in Undispatched : law.prep[k] = "fresh"
  /\ core' = [k \in Keys |-> IF k \in Undispatched /\ core[k] = "none" THEN "queued" ELSE core[k]]
  /\ core' # core /\ UNCHANGED <<law, queue, now>>

HostAcknowledge ==
  /\ Undispatched # {} /\ \A k \in Undispatched : core[k] \in {"open", "resolved"}
  /\ Send({[kind |-> "ack", k |-> k] : k \in Undispatched})
  /\ UNCHANGED <<law, core, now>>

(* A controller answers its open ticket.                                    *)
Vote ==
  /\ \E k \in Keys, b \in Ballots :
       /\ core[k] = "open" /\ \A p \in queue : p.kind = "resolve" => p.k # k
       /\ Send({[kind |-> "resolve", k |-> k, b |-> b]})
  /\ UNCHANGED <<law, core, now>>

(* Time waits for what is due.                                              *)
Tick == /\ now < MaxTime /\ queue = {} /\ now \notin law.wakes
        /\ \A k \in Keys : core[k] # "queued"
        /\ now' = now + 1 /\ UNCHANGED <<law, core, queue>>

(* Without packets a boundary only moves the revision.                      *)
Next == Boundary \/ HostSubmit \/ HostAllocate \/ HostSignal \/ HostContext \/ HostPrepare
        \/ HostEnqueue \/ HostAcknowledge \/ Vote \/ Tick
Spec == Init /\ [][Next]_vars
(* The host settles what is due and does not only dispatch: now and again   *)
(* it lets time pass (advance_canonical), preparing again does not stop it. *)
FairSpec == Spec /\ WF_vars(Boundary) /\ SF_vars(Tick)

-----------------------------------------------------------------------------
TypeOK ==
  /\ law.st \in {"none", "open", "adopted", "rejected", "expired"}
  /\ law.stage \in DOMAIN Stages /\ law.deadline \in Nat /\ law.ctx \subseteq Keys
  /\ law.out \in [Keys -> Dispatch] /\ law.prep \in [Keys -> {"none", "fresh", "stale"}]
  /\ law.bal \in [Keys -> {"none"} \union Ballots]
  /\ law.fate \in [Keys -> {"none", "counted", "stage", "unknown", "late"}]
  /\ core \in [Keys -> {"none", "queued", "open", "resolved"}] /\ now \in 0..MaxTime
  /\ \A k \in Keys : core[k] # "none" => law.out[k] # "none"

(* A boundary leaves no intent behind, and an intent is a ballot or an      *)
(* outcome, never both and never twice.                                     *)
SettledOnce ==
  /\ law.pend = {}
  /\ \A k \in Keys : (law.bal[k] # "none") = (law.fate[k] = "counted")

(* Work that still waits for a seat belongs to the stage that is open.      *)
SeatWorkCurrent ==
  \A k \in Keys : law.out[k] \in {"pending", "enqueued"} => Open(law) /\ k[1] = law.stage

(* A context is staged only for a seat of the open stage without a ticket.  *)
ContextsCurrent == \A k \in law.ctx : Open(law) /\ k[1] = law.stage /\ law.out[k] = "none"

(* No ballot is taken after the deadline of its stage, nor changed later.   *)
BallotsInTime ==
  \A k \in Keys : law'.bal[k] # law.bal[k] =>
       law.bal[k] = "none" /\ k[1] = law.stage /\ now <= law.deadline

(* An open procedure has a wake at the end of its stage, or is overdue now. *)
DeadlineWakes == Open(law) => law.deadline + 1 \in law.wakes \/ now > law.deadline

(* A consultation that lacks its capacity never hands on.                   *)
StagesNeedCapacity == NeedsCapacity /\ law.stage > 1 => law.cap

(* The boundary changes as much as it reckoned when it chose its work.      *)
WorkAsProjected == law.work.projected = law.work.done

=============================================================================
