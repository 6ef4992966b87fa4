------------------------------ MODULE LawRules ------------------------------
(***************************************************************************)
(* One rule of the legal ledger: the proposals that change it, the chain of *)
(* adopted versions, the versions scheduled for later, the one in force,    *)
(* its projection, publicity and the culture generation versions depend on. *)
(* Handlers take the ledger and return the set of its next values: empty    *)
(* when the code refuses.  How a procedure comes to pass is left to         *)
(* LawProcedures: here a vote makes it pass or vetoes it.                   *)
(***************************************************************************)
EXTENDS Integers, Sequences, FiniteSets, FiniteSetsExt, SequencesExt

CONSTANTS
  Proposals,      \* 1..n, in the order of their identifiers
  ShapesOf,       \* what each proposal may ask for
  MaxTime,        \* bound on the simulated time
  Budgeted        \* whether the mutation budget may leave due versions for later

ASSUME RulesAssumption ==
  /\ Proposals \subseteq Nat \ {0}
  /\ MaxTime \in Nat
  /\ Budgeted \in BOOLEAN

VARIABLES law, now, failed
vars == <<law, now, failed>>

NoTime == -1
Ops == {"establish", "amend", "suspend", "resume", "displace", "repeal"}
Policies == {"none", "validity", "effectiveness"}
(* op, when it takes effect, publicity policy, whether it claims to be in   *)
(* force, a live dependency on the culture generation, an authorised        *)
(* retrospective date, and whether it needs no procedure.                   *)
Shape == [op : Ops, eff : 0..MaxTime, policy : Policies, valid : BOOLEAN,
          dep : BOOLEAN, retro : BOOLEAN, direct : BOOLEAN]
Version == [p : Proposals, adopted : 0..MaxTime]

Retires(op) == op = "repeal"
(* The standing of a version: its operation's, unless it only claims to be law. *)
Disposition(sh) ==
  IF ~sh.valid THEN "claimed"
  ELSE CASE sh.op = "suspend"  -> "suspended"
         [] sh.op = "displace" -> "displaced"
         [] sh.op = "repeal"   -> "repealed"
         [] OTHER              -> "operative"

ShapeOf(s, v) == s.prop[s.vers[v].p].shape
EffOf(s, v)   == ShapeOf(s, v).eff
PubOf(s, v)   == s.prop[s.vers[v].p].pub
Latest(s)       == Len(s.vers)
DependsOn(s, v) == ShapeOf(s, v).dep

-----------------------------------------------------------------------------
(* Guards.                                                                  *)

(* Whether an operation may change the rule as it stands, against the head  *)
(* the proposal was written for.                                            *)
MayChange(s, sh, head) ==
  IF sh.op = "establish" THEN Latest(s) = 0
  ELSE /\ Latest(s) > 0
       /\ head = Latest(s)
       /\ sh.eff >= EffOf(s, Latest(s))
       /\ ~s.retired
       /\ LET inForce == s.operative # 0
              standing == IF inForce THEN Disposition(ShapeOf(s, s.operative)) ELSE "none"
          IN CASE sh.op = "amend" -> \/ standing = "operative"
                                     \/ /\ ~inForce /\ sh.valid
                                        /\ Disposition(ShapeOf(s, Latest(s))) = "claimed"
               [] sh.op = "suspend" -> standing = "operative"
               [] sh.op = "resume"  -> standing = "suspended"
               [] OTHER -> TRUE

(* Ready, Wait or Reject: publicity and dates at adoption.                  *)
AdoptionGuard(sh, pub, at) ==
  IF \/ sh.policy = "effectiveness" /\ pub > sh.eff
     \/ sh.policy = "none" /\ pub # NoTime
     \/ sh.eff < at /\ ~sh.retro
  THEN "reject"
  ELSE IF sh.policy = "validity" /\ (pub = NoTime \/ pub > at) THEN "wait" ELSE "ready"

(* A version takes effect once it claims to and its publicity is there.     *)
Materializes(sh, pub) == sh.valid /\ (sh.policy = "none" \/ pub # NoTime)

-----------------------------------------------------------------------------
(* Versions.                                                                *)

InForce(s, v) ==
  [s EXCEPT !.operative = v, !.retired = Retires(ShapeOf(s, v).op),
            !.sched = @ \ {v}, !.dirty = TRUE]

Schedule(s, v) == [s EXCEPT !.sched = @ \union {v}, !.dirty = TRUE]

(* Appends the version of an adopted proposal; it is in force at once,      *)
(* scheduled, or neither.                                                   *)
Adopt(s, p, at) ==
  LET pr == s.prop[p]
      t == [s EXCEPT !.vers = Append(@, [p |-> p, adopted |-> at]),
                     !.prop[p].st = "adopted", !.prop[p].dirty = FALSE,
                     !.dirty = TRUE]
  IN CASE ~Materializes(pr.shape, pr.pub) -> t
       [] Materializes(pr.shape, pr.pub) /\ pr.shape.eff > at -> Schedule(t, Latest(t))
       [] OTHER -> InForce(t, Latest(t))

-----------------------------------------------------------------------------
(* Mutations a boundary admits.                                             *)

Submit(s, p, sh, at) ==
  IF s.prop[p].st = "none" /\ ~sh.direct /\ ~(sh.dep /\ s.dead)
     /\ MayChange(s, sh, Latest(s))
  THEN {[s EXCEPT !.prop[p] = [st |-> "open", shape |-> sh, head |-> Latest(s), pub |-> NoTime,
                               ready |-> FALSE, dirty |-> TRUE]]}
  ELSE {}

(* A source that needs no procedure is adopted as it is admitted.           *)
AdmitDirect(s, p, sh, at) ==
  IF s.prop[p].st = "none" /\ sh.direct /\ ~(sh.dep /\ s.dead) /\ at >= s.last
     /\ MayChange(s, sh, Latest(s)) /\ AdoptionGuard(sh, NoTime, at) = "ready"
  THEN {Adopt([s EXCEPT !.prop[p] = [st |-> "open", shape |-> sh, head |-> Latest(s),
                                     pub |-> NoTime, ready |-> TRUE, dirty |-> FALSE],
                        !.last = at], p, at)}
  ELSE {}

(* Publicity of an open proposal wakes its procedure; publicity of an       *)
(* adopted one is taken up to its effective time and brings it into force   *)
(* or onto the schedule.                                                    *)
Publish(s, p, at) ==
  LET pr == s.prop[p]
      told == [s EXCEPT !.prop[p].pub = at]
      v == CHOOSE i \in 1..Latest(s) : s.vers[i].p = p
  IN CASE pr.st \notin {"open", "adopted"} \/ pr.shape.policy = "none" \/ pr.pub # NoTime
            \/ at < s.last -> {}
       [] pr.st = "open" /\ pr.shape.policy # "none" /\ pr.pub = NoTime /\ at >= s.last ->
            {[told EXCEPT !.prop[p].dirty = TRUE]}
       [] OTHER ->
            IF pr.shape.policy # "effectiveness" \/ at > pr.shape.eff THEN {}
            ELSE IF pr.shape.eff > at THEN {Schedule(told, v)} ELSE {InForce(told, v)}

(* A culture generation is retired only when nothing live depends on it.    *)
DependencyLive(s) ==
  \/ \E p \in Proposals : s.prop[p].st = "open" /\ s.prop[p].shape.dep
  \/ s.operative # 0 /\ ~s.retired /\ DependsOn(s, s.operative)
  \/ \E v \in s.sched : DependsOn(s, v)

RetireCulture(s) == IF s.dead \/ DependencyLive(s) THEN {} ELSE {[s EXCEPT !.dead = TRUE]}

Vote(s, p, pass) ==
  IF s.prop[p].st = "open" /\ ~s.prop[p].ready
  THEN {[s EXCEPT !.prop[p].ready = pass, !.prop[p].dirty = TRUE,
                  !.prop[p].st = IF pass THEN @ ELSE "rejected"]}
  ELSE {}

-----------------------------------------------------------------------------
(* Settlement of one boundary.                                              *)

(* A dirty procedure that passed: its guards are looked at again.           *)
Advance(s, p, at) ==
  LET pr == s.prop[p]
      guard == AdoptionGuard(pr.shape, pr.pub, at)
      closed == [s EXCEPT !.prop[p].st = "rejected", !.prop[p].dirty = FALSE]
  IN IF pr.st # "open" THEN s
     ELSE IF ~pr.ready \/ guard = "wait" THEN [s EXCEPT !.prop[p].dirty = FALSE]
     ELSE IF guard = "reject" \/ ~MayChange(s, pr.shape, pr.head) THEN closed
     ELSE Adopt(s, p, at)

Work(s) == SetToSortSeq({p \in Proposals : s.prop[p].st = "open" /\ s.prop[p].dirty}, <)

(* Dirty proposals whose host records moved are rejected before the work.   *)
RejectStale(s, stale) ==
  [s EXCEPT !.prop = [p \in Proposals |->
     IF @[p].st = "open" /\ @[p].dirty /\ (p \in stale \/ (@[p].shape.dep /\ s.dead))
     THEN [@[p] EXCEPT !.st = "rejected", !.dirty = FALSE] ELSE @[p]]]

(* Due versions by effective time and ordinal.                              *)
Due(s, at) ==
  SetToSortSeq({v \in s.sched : EffOf(s, v) <= at},
               LAMBDA a, b : \/ EffOf(s, a) < EffOf(s, b)
                             \/ EffOf(s, a) = EffOf(s, b) /\ a < b)

Chosen(s, at) ==
  LET due == Due(s, at)
  IN IF Budgeted /\ due # <<>> THEN {SubSeq(due, 1, k) : k \in 1..Len(due)} ELSE {due}

(* The next due time, strictly later.                                       *)
NextDue(s, at) ==
  LET later == {EffOf(s, v) : v \in s.sched} \ 0..at
  IN IF later = {} THEN {} ELSE {Min(later)}

(* Mutant: work due later has no wake.                                      *)
WakesNow(s, at, deferred) == IF deferred THEN {at} ELSE {}

(* Left-over work wakes at this very time, later work at its own.           *)
Wakes(s, at, deferred) == (IF deferred THEN {at} ELSE {}) \union NextDue(s, at)
Refresh(s) ==
  IF s.dirty THEN [s EXCEPT !.dirty = FALSE, !.shown = IF s.retired THEN 0 ELSE s.operative]
  ELSE s

ApplyDue(s, versions) == FoldLeft(InForce, s, versions)

(* Versions are chosen before procedures are worked on and come into force  *)
(* after.  A chosen version on a retired culture generation is an error     *)
(* that fails the boundary.                                                 *)
Settle(s, stale, chosen, at) ==
  LET fresh == RejectStale(s, stale)
      worked == FoldLeft(LAMBDA t, p : Advance(t, p, at), fresh, Work(fresh))
      applied == Refresh(ApplyDue(worked, chosen))
  IN [applied EXCEPT !.last = at,
        !.wakes = @ \union Wakes(applied, at, Len(chosen) < Len(Due(s, at)))]

Broken(s, chosen) == s.dead /\ \E i \in DOMAIN chosen : DependsOn(s, chosen[i])

-----------------------------------------------------------------------------
Empty ==
  [prop |-> [p \in Proposals |-> [st |-> "none", shape |-> CHOOSE sh \in ShapesOf[p] : TRUE,
                                   head |-> 0, pub |-> NoTime, ready |-> FALSE, dirty |-> FALSE]],
   vers |-> <<>>, operative |-> 0, sched |-> {}, retired |-> FALSE, dirty |-> FALSE,
   shown |-> 0, dead |-> FALSE, last |-> 0, wakes |-> {}]

Init == law = Empty /\ now = 0 /\ failed = FALSE

(* One boundary: its wake, if one is due, the mutation, the settlement.     *)
Boundary(results) ==
  \E s \in results : \E stale \in SUBSET {p \in Proposals : s.prop[p].dirty} :
    \E chosen \in Chosen(s, now) :
      IF Broken(s, chosen)
      THEN failed' = TRUE /\ UNCHANGED <<law, now>>
      ELSE law' = Settle(s, stale, chosen, now) /\ UNCHANGED <<now, failed>>

Woken == [law EXCEPT !.wakes = @ \ {now}]

DoSubmit  == \E p \in Proposals : \E sh \in ShapesOf[p] : Boundary(Submit(Woken, p, sh, now))
DoAdmit   == \E p \in Proposals : \E sh \in ShapesOf[p] : Boundary(AdmitDirect(Woken, p, sh, now))
DoPublish == \E p \in Proposals : Boundary(Publish(Woken, p, now))
DoVote    == \E p \in Proposals, pass \in BOOLEAN : Boundary(Vote(Woken, p, pass))
DoRetire  == Boundary(RetireCulture(Woken))
Wake      == now \in law.wakes /\ Boundary({Woken})

(* Time stops at every pending wake.                                        *)
Tick == /\ now < MaxTime
        /\ \E t \in now + 1..MaxTime : (\A w \in law.wakes : w >= t) /\ now' = t
        /\ UNCHANGED <<law, failed>>

Next == DoSubmit \/ DoAdmit \/ DoPublish \/ DoVote \/ DoRetire \/ Wake \/ Tick
Spec == Init /\ [][Next]_vars
(* advance_canonical settles a due wake before time passes, and the host    *)
(* keeps advancing.                                                         *)
FairSpec == Spec /\ WF_vars(Wake) /\ WF_vars(Tick)

(* What a cold load derives of the rule from its versions and publicity.    *)
Published(v) ==
  /\ ShapeOf(law, v).valid
  /\ CASE ShapeOf(law, v).policy = "none" -> TRUE
       [] ShapeOf(law, v).policy = "validity" ->
            PubOf(law, v) # NoTime /\ PubOf(law, v) <= law.vers[v].adopted
       [] OTHER -> PubOf(law, v) # NoTime /\ PubOf(law, v) <= EffOf(law, v)
                   /\ PubOf(law, v) <= law.last
Derived ==
  LET past == {v \in 1..Latest(law) : Published(v) /\ EffOf(law, v) <= law.last}
      inForce == IF past = {} THEN 0
                 ELSE CHOOSE v \in past : \A u \in past :
                        \/ EffOf(law, u) < EffOf(law, v)
                        \/ EffOf(law, u) = EffOf(law, v) /\ u <= v
  IN [operative |-> inForce,
      sched |-> {v \in 1..Latest(law) : Published(v) /\ EffOf(law, v) > law.last},
      retired |-> inForce # 0 /\ Retires(ShapeOf(law, inForce).op)]

-----------------------------------------------------------------------------
TypeOK ==
  /\ now \in 0..MaxTime /\ failed \in BOOLEAN
  /\ \A p \in Proposals :
       /\ law.prop[p].st \in {"none", "open", "adopted", "rejected"}
       /\ law.prop[p].shape \in Shape /\ law.prop[p].pub \in {NoTime} \union 0..MaxTime
       /\ (law.prop[p].st = "adopted") = (\E v \in 1..Latest(law) : law.vers[v].p = p)
  /\ law.vers \in Seq(Version) /\ law.operative \in 0..Latest(law) /\ law.sched \subseteq 1..Latest(law)
  /\ law.wakes \subseteq now..MaxTime

(* Versions take effect in the order of their ordinals: a proposal that     *)
(* passed against an older head is never adopted behind a newer one.        *)
HeadsInOrder ==
  \A v \in 1..Latest(law) - 1 :
    /\ EffOf(law, v) <= EffOf(law, v + 1)
    /\ law.prop[law.vers[v + 1].p].head = v

(* A version on the schedule has a wake that brings a boundary to it.       *)
DueWillWake ==
  \A v \in law.sched : \E w \in law.wakes : w <= EffOf(law, v) \/ w = now

(* Between boundaries the projection readers see is that of the version in force. *)
ShownFollows == law.shown = IF law.retired THEN 0 ELSE law.operative

(* No version in force or scheduled depends on a retired culture generation. *)
NoDeadCulture ==
  law.dead => /\ law.operative # 0 /\ ~law.retired => ~DependsOn(law, law.operative)
              /\ \A v \in law.sched : ~DependsOn(law, v)

(* Settlement never fails on its own ledger.                                *)
NeverFails == ~failed

(* The ledger holds of the rule what a cold load derives of it: otherwise   *)
(* the persisted ledger is refused.                                         *)
LoadsAgain == [operative |-> law.operative, sched |-> law.sched, retired |-> law.retired] = Derived

=============================================================================
