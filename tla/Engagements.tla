----------------------------- MODULE Engagements -----------------------------
(***************************************************************************)
(* The engagement engine of the military extension: forces, the fights they *)
(* are in, sieges that advance by the day and open fights of their own, and *)
(* crossings that send their force over in waves.  Commands and step        *)
(* packets are ingress: a boundary applies its commands in order, each to   *)
(* what the earlier ones staged and refused alone, then makes one pass over *)
(* the work due.  What a step does to the sides is the resolver's choice.   *)
(***************************************************************************)
EXTENDS Integers, Sequences, FiniteSets, FiniteSetsExt, SequencesExt, TLC

CONSTANTS
  Owner, Men, Home,  \* of each force, by its number: its owner, strength and site
  MaxSieges, MaxCrossings, MaxFights, \* bounds on the identifiers
  Commands,          \* the commands the host issues
  Blows,             \* what a step may do: the losses and the decision of each side
  Limits,            \* of the rulebook: open fights, sieges, crossings; forces of a side; progress reports
  Minutes,           \* of the rulebook: a step, day, wave, the longest fight, retirement, cooldown
  MaxSteps,          \* max_steps_per_boundary
  EmplaceDays, BreachDays, \* days to emplace the guns and to breach the wall
  WaveMen,           \* men of a wave
  Prompt,            \* time waits for the work that is due
  Budgets,           \* the reports a boundary may have room for
  MaxCommands, MaxBatch, MaxTime \* bounds on the commands of a run, of a boundary, and on time

Forces == DOMAIN Men
Fights == 1..MaxFights
Sieges == 1..MaxSieges
Crossings == 1..MaxCrossings
Never == -1
NoLosses == [f \in Forces |-> 0]

EngagementsAssumption ==
  /\ DOMAIN Owner = Forces /\ DOMAIN Home = Forces /\ Forces = 1..Len(Men)
  /\ \A f \in Forces : Men[f] \in Nat
  /\ {MaxSieges, MaxCrossings, MaxFights, MaxCommands, MaxTime, EmplaceDays, BreachDays} \subseteq Nat
  /\ {MaxSteps, WaveMen, MaxBatch, Limits.fights, Limits.sieges, Limits.crossings, Limits.reports,
      Limits.side, Minutes.step, Minutes.day, Minutes.wave, Minutes.fight} \subseteq Nat \ {0}
  /\ {Minutes.retire, Minutes.cooldown} \subseteq Nat
  /\ Prompt \in BOOLEAN /\ Budgets \subseteq Nat

VARIABLES
  w,     \* the records of the plugin and what the boundary has staged
  queue, \* the commands and step packets the next boundary admits
  woke,  \* the last time the wake's own boundary ran
  now, sent
vars == <<w, queue, woke, now, sent>>

NoFight == [kind |-> "none", site |-> "", siege |-> 0, crossing |-> 0, att |-> {}, def |-> {},
            cap |-> <<Never, Never>>, opened |-> 0, last |-> 0, next |-> 0, minutes |-> 0, st |-> "none", closed |-> Never,
            withdraw |-> {}, lost |-> <<0, 0>>, steps |-> "none"]
NoSiege == [st |-> "none", site |-> "", besiegers |-> {}, defenders |-> {}, fight |-> 0, next |-> 0,
            assault |-> FALSE, sortie |-> FALSE, storm |-> FALSE, gate |-> Never, guns |-> Never,
            fire |-> Never, breach |-> 0]
NoCrossing == [st |-> "none", force |-> 0, from |-> "", to |-> "", defenders |-> {}, by |-> 0, fight |-> 0,
               landed |-> 0, next |-> 0, closed |-> FALSE]

Init ==
  /\ w = [force |-> [f \in Forces |->
             [st |-> "active", at |-> Home[f], men |-> Men[f], lost |-> 0, gone |-> 0, fight |-> 0,
              siege |-> 0, crossing |-> 0, fought |-> Never, recovered |-> Never, ready |-> Never]],
          fight |-> [n \in Fights |-> NoFight], siege |-> [g \in Sieges |-> NoSiege],
          crossing |-> [c \in Crossings |-> NoCrossing],
          fights |-> {}, sieges |-> {}, crossings |-> {}, retire |-> {}, empty |-> {}, due |-> Never,
          reports |-> <<>>, count |-> Cardinality(Forces), seq |-> 1,
          staged |-> {}, new |-> {}, touched |-> {}, delta |-> NoLosses, signals |-> {},
          stood |-> {}, credit |-> {}]
  /\ queue = <<>> /\ woke = Never /\ now = 0 /\ sent = 0

-----------------------------------------------------------------------------
(* Forces.                                                                  *)
InOrder(S) == SetToSortSeq(S, <)
Alive(s, f) == s.force[f].st = "active"
Free(s, f) == s.force[f].fight = 0 /\ s.force[f].siege = 0 /\ s.force[f].crossing = 0
SumOver(S, v(_)) == MapThenSumSet(v, S)
MenOf(s, S) == SumOver(S, LAMBDA f : s.force[f].men)
Present(s, S, site) == {f \in S : Alive(s, f) /\ s.force[f].men > 0 /\ s.force[f].at = site}
Fighting(s, S) == {f \in S : Alive(s, f) /\ s.force[f].men > 0}
Owners(S) == {Owner[f] : f \in S}
Put(s, key) == [s EXCEPT !.staged = @ \cup {key}]

(* Cohesion and shock are credited for the full days without a fight.       *)
Recover(s, f, t) ==
  LET from == Max({s.force[f].fought, s.force[f].recovered})
      days == (t - from) \div Minutes.day
  IN IF from = Never \/ t < from \/ days = 0 THEN s
     ELSE [s EXCEPT !.force[f].recovered = from + days * Minutes.day,
                    !.credit = @ \cup {<<f, from, from + days * Minutes.day>>}]

(* The forces take the field of a fight.                                    *)
Enter(s, id, S, t) ==
  FoldLeft(LAMBDA x, f : [Recover(x, f, t) EXCEPT !.force[f].fight = id], s, InOrder(S))

(* A total split over weights: the floor of each share, and the units left  *)
(* to the largest remainders, ties to the lower number.                     *)
Floors(total, weight, W) == [f \in DOMAIN weight |-> (total * weight[f]) \div W]
Remainders(total, weight, W) == [f \in DOMAIN weight |-> (total * weight[f]) % W]
Topped(share, rem, left) ==
  [f \in DOMAIN share |->
     share[f] + (IF Cardinality({g \in DOMAIN rem : rem[g] > rem[f] \/ (rem[g] = rem[f] /\ g < f)})
                      < left - SumOver(DOMAIN share, LAMBDA g : share[g])
                 THEN 1 ELSE 0)]
Divided(total, weight, W) ==
  IF W = 0 THEN [f \in DOMAIN weight |-> 0]
  ELSE Topped(Floors(total, weight, W), Remainders(total, weight, W), total)
LargestRemainder(total, weight) ==
  Divided(total, weight, SumOver(DOMAIN weight, LAMBDA f : weight[f]))

(* The men of a side that fight, at most its cap.                           *)
Parts(s, S, cap) ==
  LET present == [f \in Fighting(s, S) |-> s.force[f].men]
      total == MenOf(s, Fighting(s, S))
  IN IF cap # Never /\ cap < total THEN LargestRemainder(cap, present) ELSE present
PartsMen(p) == SumOver(DOMAIN p, LAMBDA f : p[f])

(* A force stood in a step and lost so many of its men.                     *)
Stood(s, f, lost, t) ==
  [s EXCEPT !.force[f].men = @ - Min({@, lost}), !.force[f].lost = @ + lost, !.force[f].fought = t,
            !.delta[f] = @ + lost, !.stood = @ \cup {<<f, t>>}]

(* A side's losses in a step fall on its forces.                            *)
AllStood(s, S, share, t) ==
  FoldLeft(LAMBDA x, f : Stood(x, f, IF f \in DOMAIN share THEN share[f] ELSE 0, t), s, InOrder(S))
Allocate(s, id, side, n, t) ==
  LET S == IF side = 1 THEN s.fight[id].att ELSE s.fight[id].def
  IN [AllStood(s, S, LargestRemainder(n, Parts(s, S, s.fight[id].cap[side])), t)
      EXCEPT !.fight[id].lost[side] = @ + n]

-----------------------------------------------------------------------------
(* The registry: what is open, what is to be retired, the report queue.     *)
QueueRetire(s, key, t) == [s EXCEPT !.retire = @ \cup {<<t, key>>}]

Bound == Limits.reports + Limits.fights + Limits.sieges + Limits.crossings
First(q, P(_)) == SelectInSeq(q, P)
Without(q, i) == IF i = 0 THEN q ELSE RemoveAt(q, i)

(* A closing report drops progress reports, then older closing reports, to  *)
(* stay within the bound; a progress report replaces its subject's and the  *)
(* oldest above the cap.                                                    *)
OldestProgress(q) == First(q, LAMBDA r : ~r.closing)
WithClosing(q) ==
  FoldLeft(LAMBDA r, x : IF Len(r) > Bound THEN Without(r, Max({OldestProgress(r), 1})) ELSE r, q, q)
RoomForProgress(q) ==
  IF Len(SelectSeq(q, LAMBDA r : ~r.closing)) >= Limits.reports THEN Without(q, OldestProgress(q)) ELSE q
QueueReport(s, subject, closing) ==
  [s EXCEPT !.reports =
     IF closing THEN WithClosing(Append(@, [of |-> subject, closing |-> TRUE]))
     ELSE Append(RoomForProgress(SelectSeq(@, LAMBDA r : r.closing \/ r.of # subject)),
                 [of |-> subject, closing |-> FALSE])]

(* The earliest time some work falls due, of the records the registry names. *)
Refreshed(s, t) ==
  LET times == {s.fight[n].next : n \in {m \in s.fights : s.fight[m].st = "open"}}
               \cup {s.siege[g].next : g \in s.sieges} \cup {s.crossing[c].next : c \in s.crossings}
               \cup {r[1] : r \in s.retire} \cup (IF s.empty = {} THEN {} ELSE {t})
  IN [s EXCEPT !.due = IF times = {} THEN Never ELSE Min(times)]

Subject(s, key) ==
  CASE key[1] = "fight" -> s.fight[key[2]].st [] key[1] = "steps" -> s.fight[key[2]].steps
    [] key[1] = "siege" -> s.siege[key[2]].st [] key[1] = "crossing" -> s.crossing[key[2]].st
    [] key[1] = "force" -> s.force[key[2]].st

Retired(s, key) ==
  CASE key[1] = "fight" -> [s EXCEPT !.fight[key[2]].st = "retired"]
    [] key[1] = "steps" -> [s EXCEPT !.fight[key[2]].steps = "retired"]
    [] key[1] = "siege" -> [s EXCEPT !.siege[key[2]].st = "retired"]
    [] key[1] = "crossing" -> [s EXCEPT !.crossing[key[2]].st = "retired"]
    [] key[1] = "force" -> [s EXCEPT !.force[key[2]].st = "gone"]

(* The steps of closed fights are emptied, but for those the boundary wrote. *)
Emptied(s) ==
  LET ns == {n \in s.empty : <<"steps", n>> \notin s.staged}
      clear(x, n) == IF x.fight[n].steps # "full" THEN x
                     ELSE [x EXCEPT !.fight[n].steps = "empty", !.staged = @ \cup {<<"steps", n>>}]
  IN [FoldLeft(clear, s, InOrder(ns)) EXCEPT !.empty = @ \ ns]

(* What is due is retired; a record the boundary has written waits for a    *)
(* later pass.                                                              *)
Upkeep(s, up) ==
  LET clean == Emptied(s)
      due == {r \in s.retire : r[1] <= up /\ r[2] \notin clean.staged}
  IN [FoldLeft(LAMBDA x, r : Retired(x, r[2]), clean, SetToSeq(due)) EXCEPT !.retire = @ \ due]

-----------------------------------------------------------------------------
(* Fights.  A specification of one: who attacks and who defends, where it   *)
(* comes from, the men it is capped to, when it opened.                     *)
Opening(kind, site, siege, crossing, att, def, cap, opened) ==
  [kind |-> kind, site |-> site, siege |-> siege, crossing |-> crossing, att |-> att, def |-> def,
   cap |-> cap, opened |-> opened]

OpenFight(s, id, o) ==
  LET entered == Enter(s, id, o.att \cup o.def, o.opened)
  IN [entered EXCEPT
        !.fight[id] = o @@ [NoFight EXCEPT !.last = o.opened, !.next = o.opened + Minutes.step,
                              !.minutes = Minutes.step, !.st = "open", !.steps = "empty"],
        !.fights = @ \cup {id}, !.new = @ \cup {<<"fight", id>>},
        !.staged = @ \cup {<<"fight", id>>, <<"steps", id>>}]

JoinSide(s, id, side, S, t) ==
  LET entered == Enter(s, id, S, t)
  IN Put([entered EXCEPT !.fight[id].att = IF side = 1 THEN @ \cup S ELSE @,
                         !.fight[id].def = IF side = 2 THEN @ \cup S ELSE @], <<"fight", id>>)

HasCapacity(s) == Cardinality(s.fights) < Limits.fights

(* The next identifier the plugin derives: eight tries.                     *)
DeriveId(s) ==
  LET open == {n \in s.seq..(s.seq + 7) : n \in Fights /\ s.fight[n].st = "none"}
  IN IF open = {} THEN 0 ELSE Min(open)
Derived(s, id) == [s EXCEPT !.seq = id + 1]

(* A siege ends: its forces are released, and a fall disperses the          *)
(* defenders still at the site.                                             *)
LeaveSiege(s, g) ==
  FoldLeft(LAMBDA x, f : [x EXCEPT !.force[f].siege = IF @ = g THEN 0 ELSE @], s,
           InOrder(s.siege[g].besiegers \cup s.siege[g].defenders))
Dispersed(s, S) ==
  FoldLeft(LAMBDA x, f : [x EXCEPT !.delta[f] = @ + x.force[f].men, !.force[f].men = 0,
                                   !.force[f].gone = @ + x.force[f].men], s, InOrder(S))
Fallen(s, g) == {f \in s.siege[g].defenders : Alive(s, f) /\ s.force[f].at = s.siege[g].site}
EndSiege(s, g, status, t) ==
  LET freed == [Dispersed(LeaveSiege(s, g), IF status = "fell" THEN Fallen(s, g) ELSE {}) EXCEPT
        !.siege[g].st = status, !.siege[g].assault = FALSE, !.siege[g].sortie = FALSE,
        !.sieges = @ \ {g}]
  IN Put(QueueReport(QueueRetire(freed, <<"siege", g>>, t + Minutes.retire), <<"siege", g>>, TRUE),
         <<"siege", g>>)

(* What a closed fight does to its siege.                                   *)
SiegeAfterFight(s, g, id, end) ==
  LET k == s.fight[id].kind
      freed == Put(IF s.siege[g].fight = id THEN [s EXCEPT !.siege[g].fight = 0] ELSE s, <<"siege", g>>)
      falls == k = "assault" /\ end.won = 1
      lifts == \/ k = "assault" /\ end.won = 2 /\ 1 \in end.routed
               \/ k = "sortie" /\ end.won = 1 /\ 2 \in end.routed
               \/ k = "relief" /\ end.won = 1
  IN IF s.siege[g].st # "open" THEN s
     ELSE IF falls \/ lifts THEN EndSiege(freed, g, IF falls THEN "fell" ELSE "lifted", end.at)
     ELSE IF k = "sortie" /\ end.won = 1
          THEN [freed EXCEPT !.siege[g].fire = Never, !.siege[g].guns = end.at]
     ELSE freed

(* What it does to its crossing: the next wave is due from its close.       *)
CrossingAfterFight(s, c, id, end) ==
  IF s.crossing[c].st = "retired" \/ s.crossing[c].fight # id THEN s
  ELSE Put([s EXCEPT !.crossing[c].fight = 0, !.crossing[c].next = Max({@, end.at})], <<"crossing", c>>)

(* The forces of a fight are free of it.                                    *)
OutOf(s, id) ==
  FoldLeft(LAMBDA x, f : [x EXCEPT !.force[f].fight = 0], s, InOrder({f \in Forces : s.force[f].fight = id}))

(* A fight closes: its forces are freed, its records are to be retired, the *)
(* siege or crossing it is part of moves on, and the host is signalled the  *)
(* losses of the boundary.                                                  *)
Closed(s, id, at) ==
  [OutOf(s, id) EXCEPT
     !.fight[id].st = "closed", !.fight[id].closed = at, !.fights = @ \ {id}, !.empty = @ \cup {id},
     !.retire = @ \cup {<<at + Minutes.retire, <<"fight", id>>>>, <<at + Minutes.retire, <<"steps", id>>>>}]
Signalled(s, id, S) ==
  [s EXCEPT !.signals = @ \cup {[of |-> id, losses |-> [f \in S |-> s.delta[f]]]}]
AfterFight(s, id, end) ==
  LET v == s.fight[id]
  IN IF v.siege # 0 THEN SiegeAfterFight(s, v.siege, id, end)
     ELSE IF v.crossing # 0 THEN CrossingAfterFight(s, v.crossing, id, end) ELSE s
CloseFight(s, id, end) ==
  Signalled(AfterFight(Put(QueueReport(Closed(s, id, end.at), <<"fight", id>>, TRUE), <<"fight", id>>),
                       id, end),
            id, s.fight[id].att \cup s.fight[id].def)

(* A wall that holds: the defenders of an unopened fort do not break.       *)
Walled(s, id) ==
  LET v == s.fight[id]
  IN v.kind = "assault" /\ v.siege # 0 /\ s.siege[v.siege].breach < BreachDays
     /\ s.siege[v.siege].gate <= v.last + v.minutes

(* A side's decision: the break rule, unless a wall holds it, then its      *)
(* orders.                                                                  *)
Decision(s, id, side, broke) ==
  LET held == IF side = 2 /\ Walled(s, id) THEN "continue" ELSE broke
  IN IF held = "continue" /\ side \in s.fight[id].withdraw THEN "withdraw" ELSE held

(* One step: the outcomes of the state so far, each with how the fight went *)
(* on: "on", "held" or closed.                                              *)
Stepped(s, id, t) ==
  [s EXCEPT !.fight[id].last = t, !.fight[id].steps = "full", !.staged = @ \cup {<<"steps", id>>}]
Went(s, did) ==
  [s |-> s, went |-> IF did = <<"continue", "continue">> THEN "on" ELSE "closed",
   won |-> IF did[1] # "continue" THEN 2 ELSE 1, routed |-> {i \in 1..2 : did[i] = "rout"}]
Struck(s, id, t, men, b) ==
  Went(Stepped(Allocate(Allocate(s, id, 1, Min({b.loss[1], men[1]}), t),
                        id, 2, Min({b.loss[2], men[2]}), t), id, t),
       <<Decision(s, id, 1, b.broke[1]), Decision(s, id, 2, b.broke[2])>>)
Steps(s, id, t, men) ==
  LET ended(won) == {[s |-> s, went |-> "closed", won |-> won, routed |-> {3 - won}]}
      failed == {[s |-> IF drew THEN Stepped(s, id, t) ELSE s, went |-> "held", won |-> 0, routed |-> {}] :
                   drew \in {b.drew : b \in {x \in Blows : x.fails}}}
  IN IF men[1] = 0 THEN ended(2) ELSE IF men[2] = 0 THEN ended(1)
     ELSE {Struck(s, id, t, men, b) : b \in {x \in Blows : ~x.fails}} \cup failed
OneStep(s, id, t) ==
  LET v == s.fight[id]
  IN Steps(s, id, t, <<PartsMen(Parts(s, v.att, v.cap[1])), PartsMen(Parts(s, v.def, v.cap[2]))>>)

(* The next step of a fight that went on; the longest fight stalls.         *)
NextStep(o, id) ==
  LET t == o.s.fight[id].last + o.s.fight[id].minutes
      stalls(n) == n.went = "on" /\ t - n.s.fight[id].opened >= Minutes.fight
  IN IF o.went # "on" THEN {o}
     ELSE {[s |-> [n.s EXCEPT !.fight[id].st = IF n.went = "held" THEN "held" ELSE @],
            went |-> IF stalls(n) THEN "closed" ELSE n.went,
            won |-> IF stalls(n) THEN 0 ELSE n.won, routed |-> n.routed, at |-> t] :
             n \in OneStep(o.s, id, t)}

StepFight(s, id, up) ==
  LET v == s.fight[id]
      count == Min({(up - v.last) \div v.minutes, MaxSteps})
      start == [s |-> s, went |-> "on", won |-> 0, routed |-> {}, at |-> v.last]
      due(x) == Put([x EXCEPT !.fight[id].next = x.fight[id].last + v.minutes], <<"fight", id>>)
  IN IF v.st # "open" \/ v.next > up \/ <<"fight", id>> \in s.new THEN {s}
     ELSE {IF o.went = "closed"
           THEN CloseFight(due(o.s), id, [won |-> o.won, routed |-> o.routed, at |-> o.at])
           ELSE QueueReport(due(o.s), <<"fight", id>>, FALSE) :
             o \in FoldLeft(LAMBDA S, i : UNION {NextStep(o, id) : o \in S}, {start}, [i \in 1..count |-> i])}

-----------------------------------------------------------------------------
(* Sieges.  The guns are emplaced, fire and breach the wall.                *)
Bombard(v, men, day) ==
  LET guns == IF men > 0 /\ v.guns = Never THEN day ELSE v.guns
      emplaced == guns # Never /\ day >= guns + EmplaceDays * Minutes.day
      fire == IF emplaced /\ v.fire = Never THEN day ELSE v.fire
  IN [v EXCEPT !.guns = guns, !.fire = fire,
               !.breach = IF fire # Never /\ men > 0 THEN Min({@ + 1, BreachDays}) ELSE @]

Storms(v, day) == v.assault \/ (v.storm /\ (v.breach >= BreachDays \/ v.gate > day))

(* The siege opens its assault or its sortie, when there is room for one.   *)
SiegeFight(s, g, kind, besiegers, defenders, day) ==
  LET id == DeriveId(s)
      sides == IF kind = "assault" THEN <<besiegers, defenders>> ELSE <<defenders, besiegers>>
      tired(x, f) == [x EXCEPT !.force[f].ready = day + Minutes.cooldown]
      rest(x) == FoldLeft(tired, x, InOrder(IF kind = "sortie" THEN defenders ELSE {}))
      opened == OpenFight(Derived(s, id), id,
                          Opening(kind, s.siege[g].site, g, 0, sides[1], sides[2], <<Never, Never>>, day))
  IN IF ~HasCapacity(s) \/ id = 0 THEN s
     ELSE rest([opened EXCEPT !.siege[g].fight = id, !.siege[g].assault = @ /\ kind # "assault",
                              !.siege[g].sortie = @ /\ kind # "sortie"])

(* One day of a siege: it ends with no one to hold or to press it, its guns *)
(* work, and it storms or sorties when every force present is free to.      *)
Pressed(s, g, besiegers, defenders, day) ==
  LET v == s.siege[g]
      free == v.fight = 0 /\ \A f \in besiegers \cup defenders : s.force[f].fight = 0
  IN IF free /\ (Storms(v, day) \/ v.sortie)
     THEN SiegeFight(s, g, IF Storms(v, day) THEN "assault" ELSE "sortie", besiegers, defenders, day)
     ELSE s
DayOf(s, g, besiegers, defenders, day) ==
  IF s.siege[g].fight = 0 /\ (defenders = {} \/ besiegers = {})
  THEN EndSiege(s, g, IF defenders = {} THEN "fell" ELSE "lifted", day)
  ELSE Pressed([s EXCEPT !.siege[g] = Bombard(@, MenOf(s, besiegers), day)], g, besiegers, defenders, day)
SiegeDay(s, g, day) ==
  DayOf(s, g, Fighting(s, s.siege[g].besiegers), Present(s, s.siege[g].defenders, s.siege[g].site), day)

NextDay(s, g) == IF s.siege[g].st = "open" THEN [s EXCEPT !.siege[g].next = @ + Minutes.day] ELSE s
SiegeTold(s, g) ==
  IF s.siege[g].st = "open" THEN QueueReport(Put(s, <<"siege", g>>), <<"siege", g>>, FALSE) ELSE s
AdvanceSiege(s, g, up) ==
  LET due(x) == x.siege[g].st = "open" /\ x.siege[g].next <= up
  IN IF ~due(s) THEN s
     ELSE SiegeTold(FoldLeft(LAMBDA x, i : IF due(x) THEN NextDay(SiegeDay(x, g, x.siege[g].next), g) ELSE x,
                             s, [i \in 1..MaxTime |-> i]), g)

-----------------------------------------------------------------------------
(* Crossings.                                                               *)
FinishCrossing(s, c, t) ==
  LET f == s.crossing[c].force
      done == [s EXCEPT !.crossing[c].st = "closed", !.crossing[c].closed = TRUE,
                        !.force[f].crossing = IF @ = c THEN 0 ELSE @, !.crossings = @ \ {c}]
  IN Put(QueueReport(QueueRetire(done, <<"crossing", c>>, t + Minutes.retire), <<"crossing", c>>, TRUE),
         <<"crossing", c>>)

(* A ferry fight in mid-stream, or a landing the defenders of the bank may  *)
(* resist.                                                                  *)
Ferry(s, c, wave, t) ==
  LET v == s.crossing[c] id == DeriveId(s)
  IN IF id = 0 THEN s
     ELSE [OpenFight(Derived(s, id), id,
                     Opening("ferry", v.from, 0, c, {v.by}, {v.force}, <<Never, wave>>, t))
           EXCEPT !.crossing[c].fight = id]

Land(s, c, wave, t, possible) ==
  LET v == s.crossing[c]
      men == s.force[v.force].men
      landed == [s EXCEPT !.crossing[c].landed = Min({@ + wave, men})]
      bank == {f \in Present(s, v.defenders, v.to) : Free(s, f)}
      id == DeriveId(s)
      met == IF bank = {} \/ ~possible \/ id = 0 THEN landed
             ELSE [OpenFight(Derived(landed, id), id,
                             Opening("bridgehead", v.to, 0, c, {v.force}, bank,
                                     <<landed.crossing[c].landed, Never>>, t))
                   EXCEPT !.crossing[c].fight = id]
  IN met

(* One wave: the outcomes, each with whether the wave went.  It waits for   *)
(* the fight of the crossing; an interceptor that is free may meet it.      *)
Wave(s, c, t) ==
  LET v == s.crossing[c]
      men == s.force[v.force].men
      wave == Min({men - v.landed, WaveMen})
      possible == HasCapacity(s) /\ s.force[v.force].fight = 0
      met == /\ possible /\ v.by # 0 /\ v.by # v.force /\ v.by \in Fighting(s, {v.by})
             /\ s.force[v.by].fight = 0
      whole(x) == IF x.crossing[c].landed >= men THEN FinishCrossing(x, c, t) ELSE x
  IN IF v.fight # 0 THEN {[s |-> s, went |-> FALSE]}
     ELSE IF ~Alive(s, v.force) \/ men <= v.landed THEN {[s |-> FinishCrossing(s, c, t), went |-> TRUE]}
     ELSE {[s |-> whole(Land(s, c, wave, t, possible)), went |-> TRUE]}
          \cup {[s |-> whole(Ferry(s, c, wave, t)), went |-> TRUE] : x \in {y \in {1} : met}}

(* The wave due, and when the next one is.                                  *)
NextWave(s, c, up) ==
  IF s.crossing[c].st # "open" \/ s.crossing[c].next > up THEN {s}
  ELSE LET t == s.crossing[c].next
       IN {IF o.went /\ o.s.crossing[c].st = "open"
           THEN [o.s EXCEPT !.crossing[c].next = t + Minutes.wave] ELSE o.s : o \in Wave(s, c, t)}

AdvanceCrossing(s, c, up) ==
  LET told(x) == IF x.crossing[c].st = "open" /\ x.crossing[c].next # s.crossing[c].next
                 THEN QueueReport(Put(x, <<"crossing", c>>), <<"crossing", c>>, FALSE) ELSE x
  IN IF <<"crossing", c>> \in s.new THEN {s}
     ELSE {told(x) : x \in FoldLeft(LAMBDA S, i : UNION {NextWave(y, c, up) : y \in S}, {s},
                                    [i \in 1..MaxTime |-> i])}

-----------------------------------------------------------------------------
(* One pass over the work due: upkeep, then the fights, the sieges and the  *)
(* crossings the registry named when the pass began.                        *)
StepFights(S, ns, up) == FoldLeft(LAMBDA T, n : UNION {StepFight(x, n, up) : x \in T}, S, InOrder(ns))
AdvanceSieges(S, gs, up) == {FoldLeft(LAMBDA x, g : AdvanceSiege(x, g, up), y, InOrder(gs)) : y \in S}
AdvanceCrossings(S, cs, up) ==
  FoldLeft(LAMBDA T, c : UNION {AdvanceCrossing(x, c, up) : x \in T}, S, InOrder(cs))
Worked(s, up) ==
  AdvanceCrossings(AdvanceSieges(StepFights({s}, s.fights, up), s.sieges, up), s.crossings, up)
Pass(s, up) == Worked(Upkeep(s, up), up)

-----------------------------------------------------------------------------
(* Commands.  Each names what it changes; one that names a record an        *)
(* earlier command of the boundary revised is stale.                        *)
At(s, S, site) == \A f \in S : Alive(s, f) /\ s.force[f].at = site
Ready(s, S, site) == At(s, S, site) /\ \A f \in S : Free(s, f)
OneOwner(S) == Cardinality(Owners(S)) <= 1
Revised(s, key) == [s EXCEPT !.touched = @ \cup {key}, !.staged = @ \cup {key}]
Running(s, id) == s.fight[id].st \in {"open", "held"}

SideFits(forces) == Cardinality(forces) <= Limits.side

(* A fight the host opens; a relief is fought against besiegers of a siege. *)
CanOpen(s, c) ==
  LET besieged == {s.force[f].siege : f \in c.def}
  IN /\ HasCapacity(s) /\ s.fight[c.id].st = "none" /\ c.att # {} /\ c.def # {}
     /\ Ready(s, c.att, c.site) /\ At(s, c.def, c.site) /\ OneOwner(c.att) /\ OneOwner(c.def)
     /\ c.att \cap c.def = {} /\ SideFits(c.att) /\ SideFits(c.def)
     /\ IF c.kind = "relief"
        THEN /\ Cardinality(besieged) = 1
             /\ \A f \in c.def : /\ s.force[f].siege # 0 /\ f \in s.siege[s.force[f].siege].besiegers
                                 /\ s.force[f].fight = 0 /\ s.force[f].crossing = 0
        ELSE Ready(s, c.def, c.site)
Open(s, c) ==
  LET g == IF c.kind = "relief" THEN s.force[CHOOSE f \in c.def : TRUE].siege ELSE 0
  IN OpenFight(s, c.id, Opening(c.kind, c.site, g, 0, c.att, c.def, <<Never, Never>>, c.now))

FightSide(s, id, side) == IF side = 1 THEN s.fight[id].att ELSE s.fight[id].def

CanJoin(s, c) ==
  /\ Running(s, c.id) /\ <<"fight", c.id>> \notin s.touched
  /\ Ready(s, {c.f}, s.fight[c.id].site) /\ Owner[c.f] = Owner[Min(FightSide(s, c.id, c.side))]
  /\ SideFits(FightSide(s, c.id, c.side) \cup {c.f})
Join(s, c) == Revised(JoinSide(s, c.id, c.side, {c.f}, c.now), <<"fight", c.id>>)

SiegeSide(s, g, side) == IF side = 1 THEN s.siege[g].besiegers ELSE s.siege[g].defenders
(* The side of its fight: the besiegers are the defenders of a sortie.      *)
SideInFight(s, c) == IF s.fight[s.siege[c.g].fight].kind = "sortie" THEN 3 - c.side ELSE c.side

(* Forces join a siege and, on its side, the assault or sortie under way.   *)
CanJoinSiege(s, c) ==
  /\ s.siege[c.g].st = "open" /\ <<"siege", c.g>> \notin s.touched
  /\ Ready(s, {c.f}, s.siege[c.g].site) /\ c.f \notin s.siege[c.g].besiegers \cup s.siege[c.g].defenders
  /\ Owners(SiegeSide(s, c.g, c.side)) \subseteq {Owner[c.f]}
  /\ Owner[c.f] \notin Owners(SiegeSide(s, c.g, 3 - c.side))
  /\ SideFits(SiegeSide(s, c.g, c.side) \cup {c.f})
  /\ LET id == s.siege[c.g].fight
     IN id # 0 /\ Running(s, id) => SideFits(FightSide(s, id, SideInFight(s, c)) \cup {c.f})
(* Mutant: a force joins the side of the same name of a sortie.             *)
JoinSiegeSameSide(s, c) ==
  LET id == s.siege[c.g].fight
      taken == [s EXCEPT !.force[c.f].siege = c.g,
                         !.siege[c.g].besiegers = IF c.side = 1 THEN @ \cup {c.f} ELSE @,
                         !.siege[c.g].defenders = IF c.side = 2 THEN @ \cup {c.f} ELSE @]
  IN Revised(IF id = 0 \/ ~Running(s, id) THEN taken
             ELSE Revised(JoinSide(taken, id, c.side, {c.f}, c.now), <<"fight", id>>), <<"siege", c.g>>)
JoinSiege(s, c) ==
  LET id == s.siege[c.g].fight
      taken == [s EXCEPT !.force[c.f].siege = c.g,
                         !.siege[c.g].besiegers = IF c.side = 1 THEN @ \cup {c.f} ELSE @,
                         !.siege[c.g].defenders = IF c.side = 2 THEN @ \cup {c.f} ELSE @]
  IN Revised(IF id = 0 \/ ~Running(s, id) THEN taken
             ELSE Revised(JoinSide(taken, id, SideInFight(s, c), {c.f}, c.now), <<"fight", id>>), <<"siege", c.g>>)

CanInvest(s, c) ==
  /\ Cardinality(s.sieges) < Limits.sieges /\ s.siege[c.g].st = "none" /\ c.att # {}
  /\ Ready(s, c.att \cup c.def, c.site) /\ OneOwner(c.att) /\ OneOwner(c.def)
  /\ Owners(c.att) \cap Owners(c.def) = {} /\ SideFits(c.att) /\ SideFits(c.def)
Invest(s, c) ==
  [FoldLeft(LAMBDA x, f : [x EXCEPT !.force[f].siege = c.g], s, InOrder(c.att \cup c.def)) EXCEPT
            !.siege[c.g] = [NoSiege EXCEPT !.st = "open", !.site = c.site, !.besiegers = c.att,
                              !.defenders = c.def, !.next = c.now + Minutes.day, !.storm = c.storm],
            !.sieges = @ \cup {c.g}, !.staged = @ \cup {<<"siege", c.g>>}]

(* A force in no fight is released from its siege.                          *)
CanRelease(s, c) ==
  /\ s.siege[c.g].st = "open" /\ <<"siege", c.g>> \notin s.touched
  /\ c.f \in s.siege[c.g].besiegers \cup s.siege[c.g].defenders /\ s.siege[c.g].besiegers # {c.f}
  /\ Alive(s, c.f) /\ s.force[c.f].fight = 0
Release(s, c) ==
  Revised([s EXCEPT !.force[c.f].siege = 0, !.siege[c.g].besiegers = @ \ {c.f},
                    !.siege[c.g].defenders = @ \ {c.f}], <<"siege", c.g>>)

(* The orders of a siege: storm, sortie, the gate opened for some steps.    *)
CanOrderSiege(s, c) ==
  /\ s.siege[c.g].st = "open" /\ <<"siege", c.g>> \notin s.touched
  /\ c.order = "sortie" => /\ s.siege[c.g].defenders # {}
                           /\ \A f \in s.siege[c.g].defenders : s.force[f].ready <= c.now
OrderSiege(s, c) ==
  Revised(CASE c.order = "assault" -> [s EXCEPT !.siege[c.g].assault = TRUE]
            [] c.order = "sortie" -> [s EXCEPT !.siege[c.g].sortie = TRUE]
            [] c.order = "gate" -> [s EXCEPT !.siege[c.g].gate = c.now + 2 * Minutes.step],
          <<"siege", c.g>>)

CanLift(s, c) ==
  s.siege[c.g].st = "open" /\ <<"siege", c.g>> \notin s.touched /\ s.siege[c.g].fight = 0
Lift(s, c) == Revised(EndSiege(s, c.g, "lifted", c.now), <<"siege", c.g>>)

(* The orders of a side: hold, withdraw, abandon; an attacker that abandons *)
(* closes the fight.                                                        *)
CanOrder(s, c) == Running(s, c.id) /\ <<"fight", c.id>> \notin s.touched
Order(s, c) ==
  LET sides == IF c.order = "hold" THEN s.fight[c.id].withdraw \ {c.side}
               ELSE s.fight[c.id].withdraw \cup {c.side}
  IN Revised(IF c.order = "abandon" /\ c.side = 1
             THEN CloseFight(s, c.id, [won |-> 0, routed |-> {}, at |-> c.now])
             ELSE [s EXCEPT !.fight[c.id].withdraw = sides], <<"fight", c.id>>)

(* An input resumes a held fight from now; a profile revised does too, or   *)
(* moves the next step.                                                     *)
Resume(s, c) ==
  LET v == s.fight[c.id]
      to == IF c.order = "profile" THEN c.minutes ELSE v.minutes
      last == IF v.st = "held" THEN c.now ELSE v.last
  IN Revised([s EXCEPT !.fight[c.id].st = "open", !.fight[c.id].minutes = to, !.fight[c.id].last = last,
                       !.fight[c.id].next = last + to], <<"fight", c.id>>)

CanCross(s, c) ==
  /\ Cardinality(s.crossings) < Limits.crossings /\ s.crossing[c.x].st = "none"
  /\ Ready(s, {c.f}, c.from) /\ c.by # c.f /\ (c.by # 0 => Alive(s, c.by))
  /\ c.f \notin c.def /\ At(s, c.def, c.to) /\ SideFits(c.def)
Cross(s, c) ==
  [s EXCEPT !.crossing[c.x] = [NoCrossing EXCEPT !.st = "open", !.force = c.f, !.from = c.from, !.to = c.to,
                                 !.defenders = c.def, !.by = c.by, !.next = c.now + Minutes.wave],
            !.force[c.f].crossing = c.x, !.crossings = @ \cup {c.x},
            !.staged = @ \cup {<<"crossing", c.x>>}, !.new = @ \cup {<<"crossing", c.x>>}]

(* The defenders and the interceptor of a crossing are revised; an          *)
(* environment makes a wave that waits due from now.                        *)
CanReviseCrossing(s, c) ==
  /\ s.crossing[c.x].st = "open" /\ <<"crossing", c.x>> \notin s.touched
  /\ c.order = "bank" => c.def # {} /\ s.crossing[c.x].force \notin c.def /\ At(s, c.def, s.crossing[c.x].to)
                         /\ SideFits(c.def)
  /\ c.order = "intercept" => c.by = 0 \/ Alive(s, c.by)
  /\ c.order = "cancel" => s.crossing[c.x].fight = 0
ReviseCrossing(s, c) ==
  Revised(CASE c.order = "bank" -> [s EXCEPT !.crossing[c.x].defenders = c.def]
            [] c.order = "intercept" -> [s EXCEPT !.crossing[c.x].by = c.by]
            [] c.order = "weather" -> [s EXCEPT !.crossing[c.x].next = Max({@, c.now})]
            [] c.order = "cancel" -> FinishCrossing(s, c.x, c.now), <<"crossing", c.x>>)

CanMove(s, c) == Alive(s, c.f) /\ <<"force", c.f>> \notin s.touched /\ Free(s, c.f)
Place(s, c) == Revised([s EXCEPT !.force[c.f].at = c.site], <<"force", c.f>>)
RetireForce(s, c) ==
  Revised(QueueRetire([s EXCEPT !.force[c.f].st = "retired", !.count = @ - 1], <<"force", c.f>>, c.now),
          <<"force", c.f>>)

Apply(s, c) ==
  CASE c.c = "open" -> IF CanOpen(s, c) THEN Open(s, c) ELSE s
    [] c.c = "join" -> IF CanJoin(s, c) THEN Join(s, c) ELSE s
    [] c.c = "joinsiege" -> IF CanJoinSiege(s, c) THEN JoinSiege(s, c) ELSE s
    [] c.c = "invest" -> IF CanInvest(s, c) THEN Invest(s, c) ELSE s
    [] c.c = "release" -> IF CanRelease(s, c) THEN Release(s, c) ELSE s
    [] c.c = "siege" -> IF CanOrderSiege(s, c) THEN OrderSiege(s, c) ELSE s
    [] c.c = "lift" -> IF CanLift(s, c) THEN Lift(s, c) ELSE s
    [] c.c = "order" -> IF CanOrder(s, c) THEN Order(s, c) ELSE s
    [] c.c = "resume" -> IF CanOrder(s, c) THEN Resume(s, c) ELSE s
    [] c.c = "cross" -> IF CanCross(s, c) THEN Cross(s, c) ELSE s
    [] c.c = "crossing" -> IF CanReviseCrossing(s, c) THEN ReviseCrossing(s, c) ELSE s
    [] c.c = "place" -> IF CanMove(s, c) THEN Place(s, c) ELSE s
    [] c.c = "retire" -> IF CanMove(s, c) THEN RetireForce(s, c) ELSE s

-----------------------------------------------------------------------------
(* A boundary.  Reports leave in order while there is room for a whole one; *)
(* one whose subject is retired is dropped.                                 *)
Publish(s, room) ==
  LET take(q, r) ==
        IF q.blocked THEN [q EXCEPT !.rest = Append(@, r)]
        ELSE IF Subject(s, r.of) \in {"retired", "gone"} THEN q
        ELSE IF q.room > 0 THEN [q EXCEPT !.room = @ - 1]
        ELSE [q EXCEPT !.blocked = TRUE, !.rest = Append(@, r)]
  IN [s EXCEPT !.reports = FoldLeft(take, [room |-> room, blocked |-> FALSE, rest |-> <<>>], @).rest]

Packets == {p \in Range(queue) : p.c = "step"}
Orders == SelectSeq(queue, LAMBDA p : p.c # "step")
Committed(s) == [s EXCEPT !.staged = {}, !.new = {}, !.touched = {}, !.delta = NoLosses]

(* The wake is of what was due when the boundary began.                     *)
Due == w.due # Never /\ w.due <= now
Woken == IF Due /\ Packets = {} THEN <<[c |-> "step"]>> ELSE <<>>

Settled == queue # <<>> /\ queue' = Woken /\ UNCHANGED <<woke, now, sent>>
Settle ==
  /\ Settled
  /\ \E applied \in {FoldLeft(LAMBDA s, c : Apply(s, c @@ [now |-> now]),
                              [w EXCEPT !.signals = {}], Orders)} :
     \E after \in IF Packets = {} THEN {applied} ELSE Pass(applied, now) :
     \E room \in Budgets : w' = Committed(Publish(Refreshed(after, now), room))

(* The boundary of the wake's cadence: one at an instant.                    *)
Wake == queue = <<>> /\ woke # now /\ Woken # <<>> /\ queue' = Woken /\ woke' = now /\ UNCHANGED <<w, now, sent>>

Send == /\ sent < MaxCommands /\ Len(Orders) < MaxBatch
        /\ \E c \in Commands : queue' = Append(queue, c)
        /\ sent' = sent + 1 /\ UNCHANGED <<w, woke, now>>

Tick == /\ queue = <<>> /\ now < MaxTime /\ (Prompt /\ Due => woke = now)
        /\ now' = now + 1 /\ UNCHANGED <<w, queue, woke, sent>>

Next == Settle \/ Wake \/ Send \/ Tick
Spec == Init /\ [][Next]_vars
(* The kernel settles what is queued, runs the wake and lets time pass; only *)
(* Settle steps are Settled.                                                *)
FairSpec == Spec /\ WF_queue(Settled) /\ WF_vars(Wake) /\ WF_vars(Tick)

-----------------------------------------------------------------------------
(* Every record has its type.                                               *)
TypeOK ==
  /\ \A f \in Forces : /\ w.force[f].st \in {"active", "retired", "gone"}
                        /\ {w.force[f].men, w.force[f].lost, w.force[f].gone} \subseteq 0..Men[f]
                        /\ w.force[f].fight \in 0..MaxFights /\ w.force[f].siege \in 0..MaxSieges
                        /\ w.force[f].crossing \in 0..MaxCrossings
  /\ \A n \in Fights : /\ w.fight[n].st \in {"none", "open", "held", "closed", "retired"}
                        /\ w.fight[n].att \cup w.fight[n].def \subseteq Forces
                        /\ w.fight[n].steps \in {"none", "empty", "full", "retired"}
  /\ \A g \in Sieges : w.siege[g].st \in {"none", "open", "fell", "lifted", "retired"}
  /\ \A c \in Crossings : w.crossing[c].st \in {"none", "open", "closed", "retired"}
  /\ w.staged = {} /\ w.new = {} /\ now \in 0..MaxTime /\ sent \in 0..MaxCommands

InSiege(g) == w.siege[g].besiegers \cup w.siege[g].defenders
InFight(n) == w.fight[n].att \cup w.fight[n].def
OpenSieges == {g \in Sieges : w.siege[g].st = "open"}
OpenCrossings == {c \in Crossings : w.crossing[c].st = "open"}
RunningFights == {n \in Fights : Running(w, n)}

(* A force and the fight, siege or crossing it is in name each other: no    *)
(* force is left in a fight that closed or on the list of a siege it left.  *)
RolesAgree ==
  \A f \in Forces :
    /\ \A n \in RunningFights : f \in InFight(n) <=> w.force[f].fight = n
    /\ \A g \in OpenSieges : f \in InSiege(g) <=> w.force[f].siege = g
    /\ \A c \in OpenCrossings : w.crossing[c].force = f <=> w.force[f].crossing = c
    /\ w.force[f].fight \in RunningFights \cup {0} /\ w.force[f].siege \in OpenSieges \cup {0}
    /\ w.force[f].crossing \in OpenCrossings \cup {0}

(* The besiegers of a siege attack in its assault and defend in its sortie, *)
(* and no other force is in either.                                         *)
SidesMatch ==
  \A n \in RunningFights :
    /\ w.fight[n].kind = "assault" => /\ w.fight[n].att \subseteq w.siege[w.fight[n].siege].besiegers
                                      /\ w.fight[n].def \subseteq w.siege[w.fight[n].siege].defenders
    /\ w.fight[n].kind = "sortie" => /\ w.fight[n].def \subseteq w.siege[w.fight[n].siege].besiegers
                                     /\ w.fight[n].att \subseteq w.siege[w.fight[n].siege].defenders

(* An open siege has a besieger, and its sides have different owners.       *)
SiegesStand ==
  \A g \in OpenSieges : /\ w.siege[g].besiegers # {}
                        /\ Owners(w.siege[g].besiegers) \cap Owners(w.siege[g].defenders) = {}

(* Every man is present, lost in a fight or dispersed, and the losses of    *)
(* the fights are those of the forces.                                      *)
LossesAccounted ==
  /\ \A f \in Forces : w.force[f].men + w.force[f].lost + w.force[f].gone = Men[f]
  /\ SumOver(Fights, LAMBDA n : w.fight[n].lost[1] + w.fight[n].lost[2])
       = SumOver(Forces, LAMBDA f : w.force[f].lost)

(* The signal of a close tells the losses each force had in the boundary,   *)
(* those of the fall of its site among them.                                *)
SignalsAdd ==
  w' # w => \A x \in w'.signals : \A f \in DOMAIN x.losses :
       x.losses[f] = w'.force[f].lost + w'.force[f].gone - w.force[f].lost - w.force[f].gone

(* The registry names all that is open, all that is to be retired and all   *)
(* steps to be emptied, and falls due no later than any of it.              *)
WorkKept ==
  /\ w.fights = RunningFights /\ w.sieges = OpenSieges /\ w.crossings = OpenCrossings
  /\ \A n \in Fights :
       /\ w.fight[n].st = "closed" => \E r \in w.retire : r[2] = <<"fight", n>> /\ w.due <= r[1]
       /\ w.fight[n].st = "closed" /\ w.fight[n].steps = "full" => n \in w.empty
       /\ w.fight[n].st = "retired" /\ w.fight[n].steps # "retired" =>
            \E r \in w.retire : r[2] = <<"steps", n>> /\ w.due <= r[1]
       /\ w.fight[n].st = "open" => w.due # Never /\ w.due <= w.fight[n].next
  /\ w.due = Never => w.empty = {} /\ w.retire = {}
  /\ \A f \in Forces : w.force[f].st = "retired" => \E r \in w.retire : r[2] = <<"force", f>>

(* The fights of a crossing follow one another: a wave is sent no earlier   *)
(* than the close of the fight before it.                                   *)
WavesInTurn ==
  \A m, n \in Fights :
    w.fight[m].crossing # 0 /\ w.fight[m].crossing = w.fight[n].crossing /\ m < n =>
      w.fight[m].closed # Never /\ w.fight[m].closed <= w.fight[n].opened

(* The defenders of a siege rest between two sorties.                       *)
SortiesRest ==
  \A m, n \in Fights :
    /\ w.fight[m].kind = "sortie" /\ w.fight[n].kind = "sortie" /\ m < n
    /\ w.fight[m].att \cap w.fight[n].att # {}
    => w.fight[m].opened + Minutes.cooldown <= w.fight[n].opened

(* A day a force fought in is never credited as a day of rest.              *)
FoughtDaysNotCredited ==
  \A c \in w.credit, b \in w.stood : c[1] = b[1] => ~(c[2] < b[2] /\ b[2] <= c[3])

(* What the plugin checks when a save is loaded: the forces it counts and   *)
(* the limits on what is open.                                              *)
Reloads ==
  /\ w.count = Cardinality({f \in Forces : w.force[f].st = "active"})
  /\ Cardinality(w.fights) <= Limits.fights /\ Cardinality(w.sieges) <= Limits.sieges
  /\ Cardinality(w.crossings) <= Limits.crossings

(* A fight that is not held ends, by its longest time and one more step (of *)
(* two minutes, the longest a profile is revised to).                       *)
Ending(n) ==
  /\ w.fight[n].st = "open"
  /\ Max({w.fight[n].next, w.fight[n].opened + Minutes.fight}) + 2 * Minutes.step <= MaxTime

(* A closed fight is retired, and its steps with it.                        *)
Retiring(n) == w.fight[n].st = "closed" /\ w.fight[n].closed + Minutes.retire < MaxTime
FightRetired(n) == w.fight[n].st = "retired" /\ w.fight[n].steps = "retired"

=============================================================================
