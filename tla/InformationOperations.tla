----------------------- MODULE InformationOperations -----------------------
(***************************************************************************)
(* The operation ledger of the information extension: an operation packet   *)
(* is accepted, applied to its record and published to holders in chunks,   *)
(* one stage a boundary, each stage asked for by a packet the one before    *)
(* scheduled.  A boundary has two passes: phase 7 records delegations,      *)
(* closes published chunks and plans the operations, oldest first; phase 13 *)
(* publishes.  An error of either refuses the boundary as a whole.          *)
(* An operation is a number: its place in the order of operation IDs.       *)
(***************************************************************************)
EXTENDS Integers, Sequences, FiniteSets, FiniteSetsExt, SequencesExt

CONSTANTS
  Ops,        \* operation |-> [act, rec, version, cites]
  Members,    \* record |-> the sequence of holders its publication names
  Subject,    \* record |-> what a holder learns by it
  Claims,     \* delegation command |-> when it expires
  Chunk,      \* MAX_PUBLICATION_BATCHES
  Loads,      \* what the boundary's publication budget may leave
  Mortal,     \* the holders that may stop accepting knowledge
  Forged,     \* the operations a host may send again with another input
  MaxTime     \* bound on the simulated time

Acts == {"activate", "withdraw", "deliver", "interpret"}

InformationAssumption ==
  /\ DOMAIN Ops \subseteq Nat /\ Forged \subseteq DOMAIN Ops
  /\ \A o \in DOMAIN Ops : /\ Ops[o].act \in Acts
                           /\ Ops[o].act = "interpret" => Ops[o].cites \in DOMAIN Claims
                           /\ Ops[o].rec \in DOMAIN Members
  /\ DOMAIN Subject = DOMAIN Members
  /\ Chunk \in Nat \ {0} /\ Loads \subseteq Nat /\ MaxTime \in Nat

VARIABLES core, queue, now
vars == <<core, queue, now>>

Stages == {"none", "accepted", "applying", "publishing", "finalizing", "completed", "rejected"}
Over(st) == st \in {"completed", "rejected"}
Recs == DOMAIN Members
NoOp == [st |-> "none", in |-> 0, adm |-> 0, cursor |-> 0, left |-> 0, shown |-> FALSE, ids |-> {}]

(* Packets: an operation with its input, the closing of a published chunk,  *)
(* and a delegation command.                                                *)
Packet(o, in) == [k |-> "op", o |-> o, in |-> in]
Closing(o, from, to, unsent) == [k |-> "fin", o |-> o, from |-> from, to |-> to, unsent |-> unsent]
Granting(d) == [k |-> "cmd", d |-> d]
Of(kind, q) == {p \in q : p.k = kind}

(* What a sequence of steps makes of a state.                               *)
Through(step(_, _), start, seq) ==
  FoldLeft(LAMBDA w, o : CHOOSE after \in {step(x, o) : x \in {w}} : TRUE, start, seq)

-----------------------------------------------------------------------------
(* Delegations: the ledger of the live ones, by the command that granted.   *)

Retire(ledger, at) == {d \in ledger : Claims[d] > at}

SettleDelegations(c, q, at) ==
  [c EXCEPT !.ledger = Retire(@, at) \cup {p.d : p \in {x \in Of("cmd", q) : Claims[x.d] > at}}]

Authorised(c, o, at) ==
  Ops[o].act = "interpret" => Ops[o].cites \in c.ledger /\ Claims[Ops[o].cites] > at

-----------------------------------------------------------------------------
(* What an operation does to its record, and whom it tells.                 *)
Becomes(act) == CASE act = "activate" -> "active" [] act = "withdraw" -> "withdrawn"
                  [] act = "deliver" -> "delivered" [] act = "interpret" -> "recorded"

Planned(c, o) ==
  LET r == c.rec[Ops[o].rec]
  IN /\ r.v = Ops[o].version
     /\ r.st \in (CASE Ops[o].act = "activate" -> {"prepared"}
                    [] Ops[o].act = "withdraw" -> {"prepared", "active"}
                    [] Ops[o].act = "deliver" -> {"transit"}
                    [] Ops[o].act = "interpret" -> {"absent"})

(* The publications an operation is owed, reconstructed from the records as *)
(* they are: nothing once a release is no longer active.                    *)
Publications(c, o) ==
  LET r == Ops[o].rec
  IN IF Ops[o].act = "withdraw" \/ c.rec[r].st # Becomes(Ops[o].act) THEN <<>> ELSE Members[r]

(* The newest record a holder has of a subject.                             *)
Heard(c, h, subject) ==
  Max({i \in DOMAIN c.know : c.know[i].holder = h /\ c.know[i].of = subject} \cup {0})

-----------------------------------------------------------------------------
(* Phase 7, first half: the chunk the boundary before published is closed.  *)

ClosingFits(c, p) ==
  LET o == p.o
      total == Len(Publications(c, o))
      end == IF c.op[o].left > 0 THEN c.op[o].cursor ELSE total
  IN /\ p.from < p.to \/ (p.from = p.to /\ c.op[o].left > 0)
     /\ p.to = end /\ p.to <= total

Finalize(c, p) ==
  LET o == p.o
      sent == (p.from + 1 .. p.to) \ p.unsent
      found == {Heard(c, Publications(c, o)[i], Subject[Ops[o].rec]) : i \in sent}
  IN IF c.op[o].st = "completed" THEN c
     ELSE IF c.op[o].st # "finalizing" \/ ~ClosingFits(c, p) \/ 0 \in found
     THEN [c EXCEPT !.broken = TRUE]
     ELSE [c EXCEPT !.op[o].ids = @ \cup found,
                    !.op[o].st = IF c.op[o].left > 0 THEN "publishing" ELSE "completed"]

-----------------------------------------------------------------------------
(* Phase 7, second half: the operations.  Every operation is planned on the *)
(* records the boundary began with (old).                                   *)

(* The input kept of those admitted for one operation.                      *)
Keep(op, inputs, first) == IF op.st # "none" /\ op.in \in inputs THEN op.in ELSE first

Order(old, kept, at) ==
  LET age(o) == IF old.op[o].st = "none" THEN at ELSE old.op[o].adm
  IN SetToSortSeq(kept, LAMBDA a, b : age(a) < age(b) \/ (age(a) = age(b) /\ a < b))

Again(w, o, in) == [w EXCEPT !.out = @ \cup {Packet(o, in)}]

Apply(old, w, o) ==
  LET r == Ops[o].rec  n == Len(Publications([old EXCEPT !.rec[r].st = Becomes(Ops[o].act)], o))
  IN IF ~Planned(old, o) THEN [w EXCEPT !.c.op[o].st = "rejected"]
     ELSE IF r \in w.changed THEN Again(w, o, old.op[o].in)
     ELSE [w EXCEPT !.changed = @ \cup {r},
                    !.c.rec[r] = [st |-> Becomes(Ops[o].act), v |-> @.v + 1],
                    !.c.op[o].st = IF n = 0 THEN "finalizing" ELSE "publishing",
                    !.c.op[o].left = n]

(* One stage of one operation, for the input kept of it.                    *)
Advance(old, w, o, in, at) ==
  LET op == old.op[o]
  IN CASE op.st = "none" ->
            Again([w EXCEPT !.c.op[o] = [NoOp EXCEPT !.st = "accepted", !.in = in, !.adm = at]], o, in)
       [] op.st # "none" /\ op.in # in -> w
       [] op.st = "accepted" /\ op.in = in -> Again([w EXCEPT !.c.op[o].st = "applying"], o, in)
       [] op.st = "applying" /\ op.in = in ->
            IF Authorised(w.c, o, at) THEN Apply(old, w, o)
            ELSE [w EXCEPT !.c.op[o].st = "rejected"]
       [] OTHER -> w

Operations(old, c, q, first, at) ==
  LET inputs(o) == {p.in : p \in {x \in Of("op", q) : x.o = o}}
      order == Order(old, {p.o : p \in Of("op", q)}, at)
      step(w, o) == Advance(old, w, o, Keep(old.op[o], inputs(o), first[o]), at)
  IN Through(step, [c |-> c, out |-> {}, changed |-> {}], order)

-----------------------------------------------------------------------------
(* Phase 13: the next chunk of each operation that is owed one, in the      *)
(* order of their IDs, within what is left of the boundary's budget.        *)

(* One publication of a chunk: skipped for a holder that accepts nothing or *)
(* was told in this boundary, and the end of the chunk when nothing fits.   *)

Send(c, o, p, i) ==
  LET h == Publications(c, o)[i]  key == <<h, Subject[Ops[o].rec]>>
  IN IF p.full THEN p
     ELSE IF h \in c.away THEN [p EXCEPT !.unsent = @ \cup {i}]
     ELSE IF key \in p.told THEN p
     ELSE IF p.budget = 0 THEN [p EXCEPT !.full = TRUE, !.end = i - 1]
     ELSE [p EXCEPT !.told = @ \cup {key}, !.budget = @ - 1,
                    !.know = Append(@, [holder |-> h, of |-> key[2], by |-> o])]

(* Mutant: a chunk starts at the beginning of the set.                      *)
ChunkFromStart(c, o, w) ==
  LET op == c.op[o]
      to == op.cursor + Min({Chunk, op.left})
      begun == [told |-> w.told, budget |-> w.budget, know |-> c.know, unsent |-> {},
                full |-> FALSE, end |-> to]
  IN Through(LAMBDA p, i : Send(c, o, p, i), begun, [i \in 1..to |-> i])

ChunkOf(c, o, w) ==
  LET op == c.op[o]
      to == op.cursor + Min({Chunk, op.left})
      begun == [told |-> w.told, budget |-> w.budget, know |-> c.know, unsent |-> {},
                full |-> FALSE, end |-> to]
  IN Through(LAMBDA p, i : Send(c, o, p, i), begun, [i \in 1..to - op.cursor |-> op.cursor + i])

PublishOne(w, o) ==
  LET c == w.c  op == c.op[o]  total == Len(Publications(c, o))
  IN CASE op.st = "finalizing" /\ op.left = 0 /\ ~op.shown ->
            [w EXCEPT !.c.op[o].st = "completed", !.c.op[o].shown = TRUE]
       [] op.st = "publishing" /\ op.cursor + op.left # total -> [w EXCEPT !.c.broken = TRUE]
       [] op.st = "publishing" /\ op.cursor + op.left = total ->
            LET p == ChunkOf(c, o, w)
            IN [w EXCEPT !.told = p.told, !.budget = p.budget,
                         !.out = @ \cup {Closing(o, op.cursor, p.end, p.unsent)},
                         !.c.know = p.know,
                         !.c.op[o] = [op EXCEPT !.st = "finalizing", !.shown = TRUE,
                                                !.cursor = p.end, !.left = total - p.end]]
       [] OTHER -> w

Publish(c, out, budget) ==
  Through(PublishOne, [c |-> c, out |-> out, told |-> {}, budget |-> budget],
          SetToSortSeq(DOMAIN Ops, <))

-----------------------------------------------------------------------------
(* The actions.                                                             *)
Init ==
  /\ core = [op |-> [o \in DOMAIN Ops |-> NoOp],
             rec |-> [r \in Recs |->
               LET acts == {Ops[o].act : o \in {x \in DOMAIN Ops : Ops[x].rec = r}}
               IN IF "interpret" \in acts THEN [st |-> "absent", v |-> 0]
                  ELSE IF "deliver" \in acts THEN [st |-> "transit", v |-> 1]
                  ELSE [st |-> "prepared", v |-> 1]],
             know |-> <<>>, ledger |-> {}, away |-> {}, granted |-> {}, broken |-> FALSE]
  /\ queue = {} /\ now = 0

(* A command carries an operation: a retry of a known one is answered       *)
(* without a packet.                                                        *)
Submit(o) ==
  /\ core.op[o].st = "none" /\ Packet(o, 1) \notin queue
  /\ queue' = queue \cup {Packet(o, 1)}
  /\ UNCHANGED <<core, now>>

(* A host may put an operation packet in the queue itself, also one that    *)
(* reuses an operation's ID.                                                *)
Forge(o) ==
  /\ o \in Forged /\ Packet(o, 2) \notin queue
  /\ queue' = queue \cup {Packet(o, 2)}
  /\ UNCHANGED <<core, now>>

Grant(d) ==
  /\ d \notin core.granted /\ Claims[d] > now
  /\ queue' = queue \cup {Granting(d)}
  /\ core' = [core EXCEPT !.granted = @ \cup {d}]
  /\ UNCHANGED now

Leave(h) ==
  /\ h \in Mortal \ core.away
  /\ core' = [core EXCEPT !.away = @ \cup {h}]
  /\ UNCHANGED <<queue, now>>

Boundary ==
  /\ queue # {} /\ ~core.broken
  /\ \E budget \in Loads, first \in [DOMAIN Ops -> 1..2] :
       /\ \A o \in DOMAIN Ops :
            IF \E p \in Of("op", queue) : p.o = o THEN Packet(o, first[o]) \in queue ELSE first[o] = 1
       /\ \E closed \in {FoldSet(LAMBDA p, c : Finalize(c, p),
                                SettleDelegations(core, queue, now), Of("fin", queue))} :
          \E worked \in {Operations(core, closed, queue, first, now)} :
          \E done \in {Publish(worked.c, worked.out, budget)} :
            IF done.c.broken
            THEN core' = [core EXCEPT !.broken = TRUE] /\ UNCHANGED queue
            ELSE core' = done.c /\ queue' = done.out
  /\ UNCHANGED now

Tick ==
  /\ queue = {} /\ now < MaxTime
  /\ now' = now + 1
  /\ UNCHANGED <<core, queue>>

Next == \/ \E o \in DOMAIN Ops : Submit(o) \/ Forge(o)
        \/ \E d \in DOMAIN Claims : Grant(d)
        \/ \E h \in Mortal : Leave(h)
        \/ Boundary \/ Tick

Spec == Init /\ [][Next]_vars
FairSpec == Spec /\ WF_vars(Boundary)

-----------------------------------------------------------------------------
TypeOK ==
  /\ \A o \in DOMAIN Ops :
       /\ core.op[o].st \in Stages /\ core.op[o].in \in 0..2 /\ core.op[o].adm \in 0..MaxTime
       /\ {core.op[o].cursor, core.op[o].left} \subseteq Nat
       /\ core.op[o].ids \subseteq DOMAIN core.know
  /\ core.ledger \subseteq core.granted /\ core.granted \subseteq DOMAIN Claims
  /\ core.broken \in BOOLEAN /\ now \in 0..MaxTime

(* No boundary is refused: the publication set an operation's continuation  *)
(* counts on is the one reconstructed when its next chunk is published      *)
(* (publish_lifecycle_boundary, finalize_operation).                        *)
NoBoundaryFails == ~core.broken

(* Everyone an operation tells learns it by a record the operation lists,   *)
(* except a holder that accepts nothing, however many chunks and boundaries *)
(* it took and whoever else published (finalize_operation).                 *)
EveryoneTold ==
  \A o \in DOMAIN Ops :
    core.op[o].st = "completed" /\ Ops[o].act # "withdraw" =>
      \A h \in ToSet(Members[Ops[o].rec]) \ core.away :
        \E i \in core.op[o].ids : /\ core.know[i].holder = h
                                  /\ core.know[i].of = Subject[Ops[o].rec]

(* A holder is told by one operation at most once (the cursor of the        *)
(* continuation never goes back over what was published).                   *)
ToldOnceEach ==
  \A i, j \in DOMAIN core.know :
    i # j /\ core.know[i].by = core.know[j].by => core.know[i].holder # core.know[j].holder

(* A boundary changes a record for one operation at most, and every         *)
(* operation that took effect is one change of its record                   *)
(* (apply_lifecycle_boundary).                                              *)
OneWriter ==
  \A r \in Recs :
       LET took == {o \in DOMAIN Ops : /\ Ops[o].rec = r /\ core.op[o].st = "applying"
                                       /\ core'.op[o].st \notin {"applying", "rejected"}}
       IN core'.rec[r].v = core.rec[r].v + Cardinality(took) /\ Cardinality(took) <= 1

(* What two operations told of one subject in one boundary is told once: a  *)
(* holder's records of a subject come from different boundaries, so each    *)
(* operation's record is the newest when its chunk is closed                *)
(* (publish_lifecycle_boundary).                                            *)
OnceABoundary ==
  \A i, j \in (Len(core.know) + 1)..Len(core'.know) :
       i # j => \/ core'.know[i].holder # core'.know[j].holder
                \/ core'.know[i].of # core'.know[j].of

(* A delegation granted stays in the ledger until it expires, whatever else *)
(* is granted or retired (settle_delegations).                              *)
LiveDelegationsKept ==
  \A d \in core.granted : Claims[d] > now => d \in core.ledger \/ Granting(d) \in queue

=============================================================================
