----------------------------- MODULE DecisionsMC -----------------------------
(***************************************************************************)
(* Small instances of the decision framework, side by side: each behaviour  *)
(* plays one scene.  The constants of the configuration are those of the    *)
(* scene "lineage"; the other scenes instantiate the framework themselves.  *)
(***************************************************************************)
EXTENDS Decisions

CONSTANTS t1, t2, c1, c2, c3, anna, ben

VARIABLE scene       \* which instance the behaviour plays
decisionVars == <<scene, vars>>

\* Anna and Ben decide; the first and third controller are bound to one seat, and
\* Ben stands behind the third.
OneSeat == [c \in {c1, c2, c3} |-> IF c = c2 THEN None ELSE "seat"]
BensController == [c \in {c1, c2, c3} |-> IF c = c3 THEN ben ELSE None]
NoSeat == [c \in {c1, c2, c3} |-> None]
NobodyNeeded == NoSeat

OpenOf(t, m, c, d, p) ==
    [kind |-> "open", ticket |-> t, maker |-> m, controller |-> c, deadline |-> d,
     parent |-> p]
CancelOf(t, v) == [kind |-> "cancel", ticket |-> t, version |-> v]
ReplaceOf(t, v) == [kind |-> "replace", ticket |-> t, version |-> v]
Decide(t, v, c, s, a) ==
    [kind |-> "resolve", ticket |-> t, version |-> v, controller |-> c, selects |-> s,
     acts |-> a]
ExtendOf(t, v, d) == [kind |-> "extend", ticket |-> t, version |-> v, deadline |-> d]
ReassignOf(t, v, c) == [kind |-> "reassign", ticket |-> t, version |-> v, controller |-> c]

\* One ticket, resolved, deferred or extended around its deadline.
LifeMutations ==
    {OpenOf(t1, anna, c1, 0, None), Decide(t1, 1, c1, FALSE, FALSE),
     Decide(t1, 1, c1, TRUE, TRUE), Decide(t1, 2, c1, TRUE, TRUE), ExtendOf(t1, 1, 1)}

\* A parent and a ticket that follows it up, which moves within the seat and out
\* of it.
LineageMutations ==
    {OpenOf(t1, anna, c1, None, None), CancelOf(t1, 1),
     OpenOf(t2, ben, c1, None, t1), OpenOf(t2, anna, c2, None, t1),
     ReassignOf(t2, 1, c2), ReassignOf(t2, 1, c3), CancelOf(t2, 2)}

\* Tickets that are closed and archived.
ArchiveMutations ==
    {[kind |-> "register", controller |-> c2], OpenOf(t1, anna, c1, None, None),
     Decide(t1, 1, c1, FALSE, FALSE),
     Decide(t1, 1, c1, TRUE, FALSE), ReplaceOf(t1, 1)}

\* A ticket that is resolved and archived, and opened again under its ID.
ReuseMutations == {OpenOf(t1, anna, c1, None, None), Decide(t1, 1, c1, TRUE, FALSE)}

Again == INSTANCE Decisions WITH
    Tickets <- {t1}, People <- {}, Registered <- {c1}, Seat <- NoSeat,
    Authority <- NobodyNeeded, Mutations <- ReuseMutations, MaxTime <- 0,
    MaxRevision <- 4, MaxRequests <- 4, MaxKeys <- 1, MaxArchives <- 1,
    MaxFailures <- 0

OneTicket == INSTANCE Decisions WITH
    Tickets <- {t1}, People <- {}, Registered <- {c1}, Seat <- NoSeat,
    Authority <- NobodyNeeded, Mutations <- LifeMutations,
    MaxTime <- 1, MaxRevision <- 3, MaxRequests <- 3, MaxKeys <- 0, MaxArchives <- 0,
    MaxFailures <- 0

Archives == INSTANCE Decisions WITH
    People <- {}, Registered <- {c1}, Seat <- NoSeat, Authority <- NobodyNeeded,
    Mutations <- ArchiveMutations, MaxTime <- 0, MaxRevision <- 3,
    MaxRequests <- 3, MaxKeys <- 1, MaxArchives <- 2, MaxFailures <- 1

DecisionsInit ==
    \/ scene = "archive" /\ Archives!Init
    \/ scene = "life" /\ OneTicket!Init
    \/ scene = "lineage" /\ Init
    \/ scene = "reuse" /\ Again!Init

ArchiveStep == scene = "archive" /\ Archives!Next /\ UNCHANGED scene
LifeStep == scene = "life" /\ OneTicket!Next /\ UNCHANGED scene
LineageStep == scene = "lineage" /\ Next /\ UNCHANGED scene

ReuseStep == scene = "reuse" /\ Again!Next /\ UNCHANGED scene

DecisionsStep == ArchiveStep \/ LifeStep \/ LineageStep \/ ReuseStep

DecisionsSpec == DecisionsInit /\ [][DecisionsStep]_decisionVars
=============================================================================
