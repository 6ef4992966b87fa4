------------------------------ MODULE ProgressMC -----------------------------
(***************************************************************************)
(* What must come about, on small instances side by side. Each behaviour    *)
(* plays one scene, and takes it for granted only that the host keeps       *)
(* settling what is due and that time passes.                               *)
(***************************************************************************)
EXTENDS Integers, Sequences

VARIABLE scene       \* which instance the behaviour plays
VARIABLES now, revision, ingress, nextId, pending, cancelled, actions, nextSeq, events,
    attempts, boundaries, cursor, pc, run, todo, saved, batch, failures, law, failed,
    core, queue, w, woke, sent, book, epochs, reports, named, version, clock, tick, full, op,
    info, host

\* The variables of the components; those a scene does not play are Off.
Off == <<>>
allVars == <<scene, now, revision, ingress, nextId, pending, cancelled, actions,
    nextSeq, events, attempts, boundaries, cursor, pc, run, todo, saved, batch,
    failures, law, failed, core, queue, w, woke, sent, book, epochs, reports, named,
    version, clock, tick, full, op, info, host>>

Do(kind, after, next) == [op |-> kind, after |-> after, next |-> next]
LivePrograms == {<<Do("emit", 0, "emit"), Do("schedule", 1, "emit")>>, <<Do("enqueue", 1, "emit")>>}
NoReaction == {<<>>}

Rule(kind, at, direct) ==
    [op |-> kind, eff |-> at, policy |-> "none", valid |-> TRUE, dep |-> FALSE, retro |-> FALSE,
     direct |-> direct]
Pile == [p \in 1..4 |-> IF p = 1 THEN {Rule("establish", 0, TRUE)}
                        ELSE {Rule("amend", 1, TRUE), Rule("amend", 2, TRUE)}]

Stage(kind, seats, len, quorum) ==
    [kind |-> kind, seats |-> seats, len |-> len, quorum |-> quorum, threshold |-> 501]
ConsultThenVote == <<Stage("consultation", {"a"}, 1, 0), Stage("vote", {"b"}, 1, 1)>>

ThreeOwners == <<"a", "b", "b">>
ThreeMen == <<2, 1, 2>>
ThreeHome == <<"town", "town", "town">>
TwoEach == [fights |-> 2, sieges |-> 2, crossings |-> 2, reports |-> 2, side |-> 2]
Hourly == [step |-> 1, day |-> 2, wave |-> 1, fight |-> 2, retire |-> 1, cooldown |-> 4]
Strike(a, d, x, y) == [fails |-> FALSE, loss |-> <<a, d>>, broke |-> <<x, y>>]
Fails(drew) == [fails |-> TRUE, drew |-> drew]
AllBlows == {Strike(1, 1, "continue", "continue"), Strike(0, 1, "continue", "rout"),
             Strike(1, 0, "rout", "continue"), Strike(0, 0, "withdraw", "withdraw"),
             Fails(TRUE), Fails(FALSE)}
Opening(id, att, def) ==
    [c |-> "open", id |-> id, kind |-> "field", site |-> "town", att |-> att, def |-> def]
Ordering(id, side, order) == [c |-> "order", id |-> id, side |-> side, order |-> order]
EndCommands ==
    {Opening(1, {1}, {2}), Opening(2, {1}, {3}), Ordering(1, 1, "abandon"),
     [c |-> "resume", id |-> 1, order |-> "input"],
     [c |-> "resume", id |-> 1, order |-> "profile", minutes |-> 2]}

Share == [guaranteed |-> 2, burst |-> 2, slots |-> 1, capacity |-> 2, refill |-> 1,
          cooldown |-> 0, cap |-> 2]
WideBudget == [total |-> 3, shared |-> 1, partition |-> <<Share, Share>>]
Alone == [a \in 1..2 |-> {"resource"}]
OwnTargets == [g \in {<<a, "resource">> : a \in 1..2} |-> {g[1]}]
LeaseCalls ==
    {"acquire", "grant", "prepare", "activate", "abort", "fill", "archive", "tick",
     "expire"}

Op(act, rec, since) == [act |-> act, rec |-> rec, version |-> since, cites |-> 0]
TwoReleases == <<Op("activate", "news", 1), Op("activate", "edict", 1)>>
ReleaseMembers == [news |-> <<"ada", "bao", "cy">>, edict |-> <<"ada", "cy">>]
ReleaseSubjects == [news |-> "news", edict |-> "edict"]
NoClaims == [d \in {} |-> 0]

\* The host keeps settling what is due, and one boundary may fail.
Settling == INSTANCE Kernel WITH
    Requests <- {"r1"}, Plugins <- {"p", "q"}, EventPlugins <- {"p"},
    CadencePlugins <- {"q"}, Host <- "host", Event <- "event", PacketClasses <- {2},
    Priorities <- {0}, Delays <- {0}, Programs <- LivePrograms,
    Reactions <- NoReaction, MaxDepth <- 1, MaxTime <- 1, MaxIngress <- 2,
    MaxEvents <- 1, MaxBoundaries <- 1, MaxFailures <- 1

\* Two scheduled versions on one instant and none after.
Piled == INSTANCE LawRules WITH
    Proposals <- {1, 2, 3, 4}, ShapesOf <- Pile, MaxTime <- 2, Budgeted <- TRUE

\* A consultation and a vote.
Voting == INSTANCE LawProcedures WITH
    Stages <- ConsultThenVote, Ballots <- {"for"}, NeedsCapacity <- FALSE,
    NeedsSignal <- FALSE, MaxTime <- 5

\* Field engagements that share a force.
Fighting == INSTANCE Engagements WITH
    Owner <- ThreeOwners, Men <- ThreeMen, Home <- ThreeHome, MaxSieges <- 0,
    MaxCrossings <- 0, MaxFights <- 2, Commands <- EndCommands, Blows <- AllBlows,
    Limits <- TwoEach, Minutes <- Hourly, MaxCommands <- 3, MaxTime <- 6,
    MaxSteps <- 2, EmplaceDays <- 0, BreachDays <- 1, WaveMen <- 1, Prompt <- TRUE,
    Budgets <- {9}, MaxBatch <- 3

\* Two leases, granted and left to expire, while other work may fill the root.
Expiring == INSTANCE CompletionLeases WITH
    Leases <- {1, 2}, Holder <- <<1, 2>>, Burst <- {2}, Participants <- Alone,
    Units <- <<1, 2>>, Targets <- OwnTargets, Reported <- {1}, Budget <- WideBudget,
    Lifetime <- 2, Guard <- 2, Operations <- LeaseCalls, MaxBoundary <- 3,
    MaxTime <- 0, PendingLimit <- 16

\* A dispatch that may be lost or intercepted.
Carrying == INSTANCE Correspondence WITH
    Delegations <- <<4>>, MaxLegs <- 2, Waits <- {0, 1}, Dues <- {2},
    Kinds <- {"disaster", "interception"}, MaxIncidents <- 1, MaxAttempts <- 1,
    MaxSeq <- 8, Apart <- TRUE, MaxTime <- 3

\* Two releases in chunks.
Publishing == INSTANCE InformationOperations WITH
    Ops <- TwoReleases, Members <- ReleaseMembers, Subject <- ReleaseSubjects,
    Claims <- NoClaims, Chunk <- 2, Loads <- {1, 3}, Mortal <- {"bao"}, Forged <- {},
    MaxTime <- 1

OnlyKernel ==
    /\ law = Off /\ failed = Off /\ core = Off /\ queue = Off /\ w = Off
    /\ woke = Off /\ sent = Off /\ book = Off /\ epochs = Off /\ reports = Off
    /\ named = Off /\ version = Off /\ clock = Off /\ tick = Off /\ full = Off /\ op = Off
    /\ info = Off /\ host = Off
KeepKernel == UNCHANGED <<scene, law, failed, core, queue, w, woke, sent, book, epochs,
    reports, named, version, clock, tick, full, op, info, host>>

OnlyLawRules ==
    /\ revision = Off /\ ingress = Off /\ nextId = Off /\ pending = Off
    /\ cancelled = Off /\ actions = Off /\ nextSeq = Off /\ events = Off
    /\ attempts = Off /\ boundaries = Off /\ cursor = Off /\ pc = Off /\ run = Off
    /\ todo = Off /\ saved = Off /\ batch = Off /\ failures = Off /\ core = Off
    /\ queue = Off /\ w = Off /\ woke = Off /\ sent = Off /\ book = Off
    /\ epochs = Off /\ reports = Off /\ named = Off /\ version = Off /\ clock = Off
    /\ tick = Off /\ full = Off /\ op = Off /\ info = Off /\ host = Off
KeepLawRules == UNCHANGED <<scene, revision, ingress, nextId, pending, cancelled,
    actions, nextSeq, events, attempts, boundaries, cursor, pc, run, todo, saved, batch,
    failures, core, queue, w, woke, sent, book, epochs, reports, named, version, clock,
    tick, full, op, info, host>>

OnlyLawProcedures ==
    /\ revision = Off /\ ingress = Off /\ nextId = Off /\ pending = Off
    /\ cancelled = Off /\ actions = Off /\ nextSeq = Off /\ events = Off
    /\ attempts = Off /\ boundaries = Off /\ cursor = Off /\ pc = Off /\ run = Off
    /\ todo = Off /\ saved = Off /\ batch = Off /\ failures = Off /\ failed = Off
    /\ w = Off /\ woke = Off /\ sent = Off /\ book = Off /\ epochs = Off
    /\ reports = Off /\ named = Off /\ version = Off /\ clock = Off /\ tick = Off /\ full = Off
    /\ op = Off /\ info = Off /\ host = Off
KeepLawProcedures == UNCHANGED <<scene, revision, ingress, nextId, pending, cancelled,
    actions, nextSeq, events, attempts, boundaries, cursor, pc, run, todo, saved, batch,
    failures, failed, w, woke, sent, book, epochs, reports, named, version, clock, tick, full,
    op, info, host>>

OnlyEngagements ==
    /\ revision = Off /\ ingress = Off /\ nextId = Off /\ pending = Off
    /\ cancelled = Off /\ actions = Off /\ nextSeq = Off /\ events = Off
    /\ attempts = Off /\ boundaries = Off /\ cursor = Off /\ pc = Off /\ run = Off
    /\ todo = Off /\ saved = Off /\ batch = Off /\ failures = Off /\ law = Off
    /\ failed = Off /\ core = Off /\ book = Off /\ epochs = Off /\ reports = Off
    /\ named = Off /\ version = Off /\ clock = Off /\ tick = Off /\ full = Off /\ op = Off
    /\ info = Off /\ host = Off
KeepEngagements == UNCHANGED <<scene, revision, ingress, nextId, pending, cancelled,
    actions, nextSeq, events, attempts, boundaries, cursor, pc, run, todo, saved, batch,
    failures, law, failed, core, book, epochs, reports, named, version, clock, tick, full, op,
    info, host>>

OnlyCompletionLeases ==
    /\ now = Off /\ revision = Off /\ ingress = Off /\ nextId = Off /\ pending = Off
    /\ cancelled = Off /\ actions = Off /\ nextSeq = Off /\ events = Off
    /\ attempts = Off /\ boundaries = Off /\ cursor = Off /\ pc = Off /\ run = Off
    /\ todo = Off /\ saved = Off /\ batch = Off /\ failures = Off /\ law = Off
    /\ core = Off /\ queue = Off /\ w = Off /\ woke = Off /\ sent = Off /\ op = Off
    /\ info = Off /\ host = Off
KeepCompletionLeases == UNCHANGED <<scene, now, revision, ingress, nextId, pending,
    cancelled, actions, nextSeq, events, attempts, boundaries, cursor, pc, run, todo,
    saved, batch, failures, law, core, queue, w, woke, sent, op, info, host>>

OnlyCorrespondence ==
    /\ revision = Off /\ ingress = Off /\ nextId = Off /\ pending = Off
    /\ cancelled = Off /\ actions = Off /\ nextSeq = Off /\ events = Off
    /\ attempts = Off /\ boundaries = Off /\ cursor = Off /\ pc = Off /\ run = Off
    /\ todo = Off /\ saved = Off /\ batch = Off /\ failures = Off /\ law = Off
    /\ failed = Off /\ core = Off /\ w = Off /\ woke = Off /\ sent = Off
    /\ book = Off /\ epochs = Off /\ reports = Off /\ named = Off /\ version = Off
    /\ clock = Off /\ tick = Off /\ full = Off
KeepCorrespondence == UNCHANGED <<scene, revision, ingress, nextId, pending, cancelled,
    actions, nextSeq, events, attempts, boundaries, cursor, pc, run, todo, saved, batch,
    failures, law, failed, core, w, woke, sent, book, epochs, reports, named, version,
    clock, tick, full>>

OnlyInformationOperations ==
    /\ revision = Off /\ ingress = Off /\ nextId = Off /\ pending = Off
    /\ cancelled = Off /\ actions = Off /\ nextSeq = Off /\ events = Off
    /\ attempts = Off /\ boundaries = Off /\ cursor = Off /\ pc = Off /\ run = Off
    /\ todo = Off /\ saved = Off /\ batch = Off /\ failures = Off /\ law = Off
    /\ failed = Off /\ w = Off /\ woke = Off /\ sent = Off /\ book = Off
    /\ epochs = Off /\ reports = Off /\ named = Off /\ version = Off /\ clock = Off
    /\ tick = Off /\ full = Off /\ op = Off /\ info = Off /\ host = Off
KeepInformationOperations == UNCHANGED <<scene, revision, ingress, nextId, pending,
    cancelled, actions, nextSeq, events, attempts, boundaries, cursor, pc, run, todo,
    saved, batch, failures, law, failed, w, woke, sent, book, epochs, reports, named,
    version, clock, tick, full, op, info, host>>

RuntimeInit ==
    \/ scene = "settling" /\ Settling!Init /\ OnlyKernel
    \/ scene = "leases" /\ Expiring!Init /\ OnlyCompletionLeases

ExtensionInit ==
    \/ scene = "schedule" /\ Piled!Init /\ OnlyLawRules
    \/ scene = "procedure" /\ Voting!Init /\ OnlyLawProcedures
    \/ scene = "fights" /\ Fighting!Init /\ OnlyEngagements
    \/ scene = "letters" /\ Carrying!Init /\ OnlyCorrespondence
    \/ scene = "releases" /\ Publishing!Init /\ OnlyInformationOperations

SettlingStep == scene = "settling" /\ Settling!Next /\ KeepKernel
ScheduleStep == scene = "schedule" /\ Piled!Next /\ KeepLawRules
ProcedureStep == scene = "procedure" /\ Voting!Next /\ KeepLawProcedures
FightsStep == scene = "fights" /\ Fighting!Next /\ KeepEngagements
LeasesStep == scene = "leases" /\ Expiring!Next /\ KeepCompletionLeases
LettersStep == scene = "letters" /\ Carrying!Next /\ KeepCorrespondence
ReleasesStep == scene = "releases" /\ Publishing!Next /\ KeepInformationOperations

SceneStep ==
    \/ SettlingStep \/ ScheduleStep \/ ProcedureStep \/ FightsStep \/ LeasesStep
    \/ LettersStep \/ ReleasesStep

\* What a host does again and again, and the time that passes.  The scene never
\* changes, so fairness to a disjunction is fairness to the part of each scene.
HostStep ==
    \/ scene = "settling" /\ Settling!Step /\ KeepKernel
    \/ scene = "schedule" /\ Piled!Wake /\ KeepLawRules
    \/ scene = "procedure" /\ Voting!Boundary /\ KeepLawProcedures
    \/ scene = "fights" /\ Fighting!Wake /\ KeepEngagements
    \/ scene = "leases" /\ Expiring!TickBoundary /\ KeepCompletionLeases
    \/ scene = "letters" /\ Carrying!Boundary /\ KeepCorrespondence
    \/ scene = "releases" /\ Publishing!Boundary /\ KeepInformationOperations

TimeStep ==
    \/ scene = "schedule" /\ Piled!Tick /\ KeepLawRules
    \/ scene = "fights" /\ Fighting!Tick /\ KeepEngagements
    \/ scene = "leases" /\ Expiring!Tick /\ KeepCompletionLeases
    \/ scene = "letters" /\ Carrying!Tick /\ KeepCorrespondence

\* Steps other calls of the host may come in between of.
PatientStep ==
    \/ scene = "settling" /\ Settling!StepCanonical /\ KeepKernel
    \/ scene = "procedure" /\ Voting!Tick /\ KeepLawProcedures

FightStep == scene = "fights" /\ Fighting!Settled /\ KeepEngagements

Fairness ==
    /\ WF_allVars(HostStep) /\ WF_allVars(TimeStep) /\ SF_allVars(PatientStep)
    /\ WF_queue(FightStep)

\* The two runs: what the runtime owes its host, and what the extensions do.
RuntimeSpec == RuntimeInit /\ [][SceneStep]_allVars /\ Fairness
ExtensionSpec == ExtensionInit /\ [][SceneStep]_allVars /\ Fairness

ASSUME Settling!KernelAssumption /\ Piled!RulesAssumption /\ Voting!ProceduresAssumption
ASSUME Fighting!EngagementsAssumption /\ Expiring!LeaseAssumption
ASSUME Carrying!CorrespondenceAssumption /\ Publishing!InformationAssumption

(* Every record a host leaves queued is in the end admitted or withdrawn,   *)
(* however many boundaries that took it fail (settle_boundary's rollback).  *)
IngressSettles ==
    \A i \in 1..2 :
        scene = "settling" /\ pc = "idle" /\ i \in Settling!Ids(pending)
            ~> (scene = "settling" => pc = "idle" /\ Settling!Settled(i))

(* Every scheduled version of a rule is applied or retired at its time, and *)
(* every procedure ends whoever votes (canwu-law runtime.rs).               *)
LawComesAbout ==
    \A v \in 1..4 :
        (\/ scene = "schedule" /\ v \in law.sched
         \/ scene = "procedure" /\ Voting!Open(law) /\ now = 0)
            ~> (/\ scene = "schedule" => v \notin law.sched
                /\ scene = "procedure" => ~Voting!Open(law))

(* A fight ends within its time and is retired once it was closed, a        *)
(* dispatch on its way ends or waits for a route, an accepted information   *)
(* operation ends (canwu-military, canwu-correspondence, canwu-information).*)
UndertakingsEnd ==
    \A n \in 1..2 :
        /\ (\/ scene = "fights" /\ Fighting!Ending(n)
            \/ scene = "letters" /\ Carrying!InFlight
            \/ scene = "releases" /\ core.op[n].st = "accepted")
              ~> (/\ scene = "fights" => w.fight[n].st # "open"
                  /\ scene = "letters" => ~Carrying!InFlight
                  /\ scene = "releases" => Publishing!Over(core.op[n].st))
        /\ (scene = "fights" /\ Fighting!Retiring(n))
              ~> (scene = "fights" => Fighting!FightRetired(n))

(* What is granted and not activated does not hold its units for ever, also *)
(* when nobody answers the grant any more, nor does a lease that aborts:    *)
(* the hold ends, unless a tick finds no room in the root for the expiry    *)
(* and tells the host; and it ends after a commit, a grant or the host      *)
(* queued a tick once more and there is room (settle_expiry_tick).          *)
HoldsEnd ==
    \A a \in 1..2 :
        scene = "leases" /\ Expiring!Holds(a) ~> (scene = "leases" => ~Expiring!Holds(a))
==============================================================================
