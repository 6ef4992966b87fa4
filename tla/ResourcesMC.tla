----------------------------- MODULE ResourcesMC -----------------------------
(***************************************************************************)
(* Small instances of how capacity is promised and accounted for, side by   *)
(* side: completion leases, their coordinator and participant, and          *)
(* resource accounts. Each behaviour plays one scene; the constants of the  *)
(* configuration are those of the scene "coordinator", in which one lease   *)
(* is passed between the plugins with the delay of a boundary.              *)
(***************************************************************************)
EXTENDS CompletionCoordinator, Sequences

VARIABLE scene       \* which instance the behaviour plays
VARIABLES book, epochs, reports, named, version, clock, tick, full, failed, time, root

\* The variables of the components; those a scene does not play are Off, and its
\* coordinator has no lease.
Off == <<>>
leaseVars == <<book, epochs, reports, named, version, clock, tick, full, failed>>
accountVars == <<time, root>>
ownVars == <<scene, vars, leaseVars, accountVars>>

Share(units, slots, capacity, refill, cooldown, cap) ==
    [guaranteed |-> units, burst |-> units, slots |-> slots, capacity |-> capacity,
     refill |-> refill, cooldown |-> cooldown, cap |-> cap]

HolderOfEach == [a \in 1 .. 2 |-> a]
UnitsOfEach == [a \in 1 .. 2 |-> a]
Alone == [a \in 1 .. 5 |-> {"resource"}]
WithProvider == <<{"provider", "resource"}, {"resource"}>>
OwnTargets == [g \in {<<a, "resource">> : a \in 1 .. 5} |-> {g[1]}]
PairTargets == [g \in {<<a, "resource">> : a \in 1 .. 2} |-> {g[1]}]
ProviderTargets == [g \in {<<1, "provider">>} \cup {<<a, "resource">> : a \in 1 .. 2} |->
                        IF g[2] = "provider" THEN {9} ELSE {g[1]}]
WideBudget ==
    [total |-> 3, shared |-> 1, partition |-> [h \in 1 .. 2 |-> Share(2, 1, 2, 1, 0, 2)]]

\* Authority 1 asks for three leases, authority 2 for one, and 1 bursts.
Askers == <<1, 1, 1, 2, 2>>
Fair == [a \in 1 .. 5 |-> 1]
AskBudget ==
    [total |-> 5, shared |-> 1,
     partition |-> <<Share(1, 2, 2, 2, 1, 1), Share(1, 1, 1, 1, 0, 2)>>]

AllButSteps ==
    {"acquire", "grant", "prepare", "activate", "abort", "release", "redeem", "touch"}

RoomOperations ==
    {"acquire", "grant", "prepare", "release", "fill", "archive", "tick", "expire"}

OneClass == <<1>>
OneTarget == <<"t">>

DemandOf(owner, requested, minimum, whole, sources, granted, override, due, expires, priority) ==
    [owner |-> owner, requested |-> requested, minimum |-> minimum, whole |-> whole,
     sources |-> sources, granted |-> granted, override |-> override, due |-> due,
     expires |-> expires, priority |-> priority]

Three == [x \in 1 .. 2 |-> 3]
\* Two demands of one owner on the same account, the second before the first.
Rivals ==
    <<DemandOf("a", 2, 1, FALSE, {1}, FALSE, FALSE, 0, 2, 0),
      DemandOf("a", 2, 1, FALSE, {1}, FALSE, FALSE, 0, 2, 1)>>
\* Two demands drawn on one grant.
Delegated ==
    <<DemandOf("a", 2, 1, FALSE, {1, 2}, TRUE, FALSE, 0, 1, 0),
      DemandOf("a", 2, 1, FALSE, {1}, TRUE, TRUE, 0, 2, 0)>>
CappedGrant == [cap |-> 3, from |-> 0, until |-> 2]
OpenTwo == <<2, 1>>
OpenThree == <<3, 0>>
TransferOperations ==
    {"demand", "cancel", "allocate", "certify", "transfer", "loss", "archive", "amend",
     "consume", "credit"}
GrantOperations == {"demand", "allocate", "certify", "consume", "revoke", "cancel", "floor"}
OrderOperations == {"demand", "allocate", "certify", "consume", "credit", "debit", "floor"}

\* Two leases of two authorities, one of them with a second participant.
Provider == INSTANCE CompletionLeases WITH
    Leases <- {1, 2}, Holder <- HolderOfEach, Burst <- {2}, Participants <- WithProvider,
    Units <- UnitsOfEach, Targets <- ProviderTargets, Reported <- {1}, Budget <- WideBudget,
    Lifetime <- 3, Operations <- AllButSteps, MaxBoundary <- 2, MaxTime <- 1,
    PendingLimit <- 16

\* Two leases of two authorities, each with a target of its own.
Pair == INSTANCE CompletionLeases WITH
    Leases <- {1, 2}, Holder <- HolderOfEach, Burst <- {2}, Participants <- Alone,
    Units <- UnitsOfEach, Targets <- PairTargets, Reported <- {1}, Budget <- WideBudget,
    Lifetime <- 3, Operations <- AllButSteps \cup {"single_step"}, MaxBoundary <- 4,
    MaxTime <- 1, PendingLimit <- 16

\* Two leases that are granted while other work fills the root and archive commits
\* empty it.
Filling == INSTANCE CompletionLeases WITH
    Leases <- {1, 2}, Holder <- HolderOfEach, Burst <- {2}, Participants <- Alone,
    Units <- UnitsOfEach, Targets <- PairTargets, Reported <- {}, Budget <- WideBudget,
    Lifetime <- 2, Operations <- RoomOperations, MaxBoundary <- 4, MaxTime <- 0,
    PendingLimit <- 16

\* Five leases of two authorities that only ask.
Asking == INSTANCE CompletionLeases WITH
    Leases <- 1 .. 5, Holder <- Askers, Burst <- {3, 5}, Participants <- Alone,
    Units <- Fair, Targets <- OwnTargets, Reported <- {}, Budget <- AskBudget,
    Lifetime <- 3, Operations <- {"acquire", "abort"}, MaxBoundary <- 6, MaxTime <- 4,
    PendingLimit <- 2

\* One demand whose legs are carried, lost, delivered and archived.
Transfers == INSTANCE ResourceAccounts WITH
    Capacity <- Three, Demands <- {1}, Plan <- Rivals, Floors <- {0},
    AccessGrant <- CappedGrant, Opening <- OpenThree, Amounts <- {1},
    Operations <- TransferOperations, MaxLegs <- 2, MaxTransfers <- 2, MaxTime <- 0,
    MaxFlow <- 1, now <- time

\* Two demands drawn on one grant.
Granting == INSTANCE ResourceAccounts WITH
    Capacity <- Three, Demands <- {1, 2}, Plan <- Delegated, Floors <- {0, 1},
    AccessGrant <- CappedGrant, Opening <- OpenTwo, Amounts <- {1},
    Operations <- GrantOperations, MaxLegs <- 3, MaxTransfers <- 1, MaxTime <- 1,
    MaxFlow <- 1, now <- time

\* Two demands of one owner for the same units.
Ordering == INSTANCE ResourceAccounts WITH
    Capacity <- Three, Demands <- {1, 2}, Plan <- Rivals, Floors <- {0, 1},
    AccessGrant <- CappedGrant, Opening <- OpenTwo, Amounts <- {1},
    Operations <- OrderOperations, MaxLegs <- 3, MaxTransfers <- 1, MaxTime <- 1,
    MaxFlow <- 1, now <- time

OnlyCompletionLeases == Init /\ time = Off /\ root = Off
KeepCompletionLeases == UNCHANGED <<scene, vars, accountVars>>

NoCompletionLeases ==
    /\ book = Off /\ epochs = Off /\ reports = Off /\ named = Off /\ version = Off
    /\ clock = Off /\ tick = Off /\ full = Off /\ failed = Off

OnlyCompletionCoordinator == NoCompletionLeases /\ time = Off /\ root = Off
KeepCompletionCoordinator == UNCHANGED <<scene, leaseVars, accountVars>>

OnlyResourceAccounts == Init /\ NoCompletionLeases
KeepResourceAccounts == UNCHANGED <<scene, vars, leaseVars>>

SceneInit ==
    \/ scene = "provider" /\ Provider!Init /\ OnlyCompletionLeases
    \/ scene = "leases" /\ Pair!Init /\ OnlyCompletionLeases
    \/ scene = "room" /\ Filling!Init /\ OnlyCompletionLeases
    \/ scene = "admission" /\ Asking!Init /\ OnlyCompletionLeases
    \/ scene = "coordinator" /\ Init /\ OnlyCompletionCoordinator
    \/ scene = "transfers" /\ Transfers!Init /\ OnlyResourceAccounts
    \/ scene = "grant" /\ Granting!Init /\ OnlyResourceAccounts
    \/ scene = "order" /\ Ordering!Init /\ OnlyResourceAccounts

ProviderStep == scene = "provider" /\ Provider!Next /\ KeepCompletionLeases
LeasesStep == scene = "leases" /\ Pair!Next /\ KeepCompletionLeases
RoomStep == scene = "room" /\ Filling!Next /\ KeepCompletionLeases
AdmissionStep == scene = "admission" /\ Asking!Next /\ KeepCompletionLeases
CoordinatorStep == scene = "coordinator" /\ Next /\ KeepCompletionCoordinator
TransfersStep == scene = "transfers" /\ Transfers!Next /\ KeepResourceAccounts
GrantStep == scene = "grant" /\ Granting!Next /\ KeepResourceAccounts
OrderStep == scene = "order" /\ Ordering!Next /\ KeepResourceAccounts

SceneStep ==
    \/ ProviderStep \/ LeasesStep \/ RoomStep \/ AdmissionStep \/ CoordinatorStep
    \/ TransfersStep \/ GrantStep \/ OrderStep

SceneSpec == SceneInit /\ [][SceneStep]_ownVars

ASSUME Provider!LeaseAssumption /\ Pair!LeaseAssumption /\ Asking!LeaseAssumption
ASSUME Filling!LeaseAssumption /\ CoordinatorAssumption
ASSUME Transfers!AccountAssumption /\ Granting!AccountAssumption /\ Ordering!AccountAssumption

(* Leases never wedge their plugin unnoticed: a root fails to validate only *)
(* after a lease was granted in two boundaries; while something waits to    *)
(* expire or to be cleaned up a tick is on its way, or the last one found   *)
(* no room; guaranteed work is never refused for slots that others took,    *)
(* and no authority gets more leases than its tokens (canwu-resource).      *)
LeasesSound ==
    /\ scene = "provider" =>
          Provider!TypeOK /\ Provider!RootStaysValid /\ Provider!ClockRuns
    /\ scene = "leases" => Pair!RootStaysValid /\ Pair!ClockRuns
    /\ scene = "room" => Filling!RootStaysValid /\ Filling!ClockRuns
    /\ scene = "admission" => Asking!SlotsReserved /\ Asking!RateBound

(* An activation holds: the certificate is issued for grants in their time, *)
(* with both plugins prepared, nothing but redemption or release takes an   *)
(* activated lease or its locks, and a lease that is over never acts again. *)
ActivationsHold ==
    [][/\ scene = "provider" => Provider!HoldsActivation
       /\ scene = "leases" => Pair!IssuesInTime /\ Pair!EndsOnce
       /\ scene = "coordinator" => ActivatesBoth]_ownVars

(* The books of the resource accounts balance after every operation: what   *)
(* is held is what came in less what went out, no demand is promised more   *)
(* than it asks, a grant is charged for what is drawn under it, and what is *)
(* archived is no longer needed (validate_conservation, validate).          *)
AccountsSound ==
    /\ scene = "transfers" =>
          /\ Transfers!TypeOK /\ Transfers!Conserved /\ Transfers!NeverOverserved
          /\ Transfers!ClosuresMarked /\ Transfers!TransfersAnchored
    /\ scene = "grant" => Granting!GrantReconciles
    /\ scene = "order" => Ordering!Conserved /\ Ordering!Backed

(* Demands are served in the order of their priority, and one that ended is *)
(* never served or opened again (allocate).                                 *)
AccountsInOrder ==
    [][/\ scene = "transfers" => Transfers!EndsDemands
       /\ scene = "order" => Ordering!ServesInOrder]_ownVars
==============================================================================
