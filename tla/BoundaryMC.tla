------------------------------ MODULE BoundaryMC -----------------------------
(***************************************************************************)
(* Small instances of a boundary's phases, side by side: the reservations   *)
(* it allocates, the stages that write records and components, and the      *)
(* transition manifests they audit. Each behaviour plays one scene; the     *)
(* constants of the configuration are those of the scene "stages".          *)
(***************************************************************************)
EXTENDS BoundaryStages, TLC

VARIABLE scene       \* which instance the behaviour plays
VARIABLES held, pending, journal, audit, contracts, offerers, stage, turn, offers,
    requests, record

\* The variables of the components; those a scene does not play are Off, and its
\* store is empty.
Off == <<>>
ownVars == <<scene, vars, held, pending, journal, audit, contracts, offerers, stage, turn,
    offers, requests, record>>

SomeKinds == "a" :> "hold" @@ "b" :> "note"
SomeStates == <<"grain", "labour">>
SomeRecords == "p" :> "rp" @@ "q" :> "rq"

\* Two coordinators keep two lineages pending.
Pending == INSTANCE Transitions WITH
    None <- NoRef, Plugins <- {"p", "q"}, Coordinators <- {"p", "q"},
    Groups <- {{"q"}}, Lineages <- {"l", "m"}, RecordOf <- SomeRecords,
    MaxPending <- 2, MaxPerCoordinator <- 2, Horizon <- 1, MaxBoundaries <- 3,
    MaxWrites <- 0, MaxRegistered <- 2, Declared <- {},
    versions <- held, run <- audit

\* Participants and other systems write around the manifest of one boundary: three
\* writes, in any of its phases, to one record or to two.
Writing == INSTANCE Transitions WITH
    None <- NoRef, Plugins <- {"p", "q"}, Coordinators <- {"p"},
    Groups <- {{"p"}, {"p", "q"}}, Lineages <- {"l"}, RecordOf <- SomeRecords,
    MaxPending <- 1, MaxPerCoordinator <- 1, Horizon <- 1, MaxBoundaries <- 1,
    MaxWrites <- 3, MaxRegistered <- 1, Declared <- {1, 2},
    versions <- held, run <- audit

\* The same with two writes around a manifest that may be registered a boundary ahead.
Waiting == INSTANCE Transitions WITH
    None <- NoRef, Plugins <- {"p", "q"}, Coordinators <- {"p"},
    Groups <- {{"p", "q"}}, Lineages <- {"l"}, RecordOf <- SomeRecords,
    MaxPending <- 1, MaxPerCoordinator <- 1, Horizon <- 1, MaxBoundaries <- 2,
    MaxWrites <- 2, MaxRegistered <- 1, Declared <- {1},
    versions <- held, run <- audit

\* Two systems offer and ask from two pools.
Reserving == INSTANCE Reservations WITH
    Systems <- {1, 2}, Pools <- {1, 2}, StateOf <- SomeStates, Capacities <- {3},
    Quantities <- {2}, Priorities <- {1, 2}, Ties <- {1, 2}, Names <- {1, 2},
    MaxRequests <- 3

OnlyBoundaryStages ==
    /\ held = Off /\ pending = Off /\ journal = Off /\ audit = Off /\ contracts = Off
    /\ offerers = Off /\ stage = Off /\ turn = Off /\ offers = Off /\ requests = Off
    /\ record = Off
KeepBoundaryStages == UNCHANGED <<scene, held, pending, journal, audit, contracts,
    offerers, stage, turn, offers, requests, record>>

OnlyTransitions ==
    /\ Init /\ contracts = Off /\ offerers = Off /\ stage = Off /\ turn = Off
    /\ offers = Off /\ requests = Off /\ record = Off
KeepTransitions == UNCHANGED <<scene, vars, contracts, offerers, stage, turn, offers,
    requests, record>>

OnlyReservations ==
    Init /\ held = Off /\ pending = Off /\ journal = Off /\ audit = Off
KeepReservations == UNCHANGED <<scene, vars, held, pending, journal, audit>>

SceneInit ==
    \/ scene = "stages" /\ Init /\ OnlyBoundaryStages
    \/ scene = "pending" /\ Pending!Init /\ OnlyTransitions
    \/ scene = "writes" /\ Writing!Init /\ OnlyTransitions
    \/ scene = "ahead" /\ Waiting!Init /\ OnlyTransitions
    \/ scene = "reservations" /\ Reserving!Init /\ OnlyReservations

StagesStep == scene = "stages" /\ Next /\ KeepBoundaryStages
PendingStep == scene = "pending" /\ Pending!Next /\ KeepTransitions
WritesStep == scene = "writes" /\ Writing!Next /\ KeepTransitions
AheadStep == scene = "ahead" /\ Waiting!Next /\ KeepTransitions
ReservationsStep == scene = "reservations" /\ Reserving!Next /\ KeepReservations

SceneStep ==
    \/ StagesStep \/ PendingStep \/ WritesStep \/ AheadStep \/ ReservationsStep

SceneSpec == SceneInit /\ [][SceneStep]_ownVars

ASSUME Pending!TransitionAssumption /\ Writing!TransitionAssumption
ASSUME Waiting!TransitionAssumption
ASSUME Reserving!ReservationAssumption

(* Whenever a run is saved its evidence rebuilds the manifests it still has *)
(* to settle; each is settled in its ready boundary or ahead of it, once    *)
(* per lineage, and none is lost; a boundary in which no participant stages *)
(* passes the audit, so that expiry ends a manifest that fails on every     *)
(* retry.                                                                   *)
ManifestsPending ==
    CASE scene = "pending" ->
            Pending!TypeOK /\ Pending!PendingRebuilt
            /\ Pending!SettlesOnTime /\ Pending!ExpiryRecovers /\ Pending!NoneForgotten
      [] scene = "writes" ->
            Writing!PendingRebuilt /\ Writing!SettlesOnTime /\ Writing!ExpiryRecovers
            /\ Writing!NoneForgotten
      [] scene = "ahead" ->
            Waiting!PendingRebuilt /\ Waiting!SettlesOnTime /\ Waiting!ExpiryRecovers
            /\ Waiting!NoneForgotten
      [] OTHER -> TRUE

(* A committed transition was staged by every participant, found the        *)
(* versions each expected and made the versions each promised, whatever     *)
(* other systems of the boundary wrote and deferred.                        *)
CommittedAsDeclared ==
    /\ scene = "writes" => Writing!CommitsAsDeclared
    /\ scene = "ahead" => Waiting!CommitsAsDeclared

(* What a request gets is what those ranked above it leave of the offer,    *)
(* whatever the order of the proposals; no pool gives more than it has, no  *)
(* boundary is lost to two offers of one pool, and a load accepts the       *)
(* record (allocate_reservations, validate_boundary_reservations).          *)
ReservationsSound ==
    scene = "reservations" =>
        /\ Reserving!TypeOK /\ Reserving!GrantsFollowRank /\ Reserving!WithinOffer
        /\ Reserving!OneOffererOfAPool /\ Reserving!RecordReplays
==============================================================================
