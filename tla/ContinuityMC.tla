----------------------------- MODULE ContinuityMC ----------------------------
(***************************************************************************)
(* Small instances of what a run carries across seals and restores, side    *)
(* by side: command admission, keyed draws and the boundary window. Each    *)
(* behaviour plays one scene; the constants of the configuration are those  *)
(* of the scene "retries".                                                  *)
(***************************************************************************)
EXTENDS CommandAdmission, TLC

VARIABLE scene       \* which instance the behaviour plays
VARIABLES time, streams, journal, ledger, version, cited, run, systems, closed,
    ingress, queue, actions

\* The variables of the components; those a scene does not play are Off, and its
\* admission history is empty.
Off == <<>>
ownVars == <<scene, vars, time, streams, journal, ledger, version, cited, run, systems,
    closed, ingress, queue, actions>>

Symmetries == Permutations(Requests) \cup Permutations(Inputs)

\* Small generators that tell streams and purposes apart.
SomeStreams == <<{"loot"}, {"weather"}>>
SomeAges == "loot" :> 1
SomeWord(k, i) == (3 * i + (IF k = "loot" THEN 1 ELSE 0)) % 4
SomeCandidate(r, i) == (r.bound + i + (IF r.purpose = "first" THEN 1 ELSE 3)) % 4

\* Two systems draw, one of them from a stream whose keyed draws retire.
Draws == INSTANCE RandomDraws WITH
    Systems <- {1, 2}, StreamsOf <- SomeStreams, CoreStream <- "delays",
    After <- SomeAges, Addresses <- {"op"}, Bounds <- {3}, Purposes <- {"first"},
    Words <- 4, Word <- SomeWord, Candidate <- SomeCandidate, Horizon <- 2,
    MaxDraws <- 3, MaxVersion <- 1, now <- time

\* Systems that look back over one and over two instants.
Listing == INSTANCE BoundaryWindow WITH
    Horizons <- {1, 2}, MaxTime <- 2, MaxIngress <- 2, MaxActions <- 1,
    MaxBoundaries <- 3, now <- time

OnlyCommandAdmission ==
    /\ time = Off /\ streams = Off /\ journal = Off /\ ledger = Off /\ version = Off
    /\ cited = Off /\ run = Off /\ systems = Off /\ closed = Off /\ ingress = Off
    /\ queue = Off /\ actions = Off
KeepCommandAdmission == UNCHANGED <<scene, time, streams, journal, ledger, version,
    cited, run, systems, closed, ingress, queue, actions>>

OnlyRandomDraws ==
    /\ Init /\ systems = Off /\ closed = Off /\ ingress = Off /\ queue = Off
    /\ actions = Off
KeepRandomDraws == UNCHANGED <<scene, vars, systems, closed, ingress, queue, actions>>

OnlyBoundaryWindow == Init /\ streams = Off /\ version = Off /\ cited = Off
KeepBoundaryWindow == UNCHANGED <<scene, vars, streams, version, cited>>

SceneInit ==
    \/ scene = "retries" /\ Init /\ OnlyCommandAdmission
    \/ scene = "draws" /\ Draws!Init /\ OnlyRandomDraws
    \/ scene = "window" /\ Listing!Init /\ OnlyBoundaryWindow

\* Bound: all that is recorded asks for the same input.  A known request that asks
\* for another one changes nothing, and the properties ask for every input.
InputsRecorded ==
    {evidence.attempts[n].input : n \in DOMAIN evidence.attempts}
        \cup {evidence.ingress[i].input : i \in DOMAIN evidence.ingress}

RetriesStep ==
    /\ scene = "retries" /\ Next /\ KeepCommandAdmission
    /\ Cardinality(InputsRecorded') <= 1
DrawsStep == scene = "draws" /\ Draws!Next /\ KeepRandomDraws
WindowStep == scene = "window" /\ Listing!Next /\ KeepBoundaryWindow

SceneStep == RetriesStep \/ DrawsStep \/ WindowStep

SceneSpec == SceneInit /\ [][SceneStep]_ownVars

ASSUME Draws!StreamsRegistered
ASSUME Listing!WindowAssumption

(* Keyed draws keep their promise: an id handed out during a boundary is    *)
(* committed under it, and a retry gets the same draw until it retires,     *)
(* also from the ledgers a load and a continuation rebuild (keyed_draws,    *)
(* next_draw_id, append_boundary_random_draws).                             *)
DrawsKept ==
    scene = "draws" =>
        /\ Draws!TypeOK /\ Draws!PromisesKept /\ Draws!CitedDrawsExist
        /\ Draws!RetriesAnswered /\ Draws!LedgersAgree /\ Draws!StreamsReplay

(* The trimmed ledger of settled boundaries is the one a load rebuilds, and *)
(* it is long enough for every window a system may ask for, counting every  *)
(* packet once (boundary_window.rs).                                        *)
WindowKept ==
    scene = "window" =>
        /\ Listing!TypeOK /\ Listing!LedgerRebuilt /\ Listing!LedgerForm
        /\ Listing!WindowComplete /\ Listing!CountedOnce
==============================================================================
