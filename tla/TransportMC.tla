----------------------------- MODULE TransportMC -----------------------------
(***************************************************************************)
(* Small instances of what travels, side by side: movements and their       *)
(* pools, correspondence, and the information it carries. Each behaviour    *)
(* plays one scene.                                                         *)
(***************************************************************************)
EXTENDS Integers, Sequences

VARIABLE scene       \* which instance the behaviour plays
VARIABLES now, runtime, queue, boundary, op, info, host, core

\* The variables of the components; those a scene does not play are Off.
Off == <<>>
allVars == <<scene, now, runtime, queue, boundary, op, info, host, core>>

Leg(from, to, departs, arrives) ==
    [from |-> from, to |-> to, departs |-> departs, arrives |-> arrives]

\* A route in two legs and the plans it may be rerouted to; a route in one.
SomePlans == <<<<Leg("a", "b", 0, 1), Leg("b", "c", 2, 3)>>, <<Leg("b", "c", 1, 2)>>,
               <<Leg("x", "c", 1, 3)>>>>
OneLeg == <<<<Leg("a", "c", 0, 2)>>>>
ToC(e) == "c"
OwnSubject(e) == e
Errands == {"order", "complete", "fail", "delay", "reroute", "handoff", "cancel",
            "reconcile"}
Dealings == {"order", "offer", "start", "book", "revoke", "cancel"}
SomeWindows == {[from |-> 1, until |-> 1]}
SomeOffers == {[from |-> 0, until |-> 3, quantity |-> 2], [from |-> 0, until |-> 2, quantity |-> 1]}

Op(act, rec, version) == [act |-> act, rec |-> rec, version |-> version, cites |-> 0]
Interpreting(rec, cites) == [act |-> "interpret", rec |-> rec, version |-> 0, cites |-> cites]
NoClaims == [d \in {} |-> 0]

\* A release to three holders and another to two of them.
TwoReleases == <<Op("activate", "news", 1), Op("activate", "edict", 1)>>
ReleaseMembers == [news |-> <<"ada", "bao", "cy">>, edict |-> <<"ada", "cy">>]
ReleaseSubjects == [news |-> "news", edict |-> "edict"]

\* Operations that want one record as created, and one that wants it as changed.
Rivals == <<Op("activate", "news", 1), Op("withdraw", "news", 1), Op("withdraw", "news", 1),
            Op("withdraw", "news", 2)>>
RivalMembers == [news |-> <<"ada">>]
RivalSubjects == [news |-> "news"]

Deliveries == <<Op("deliver", "first", 1), Op("deliver", "second", 1), Op("deliver", "third", 1)>>
DeliveryMembers == [first |-> <<"ada">>, second |-> <<"ada">>, third |-> <<"bao">>]
DeliverySubjects == [first |-> "letter", second |-> "letter", third |-> "letter"]

Readings == <<Interpreting("one", 1), Interpreting("two", 2)>>
ReadingMembers == [one |-> <<"ada">>, two |-> <<"bao">>]
ReadingSubjects == [one |-> "one", two |-> "two"]

\* One order with a delivery is held, rerouted and seized.
Holding == INSTANCE Movement WITH
    Executions <- {1}, Subject <- OwnSubject, Destination <- ToC, Deliveries <- {1},
    PlanIds <- {1, 2, 3}, Plans <- SomePlans, Operations <- Errands, PoolIds <- {},
    Offers <- {}, BookingIds <- {}, Windows <- {}, Quantities <- {}, Priorities <- {},
    Bound <- 4, ReportDelay <- 1, MaxRevisions <- 2, MaxBookings <- 0,
    MaxHandoffs <- 1, MaxSubmitted <- 1

\* Two orders book places of one pool.
Booking == INSTANCE Movement WITH
    Executions <- {1, 2}, Subject <- OwnSubject, Destination <- ToC, Deliveries <- {},
    PlanIds <- {1}, Plans <- OneLeg, Operations <- Dealings, PoolIds <- {1},
    Offers <- SomeOffers, BookingIds <- {1, 2}, Windows <- SomeWindows,
    Quantities <- {1, 2}, Priorities <- {0}, Bound <- 3, ReportDelay <- 0,
    MaxRevisions <- 1, MaxBookings <- 2, MaxHandoffs <- 0, MaxSubmitted <- 2

\* A dispatch is lost or seized on its way, and carried again.
Losing == INSTANCE Correspondence WITH
    Delegations <- <<4>>, MaxLegs <- 2, Waits <- {0, 1}, Dues <- {2},
    Kinds <- {"disaster", "seizure"}, MaxIncidents <- 2, MaxAttempts <- 2,
    MaxSeq <- 10, Apart <- TRUE, MaxTime <- 3

\* A seizure may come while the carrier's next packet is due.
Seizing == INSTANCE Correspondence WITH
    Delegations <- <<4>>, MaxLegs <- 2, Waits <- {0, 1}, Dues <- {2},
    Kinds <- {"seizure"}, MaxIncidents <- 1, MaxAttempts <- 2, MaxSeq <- 10,
    Apart <- FALSE, MaxTime <- 3

\* The carrier's delegation expires and is replaced between attempts.
Retrying == INSTANCE Correspondence WITH
    Delegations <- <<3, 5>>, MaxLegs <- 1, Waits <- {0, 1}, Dues <- {1, 2},
    Kinds <- {"seizure"}, MaxIncidents <- 1, MaxAttempts <- 2, MaxSeq <- 12,
    Apart <- TRUE, MaxTime <- 4

\* An interception comes when the next packet is due; only DroppedSpec plays it.
Dropping == INSTANCE Correspondence WITH
    Delegations <- <<4>>, MaxLegs <- 1, Waits <- {0}, Dues <- {2},
    Kinds <- {"interception"}, MaxIncidents <- 1, MaxAttempts <- 1, MaxSeq <- 8,
    Apart <- FALSE, MaxTime <- 3

\* Two releases share the publication budget of their boundaries.
Publishing == INSTANCE InformationOperations WITH
    Ops <- TwoReleases, Members <- ReleaseMembers, Subject <- ReleaseSubjects,
    Claims <- NoClaims, Chunk <- 2, Loads <- {1, 3}, Mortal <- {"bao"}, Forged <- {1},
    MaxTime <- 1

\* Several operations want one record.
Rivalling == INSTANCE InformationOperations WITH
    Ops <- Rivals, Members <- RivalMembers, Subject <- RivalSubjects,
    Claims <- NoClaims, Chunk <- 2, Loads <- {1, 2}, Mortal <- {}, Forged <- {1},
    MaxTime <- 1

\* Three deliveries of one letter, two of them to one holder.
Delivering == INSTANCE InformationOperations WITH
    Ops <- Deliveries, Members <- DeliveryMembers, Subject <- DeliverySubjects,
    Claims <- NoClaims, Chunk <- 2, Loads <- {0, 1, 2}, Mortal <- {"ada"},
    Forged <- {}, MaxTime <- 2

\* Interpretations under delegations that expire at different times.
Reading == INSTANCE InformationOperations WITH
    Ops <- Readings, Members <- ReadingMembers, Subject <- ReadingSubjects,
    Claims <- <<3, 1, 2>>, Chunk <- 2, Loads <- {2}, Mortal <- {}, Forged <- {},
    MaxTime <- 3

OnlyMovement ==
    /\ op = Off /\ info = Off /\ host = Off /\ core = Off
KeepMovement == UNCHANGED <<scene, op, info, host, core>>

OnlyCorrespondence ==
    /\ runtime = Off /\ boundary = Off /\ core = Off
KeepCorrespondence == UNCHANGED <<scene, runtime, boundary, core>>

OnlyInformationOperations ==
    /\ runtime = Off /\ boundary = Off /\ op = Off /\ info = Off /\ host = Off
KeepInformationOperations == UNCHANGED <<scene, runtime, boundary, op, info, host>>

SceneInit ==
    \/ scene = "holds" /\ Holding!Init /\ OnlyMovement
    \/ scene = "pools" /\ Booking!Init /\ OnlyMovement
    \/ scene = "loss" /\ Losing!Init /\ OnlyCorrespondence
    \/ scene = "seized" /\ Seizing!Init /\ OnlyCorrespondence
    \/ scene = "retry" /\ Retrying!Init /\ OnlyCorrespondence
    \/ scene = "chunks" /\ Publishing!Init /\ OnlyInformationOperations
    \/ scene = "rivals" /\ Rivalling!Init /\ OnlyInformationOperations
    \/ scene = "deliveries" /\ Delivering!Init /\ OnlyInformationOperations
    \/ scene = "readings" /\ Reading!Init /\ OnlyInformationOperations

HoldsStep == scene = "holds" /\ Holding!Next /\ KeepMovement
PoolsStep == scene = "pools" /\ Booking!Next /\ KeepMovement
LossStep == scene = "loss" /\ Losing!Next /\ KeepCorrespondence
SeizedStep == scene = "seized" /\ Seizing!Next /\ KeepCorrespondence
RetryStep == scene = "retry" /\ Retrying!Next /\ KeepCorrespondence
DroppedStep == scene = "dropped" /\ Dropping!Next /\ KeepCorrespondence
ChunksStep == scene = "chunks" /\ Publishing!Next /\ KeepInformationOperations
RivalsStep == scene = "rivals" /\ Rivalling!Next /\ KeepInformationOperations
DeliveriesStep == scene = "deliveries" /\ Delivering!Next /\ KeepInformationOperations
ReadingsStep == scene = "readings" /\ Reading!Next /\ KeepInformationOperations

SceneStep ==
    \/ HoldsStep \/ PoolsStep \/ LossStep \/ SeizedStep \/ RetryStep
    \/ ChunksStep \/ RivalsStep \/ DeliveriesStep \/ ReadingsStep

SceneSpec == SceneInit /\ [][SceneStep]_allVars

\* The packet that moves a correspondence on is dropped.
DroppedSpec ==
    /\ scene = "dropped" /\ Dropping!Init /\ OnlyCorrespondence
    /\ [][DroppedStep]_allVars

ASSUME Holding!PlansChain /\ Booking!PlansChain
ASSUME Losing!CorrespondenceAssumption /\ Retrying!CorrespondenceAssumption
ASSUME Publishing!InformationAssumption /\ Rivalling!InformationAssumption
ASSUME Delivering!InformationAssumption /\ Reading!InformationAssumption

(* The state of the movements passes the validation every boundary makes of *)
(* its candidate; between boundaries each due has its one packet, nothing   *)
(* under way is stuck, no hold makes a leg earlier; pools balance and what  *)
(* is under way was paid for (canwu-movement, canwu-transport).             *)
MovementSound ==
    /\ scene = "holds" =>
          /\ Holding!TypeOK /\ Holding!CandidateValid /\ Holding!OnePacketPerDue
          /\ Holding!NothingStuck /\ Holding!NeverEarlier
    /\ scene = "pools" =>
          /\ Booking!CandidateValid /\ Booking!PoolsBalance
          /\ Booking!OnePacketPerDue /\ Booking!DepartedPaid

ProgressPending == scene = "dropped" => Dropping!ProgressPending

(* A correspondence and the information it carries say the same of every    *)
(* attempt, one at a time, under a delegation that covers it; it always     *)
(* waits for a packet of its own, and what was seized is reported once and  *)
(* never delivered (canwu-correspondence runtime.rs).                       *)
CorrespondenceSound ==
    /\ scene = "loss" =>
          Losing!TypeOK /\ Losing!ProgressPending /\ Losing!SeizuresReported
    /\ scene = "seized" => Seizing!SeizedNotDelivered
    /\ scene = "retry" =>
          /\ Retrying!EndsAgree /\ Retrying!MovesInTransit /\ Retrying!OneAttempt
          /\ Retrying!CarriedUnderDelegation

(* Everyone an operation tells learns it, once, whatever the budget of its  *)
(* boundaries; no boundary fails for it, and a delegation is live until it  *)
(* expires (canwu-information).                                             *)
InformationSound ==
    /\ scene = "chunks" =>
          Publishing!TypeOK /\ Publishing!EveryoneTold /\ Publishing!ToldOnceEach
    /\ scene = "rivals" => Rivalling!NoBoundaryFails
    /\ scene = "deliveries" => Delivering!EveryoneTold
    /\ scene = "readings" => Reading!LiveDelegationsKept

(* After a terminal seizure a movement only closes; a boundary changes a    *)
(* record for one operation at most, and tells a holder of a subject once.  *)
BoundariesChangeOnce ==
    [][/\ scene = "holds" => Holding!SeizureEnds
       /\ scene = "rivals" => Rivalling!OneWriter
       /\ scene = "deliveries" => Delivering!OnceABoundary]_allVars
==============================================================================
