------------------------------- MODULE PolityMC ------------------------------
(***************************************************************************)
(* Small instances of the institutions that decide and fight, side by       *)
(* side: rules and procedures of law, and military engagements. Each        *)
(* behaviour plays one scene; the constants of the configuration are those  *)
(* of the scene "versions".                                                 *)
(***************************************************************************)
EXTENDS LawRules

VARIABLE scene       \* which instance the behaviour plays
VARIABLES core, queue, w, woke, sent

\* The variables of the components; those a scene does not play are Off.
Off == <<>>
ownVars == <<scene, vars, core, queue, w, woke, sent>>

\* Proposals to one rule.
Plain(op, eff) == [op |-> op, eff |-> eff, policy |-> "none", valid |-> TRUE,
                   dep |-> FALSE, retro |-> FALSE, direct |-> FALSE]
First == {[Plain("establish", 0) EXCEPT !.valid = b, !.direct = d]
            : b \in BOOLEAN, d \in BOOLEAN}
(* Later proposals take effect at times of their own.                      *)
Later(effs, ops, policies) ==
  {[Plain(op, e) EXCEPT !.policy = q, !.direct = d, !.retro = r, !.dep = (op = "amend")]
     : op \in ops, e \in effs, q \in policies, d \in BOOLEAN, r \in {FALSE}}

Apart == [p \in Proposals |->
  IF p = 1 THEN First
  ELSE IF p = 2 THEN Later({1, 3}, {"amend", "suspend", "repeal"}, {"none", "validity"})
  ELSE {[sh EXCEPT !.direct = TRUE]
          : sh \in Later({2, 4}, {"amend", "resume", "displace"}, {"none"})}]

(* Two scheduled versions on the same instant and none after.              *)
Pile == [p \in Proposals |->
  IF p = 1 THEN {[Plain("establish", 0) EXCEPT !.direct = TRUE]}
  ELSE {[Plain("amend", 1) EXCEPT !.direct = TRUE],
        [Plain("amend", 2) EXCEPT !.direct = TRUE]}]

Publicised == [p \in Proposals |->
  IF p = 1 THEN {Plain("establish", 0)}
  ELSE {[Plain("amend", 2) EXCEPT !.policy = "effectiveness", !.dep = d] : d \in BOOLEAN}]
\* Stages of a procedure.
Stage(kind, seats, len, quorum) ==
  [kind |-> kind, seats |-> seats, len |-> len, quorum |-> quorum, threshold |-> 501]
ConsultThenVote == <<Stage("consultation", {"a"}, 1, 0), Stage("vote", {"b"}, 1, 1)>>
TwoVotes == <<Stage("vote", {"a", "b"}, 1, 1), Stage("veto", {"a"}, 1, 1)>>
\* Forces, rulebooks and commands.
ThreeOwners == <<"a", "b", "b">>
ThreeMen == <<2, 1, 2>>
ThreeHome == <<"town", "town", "town">>
FourOwners == <<"a", "a", "b", "b">>
FourMen == <<1, 1, 1, 1>>
FourHome == <<"town", "town", "town", "town">>
BankHome == <<"near", "far", "far">>

TwoEach == [fights |-> 2, sieges |-> 2, crossings |-> 2, reports |-> 2, side |-> 2]

Hourly == [step |-> 1, day |-> 2, wave |-> 1, fight |-> 2, retire |-> 1, cooldown |-> 4]
LongRest == [step |-> 1, day |-> 2, wave |-> 1, fight |-> 4, retire |-> 1, cooldown |-> 4]
Strike(a, d, x, y) == [fails |-> FALSE, loss |-> <<a, d>>, broke |-> <<x, y>>]
Fails(drew) == [fails |-> TRUE, drew |-> drew]
AllBlows == {Strike(1, 1, "continue", "continue"), Strike(0, 1, "continue", "rout"),
             Strike(1, 0, "rout", "continue"), Strike(0, 0, "withdraw", "withdraw"),
             Fails(TRUE), Fails(FALSE)}
Strikes == {Strike(0, 1, "continue", "continue"), Strike(0, 1, "continue", "withdraw"),
            Strike(0, 1, "continue", "rout"), Strike(1, 0, "rout", "continue")}
FewBlows == {Strike(0, 1, "continue", "continue"), Strike(0, 0, "continue", "withdraw"),
             Strike(0, 0, "continue", "rout")}
Draws == {Strike(0, 0, "continue", "continue"), Strike(0, 0, "continue", "rout")}

OpenField(id, att, def) ==
  [c |-> "open", id |-> id, kind |-> "field", site |-> "town", att |-> att, def |-> def]
OpenRelief(id, att, def) ==
  [c |-> "open", id |-> id, kind |-> "relief", site |-> "town", att |-> att, def |-> def]
JoinFight(id, side, f) == [c |-> "join", id |-> id, side |-> side, f |-> f]
OrderSide(id, side, order) == [c |-> "order", id |-> id, side |-> side, order |-> order]
Supply(id) == [c |-> "resume", id |-> id, order |-> "input"]
Profile(id, m) == [c |-> "resume", id |-> id, order |-> "profile", minutes |-> m]
InvestTown(att, def, storm) ==
  [c |-> "invest", g |-> 1, site |-> "town", att |-> att, def |-> def, storm |-> storm]
Enlist(side, f) == [c |-> "joinsiege", g |-> 1, side |-> side, f |-> f]
Leave(f) == [c |-> "release", g |-> 1, f |-> f]
Siege(order) == [c |-> "siege", g |-> 1, order |-> order]
LiftTown == [c |-> "lift", g |-> 1]
CrossRiver(f, def, by) ==
  [c |-> "cross", x |-> 1, f |-> f, from |-> "near", to |-> "far", def |-> def, by |-> by]
Crossing(order, def, by) == [c |-> "crossing", x |-> 1, order |-> order, def |-> def, by |-> by]
March(f, site) == [c |-> "place", f |-> f, site |-> site]
Disband(f) == [c |-> "retire", f |-> f]

FieldCommands ==
  {OpenField(1, {1}, {2}), OpenField(2, {1}, {2, 3}), JoinFight(1, 2, 3),
   OrderSide(1, 1, "abandon"), OrderSide(1, 2, "withdraw"), Supply(1), Profile(1, 2),
   March(1, "far"), Disband(3)}
EndCommands ==
  {OpenField(1, {1}, {2}), OpenField(2, {1}, {3}), OrderSide(1, 1, "abandon"), Supply(1), Profile(1, 2)}
SiegeCommands ==
  {InvestTown({1}, {3}, TRUE), Enlist(1, 2), Enlist(2, 4), Leave(1), Leave(3), Siege("assault"),
   Siege("sortie"), Siege("gate"), LiftTown, March(3, "far"), OpenRelief(1, {4}, {1}),
   OrderSide(1, 1, "abandon")}
SortieCommands ==
  {InvestTown({1}, {3}, FALSE), Enlist(1, 2), Enlist(2, 4), Siege("sortie"), Siege("assault"), Leave(3)}
Repulses == {Strike(0, 0, "continue", "continue"), Strike(0, 0, "withdraw", "continue")}
Retreats == Repulses \cup {Strike(0, 0, "continue", "withdraw")}
RiverCommands ==
  {CrossRiver(1, {2}, 0), CrossRiver(1, {}, 2), Crossing("bank", {2, 3}, 0), Crossing("intercept", {}, 3),
   Crossing("cancel", {}, 0), Crossing("weather", {}, 0), JoinFight(1, 2, 3)}
\* Versions that take effect once they are made public.
Publicity == INSTANCE LawRules WITH
    Proposals <- 1 .. 3, ShapesOf <- Publicised, MaxTime <- 3, Budgeted <- FALSE

\* A consultation, which needs capacity and a signal, before a vote.
Consulting == INSTANCE LawProcedures WITH
    Stages <- ConsultThenVote, Ballots <- {"for", "against"}, NeedsCapacity <- TRUE,
    NeedsSignal <- TRUE, MaxTime <- 4

\* A vote of two seats and a veto.
Voting == INSTANCE LawProcedures WITH
    Stages <- TwoVotes, Ballots <- {"for", "against"}, NeedsCapacity <- FALSE,
    NeedsSignal <- FALSE, MaxTime <- 3

\* Three forces fight in the open; work that is due may be settled late.
Field == INSTANCE Engagements WITH
    Owner <- ThreeOwners, Men <- ThreeMen, Home <- ThreeHome, MaxSieges <- 0,
    MaxCrossings <- 0, MaxFights <- 2, Commands <- FieldCommands, Blows <- AllBlows,
    Limits <- TwoEach, Minutes <- Hourly, MaxCommands <- 3, MaxTime <- 4,
    MaxSteps <- 2, EmplaceDays <- 0, BreachDays <- 1, WaveMen <- 1, Prompt <- FALSE,
    Budgets <- {9}, MaxBatch <- 3

\* Four forces around an invested town, whose fights end by orders, too; late or not.
Sieges == INSTANCE Engagements WITH
    Owner <- FourOwners, Men <- FourMen, Home <- FourHome, MaxSieges <- 1,
    MaxCrossings <- 0, MaxFights <- 3, Commands <- SiegeCommands, Blows <- FewBlows,
    Limits <- TwoEach, Minutes <- Hourly, MaxCommands <- 3, MaxTime <- 5,
    MaxSteps <- 2, EmplaceDays <- 0, BreachDays <- 1, WaveMen <- 1, Prompt <- FALSE,
    Budgets <- {9}, MaxBatch <- 3

\* Four forces, where sorties must rest; what is due is settled in time.
Sorties == INSTANCE Engagements WITH
    Owner <- FourOwners, Men <- FourMen, Home <- FourHome, MaxSieges <- 1,
    MaxCrossings <- 0, MaxFights <- 3, Commands <- SortieCommands, Blows <- Retreats,
    Limits <- TwoEach, Minutes <- LongRest, MaxCommands <- 4, MaxTime <- 7,
    MaxSteps <- 2, EmplaceDays <- 0, BreachDays <- 1, WaveMen <- 1, Prompt <- TRUE,
    Budgets <- {9}, MaxBatch <- 3

\* A force crosses a river in waves, of which several may be due at once.
Crossings == INSTANCE Engagements WITH
    Owner <- ThreeOwners, Men <- ThreeMen, Home <- BankHome, MaxSieges <- 0,
    MaxCrossings <- 1, MaxFights <- 3, Commands <- RiverCommands, Blows <- Strikes,
    Limits <- TwoEach, Minutes <- Hourly, MaxCommands <- 3, MaxTime <- 6,
    MaxSteps <- 2, EmplaceDays <- 0, BreachDays <- 1, WaveMen <- 1, Prompt <- FALSE,
    Budgets <- {9}, MaxBatch <- 3

OnlyLawRules ==
    /\ core = Off /\ queue = Off /\ w = Off /\ woke = Off /\ sent = Off
KeepLawRules == UNCHANGED <<scene, core, queue, w, woke, sent>>

OnlyLawProcedures ==
    /\ failed = Off /\ w = Off /\ woke = Off /\ sent = Off
KeepLawProcedures == UNCHANGED <<scene, failed, w, woke, sent>>

OnlyEngagements ==
    /\ law = Off /\ failed = Off /\ core = Off
KeepEngagements == UNCHANGED <<scene, law, failed, core>>

SceneInit ==
    \/ scene = "versions" /\ Init /\ OnlyLawRules
    \/ scene = "publicity" /\ Publicity!Init /\ OnlyLawRules
    \/ scene = "consultation" /\ Consulting!Init /\ OnlyLawProcedures
    \/ scene = "voting" /\ Voting!Init /\ OnlyLawProcedures
    \/ scene = "field" /\ Field!Init /\ OnlyEngagements
    \/ scene = "sieges" /\ Sieges!Init /\ OnlyEngagements
    \/ scene = "sorties" /\ Sorties!Init /\ OnlyEngagements
    \/ scene = "crossing" /\ Crossings!Init /\ OnlyEngagements

VersionsStep == scene = "versions" /\ Next /\ KeepLawRules
PublicityStep == scene = "publicity" /\ Publicity!Next /\ KeepLawRules
ConsultationStep == scene = "consultation" /\ Consulting!Next /\ KeepLawProcedures
VotingStep == scene = "voting" /\ Voting!Next /\ KeepLawProcedures
FieldStep == scene = "field" /\ Field!Next /\ KeepEngagements
SiegesStep == scene = "sieges" /\ Sieges!Next /\ KeepEngagements
SortiesStep == scene = "sorties" /\ Sorties!Next /\ KeepEngagements
CrossingStep == scene = "crossing" /\ Crossings!Next /\ KeepEngagements

SceneStep ==
    \/ VersionsStep \/ PublicityStep \/ ConsultationStep \/ VotingStep \/ FieldStep
    \/ \/ SiegesStep \/ SortiesStep \/ CrossingStep

SceneSpec == SceneInit /\ [][SceneStep]_ownVars

ASSUME Publicity!RulesAssumption
ASSUME Consulting!ProceduresAssumption /\ Voting!ProceduresAssumption
ASSUME Field!EngagementsAssumption /\ Sieges!EngagementsAssumption
ASSUME Sorties!EngagementsAssumption /\ Crossings!EngagementsAssumption

(* The rule a legal ledger holds stays one it can settle and load again:    *)
(* heads are in order, what is scheduled will wake, what readers are shown  *)
(* is what is in force, nothing depends on a dead culture, and a cold load  *)
(* derives the same ledger (canwu-law rules and storage).                   *)
RulesSound ==
    /\ scene = "versions" =>
          /\ TypeOK /\ HeadsInOrder /\ DueWillWake /\ ShownFollows
          /\ NoDeadCulture /\ NeverFails /\ LoadsAgain
    /\ scene = "publicity" => Publicity!ShownFollows /\ Publicity!DueWillWake

(* The work of a procedure belongs to its open stage, intents are settled   *)
(* once and the boundary changes as much as it projected; a stage that      *)
(* needs capacity does not pass without it and its deadline brings a wake.  *)
ProceduresSound ==
    /\ scene = "consultation" =>
          /\ Consulting!TypeOK /\ Consulting!SeatWorkCurrent /\ Consulting!ContextsCurrent
          /\ Consulting!DeadlineWakes /\ Consulting!StagesNeedCapacity
          /\ Consulting!WorkAsProjected
    /\ scene = "voting" =>
          /\ Voting!SettledOnce /\ Voting!SeatWorkCurrent /\ Voting!ContextsCurrent
          /\ Voting!WorkAsProjected

(* Forces and the fights, sieges and crossings they are in name each other, *)
(* every man is accounted for, due work is registered, sorties rest, waves  *)
(* follow one another, and a saved world loads again (canwu-military).      *)
EngagementsSound ==
    /\ scene = "field" =>
          /\ Field!TypeOK /\ Field!RolesAgree /\ Field!LossesAccounted
          /\ Field!WorkKept /\ Field!Reloads
    /\ scene = "sieges" => Sieges!SiegesStand
    /\ scene = "sorties" =>
          Sorties!SidesMatch /\ Sorties!SortiesRest /\ Sorties!FoughtDaysNotCredited
    /\ scene = "crossing" => Crossings!WavesInTurn

(* No ballot is taken after the deadline of its stage or changed later, and *)
(* the signals of a boundary tell exactly the losses it caused.             *)
StepsSound ==
    [][/\ scene = "voting" => Voting!BallotsInTime
       /\ scene = "sieges" => Sieges!SignalsAdd]_ownVars
==============================================================================
