------------------------------- MODULE StoresMC ------------------------------
(***************************************************************************)
(* Small instances of the stores a run keeps, side by side: domain          *)
(* records, the ledgers of knowledge holders, and the knowledge that        *)
(* boundaries publish. Each behaviour plays one scene; the constants of     *)
(* the configuration are those of the scene "records".                      *)
(***************************************************************************)
EXTENDS RecordBundles, TLC

CONSTANTS a, b, c

VARIABLE scene       \* which instance the behaviour plays
VARIABLES book, count, index, commit, listed, stale, nextId, journal, run

\* The variables of the components; those a scene does not play are Off, and its
\* store is empty.
Off == <<>>
ownVars == <<scene, store, book, count, index, commit, listed, stale, nextId, journal,
    run>>

SomeKinds == a :> "hold" @@ b :> "hold" @@ c :> "note"
Symmetry == Permutations({a, b})

SomeContents ==
    {[kind |-> "rumour", subjects |-> {1}], [kind |-> "report", subjects |-> {1, 2}]}
OneContent == {[kind |-> "rumour", subjects |-> {1}]}
CollidingKeys == [k \in {"rumour", "report"} |-> 1]
DistinctKeys == "rumour" :> 1 @@ "report" :> 2
OneKey == [s \in 1..2 |-> 1]

SomePlugins == <<"news", "courts", "news">>
SomePhases == <<4, 4, 13>>
SomeShares == "courts" :> [records |-> 1, entries |-> 2]
WideLimit == [records |-> 4, entries |-> 4]
NarrowLimit == [records |-> 2, entries |-> 3]

\* One holder, two kinds whose digests collide.
Ledgers == INSTANCE HolderLedgers WITH
    Holders <- {1}, MaxId <- 3, MaxLocal <- 3, ChunkEntries <- 2, Authoring <- FALSE,
    MaxGap <- 0, MaxContradicts <- 1, Contents <- SomeContents,
    KindKey <- CollidingKeys, SubjectKey <- OneKey

\* Two holders share bodies, and tools author records.
Shared == INSTANCE HolderLedgers WITH
    Holders <- {1, 2}, MaxId <- 2, MaxLocal <- 2, ChunkEntries <- 2,
    Authoring <- TRUE, MaxGap <- 1, MaxContradicts <- 1, Contents <- OneContent,
    KindKey <- DistinctKeys, SubjectKey <- OneKey

\* Three systems of two plugins share a narrow budget.
Publishing == INSTANCE KnowledgePublication WITH
    Holders <- {1, 2}, MaxId <- 3, Systems <- {1, 2, 3}, PluginOf <- SomePlugins,
    PhaseOf <- SomePhases, Subjects <- {1}, Reserved <- SomeShares,
    Limit <- NarrowLimit, MaxRelations <- 2, Retiring <- TRUE, MaxBoundaries <- 1,
    MaxDirectives <- 2

\* Two boundaries supersede in chains.
Chains == INSTANCE KnowledgePublication WITH
    Holders <- {1}, MaxId <- 3, Systems <- {1, 3}, PluginOf <- SomePlugins,
    PhaseOf <- SomePhases, Subjects <- {1, 2}, Reserved <- SomeShares,
    Limit <- WideLimit, MaxRelations <- 2, Retiring <- TRUE, MaxBoundaries <- 2,
    MaxDirectives <- 1

OnlyRecordBundles ==
    /\ book = Off /\ count = Off /\ index = Off /\ commit = Off /\ listed = Off
    /\ stale = Off /\ nextId = Off /\ journal = Off /\ run = Off
KeepRecordBundles == UNCHANGED <<scene, book, count, index, commit, listed, stale,
    nextId, journal, run>>

OnlyHolderLedgers ==
    /\ store = EmptyStore /\ nextId = Off /\ journal = Off /\ run = Off
KeepHolderLedgers == UNCHANGED <<scene, store, nextId, journal, run>>

OnlyKnowledgePublication ==
    /\ store = EmptyStore /\ count = Off /\ index = Off /\ commit = Off /\ listed = Off
    /\ stale = Off
KeepKnowledgePublication == UNCHANGED <<scene, store, count, index, commit, listed,
    stale>>

SceneInit ==
    \/ scene = "records" /\ Init /\ OnlyRecordBundles
    \/ scene = "ledgers" /\ Ledgers!Init /\ OnlyHolderLedgers
    \/ scene = "shared ledgers" /\ Shared!Init /\ OnlyHolderLedgers
    \/ scene = "publication" /\ Publishing!Init /\ OnlyKnowledgePublication
    \/ scene = "chains" /\ Chains!Init /\ OnlyKnowledgePublication

RecordsStep == scene = "records" /\ Next /\ KeepRecordBundles
LedgersStep == scene = "ledgers" /\ Ledgers!Next /\ KeepHolderLedgers
SharedLedgersStep == scene = "shared ledgers" /\ Shared!Next /\ KeepHolderLedgers
PublicationStep == scene = "publication" /\ Publishing!Next /\ KeepKnowledgePublication
ChainsStep == scene = "chains" /\ Chains!Next /\ KeepKnowledgePublication

SceneStep ==
    \/ RecordsStep \/ LedgersStep \/ SharedLedgersStep \/ PublicationStep
    \/ ChainsStep

SceneSpec == SceneInit /\ [][SceneStep]_ownVars

ASSUME Ledgers!LedgerAssumption /\ Shared!LedgerAssumption
ASSUME Publishing!ReservationsFit /\ Chains!ReservationsFit

(* The ledgers of holders keep what was published to them: lookups find     *)
(* exactly the current records, the commitment is that of the content, a    *)
(* body is stored while somebody holds it, and what is encoded decodes to   *)
(* ledgers that answer alike (canwu-knowledge ledger).                      *)
LedgersSound ==
    /\ scene = "ledgers" =>
          Ledgers!TypeOK /\ Ledgers!LookupExact /\ Ledgers!RoundTrip
    /\ scene = "shared ledgers" =>
          Shared!LookupExact /\ Shared!CommitmentExact /\ Shared!BodiesHeld

(* Publications valid at their own cuts commit together within every        *)
(* plugin's share, holders hold what was not superseded, and a load of the  *)
(* journal builds the same ledgers from the evidence alone                  *)
(* (commit_knowledge_changes, validate_boundary_knowledge_changes).         *)
PublicationSound ==
    /\ scene = "publication" =>
          Publishing!TypeOK /\ Publishing!SharesHeld /\ Publishing!LoadsAsSettled
    /\ scene = "chains" =>
          Chains!ValidatedCommits /\ Chains!RetiredInFull /\ Chains!LoadsAsSettled
==============================================================================
