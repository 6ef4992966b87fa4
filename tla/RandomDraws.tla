---------------------------- MODULE RandomDraws ----------------------------
(***************************************************************************)
(* Random evidence (canwu-sim, runtime/random.rs, settlement.rs,           *)
(* scheduling.rs, validation.rs).  A system draws from its own streams in  *)
(* sequence, or by an operation address that the keyed-draw ledger answers *)
(* alike until the draw retires.  A boundary's draws get ids when it       *)
(* commits, but a keyed draw is handed its id at once.  The ledger is not  *)
(* saved: a load rebuilds it from the draw journal, a continuation from    *)
(* the entries of its checkpoint.  Hashes and words of entropy are         *)
(* constants.                                                              *)
(***************************************************************************)
EXTENDS Integers, SequencesExt, FiniteSetsExt, Functions

CONSTANTS
    Systems,           \* 1..n, in dispatch order
    StreamsOf,         \* the streams each system declares
    CoreStream,        \* the report-delay stream of the core
    After,             \* KeyedDrawRetirement: stream -> its duration, where declared
    Addresses,         \* RandomOperationAddressV1 of a producer
    Bounds, Purposes,
    Words,             \* 2^64: a word of entropy is in 0..Words-1
    Word(_, _),        \* DeterministicRng: a stream's word by generator state
    Candidate(_, _),   \* the i-th hash of an operation address, bound and purpose
    Horizon,           \* the last representable instant, and bound on time
    MaxDraws,          \* bound on the draws of a run
    MaxVersion         \* bound on the versions of the record cited as evidence

Owned == UNION {StreamsOf[s] : s \in Systems}
Streams == Owned \cup {CoreStream}
Never == Horizon + 1

(* register_random_streams, validate_random_stream_keys                     *)
StreamsRegistered ==
    /\ \A s, t \in Systems : s # t => StreamsOf[s] \cap StreamsOf[t] = {}
    /\ CoreStream \notin Owned
    /\ DOMAIN After \subseteq Owned /\ \A k \in DOMAIN After : After[k] > 0

VARIABLES
    now,
    streams,   \* RuntimeCurrentState::random_streams
    journal,   \* random_draws, the sealed ones included; the id is the index
    ledger,    \* keyed_draws: <<stream, address>> -> KeyedDrawMemo
    version,   \* the current version of a record; version 0 is the initial one
    cited,     \* every answer a committed boundary got: [request, id]
    run        \* the boundary being settled, or Idle

vars == <<now, streams, journal, ledger, version, cited, run>>

Idle == [stage |-> "idle"]
Nothing == [k \in {} |-> 0]

Init ==
    /\ now = 0
    /\ streams = [k \in Streams |-> [position |-> 0, generator |-> 0]]
    /\ journal = <<>>
    /\ ledger = Nothing
    /\ version = 0
    /\ cited = {}
    /\ run = Idle

----------------------------------------------------------------------------
(* DeterministicRng::range: the first word from the generator's state that  *)
(* is not below the rejection threshold, and the state after it             *)
Range64(k, generator, bound) ==
    LET i == Min({j \in generator..generator + Words : Word(k, j) >= Words % bound})
    IN  [value |-> Word(k, i) % bound, generator |-> i + 1]

(* operation_value_for_purpose_hash: the first candidate in the range that  *)
(* the bound divides                                                        *)
OperationValue(request) ==
    LET i == Min({j \in 0..Words : Candidate(request, j) < (Words \div request.bound) * request.bound})
    IN  Candidate(request, i) % request.bound

(* retirement_time, saturating                                              *)
RetirementTime(k, drawnAt) ==
    IF k \in DOMAIN After THEN Min({drawnAt + After[k], Horizon}) ELSE Never

(* retire_through                                                           *)
RetireThrough(l, at) == Restrict(l, {key \in DOMAIN l : l[key].retires > at})

KeyOf(request) == <<request.stream, request.address>>

(* draw_for_operation: a request the ledger answers ...                     *)
Answered(l, request) ==
    /\ KeyOf(request) \in DOMAIN l
    /\ LET memo == l[KeyOf(request)]
       IN  memo.evidence = request.evidence /\ memo.bound = request.bound
           /\ memo.purpose = request.purpose

(* ... and one it has to draw: a new draw cites the record's current or     *)
(* initial version only (random_draw_for_operation)                         *)
Fresh(l, request) == KeyOf(request) \notin DOMAIN l /\ request.evidence \in {0, version}

Memo(request, id, drawnAt) ==
    [id |-> id, evidence |-> request.evidence, bound |-> request.bound,
     purpose |-> request.purpose, value |-> OperationValue(request),
     retires |-> RetirementTime(request.stream, drawnAt)]

With(l, key, memo) == [k \in DOMAIN l \cup {key} |-> IF k = key THEN memo ELSE l[k]]

----------------------------------------------------------------------------
(* settle_boundary_inner: the working ledger drops what retires by then     *)
Begin(at) ==
    /\ run = Idle /\ at \in now..Horizon
    /\ run' = [stage |-> "dispatch", at |-> at, turn |-> 1, streams |-> streams,
               ledger |-> RetireThrough(ledger, at), pending |-> <<>>, made |-> 0, cited |-> {}]
    /\ UNCHANGED <<now, streams, journal, ledger, version, cited>>

Dispatching == run.stage = "dispatch" /\ run.turn \in Systems
Room == Len(journal) + Len(run.pending) < MaxDraws

(* RandomSession::range                                                     *)
DrawInSequence(k, bound, purpose) ==
    /\ Dispatching /\ Room /\ k \in StreamsOf[run.turn]
    /\ LET state == run.streams[k]
           drawn == Range64(k, state.generator, bound)
       IN  run' = [run EXCEPT
               !.streams[k] = [position |-> @.position + 1, generator |-> drawn.generator],
               !.pending = Append(@, [stream |-> k, position |-> state.position, bound |-> bound,
                                      purpose |-> purpose, value |-> drawn.value,
                                      promised |-> 0])]
    /\ UNCHANGED <<now, streams, journal, ledger, version, cited>>

(* Mutant: the id counts this session's own draws only.                     *)
NextIdOfSession == Len(journal) + 1 + Len(run.pending) - run.made

(* next_draw_id: the boundary's next id after the draws of its earlier      *)
(* systems and of this session                                              *)
NextId == Len(journal) + 1 + Len(run.pending)

(* RandomSession::draw_for_operation                                        *)
DrawForOperation(request) ==
    /\ Dispatching /\ request.stream \in StreamsOf[run.turn]
    /\ \/ /\ Answered(run.ledger, request)
          /\ run' = [run EXCEPT
                 !.cited = @ \cup {[request |-> request, id |-> run.ledger[KeyOf(request)].id]}]
       \/ /\ Fresh(run.ledger, request) /\ Room
          /\ run' = [run EXCEPT
                 !.ledger = With(@, KeyOf(request), Memo(request, NextId, run.at)),
                 !.pending = Append(@, [request |-> request, promised |-> NextId,
                                        value |-> OperationValue(request)]),
                 !.cited = @ \cup {[request |-> request, id |-> NextId]}]
    /\ UNCHANGED <<now, streams, journal, ledger, version, cited>>

(* A system's proposal is accepted, and the next one is dispatched          *)
NextSystem ==
    /\ Dispatching
    /\ run' = [run EXCEPT !.turn = @ + 1, !.made = Len(run.pending)]
    /\ UNCHANGED <<now, streams, journal, ledger, version, cited>>

(* append_boundary_random_draws, and the commit of streams and ledger;      *)
(* the boundary may also have replaced the record                           *)
Commit(v) ==
    /\ run.stage = "dispatch" /\ run.turn \notin Systems
    /\ v \in {version, version + 1} /\ v <= MaxVersion
    /\ IF \E i \in DOMAIN run.pending : run.pending[i].promised \notin {0, Len(journal) + i}
       THEN /\ run' = [stage |-> "commit refused"]
            /\ UNCHANGED <<now, streams, journal, ledger, version, cited>>
       ELSE /\ journal' = journal \o [i \in DOMAIN run.pending |->
                                        [at |-> run.at, draw |-> run.pending[i]]]
            /\ streams' = run.streams
            /\ ledger' = run.ledger
            /\ cited' = cited \cup run.cited
            /\ now' = run.at
            /\ version' = v
            /\ run' = Idle

(* execute_boundary_transaction: a failed boundary leaves nothing           *)
Fail == run # Idle /\ run' = Idle /\ UNCHANGED <<now, streams, journal, ledger, version, cited>>

(* draw_random: the core draws a report's delay while time advances         *)
CoreDraw(at, bound) ==
    /\ run = Idle /\ at \in now..Horizon /\ Len(journal) < MaxDraws
    /\ LET state == streams[CoreStream]
           drawn == Range64(CoreStream, state.generator, bound)
       IN  /\ streams' = [streams EXCEPT
                   ![CoreStream] = [position |-> @.position + 1, generator |-> drawn.generator]]
           /\ journal' = Append(journal, [at |-> at,
                   draw |-> [stream |-> CoreStream, position |-> state.position, bound |-> bound,
                             purpose |-> "delay", value |-> drawn.value, promised |-> 0]])
    /\ now' = at
    /\ UNCHANGED <<ledger, version, cited, run>>

----------------------------------------------------------------------------
Keyed(entry) == "request" \in DOMAIN entry.draw

(* keyed_draw_ledger                                                        *)
Rebuilt(draws, at) ==
    LET step(s, i) ==
            IF ~Keyed(draws[i]) THEN s
            ELSE LET request == draws[i].draw.request
                     kept == RetireThrough(s.ledger, draws[i].at)
                 IN  [ok |-> s.ok /\ KeyOf(request) \notin DOMAIN kept,
                      ledger |-> With(kept, KeyOf(request), Memo(request, i, draws[i].at))]
        built == FoldLeft(step, [ok |-> TRUE, ledger |-> Nothing], [i \in DOMAIN draws |-> i])
    IN  [built EXCEPT !.ledger = RetireThrough(@, at)]

(* KeyedDrawLedger::entries: what a continuation checkpoint carries; an     *)
(* entry has no retirement time of its own                                  *)
Entries(l, at) ==
    {[key |-> key, id |-> l[key].id, evidence |-> l[key].evidence, bound |-> l[key].bound,
      purpose |-> l[key].purpose, value |-> l[key].value] :
        key \in {k \in DOMAIN l : l[k].retires > at}}

(* KeyedDrawLedger::from_entries, with the draw times of the checkpoint     *)
FromEntries(entries, at) ==
    LET memo(e) == [id |-> e.id, evidence |-> e.evidence, bound |-> e.bound,
                    purpose |-> e.purpose, value |-> e.value,
                    retires |-> RetirementTime(e.key[1], journal[e.id].at)]
    IN  [ok |-> /\ \A e, f \in entries : e # f => e.id # f.id /\ e.key # f.key
                /\ \A e \in entries :
                    /\ e.id \in DOMAIN journal
                    /\ memo(e).retires > at
                    /\ e.value = OperationValue([stream |-> e.key[1], address |-> e.key[2],
                                                 bound |-> e.bound, purpose |-> e.purpose,
                                                 evidence |-> e.evidence]),
         ledger |-> [key \in {e.key : e \in entries} |->
                        memo(CHOOSE e \in entries : e.key = key)]]

(* A run loaded from its journal, and one continued from a checkpoint       *)
Restore ==
    /\ run = Idle /\ Rebuilt(journal, now).ok
    /\ ledger' = Rebuilt(journal, now).ledger
    /\ UNCHANGED <<now, streams, journal, version, cited, run>>

Continue ==
    /\ run = Idle /\ FromEntries(Entries(ledger, now), now).ok
    /\ ledger' = FromEntries(Entries(ledger, now), now).ledger
    /\ UNCHANGED <<now, streams, journal, version, cited, run>>

----------------------------------------------------------------------------
DrawRequests == [stream : Owned, address : Addresses, evidence : 0..MaxVersion,
             bound : Bounds, purpose : Purposes]

Next ==
    \/ \E at \in 0..Horizon : Begin(at)
    \/ run # Idle /\ \E k \in Owned, b \in Bounds, p \in Purposes : DrawInSequence(k, b, p)
    \/ run # Idle /\ \E r \in DrawRequests : DrawForOperation(r)
    \/ run # Idle /\ NextSystem
    \/ run # Idle /\ \E v \in 0..MaxVersion : Commit(v)
    \/ Fail
    \/ \E at \in 0..Horizon, b \in Bounds : CoreDraw(at, b)
    \/ Restore
    \/ Continue

Spec == Init /\ [][Next]_vars

----------------------------------------------------------------------------
(* The evidence and the working boundary have their types.                  *)
TypeOK ==
    /\ now \in 0..Horizon
    /\ DOMAIN streams = Streams
    /\ \A i \in DOMAIN journal : journal[i].at \in 0..now
    /\ \A key \in DOMAIN ledger : key \in Owned \X Addresses /\ ledger[key].id \in DOMAIN journal
    /\ run.stage \in {"idle", "dispatch", "commit refused"}

(* The id a keyed draw was handed out with is the one its boundary commits  *)
(* it under, whatever the other systems drew. (next_draw_id,                *)
(* append_boundary_random_draws)                                            *)
PromisesKept == run.stage # "commit refused"

(* Every id a committed boundary was answered with names the draw of that   *)
(* address, bound and purpose. (RandomOperationDraw)                        *)
CitedDrawsExist ==
    \A c \in cited : c.id \in DOMAIN journal /\ Keyed(journal[c.id])
                        /\ journal[c.id].draw.request = c.request

(* Until a draw retires an exact retry of it gets the same draw again,      *)
(* whatever became of its evidence and however the run was restored.        *)
(* (KeyedDrawRetirement)                                                    *)
RetriesAnswered ==
    \A c \in cited :
        RetirementTime(c.request.stream, journal[c.id].at) > now =>
            /\ Answered(ledger, c.request)
            /\ ledger[KeyOf(c.request)].id = c.id

(* The live ledger, the one a load builds and the one a continuation builds *)
(* answer alike from now on, and neither is ever refused. (keyed_draw_      *)
(* ledger, from_entries)                                                    *)
LedgersAgree ==
    run = Idle =>
        LET live == RetireThrough(ledger, now)
            loaded == Rebuilt(journal, now)
            continued == FromEntries(Entries(ledger, now), now)
        IN  loaded.ok /\ loaded.ledger = live /\ continued.ok /\ continued.ledger = live

(* The draws of the journal, drawn again stream by stream, give the state   *)
(* of every stream and the positions they recorded. (validate_random_       *)
(* evidence)                                                                *)
StreamsReplay ==
    LET step(s, entry) ==
            IF Keyed(entry) THEN s
            ELSE LET d == entry.draw
                     drawn == Range64(d.stream, s.at[d.stream].generator, d.bound)
                 IN  [ok |-> s.ok /\ d.position = s.at[d.stream].position /\ drawn.value = d.value,
                      at |-> [s.at EXCEPT ![d.stream] = [position |-> @.position + 1,
                                                         generator |-> drawn.generator]]]
        start == [ok |-> TRUE, at |-> [k \in Streams |-> [position |-> 0, generator |-> 0]]]
        replayed == FoldLeft(step, start, journal)
    IN  replayed.ok /\ replayed.at = streams
=============================================================================
