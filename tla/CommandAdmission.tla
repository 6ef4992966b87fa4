--------------------------- MODULE CommandAdmission ---------------------------
(***************************************************************************)
(* Who has asked for what already: the three families of commands that may *)
(* not be mixed, the answers to retried requests, and what is left of them *)
(* when the host seals the journals, restores a continuation checkpoint or *)
(* restores a save from all its segments.                                  *)
(*                                                                         *)
(* evidence is the part of RuntimeEvidence these questions read.  Its      *)
(* journals are kept whole here and cut says how much of each is sealed:   *)
(* only what lies above the cut, what is pinned, and the archived tables   *)
(* may be read.  A table entry names the journal record it was made from,  *)
(* whose contents (hash, outcome, receipt) cannot change any more.         *)
(***************************************************************************)
EXTENDS Integers, Sequences, FiniteSets

CONSTANTS
    Requests,       \* command request IDs
    DecisionIds,    \* decision request IDs
    Inputs,         \* what a request may ask for (envelope and revision)
    None,
    Retention,      \* request_outcome_retention
    MaxTime,        \* bound: the last simulation time
    MaxCommands,    \* bound: accepted commands up to which the host submits
    MaxBoundaries   \* bound: boundaries the host settles

ASSUME AdmissionAssumption ==
    /\ None \notin Requests \cup DecisionIds
    /\ Retention \in Nat /\ MaxTime \in Nat
    /\ MaxCommands \in Nat /\ MaxBoundaries \in Nat

VARIABLES
    now,         \* scheduler.now
    evidence,    \* RuntimeEvidence: journals, archived tables, history index
    cursor,      \* counters.admitted_command_count, admitted_attempt_count
    boundaries,  \* counters.next_boundary_id - 1
    pending,     \* scheduler.pending_ingress, the IDs
    taking,      \* what the running boundary has still to admit
    saved        \* its BoundaryTransactionCheckpoint

vars == <<now, evidence, cursor, boundaries, pending, taking, saved>>

\* A command is the attempt that was accepted, or Direct when it was submitted
\* without one.  An attempt names the command it was accepted as, or 0.
Direct == 0
Attempt == [request : Requests, input : Inputs, at : Nat, command : Nat]

\* Queued commands carry a request; decisions may nest one.
IngressRecord ==
    [decision : DecisionIds \cup {None}, request : Requests \cup {None},
     input : Inputs, due : Nat]

Times == 0 .. MaxTime

-----------------------------------------------------------------------------
(* The history index: derived from the retained journals, kept in step by  *)
(* every push and truncation.  Positions count from the cut; 0 is none.    *)

NoCut == [commands |-> 0, attempts |-> 0, ingress |-> 0, boundaries |-> 0]

Least(S) == IF S = {} THEN 0 ELSE CHOOSE p \in S : \A q \in S : p <= q

RetainedAttempts(e) == e.cut.attempts + 1 .. Len(e.attempts)
RetainedIngress(e) == e.cut.ingress + 1 .. Len(e.ingress)
RetainedCommands(e) == e.cut.commands + 1 .. Len(e.commands)

\* archived_request_was_queued
ArchivedQueued(e, r) == e.receipts[r] # 0 \/ r \in e.nested

\* attempt_is_unqueued
IsUnqueued(e, r) == e.queued[r] = 0 /\ ~ArchivedQueued(e, r)

FirstUnqueued(e) ==
    Least({n - e.cut.attempts :
           n \in {a \in RetainedAttempts(e) : IsUnqueued(e, e.attempts[a].request)}})

\* rebuild_command_index
Rebuild(e) ==
    LET indexed ==
        [e EXCEPT
            !.queued = [r \in Requests |->
                Cardinality({i \in RetainedIngress(e) : e.ingress[i].request = r})],
            !.first = [r \in Requests |->
                Least({n - e.cut.attempts :
                       n \in {a \in RetainedAttempts(e) : e.attempts[a].request = r}})],
            !.direct = Least({n - e.cut.commands :
                       n \in {c \in RetainedCommands(e) : e.commands[c] = Direct}})]
    IN [indexed EXCEPT !.unqueued = FirstUnqueued(indexed)]

PushCommand(e, attempt) ==
    [e EXCEPT
        !.commands = Append(@, attempt),
        !.direct = IF attempt = Direct /\ @ = 0
                   THEN Len(e.commands) - e.cut.commands + 1 ELSE @]

PushAttempt(e, attempt) ==
    LET position == Len(e.attempts) - e.cut.attempts + 1 IN
    [e EXCEPT
        !.attempts = Append(@, attempt),
        !.first[attempt.request] = IF @ = 0 THEN position ELSE @,
        !.unqueued = IF @ = 0 /\ IsUnqueued(e, attempt.request) THEN position ELSE @]

PushIngress(e, record) ==
    LET pushed == [e EXCEPT !.ingress = Append(@, record)]
        counted == [pushed EXCEPT !.queued[record.request] = @ + 1]
    IN IF record.request = None THEN pushed
       ELSE [counted EXCEPT !.unqueued = IF @ = 0 THEN 0 ELSE FirstUnqueued(counted)]

\* truncate_command_history: attempts, then commands, then ingress.
Truncate(e, lengths) ==
    LET goneAttempts == lengths.attempts + 1 .. Len(e.attempts)
        goneIngress == lengths.ingress + 1 .. Len(e.ingress)
        cleared ==
            [e EXCEPT
                !.attempts = SubSeq(@, 1, lengths.attempts),
                !.first = [r \in Requests |->
                    IF \E n \in goneAttempts :
                        e.attempts[n].request = r /\ @[r] = n - e.cut.attempts
                    THEN 0 ELSE @[r]],
                !.unqueued = IF @ > lengths.attempts - e.cut.attempts THEN 0 ELSE @,
                !.commands = SubSeq(@, 1, lengths.commands),
                !.direct = IF @ > lengths.commands - e.cut.commands THEN 0 ELSE @]
        shorter ==
            [cleared EXCEPT
                !.ingress = SubSeq(@, 1, lengths.ingress),
                !.queued = [r \in Requests |->
                    @[r] - Cardinality({i \in goneIngress : e.ingress[i].request = r})]]
        unqueuedByTruncation ==
            \E r \in Requests :
                e.queued[r] # 0 /\ shorter.queued[r] = 0 /\ shorter.first[r] # 0
    IN IF unqueuedByTruncation
       THEN [shorter EXCEPT !.unqueued = FirstUnqueued(shorter)] ELSE shorter

-----------------------------------------------------------------------------
(* The answers.                                                            *)

Reply(kind, id) == [kind |-> kind, id |-> id]
New == Reply("new", 0)
Conflict == Reply("conflict", 0)
IsRetired == Reply("retired", 0)

KeptFrom(at) == at - Retention

\* command_request_retired: a request is retired by the time of its attempt,
\* wherever that attempt is found.
Retired(e, at, r) ==
    \/ r \in e.retired
    \/ e.outcomes[r] # 0 /\ e.attempts[e.outcomes[r]].at < KeptFrom(at)
    \/ /\ e.first[r] # 0
       /\ e.attempts[e.cut.attempts + e.first[r]].at < KeptFrom(at)

\* command_outcome_from_attempt reads the accepted command, which must be retained.
OutcomeOf(e, attempt) ==
    IF e.attempts[attempt].command \in 1 .. e.cut.commands
    THEN Reply("lost", attempt) ELSE Reply("outcome", attempt)

\* cached_command_outcome: what admit_command answers for a request it knows.
CommandAnswer(e, at, r, input) ==
    LET attempt == e.cut.attempts + e.first[r] IN
    CASE Retired(e, at, r) -> IsRetired
      [] ~Retired(e, at, r) /\ e.outcomes[r] # 0 ->
            IF e.attempts[e.outcomes[r]].input = input
            THEN Reply("outcome", e.outcomes[r]) ELSE Conflict
      [] ~Retired(e, at, r) /\ e.outcomes[r] = 0 /\ e.first[r] # 0 ->
            IF e.attempts[attempt].input = input THEN OutcomeOf(e, attempt) ELSE Conflict
      [] OTHER -> New

\* command_request_id_is_in_use
InUse(e, r) ==
    \/ e.outcomes[r] # 0 \/ ArchivedQueued(e, r) \/ r \in e.retired
    \/ e.first[r] # 0 \/ e.queued[r] > 0

\* ingress_records: pinned below the cut, then retained.
Readable(e) == e.pinned \cup RetainedIngress(e)

\* An ingress record answers for itself or conflicts.
ReceiptFor(e, i, content) ==
    IF e.ingress[i] = content THEN Reply("receipt", i) ELSE Conflict

\* enqueue_command
EnqueueAnswer(e, at, content) ==
    LET r == content.request
        same == {i \in Readable(e) :
                 e.ingress[i].decision = None /\ e.ingress[i].request = r}
    IN CASE Retired(e, at, r) -> IsRetired
         [] ~Retired(e, at, r) /\ e.receipts[r] # 0 -> ReceiptFor(e, e.receipts[r], content)
         [] ~Retired(e, at, r) /\ e.receipts[r] = 0 /\ same # {} ->
                ReceiptFor(e, Least(same), content)
         [] OTHER -> IF InUse(e, r) THEN Conflict ELSE New

\* The nested command of a new decision must be unused.
NestedAnswer(e, at, r) ==
    CASE r = None -> New
      [] r # None /\ Retired(e, at, r) -> IsRetired
      [] OTHER -> IF InUse(e, r) THEN Conflict ELSE New

\* enqueue_decision
DecisionAnswer(e, at, content) ==
    LET d == content.decision
        same == {i \in Readable(e) : e.ingress[i].decision = d}
    IN CASE e.decisions[d] # 0 -> ReceiptFor(e, e.decisions[d], content)
         [] e.decisions[d] = 0 /\ same # {} -> ReceiptFor(e, Least(same), content)
         [] OTHER -> NestedAnswer(e, at, content.request)

HasDirect(e) == e.legacy \/ e.direct # 0
HasTracked(e) == e.tracked \/ RetainedAttempts(e) # {} \/ RetainedIngress(e) # {}

\* runtime_has_unqueued_command_history
HasUnqueuedHistory(e) == e.unqueuedHistory \/ e.direct # 0 \/ e.unqueued # 0

-----------------------------------------------------------------------------
(* Seals and restores.                                                     *)

\* archived_request_tables and history_flags_of, over the journals up to `cut`.
Tabled(e, cut) ==
    LET attempts == e.cut.attempts + 1 .. cut.attempts
        commands == e.cut.commands + 1 .. cut.commands
        ingress == e.cut.ingress + 1 .. cut.ingress
        entry(old, S) == IF S = {} THEN old ELSE CHOOSE n \in S : \A o \in S : o <= n
        legacy == \E c \in commands : e.commands[c] = Direct
        wasQueued(r) ==
            ArchivedQueued(e, r) \/ \E i \in ingress : e.ingress[i].request = r
    IN [e EXCEPT
        !.outcomes = [r \in Requests |->
            entry(@[r], {n \in attempts : e.attempts[n].request = r})],
        !.receipts = [r \in Requests |->
            entry(@[r], {i \in ingress :
                         e.ingress[i].decision = None /\ e.ingress[i].request = r})],
        !.decisions = [d \in DecisionIds |->
            entry(@[d], {i \in ingress : e.ingress[i].decision = d})],
        !.nested = @ \cup {r \in Requests : \E i \in ingress :
                           e.ingress[i].decision # None /\ e.ingress[i].request = r},
        !.legacy = @ \/ legacy,
        !.tracked = @ \/ attempts # {} \/ ingress # {},
        !.unqueuedHistory = @ \/ legacy
            \/ \E n \in attempts : ~wasQueued(e.attempts[n].request)]

\* settled_cut
SettledCut ==
    [commands |-> cursor.commands, attempts |-> cursor.attempts,
     ingress |-> Len(evidence.ingress), boundaries |-> boundaries]

\* Mutant: an outcome exactly as old as the retention is late already.
LateInclusive(e, at) ==
    {r \in Requests : e.outcomes[r] # 0 /\ e.attempts[e.outcomes[r]].at <= KeptFrom(at)}

Late(e, at) ==
    {r \in Requests : e.outcomes[r] # 0 /\ e.attempts[e.outcomes[r]].at < KeptFrom(at)}

\* retire_command_requests: an outcome leaves with its receipt, its ID stays used.
Retire(e, at) ==
    [e EXCEPT !.outcomes = [r \in Requests |-> IF r \in Late(e, at) THEN 0 ELSE @[r]],
              !.receipts = [r \in Requests |-> IF r \in Late(e, at) THEN 0 ELSE @[r]],
              !.retired = @ \cup Late(e, at)]

\* seal_retained_evidence
SealedOf(e) ==
    Retire(Rebuild([Tabled(e, SettledCut) EXCEPT !.cut = SettledCut,
                                                 !.pinned = pending]), now)

\* Mutant: a checkpoint that names only the requests retired since the last one.
ContinuedForgetting(e) ==
    LET tabled == Tabled(e, SettledCut)
        late == Late(tabled, now)
    IN Rebuild([tabled EXCEPT
            !.cut = SettledCut, !.pinned = pending, !.retired = late,
            !.outcomes = [r \in Requests |-> IF r \in late THEN 0 ELSE @[r]],
            !.receipts = [r \in Requests |-> IF r \in late THEN 0 ELSE @[r]]])

\* continuation_checkpoint, and the runtime restored from it.
ContinuedOf(e) ==
    LET tabled == Tabled(e, SettledCut)
        late == Late(tabled, now)
        gone == e.retired \cup late
    IN Rebuild([tabled EXCEPT
            !.cut = SettledCut, !.pinned = pending, !.retired = gone,
            !.outcomes = [r \in Requests |-> IF r \in late THEN 0 ELSE @[r]],
            !.receipts = [r \in Requests |-> IF r \in gone THEN 0 ELSE @[r]]])

\* from_snapshot: the journals whole again, nothing archived.
Unsealed(e) ==
    Rebuild([e EXCEPT
        !.cut = NoCut, !.pinned = {}, !.retired = {}, !.nested = {},
        !.outcomes = [r \in Requests |-> 0], !.receipts = [r \in Requests |-> 0],
        !.decisions = [d \in DecisionIds |-> 0],
        !.legacy = FALSE, !.tracked = FALSE, !.unqueuedHistory = FALSE])

-----------------------------------------------------------------------------
(* Host calls between boundaries.                                          *)

NoBoundary == [open |-> FALSE, now |-> 0, pending |-> {}, pinned |-> {},
               lengths |-> [commands |-> 0, attempts |-> 0, ingress |-> 0]]

EmptyEvidence ==
    [commands |-> <<>>, attempts |-> <<>>, ingress |-> <<>>, cut |-> NoCut,
     outcomes |-> [r \in Requests |-> 0], receipts |-> [r \in Requests |-> 0],
     decisions |-> [d \in DecisionIds |-> 0], nested |-> {}, retired |-> {},
     legacy |-> FALSE, tracked |-> FALSE, unqueuedHistory |-> FALSE, pinned |-> {},
     queued |-> [r \in Requests |-> 0], first |-> [r \in Requests |-> 0],
     direct |-> 0, unqueued |-> 0]

Init ==
    /\ now = 0 /\ evidence = EmptyEvidence
    /\ cursor = [commands |-> 0, attempts |-> 0] /\ boundaries = 0
    /\ pending = {} /\ taking = {} /\ saved = NoBoundary

\* admit_command from where the answer is not cached: accepted, or rejected by
\* authority, issuer, time, revision or payload.
Admitted(e, r, input, accepted) ==
    LET attempt == [request |-> r, input |-> input, at |-> now,
                    command |-> IF accepted THEN Len(e.commands) + 1 ELSE 0]
    IN PushAttempt(IF accepted THEN PushCommand(e, Len(e.attempts) + 1) ELSE e, attempt)

\* A known request is answered and changes nothing.
AdmitTracked(r, input) ==
    /\ ~HasDirect(evidence)
    /\ IF CommandAnswer(evidence, now, r, input) = New
       THEN \E accepted \in BOOLEAN : evidence' = Admitted(evidence, r, input, accepted)
       ELSE UNCHANGED evidence

\* submit
Submit ==
    /\ ~saved.open /\ Len(evidence.commands) < MaxCommands
    /\ ~HasTracked(evidence)
    /\ evidence' = PushCommand(evidence, Direct)
    /\ UNCHANGED <<now, cursor, boundaries, pending, taking, saved>>

\* process_command
ProcessCommand(r, input) ==
    /\ ~saved.open /\ evidence.cut.ingress = 0 /\ RetainedIngress(evidence) = {}
    /\ AdmitTracked(r, input)
    /\ UNCHANGED <<now, cursor, boundaries, pending, taking, saved>>

Queue(content) ==
    /\ content.due >= now
    /\ evidence' = PushIngress(evidence, content)
    /\ pending' = pending \cup {Len(evidence.ingress) + 1}

Content(d, r, input, due) == [decision |-> d, request |-> r, input |-> input, due |-> due]

\* enqueue_command
EnqueueCommand(r, input, due) ==
    LET content == Content(None, r, input, due) IN
    /\ ~saved.open /\ ~HasUnqueuedHistory(evidence) /\ ~HasDirect(evidence)
    /\ EnqueueAnswer(evidence, now, content) = New
    /\ Queue(content)
    /\ UNCHANGED <<now, cursor, boundaries, taking, saved>>

\* enqueue_decision
EnqueueDecision(d, r, input, due) ==
    LET content == Content(d, r, input, due) IN
    /\ ~saved.open /\ ~HasUnqueuedHistory(evidence)
    /\ DecisionAnswer(evidence, now, content) = New
    /\ Queue(content)
    /\ UNCHANGED <<now, cursor, boundaries, taking, saved>>

\* advance
Advance(target) ==
    /\ ~saved.open /\ target > now
    /\ \A i \in pending : evidence.ingress[i].due > target
    /\ now' = target
    /\ UNCHANGED <<evidence, cursor, boundaries, pending, taking, saved>>

\* seal_evidence: with nothing settled since the last one it does nothing.
Seal ==
    /\ ~saved.open
    /\ evidence.cut # SettledCut
    /\ evidence' = SealedOf(evidence)
    /\ UNCHANGED <<now, cursor, boundaries, pending, taking, saved>>

\* The run goes on from its continuation checkpoint.
Continue ==
    /\ ~saved.open
    /\ evidence' = ContinuedOf(evidence)
    /\ UNCHANGED <<now, cursor, boundaries, pending, taking, saved>>

\* The run goes on from a save with all its segments.
Reload ==
    /\ ~saved.open
    /\ evidence' = Unsealed(evidence)
    /\ UNCHANGED <<now, cursor, boundaries, pending, taking, saved>>

-----------------------------------------------------------------------------
(* The settlement boundary.                                                *)

Lengths(e) == [commands |-> Len(e.commands), attempts |-> Len(e.attempts),
               ingress |-> Len(e.ingress)]

\* settle_boundary: it may not pass earlier ingress, and takes what is due.
BeginBoundary(at) ==
    /\ ~saved.open /\ boundaries < MaxBoundaries
    /\ at >= now /\ \A i \in pending : evidence.ingress[i].due >= at
    /\ saved' = [open |-> TRUE, now |-> now, pending |-> pending,
                 pinned |-> evidence.pinned, lengths |-> Lengths(evidence)]
    /\ now' = at
    /\ taking' = {i \in pending : evidence.ingress[i].due = at}
    /\ pending' = pending \ taking'
    /\ UNCHANGED <<evidence, cursor, boundaries>>

IsCommand(i) == evidence.ingress[i].decision = None

AdmitCommand(i) ==
    /\ saved.open /\ i \in taking /\ IsCommand(i)
    /\ AdmitTracked(evidence.ingress[i].request, evidence.ingress[i].input)
    /\ taking' = taking \ {i}
    /\ UNCHANGED <<now, cursor, boundaries, pending, saved>>

\* command_request_id_is_unique_for_admitted_decision
UniqueForDecision(e, r) ==
    /\ e.outcomes[r] = 0 /\ e.receipts[r] = 0 /\ r \notin e.retired /\ e.first[r] = 0
    /\ e.queued[r] + (IF r \in e.nested THEN 1 ELSE 0) = 1

\* apply_decision_request, after all commands.  The decision is accepted with its
\* nested command, or rejected with no trace of the command (any of its checks
\* may fail, and the nested request must be its own).
AdmitDecision(i) ==
    LET content == evidence.ingress[i] IN
    /\ saved.open /\ i \in taking /\ \A j \in taking : ~IsCommand(j)
    /\ \/ UNCHANGED evidence
       \/ /\ content.request # None /\ UniqueForDecision(evidence, content.request)
          /\ AdmitTracked(content.request, content.input)
    /\ taking' = taking \ {i}
    /\ UNCHANGED <<now, cursor, boundaries, pending, saved>>

\* append_boundary_decision_ingress: a boundary system decides at random.
SystemDecides(d, r, input, due) ==
    /\ saved.open /\ taking = {} /\ ~HasUnqueuedHistory(evidence)
    /\ evidence.decisions[d] = 0
    /\ \A i \in Readable(evidence) : evidence.ingress[i].decision # d
    /\ r # None => ~InUse(evidence, r)
    /\ Queue(Content(d, r, input, due))
    /\ UNCHANGED <<now, cursor, boundaries, taking, saved>>

Commit ==
    /\ saved.open /\ taking = {}
    /\ cursor' = [commands |-> Len(evidence.commands), attempts |-> Len(evidence.attempts)]
    /\ boundaries' = boundaries + 1
    /\ saved' = NoBoundary
    /\ UNCHANGED <<now, evidence, pending, taking>>

\* BoundaryTransactionCheckpoint::restore
FailBoundary ==
    /\ saved.open
    /\ now' = saved.now /\ pending' = saved.pending
    /\ evidence' = [Truncate(evidence, saved.lengths) EXCEPT !.pinned = saved.pinned]
    /\ taking' = {} /\ saved' = NoBoundary
    /\ UNCHANGED <<cursor, boundaries>>

-----------------------------------------------------------------------------

Enqueue ==
    \E input \in Inputs, due \in Times :
        \/ \E r \in Requests : EnqueueCommand(r, input, due)
        \/ \E d \in DecisionIds, r \in Requests \cup {None} :
               EnqueueDecision(d, r, input, due)

Boundary ==
    \/ \E at \in Times : BeginBoundary(at)
    \/ \E i \in taking : AdmitCommand(i) \/ AdmitDecision(i)
    \/ \E d \in DecisionIds, r \in Requests \cup {None}, input \in Inputs, due \in Times :
           SystemDecides(d, r, input, due)
    \/ Commit \/ FailBoundary

Next ==
    \/ Submit \/ \E r \in Requests, input \in Inputs : ProcessCommand(r, input)
    \/ Enqueue \/ \E target \in Times : Advance(target)
    \/ Seal \/ Continue \/ Reload
    \/ Boundary

Spec == Init /\ [][Next]_vars

-----------------------------------------------------------------------------
(* What must hold.                                                         *)

\* What admission reads of the history is bounded by the journals it indexes.
TypeOK ==
    /\ now \in Times /\ boundaries \in 0 .. MaxBoundaries
    /\ evidence.commands \in Seq(0 .. Len(evidence.attempts) + 1)
    /\ evidence.attempts \in Seq(Attempt)
    /\ evidence.ingress \in Seq(IngressRecord)
    /\ evidence.cut.commands <= cursor.commands
    /\ cursor.commands <= Len(evidence.commands)
    /\ evidence.cut.attempts <= cursor.attempts
    /\ cursor.attempts <= Len(evidence.attempts)
    /\ evidence.cut.ingress <= Len(evidence.ingress)
    /\ pending \cup taking \subseteq DOMAIN evidence.ingress
    /\ pending \cap taking = {}

\* The history index says what a scan of the retained journals would say
\* (the debug assertions of the code), after every push, rollback and seal.
IndexExact == evidence = Rebuild(evidence)

AllContents ==
    [decision : {None}, request : Requests, input : Inputs, due : Times]
NewDecisions ==
    [decision : DecisionIds, request : Requests \cup {None}, input : Inputs, due : Times]

\* Every request is answered as a run that never sealed would answer it:
\* command_request_retired, cached_command_outcome, enqueue_command,
\* enqueue_decision and the family checks.
AnswersAlike ==
    LET e == Unsealed(evidence) IN
    /\ \A r \in Requests, input \in Inputs :
           CommandAnswer(evidence, now, r, input) = CommandAnswer(e, now, r, input)
    /\ \A c \in AllContents : EnqueueAnswer(evidence, now, c) = EnqueueAnswer(e, now, c)
    /\ \A c \in NewDecisions : DecisionAnswer(evidence, now, c) = DecisionAnswer(e, now, c)
    /\ HasDirect(evidence) = HasDirect(e)
    /\ HasTracked(evidence) = HasTracked(e)
    /\ HasUnqueuedHistory(evidence) = HasUnqueuedHistory(e)

\* A request is attempted once and queued once, however it comes in, and is
\* never attempted again after its outcome was retired.
UsedOnce ==
    /\ \A a, b \in DOMAIN evidence.attempts :
           evidence.attempts[a].request = evidence.attempts[b].request => a = b
    /\ \A i, j \in DOMAIN evidence.ingress :
           /\ evidence.ingress[i].request # None
           /\ evidence.ingress[i].request = evidence.ingress[j].request
           => i = j

\* Submitted commands, tracked requests and the queue never mix in one run, so
\* that replay knows where each command came from.
FamiliesApart ==
    LET direct == {c \in DOMAIN evidence.commands : evidence.commands[c] = Direct}
        carried == {evidence.ingress[i].request : i \in DOMAIN evidence.ingress}
    IN /\ direct # {} => evidence.attempts = <<>> /\ evidence.ingress = <<>>
       /\ evidence.ingress # <<>> =>
              \A a \in DOMAIN evidence.attempts : evidence.attempts[a].request \in carried

\* What is queued can still be read after any number of seals, and its request is
\* found unused when its boundary admits it.
QueuedStaysFresh ==
    \A i \in pending \cup taking :
        LET content == evidence.ingress[i] IN
        /\ i \in Readable(evidence)
        /\ content.request # None =>
               /\ CommandAnswer(evidence, now, content.request, content.input) = New
               /\ content.decision # None => UniqueForDecision(evidence, content.request)

\* A seal leaves what a continuation checkpoint restores, down to the index; and
\* the checkpoint of the run it restores is itself (verify_continuation_round_trip).
SealedLikeContinued ==
    ~saved.open => /\ SealedOf(evidence) = ContinuedOf(evidence)
                   /\ ContinuedOf(ContinuedOf(evidence)) = ContinuedOf(evidence)

\* A restore accepts the checkpoint (check_retired_requests): nothing kept is
\* retired, kept outcomes are within the retention, and what is pending is kept.
CheckpointRestores ==
    LET e == ContinuedOf(evidence) IN
    ~saved.open =>
        /\ \A r \in e.retired : e.outcomes[r] = 0 /\ e.receipts[r] = 0 /\ e.first[r] = 0
        /\ \A r \in Requests : e.outcomes[r] # 0 =>
               e.attempts[e.outcomes[r]].at \in KeptFrom(now) .. now
        /\ \A i \in pending :
               LET r == e.ingress[i].request IN
               r # None => IF IsCommand(i) THEN e.receipts[r] # 0 ELSE r \in e.nested

CommittedNow == IF saved.open THEN saved.now ELSE now
Committed == IF saved.open THEN Truncate(evidence, saved.lengths) ELSE evidence

\* An answer that was given stays, or is retired for good.
AnswerKept ==
    \A r \in Requests, input \in Inputs :
        LET old == CommandAnswer(Committed, CommittedNow, r, input)
            new == CommandAnswer(Committed, CommittedNow, r, input)'
        IN old # New => new \in {old, IsRetired}

(* The admission history answers from what it kept as from the whole run:   *)
(* after seals, restores and failed boundaries the index is exact, every    *)
(* request gets the answer of a run that never sealed and none is used      *)
(* twice; what is queued is still fresh; the sealed run and the one         *)
(* restored from its continuation checkpoint are the same, and the restore  *)
(* accepts the checkpoint (enqueue_command, continuation_checkpoint,        *)
(* check_retired_requests).                                                 *)
HistoryAnswers ==
    /\ TypeOK /\ IndexExact /\ AnswersAlike /\ UsedOnce /\ FamiliesApart
    /\ QueuedStaysFresh /\ SealedLikeContinued /\ CheckpointRestores

(* Once a request was answered, every retry gets that answer until it is    *)
(* retired for good; seals, restores and failed boundaries change nothing.  *)
AnswersStand == [][AnswerKept]_vars

=============================================================================
