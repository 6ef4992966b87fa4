--------------------------- MODULE Kernel_proofs ---------------------------
(***************************************************************************)
(* Theorems about the ingress kernel, for every value of its constants.    *)
(*                                                                         *)
(* First its types, its revision and the events its boundaries see.        *)
(*                                                                         *)
(* Then the queue keeps faith with its journal: every record has one fate, *)
(* nothing but a reactor's packet is left behind the clock, and what is    *)
(* withdrawn was not yet due.  A call that issues a packet and is then     *)
(* refused takes the identifier back but not the record; from then on the  *)
(* journal is not Intact, until the boundary that did it fails.  Only such *)
(* a refusal does that, and the journal tells of it.                       *)
(*                                                                         *)
(* And an intact journal can be read back: a reader who has only the       *)
(* journal and the settled boundaries computes what each boundary admitted, *)
(* in which order, and what is still queued; issue cuts and issue times    *)
(* grow; and a request is answered once, when it is due.  To its host the  *)
(* kernel is an IngressLedger: the steps of a running boundary change      *)
(* nothing the host can see, a boundary is one step of the ledger when it  *)
(* is settled and none when it fails, and whatever is refused, nothing the *)
(* host was told is taken back.                                            *)
(***************************************************************************)
EXTENDS Kernel, SequenceTheorems, FiniteSetTheorems, WellFoundedInduction, TLAPS

-----------------------------------------------------------------------------
(* The queue order. *)

\* The queue order of ingress.rs is total: two keys with equal fields are equal.
LEMMA BeforeIsTotal ==
    \A a, b \in QueueKeys : a = b \/ Before(a, b) \/ Before(b, a)
  BY DEF QueueKeys, Before

\* The queue order is transitive.
LEMMA BeforeIsTransitive ==
    \A a, b, c \in QueueKeys : Before(a, b) /\ Before(b, c) => Before(a, c)
  BY DEF QueueKeys, Before

\* A finite queue that is not empty has a first key, before every other.
LEMMA FirstExists ==
  ASSUME NEW S \in SUBSET QueueKeys, IsFiniteSet(S), S # {}
  PROVE  First(S) \in S /\ \A j \in S : j = First(S) \/ Before(First(S), j)
<1> DEFINE HasFirst(T) == \E k \in T : \A j \in T : j = k \/ Before(k, j)
           Bad == {T \in FiniteSubsetsOf(S) : T # {} /\ ~HasFirst(T)}
<1>1. ASSUME Bad # {} PROVE FALSE
  <2>1. PICK T \in Bad : \A U \in Bad : <<U, T>> \notin StrictSubsetOrdering(S)
    <3>1. Bad \subseteq FiniteSubsetsOf(S)
      OBVIOUS
    <3> QED
      BY <1>1, <3>1, WFMin, FS_StrictSubsetOrderingWellFounded
  <2>2. PICK x \in T : TRUE
    BY <2>1
  <2> DEFINE U == T \ {x}
  <2>3. /\ T \in SUBSET QueueKeys /\ IsFiniteSet(T) /\ T \subseteq S
        /\ U \in FiniteSubsetsOf(S) /\ <<U, T>> \in StrictSubsetOrdering(S)
    <3>1. T \in FiniteSubsetsOf(S)
      BY <2>1
    <3>2. IsFiniteSet(U)
      BY <3>1, FS_RemoveElement DEF FiniteSubsetsOf
    <3> QED
      BY <2>2, <3>1, <3>2 DEF FiniteSubsetsOf, StrictSubsetOrdering
  <2>4. U = {} \/ HasFirst(U)
    BY <2>1, <2>3
  <2>5. HasFirst(T)
    <3>1. CASE U = {}
      BY <3>1, <2>2
    <3>2. CASE HasFirst(U)
      <4>1. PICK k \in U : \A j \in U : j = k \/ Before(k, j)
        BY <3>2
      <4>2. CASE Before(k, x)
        BY <4>1, <4>2
      <4>3. CASE Before(x, k)
        BY <4>1, <4>3, <2>2, <2>3, BeforeIsTransitive
      <4> QED
        BY <4>1, <4>2, <4>3, <2>2, <2>3, BeforeIsTotal
    <3> QED
      BY <2>4, <3>1, <3>2
  <2> QED
    BY <2>1, <2>5
<1>2. S \in FiniteSubsetsOf(S)
  BY DEF FiniteSubsetsOf
<1>3. HasFirst(S)
  BY <1>1, <1>2
<1> QED
  BY <1>3 DEF First

\* The earliest of some times exists.
LEMMA EarliestExists ==
  ASSUME NEW T \in SUBSET Nat, T # {}
  PROVE  \E t \in T : \A u \in T : t <= u
<1>1. PICK t \in T : \A u \in T : ~(<<u, t>> \in OpToRel(<, Nat))
  BY WFMin, NatLessThanWellFounded
<1>2. ASSUME NEW u \in T, u < t PROVE <<u, t>> \in {ss \in Nat \X Nat : ss[1] < ss[2]}
  BY <1>2
<1>3. ASSUME NEW u \in T PROVE ~(u < t)
  BY <1>1, <1>2 DEF OpToRel
<1> QED
  BY <1>3

-----------------------------------------------------------------------------
(* The inductive invariant. *)

\* Queue keys name journalled records.  The identifier counter may be behind the
\* journal's length (a command refused after it issued a packet takes it back),
\* never ahead of it.
JournalInv ==
    /\ nextId \in 1 .. Len(ingress) + 1
    /\ IsFiniteSet(pending)
    /\ \A k \in pending : k.id \in DOMAIN ingress

\* The locals of the running call fit its step, and what it took off the queue
\* is journalled.
CallInv ==
    /\ pc \in {"admit", "systems"} => run.canonical
    /\ run.caller \in {"boundary", "command"} => run.canonical
    /\ pc = "scheduled" => run.caller \in {"batch", "boundary"}
    /\ run.caller = "command" => pc = "apply"
    /\ pc = "apply" => run.caller # "none"
    /\ IsFiniteSet(run.taken)
    /\ \A k \in run.taken : k.id \in DOMAIN ingress

\* While a command runs, it is the first record the boundary took.
CommandInv ==
    run.caller = "command" =>
        /\ run.taken # {}
        /\ RecordOf(First(run.taken)).body.kind = "command"
        /\ saved.events <= batch.events

\* What a checkpoint goes back to is a prefix of what there is.
CheckpointInv ==
    /\ saved.nextId \in 1 .. saved.ingress + 1
    /\ IsFiniteSet(saved.pending)
    /\ \A k \in saved.pending : k.id \in 1 .. saved.ingress
    /\ saved.ingress <= Len(ingress)
    /\ saved.events <= Len(events)
    /\ saved.attempts <= Len(attempts)
    /\ batch.nextId \in 1 .. Len(ingress) + 1
    /\ batch.events <= Len(events)

TypeInv == TypeOK /\ JournalInv /\ CallInv /\ CommandInv /\ CheckpointInv

\* The type invariant holds initially.
LEMMA TypeInit == Init => TypeInv
<1> SUFFICES ASSUME Init PROVE TypeInv
  OBVIOUS
<1>1. TypeOK
  BY DEF Init, TypeOK, Call, NoFull, NoPartial, CallState, Full, Partial
<1>2. JournalInv /\ CallInv /\ CommandInv /\ CheckpointInv
  BY FS_EmptySet DEF Init, JournalInv, CallInv, CommandInv, CheckpointInv, Call,
     NoFull, NoPartial
<1> QED
  BY <1>1, <1>2 DEF TypeInv

\* What checkpoints measure are numbers.
LEMMA CheckpointTypes ==
  ASSUME TypeInv
  PROVE  /\ saved.ingress \in Nat /\ saved.events \in Nat /\ saved.attempts \in Nat
         /\ batch.events \in Nat /\ batch.nextId \in Nat /\ saved.nextId \in Nat
         /\ Len(ingress) \in Nat /\ Len(events) \in Nat /\ Len(attempts) \in Nat
<1>1. saved \in Full /\ batch \in Partial
  BY DEF TypeInv, TypeOK
<1>2. /\ ingress \in Seq(IngressRecord) /\ events \in Seq(Nat)
      /\ attempts \in Seq(Attempt)
  BY DEF TypeInv, TypeOK
<1>3. saved.ingress \in Nat /\ saved.events \in Nat /\ saved.attempts \in Nat
      /\ saved.nextId \in Nat
  BY <1>1 DEF Full
<1>4. batch.events \in Nat /\ batch.nextId \in Nat
  BY <1>1 DEF Partial
<1>5. Len(ingress) \in Nat /\ Len(events) \in Nat /\ Len(attempts) \in Nat
  BY <1>2
<1> QED
  BY <1>3, <1>4, <1>5

\* The checkpoint a command or a scheduled batch captures.
LEMMA PartialTypes ==
  ASSUME TypeInv
  PROVE  PartialCheckpoint \in Partial
<1>1. /\ now \in Nat /\ actions \subseteq Actions /\ nextSeq \in Nat /\ nextId \in Nat
      /\ revision \in Nat /\ cursor \in Nat
  BY DEF TypeInv, TypeOK
<1>2. Len(events) \in Nat
  BY CheckpointTypes
<1> QED
  BY <1>1, <1>2 DEF PartialCheckpoint, Partial

\* An event that is raised puts no journal and no checkpoint out of step.
LEMMA EventsGrow ==
  ASSUME TypeInv, Len(events') = Len(events) + 1,
         UNCHANGED <<ingress, nextId, pending, attempts, saved, batch>>
  PROVE  JournalInv' /\ CheckpointInv'
<1>1. JournalInv'
  BY DEF TypeInv, JournalInv
<1>2. saved.events <= Len(events') /\ batch.events <= Len(events')
  <2>1. saved.events <= Len(events) /\ batch.events <= Len(events)
    BY DEF TypeInv, CheckpointInv
  <2> QED
    BY <2>1, CheckpointTypes
<1>3. CheckpointInv'
  BY <1>2 DEF TypeInv, CheckpointInv
<1> QED
  BY <1>1, <1>3

\* A prefix of a sequence.
LEMMA PrefixType ==
  ASSUME NEW S, NEW s \in Seq(S), NEW n \in Nat, n <= Len(s)
  PROVE  /\ SubSeq(s, 1, n) \in Seq(S)
         /\ Len(SubSeq(s, 1, n)) = n
         /\ \A i \in 1 .. n : SubSeq(s, 1, n)[i] = s[i]
  OBVIOUS

\* Issuing a well-formed record keeps the journal and the queue well formed.
LEMMA PushIngressInv ==
  ASSUME TypeOK, JournalInv, NEW body \in Body, NEW due \in Nat,
         NEW class \in 0 .. 5, NEW priority \in Int, NEW after \in BOOLEAN,
         PushIngress(body, due, class, priority, after)
  PROVE  /\ ingress' \in Seq(IngressRecord) /\ pending' \subseteq QueueKeys
         /\ nextId' \in Nat /\ cancelled' \subseteq Nat
         /\ JournalInv'
         /\ Len(ingress') = Len(ingress) + 1
         /\ \A i \in DOMAIN ingress : i \in DOMAIN ingress' /\ ingress'[i] = ingress[i]
<1> DEFINE record == NewRecord(body, due, class, priority, after)
<1>1. Eligible(after) \in Nat
  BY DEF Eligible, TypeOK
<1>2. record \in IngressRecord /\ record.id = nextId
  BY <1>1 DEF TypeOK, NewRecord, IngressRecord
<1>3. QueueKey(record) \in QueueKeys /\ QueueKey(record).id = nextId
  BY <1>2 DEF QueueKey, QueueKeys, IngressRecord
<1> HIDE DEF record
<1>4. /\ ingress' = Append(ingress, record) /\ pending' = pending \cup {QueueKey(record)}
      /\ nextId' = nextId + 1 /\ cancelled' = cancelled
  BY DEF PushIngress, record
<1>5. IsFiniteSet(pending')
  BY <1>4, FS_AddElement DEF JournalInv
<1>6. /\ ingress' \in Seq(IngressRecord) /\ Len(ingress') = Len(ingress) + 1
      /\ \A i \in DOMAIN ingress : i \in DOMAIN ingress' /\ ingress'[i] = ingress[i]
  BY <1>2, <1>4 DEF TypeOK
<1>7. nextId' \in Nat /\ nextId' \in 1 .. Len(ingress') + 1 /\ cancelled' \subseteq Nat
  BY <1>4, <1>6 DEF TypeOK, JournalInv
<1>8. nextId \in DOMAIN ingress'
  BY <1>6 DEF TypeOK, JournalInv
<1>9. pending' \subseteq QueueKeys /\ \A k \in pending' : k.id \in DOMAIN ingress'
  BY <1>3, <1>4, <1>6, <1>8 DEF TypeOK, JournalInv
<1> QED
  BY <1>5, <1>6, <1>7, <1>9 DEF JournalInv

\* So does withdrawing a queued record.
LEMMA PushCancellationInv ==
  ASSUME TypeOK, JournalInv, NEW key \in pending, NEW after \in BOOLEAN,
         PushCancellation(key, after)
  PROVE  /\ ingress' \in Seq(IngressRecord) /\ pending' \subseteq QueueKeys
         /\ nextId' \in Nat /\ cancelled' \subseteq Nat
         /\ JournalInv'
         /\ Len(ingress') = Len(ingress) + 1
         /\ \A i \in DOMAIN ingress : i \in DOMAIN ingress' /\ ingress'[i] = ingress[i]
<1> DEFINE record == NewRecord([kind |-> "cancel", target |-> key.id],
                               now, key.class, 0, after)
<1>1. Eligible(after) \in Nat
  BY DEF Eligible, TypeOK
<1>2. key.id \in Nat /\ key.class \in 0 .. 5
  BY DEF TypeOK, QueueKeys
<1>3. record \in IngressRecord
  BY <1>1, <1>2 DEF TypeOK, NewRecord, IngressRecord, Body
<1> HIDE DEF record
<1>4. /\ ingress' = Append(ingress, record) /\ pending' = pending \ {key}
      /\ nextId' = nextId + 1 /\ cancelled' = cancelled \cup {key.id}
  BY DEF PushCancellation, record
<1>5. IsFiniteSet(pending')
  BY <1>4, FS_RemoveElement DEF JournalInv
<1>6. /\ ingress' \in Seq(IngressRecord) /\ Len(ingress') = Len(ingress) + 1
      /\ \A i \in DOMAIN ingress : i \in DOMAIN ingress' /\ ingress'[i] = ingress[i]
  BY <1>3, <1>4 DEF TypeOK
<1>7. nextId' \in Nat /\ nextId' \in 1 .. Len(ingress') + 1
  BY <1>4, <1>6 DEF TypeOK, JournalInv
<1>9. cancelled' \subseteq Nat
  BY <1>2, <1>4 DEF TypeOK
<1>8. pending' \subseteq QueueKeys /\ \A k \in pending' : k.id \in DOMAIN ingress'
  BY <1>4, <1>6 DEF TypeOK, JournalInv
<1> QED
  BY <1>5, <1>6, <1>7, <1>8, <1>9 DEF JournalInv
-----------------------------------------------------------------------------
(* The invariant is preserved by every action. *)

\* Every step that issues one record and leaves the call alone but for what it
\* generated keeps the invariant.
LEMMA IssueInv ==
  ASSUME TypeInv,
         ingress' \in Seq(IngressRecord), pending' \subseteq QueueKeys,
         nextId' \in Nat, cancelled' \subseteq Nat, JournalInv',
         Len(ingress') = Len(ingress) + 1,
         \A i \in DOMAIN ingress : i \in DOMAIN ingress' /\ ingress'[i] = ingress[i],
         run' = run \/ run' = [run EXCEPT !.generated = @ \cup {nextId}],
         todo' \in Seq(Work),
         UNCHANGED <<now, schedule, events, outcomes, settled, pc, saved, batch,
                     failures>>
  PROVE  TypeInv'
<1>1. run' \in CallState
  <2>1. run \in CallState /\ nextId \in Nat
    BY DEF TypeInv, TypeOK
  <2>2. run.generated \cup {nextId} \in SUBSET Nat
    BY <2>1 DEF CallState
  <2> QED
    BY <2>1, <2>2 DEF CallState
<1>2. /\ run'.taken = run.taken /\ run'.caller = run.caller
      /\ run'.canonical = run.canonical
  BY DEF TypeInv, TypeOK, CallState
<1>3. TypeOK'
  BY <1>1 DEF TypeInv, TypeOK, schedule, outcomes, settled
<1>4. CallInv'
  BY <1>2 DEF TypeInv, CallInv
<1>5. CommandInv'
  <2>1. ASSUME run.caller = "command" PROVE First(run.taken) \in run.taken
    BY <2>1, FirstExists DEF TypeInv, TypeOK, CallState, CallInv, CommandInv
  <2> QED
    BY <1>2, <2>1 DEF TypeInv, CommandInv, CallInv, RecordOf
<1>6. CheckpointInv'
  <2>1. Len(ingress) \in Nat /\ Len(events) \in Nat /\ Len(attempts) \in Nat
    BY DEF TypeInv, TypeOK
  <2>2. saved.ingress \in Nat /\ batch.nextId \in Nat
    BY DEF TypeInv, TypeOK, Partial, Full
  <2> QED
    BY <2>1, <2>2 DEF TypeInv, CheckpointInv, outcomes
<1> QED
  BY <1>3, <1>4, <1>5, <1>6 DEF TypeInv

\* Enqueuing a command, a packet or a calendar boundary keeps the invariant.
LEMMA EnqueueInv == TypeInv /\ Enqueue => TypeInv'
<1> SUFFICES ASSUME TypeInv, Enqueue PROVE TypeInv'
  OBVIOUS
<1>1. PICK due \in Times :
          \/ \E priority \in Priorities, request \in Requests,
                expected \in revision .. revision + 1 :
                EnqueueCommand(due, priority, request, expected)
          \/ \E plugin \in Plugins, internal \in BOOLEAN,
                class \in PacketClasses, priority \in Priorities :
                EnqueuePlugin(plugin, internal, class, due, priority)
          \/ ScheduleCalendar(due)
  BY DEF Enqueue
<1>2. TypeOK /\ JournalInv /\ due \in Nat
  BY KernelAssumption DEF TypeInv, TypeOK, Times
<1>3. ASSUME NEW priority \in Priorities, NEW request \in Requests,
             NEW expected \in revision .. revision + 1,
             EnqueueCommand(due, priority, request, expected)
      PROVE  TypeInv'
  <2> DEFINE body == [kind |-> "command", request |-> request, expected |-> expected]
  <2>1. body \in Body /\ priority \in Int /\ 0 \in 0 .. 5
    BY <1>2, KernelAssumption DEF TypeOK, Body
  <2>2. PushIngress(body, due, 0, priority, FALSE)
    BY <1>3 DEF EnqueueCommand, Command
  <2>3. todo' \in Seq(Work) /\ run' = run
    BY <1>2, <1>3 DEF EnqueueCommand, control, TypeOK
  <2> HIDE DEF body
  <2>4. UNCHANGED <<now, schedule, events, outcomes, settled, pc, saved, batch, failures>>
    BY <1>3 DEF EnqueueCommand, control
  <2> QED
    BY <1>2, <2>1, <2>2, <2>3, <2>4, PushIngressInv, IssueInv
<1>4. ASSUME NEW plugin \in Plugins, NEW internal \in BOOLEAN,
             NEW class \in PacketClasses, NEW priority \in Priorities,
             EnqueuePlugin(plugin, internal, class, due, priority)
      PROVE  TypeInv'
  <2> DEFINE body == [kind |-> "plugin", plugin |-> plugin, internal |-> internal,
                      issuer |-> Host]
  <2>1. body \in Body /\ priority \in Int /\ class \in 0 .. 5
    BY KernelAssumption DEF Body
  <2>2. PushIngress(body, due, class, priority, FALSE)
    BY <1>4 DEF EnqueuePlugin
  <2>3. todo' \in Seq(Work) /\ run' = run
    BY <1>2, <1>4 DEF EnqueuePlugin, control, TypeOK
  <2> HIDE DEF body
  <2>4. UNCHANGED <<now, schedule, events, outcomes, settled, pc, saved, batch, failures>>
    BY <1>4 DEF EnqueuePlugin, control
  <2> QED
    BY <1>2, <2>1, <2>2, <2>3, <2>4, PushIngressInv, IssueInv
<1>5. ASSUME ScheduleCalendar(due)
      PROVE  TypeInv'
  <2> DEFINE body == [kind |-> "calendar"]
  <2>1. body \in Body /\ 0 \in Int /\ 5 \in 0 .. 5
    BY DEF Body
  <2>2. PushIngress(body, due, 5, 0, FALSE)
    BY <1>5 DEF ScheduleCalendar, ScheduledSystem
  <2>3. todo' \in Seq(Work) /\ run' = run
    BY <1>2, <1>5 DEF ScheduleCalendar, control, TypeOK
  <2> HIDE DEF body
  <2>4. UNCHANGED <<now, schedule, events, outcomes, settled, pc, saved, batch, failures>>
    BY <1>5 DEF ScheduleCalendar, control
  <2> QED
    BY <1>2, <2>1, <2>2, <2>3, <2>4, PushIngressInv, IssueInv
<1> QED
  BY <1>1, <1>3, <1>4, <1>5

\* Withdrawing a queued packet keeps the invariant.
LEMMA WithdrawInv == TypeInv /\ Withdraw => TypeInv'
<1> SUFFICES ASSUME TypeInv, NEW key \in pending, NEW plugin \in Plugins,
                    NEW authority \in {"host", "permit"},
                    CancelPlugin(key, authority, plugin)
             PROVE  TypeInv'
  BY DEF Withdraw
<1>1. PushCancellation(key, FALSE) /\ TypeOK /\ JournalInv
  BY DEF CancelPlugin, TypeInv
<1>2. /\ todo' \in Seq(Work) /\ run' = run
      /\ UNCHANGED <<now, schedule, events, outcomes, settled, pc, saved, batch, failures>>
  BY <1>1 DEF CancelPlugin, control, TypeOK
<1> QED
  BY <1>1, <1>2, PushCancellationInv, IssueInv

\* The values a checkpoint or the locals of a call take when there is none.
LEMMA IdleTypes ==
    /\ \A goal \in Nat, canonical \in BOOLEAN : Call(goal, canonical) \in CallState
    /\ Call(0, FALSE) \in CallState /\ NoFull \in Full /\ NoPartial \in Partial
  BY DEF Call, CallState, NoFull, Full, NoPartial, Partial

\* A call that starts has taken nothing off the queue.
LEMMA CallTakesNothing ==
  ASSUME NEW goal, NEW canonical
  PROVE  /\ Call(goal, canonical).taken = {}
         /\ Call(goal, canonical).caller = "none"
         /\ Call(goal, canonical).canonical = canonical
  BY DEF Call

\* A legacy advance starts.
LEMMA BeginAdvanceInv ==
  ASSUME TypeInv, NEW target \in Nat, BeginAdvance(target)
  PROVE  TypeInv'
<1>1. TypeOK'
  BY IdleTypes DEF TypeInv, TypeOK, BeginAdvance, journal, schedule, outcomes, settled
<1>2. JournalInv' /\ CheckpointInv'
  BY DEF TypeInv, JournalInv, CheckpointInv, BeginAdvance, journal, outcomes
<1>3. CallInv' /\ CommandInv'
  BY CallTakesNothing, FS_EmptySet DEF CallInv, CommandInv, BeginAdvance
<1> QED
  BY <1>1, <1>2, <1>3 DEF TypeInv

\* A boundary starts: its checkpoint is the present state.
LEMMA BeginBoundaryInv ==
  ASSUME TypeInv, NEW at \in Nat, BeginBoundary(at)
  PROVE  TypeInv'
<1>1. FullCheckpoint \in Full
  BY DEF TypeInv, TypeOK, FullCheckpoint, Full
<1>2. TypeOK'
  BY <1>1, IdleTypes DEF TypeInv, TypeOK, BeginBoundary, journal, schedule, outcomes, settled
<1>3. JournalInv' /\ CheckpointInv'
  BY DEF TypeInv, TypeOK, JournalInv, CheckpointInv, BeginBoundary, journal, outcomes,
     FullCheckpoint
<1>4. CallInv' /\ CommandInv'
  BY CallTakesNothing, FS_EmptySet DEF CallInv, CommandInv, BeginBoundary
<1> QED
  BY <1>2, <1>3, <1>4 DEF TypeInv

\* The next boundary starts at the earliest due time, which exists.
LEMMA StepCanonicalInv == TypeInv /\ StepCanonical => TypeInv'
<1> SUFFICES ASSUME TypeInv, StepCanonical PROVE TypeInv'
  OBVIOUS
<1>1. DueTimes \in SUBSET Nat /\ DueTimes # {}
  BY DEF DueTimes, TypeInv, TypeOK, Actions, QueueKeys, StepCanonical
<1>2. NextDue \in Nat
  BY <1>1, EarliestExists DEF NextDue
<1>3. (IF NextDue < now THEN now ELSE NextDue) \in Nat
  BY <1>2 DEF TypeInv, TypeOK
<1> QED
  BY <1>3, BeginBoundaryInv DEF StepCanonical

\* A scheduled batch starts under a checkpoint of its own.
LEMMA BeginBatchInv == TypeInv /\ BeginBatch => TypeInv'
<1> SUFFICES ASSUME TypeInv, BeginBatch PROVE TypeInv'
  OBVIOUS
<1>1. PICK action \in actions : now' = action.at
  BY DEF BeginBatch
<1>2. now' \in Nat
  BY <1>1 DEF TypeInv, TypeOK, Actions
<1>3. batch' = PartialCheckpoint /\ PartialCheckpoint \in Partial
  BY PartialTypes DEF BeginBatch
<1>4. run' \in CallState
  BY DEF TypeInv, TypeOK, CallState, BeginBatch
<1>5. TypeOK'
  BY <1>2, <1>3, <1>4 DEF TypeInv, TypeOK, BeginBatch, journal, schedule, outcomes, settled
<1>6. JournalInv' /\ CheckpointInv'
  BY <1>3 DEF TypeInv, TypeOK, JournalInv, CheckpointInv, BeginBatch, journal, outcomes,
     PartialCheckpoint
<1>7. CallInv' /\ CommandInv'
  BY DEF TypeInv, TypeOK, CallState, CallInv, CommandInv, BeginBatch, journal
<1> QED
  BY <1>5, <1>6, <1>7 DEF TypeInv

\* A legacy advance reaches its target.
LEMMA FinishAdvanceInv == TypeInv /\ FinishAdvance => TypeInv'
<1> SUFFICES ASSUME TypeInv, FinishAdvance PROVE TypeInv'
  OBVIOUS
<1>1. TypeOK'
  BY IdleTypes DEF TypeInv, TypeOK, CallState, FinishAdvance, Return, journal, schedule,
     outcomes, settled
<1>2. JournalInv' /\ CheckpointInv'
  BY FS_EmptySet DEF TypeInv, TypeOK, JournalInv, CheckpointInv, FinishAdvance, Return,
     journal, outcomes, NoFull, NoPartial
<1>3. CallInv' /\ CommandInv'
  BY CallTakesNothing, FS_EmptySet DEF CallInv, CommandInv, FinishAdvance, Return
<1> QED
  BY <1>1, <1>2, <1>3 DEF TypeInv

\* A boundary takes its due ingress off the queue.
LEMMA TakeDueIngressInv == TypeInv /\ TakeDueIngress => TypeInv'
<1> SUFFICES ASSUME TypeInv, TakeDueIngress PROVE TypeInv'
  OBVIOUS
<1> DEFINE due == {k \in pending : k.due <= run.goal}
<1>1. /\ run' = [run EXCEPT !.taken = due] /\ pending' = pending \ due
      /\ pc' = "admit" /\ run.canonical /\ now' = run.goal
  BY DEF TakeDueIngress
<1>2. due \in SUBSET pending /\ pending' \in SUBSET pending
  BY <1>1
<1> HIDE DEF due
<1>3. IsFiniteSet(due) /\ IsFiniteSet(pending')
  BY <1>2, FS_Subset DEF TypeInv, JournalInv
<1>4. /\ run' \in CallState /\ run'.taken = due /\ run'.caller = run.caller
      /\ run'.canonical = run.canonical
  BY <1>1, <1>2 DEF TypeInv, TypeOK, CallState
<1>5. TypeOK'
  BY <1>1, <1>2, <1>4 DEF TypeInv, TypeOK, CallState, TakeDueIngress, schedule, outcomes,
     settled
<1>6. JournalInv' /\ CheckpointInv'
  BY <1>2, <1>3 DEF TypeInv, JournalInv, CheckpointInv, TakeDueIngress, outcomes
<1>7. CallInv' /\ CommandInv'
  BY <1>1, <1>2, <1>3, <1>4 DEF TypeInv, JournalInv, CallInv, CommandInv, TakeDueIngress
<1> QED
  BY <1>5, <1>6, <1>7 DEF TypeInv

\* A scheduled action becomes work to apply.
LEMMA RunScheduledInv == TypeInv /\ RunScheduled => TypeInv'
<1> SUFFICES ASSUME TypeInv, RunScheduled PROVE TypeInv'
  OBVIOUS
<1>1. PICK action \in actions :
        /\ actions' = actions \ {action}
        /\ todo' = <<[directive |-> [op |-> action.op, after |-> 0, next |-> action.op],
                      plugin |-> action.plugin, depth |-> 0]>>
  BY DEF RunScheduled
<1>2. action.op \in {"emit", "fail"} /\ action.plugin \in Plugins
  BY DEF TypeInv, TypeOK, Actions
<1>3. todo' \in Seq(Work)
  BY <1>1, <1>2 DEF Work, Directive, Ops
<1>4. TypeOK'
  BY <1>1, <1>3 DEF TypeInv, TypeOK, RunScheduled, journal, outcomes, settled
<1>5. JournalInv' /\ CheckpointInv'
  BY DEF TypeInv, JournalInv, CheckpointInv, RunScheduled, journal, outcomes
<1>6. CallInv' /\ CommandInv'
  BY DEF TypeInv, CallInv, CommandInv, RunScheduled, journal
<1> QED
  BY <1>4, <1>5, <1>6 DEF TypeInv

\* A batch, or a boundary's scheduled work, is done.
LEMMA EndScheduledInv == TypeInv /\ EndScheduled => TypeInv'
<1> SUFFICES ASSUME TypeInv, EndScheduled PROVE TypeInv'
  OBVIOUS
<1>1. /\ run' \in CallState /\ run'.taken = run.taken /\ run'.caller = run.caller
      /\ run'.canonical = run.canonical
  <2>1. run \in CallState /\ Len(events) \in Nat
    BY DEF TypeInv, TypeOK
  <2>2. run' = run \/ run' = [run EXCEPT !.cut = Len(events)]
    BY DEF EndScheduled
  <2> QED
    BY <2>1, <2>2 DEF CallState
<1>2. TypeOK'
  BY <1>1, IdleTypes DEF TypeInv, TypeOK, EndScheduled, journal, schedule, outcomes, settled
<1>3. JournalInv' /\ CheckpointInv'
  BY DEF TypeInv, TypeOK, JournalInv, CheckpointInv, EndScheduled, journal, outcomes,
     NoPartial
<1>4. CallInv' /\ CommandInv'
  BY <1>1 DEF TypeInv, CallInv, CommandInv, EndScheduled, journal
<1> QED
  BY <1>2, <1>3, <1>4 DEF TypeInv

\* The first record taken is journalled, and admitting it keeps the call well typed.
LEMMA AdmitTypes ==
  ASSUME TypeInv, run.taken # {}
  PROVE  LET key == First(run.taken) IN
         /\ key \in run.taken /\ RecordOf(key) \in IngressRecord
         /\ Admit(key) \in CallState
         /\ Admit(key).taken = run.taken \ {key} /\ Admit(key).caller = run.caller
         /\ Admit(key).canonical = run.canonical
         /\ IsFiniteSet(Admit(key).taken)
<1> DEFINE key == First(run.taken)
<1>1. run \in CallState /\ run.taken \in SUBSET QueueKeys /\ IsFiniteSet(run.taken)
  BY DEF TypeInv, TypeOK, CallState, CallInv
<1>2. key \in run.taken
  BY <1>1, FirstExists
<1> HIDE DEF key
<1>3. RecordOf(key) \in IngressRecord
  BY <1>2 DEF TypeInv, TypeOK, CallInv, RecordOf
<1>4. key.id \in Nat
  BY <1>1, <1>2 DEF QueueKeys
<1>5. /\ Admit(key) \in CallState
      /\ Admit(key).taken = run.taken \ {key} /\ Admit(key).caller = run.caller
      /\ Admit(key).canonical = run.canonical
  <2>1. Append(run.admitted, key.id) \in Seq(Nat) /\ run.taken \ {key} \in SUBSET QueueKeys
    BY <1>1, <1>4 DEF CallState
  <2> QED
    BY <1>1, <2>1 DEF CallState, Admit
<1>6. IsFiniteSet(run.taken \ {key})
  BY <1>1, FS_RemoveElement
<1> QED
  BY <1>2, <1>3, <1>5, <1>6 DEF key

\* An attempt that answers a journalled command.
LEMMA RecordAttemptTypes ==
  ASSUME TypeInv, NEW record \in IngressRecord, record.body.kind = "command",
         NEW before \in Nat, NEW accepted \in BOOLEAN,
         RecordAttempt(record, before, accepted)
  PROVE  /\ attempts' \in Seq(Attempt) /\ revision' \in Nat
         /\ Len(attempts') = Len(attempts) + 1
<1>1. record.body.request \in Requests /\ record.body.expected \in Nat
  BY DEF IngressRecord, Body
<1>2. [request |-> record.body.request, at |-> now, revision |-> before,
       expected |-> record.body.expected, accepted |-> accepted] \in Attempt
  BY <1>1 DEF Attempt, TypeInv, TypeOK
<1> QED
  BY <1>2 DEF RecordAttempt, TypeInv, TypeOK

\* A packet or a calendar boundary is admitted.
LEMMA AdmitPacketInv == TypeInv /\ AdmitPacket => TypeInv'
<1> SUFFICES ASSUME TypeInv, AdmitPacket PROVE TypeInv'
  OBVIOUS
<1> DEFINE key == First(run.taken)
<1>1. /\ run.taken # {} /\ pc = "admit" /\ pc' = pc
      /\ run' = [Admit(key) EXCEPT !.cadence = @ \/ RecordOf(key).body.kind = "calendar"]
  BY DEF AdmitPacket
<1>2. /\ key \in run.taken /\ Admit(key) \in CallState
      /\ Admit(key).taken \subseteq run.taken /\ Admit(key).caller = run.caller
      /\ Admit(key).canonical = run.canonical /\ IsFiniteSet(Admit(key).taken)
  BY <1>1, AdmitTypes
<1> HIDE DEF key
<1>3. /\ run' \in CallState /\ run'.taken = Admit(key).taken /\ run'.caller = run.caller
      /\ run'.canonical = run.canonical
  BY <1>1, <1>2 DEF CallState
<1>4. TypeOK'
  BY <1>3 DEF TypeInv, TypeOK, AdmitPacket, journal, schedule, outcomes, settled
<1>5. JournalInv' /\ CheckpointInv'
  BY DEF TypeInv, JournalInv, CheckpointInv, AdmitPacket, journal, outcomes
<1>6. CallInv' /\ CommandInv'
  BY <1>1, <1>2, <1>3 DEF TypeInv, CallInv, CommandInv, AdmitPacket, journal
<1> QED
  BY <1>4, <1>5, <1>6 DEF TypeInv

\* A command is rejected before it changed anything.
LEMMA RejectCommandInv == TypeInv /\ RejectCommand => TypeInv'
<1> SUFFICES ASSUME TypeInv, RejectCommand PROVE TypeInv'
  OBVIOUS
<1> DEFINE key == First(run.taken)
<1>1. /\ run.taken # {} /\ pc = "admit" /\ pc' = pc /\ run' = Admit(key)
      /\ RecordOf(key).body.kind = "command"
      /\ RecordAttempt(RecordOf(key), revision, FALSE)
  BY DEF RejectCommand
<1>2. /\ key \in run.taken /\ RecordOf(key) \in IngressRecord /\ run' \in CallState
      /\ run'.taken \subseteq run.taken /\ run'.caller = run.caller
      /\ run'.canonical = run.canonical /\ IsFiniteSet(run'.taken)
  BY <1>1, AdmitTypes
<1> HIDE DEF key
<1>3. attempts' \in Seq(Attempt) /\ revision' \in Nat /\ Len(attempts') = Len(attempts) + 1
  BY <1>1, <1>2, RecordAttemptTypes DEF TypeInv, TypeOK
<1>4. TypeOK'
  BY <1>2, <1>3 DEF TypeInv, TypeOK, RejectCommand, journal, schedule, settled
<1>5. JournalInv' /\ CheckpointInv'
  <2>1. UNCHANGED <<ingress, nextId, pending, events, saved, batch>>
    BY DEF RejectCommand, journal
  <2>2. saved.attempts <= Len(attempts')
    <3>1. saved.attempts <= Len(attempts)
      BY DEF TypeInv, CheckpointInv
    <3> QED
      BY <1>3, <3>1, CheckpointTypes
  <2> QED
    BY <2>1, <2>2 DEF TypeInv, JournalInv, CheckpointInv
<1>6. CallInv' /\ CommandInv'
  BY <1>1, <1>2 DEF TypeInv, CallInv, CommandInv, RejectCommand, journal
<1> QED
  BY <1>4, <1>5, <1>6 DEF TypeInv

\* The directives of a command or a reaction, as work to apply.
LEMMA WorkType ==
  ASSUME NEW program \in Seq(Directive), NEW plugin \in Plugins, NEW depth \in Nat
  PROVE  [i \in DOMAIN program |->
            [directive |-> program[i], plugin |-> plugin, depth |-> depth]] \in Seq(Work)
<1> DEFINE work(i) == [directive |-> program[i], plugin |-> plugin, depth |-> depth]
<1>1. ASSUME NEW i \in 1 .. Len(program) PROVE work(i) \in Work
  BY DEF Work
<1> HIDE DEF work
<1>2. [i \in 1 .. Len(program) |-> work(i)] \in Seq(Work)
  BY <1>1
<1> QED
  BY <1>2 DEF work

\* A command's directives start to apply under a checkpoint of its own.
LEMMA BeginCommandInv ==
  ASSUME TypeInv, NEW plugin \in Plugins, NEW program \in Programs,
         BeginCommand(plugin, program)
  PROVE  TypeInv'
<1>1. batch' = PartialCheckpoint /\ PartialCheckpoint \in Partial
  BY PartialTypes DEF BeginCommand
<1>2. todo' \in Seq(Work)
  <2>1. program \in Seq(Directive)
    BY KernelAssumption
  <2> QED
    BY <2>1, WorkType DEF BeginCommand
<1>3. /\ run' \in CallState /\ run'.taken = run.taken /\ run'.caller = "command"
      /\ run'.canonical = run.canonical
  BY DEF TypeInv, TypeOK, CallState, BeginCommand
<1>4. TypeOK'
  BY <1>1, <1>2, <1>3 DEF TypeInv, TypeOK, BeginCommand, journal, schedule, outcomes,
     settled
<1>5. JournalInv' /\ CheckpointInv'
  BY <1>1 DEF TypeInv, TypeOK, JournalInv, CheckpointInv, BeginCommand, journal, outcomes,
     PartialCheckpoint
<1>6. CallInv'
  BY <1>3 DEF TypeInv, CallInv, BeginCommand, journal
<1>7. CommandInv'
  <2>1. saved.events <= batch'.events
    BY <1>1 DEF TypeInv, CheckpointInv, PartialCheckpoint
  <2> QED
    BY <1>3, <2>1 DEF CommandInv, BeginCommand, journal, RecordOf
<1> QED
  BY <1>4, <1>5, <1>6, <1>7 DEF TypeInv

\* All due ingress is admitted.
LEMMA EndAdmissionInv == TypeInv /\ EndAdmission => TypeInv'
<1> SUFFICES ASSUME TypeInv, EndAdmission PROVE TypeInv'
  OBVIOUS
<1>1. /\ run' \in CallState /\ run'.taken = run.taken /\ run'.caller = "boundary"
      /\ run'.canonical = run.canonical
  BY DEF TypeInv, TypeOK, CallState, EndAdmission
<1>2. TypeOK'
  BY <1>1 DEF TypeInv, TypeOK, EndAdmission, journal, schedule, outcomes, settled
<1>3. JournalInv' /\ CheckpointInv'
  BY DEF TypeInv, JournalInv, CheckpointInv, EndAdmission, journal, outcomes
<1>4. CallInv' /\ CommandInv'
  BY <1>1 DEF TypeInv, CallInv, CommandInv, EndAdmission, journal
<1> QED
  BY <1>2, <1>3, <1>4 DEF TypeInv

\* Putting back what the boundary checkpoint holds.
LEMMA AbortBoundaryInv ==
  ASSUME TypeInv, AbortBoundary, failures' \in Nat
  PROVE  TypeInv'
<1>1. saved \in Full
  BY DEF TypeInv, TypeOK
<1>2. /\ saved.ingress \in Nat /\ saved.ingress <= Len(ingress)
      /\ saved.events \in Nat /\ saved.events <= Len(events)
      /\ saved.attempts \in Nat /\ saved.attempts <= Len(attempts)
  BY <1>1 DEF Full, TypeInv, CheckpointInv
<1>3. /\ ingress' = SubSeq(ingress, 1, saved.ingress)
      /\ events' = SubSeq(events, 1, saved.events)
      /\ attempts' = SubSeq(attempts, 1, saved.attempts)
      /\ pending' = saved.pending /\ cancelled' = saved.cancelled
      /\ nextId' = saved.nextId /\ todo' = <<>>
      /\ pc' = "idle" /\ run' = Call(0, FALSE) /\ saved' = NoFull /\ batch' = NoPartial
  BY DEF AbortBoundary, RestoreEvidence, RestoreQueue, Return
<1>4. /\ ingress' \in Seq(IngressRecord) /\ Len(ingress') = saved.ingress
      /\ events' \in Seq(Nat) /\ attempts' \in Seq(Attempt)
  <2>1. /\ ingress \in Seq(IngressRecord) /\ events \in Seq(Nat)
        /\ attempts \in Seq(Attempt)
    BY DEF TypeInv, TypeOK
  <2> QED
    BY <1>2, <1>3, <2>1, PrefixType
<1>5. TypeOK'
  <2>1. /\ now' \in Nat /\ actions' \subseteq Actions /\ nextSeq' \in Nat
        /\ nextId' \in Nat /\ revision' \in Nat /\ cursor' \in Nat
        /\ pending' \subseteq QueueKeys /\ cancelled' \subseteq Nat
    BY <1>1, <1>3 DEF Full, AbortBoundary
  <2>2. /\ run' \in CallState /\ saved' \in Full /\ batch' \in Partial
        /\ todo' \in Seq(Work) /\ boundaries' \in Seq(Boundary)
    BY <1>3, IdleTypes, EmptySeq DEF TypeInv, TypeOK, AbortBoundary
  <2> QED
    BY <1>3, <1>4, <2>1, <2>2 DEF TypeOK
<1>6. JournalInv'
  <2>1. DOMAIN ingress' = 1 .. saved.ingress
    BY <1>4
  <2> QED
    BY <1>3, <1>4, <2>1 DEF TypeInv, JournalInv, CheckpointInv
<1>7. CheckpointInv'
  <2>1. Len(ingress') \in Nat /\ Len(events') \in Nat /\ Len(attempts') \in Nat
    BY <1>4
  <2>2. /\ saved'.nextId = 1 /\ saved'.ingress = 0 /\ saved'.pending = {}
        /\ saved'.events = 0 /\ saved'.attempts = 0
        /\ batch'.nextId = 1 /\ batch'.events = 0
    BY <1>3 DEF NoFull, NoPartial
  <2> QED
    BY <2>1, <2>2, FS_EmptySet DEF CheckpointInv
<1>8. CallInv' /\ CommandInv'
  BY <1>3, CallTakesNothing, FS_EmptySet DEF CallInv, CommandInv
<1> QED
  BY <1>5, <1>6, <1>7, <1>8 DEF TypeInv

\* Putting back what a command's or a scheduled batch's checkpoint holds.
LEMMA RestorePartialInv ==
  ASSUME TypeInv, RestorePartial, ingress' = ingress
  PROVE  /\ now' \in Nat /\ actions' \subseteq Actions /\ nextSeq' \in Nat
         /\ nextId' \in Nat /\ cursor' \in Nat /\ events' \in Seq(Nat)
         /\ nextId' \in 1 .. Len(ingress) + 1 /\ Len(events') = batch.events
<1>1. batch \in Partial /\ batch.events <= Len(events)
  BY DEF TypeInv, TypeOK, CheckpointInv
<1>2. batch.events \in Nat
  BY <1>1 DEF Partial
<1>3. events' \in Seq(Nat) /\ Len(events') = batch.events
  BY <1>1, <1>2, PrefixType DEF RestorePartial, TypeInv, TypeOK
<1> QED
  BY <1>1, <1>3 DEF RestorePartial, Partial, TypeInv, CheckpointInv

\* The next directive and those after it.
LEMMA HeadTypes ==
  ASSUME TypeInv, todo # <<>>
  PROVE  /\ Head(todo) \in Work /\ Tail(todo) \in Seq(Work)
         /\ Head(todo).depth \in Nat /\ Head(todo).plugin \in Plugins
         /\ Head(todo).directive.after \in Nat
         /\ Head(todo).directive.next \in {"emit", "fail"}
<1>1. Head(todo) \in Work /\ Tail(todo) \in Seq(Work)
  BY DEF TypeInv, TypeOK
<1> QED
  BY <1>1 DEF Work, Directive

\* An event is emitted and the reactions to it come next.
LEMMA ApplyEmitInv ==
  ASSUME TypeInv, NEW plugin \in Plugins, NEW reaction \in Reactions,
         ApplyEmit(reaction, plugin)
  PROVE  TypeInv'
<1>1. todo # <<>> /\ reaction \in Seq(Directive)
  BY KernelAssumption DEF ApplyEmit, Applying
<1>2. todo' \in Seq(Work)
  <2> DEFINE more == [i \in DOMAIN reaction |->
                        [directive |-> reaction[i], plugin |-> plugin,
                         depth |-> Head(todo).depth + 1]]
  <2>1. Head(todo).depth + 1 \in Nat /\ Tail(todo) \in Seq(Work)
    BY <1>1, HeadTypes
  <2>2. more \in Seq(Work)
    BY <1>1, <2>1, WorkType
  <2>3. todo' = more \o Tail(todo)
    BY DEF ApplyEmit
  <2> HIDE DEF more
  <2> QED
    BY <2>1, <2>2, <2>3
<1>3. events' \in Seq(Nat) /\ Len(events') = Len(events) + 1
  BY DEF ApplyEmit, TypeInv, TypeOK
<1>4. TypeOK'
  BY <1>2, <1>3 DEF TypeInv, TypeOK, ApplyEmit, journal, schedule, outcomes, settled
<1>5. JournalInv' /\ CheckpointInv'
  <2>1. UNCHANGED <<ingress, nextId, pending, attempts, saved, batch>>
    BY DEF ApplyEmit, journal, outcomes
  <2> QED
    BY <1>3, <2>1, EventsGrow
<1>6. CallInv' /\ CommandInv'
  BY DEF TypeInv, CallInv, CommandInv, ApplyEmit, journal, RecordOf
<1> QED
  BY <1>4, <1>5, <1>6 DEF TypeInv

\* A directive is scheduled.
LEMMA ApplyScheduleInv == TypeInv /\ ApplySchedule => TypeInv'
<1> SUFFICES ASSUME TypeInv, ApplySchedule PROVE TypeInv'
  OBVIOUS
<1> DEFINE head == Head(todo)
           action == [at |-> now + head.directive.after, seq |-> nextSeq,
                      op |-> head.directive.next, plugin |-> head.plugin]
<1>1. /\ todo' = Tail(todo) /\ todo' \in Seq(Work) /\ head.directive.after \in Nat
      /\ head.directive.next \in {"emit", "fail"} /\ head.plugin \in Plugins
  BY HeadTypes DEF ApplySchedule, Applying
<1> HIDE DEF head
<1>2. action \in Actions
  BY <1>1 DEF Actions, TypeInv, TypeOK
<1> HIDE DEF action
<1>3. actions' = actions \cup {action} /\ nextSeq' = nextSeq + 1
  BY DEF ApplySchedule, action, head
<1>4. TypeOK'
  BY <1>1, <1>2, <1>3 DEF TypeInv, TypeOK, ApplySchedule, journal, outcomes, settled
<1>5. JournalInv' /\ CheckpointInv'
  BY DEF TypeInv, JournalInv, CheckpointInv, ApplySchedule, journal, outcomes
<1>6. CallInv' /\ CommandInv'
  BY DEF TypeInv, CallInv, CommandInv, ApplySchedule, journal, RecordOf
<1> QED
  BY <1>4, <1>5, <1>6 DEF TypeInv

\* A command or a reactor issues a packet.
LEMMA ApplyEnqueueInv ==
  ASSUME TypeInv, NEW class \in PacketClasses, NEW priority \in Priorities,
         ApplyEnqueue(class, priority)
  PROVE  TypeInv'
<1> DEFINE head == Head(todo)
           body == [kind |-> "plugin", plugin |-> head.plugin, internal |-> FALSE,
                    issuer |-> IF head.depth = 0 THEN head.plugin ELSE Event]
           due == now + head.directive.after
<1>1. /\ Tail(todo) \in Seq(Work) /\ head.plugin \in Plugins
      /\ head.directive.after \in Nat
  BY HeadTypes DEF ApplyEnqueue, Applying
<1>2. PushIngress(body, due, class, priority, TRUE)
  BY DEF ApplyEnqueue
<1>3. body \in Body
  BY <1>1 DEF Body
<1>4. due \in Nat /\ class \in 0 .. 5 /\ priority \in Int
  <2>1. now \in Nat
    BY DEF TypeInv, TypeOK
  <2>2. class \in 0 .. 5 /\ priority \in Int
    BY KernelAssumption
  <2> QED
    BY <1>1, <2>1, <2>2
<1> HIDE DEF head, body, due
<1>5. /\ todo' \in Seq(Work) /\ run' = run
      /\ UNCHANGED <<now, schedule, events, outcomes, settled, pc, saved, batch, failures>>
  BY <1>1 DEF ApplyEnqueue
<1> QED
  BY <1>2, <1>3, <1>4, <1>5, PushIngressInv, IssueInv DEF TypeInv

\* A refused directive undoes its command, which is recorded as rejected.
LEMMA RollBackCommandInv == TypeInv /\ RollBackCommand => TypeInv'
<1> SUFFICES ASSUME TypeInv, RollBackCommand PROVE TypeInv'
  OBVIOUS
<1> DEFINE key == First(run.taken)
<1>1. /\ run.caller = "command" /\ run.taken # {} /\ RecordOf(key).body.kind = "command"
      /\ saved.events <= batch.events /\ run.canonical
  BY DEF RollBackCommand, TypeInv, CommandInv, CallInv
<1>2. /\ RecordAttempt(RecordOf(key), batch.revision, FALSE)
      /\ run' = [Admit(key) EXCEPT !.caller = "none"]
  BY DEF RollBackCommand
<1>3. /\ key \in run.taken /\ RecordOf(key) \in IngressRecord /\ Admit(key) \in CallState
      /\ Admit(key).taken \subseteq run.taken /\ IsFiniteSet(Admit(key).taken)
      /\ Admit(key).canonical = run.canonical
  BY <1>1, AdmitTypes
<1> HIDE DEF key
<1>4. /\ run' \in CallState /\ run'.taken = Admit(key).taken /\ run'.caller = "none"
      /\ run'.canonical = run.canonical
  BY <1>2, <1>3 DEF CallState
<1>5. attempts' \in Seq(Attempt) /\ revision' \in Nat /\ Len(attempts') = Len(attempts) + 1
  <2>1. batch.revision \in Nat
    BY DEF TypeInv, TypeOK, Partial
  <2> QED
    BY <1>1, <1>2, <1>3, <2>1, RecordAttemptTypes
<1>6. /\ now' \in Nat /\ actions' \subseteq Actions /\ nextSeq' \in Nat
      /\ nextId' \in Nat /\ cursor' \in Nat /\ events' \in Seq(Nat)
      /\ nextId' \in 1 .. Len(ingress) + 1 /\ Len(events') = batch.events
  BY RestorePartialInv DEF RollBackCommand
<1>7. TypeOK'
  <2>1. /\ ingress' = ingress /\ pending' = pending /\ cancelled' = cancelled
        /\ boundaries' = boundaries /\ saved' = saved /\ failures' = failures
        /\ todo' = <<>> /\ pc' = "admit" /\ batch' = NoPartial
    BY DEF RollBackCommand
  <2>2. /\ ingress' \in Seq(IngressRecord) /\ pending' \subseteq QueueKeys
        /\ cancelled' \subseteq Nat /\ boundaries' \in Seq(Boundary)
        /\ saved' \in Full /\ failures' \in Nat
    BY <2>1 DEF TypeInv, TypeOK
  <2>3. todo' \in Seq(Work) /\ batch' \in Partial
    BY <2>1, IdleTypes, EmptySeq
  <2> QED
    BY <1>4, <1>5, <1>6, <2>1, <2>2, <2>3 DEF TypeOK
<1>8. JournalInv'
  BY <1>6 DEF TypeInv, JournalInv, RollBackCommand
<1>9. CheckpointInv'
  <2>1. /\ batch' = NoPartial /\ saved' = saved /\ ingress' = ingress
    BY DEF RollBackCommand
  <2>2. /\ batch'.nextId = 1 /\ batch'.events = 0
    BY <2>1 DEF NoPartial
  <2>3. batch'.nextId \in 1 .. Len(ingress') + 1 /\ batch'.events <= Len(events')
    BY <1>6, <2>1, <2>2, CheckpointTypes
  <2>4. saved.events <= Len(events') /\ saved.attempts <= Len(attempts')
    <3>1. saved.attempts <= Len(attempts)
      BY DEF TypeInv, CheckpointInv
    <3>2. saved.attempts <= Len(attempts')
      BY <1>5, <3>1, CheckpointTypes
    <3>3. saved.events <= Len(events')
      BY <1>1, <1>6
    <3> QED
      BY <3>2, <3>3
  <2> QED
    BY <2>1, <2>3, <2>4 DEF TypeInv, CheckpointInv
<1>10. CallInv' /\ CommandInv'
  BY <1>1, <1>3, <1>4 DEF TypeInv, CallInv, CommandInv, RollBackCommand
<1> QED
  BY <1>7, <1>8, <1>9, <1>10 DEF TypeInv

\* A refused directive undoes its scheduled batch and ends the advance.
LEMMA RollBackBatchInv == TypeInv /\ RollBackBatch => TypeInv'
<1> SUFFICES ASSUME TypeInv, RollBackBatch PROVE TypeInv'
  OBVIOUS
<1>1. /\ now' \in Nat /\ actions' \subseteq Actions /\ nextSeq' \in Nat
      /\ nextId' \in Nat /\ cursor' \in Nat /\ events' \in Seq(Nat)
      /\ nextId' \in 1 .. Len(ingress) + 1
  BY RestorePartialInv DEF RollBackBatch
<1>2. /\ revision' = batch.revision /\ revision' \in Nat /\ todo' = <<>>
      /\ pc' = "idle" /\ run' = Call(0, FALSE) /\ saved' = NoFull /\ batch' = NoPartial
      /\ UNCHANGED <<ingress, pending, cancelled, attempts, boundaries, failures>>
  BY DEF RollBackBatch, Return, TypeInv, TypeOK, Partial
<1>3. TypeOK'
  <2>1. /\ run' \in CallState /\ saved' \in Full /\ batch' \in Partial
        /\ todo' \in Seq(Work)
    BY <1>2, IdleTypes, EmptySeq
  <2> QED
    BY <1>1, <1>2, <2>1 DEF TypeInv, TypeOK
<1>4. JournalInv'
  BY <1>1, <1>2 DEF TypeInv, JournalInv
<1>5. CheckpointInv'
  BY <1>2, <1>3, FS_EmptySet DEF TypeOK, CheckpointInv, NoFull, NoPartial
<1>6. CallInv' /\ CommandInv'
  BY <1>2, CallTakesNothing, FS_EmptySet DEF CallInv, CommandInv
<1> QED
  BY <1>3, <1>4, <1>5, <1>6 DEF TypeInv

\* A refused directive of scheduled work undoes its boundary.
LEMMA RollBackBoundaryInv == TypeInv /\ RollBackBoundary => TypeInv'
  BY AbortBoundaryInv DEF RollBackBoundary, TypeInv, TypeOK

\* A panic of a command's handler, or a record that is not found, undoes the
\* boundary.
LEMMA AdmissionFailsInv == TypeInv /\ (HandlerPanics \/ RecordLost) => TypeInv'
<1> SUFFICES ASSUME TypeInv, HandlerPanics \/ RecordLost PROVE TypeInv'
  OBVIOUS
<1>1. AbortBoundary /\ failures' \in Nat
  BY DEF HandlerPanics, RecordLost, TypeInv, TypeOK
<1> QED
  BY <1>1, AbortBoundaryInv

\* All directives of a command or of a scheduled action are applied.
LEMMA EndApplyInv == TypeInv /\ EndApply => TypeInv'
<1> SUFFICES ASSUME TypeInv, EndApply PROVE TypeInv'
  OBVIOUS
<1>1. CASE run.caller = "command"
  <2> DEFINE key == First(run.taken)
  <2>1. /\ run.taken # {} /\ RecordOf(key).body.kind = "command" /\ run.canonical
    BY <1>1 DEF TypeInv, CommandInv, CallInv
  <2>2. /\ RecordAttempt(RecordOf(key), revision, TRUE)
        /\ run' = [Admit(key) EXCEPT !.caller = "none"]
        /\ pc' = "admit" /\ batch' = NoPartial
        /\ UNCHANGED <<now, journal, schedule, events, settled, todo, saved, failures>>
    BY <1>1 DEF EndApply
  <2>3. /\ key \in run.taken /\ RecordOf(key) \in IngressRecord /\ Admit(key) \in CallState
        /\ Admit(key).taken \subseteq run.taken /\ IsFiniteSet(Admit(key).taken)
        /\ Admit(key).canonical = run.canonical
    BY <2>1, AdmitTypes
  <2> HIDE DEF key
  <2>4. /\ run' \in CallState /\ run'.taken = Admit(key).taken /\ run'.caller = "none"
        /\ run'.canonical = run.canonical
    BY <2>2, <2>3 DEF CallState
  <2>5. attempts' \in Seq(Attempt) /\ revision' \in Nat /\ Len(attempts') = Len(attempts) + 1
    BY <2>1, <2>2, <2>3, RecordAttemptTypes DEF TypeInv, TypeOK
  <2>6. TypeOK'
    BY <2>2, <2>4, <2>5, IdleTypes DEF TypeInv, TypeOK, journal, schedule, settled
  <2>7. JournalInv'
    BY <2>2 DEF TypeInv, JournalInv, journal
  <2>8. CheckpointInv'
    <3>1. batch'.nextId = 1 /\ batch'.events = 0
      BY <2>2 DEF NoPartial
    <3> QED
      BY <2>2, <2>5, <3>1, CheckpointTypes DEF TypeInv, CheckpointInv, journal
  <2>9. CallInv' /\ CommandInv'
    BY <2>1, <2>2, <2>3, <2>4 DEF TypeInv, CallInv, CommandInv, journal
  <2> QED
    BY <2>6, <2>7, <2>8, <2>9 DEF TypeInv
<1>2. CASE run.caller # "command"
  <2>1. pc = "apply" /\ pc' = "scheduled" /\ UNCHANGED <<run, outcomes, batch>>
    BY <1>2 DEF EndApply
  <2>2. UNCHANGED <<now, journal, schedule, events, settled, todo, saved, failures>>
    BY DEF EndApply
  <2>3. TypeOK'
    BY <2>1, <2>2 DEF TypeInv, TypeOK, journal, schedule, outcomes, settled
  <2>4. JournalInv' /\ CheckpointInv'
    BY <2>1, <2>2 DEF TypeInv, JournalInv, CheckpointInv, journal, outcomes
  <2>5. CallInv' /\ CommandInv'
    BY <1>2, <2>1, <2>2 DEF TypeInv, TypeOK, CallState, CallInv, CommandInv, journal
  <2> QED
    BY <2>3, <2>4, <2>5 DEF TypeInv
<1> QED
  BY <1>1, <1>2

\* A boundary commits.
LEMMA CommitInv == TypeInv /\ Commit => TypeInv'
<1> SUFFICES ASSUME TypeInv, Commit PROVE TypeInv'
  OBVIOUS
<1> DEFINE boundary == [at |-> run.goal, admitted |-> run.admitted,
                        generated |-> run.generated, first |-> cursor + 1,
                        last |-> run.cut]
<1>1. boundary \in Boundary /\ run.cut \in Nat
  BY DEF Boundary, TypeInv, TypeOK, CallState
<1> HIDE DEF boundary
<1>2. /\ boundaries' = Append(boundaries, boundary) /\ cursor' = run.cut
      /\ revision' = revision + 1
      /\ pc' = "idle" /\ run' = Call(0, FALSE) /\ saved' = NoFull /\ batch' = NoPartial
      /\ UNCHANGED <<now, journal, schedule, events, attempts, todo, failures>>
  BY DEF Commit, Return, boundary
<1>3. boundaries' \in Seq(Boundary) /\ cursor' \in Nat /\ revision' \in Nat
  BY <1>1, <1>2 DEF TypeInv, TypeOK
<1>4. TypeOK'
  BY <1>2, <1>3, IdleTypes DEF TypeInv, TypeOK, journal, schedule
<1>5. JournalInv'
  BY <1>2 DEF TypeInv, JournalInv, journal
<1>6. CheckpointInv'
  <2>1. /\ saved'.nextId = 1 /\ saved'.ingress = 0 /\ saved'.pending = {}
        /\ saved'.events = 0 /\ saved'.attempts = 0
        /\ batch'.nextId = 1 /\ batch'.events = 0
    BY <1>2 DEF NoFull, NoPartial
  <2> QED
    BY <1>2, <2>1, CheckpointTypes, FS_EmptySet DEF CheckpointInv, journal
<1>7. CallInv' /\ CommandInv'
  BY <1>2, CallTakesNothing, FS_EmptySet DEF CallInv, CommandInv
<1> QED
  BY <1>4, <1>5, <1>6, <1>7 DEF TypeInv

\* What boundary systems do keeps the invariant.
LEMMA SystemInv == TypeInv /\ System => TypeInv'
<1> SUFFICES ASSUME TypeInv, NEW plugin \in Plugins,
                    \/ \E target \in Plugins, internal \in BOOLEAN,
                          class \in PacketClasses, after \in Delays,
                          priority \in Priorities :
                          SystemSchedules(plugin, target, internal, class, after, priority)
                    \/ \E key \in pending : SystemCancels(plugin, key)
                    \/ SystemEmits(plugin)
                    \/ SystemFails(plugin)
             PROVE  TypeInv'
  BY DEF System
<1>1. TypeOK /\ JournalInv
  BY DEF TypeInv
<1>2. ASSUME NEW target \in Plugins, NEW internal \in BOOLEAN,
             NEW class \in PacketClasses, NEW after \in Delays, NEW priority \in Priorities,
             SystemSchedules(plugin, target, internal, class, after, priority)
      PROVE  TypeInv'
  <2> DEFINE body == [kind |-> "plugin", plugin |-> target, internal |-> internal,
                      issuer |-> plugin]
             due == now + after
  <2>1. body \in Body
    BY DEF Body
  <2>2. due \in Nat /\ class \in 0 .. 5 /\ priority \in Int
    BY <1>1, KernelAssumption DEF TypeOK
  <2>3. PushIngress(body, due, class, priority, TRUE)
    BY <1>2 DEF SystemSchedules
  <2>4. /\ run' = [run EXCEPT !.generated = @ \cup {nextId}] /\ todo' \in Seq(Work)
        /\ UNCHANGED <<now, schedule, events, outcomes, settled, pc, saved, batch, failures>>
    BY <1>1, <1>2 DEF SystemSchedules, TypeOK
  <2> HIDE DEF body, due
  <2> QED
    BY <1>1, <2>1, <2>2, <2>3, <2>4, PushIngressInv, IssueInv
<1>3. ASSUME NEW key \in pending, SystemCancels(plugin, key)
      PROVE  TypeInv'
  <2>1. PushCancellation(key, TRUE)
    BY <1>3 DEF SystemCancels
  <2>2. /\ run' = [run EXCEPT !.generated = @ \cup {nextId}] /\ todo' \in Seq(Work)
        /\ UNCHANGED <<now, schedule, events, outcomes, settled, pc, saved, batch, failures>>
    BY <1>1, <1>3 DEF SystemCancels, TypeOK
  <2> QED
    BY <1>1, <2>1, <2>2, PushCancellationInv, IssueInv
<1>4. ASSUME SystemEmits(plugin)
      PROVE  TypeInv'
  <2>1. /\ events' \in Seq(Nat) /\ Len(events') = Len(events) + 1
        /\ UNCHANGED <<now, journal, schedule, outcomes, settled, control, saved, batch,
                       failures>>
    BY <1>1, <1>4 DEF SystemEmits, TypeOK
  <2>2. TypeOK'
    BY <1>1, <2>1 DEF TypeOK, journal, schedule, outcomes, settled, control
  <2>3. JournalInv' /\ CheckpointInv'
    <3>1. UNCHANGED <<ingress, nextId, pending, attempts, saved, batch>>
      BY <2>1 DEF journal, outcomes
    <3> QED
      BY <2>1, <3>1, EventsGrow
  <2>4. CallInv' /\ CommandInv'
    BY <2>1 DEF TypeInv, CallInv, CommandInv, journal, control, RecordOf
  <2> QED
    BY <2>2, <2>3, <2>4 DEF TypeInv
<1>5. ASSUME SystemFails(plugin)
      PROVE  TypeInv'
  <2>1. AbortBoundary /\ failures' \in Nat
    BY <1>1, <1>5 DEF SystemFails, TypeOK
  <2> QED
    BY <2>1, AbortBoundaryInv
<1> QED
  BY <1>2, <1>3, <1>4, <1>5

\* Every step of a running call keeps the invariant.
LEMMA StepInv == TypeInv /\ Step => TypeInv'
  BY BeginBatchInv, FinishAdvanceInv, TakeDueIngressInv, RunScheduledInv, EndScheduledInv,
     AdmitPacketInv, RejectCommandInv, EndAdmissionInv, BeginCommandInv, ApplyEmitInv,
     ApplyScheduleInv, ApplyEnqueueInv, AdmissionFailsInv, RollBackCommandInv,
     RollBackBatchInv, RollBackBoundaryInv, EndApplyInv, CommitInv DEF Step

\* A step that changes nothing.
LEMMA StutterInv == TypeInv /\ UNCHANGED vars => TypeInv'
<1> SUFFICES ASSUME TypeInv, UNCHANGED vars PROVE TypeInv'
  OBVIOUS
<1>1. TypeOK'
  BY DEF TypeInv, TypeOK, vars, journal, schedule, outcomes, settled, control
<1>2. JournalInv' /\ CheckpointInv'
  BY DEF TypeInv, JournalInv, CheckpointInv, vars, journal, outcomes
<1>3. CallInv' /\ CommandInv'
  BY DEF TypeInv, CallInv, CommandInv, vars, journal, control, RecordOf
<1> QED
  BY <1>1, <1>2, <1>3 DEF TypeInv

\* Every step of the kernel keeps the invariant.
LEMMA TypeStep == TypeInv /\ [Next]_vars => TypeInv'
<1> SUFFICES ASSUME TypeInv, [Next]_vars PROVE TypeInv'
  OBVIOUS
<1>1. ASSUME NEW at \in Times, BeginAdvance(at) \/ SettleBoundary(at)
      PROVE  TypeInv'
  <2>1. at \in Nat
    BY KernelAssumption DEF Times, TypeInv, TypeOK
  <2> QED
    BY <1>1, <2>1, BeginAdvanceInv, BeginBoundaryInv DEF SettleBoundary
<1> QED
  BY <1>1, EnqueueInv, WithdrawInv, StepCanonicalInv, StepInv, SystemInv, StutterInv DEF Next

\* The journal, the queue, the clock and the checkpoints keep their types through
\* every call of the runtime and every rollback, and a queue key always names a
\* journalled record.
THEOREM TypeCorrect == Spec => []TypeOK
<1>1. Spec => []TypeInv
  BY TypeInit, TypeStep, PTL DEF Spec
<1>2. TypeInv => TypeOK
  BY DEF TypeInv
<1> QED
  BY <1>1, <1>2, PTL

-----------------------------------------------------------------------------
(* One command is accepted per revision. *)

\* Accepted attempts have been made at different revisions before the current one.
\* A boundary that is undone goes back to a count that fits the attempts it keeps,
\* and no revision passes while a command or a scheduled batch runs.
CountInv ==
    /\ OneWinnerPerRevision
    /\ \A i \in DOMAIN attempts : attempts[i].accepted => attempts[i].expected < revision
    /\ pc # "idle" /\ run.canonical =>
          /\ saved.revision = saved.attempts + Len(boundaries)
          /\ \A i \in 1 .. saved.attempts :
                attempts[i].accepted => attempts[i].expected < saved.revision
    /\ run.caller = "command" =>
          /\ batch.revision = revision
          /\ RecordOf(First(run.taken)).body.expected = revision
    /\ pc \in {"scheduled", "apply"} /\ ~run.canonical => batch.revision = revision

\* What the attempts hold.
LEMMA AttemptTypes ==
  ASSUME TypeInv
  PROVE  /\ \A i \in DOMAIN attempts : attempts[i].expected \in Nat
         /\ Len(attempts) \in Nat /\ Len(boundaries) \in Nat /\ revision \in Nat
<1>1. \A i \in DOMAIN attempts : attempts[i] \in Attempt
  BY DEF TypeInv, TypeOK
<1> QED
  BY <1>1 DEF Attempt, TypeInv, TypeOK

\* A step of a running call that leaves the attempts, the revision, the boundaries
\* and the boundary checkpoint alone.
LEMMA CountQuiet ==
  ASSUME TypeInv, CountInv,
         UNCHANGED <<attempts, revision, boundaries, saved>>,
         pc' # "idle" /\ run'.canonical => pc # "idle" /\ run.canonical,
         run'.caller = "command" =>
            /\ batch'.revision = revision
            /\ RecordOf(First(run.taken))'.body.expected = revision,
         pc' \in {"scheduled", "apply"} /\ ~run'.canonical => batch'.revision = revision
  PROVE  CountInv'
<1>1. OneWinnerPerRevision'
  BY DEF CountInv, OneWinnerPerRevision
<1> QED
  BY <1>1 DEF CountInv

\* An answer that is not an acceptance, or the acceptance of the current revision.
LEMMA CountAttempt ==
  ASSUME TypeInv, CountInv, NEW record, NEW accepted \in BOOLEAN,
         record.body.expected \in Nat,
         accepted => record.body.expected = revision,
         RecordAttempt(record, revision, accepted),
         UNCHANGED <<boundaries, saved, pc>> \/ (pc' = "admit" /\ UNCHANGED <<boundaries, saved>>),
         pc # "idle", run'.canonical = run.canonical, run.canonical,
         run'.caller # "command"
  PROVE  CountInv'
<1> DEFINE attempt == [request |-> record.body.request, at |-> now, revision |-> revision,
                       expected |-> record.body.expected, accepted |-> accepted]
<1>1. /\ attempts' = Append(attempts, attempt) /\ revision' = revision + 1
      /\ attempt.accepted = accepted /\ attempt.expected = record.body.expected
  BY DEF RecordAttempt
<1> HIDE DEF attempt
<1>2. /\ attempts \in Seq(Attempt) /\ boundaries \in Seq(Boundary) /\ revision \in Nat
      /\ saved.attempts \in Nat /\ saved.attempts <= Len(attempts)
  BY CheckpointTypes DEF TypeInv, TypeOK, CheckpointInv
<1>3. /\ Len(attempts') = Len(attempts) + 1 /\ DOMAIN attempts' = 1 .. Len(attempts) + 1
      /\ \A i \in DOMAIN attempts : attempts'[i] = attempts[i]
      /\ attempts'[Len(attempts) + 1] = attempt
      /\ DOMAIN attempts = 1 .. Len(attempts) /\ Len(attempts) \in Nat
  BY <1>1, <1>2
<1>4. \A i \in DOMAIN attempts : attempts[i].expected \in Nat
  BY AttemptTypes
<1>5. \A i \in DOMAIN attempts' : attempts'[i].accepted => attempts'[i].expected < revision'
  BY <1>1, <1>2, <1>3, <1>4 DEF CountInv
<1>6. OneWinnerPerRevision'
  <2>1. revision' = Len(attempts') + Len(boundaries')
    BY <1>1, <1>2, <1>3, AttemptTypes DEF CountInv, OneWinnerPerRevision
  <2>2. ASSUME NEW i \in DOMAIN attempts', NEW j \in DOMAIN attempts',
               attempts'[i].accepted, attempts'[j].accepted,
               attempts'[i].expected = attempts'[j].expected
        PROVE  i = j
    <3>1. CASE i \in DOMAIN attempts /\ j \in DOMAIN attempts
      BY <2>2, <3>1, <1>3 DEF CountInv, OneWinnerPerRevision
    <3>2. CASE i = Len(attempts) + 1 /\ j \in DOMAIN attempts
      BY <2>2, <3>2, <1>1, <1>2, <1>3, <1>4 DEF CountInv
    <3>3. CASE i \in DOMAIN attempts /\ j = Len(attempts) + 1
      BY <2>2, <3>3, <1>1, <1>2, <1>3, <1>4 DEF CountInv
    <3> QED
      BY <3>1, <3>2, <3>3, <1>3
  <2> QED
    BY <2>1, <2>2 DEF OneWinnerPerRevision
<1>7. /\ saved'.revision = saved'.attempts + Len(boundaries')
      /\ \A i \in 1 .. saved'.attempts :
            attempts'[i].accepted => attempts'[i].expected < saved'.revision
  <2>1. /\ saved.revision = saved.attempts + Len(boundaries)
        /\ \A i \in 1 .. saved.attempts :
              attempts[i].accepted => attempts[i].expected < saved.revision
    BY DEF CountInv
  <2>2. \A i \in 1 .. saved.attempts : i \in DOMAIN attempts
    BY <1>2, <1>3
  <2> QED
    BY <1>3, <2>1, <2>2
<1> QED
  BY <1>5, <1>6, <1>7 DEF CountInv

\* Undoing a boundary.
LEMMA CountAbort ==
  ASSUME TypeInv, CountInv, AbortBoundary, pc # "idle", run.canonical
  PROVE  CountInv'
<1>1. /\ attempts' = SubSeq(attempts, 1, saved.attempts) /\ revision' = saved.revision
      /\ boundaries' = boundaries /\ pc' = "idle" /\ run' = Call(0, FALSE)
  BY DEF AbortBoundary, RestoreEvidence, Return
<1>2. /\ attempts \in Seq(Attempt) /\ saved.attempts \in Nat
      /\ saved.attempts <= Len(attempts)
  BY CheckpointTypes DEF TypeInv, TypeOK, CheckpointInv
<1>3. /\ Len(attempts') = saved.attempts /\ DOMAIN attempts' = 1 .. saved.attempts
      /\ \A i \in DOMAIN attempts' : i \in DOMAIN attempts /\ attempts'[i] = attempts[i]
  BY <1>1, <1>2, PrefixType
<1>4. OneWinnerPerRevision'
  <2>1. revision' = Len(attempts') + Len(boundaries')
    BY <1>1, <1>3 DEF CountInv
  <2>2. \A i, j \in DOMAIN attempts :
           attempts[i].accepted /\ attempts[j].accepted
             /\ attempts[i].expected = attempts[j].expected => i = j
    BY DEF CountInv, OneWinnerPerRevision
  <2> QED
    BY <1>3, <2>1, <2>2 DEF OneWinnerPerRevision
<1>5. \A i \in DOMAIN attempts' : attempts'[i].accepted => attempts'[i].expected < revision'
  BY <1>1, <1>3 DEF CountInv
<1> QED
  BY <1>1, <1>4, <1>5, CallTakesNothing DEF CountInv

\* Issuing ingress between calls changes no count.
LEMMA CountIdle ==
  ASSUME TypeInv, CountInv, Enqueue \/ Withdraw
  PROVE  CountInv'
<1>1. /\ pc = "idle" /\ UNCHANGED <<attempts, revision, boundaries, saved, pc, run>>
  BY DEF Enqueue, Withdraw, EnqueueCommand, EnqueuePlugin, ScheduleCalendar, CancelPlugin,
     outcomes, settled, control
<1>2. run.caller # "command"
  BY <1>1 DEF TypeInv, CallInv
<1> QED
  BY <1>1, <1>2, CountQuiet

\* A call that starts changes no count.
LEMMA CountBegin ==
  ASSUME TypeInv, CountInv, NEW at \in Nat, BeginAdvance(at) \/ BeginBoundary(at)
  PROVE  CountInv'
<1>1. CASE BeginAdvance(at)
  <2>1. /\ UNCHANGED <<attempts, revision, boundaries, saved>> /\ pc' = "advance"
        /\ run'.canonical = FALSE /\ run'.caller = "none"
    BY <1>1, CallTakesNothing DEF BeginAdvance, outcomes, settled
  <2> QED
    BY <2>1, CountQuiet
<1>2. CASE BeginBoundary(at)
  <2>1. /\ UNCHANGED <<attempts, revision, boundaries>> /\ pc' = "advance"
        /\ run'.canonical = TRUE /\ run'.caller = "none"
        /\ saved'.revision = revision /\ saved'.attempts = Len(attempts)
    BY <1>2, CallTakesNothing DEF BeginBoundary, outcomes, settled, FullCheckpoint
  <2>2. DOMAIN attempts = 1 .. Len(attempts)
    BY DEF TypeInv, TypeOK
  <2>3. OneWinnerPerRevision'
    BY <2>1 DEF CountInv, OneWinnerPerRevision
  <2> QED
    BY <2>1, <2>2, <2>3 DEF CountInv, OneWinnerPerRevision
<1> QED
  BY <1>1, <1>2

\* An advance that ends, or is undone with its last batch, changes no count.
LEMMA CountFinish ==
  ASSUME TypeInv, CountInv, FinishAdvance \/ RollBackBatch
  PROVE  CountInv'
<1>1. /\ UNCHANGED <<attempts, revision, boundaries>> /\ pc' = "idle"
      /\ run' = Call(0, FALSE)
  BY DEF FinishAdvance, RollBackBatch, Return, outcomes, settled, Refused, TooDeep,
     Applying, CountInv
<1>2. OneWinnerPerRevision'
  BY <1>1 DEF CountInv, OneWinnerPerRevision
<1> QED
  BY <1>1, <1>2, CallTakesNothing DEF CountInv

\* A boundary that commits passes one revision.
LEMMA CountCommit ==
  ASSUME TypeInv, CountInv, Commit
  PROVE  CountInv'
<1>1. /\ attempts' = attempts /\ revision' = revision + 1 /\ pc' = "idle"
      /\ run' = Call(0, FALSE) /\ Len(boundaries') = Len(boundaries) + 1
  BY DEF Commit, Return, TypeInv, TypeOK
<1>2. /\ Len(attempts) \in Nat /\ Len(boundaries) \in Nat /\ revision \in Nat
      /\ \A i \in DOMAIN attempts : attempts[i].expected \in Nat
  BY AttemptTypes
<1>3. OneWinnerPerRevision'
  BY <1>1, <1>2 DEF CountInv, OneWinnerPerRevision
<1>4. \A i \in DOMAIN attempts' : attempts'[i].accepted => attempts'[i].expected < revision'
  BY <1>1, <1>2 DEF CountInv
<1> QED
  BY <1>1, <1>3, <1>4, CallTakesNothing DEF CountInv

\* The steps between the commands of a boundary change no count.
LEMMA CountRunning ==
  ASSUME TypeInv, CountInv,
         BeginBatch \/ TakeDueIngress \/ RunScheduled \/ EndScheduled \/ AdmitPacket
            \/ EndAdmission
  PROVE  CountInv'
<1>1. UNCHANGED <<attempts, revision, boundaries, saved>> /\ pc # "idle"
  BY DEF BeginBatch, TakeDueIngress, RunScheduled, EndScheduled, AdmitPacket, EndAdmission,
     outcomes, settled
<1>2. run'.canonical = run.canonical /\ (pc # "apply" => run'.caller # "command")
  <2>1. run \in CallState /\ (pc # "apply" => run.caller # "command")
    BY DEF TypeInv, TypeOK, CallInv
  <2>2. CASE AdmitPacket
    <3>1. Admit(First(run.taken)) \in CallState
          /\ Admit(First(run.taken)).canonical = run.canonical
          /\ Admit(First(run.taken)).caller = run.caller
      BY <2>2, AdmitTypes DEF AdmitPacket
    <3> QED
      BY <2>1, <2>2, <3>1 DEF AdmitPacket, CallState
  <2>3. CASE BeginBatch \/ TakeDueIngress \/ RunScheduled \/ EndScheduled \/ EndAdmission
    BY <2>1, <2>3 DEF BeginBatch, TakeDueIngress, RunScheduled, EndScheduled, EndAdmission,
       CallState
  <2> QED
    BY <2>2, <2>3
<1>3. pc # "apply"
  BY DEF BeginBatch, TakeDueIngress, RunScheduled, EndScheduled, AdmitPacket, EndAdmission
<1>4. ASSUME pc' \in {"scheduled", "apply"}, ~run.canonical PROVE batch'.revision = revision
  <2>1. CASE BeginBatch
    BY <2>1 DEF BeginBatch, PartialCheckpoint
  <2>2. CASE RunScheduled
    BY <2>2, <1>4 DEF RunScheduled, CountInv
  <2>3. CASE EndAdmission
    BY <2>3, <1>4 DEF EndAdmission, TypeInv, CallInv
  <2>4. CASE TakeDueIngress \/ EndScheduled \/ AdmitPacket
    BY <2>4, <1>4 DEF TakeDueIngress, EndScheduled, AdmitPacket
  <2> QED
    BY <2>1, <2>2, <2>3, <2>4
<1> QED
  BY <1>1, <1>2, <1>3, <1>4, CountQuiet

\* A command rejected at once passes one revision.
LEMMA CountReject ==
  ASSUME TypeInv, CountInv, RejectCommand
  PROVE  CountInv'
<1> DEFINE record == RecordOf(First(run.taken))
<1>1. /\ record \in IngressRecord /\ record.body.kind = "command"
      /\ run'.canonical = run.canonical /\ run'.caller = run.caller
      /\ RecordAttempt(record, revision, FALSE)
  BY AdmitTypes DEF RejectCommand
<1>2. /\ pc = "admit" /\ run.canonical /\ run.caller # "command"
      /\ UNCHANGED <<boundaries, saved, pc>>
  BY DEF RejectCommand, settled, TypeInv, CallInv
<1> HIDE DEF record
<1>3. record.body.expected \in Nat
  BY <1>1 DEF IngressRecord, Body
<1> QED
  BY <1>1, <1>2, <1>3, CountAttempt

\* A command starts only at the revision it expects.
LEMMA CountBeginCommand ==
  ASSUME TypeInv, CountInv, NEW plugin \in Plugins, NEW program \in Programs,
         BeginCommand(plugin, program)
  PROVE  CountInv'
<1>1. /\ UNCHANGED <<attempts, revision, boundaries, saved, ingress>>
      /\ pc = "admit" /\ run.canonical /\ batch'.revision = revision
  BY DEF BeginCommand, outcomes, settled, journal, TypeInv, CallInv, PartialCheckpoint
<1>2. run'.taken = run.taken /\ run'.canonical = run.canonical
  BY DEF BeginCommand, TypeInv, TypeOK, CallState
<1>3. RecordOf(First(run.taken))'.body.expected = revision
  BY <1>1, <1>2 DEF BeginCommand, UpToDate, RecordOf
<1> QED
  BY <1>1, <1>2, <1>3, CountQuiet

\* Applying a directive changes neither the record the command came with nor any
\* count.
LEMMA CountApply ==
  ASSUME TypeInv, CountInv,
         \/ \E plugin \in Plugins, reaction \in Reactions : ApplyEmit(reaction, plugin)
         \/ ApplySchedule
         \/ \E class \in PacketClasses, priority \in Priorities :
               ApplyEnqueue(class, priority)
  PROVE  CountInv'
<1>1. /\ UNCHANGED <<attempts, revision, boundaries, saved, batch, pc, run>>
      /\ pc = "apply"
  BY DEF ApplyEmit, ApplySchedule, ApplyEnqueue, Applying, outcomes, settled
<1>2. \A i \in DOMAIN ingress : ingress'[i] = ingress[i]
  <2>1. CASE UNCHANGED ingress
    BY <2>1
  <2>2. ASSUME NEW record, ingress' = Append(ingress, record)
        PROVE  \A i \in DOMAIN ingress : ingress'[i] = ingress[i]
    BY <2>2 DEF TypeInv, TypeOK
  <2>3. ingress' = ingress \/ \E record : ingress' = Append(ingress, record)
    BY DEF ApplyEmit, ApplySchedule, ApplyEnqueue, PushIngress, journal
  <2> QED
    BY <2>1, <2>2, <2>3
<1>3. ASSUME run.caller = "command"
      PROVE  RecordOf(First(run.taken))'.body.expected = revision
  <2>1. First(run.taken) \in run.taken
    BY <1>3, AdmitTypes DEF TypeInv, CommandInv
  <2>2. First(run.taken).id \in DOMAIN ingress
    BY <2>1 DEF TypeInv, CallInv
  <2>3. RecordOf(First(run.taken))' = RecordOf(First(run.taken))
    BY <1>1, <1>2, <2>2 DEF RecordOf
  <2> QED
    BY <1>3, <2>3 DEF CountInv
<1> QED
  BY <1>1, <1>3, CountQuiet DEF CountInv

\* A command that ends, accepted or undone, passes one revision.
LEMMA CountEndApply ==
  ASSUME TypeInv, CountInv, EndApply \/ RollBackCommand
  PROVE  CountInv'
<1>1. CASE run.caller = "command"
  <2> DEFINE record == RecordOf(First(run.taken))
  <2>1. /\ run.taken # {} /\ record.body.kind = "command" /\ run.canonical /\ pc = "apply"
        /\ record.body.expected = revision /\ batch.revision = revision
    BY <1>1 DEF TypeInv, CommandInv, CallInv, CountInv
  <2>2. /\ record \in IngressRecord /\ Admit(First(run.taken)) \in CallState
        /\ Admit(First(run.taken)).canonical = run.canonical
    BY <2>1, AdmitTypes
  <2>3. /\ run' = [Admit(First(run.taken)) EXCEPT !.caller = "none"]
        /\ pc' = "admit" /\ UNCHANGED <<boundaries, saved>>
        /\ \E accepted \in BOOLEAN : RecordAttempt(record, revision, accepted)
    BY <1>1, <2>1 DEF EndApply, RollBackCommand, settled
  <2>4. run'.canonical = run.canonical /\ run'.caller = "none"
    BY <2>2, <2>3 DEF CallState
  <2> HIDE DEF record
  <2>5. record.body.expected \in Nat
    BY <2>1, AttemptTypes
  <2> QED
    BY <2>1, <2>3, <2>4, <2>5, CountAttempt
<1>2. CASE run.caller # "command"
  <2>1. /\ UNCHANGED <<attempts, revision, boundaries, saved, batch, run>>
        /\ pc = "apply" /\ pc' = "scheduled"
    BY <1>2 DEF EndApply, RollBackCommand, outcomes, settled
  <2> QED
    BY <1>2, <2>1, CountQuiet DEF CountInv
<1> QED
  BY <1>1, <1>2

\* A boundary undone by its admission or by its scheduled work.
LEMMA CountUndo ==
  ASSUME TypeInv, CountInv, HandlerPanics \/ RecordLost \/ RollBackBoundary
  PROVE  CountInv'
<1>1. AbortBoundary /\ pc # "idle" /\ run.canonical
  BY DEF HandlerPanics, RecordLost, RollBackBoundary, Refused, TooDeep, Applying, TypeInv,
     CallInv
<1> QED
  BY <1>1, CountAbort

\* Boundary systems change no count; one that fails undoes the boundary.
LEMMA CountSystem ==
  ASSUME TypeInv, CountInv, System
  PROVE  CountInv'
<1>1. ASSUME NEW plugin \in Plugins, SystemFails(plugin) PROVE CountInv'
  BY <1>1, CountAbort DEF SystemFails, TypeInv, CallInv
<1>2. ASSUME NEW plugin \in Plugins,
             \/ \E target \in Plugins, internal \in BOOLEAN, class \in PacketClasses,
                   after \in Delays, priority \in Priorities :
                   SystemSchedules(plugin, target, internal, class, after, priority)
             \/ \E key \in pending : SystemCancels(plugin, key)
             \/ SystemEmits(plugin)
      PROVE  CountInv'
  <2>1. /\ UNCHANGED <<attempts, revision, boundaries, saved, batch, pc>>
        /\ pc = "systems"
    BY <1>2 DEF SystemSchedules, SystemCancels, SystemEmits, outcomes, settled, control
  <2>2. run'.canonical = run.canonical /\ run'.caller = run.caller
    BY <1>2 DEF SystemSchedules, SystemCancels, SystemEmits, control, TypeInv, TypeOK,
       CallState
  <2>3. run.caller # "command"
    BY <2>1 DEF TypeInv, CallInv
  <2> QED
    BY <2>1, <2>2, <2>3, CountQuiet
<1> QED
  BY <1>1, <1>2 DEF System

\* A step that changes nothing.
LEMMA CountStutter ==
  ASSUME TypeInv, CountInv, UNCHANGED vars
  PROVE  CountInv'
<1>1. UNCHANGED <<attempts, revision, boundaries, saved, batch, pc, run, ingress>>
  BY DEF vars, outcomes, settled, control, journal
<1>2. RecordOf(First(run.taken))' = RecordOf(First(run.taken))
  BY <1>1 DEF RecordOf
<1> QED
  BY <1>1, <1>2, CountQuiet DEF CountInv

\* Every step of the kernel keeps the counts.
LEMMA CountStep == TypeInv /\ CountInv /\ [Next]_vars => CountInv'
<1> SUFFICES ASSUME TypeInv, CountInv, [Next]_vars PROVE CountInv'
  OBVIOUS
<1>1. ASSUME NEW at \in Times, BeginAdvance(at) \/ SettleBoundary(at)
      PROVE  CountInv'
  <2>1. at \in Nat
    BY KernelAssumption DEF Times, TypeInv, TypeOK
  <2> QED
    BY <1>1, <2>1, CountBegin DEF SettleBoundary
<1>2. ASSUME StepCanonical PROVE CountInv'
  <2>1. DueTimes \in SUBSET Nat /\ DueTimes # {}
    BY <1>2 DEF DueTimes, TypeInv, TypeOK, Actions, QueueKeys, StepCanonical
  <2>2. (IF NextDue < now THEN now ELSE NextDue) \in Nat
    BY <2>1, EarliestExists DEF NextDue, TypeInv, TypeOK
  <2> QED
    BY <1>2, <2>2, CountBegin DEF StepCanonical
<1>3. ASSUME Step PROVE CountInv'
  <2>1. CASE BeginBatch \/ TakeDueIngress \/ RunScheduled \/ EndScheduled \/ AdmitPacket
                \/ EndAdmission
    BY <2>1, CountRunning
  <2>2. CASE FinishAdvance \/ RollBackBatch
    BY <2>2, CountFinish
  <2>3. CASE HandlerPanics \/ RecordLost \/ RollBackBoundary
    BY <2>3, CountUndo
  <2>4. CASE EndApply \/ RollBackCommand
    BY <2>4, CountEndApply
  <2> QED
    BY <1>3, <2>1, <2>2, <2>3, <2>4, CountReject, CountCommit, CountBeginCommand,
       CountApply DEF Step
<1> QED
  BY <1>1, <1>2, <1>3, CountIdle, CountSystem, CountStutter DEF Next

\* However commands, boundaries, failures and rollbacks interleave, the revision
\* counts the attempts and the boundaries that lasted, and no two commands that
\* were prepared against the same revision are both accepted.
THEOREM OneWinner == Spec => []OneWinnerPerRevision
<1>1. Init => CountInv
  <2> SUFFICES ASSUME Init PROVE CountInv
    OBVIOUS
  <2>1. /\ attempts = <<>> /\ boundaries = <<>> /\ revision = 0 /\ pc = "idle"
        /\ run.caller = "none"
    BY CallTakesNothing DEF Init
  <2>2. DOMAIN attempts = {} /\ Len(attempts) = 0 /\ Len(boundaries) = 0
    BY <2>1
  <2>3. OneWinnerPerRevision
    BY <2>1, <2>2 DEF OneWinnerPerRevision
  <2> QED
    BY <2>1, <2>2, <2>3 DEF CountInv
<1>2. Spec => [](TypeInv /\ CountInv)
  BY <1>1, TypeInit, TypeStep, CountStep, PTL DEF Spec
<1>3. CountInv => OneWinnerPerRevision
  BY DEF CountInv
<1> QED
  BY <1>2, <1>3, PTL

-----------------------------------------------------------------------------
(* Every event is seen by one boundary, whatever calls fail and are undone *)
(* in between. *)

\* A scheduled batch, or a command, runs under a checkpoint of its own.
InBatch == pc \in {"scheduled", "apply"} /\ run.caller = "batch"
InCommand == run.caller = "command"

\* Where the clock stands against the running call's target and what is scheduled:
\* no action is behind it, and none is at it once those due were run.
ClockInv ==
    /\ \A a \in actions : a.at >= now
    /\ pc \in {"idle", "advance", "systems"} => \A a \in actions : a.at > now
    /\ pc # "idle" => now <= run.goal
    /\ pc \in {"admit", "systems"} => now = run.goal
    /\ pc \in {"scheduled", "apply"} /\ run.caller # "batch" => now = run.goal

\* What a checkpoint restores is as the clock it restores it with.
ClockBackInv ==
    /\ InBoundary =>
          /\ saved.now <= now
          /\ \A a \in saved.actions : a.at > saved.now
    /\ InBatch =>
          /\ batch.now <= now
          /\ \A a \in batch.actions : a.at > batch.now
    /\ InCommand =>
          /\ batch.now = now
          /\ \A a \in batch.actions : a.at >= now

\* No event is later than the clock it happened at, in the state and in what the
\* checkpoints go back to.
StampInv ==
    /\ \A e \in DOMAIN events : events[e] <= now
    /\ InBoundary => \A e \in 1 .. saved.events : events[e] <= saved.now
    /\ InBatch => \A e \in 1 .. batch.events : events[e] <= batch.now

\* The cursor is never taken past events that remain, and no rollback moves it.
CursorInv ==
    /\ EventsSeenOnce
    /\ \A b \in DOMAIN boundaries : boundaries[b].last <= cursor
    /\ cursor <= Len(events)
    /\ InBoundary => saved.cursor = cursor /\ cursor <= saved.events
    /\ InBatch \/ InCommand => batch.cursor = cursor /\ cursor <= batch.events
    /\ pc = "systems" => cursor <= run.cut /\ run.cut <= Len(events)

EventInv == ClockInv /\ ClockBackInv /\ StampInv /\ CursorInv

\* What the cursor and the boundaries are.
LEMMA CursorTypes ==
  ASSUME TypeInv
  PROVE  /\ cursor \in Nat /\ now \in Nat /\ Len(events) \in Nat
         /\ DOMAIN events = 1 .. Len(events)
         /\ \A e \in DOMAIN events : events[e] \in Nat
         /\ \A b \in DOMAIN boundaries : /\ boundaries[b].first \in Nat
                                         /\ boundaries[b].last \in Nat
                                         /\ boundaries[b].at \in Nat
         /\ run.goal \in Nat /\ run.cut \in Nat /\ run.canonical \in BOOLEAN
         /\ saved.now \in Nat /\ saved.cursor \in Nat /\ saved.events \in Nat
         /\ batch.now \in Nat /\ batch.cursor \in Nat /\ batch.events \in Nat
         /\ saved.events <= Len(events) /\ batch.events <= Len(events)
         /\ \A a \in actions \cup saved.actions \cup batch.actions : a.at \in Nat
<1>1. TypeOK /\ CheckpointInv
  BY DEF TypeInv
<1>2. /\ run \in CallState /\ saved \in Full /\ batch \in Partial
      /\ events \in Seq(Nat) /\ boundaries \in Seq(Boundary)
      /\ cursor \in Nat /\ now \in Nat /\ actions \subseteq Actions
  BY <1>1 DEF TypeOK
<1>3. \A b \in DOMAIN boundaries : boundaries[b] \in Boundary
  BY <1>2
<1>4. saved.actions \subseteq Actions /\ batch.actions \subseteq Actions
  BY <1>2 DEF Full, Partial
<1>5. /\ run.goal \in Nat /\ run.cut \in Nat /\ run.canonical \in BOOLEAN
      /\ saved.now \in Nat /\ saved.cursor \in Nat /\ saved.events \in Nat
      /\ batch.now \in Nat /\ batch.cursor \in Nat /\ batch.events \in Nat
  BY <1>2 DEF CallState, Full, Partial
<1>6. \A b \in DOMAIN boundaries : /\ boundaries[b].first \in Nat
                                   /\ boundaries[b].last \in Nat
                                   /\ boundaries[b].at \in Nat
  BY <1>3 DEF Boundary
<1>7. \A a \in actions \cup saved.actions \cup batch.actions : a.at \in Nat
  BY <1>2, <1>4 DEF Actions
<1>8. Len(events) \in Nat /\ DOMAIN events = 1 .. Len(events)
      /\ \A e \in DOMAIN events : events[e] \in Nat
  BY <1>2
<1>9. saved.events <= Len(events) /\ batch.events <= Len(events)
  BY <1>1 DEF CheckpointInv
<1> QED
  BY <1>2, <1>5, <1>6, <1>7, <1>8, <1>9

\* The events the boundaries have seen are those up to the cursor; what happens
\* after it touches none of them.
LEMMA SeenKept ==
  ASSUME TypeInv, CursorInv, UNCHANGED <<boundaries, cursor>>,
         events' \in Seq(Nat), cursor <= Len(events'),
         \A e \in 1 .. cursor : events'[e] = events[e]
  PROVE  /\ EventsSeenOnce'
         /\ \A b \in DOMAIN boundaries' : boundaries'[b].last <= cursor'
<1>1. ASSUME NEW b \in DOMAIN boundaries,
             NEW e \in boundaries[b].first .. boundaries[b].last
      PROVE  e \in DOMAIN events' /\ events'[e] <= boundaries[b].at
  <2>1. e \in DOMAIN events /\ events[e] <= boundaries[b].at /\ boundaries[b].last <= cursor
    BY DEF CursorInv, EventsSeenOnce
  <2>2. /\ DOMAIN events = 1 .. Len(events) /\ Len(events) \in Nat /\ cursor \in Nat
        /\ boundaries[b].last \in Nat /\ boundaries[b].first \in Nat
    BY CursorTypes
  <2>3. DOMAIN events' = 1 .. Len(events') /\ Len(events') \in Nat
    OBVIOUS
  <2>4. e \in 1 .. cursor
    BY <2>1, <2>2
  <2>5. e \in DOMAIN events'
    BY <2>2, <2>3, <2>4
  <2> QED
    BY <2>1, <2>4, <2>5
<1> QED
  BY <1>1 DEF CursorInv, EventsSeenOnce

\* A step that leaves the clock, the events and the checkpoints alone.
LEMMA EventQuiet ==
  ASSUME TypeInv, EventInv,
         UNCHANGED <<now, events, actions, boundaries, cursor, saved, batch, pc>>,
         run'.goal = run.goal, run'.canonical = run.canonical,
         run'.caller = run.caller, run'.cut = run.cut
  PROVE  EventInv'
<1>1. EventsSeenOnce'
  BY DEF EventInv, CursorInv, EventsSeenOnce
<1> QED
  BY <1>1 DEF EventInv, ClockInv, ClockBackInv, StampInv, CursorInv, InBoundary, InBatch,
     InCommand

\* The locals of a call that each step of admission and dispatch leaves alone.
LEMMA AdmitFrame ==
  ASSUME TypeInv, run.taken # {}
  PROVE  LET key == First(run.taken) IN
         /\ Admit(key).goal = run.goal /\ Admit(key).cut = run.cut
         /\ Admit(key).canonical = run.canonical /\ Admit(key).caller = run.caller
         /\ Admit(key).taken = run.taken \ {key}
         /\ Admit(key).admitted = Append(run.admitted, key.id)
         /\ Admit(key).generated = run.generated
         /\ Admit(key) \in CallState
<1>1. run \in CallState
  BY DEF TypeInv, TypeOK
<1>2. Admit(First(run.taken)) \in CallState
  BY AdmitTypes
<1> QED
  BY <1>1, <1>2 DEF CallState, Admit

\* Issuing, withdrawing and admitting ingress is no event.
LEMMA EventIngress ==
  ASSUME TypeInv, EventInv,
         \/ Enqueue \/ Withdraw \/ AdmitPacket \/ RejectCommand
         \/ \E class \in PacketClasses, priority \in Priorities :
               ApplyEnqueue(class, priority)
         \/ \E plugin \in Plugins, target \in Plugins, internal \in BOOLEAN,
               class \in PacketClasses, after \in Delays, priority \in Priorities :
               SystemSchedules(plugin, target, internal, class, after, priority)
         \/ \E plugin \in Plugins, key \in pending : SystemCancels(plugin, key)
         \/ UNCHANGED vars
  PROVE  EventInv'
<1>0. run \in CallState
  BY DEF TypeInv, TypeOK
<1>1. UNCHANGED <<now, events, actions, boundaries, cursor, saved, batch, pc>>
  BY DEF Enqueue, EnqueueCommand, EnqueuePlugin, ScheduleCalendar, Withdraw, CancelPlugin,
     AdmitPacket, RejectCommand, ApplyEnqueue, SystemSchedules, SystemCancels, vars,
     schedule, settled, control
<1>2. /\ run'.goal = run.goal /\ run'.canonical = run.canonical
      /\ run'.caller = run.caller /\ run'.cut = run.cut
  <2>1. CASE AdmitPacket \/ RejectCommand
    BY <2>1, AdmitFrame DEF AdmitPacket, RejectCommand, CallState
  <2>2. CASE ~(AdmitPacket \/ RejectCommand)
    <3>1. run' = run \/ run' = [run EXCEPT !.generated = @ \cup {nextId}]
      BY <2>2 DEF Enqueue, EnqueueCommand, EnqueuePlugin, ScheduleCalendar, Withdraw,
         CancelPlugin, ApplyEnqueue, SystemSchedules, SystemCancels, vars, control
    <3> QED
      BY <1>0, <3>1 DEF CallState
  <2> QED
    BY <2>1, <2>2
<1> QED
  BY <1>1, <1>2, EventQuiet

\* A call starts.
LEMMA EventBegin ==
  ASSUME TypeInv, EventInv, NEW at \in Nat, BeginAdvance(at) \/ BeginBoundary(at)
  PROVE  EventInv'
<1>1. /\ UNCHANGED <<now, events, actions, boundaries, cursor, batch>>
      /\ pc = "idle" /\ pc' = "advance" /\ at >= now
      /\ run'.goal = at /\ run'.caller = "none"
  BY DEF BeginAdvance, BeginBoundary, schedule, settled, Call
<1>2. run'.canonical => /\ saved'.now = now /\ saved'.actions = actions
                        /\ saved'.cursor = cursor /\ saved'.events = Len(events)
  BY DEF BeginAdvance, BeginBoundary, Call, FullCheckpoint
<1>3. CursorInv'
  <2>1. EventsSeenOnce' /\ \A b \in DOMAIN boundaries' : boundaries'[b].last <= cursor'
    BY <1>1 DEF EventInv, CursorInv, EventsSeenOnce
  <2> QED
    BY <1>1, <1>2, <2>1, CursorTypes DEF EventInv, CursorInv, InBoundary, InBatch, InCommand
<1>4. ClockInv'
  BY <1>1, CursorTypes DEF EventInv, ClockInv
<1>5. ClockBackInv'
  BY <1>1, <1>2, CursorTypes DEF EventInv, ClockInv, ClockBackInv, InBoundary, InBatch,
     InCommand
<1>6. StampInv'
  <2>1. \A e \in DOMAIN events' : events'[e] <= now'
    BY <1>1 DEF EventInv, StampInv
  <2>2. ~InBatch'
    BY <1>1 DEF InBatch
  <2>3. InBoundary' => \A e \in 1 .. saved'.events : events'[e] <= saved'.now
    BY <1>1, <1>2, CursorTypes DEF EventInv, StampInv, InBoundary
  <2> QED
    BY <2>1, <2>2, <2>3 DEF StampInv
<1> QED
  BY <1>3, <1>4, <1>5, <1>6 DEF EventInv

\* A scheduled batch starts: the clock moves to its time, short of the target.
LEMMA EventBeginBatch ==
  ASSUME TypeInv, EventInv, BeginBatch
  PROVE  EventInv'
<1>1. PICK action \in actions :
         /\ Earliest(action) /\ Reached(action)
         /\ batch' = PartialCheckpoint /\ now' = action.at
  BY DEF BeginBatch
<1>2. /\ UNCHANGED <<events, actions, boundaries, cursor, saved>>
      /\ pc = "advance" /\ pc' = "scheduled"
  BY DEF BeginBatch, schedule, settled
<1>3. run'.goal = run.goal /\ run'.canonical = run.canonical /\ run'.caller = "batch"
  BY DEF BeginBatch, TypeInv, TypeOK, CallState
<1>4. /\ batch'.now = now /\ batch'.actions = actions /\ batch'.cursor = cursor
      /\ batch'.events = Len(events)
  BY <1>1 DEF PartialCheckpoint
<1>5. /\ now' > now /\ now' <= run.goal /\ now' \in Nat
      /\ \A a \in actions : a.at >= now'
  <2>1. /\ now \in Nat /\ run.goal \in Nat /\ \A a \in actions : a.at \in Nat /\ a.at > now
    BY <1>2, CursorTypes DEF EventInv, ClockInv
  <2> QED
    BY <1>1, <2>1 DEF Earliest, Reached
<1>6. CursorInv'
  <2>1. EventsSeenOnce' /\ \A b \in DOMAIN boundaries' : boundaries'[b].last <= cursor'
    BY <1>2 DEF EventInv, CursorInv, EventsSeenOnce
  <2> QED
    BY <1>2, <1>3, <1>4, <2>1 DEF EventInv, CursorInv, InBoundary, InBatch, InCommand
<1>7. ClockInv'
  BY <1>2, <1>3, <1>5 DEF ClockInv
<1>8. ClockBackInv'
  <2>1. InBoundary' => InBoundary
    BY <1>2, <1>3 DEF InBoundary
  <2>2. batch'.now <= now' /\ \A a \in batch'.actions : a.at > batch'.now
    BY <1>2, <1>4, <1>5, CursorTypes DEF EventInv, ClockInv
  <2>3. InBoundary => saved'.now <= now' /\ \A a \in saved'.actions : a.at > saved'.now
    BY <1>2, <1>5, CursorTypes DEF EventInv, ClockBackInv
  <2> QED
    BY <1>3, <2>1, <2>2, <2>3 DEF ClockBackInv, InCommand
<1>9. StampInv'
  <2>1. InBoundary' => InBoundary
    BY <1>2, <1>3 DEF InBoundary
  <2>2. \A e \in DOMAIN events' : events'[e] <= now'
    BY <1>2, <1>5, CursorTypes DEF EventInv, StampInv
  <2>3. \A e \in 1 .. batch'.events : events'[e] <= batch'.now
    BY <1>2, <1>4, CursorTypes DEF EventInv, StampInv
  <2>4. InBoundary => \A e \in 1 .. saved'.events : events'[e] <= saved'.now
    BY <1>2 DEF EventInv, StampInv
  <2> QED
    BY <2>1, <2>2, <2>3, <2>4 DEF StampInv
<1> QED
  BY <1>6, <1>7, <1>8, <1>9 DEF EventInv

\* The clock reaches the target of an advance or of a boundary.
LEMMA EventReach ==
  ASSUME TypeInv, EventInv, FinishAdvance \/ TakeDueIngress
  PROVE  EventInv'
<1>1. /\ UNCHANGED <<events, actions, boundaries, cursor>> /\ pc = "advance"
      /\ now' = run.goal /\ \A action \in actions : ~Reached(action)
  BY DEF FinishAdvance, TakeDueIngress, schedule, settled
<1>2. now' >= now /\ now' \in Nat
  BY <1>1, CursorTypes DEF EventInv, ClockInv
<1>3. EventsSeenOnce' /\ \A b \in DOMAIN boundaries' : boundaries'[b].last <= cursor'
  BY <1>1 DEF EventInv, CursorInv, EventsSeenOnce
<1>4. CASE FinishAdvance
  <2>1. pc' = "idle" /\ run'.caller = "none" /\ \A a \in actions : a.at > now'
    BY <1>1, <1>4, CursorTypes DEF FinishAdvance, Return, Call, Reached
  <2>2. ClockInv' /\ ClockBackInv'
    BY <1>1, <1>2, <2>1, CursorTypes DEF ClockInv, ClockBackInv, InBoundary, InBatch,
       InCommand
  <2>3. StampInv'
    BY <1>1, <1>2, <2>1, CursorTypes DEF EventInv, StampInv, InBoundary, InBatch
  <2>4. CursorInv'
    BY <1>1, <1>3, <2>1 DEF EventInv, CursorInv, InBoundary, InBatch, InCommand
  <2> QED
    BY <2>2, <2>3, <2>4 DEF EventInv
<1>5. CASE TakeDueIngress
  <2>1. /\ pc' = "admit" /\ run'.goal = run.goal /\ run'.canonical = run.canonical
        /\ run'.caller = run.caller /\ UNCHANGED <<saved, batch>>
    <3>1. run \in CallState
      BY DEF TypeInv, TypeOK
    <3> QED
      BY <1>5, <3>1 DEF TakeDueIngress, CallState
  <2>2. run.caller # "command"
    BY <1>1 DEF TypeInv, CallInv
  <2>3. \A a \in actions : a.at >= now'
    BY <1>1, <1>5, CursorTypes DEF TakeDueIngress, Reached
  <2> QED
    BY <1>1, <1>2, <1>3, <2>1, <2>2, <2>3, CursorTypes DEF EventInv, ClockInv, ClockBackInv,
       StampInv, CursorInv, InBoundary, InBatch, InCommand
<1> QED
  BY <1>4, <1>5

\* Scheduled work runs at its time until none is left at it.
LEMMA EventScheduled ==
  ASSUME TypeInv, EventInv, RunScheduled \/ EndScheduled
  PROVE  EventInv'
<1>1. /\ UNCHANGED <<now, events, boundaries, cursor, saved>> /\ pc = "scheduled"
      /\ actions' \subseteq actions
  BY DEF RunScheduled, EndScheduled, schedule, settled
<1>2. EventsSeenOnce' /\ \A b \in DOMAIN boundaries' : boundaries'[b].last <= cursor'
  BY <1>1 DEF EventInv, CursorInv, EventsSeenOnce
<1>3. run.caller \in {"batch", "boundary"} /\ (run.caller = "boundary" => run.canonical)
  BY <1>1 DEF TypeInv, CallInv
<1>4. CASE RunScheduled
  <2>1. pc' = "apply" /\ UNCHANGED <<run, batch>>
    BY <1>4 DEF RunScheduled
  <2>2. ClockInv'
    BY <1>1, <2>1 DEF EventInv, ClockInv
  <2>3. ClockBackInv' /\ StampInv'
    BY <1>1, <2>1 DEF EventInv, ClockBackInv, StampInv, InBoundary, InBatch, InCommand
  <2>4. CursorInv'
    BY <1>1, <1>2, <2>1 DEF EventInv, CursorInv, InBoundary, InBatch, InCommand
  <2> QED
    BY <2>2, <2>3, <2>4 DEF EventInv
<1>5. CASE EndScheduled /\ run.caller = "batch"
  <2>1. pc' = "advance" /\ UNCHANGED <<run, actions>> /\ \A a \in actions : a.at # now
    BY <1>5 DEF EndScheduled, schedule
  <2> QED
    BY <1>1, <1>2, <1>5, <2>1, CursorTypes DEF EventInv, ClockInv, ClockBackInv, StampInv,
       CursorInv, InBoundary, InBatch, InCommand
<1>6. CASE EndScheduled /\ run.caller = "boundary"
  <2>1. /\ pc' = "systems" /\ actions' = actions /\ \A a \in actions : a.at # now
        /\ run'.goal = run.goal /\ run'.canonical = run.canonical
        /\ run'.caller = run.caller /\ run'.cut = Len(events)
    BY <1>6, CursorTypes DEF EndScheduled, schedule, TypeInv, TypeOK, CallState
  <2> QED
    BY <1>1, <1>2, <1>3, <1>6, <2>1, CursorTypes DEF EventInv, ClockInv, ClockBackInv,
       StampInv, CursorInv, InBoundary, InBatch, InCommand
<1> QED
  BY <1>3, <1>4, <1>5, <1>6

\* A command starts, admission ends, or the last directive was applied.
LEMMA EventPass ==
  ASSUME TypeInv, EventInv,
         \/ \E plugin \in Plugins, program \in Programs : BeginCommand(plugin, program)
         \/ EndAdmission
         \/ EndApply
  PROVE  EventInv'
<1>1. UNCHANGED <<now, events, actions, boundaries, cursor, saved>>
  BY DEF BeginCommand, EndAdmission, EndApply, schedule, settled
<1>2. EventsSeenOnce' /\ \A b \in DOMAIN boundaries' : boundaries'[b].last <= cursor'
  BY <1>1 DEF EventInv, CursorInv, EventsSeenOnce
<1>3. ASSUME NEW plugin \in Plugins, NEW program \in Programs,
             BeginCommand(plugin, program)
      PROVE  EventInv'
  <2>1. /\ pc = "admit" /\ pc' = "apply" /\ batch' = PartialCheckpoint
        /\ run'.goal = run.goal /\ run'.canonical = run.canonical
        /\ run'.caller = "command"
    BY <1>3 DEF BeginCommand, TypeInv, TypeOK, CallState
  <2>2. /\ batch'.now = now /\ batch'.actions = actions /\ batch'.cursor = cursor
        /\ batch'.events = Len(events)
    BY <2>1 DEF PartialCheckpoint
  <2> QED
    BY <1>1, <1>2, <2>1, <2>2, CursorTypes DEF EventInv, ClockInv, ClockBackInv, StampInv,
       CursorInv, InBoundary, InBatch, InCommand
<1>4. CASE EndAdmission
  <2>1. /\ pc = "admit" /\ pc' = "scheduled" /\ run'.goal = run.goal
        /\ run'.canonical = run.canonical /\ run'.caller = "boundary"
    BY <1>4 DEF EndAdmission, TypeInv, TypeOK, CallState
  <2> QED
    BY <1>1, <1>2, <2>1, CursorTypes DEF EventInv, ClockInv, ClockBackInv, StampInv,
       CursorInv, InBoundary, InBatch, InCommand
<1>5. CASE EndApply /\ run.caller = "command"
  <2>1. run.taken # {}
    BY <1>5 DEF TypeInv, CommandInv
  <2>2. /\ pc = "apply" /\ pc' = "admit" /\ run'.goal = run.goal
        /\ run'.canonical = run.canonical /\ run'.caller = "none"
    BY <1>5, <2>1, AdmitFrame DEF EndApply, CallState
  <2> QED
    BY <1>1, <1>2, <1>5, <2>2, CursorTypes DEF EventInv, ClockInv, ClockBackInv, StampInv,
       CursorInv, InBoundary, InBatch, InCommand
<1>6. CASE EndApply /\ run.caller # "command"
  <2>1. pc = "apply" /\ pc' = "scheduled" /\ UNCHANGED <<run, batch>>
    BY <1>6 DEF EndApply
  <2> QED
    BY <1>1, <1>2, <1>6, <2>1, CursorTypes DEF EventInv, ClockInv, ClockBackInv, StampInv,
       CursorInv, InBoundary, InBatch, InCommand
<1> QED
  BY <1>3, <1>4, <1>5, <1>6

\* An event happens: of a command, of scheduled work or of a boundary system.
LEMMA EventEmit ==
  ASSUME TypeInv, EventInv,
         \/ \E plugin \in Plugins, reaction \in Reactions : ApplyEmit(reaction, plugin)
         \/ \E plugin \in Plugins : SystemEmits(plugin)
  PROVE  EventInv'
<1>1. /\ UNCHANGED <<now, actions, boundaries, cursor, saved, batch, run, pc>>
      /\ events' = Append(events, now)
  BY DEF ApplyEmit, SystemEmits, schedule, settled, control
<1>2. /\ events' \in Seq(Nat) /\ Len(events') = Len(events) + 1
      /\ DOMAIN events' = 1 .. Len(events) + 1 /\ events'[Len(events) + 1] = now
      /\ \A e \in 1 .. Len(events) : events'[e] = events[e]
  BY <1>1 DEF TypeInv, TypeOK
<1>3. EventsSeenOnce' /\ \A b \in DOMAIN boundaries' : boundaries'[b].last <= cursor'
  <2>1. cursor <= Len(events') /\ \A e \in 1 .. cursor : events'[e] = events[e]
    BY <1>2, CursorTypes DEF EventInv, CursorInv
  <2> QED
    BY <1>1, <1>2, <2>1, SeenKept DEF EventInv
<1>4. ClockInv' /\ ClockBackInv'
  BY <1>1 DEF EventInv, ClockInv, ClockBackInv, InBoundary, InBatch, InCommand
<1>5. StampInv'
  <2>0. /\ now \in Nat /\ Len(events) \in Nat /\ DOMAIN events = 1 .. Len(events)
        /\ saved.events \in Nat /\ saved.events <= Len(events)
        /\ batch.events \in Nat /\ batch.events <= Len(events)
    BY CursorTypes
  <2>1. \A e \in DOMAIN events' : events'[e] <= now
    BY <1>2, <2>0 DEF EventInv, StampInv
  <2>2. /\ \A e \in 1 .. saved.events : events'[e] = events[e]
        /\ \A e \in 1 .. batch.events : events'[e] = events[e]
    BY <1>2, <2>0
  <2> QED
    BY <1>1, <2>1, <2>2 DEF EventInv, StampInv, InBoundary, InBatch
<1>6. CursorInv'
  BY <1>1, <1>2, <1>3, CursorTypes DEF EventInv, CursorInv, InBoundary, InBatch, InCommand
<1> QED
  BY <1>4, <1>5, <1>6 DEF EventInv

\* A directive is scheduled for later.
LEMMA EventSchedule ==
  ASSUME TypeInv, EventInv, ApplySchedule
  PROVE  EventInv'
<1>1. /\ UNCHANGED <<now, events, boundaries, cursor, saved, batch, run, pc>>
      /\ pc = "apply"
  BY DEF ApplySchedule, Applying, settled
<1>2. \A a \in actions' : a \in actions \/ a.at >= now
  <2>1. Head(todo).directive.after \in Nat \ {0}
    BY HeadTypes DEF ApplySchedule, Applying
  <2> QED
    BY <2>1, CursorTypes DEF ApplySchedule
<1>3. ClockInv'
  <2>1. ASSUME NEW a \in actions' PROVE a.at >= now
    BY <1>2 DEF EventInv, ClockInv
  <2> QED
    BY <1>1, <2>1 DEF EventInv, ClockInv
<1>4. EventsSeenOnce'
  BY <1>1 DEF EventInv, CursorInv, EventsSeenOnce
<1> QED
  BY <1>1, <1>3, <1>4 DEF EventInv, ClockBackInv, StampInv, CursorInv, InBoundary, InBatch,
     InCommand

\* A boundary is undone.
LEMMA EventAbort ==
  ASSUME TypeInv, EventInv, AbortBoundary, pc # "idle", run.canonical
  PROVE  EventInv'
<1>0. InBoundary
  BY DEF InBoundary
<1>1. /\ now' = saved.now /\ actions' = saved.actions /\ cursor' = saved.cursor
      /\ events' = SubSeq(events, 1, saved.events) /\ boundaries' = boundaries
      /\ pc' = "idle" /\ run'.caller = "none"
  BY CallTakesNothing DEF AbortBoundary, RestoreEvidence, Return
<1>2. /\ events' \in Seq(Nat) /\ Len(events') = saved.events
      /\ DOMAIN events' = 1 .. saved.events
      /\ \A e \in 1 .. saved.events : events'[e] = events[e]
  <2>1. events \in Seq(Nat) /\ saved.events \in Nat /\ saved.events <= Len(events)
    BY CursorTypes DEF TypeInv, TypeOK
  <2> QED
    BY <1>1, <2>1, PrefixType
<1>3. cursor' = cursor /\ cursor <= saved.events
  BY <1>0, <1>1 DEF EventInv, CursorInv
<1>4. EventsSeenOnce' /\ \A b \in DOMAIN boundaries' : boundaries'[b].last <= cursor'
  <2>1. cursor <= Len(events') /\ \A e \in 1 .. cursor : events'[e] = events[e]
    BY <1>2, <1>3, CursorTypes
  <2> QED
    BY <1>1, <1>2, <1>3, <2>1, SeenKept DEF EventInv
<1>5. ClockInv' /\ ClockBackInv'
  BY <1>0, <1>1, CursorTypes DEF EventInv, ClockInv, ClockBackInv, InBoundary, InBatch, InCommand
<1>6. StampInv'
  BY <1>0, <1>1, <1>2 DEF EventInv, StampInv, InBoundary, InBatch
<1>7. CursorInv'
  BY <1>1, <1>2, <1>3, <1>4 DEF CursorInv, InBoundary, InBatch, InCommand
<1> QED
  BY <1>5, <1>6, <1>7 DEF EventInv

\* A command or a legacy batch is undone.
LEMMA EventRollBack ==
  ASSUME TypeInv, EventInv, RollBackCommand \/ RollBackBatch
  PROVE  EventInv'
<1>1. /\ now' = batch.now /\ actions' = batch.actions /\ cursor' = batch.cursor
      /\ events' = SubSeq(events, 1, batch.events) /\ boundaries' = boundaries
      /\ pc = "apply"
  BY DEF RollBackCommand, RollBackBatch, RestorePartial, Refused, TooDeep, Applying
<1>2. /\ events' \in Seq(Nat) /\ Len(events') = batch.events
      /\ DOMAIN events' = 1 .. batch.events
      /\ \A e \in 1 .. batch.events : events'[e] = events[e]
  <2>1. events \in Seq(Nat) /\ batch.events \in Nat /\ batch.events <= Len(events)
    BY CursorTypes DEF TypeInv, TypeOK
  <2> QED
    BY <1>1, <2>1, PrefixType
<1>3. CASE RollBackCommand
  <2>1. InCommand /\ run.taken # {} /\ run.canonical /\ saved.events <= batch.events
    BY <1>3 DEF RollBackCommand, TypeInv, CallInv, CommandInv, InCommand
  <2>2. /\ pc' = "admit" /\ run'.goal = run.goal /\ run'.canonical = run.canonical
        /\ run'.caller = "none" /\ saved' = saved
    BY <1>3, <2>1, AdmitFrame DEF RollBackCommand, CallState
  <2>3. /\ now' = now /\ cursor' = cursor /\ cursor <= batch.events
        /\ \A a \in actions' : a.at >= now'
    BY <1>1, <2>1 DEF EventInv, CursorInv, ClockBackInv
  <2>4. EventsSeenOnce' /\ \A b \in DOMAIN boundaries' : boundaries'[b].last <= cursor'
    <3>1. cursor <= Len(events') /\ \A e \in 1 .. cursor : events'[e] = events[e]
      BY <1>2, <2>3, CursorTypes
    <3> QED
      BY <1>1, <1>2, <2>3, <3>1, SeenKept DEF EventInv
  <2>5. ClockInv' /\ ClockBackInv'
    BY <1>1, <2>1, <2>2, <2>3 DEF EventInv, ClockInv, ClockBackInv, InBoundary, InBatch,
       InCommand
  <2>6. StampInv'
    <3>1. \A e \in 1 .. batch.events : e \in DOMAIN events
      BY CursorTypes
    <3>2. \A e \in 1 .. saved.events : e \in 1 .. batch.events
      BY <2>1, CursorTypes
    <3> QED
      BY <1>1, <1>2, <2>1, <2>2, <2>3, <3>1, <3>2
         DEF EventInv, StampInv, InBoundary, InBatch
  <2>7. CursorInv'
    BY <1>1, <1>2, <2>1, <2>2, <2>3, <2>4 DEF EventInv, CursorInv, InBoundary, InBatch,
       InCommand
  <2> QED
    BY <2>5, <2>6, <2>7 DEF EventInv
<1>4. CASE RollBackBatch
  <2>1. InBatch /\ pc' = "idle" /\ run'.caller = "none"
    <3>1. pc' = "idle" /\ run' = Call(0, FALSE) /\ ~run.canonical
      BY <1>4 DEF RollBackBatch, Return
    <3>2. run.caller \in {"none", "batch", "boundary", "command"}
      BY DEF TypeInv, TypeOK, CallState
    <3> QED
      <4>1. run.caller # "none" /\ run.caller \notin {"boundary", "command"}
        <5>1. CallInv
          BY DEF TypeInv
        <5> QED
          BY <1>1, <3>1, <5>1 DEF CallInv
      <4>2. run.caller = "batch"
        BY <3>2, <4>1
      <4> QED
        BY <1>1, <3>1, <4>2 DEF InBatch, Call
  <2>2. /\ cursor' = cursor /\ cursor <= batch.events
        /\ \A a \in actions' : a.at > now' /\ a.at >= now'
    BY <1>1, <2>1, CursorTypes DEF EventInv, CursorInv, ClockBackInv
  <2>3. EventsSeenOnce' /\ \A b \in DOMAIN boundaries' : boundaries'[b].last <= cursor'
    <3>1. cursor <= Len(events') /\ \A e \in 1 .. cursor : events'[e] = events[e]
      BY <1>2, <2>2, CursorTypes
    <3> QED
      BY <1>1, <1>2, <2>2, <3>1, SeenKept DEF EventInv
  <2> QED
    BY <1>1, <1>2, <2>1, <2>2, <2>3 DEF EventInv, ClockInv, ClockBackInv, StampInv,
       CursorInv, InBoundary, InBatch, InCommand
<1> QED
  BY <1>3, <1>4

\* A boundary commits: the next one sees the events after its cut.
LEMMA EventCommit ==
  ASSUME TypeInv, EventInv, Commit
  PROVE  EventInv'
<1> DEFINE boundary == [at |-> run.goal, admitted |-> run.admitted,
                        generated |-> run.generated, first |-> cursor + 1,
                        last |-> run.cut]
<1>1. /\ UNCHANGED <<now, events, actions>> /\ cursor' = run.cut
      /\ boundaries' = Append(boundaries, boundary)
      /\ pc = "systems" /\ pc' = "idle" /\ run'.caller = "none"
  BY CallTakesNothing DEF Commit, Return, schedule
<1>2. /\ boundary.at = run.goal /\ boundary.first = cursor + 1 /\ boundary.last = run.cut
      /\ boundary \in Boundary
  BY DEF Boundary, TypeInv, TypeOK, CallState
<1> HIDE DEF boundary
<1>3. /\ Len(boundaries') = Len(boundaries) + 1 /\ Len(boundaries) \in Nat
      /\ DOMAIN boundaries = 1 .. Len(boundaries)
      /\ DOMAIN boundaries' = 1 .. Len(boundaries) + 1
      /\ \A b \in 1 .. Len(boundaries) : boundaries'[b] = boundaries[b]
      /\ boundaries'[Len(boundaries) + 1] = boundary
      /\ boundaries' # <<>> /\ (boundaries = <<>> <=> Len(boundaries) = 0)
  BY <1>1, <1>2 DEF TypeInv, TypeOK
<1>4. cursor <= run.cut /\ run.cut <= Len(events) /\ now = run.goal
  BY <1>1 DEF EventInv, CursorInv, ClockInv
<1>5. \A b \in DOMAIN boundaries' : boundaries'[b].last <= cursor'
  BY <1>1, <1>2, <1>3, <1>4, CursorTypes DEF EventInv, CursorInv
<1>6. ASSUME NEW b \in DOMAIN boundaries'
      PROVE  /\ boundaries'[b].first = (IF b = 1 THEN 1 ELSE boundaries'[b - 1].last + 1)
             /\ \A e \in boundaries'[b].first .. boundaries'[b].last :
                   e \in DOMAIN events' /\ events'[e] <= boundaries'[b].at
  <2>1. CASE b \in 1 .. Len(boundaries)
    <3>1. b \in DOMAIN boundaries /\ boundaries'[b] = boundaries[b]
          /\ (b # 1 => boundaries'[b - 1] = boundaries[b - 1])
      BY <1>3, <2>1
    <3> QED
      BY <1>1, <3>1 DEF EventInv, CursorInv, EventsSeenOnce
  <2>2. CASE b = Len(boundaries) + 1
    <3>1. boundaries'[b].first = cursor + 1
      BY <1>2, <1>3, <2>2
    <3>2. cursor = (IF b = 1 THEN 0 ELSE boundaries'[b - 1].last)
      BY <1>3, <2>2 DEF EventInv, CursorInv, EventsSeenOnce
    <3>3. ASSUME NEW e \in boundaries'[b].first .. boundaries'[b].last
          PROVE  e \in DOMAIN events' /\ events'[e] <= boundaries'[b].at
      <4>1. e \in DOMAIN events
        BY <1>2, <1>3, <1>4, <2>2, CursorTypes
      <4> QED
        BY <1>1, <1>2, <1>3, <1>4, <2>2, <4>1 DEF EventInv, StampInv
    <3> QED
      BY <3>1, <3>2, <3>3
  <2> QED
    BY <1>3, <2>1, <2>2
<1>7. EventsSeenOnce'
  <2>1. cursor' = boundaries'[Len(boundaries')].last
    BY <1>1, <1>2, <1>3
  <2> QED
    BY <1>3, <1>6, <2>1 DEF EventsSeenOnce
<1>8. CursorInv'
  BY <1>1, <1>4, <1>5, <1>7 DEF CursorInv, InBoundary, InBatch, InCommand
<1>9. ClockInv' /\ ClockBackInv' /\ StampInv'
  BY <1>1 DEF EventInv, ClockInv, ClockBackInv, StampInv, InBoundary, InBatch, InCommand
<1> QED
  BY <1>8, <1>9 DEF EventInv

\* Every step of the kernel keeps what the cursor rests on.
LEMMA EventStep == TypeInv /\ EventInv /\ [Next]_vars => EventInv'
<1> SUFFICES ASSUME TypeInv, EventInv, [Next]_vars PROVE EventInv'
  OBVIOUS
<1>1. ASSUME NEW at \in Times, BeginAdvance(at) \/ SettleBoundary(at)
      PROVE  EventInv'
  <2>1. at \in Nat
    BY KernelAssumption DEF Times, TypeInv, TypeOK
  <2> QED
    BY <1>1, <2>1, EventBegin DEF SettleBoundary
<1>2. ASSUME StepCanonical PROVE EventInv'
  <2>1. DueTimes \in SUBSET Nat /\ DueTimes # {}
    BY <1>2 DEF DueTimes, TypeInv, TypeOK, Actions, QueueKeys, StepCanonical
  <2>2. (IF NextDue < now THEN now ELSE NextDue) \in Nat
    BY <2>1, EarliestExists DEF NextDue, TypeInv, TypeOK
  <2> QED
    BY <1>2, <2>2, EventBegin DEF StepCanonical
<1>3. ASSUME NEW plugin \in Plugins, SystemFails(plugin)
      PROVE  EventInv'
  <2>1. AbortBoundary /\ pc # "idle" /\ run.canonical
    BY <1>3 DEF SystemFails, TypeInv, CallInv
  <2> QED
    BY <2>1, EventAbort
<1>4. ASSUME Step PROVE EventInv'
  <2>1. CASE HandlerPanics \/ RecordLost \/ RollBackBoundary
    <3>1. AbortBoundary /\ pc # "idle" /\ run.canonical
      BY <2>1 DEF HandlerPanics, RecordLost, RollBackBoundary, Refused, TooDeep, Applying,
         TypeInv, CallInv
    <3> QED
      BY <3>1, EventAbort
  <2>2. CASE BeginBatch
    BY <2>2, EventBeginBatch
  <2>3. CASE FinishAdvance \/ TakeDueIngress
    BY <2>3, EventReach
  <2>4. CASE RunScheduled \/ EndScheduled
    BY <2>4, EventScheduled
  <2>5. CASE RollBackCommand \/ RollBackBatch
    BY <2>5, EventRollBack
  <2> QED
    BY <1>4, <2>1, <2>2, <2>3, <2>4, <2>5, EventIngress, EventPass, EventEmit,
       EventSchedule, EventCommit DEF Step
<1>5. ASSUME System PROVE EventInv'
  BY <1>3, <1>5, EventIngress, EventEmit DEF System
<1> QED
  BY <1>1, <1>2, <1>4, <1>5, EventIngress DEF Next

\* Initially there are no events.
LEMMA EventInit == Init => EventInv
<1> SUFFICES ASSUME Init PROVE EventInv
  OBVIOUS
<1>1. /\ now = 0 /\ events = <<>> /\ boundaries = <<>> /\ actions = {} /\ cursor = 0
      /\ pc = "idle" /\ run.caller = "none"
  BY CallTakesNothing DEF Init
<1>2. DOMAIN events = {} /\ DOMAIN boundaries = {} /\ Len(events) = 0
  BY <1>1
<1> QED
  BY <1>1, <1>2 DEF EventInv, ClockInv, ClockBackInv, StampInv, CursorInv,
     EventsSeenOnce, InBoundary, InBatch, InCommand

\* Every event is seen by the systems of exactly one boundary: failed calls take
\* back events no boundary has seen, and never one a boundary has seen.
THEOREM EverySeenOnce == Spec => []EventsSeenOnce
<1>1. Spec => [](TypeInv /\ EventInv)
  BY EventInit, TypeInit, TypeStep, EventStep, PTL DEF Spec
<1>2. EventInv => EventsSeenOnce
  BY DEF EventInv, CursorInv
<1> QED
  BY <1>1, <1>2, PTL


-----------------------------------------------------------------------------
(* The inductive invariant of the queue. *)

\* Of what is applied, only a command's own directives issue packets that are not
\* a reactor's.
TodoInv ==
    /\ pc # "apply" => todo = <<>>
    /\ \A i \in DOMAIN todo :
          todo[i].directive.op = "enqueue" /\ todo[i].depth = 0 => InCommand

\* No rollback of a command or of a batch brings the counter nearer to the end of
\* the journal, and what a boundary withdraws stays withdrawn until it fails.
GapInv ==
    /\ InBatch \/ InCommand => batch.nextId <= nextId
    /\ InBoundary => /\ nextId - saved.nextId <= Len(ingress) - saved.ingress
                     /\ saved.cancelled \subseteq cancelled

\* A queue key is the key of its record, which is not a withdrawal.
Stands(k) == k = QueueKey(ingress[k.id]) /\ ingress[k.id].body.kind # "cancel"

KeyInv ==
    /\ \A k \in pending : Stands(k)
    /\ \A k \in run.taken : Stands(k)

\* A call has taken nothing before it reaches its target, and dispatches systems
\* when everything taken is admitted.
LocalsInv ==
    /\ pc \in {"idle", "advance"} \/ InBatch => run.taken = {} /\ run.admitted = <<>>
    /\ run.caller = "boundary" =>
          run.taken = {} /\ pc \in {"scheduled", "apply", "systems"}
    /\ pc = "systems" => run.caller = "boundary"

\* Nothing queued but a reactor's packet is behind the clock, or behind what the
\* running call moves it to.
DueInv ==
    /\ pc = "idle" => \A k \in pending : k.due >= now \/ FromReactor(k.id)
    /\ pc # "idle" /\ ~run.canonical
          => \A k \in pending : k.due > run.goal \/ FromReactor(k.id)
    /\ InBoundary => \A k \in pending : k.due >= run.goal \/ FromReactor(k.id)
    /\ \A k \in run.taken : k.due = run.goal \/ FromReactor(k.id)

\* What the withdrawals among the first n records of the journal withdraw.
Targets(n) ==
    {ingress[c].body.target : c \in {d \in 1 .. n : ingress[d].body.kind = "cancel"}}

\* The withdrawn are those with a withdrawal.
WithdrawalInv == WithdrawnInTime /\ cancelled = Targets(Len(ingress))

\* The records among the first n that are to be admitted: all but withdrawals.
Scheduled(n) == {i \in 1 .. n : ingress[i].body.kind # "cancel"}

\* What the settled boundaries admitted.
Answered == UNION {Elements(boundaries[b].admitted) : b \in DOMAIN boundaries}

\* The five sets have nothing in common and make up S.
Parts(S, A, B, C, D, E) ==
    /\ S = A \cup B \cup C \cup D \cup E
    /\ A \cap (B \cup C \cup D \cup E) = {} /\ B \cap (C \cup D \cup E) = {}
    /\ C \cap (D \cup E) = {} /\ D \cap E = {}

\* Every record has its one fate.
FateInv ==
    Parts(Scheduled(Len(ingress)), Ids(pending), Ids(run.taken), Elements(run.admitted),
          Answered, cancelled)

\* What is said of the journal and the queue as long as no refused call left a
\* packet behind.
RecordsInv == Intact /\ IdentityIsPosition /\ KeyInv /\ WithdrawalInv /\ FateInv

\* The first n records are withdrawn in time, if at all.
WithdrawnIn(n) ==
    \A c \in 1 .. n : ingress[c].body.kind = "cancel" =>
        LET target == ingress[c].body.target IN
        /\ target < c /\ ingress[c].issued < ingress[target].due
        /\ \A d \in 1 .. n : ingress[d].body = ingress[c].body => d = c

\* No refused call had left a packet behind when the boundary began.
WasIntact == saved.nextId = saved.ingress + 1

\* What a boundary that fails goes back to: a queue that nothing in it is behind,
\* and the journal and the queue as they were.
BackInv ==
    InBoundary =>
        /\ \A k \in saved.pending : k.due >= run.goal
        /\ WasIntact =>
              /\ \A i \in 1 .. saved.ingress : ingress[i].id = i
              /\ \A k \in saved.pending : Stands(k)
              /\ WithdrawnIn(saved.ingress)
              /\ saved.cancelled = Targets(saved.ingress)
              /\ Parts(Scheduled(saved.ingress), Ids(saved.pending), {}, {},
                       Answered, saved.cancelled)

QueueInv ==
    /\ TodoInv /\ GapInv /\ LocalsInv /\ BackInv
    /\ Intact => RecordsInv /\ DueInv

-----------------------------------------------------------------------------
(* Facts about queues and journals. *)

\* What queue keys and journalled records are.
LEMMA QueueTypes ==
  ASSUME TypeInv
  PROVE  /\ ingress \in Seq(IngressRecord) /\ Len(ingress) \in Nat
         /\ DOMAIN ingress = 1 .. Len(ingress)
         /\ \A i \in DOMAIN ingress :
               /\ ingress[i].issued \in Nat /\ ingress[i].due \in Nat
               /\ ingress[i].eligible \in Nat
         /\ \A k \in pending \cup run.taken \cup saved.pending :
               /\ k \in QueueKeys /\ k.due \in Nat /\ k.id \in Nat
         /\ \A k \in pending \cup run.taken : k.id \in DOMAIN ingress
         /\ saved.ingress \in Nat /\ saved.ingress <= Len(ingress)
         /\ \A k \in saved.pending : k.id \in 1 .. saved.ingress
         /\ run \in CallState /\ run.admitted \in Seq(Nat)
         /\ boundaries \in Seq(Boundary)
         /\ \A b \in DOMAIN boundaries : boundaries[b].admitted \in Seq(Nat)
<1>1. TypeOK /\ JournalInv /\ CallInv /\ CheckpointInv
  BY DEF TypeInv
<1>2. /\ ingress \in Seq(IngressRecord) /\ pending \subseteq QueueKeys
      /\ run \in CallState /\ saved \in Full /\ boundaries \in Seq(Boundary)
  BY <1>1 DEF TypeOK
<1>3. Len(ingress) \in Nat /\ DOMAIN ingress = 1 .. Len(ingress)
  BY <1>2
<1>4. ASSUME NEW i \in DOMAIN ingress
      PROVE  /\ ingress[i].issued \in Nat /\ ingress[i].due \in Nat
             /\ ingress[i].eligible \in Nat
  <2>1. ingress[i] \in IngressRecord
    BY <1>2
  <2> QED
    BY <2>1 DEF IngressRecord
<1>5. ASSUME NEW k \in pending \cup run.taken \cup saved.pending
      PROVE  k \in QueueKeys /\ k.due \in Nat /\ k.id \in Nat
  <2>1. k \in QueueKeys
    BY <1>2 DEF CallState, Full
  <2> QED
    BY <2>1 DEF QueueKeys
<1>6. \A k \in pending \cup run.taken : k.id \in DOMAIN ingress
  BY <1>1 DEF JournalInv, CallInv
<1>7. /\ saved.ingress \in Nat /\ saved.ingress <= Len(ingress)
      /\ \A k \in saved.pending : k.id \in 1 .. saved.ingress
  BY <1>1, <1>2 DEF Full, CheckpointInv
<1>8. run.admitted \in Seq(Nat)
  BY <1>2 DEF CallState
<1>9. \A b \in DOMAIN boundaries : boundaries[b].admitted \in Seq(Nat)
  <2>1. \A b \in DOMAIN boundaries : boundaries[b] \in Boundary
    BY <1>2
  <2> QED
    BY <2>1 DEF Boundary
<1>10. \A i \in DOMAIN ingress :
         /\ ingress[i].issued \in Nat /\ ingress[i].due \in Nat
         /\ ingress[i].eligible \in Nat
  BY <1>4
<1>11. \A k \in pending \cup run.taken \cup saved.pending :
         k \in QueueKeys /\ k.due \in Nat /\ k.id \in Nat
  BY <1>5
<1> QED
  BY <1>2, <1>3, <1>10, <1>11, <1>6, <1>7, <1>8, <1>9

\* A record is queued under one key.
LEMMA KeysUnique ==
  ASSUME NEW S, \A k \in S : Stands(k)
  PROVE  \A j, k \in S : j.id = k.id => j = k
  BY DEF Stands, QueueKey

\* What is in a sequence that grew by one element.
LEMMA ElementsAppend ==
  ASSUME NEW S, NEW s \in Seq(S), NEW e \in S
  PROVE  Elements(Append(s, e)) = Elements(s) \cup {e}
<1>1. /\ DOMAIN Append(s, e) = 1 .. Len(s) + 1 /\ DOMAIN s = 1 .. Len(s)
      /\ Len(s) \in Nat /\ Append(s, e)[Len(s) + 1] = e
      /\ \A i \in 1 .. Len(s) : Append(s, e)[i] = s[i]
  OBVIOUS
<1>2. Len(s) + 1 \in DOMAIN Append(s, e) /\ \A i \in DOMAIN s : i \in DOMAIN Append(s, e)
  BY <1>1
<1>3. \A i \in DOMAIN Append(s, e) : i \in DOMAIN s \/ i = Len(s) + 1
  BY <1>1
<1> QED
  BY <1>1, <1>2, <1>3 DEF Elements

\* A record more, of another kind than a withdrawal, or a withdrawal.
LEMMA TargetsNext ==
  ASSUME NEW n \in Nat, NEW record, ingress'[n + 1] = record,
         \A i \in 1 .. n : ingress'[i] = ingress[i]
  PROVE  {ingress'[c].body.target : c \in {d \in 1 .. n + 1 : ingress'[d].body.kind = "cancel"}}
           = Targets(n) \cup (IF record.body.kind = "cancel" THEN {record.body.target} ELSE {})
<1>1. 1 .. n + 1 = (1 .. n) \cup {n + 1} /\ n + 1 \notin 1 .. n
  OBVIOUS
<1> QED
  BY <1>1 DEF Targets

\* The records before the next one.
LEMMA ScheduledNext ==
  ASSUME NEW n \in Nat, NEW record, ingress'[n + 1] = record,
         \A i \in 1 .. n : ingress'[i] = ingress[i]
  PROVE  {i \in 1 .. n + 1 : ingress'[i].body.kind # "cancel"}
           = Scheduled(n) \cup (IF record.body.kind = "cancel" THEN {} ELSE {n + 1})
<1>1. 1 .. n + 1 = (1 .. n) \cup {n + 1} /\ n + 1 \notin 1 .. n
  OBVIOUS
<1> QED
  BY <1>1 DEF Scheduled

\* What the first records of the journal say as long as they are not touched.
LEMMA PrefixKept ==
  ASSUME NEW n \in Nat, \A i \in 1 .. n : ingress'[i] = ingress[i]
  PROVE  /\ {i \in 1 .. n : ingress'[i].body.kind # "cancel"} = Scheduled(n)
         /\ {ingress'[c].body.target : c \in {d \in 1 .. n : ingress'[d].body.kind = "cancel"}}
              = Targets(n)
  BY DEF Scheduled, Targets

\* A journal that grew by one record.
LEMMA JournalGrows ==
  ASSUME TypeInv, NEW record, ingress' = Append(ingress, record)
  PROVE  /\ Len(ingress') = Len(ingress) + 1 /\ DOMAIN ingress' = 1 .. Len(ingress) + 1
         /\ Len(ingress) \in Nat /\ DOMAIN ingress = 1 .. Len(ingress)
         /\ ingress'[Len(ingress) + 1] = record
         /\ \A i \in 1 .. Len(ingress) : ingress'[i] = ingress[i]
         /\ \A i \in 1 .. saved.ingress : ingress'[i] = ingress[i]
<1>1. ingress \in Seq(IngressRecord) /\ saved.ingress \in Nat
      /\ saved.ingress <= Len(ingress)
  BY QueueTypes
<1> QED
  BY <1>1

\* Steps that leave the journal, the queue and what is taken alone.
LEMMA RecordsStill ==
  ASSUME TypeInv, RecordsInv,
         UNCHANGED <<ingress, nextId, pending, cancelled, boundaries>>,
         run'.taken = run.taken, run'.admitted = run.admitted
  PROVE  RecordsInv'
<1>1. IdentityIsPosition' /\ Intact'
  BY DEF RecordsInv, IdentityIsPosition, Intact
<1>2. KeyInv'
  BY DEF RecordsInv, KeyInv, Stands
<1>3. WithdrawalInv'
  BY DEF RecordsInv, WithdrawalInv, WithdrawnInTime, Targets
<1>4. FateInv'
  BY DEF RecordsInv, FateInv, Scheduled, Answered
<1> QED
  BY <1>1, <1>2, <1>3, <1>4 DEF RecordsInv

-----------------------------------------------------------------------------
(* The journal and the queue, step by step. *)

\* A record is journalled and queued.
LEMMA RecordsPush ==
  ASSUME TypeInv, RecordsInv, NEW record,
         record.id = Len(ingress) + 1, record.body.kind # "cancel",
         ingress' = Append(ingress, record), nextId' = nextId + 1,
         pending' = pending \cup {QueueKey(record)},
         UNCHANGED <<cancelled, boundaries>>,
         run'.taken = run.taken, run'.admitted = run.admitted
  PROVE  RecordsInv'
<1> DEFINE n == Len(ingress)
<1>1. /\ Len(ingress') = n + 1 /\ DOMAIN ingress' = 1 .. n + 1 /\ n \in Nat
      /\ DOMAIN ingress = 1 .. n /\ ingress'[n + 1] = record
      /\ \A i \in 1 .. n : ingress'[i] = ingress[i]
  BY JournalGrows
<1>2. QueueKey(record).id = n + 1
  BY DEF QueueKey
<1>3. IdentityIsPosition' /\ Intact'
  BY <1>1 DEF RecordsInv, IdentityIsPosition, Intact
<1>4. KeyInv'
  <2>1. Stands(QueueKey(record))'
    BY <1>1, <1>2 DEF Stands, QueueKey
  <2>2. \A k \in pending \cup run.taken : Stands(k)'
    BY <1>1, QueueTypes DEF RecordsInv, KeyInv, Stands, QueueKey
  <2> QED
    BY <2>1, <2>2 DEF KeyInv
<1>5. WithdrawalInv'
  <2>1. Targets(Len(ingress))' = Targets(n)
    BY <1>1, TargetsNext DEF Targets
  <2>2. WithdrawnInTime'
    <3>1. \A c \in 1 .. n : ingress[c].body.kind = "cancel" =>
             ingress[c].body.target \in 1 .. n
      <4>1. cancelled \subseteq 1 .. n
        BY DEF RecordsInv, FateInv, Parts, Scheduled
      <4> QED
        BY <1>1, <4>1 DEF RecordsInv, WithdrawalInv, Targets
    <3>2. \A c \in DOMAIN ingress' : ingress'[c].body.kind = "cancel" =>
             c \in 1 .. n /\ ingress'[c] = ingress[c]
      BY <1>1
    <3> QED
      BY <1>1, <3>1, <3>2 DEF RecordsInv, WithdrawalInv, WithdrawnInTime
  <2> QED
    BY <2>1, <2>2 DEF RecordsInv, WithdrawalInv
<1>6. FateInv'
  <2>1. Scheduled(Len(ingress))' = Scheduled(n) \cup {n + 1}
    BY <1>1, ScheduledNext DEF Scheduled
  <2>2. n + 1 \notin Scheduled(n)
    BY <1>1 DEF Scheduled
  <2>3. Ids(pending') = Ids(pending) \cup {n + 1}
    BY <1>2 DEF Ids
  <2>4. Answered' = Answered
    BY DEF Answered
  <2>5. Parts(Scheduled(n), Ids(pending), Ids(run.taken), Elements(run.admitted),
              Answered, cancelled)
    BY DEF RecordsInv, FateInv
  <2>6. Parts(Scheduled(n) \cup {n + 1}, Ids(pending) \cup {n + 1}, Ids(run.taken),
              Elements(run.admitted), Answered, cancelled)
    BY <2>2, <2>5 DEF Parts
  <2> QED
    BY <2>1, <2>3, <2>4, <2>6 DEF RecordsInv, FateInv
<1> QED
  BY <1>3, <1>4, <1>5, <1>6 DEF RecordsInv

\* A queued packet that is not yet due is withdrawn.
LEMMA RecordsCancel ==
  ASSUME TypeInv, RecordsInv, NEW key \in pending, key.due > now, NEW after,
         PushCancellation(key, after),
         UNCHANGED boundaries,
         run'.taken = run.taken, run'.admitted = run.admitted
  PROVE  RecordsInv'
<1> DEFINE n == Len(ingress)
           record == NewRecord([kind |-> "cancel", target |-> key.id], now, key.class, 0, after)
<1>0. /\ ingress' = Append(ingress, record) /\ pending' = pending \ {key}
      /\ cancelled' = cancelled \cup {key.id} /\ nextId' = nextId + 1
  BY DEF PushCancellation
<1>1. /\ Len(ingress') = n + 1 /\ DOMAIN ingress' = 1 .. n + 1 /\ n \in Nat
      /\ DOMAIN ingress = 1 .. n /\ ingress'[n + 1] = record
      /\ \A i \in 1 .. n : ingress'[i] = ingress[i]
  BY <1>0, JournalGrows
<1>2. /\ record.id = n + 1 /\ record.issued = now /\ record.body.kind = "cancel"
      /\ record.body.target = key.id
  BY DEF RecordsInv, Intact, NewRecord
<1> HIDE DEF record
<1>3. IdentityIsPosition' /\ Intact'
  BY <1>0, <1>1, <1>2 DEF RecordsInv, IdentityIsPosition, Intact
<1>4. KeyInv'
  <2>1. \A k \in pending' \cup run.taken : Stands(k)'
    BY <1>0, <1>1, QueueTypes DEF RecordsInv, KeyInv, Stands, QueueKey
  <2> QED
    BY <2>1 DEF KeyInv
<1>5. key.id \in 1 .. n /\ key.id \in Ids(pending) /\ ingress[key.id].due = key.due
  BY <1>1, QueueTypes DEF RecordsInv, KeyInv, Stands, QueueKey, Ids
<1>6. key.id \notin cancelled
  BY <1>5 DEF RecordsInv, FateInv, Parts
<1>7. WithdrawalInv'
  <2>1. Targets(Len(ingress))' = Targets(n) \cup {key.id}
    BY <1>1, <1>2, TargetsNext DEF Targets
  <2>2. \A c \in 1 .. n : ingress[c].body.kind = "cancel" =>
           ingress[c].body.target \in 1 .. n /\ ingress[c].body.target # key.id
    <3>1. cancelled \subseteq 1 .. n
      BY DEF RecordsInv, FateInv, Parts, Scheduled
    <3> QED
      BY <1>1, <1>6, <3>1 DEF RecordsInv, WithdrawalInv, Targets
  <2>3. ASSUME NEW c \in DOMAIN ingress', ingress'[c].body.kind = "cancel"
        PROVE  LET target == ingress'[c].body.target IN
               /\ target < c /\ ingress'[c].issued < ingress'[target].due
               /\ \A d \in DOMAIN ingress' : ingress'[d].body = ingress'[c].body => d = c
    <3>1. CASE c = n + 1
      <4>1. ingress'[c].body.target = key.id /\ ingress'[key.id].due = key.due
            /\ ingress'[c].issued = now
        BY <1>1, <1>2, <1>5, <3>1
      <4>2. now \in Nat /\ key.due \in Nat
        BY QueueTypes DEF TypeInv, TypeOK
      <4>3. \A d \in DOMAIN ingress' : ingress'[d].body = ingress'[c].body => d = c
        BY <1>1, <1>2, <2>2, <2>3, <3>1, <4>1
      <4> QED
        BY <1>5, <3>1, <4>1, <4>2, <4>3
    <3>2. CASE c \in 1 .. n
      <4>1. /\ ingress'[c] = ingress[c] /\ ingress[c].body.target \in 1 .. n
            /\ ingress[c].body.target # key.id
        BY <1>1, <2>2, <2>3, <3>2
      <4>2. /\ ingress[c].body.target < c
            /\ ingress[c].issued < ingress[ingress[c].body.target].due
            /\ \A d \in 1 .. n : ingress[d].body = ingress[c].body => d = c
        BY <1>1, <2>3, <3>2, <4>1 DEF RecordsInv, WithdrawalInv, WithdrawnInTime
      <4>3. ingress'[n + 1].body # ingress'[c].body
        BY <1>1, <1>2, <4>1
      <4> QED
        BY <1>1, <4>1, <4>2, <4>3
    <3> QED
      BY <1>1, <3>1, <3>2
  <2>4. WithdrawnInTime'
    BY <2>3 DEF WithdrawnInTime
  <2> QED
    BY <1>0, <2>1, <2>4 DEF RecordsInv, WithdrawalInv
<1>8. FateInv'
  <2>1. Scheduled(Len(ingress))' = Scheduled(n)
    BY <1>1, <1>2, ScheduledNext DEF Scheduled
  <2>2. Ids(pending') = Ids(pending) \ {key.id}
    <3>1. \A k \in pending : k.id = key.id => k = key
      BY KeysUnique DEF RecordsInv, KeyInv
    <3> QED
      BY <1>0, <3>1 DEF Ids
  <2>3. Answered' = Answered
    BY DEF Answered
  <2>4. Parts(Scheduled(n), Ids(pending), Ids(run.taken), Elements(run.admitted),
              Answered, cancelled)
    BY DEF RecordsInv, FateInv
  <2>5. Parts(Scheduled(n), Ids(pending) \ {key.id}, Ids(run.taken),
              Elements(run.admitted), Answered, cancelled \cup {key.id})
    BY <1>5, <2>4 DEF Parts
  <2> QED
    BY <1>0, <2>1, <2>2, <2>3, <2>5 DEF RecordsInv, FateInv
<1> QED
  BY <1>3, <1>4, <1>7, <1>8 DEF RecordsInv

\* What moves from one place to another keeps the parts.
LEMMA RecordsMove ==
  ASSUME TypeInv, RecordsInv,
         UNCHANGED <<ingress, nextId, cancelled, boundaries>>,
         pending' \subseteq pending, run'.taken \subseteq pending \cup run.taken,
         Parts(Scheduled(Len(ingress)), Ids(pending'), Ids(run'.taken),
               Elements(run'.admitted), Answered, cancelled)
  PROVE  RecordsInv'
<1>1. IdentityIsPosition' /\ Intact'
  BY DEF RecordsInv, IdentityIsPosition, Intact
<1>2. KeyInv'
  BY DEF RecordsInv, KeyInv, Stands
<1>3. WithdrawalInv'
  BY DEF RecordsInv, WithdrawalInv, WithdrawnInTime, Targets
<1>4. Scheduled(Len(ingress))' = Scheduled(Len(ingress)) /\ Answered' = Answered
  BY DEF Scheduled, Answered
<1>5. FateInv'
  BY <1>4 DEF RecordsInv, FateInv
<1> QED
  BY <1>1, <1>2, <1>3, <1>5 DEF RecordsInv

\* What is due is taken off the queue.
LEMMA RecordsTake ==
  ASSUME TypeInv, RecordsInv, run.taken = {}, TakeDueIngress
  PROVE  RecordsInv'
<1> DEFINE due == {k \in pending : k.due <= run.goal}
<1>1. run \in CallState
  BY QueueTypes
<1>2. /\ run'.taken = due /\ run'.admitted = run.admitted
      /\ pending' = pending \ due
      /\ UNCHANGED <<ingress, nextId, cancelled, boundaries>>
  BY <1>1 DEF TakeDueIngress, settled, CallState
<1>3. Ids(pending \ due) \cup Ids(due) = Ids(pending)
  BY DEF Ids
<1>4. Ids(pending \ due) \cap Ids(due) = {}
  BY KeysUnique DEF Ids, RecordsInv, KeyInv
<1>5. Ids(run.taken) = {}
  BY DEF Ids
<1>6. Parts(Scheduled(Len(ingress)), Ids(pending), {}, Elements(run.admitted),
            Answered, cancelled)
  BY <1>5 DEF RecordsInv, FateInv
<1> HIDE DEF due
<1>7. Parts(Scheduled(Len(ingress)), Ids(pending \ due), Ids(due), Elements(run.admitted),
            Answered, cancelled)
  BY <1>3, <1>4, <1>6 DEF Parts
<1>8. due \subseteq pending
  BY DEF due
<1> QED
  BY <1>2, <1>7, <1>8, RecordsMove

\* The first of what was taken is admitted.
LEMMA RecordsAdmit ==
  ASSUME TypeInv, RecordsInv, NEW key \in run.taken,
         UNCHANGED <<ingress, nextId, pending, cancelled, boundaries>>,
         run'.taken = run.taken \ {key}, run'.admitted = Append(run.admitted, key.id)
  PROVE  RecordsInv'
<1>1. Elements(run'.admitted) = Elements(run.admitted) \cup {key.id}
  <2>1. key.id \in Nat /\ run.admitted \in Seq(Nat)
    BY QueueTypes
  <2> QED
    BY <2>1, ElementsAppend
<1>2. Ids(run'.taken) = Ids(run.taken) \ {key.id} /\ key.id \in Ids(run.taken)
  <2>1. \A k \in run.taken : k.id = key.id => k = key
    BY KeysUnique DEF RecordsInv, KeyInv
  <2> QED
    BY <2>1 DEF Ids
<1>3. Parts(Scheduled(Len(ingress)), Ids(pending), Ids(run.taken), Elements(run.admitted),
            Answered, cancelled)
  BY DEF RecordsInv, FateInv
<1>4. Parts(Scheduled(Len(ingress)), Ids(pending), Ids(run.taken) \ {key.id},
            Elements(run.admitted) \cup {key.id}, Answered, cancelled)
  BY <1>2, <1>3 DEF Parts
<1> QED
  BY <1>1, <1>2, <1>4, RecordsMove

\* A boundary fails: the journal, the queue and the identifiers go back together.
LEMMA RecordsAbort ==
  ASSUME TypeInv, BackInv, InBoundary, WasIntact, AbortBoundary
  PROVE  RecordsInv'
<1> DEFINE m == saved.ingress
<1>1. /\ ingress' = SubSeq(ingress, 1, m) /\ pending' = saved.pending
      /\ cancelled' = saved.cancelled /\ nextId' = m + 1 /\ UNCHANGED boundaries
      /\ run'.taken = {} /\ run'.admitted = <<>>
  BY DEF AbortBoundary, RestoreQueue, RestoreEvidence, Return, Call, WasIntact
<1>2. /\ m \in Nat /\ m <= Len(ingress) /\ ingress \in Seq(IngressRecord)
      /\ DOMAIN ingress = 1 .. Len(ingress)
  BY QueueTypes
<1>3. /\ Len(ingress') = m /\ DOMAIN ingress' = 1 .. m
      /\ \A i \in 1 .. m : ingress'[i] = ingress[i] /\ i \in DOMAIN ingress
  BY <1>1, <1>2
<1>4. IdentityIsPosition' /\ Intact'
  BY <1>1, <1>3 DEF BackInv, IdentityIsPosition, Intact
<1>5. KeyInv'
  <2>1. \A k \in saved.pending : Stands(k)'
    BY <1>3, QueueTypes DEF BackInv, Stands, QueueKey
  <2> QED
    BY <1>1, <2>1 DEF KeyInv
<1>6. Targets(Len(ingress))' = Targets(m) /\ Scheduled(Len(ingress))' = Scheduled(m)
  BY <1>2, <1>3, PrefixKept DEF Targets, Scheduled
<1>7. WithdrawalInv'
  <2>1. \A c \in 1 .. m : ingress[c].body.kind = "cancel" =>
           ingress[c].body.target \in 1 .. m
    <3>1. saved.cancelled \subseteq 1 .. m
      BY DEF BackInv, Parts, Scheduled
    <3> QED
      BY <3>1 DEF BackInv, Targets
  <2>2. WithdrawnInTime'
    BY <1>3, <2>1 DEF BackInv, WithdrawnIn, WithdrawnInTime
  <2> QED
    BY <1>1, <1>6, <2>2 DEF BackInv, WithdrawalInv
<1>8. FateInv'
  <2>1. Ids({}) = {} /\ Elements(<<>>) = {} /\ Answered' = Answered
    BY <1>1 DEF Ids, Elements, Answered
  <2> QED
    BY <1>1, <1>6, <2>1 DEF BackInv, FateInv
<1> QED
  BY <1>4, <1>5, <1>7, <1>8 DEF RecordsInv

\* A boundary is settled: what it admitted is answered.
LEMMA RecordsCommit ==
  ASSUME TypeInv, RecordsInv, run.taken = {}, Commit
  PROVE  RecordsInv'
<1> DEFINE boundary == [at |-> run.goal, admitted |-> run.admitted,
                        generated |-> run.generated, first |-> cursor + 1, last |-> run.cut]
<1>1. /\ UNCHANGED <<ingress, nextId, pending, cancelled>>
      /\ boundaries' = Append(boundaries, boundary)
      /\ run'.taken = {} /\ run'.admitted = <<>>
  BY DEF Commit, journal, Return, Call
<1>2. Answered' = Answered \cup Elements(run.admitted)
  <2>1. /\ boundaries \in Seq(Boundary) /\ boundary.admitted = run.admitted
    BY QueueTypes
  <2> HIDE DEF boundary
  <2>2. /\ DOMAIN boundaries' = DOMAIN boundaries \cup {Len(boundaries) + 1}
        /\ \A b \in DOMAIN boundaries : boundaries'[b] = boundaries[b]
        /\ boundaries'[Len(boundaries) + 1] = boundary
    BY <1>1, <2>1
  <2> QED
    BY <2>1, <2>2 DEF Answered
<1>3. IdentityIsPosition' /\ Intact'
  BY <1>1 DEF RecordsInv, IdentityIsPosition, Intact
<1>4. KeyInv'
  BY <1>1 DEF RecordsInv, KeyInv, Stands
<1>5. WithdrawalInv'
  BY <1>1 DEF RecordsInv, WithdrawalInv, WithdrawnInTime, Targets
<1>6. Ids({}) = {} /\ Elements(<<>>) = {}
      /\ Scheduled(Len(ingress))' = Scheduled(Len(ingress))
  BY <1>1 DEF Ids, Elements, Scheduled
<1>7. Parts(Scheduled(Len(ingress)), Ids(pending), {}, Elements(run.admitted),
            Answered, cancelled)
  BY <1>6 DEF RecordsInv, FateInv
<1>8. Parts(Scheduled(Len(ingress)), Ids(pending), {}, {},
            Answered \cup Elements(run.admitted), cancelled)
  BY <1>7 DEF Parts
<1>9. FateInv'
  BY <1>1, <1>2, <1>6, <1>8 DEF FateInv
<1> QED
  BY <1>3, <1>4, <1>5, <1>9 DEF RecordsInv

-----------------------------------------------------------------------------
(* The steps of the kernel, by what they do to the queue. *)

Begins == \E at \in Nat : BeginAdvance(at) \/ BeginBoundary(at)
Aborts == InBoundary /\ AbortBoundary
Commands == \E plugin \in Plugins, program \in Programs : BeginCommand(plugin, program)
Emits == \E plugin \in Plugins, reaction \in Reactions : ApplyEmit(reaction, plugin)
Issues == \E class \in PacketClasses, priority \in Priorities : ApplyEnqueue(class, priority)
SystemIssues ==
    \E plugin \in Plugins, target \in Plugins, internal \in BOOLEAN,
       class \in PacketClasses, after \in Delays, priority \in Priorities :
        SystemSchedules(plugin, target, internal, class, after, priority)
SystemWithdraws == \E plugin \in Plugins, key \in pending : SystemCancels(plugin, key)
SystemSpeaks == \E plugin \in Plugins : SystemEmits(plugin)

\* Every step is one of these.
LEMMA NextCases ==
  ASSUME TypeInv, [Next]_vars
  PROVE  \/ Enqueue \/ Withdraw \/ Begins \/ BeginBatch \/ FinishAdvance \/ TakeDueIngress
         \/ RunScheduled \/ EndScheduled \/ AdmitPacket \/ RejectCommand \/ EndAdmission
         \/ Commands \/ Emits \/ ApplySchedule \/ Issues \/ RollBackCommand \/ RollBackBatch
         \/ Aborts \/ EndApply \/ Commit \/ SystemIssues \/ SystemWithdraws \/ SystemSpeaks
         \/ UNCHANGED vars
<1>1. ASSUME NEW at \in Times, BeginAdvance(at) \/ SettleBoundary(at) PROVE Begins
  <2>1. at \in Nat
    BY KernelAssumption DEF Times, TypeInv, TypeOK
  <2> QED
    BY <1>1, <2>1 DEF SettleBoundary, Begins
<1>2. ASSUME StepCanonical PROVE Begins
  <2>1. DueTimes \in SUBSET Nat /\ DueTimes # {}
    BY <1>2 DEF DueTimes, TypeInv, TypeOK, Actions, QueueKeys, StepCanonical
  <2>2. (IF NextDue < now THEN now ELSE NextDue) \in Nat
    BY <2>1, EarliestExists DEF NextDue, TypeInv, TypeOK
  <2> QED
    BY <1>2, <2>2 DEF StepCanonical, Begins
<1>3. ASSUME NEW plugin \in Plugins, SystemFails(plugin) PROVE Aborts
  BY <1>3 DEF SystemFails, Aborts, InBoundary, TypeInv, CallInv
<1>4. ASSUME HandlerPanics \/ RecordLost \/ RollBackBoundary PROVE Aborts
  BY <1>4 DEF HandlerPanics, RecordLost, RollBackBoundary, Refused, TooDeep, Applying,
     Aborts, InBoundary, TypeInv, CallInv
<1>5. ASSUME System PROVE SystemIssues \/ SystemWithdraws \/ SystemSpeaks \/ Aborts
  BY <1>3, <1>5 DEF System, SystemIssues, SystemWithdraws, SystemSpeaks
<1>6. ASSUME Step
      PROVE  \/ BeginBatch \/ FinishAdvance \/ TakeDueIngress \/ RunScheduled
             \/ EndScheduled \/ AdmitPacket \/ RejectCommand \/ EndAdmission \/ Commands
             \/ Emits \/ ApplySchedule \/ Issues \/ RollBackCommand \/ RollBackBatch
             \/ Aborts \/ EndApply \/ Commit
  BY <1>4, <1>6 DEF Step, Commands, Emits, Issues
<1> QED
  BY <1>1, <1>2, <1>5, <1>6 DEF Next

\* What is applied is only changed where directives are applied.
LEMMA TodoStep ==
  ASSUME TypeInv, TodoInv, [Next]_vars
  PROVE  TodoInv'
<1>0. TodoInv /\ todo \in Seq(Work)
  BY DEF TypeInv, TypeOK
<1>1. ASSUME todo' = <<>> PROVE TodoInv'
  BY <1>1 DEF TodoInv
<1>2. CASE pc # "apply" /\ UNCHANGED todo
  BY <1>0, <1>1, <1>2 DEF TodoInv
<1>3. CASE UNCHANGED vars
  BY <1>0, <1>3 DEF TodoInv, vars, control, InCommand
<1>4. CASE RunScheduled
  <2>1. PICK action \in actions :
          todo' = <<[directive |-> [op |-> action.op, after |-> 0, next |-> action.op],
                     plugin |-> action.plugin, depth |-> 0]>>
    BY <1>4 DEF RunScheduled
  <2>2. action.op # "enqueue"
    BY DEF TypeInv, TypeOK, Actions
  <2>3. DOMAIN todo' = {1} /\ todo'[1].directive.op = action.op /\ pc' = "apply"
    BY <1>4, <2>1 DEF RunScheduled
  <2> QED
    BY <2>2, <2>3 DEF TodoInv
<1>5. CASE Commands
  <2>1. pc' = "apply" /\ InCommand'
    BY <1>5, QueueTypes DEF Commands, BeginCommand, InCommand, CallState
  <2> QED
    BY <2>1 DEF TodoInv
<1>6. CASE Emits
  <2>1. PICK plugin \in Plugins, reaction \in Reactions : ApplyEmit(reaction, plugin)
    BY <1>6 DEF Emits
  <2> DEFINE answers == [i \in DOMAIN reaction |->
                           [directive |-> reaction[i], plugin |-> plugin,
                            depth |-> Head(todo).depth + 1]]
  <2>2. /\ todo # <<>> /\ pc' = "apply" /\ UNCHANGED run /\ todo' = answers \o Tail(todo)
    BY <2>1 DEF ApplyEmit, Applying
  <2>3. /\ reaction \in Seq(Directive) /\ Len(reaction) \in Nat /\ Len(todo) \in Nat
        /\ DOMAIN reaction = 1 .. Len(reaction)
    BY <1>0, KernelAssumption
  <2>4. answers \in Seq(Work)
    <3>1. Head(todo) \in Work
      BY <1>0, <2>2
    <3>2. \A i \in 1 .. Len(reaction) :
             [directive |-> reaction[i], plugin |-> plugin, depth |-> Head(todo).depth + 1]
               \in Work
      BY <2>3, <3>1 DEF Work
    <3> QED
      BY <2>3, <3>2
  <2>5. Len(answers) = Len(reaction)
        /\ \A i \in 1 .. Len(reaction) : answers[i].depth = Head(todo).depth + 1
    BY <2>3
  <2>10. Head(todo).depth \in Nat
    <3>1. Head(todo) \in Work
      BY <1>0, <2>2
    <3> QED
      BY <3>1 DEF Work
  <2> HIDE DEF answers
  <2>6. DOMAIN todo' = 1 .. Len(reaction) + Len(todo) - 1
    <3>1. Tail(todo) \in Seq(Work) /\ Len(Tail(todo)) = Len(todo) - 1
      BY <1>0, <2>2
    <3>2. todo' \in Seq(Work) /\ Len(todo') = Len(answers) + Len(Tail(todo))
      BY <2>2, <2>4, <3>1
    <3>3. Len(todo') = Len(reaction) + Len(todo) - 1
      BY <2>3, <2>5, <3>1, <3>2
    <3> QED
      BY <3>2, <3>3
  <2>7. \A i \in 1 .. Len(reaction) : todo'[i].depth # 0
    <3>1. \A i \in 1 .. Len(reaction) : todo'[i] = answers[i]
      BY <1>0, <2>2, <2>3, <2>4, <2>5
    <3> QED
      BY <2>3, <2>5, <2>10, <3>1
  <2>8. \A i \in DOMAIN todo' : i > Len(reaction) =>
          /\ i - Len(reaction) + 1 \in DOMAIN todo
          /\ todo'[i] = todo[i - Len(reaction) + 1]
    BY <1>0, <2>2, <2>3, <2>4, <2>5, <2>6
  <2>9. ASSUME NEW i \in DOMAIN todo', todo'[i].directive.op = "enqueue",
               todo'[i].depth = 0
        PROVE  InCommand'
    <3>1. i > Len(reaction)
      BY <2>3, <2>6, <2>7, <2>9
    <3>2. i - Len(reaction) + 1 \in DOMAIN todo /\ todo'[i] = todo[i - Len(reaction) + 1]
      BY <2>8, <3>1
    <3> QED
      BY <1>0, <2>2, <2>9, <3>2 DEF TodoInv, InCommand
  <2> QED
    BY <2>2, <2>9 DEF TodoInv
<1>7. CASE ApplySchedule \/ Issues
  <2>1. todo # <<>> /\ pc' = "apply" /\ UNCHANGED run /\ todo' = Tail(todo)
    BY <1>7 DEF ApplySchedule, Issues, ApplyEnqueue, Applying
  <2>2. /\ Len(todo) \in Nat /\ DOMAIN todo' = 1 .. Len(todo) - 1
        /\ \A i \in DOMAIN todo' : i + 1 \in DOMAIN todo /\ todo'[i] = todo[i + 1]
    BY <1>0, <2>1
  <2> QED
    BY <1>0, <2>1, <2>2 DEF TodoInv, InCommand
<1>8. CASE RollBackCommand \/ RollBackBatch \/ Aborts
  BY <1>1, <1>8 DEF RollBackCommand, RollBackBatch, Aborts, AbortBoundary
<1>9. CASE EndApply
  BY <1>1, <1>9 DEF EndApply
<1>10. CASE \/ Enqueue \/ Withdraw \/ Begins \/ BeginBatch \/ FinishAdvance
            \/ TakeDueIngress \/ EndScheduled
  BY <1>2, <1>10 DEF Enqueue, EnqueueCommand, EnqueuePlugin, ScheduleCalendar, Withdraw,
     CancelPlugin, Begins, BeginAdvance, BeginBoundary, BeginBatch, FinishAdvance,
     TakeDueIngress, EndScheduled, control
<1>11. CASE \/ AdmitPacket \/ RejectCommand \/ EndAdmission \/ Commit \/ SystemIssues
            \/ SystemWithdraws \/ SystemSpeaks
  BY <1>2, <1>11 DEF AdmitPacket, RejectCommand, EndAdmission, Commit, SystemIssues,
     SystemSchedules, SystemWithdraws, SystemCancels, SystemSpeaks, SystemEmits, control
<1> QED
  BY NextCases, <1>3, <1>4, <1>5, <1>6, <1>7, <1>8, <1>9, <1>10, <1>11

\* The locals of the steps that admit what was taken.
LEMMA AdmitLocals ==
  ASSUME TypeInv, run.taken # {}
  PROVE  LET key == First(run.taken) IN
         /\ key \in run.taken /\ Admit(key).taken = run.taken \ {key}
         /\ Admit(key).admitted = Append(run.admitted, key.id)
         /\ Admit(key).goal = run.goal /\ Admit(key).canonical = run.canonical
         /\ Admit(key).caller = run.caller /\ Admit(key) \in CallState
BY AdmitFrame, AdmitTypes

\* The steps that admit one key.
LEMMA AdmitSteps ==
  ASSUME TypeInv,
         \/ AdmitPacket \/ RejectCommand \/ RollBackCommand
         \/ (EndApply /\ run.caller = "command")
  PROVE  \E key \in run.taken :
            /\ key = First(run.taken)
            /\ run'.taken = run.taken \ {key}
            /\ run'.admitted = Append(run.admitted, key.id)
            /\ run'.goal = run.goal /\ run'.canonical = run.canonical
            /\ run'.caller \in {run.caller, "none"}
            /\ pc \in {"admit", "apply"} /\ pc' = "admit"
            /\ UNCHANGED <<ingress, pending, cancelled, boundaries, saved>>
<1> DEFINE key == First(run.taken)
<1>1. run.taken # {}
  BY DEF AdmitPacket, RejectCommand, RollBackCommand, TypeInv, CommandInv
<1>2. /\ key \in run.taken /\ Admit(key).taken = run.taken \ {key}
      /\ Admit(key).admitted = Append(run.admitted, key.id)
      /\ Admit(key).goal = run.goal /\ Admit(key).canonical = run.canonical
      /\ Admit(key).caller = run.caller /\ Admit(key) \in CallState
  BY <1>1, AdmitLocals
<1>3. \/ run' = Admit(key)
      \/ run' = [Admit(key) EXCEPT !.caller = "none"]
      \/ run' = [Admit(key) EXCEPT
                   !.cadence = @ \/ RecordOf(key).body.kind = "calendar"]
  BY DEF AdmitPacket, RejectCommand, RollBackCommand, EndApply
<1>7. key = First(run.taken)
  OBVIOUS
<1> HIDE DEF key
<1>4. /\ run'.taken = run.taken \ {key}
      /\ run'.admitted = Append(run.admitted, key.id)
      /\ run'.goal = run.goal /\ run'.canonical = run.canonical
      /\ run'.caller \in {run.caller, "none"}
  BY <1>2, <1>3 DEF CallState
<1>5. pc \in {"admit", "apply"} /\ pc' = "admit"
  BY DEF AdmitPacket, RejectCommand, RollBackCommand, Refused, Applying, EndApply
<1>6. UNCHANGED <<ingress, pending, cancelled, boundaries, saved>>
  BY DEF AdmitPacket, RejectCommand, RollBackCommand, EndApply, journal, settled
<1> QED
  BY <1>2, <1>4, <1>5, <1>6, <1>7

\* What a call returns with.
LEMMA ReturnLocals ==
  ASSUME Return
  PROVE  /\ pc' = "idle" /\ run'.taken = {} /\ run'.admitted = <<>> /\ run'.caller = "none"
         /\ ~InBoundary' /\ ~InBatch' /\ ~InCommand'
BY DEF Return, Call, InBoundary, InBatch, InCommand

\* What a call begins with.
LEMMA BeginLocals ==
  ASSUME NEW at, BeginAdvance(at) \/ BeginBoundary(at)
  PROVE  /\ pc = "idle" /\ pc' = "advance"
         /\ run'.taken = {} /\ run'.admitted = <<>> /\ run'.caller = "none"
         /\ run'.goal = at /\ ~InBatch' /\ ~InCommand'
BY DEF BeginAdvance, BeginBoundary, Call, InBatch, InCommand

\* What has been taken, and by whom, stays as the stages of a call demand.
LEMMA LocalsStep ==
  ASSUME TypeInv, LocalsInv, [Next]_vars
  PROVE  LocalsInv'
<1>0. LocalsInv /\ CallInv /\ run \in CallState
  BY DEF TypeInv, TypeOK
<1>1. CASE UNCHANGED <<pc, run>>
  BY <1>0, <1>1 DEF LocalsInv, InBatch
<1>2. CASE UNCHANGED vars
  BY <1>1, <1>2 DEF vars, control
<1>3. CASE Enqueue \/ Withdraw \/ Emits \/ ApplySchedule \/ Issues \/ SystemSpeaks
  BY <1>1, <1>3 DEF Enqueue, EnqueueCommand, EnqueuePlugin, ScheduleCalendar, Withdraw,
     CancelPlugin, Emits, ApplyEmit, ApplySchedule, Issues, ApplyEnqueue, SystemSpeaks,
     SystemEmits, control
<1>4. CASE Begins
  BY <1>4, BeginLocals DEF Begins, LocalsInv
<1>5. CASE FinishAdvance \/ RollBackBatch \/ Aborts \/ Commit
  <2>1. Return
    BY <1>5 DEF FinishAdvance, RollBackBatch, Aborts, AbortBoundary, Commit
  <2> QED
    BY <2>1, ReturnLocals DEF LocalsInv
<1>6. CASE \/ AdmitPacket \/ RejectCommand \/ RollBackCommand
           \/ (EndApply /\ run.caller = "command")
  <2>1. PICK key \in run.taken : /\ run'.taken = run.taken \ {key} /\ pc' = "admit"
                                 /\ run'.caller \in {run.caller, "none"}
    BY <1>6, AdmitSteps
  <2>2. run.caller # "boundary"
    BY <1>0, <2>1 DEF LocalsInv
  <2> QED
    BY <2>1, <2>2 DEF LocalsInv, InBatch
<1>7. CASE EndApply /\ run.caller # "command"
  <2>1. UNCHANGED run /\ pc = "apply" /\ pc' = "scheduled"
    BY <1>7 DEF EndApply
  <2> QED
    BY <1>0, <2>1 DEF LocalsInv, InBatch
<1>8. CASE BeginBatch
  <2>1. /\ pc = "advance" /\ pc' = "scheduled" /\ run'.caller = "batch"
        /\ run'.taken = run.taken /\ run'.admitted = run.admitted
    BY <1>0, <1>8 DEF BeginBatch, CallState
  <2> QED
    BY <1>0, <2>1 DEF LocalsInv
<1>9. CASE TakeDueIngress
  <2>1. pc = "advance" /\ pc' = "admit" /\ run'.caller = run.caller
    BY <1>0, <1>9 DEF TakeDueIngress, CallState
  <2> QED
    BY <1>0, <2>1 DEF LocalsInv, InBatch
<1>10. CASE RunScheduled \/ EndScheduled
  <2>1. /\ pc = "scheduled" /\ run'.taken = run.taken /\ run'.admitted = run.admitted
        /\ run'.caller = run.caller
        /\ \/ pc' = "apply"
           \/ pc' = "advance" /\ run.caller = "batch"
           \/ pc' = "systems" /\ run.caller # "batch"
    <3>1. CASE RunScheduled
      <4>1. pc = "scheduled" /\ pc' = "apply" /\ UNCHANGED run
        BY <3>1 DEF RunScheduled
      <4> QED
        BY <4>1
    <3>2. CASE EndScheduled
      BY <1>0, <3>2 DEF EndScheduled, CallState
    <3> QED
      BY <1>10, <3>1, <3>2
  <2>2. run.caller \in {"batch", "boundary"}
    BY <1>0, <2>1 DEF CallInv
  <2> QED
    BY <1>0, <2>1, <2>2 DEF LocalsInv, InBatch
<1>11. CASE EndAdmission
  <2>1. run'.taken = {} /\ run'.caller = "boundary" /\ pc' = "scheduled"
    BY <1>0, <1>11 DEF EndAdmission, CallState
  <2> QED
    BY <2>1 DEF LocalsInv, InBatch
<1>12. CASE Commands
  <2>1. run'.caller = "command" /\ pc' = "apply"
    BY <1>0, <1>12 DEF Commands, BeginCommand, CallState
  <2> QED
    BY <2>1 DEF LocalsInv, InBatch
<1>13. CASE SystemIssues \/ SystemWithdraws
  <2>1. /\ run'.taken = run.taken /\ run'.admitted = run.admitted
        /\ run'.caller = run.caller /\ UNCHANGED pc
    BY <1>0, <1>13 DEF SystemIssues, SystemSchedules, SystemWithdraws, SystemCancels,
       CallState
  <2> QED
    BY <1>0, <2>1 DEF LocalsInv, InBatch
<1> QED
  BY NextCases, <1>2, <1>3, <1>4, <1>5, <1>6, <1>7, <1>8, <1>9, <1>10, <1>11, <1>12, <1>13

\* What the clock and the target of a call are while it runs.
LEMMA DueTypes ==
  ASSUME TypeInv, EventInv
  PROVE  /\ now \in Nat /\ run.goal \in Nat /\ saved.now \in Nat /\ batch.now \in Nat
         /\ \A k \in pending \cup run.taken \cup saved.pending : k.due \in Nat
         /\ pc # "idle" => now <= run.goal
         /\ pc = "systems" \/ InCommand => now = run.goal
         /\ InBoundary => saved.now <= now
         /\ InBatch => batch.now <= now
<1>1. CallInv
  BY DEF TypeInv
<1>2. InCommand => pc = "apply" /\ run.caller # "batch"
  BY <1>1 DEF CallInv, InCommand
<1>3. /\ pc # "idle" => now <= run.goal
      /\ pc = "systems" \/ InCommand => now = run.goal
      /\ InBoundary => saved.now <= now
      /\ InBatch => batch.now <= now
  BY <1>2 DEF EventInv, ClockInv, ClockBackInv
<1> QED
  BY <1>3, CursorTypes, QueueTypes

\* What a new record bears: the clock, and the issue cut of an idle host or of the
\* boundary that runs.  All but a reactor's packets are issued between calls or when
\* a boundary has reached its time.
Stamp(record) ==
    /\ record.id = nextId /\ record.issued = now /\ record.due >= now
    /\ record.eligible = Len(boundaries) + (IF pc = "idle" THEN 0 ELSE 1)
    /\ ByReactor(record) \/ pc \in {"idle", "systems"} \/ InCommand

\* What pushing a packet does.
Pushed(record) ==
    /\ ingress' = Append(ingress, record) /\ nextId' = nextId + 1
    /\ pending' = pending \cup {QueueKey(record)} /\ UNCHANGED cancelled
    /\ Stamp(record) /\ QueueKey(record).due >= now
    /\ record.body.kind # "cancel"
    /\ record.body.kind = "command" => Unused(record.body.request)

\* Pushing ingress pushes its record.
LEMMA PushRecord ==
  ASSUME NEW body, body.kind # "cancel", body.kind = "command" => Unused(body.request),
         NEW due, NEW class, NEW priority, NEW after \in BOOLEAN, after <=> pc # "idle",
         ByReactor([body |-> body]) \/ pc \in {"idle", "systems"} \/ InCommand,
         PushIngress(body, due, class, priority, after)
  PROVE  \E record : Pushed(record)
<1> DEFINE record == NewRecord(body, due, class, priority, after)
<1>1. /\ ingress' = Append(ingress, record) /\ nextId' = nextId + 1
      /\ pending' = pending \cup {QueueKey(record)} /\ UNCHANGED cancelled /\ due >= now
  BY DEF PushIngress
<1>2. /\ record.id = nextId /\ record.body = body /\ record.due = due
      /\ record.issued = now /\ record.eligible = Eligible(after)
  BY DEF NewRecord
<1> HIDE DEF record
<1>3. QueueKey(record).due = due
  BY <1>2 DEF QueueKey
<1>4. Eligible(after) = Len(boundaries) + (IF pc = "idle" THEN 0 ELSE 1)
  BY DEF Eligible
<1>5. Stamp(record)
  BY <1>1, <1>2, <1>4 DEF Stamp, ByReactor
<1> QED
  BY <1>1, <1>2, <1>3, <1>5 DEF Pushed

\* All that is issued is pushed.
LEMMA IssuesPush ==
  ASSUME TypeInv, TodoInv, Enqueue \/ Issues \/ SystemIssues
  PROVE  \E record : Pushed(record)
<1>1. ASSUME NEW due, NEW priority, NEW request, NEW expected,
             EnqueueCommand(due, priority, request, expected)
      PROVE  \E record : Pushed(record)
  <2> DEFINE body == [kind |-> "command", request |-> request, expected |-> expected]
  <2>1. body.kind # "cancel" /\ (body.kind = "command" => Unused(body.request))
    BY <1>1 DEF EnqueueCommand
  <2>2. PushIngress(body, due, Command, priority, FALSE) /\ pc = "idle"
    BY <1>1 DEF EnqueueCommand
  <2> HIDE DEF body
  <2>3. \E after \in BOOLEAN :
           PushIngress(body, due, Command, priority, after) /\ (after <=> pc # "idle")
    BY <2>2
  <2> QED
    BY <2>1, <2>2, <2>3, PushRecord
<1>2. ASSUME NEW due, ScheduleCalendar(due)
      PROVE  \E record : Pushed(record)
  <2> DEFINE body == [kind |-> "calendar"]
  <2>1. body.kind # "cancel" /\ (body.kind = "command" => Unused(body.request))
    OBVIOUS
  <2>2. PushIngress(body, due, ScheduledSystem, 0, FALSE) /\ pc = "idle"
    BY <1>2 DEF ScheduleCalendar
  <2> HIDE DEF body
  <2>3. \E after \in BOOLEAN :
           PushIngress(body, due, ScheduledSystem, 0, after) /\ (after <=> pc # "idle")
    BY <2>2
  <2> QED
    BY <2>1, <2>2, <2>3, PushRecord
<1>3. ASSUME NEW plugin, NEW internal, NEW class, NEW due, NEW priority,
             EnqueuePlugin(plugin, internal, class, due, priority)
      PROVE  \E record : Pushed(record)
  <2> DEFINE body == [kind |-> "plugin", plugin |-> plugin, internal |-> internal,
                      issuer |-> Host]
  <2>1. body.kind # "cancel" /\ (body.kind = "command" => Unused(body.request))
    OBVIOUS
  <2>2. PushIngress(body, due, class, priority, FALSE) /\ pc = "idle"
    BY <1>3 DEF EnqueuePlugin
  <2> HIDE DEF body
  <2>3. \E later \in BOOLEAN :
           PushIngress(body, due, class, priority, later) /\ (later <=> pc # "idle")
    BY <2>2
  <2> QED
    BY <2>1, <2>2, <2>3, PushRecord
<1>4. ASSUME NEW class, NEW priority,
             ApplyEnqueue(class, priority)
      PROVE  \E record : Pushed(record)
  <2> DEFINE body == [kind |-> "plugin", plugin |-> Head(todo).plugin, internal |-> FALSE,
                      issuer |->
                        IF Head(todo).depth = 0 THEN Head(todo).plugin ELSE Event]
  <2>1. body.kind # "cancel" /\ (body.kind = "command" => Unused(body.request))
    OBVIOUS
  <2>2. /\ PushIngress(body, now + Head(todo).directive.after, class, priority, TRUE)
        /\ pc # "idle" /\ todo # <<>> /\ Head(todo).directive.op = "enqueue"
    BY <1>4 DEF ApplyEnqueue, Applying
  <2>4. ByReactor([body |-> body]) \/ InCommand
    <3>1. 1 \in DOMAIN todo /\ Head(todo) = todo[1]
      BY <2>2 DEF TypeInv, TypeOK
    <3>2. Head(todo).depth = 0 => InCommand
      BY <2>2, <3>1 DEF TodoInv
    <3> QED
      BY <3>2 DEF ByReactor
  <2> HIDE DEF body
  <2>3. \E later \in BOOLEAN :
           /\ PushIngress(body, now + Head(todo).directive.after, class, priority, later)
           /\ later <=> pc # "idle"
    BY <2>2
  <2> QED
    BY <2>1, <2>3, <2>4, PushRecord
<1>5. ASSUME NEW plugin, NEW target, NEW internal, NEW class, NEW after, NEW priority,
             SystemSchedules(plugin, target, internal, class, after, priority)
      PROVE  \E record : Pushed(record)
  <2> DEFINE body == [kind |-> "plugin", plugin |-> target, internal |-> internal,
                      issuer |-> plugin]
  <2>1. body.kind # "cancel" /\ (body.kind = "command" => Unused(body.request))
    OBVIOUS
  <2>2. PushIngress(body, now + after, class, priority, TRUE) /\ pc = "systems"
    BY <1>5 DEF SystemSchedules
  <2> HIDE DEF body
  <2>3. \E later \in BOOLEAN :
           /\ PushIngress(body, now + after, class, priority, later)
           /\ later <=> pc # "idle"
    BY <2>2
  <2> QED
    BY <2>1, <2>2, <2>3, PushRecord
<1>6. CASE Enqueue
  BY <1>1, <1>2, <1>3, <1>6 DEF Enqueue
<1>7. CASE Issues
  BY <1>4, <1>7 DEF Issues
<1>8. CASE SystemIssues
  BY <1>5, <1>8 DEF SystemIssues
<1> QED
  BY <1>6, <1>7, <1>8

\* The running boundary has not yet taken what is due.
Early == pc = "advance" \/ InBatch

\* The steps that journal nothing and settle nothing, and those that journal.
Runs ==
    \/ Begins \/ BeginBatch \/ FinishAdvance \/ TakeDueIngress \/ RunScheduled
    \/ EndScheduled \/ AdmitPacket \/ RejectCommand \/ EndAdmission \/ Commands \/ Emits
    \/ ApplySchedule \/ RollBackCommand \/ RollBackBatch \/ EndApply \/ SystemSpeaks
    \/ UNCHANGED vars
Journals == Enqueue \/ Withdraw \/ Issues \/ SystemIssues \/ SystemWithdraws

\* A step runs, journals, gives up a boundary or settles it.
LEMMA FourCases ==
  ASSUME TypeInv, [Next]_vars
  PROVE  Runs \/ Journals \/ Aborts \/ Commit
BY NextCases DEF Runs, Journals

\* What is journalled: a record of a request that none before it has.
Journalled(record) ==
    /\ ingress' = Append(ingress, record) /\ nextId' = nextId + 1 /\ Stamp(record)
    /\ record.body.kind = "command" => Unused(record.body.request)

\* What a withdrawal does.
Withdrawn(key, record) ==
    /\ key.due > now /\ pending' = pending \ {key} /\ cancelled' = cancelled \cup {key.id}
    /\ ingress' = Append(ingress, record) /\ nextId' = nextId + 1 /\ Stamp(record)
    /\ record.body.kind = "cancel" /\ record.body.target = key.id

\* Withdrawing ingress journals a withdrawal.
LEMMA WithdrawsPush ==
  ASSUME TypeInv, Withdraw \/ SystemWithdraws
  PROVE  \E key \in pending : \E record : Withdrawn(key, record)
<1>1. PICK key \in pending, after \in BOOLEAN :
        /\ key.due > now /\ PushCancellation(key, after) /\ (after <=> pc # "idle")
        /\ pc \in {"idle", "systems"}
  BY DEF Withdraw, CancelPlugin, SystemWithdraws, SystemCancels, Cancellable
<1> DEFINE record == NewRecord([kind |-> "cancel", target |-> key.id], now, key.class, 0,
                               after)
<1>2. /\ ingress' = Append(ingress, record) /\ pending' = pending \ {key}
      /\ cancelled' = cancelled \cup {key.id} /\ nextId' = nextId + 1
  BY <1>1 DEF PushCancellation
<1>3. /\ record.id = nextId /\ record.issued = now /\ record.due = now
      /\ record.eligible = Eligible(after)
      /\ record.body.kind = "cancel" /\ record.body.target = key.id
  BY DEF NewRecord
<1> HIDE DEF record
<1>4. Eligible(after) = Len(boundaries) + (IF pc = "idle" THEN 0 ELSE 1)
  BY <1>1 DEF Eligible
<1>5. now \in Nat
  BY DEF TypeInv, TypeOK
<1>6. Stamp(record)
  BY <1>1, <1>3, <1>4, <1>5 DEF Stamp
<1> QED
  BY <1>1, <1>2, <1>3, <1>6 DEF Withdrawn

\* What a step that journals does.
LEMMA JournalStep ==
  ASSUME TypeInv, EventInv, TodoInv, Journals
  PROVE  /\ \E record :
              /\ Journalled(record)
              /\ pc # "idle" /\ ~ByReactor(record)
                    => InBoundary /\ ~Early /\ now = run.goal
         /\ UNCHANGED <<now, boundaries, attempts, pc, saved, batch>>
         /\ cancelled \subseteq cancelled'
         /\ run'.goal = run.goal /\ run'.canonical = run.canonical
         /\ run'.taken = run.taken /\ run'.admitted = run.admitted
         /\ run'.caller = run.caller
<1>1. PICK record : Journalled(record)
  <2>1. CASE Enqueue \/ Issues \/ SystemIssues
    BY <2>1, IssuesPush DEF Pushed, Journalled
  <2>2. CASE Withdraw \/ SystemWithdraws
    BY <2>2, WithdrawsPush DEF Withdrawn, Journalled
  <2> QED
    BY <2>1, <2>2 DEF Journals
<1>2. run \in CallState /\ CallInv
  BY DEF TypeInv, TypeOK
<1>3. pc # "idle" /\ ~ByReactor(record) => InBoundary /\ ~Early /\ now = run.goal
  <2> SUFFICES ASSUME pc = "systems" \/ InCommand
               PROVE  InBoundary /\ ~Early /\ now = run.goal
    BY <1>1 DEF Journalled, Stamp
  <2> QED
    BY <1>2, DueTypes DEF CallInv, InCommand, InBoundary, Early, InBatch
<1>4. cancelled \subseteq cancelled'
  <2>1. CASE Enqueue \/ Issues \/ SystemIssues
    BY <2>1, IssuesPush DEF Pushed
  <2>2. CASE Withdraw \/ SystemWithdraws
    BY <2>2, WithdrawsPush DEF Withdrawn
  <2> QED
    BY <2>1, <2>2 DEF Journals
<1>5. CASE Enqueue \/ Withdraw \/ Issues
  <2>1. UNCHANGED <<now, boundaries, attempts, pc, saved, batch, run>>
    BY <1>5 DEF Enqueue, EnqueueCommand, EnqueuePlugin, ScheduleCalendar, Withdraw,
       CancelPlugin, Issues, ApplyEnqueue, outcomes, settled, control
  <2> QED
    BY <1>1, <1>3, <1>4, <2>1
<1>6. CASE SystemIssues \/ SystemWithdraws
  <2>1. /\ UNCHANGED <<now, boundaries, attempts, pc, saved, batch>>
        /\ run' = [run EXCEPT !.generated = @ \cup {nextId}]
    BY <1>6 DEF SystemIssues, SystemSchedules, SystemWithdraws, SystemCancels, outcomes, settled
  <2>2. /\ run'.goal = run.goal /\ run'.canonical = run.canonical
        /\ run'.taken = run.taken /\ run'.admitted = run.admitted
        /\ run'.caller = run.caller
    BY <1>2, <2>1 DEF CallState
  <2> QED
    BY <1>1, <1>3, <1>4, <2>1, <2>2
<1> QED
  BY <1>5, <1>6 DEF Journals

\* A boundary opens: its checkpoint is what is, and nothing queued is behind its time.
Opens ==
    /\ saved'.ingress = Len(ingress) /\ saved'.attempts = Len(attempts)
    /\ saved'.nextId = nextId
    /\ saved'.now = now /\ saved'.pending = pending /\ saved'.cancelled = cancelled
    /\ \A k \in pending : k.due >= run'.goal
    /\ pc = "idle" /\ UNCHANGED now /\ Early'

\* What a step that only runs leaves: the journal, the settled boundaries and an open
\* boundary; the clock goes back to that of the batch's checkpoint at most.
Frame ==
    /\ UNCHANGED <<ingress, cancelled, boundaries>>
    /\ now' \in Nat /\ (now' >= now \/ (InBatch /\ now' = batch.now /\ nextId' = batch.nextId))
    /\ InBatch' => (InBatch /\ batch' = batch) \/ (batch'.now = now /\ batch'.nextId = nextId)
    /\ InBoundary => InBoundary' /\ UNCHANGED saved /\ run'.goal = run.goal
    /\ InBoundary' => InBoundary \/ Opens

\* The call goes on.
LEMMA FrameRunning ==
  ASSUME UNCHANGED <<ingress, cancelled, boundaries, saved>>, pc # "idle", pc' # "idle",
         run'.canonical = run.canonical, run'.goal = run.goal,
         now' \in Nat, now' >= now, now \in Nat,
         InBatch' => (InBatch /\ batch' = batch) \/ (batch'.now = now /\ batch'.nextId = nextId)
  PROVE  Frame
BY DEF Frame, InBoundary

\* Steps that only run keep to the frame.
LEMMA RunsFrame ==
  ASSUME TypeInv, EventInv, Runs
  PROVE  Frame
<1>0. /\ CallInv /\ run \in CallState /\ ClockInv /\ ClockBackInv
      /\ now \in Nat /\ run.goal \in Nat /\ batch.now \in Nat
  BY DueTypes DEF TypeInv, TypeOK, EventInv
<1>1. CASE UNCHANGED vars
  BY <1>0, <1>1 DEF vars, journal, settled, control, Frame, InBoundary, InBatch
<1>2. CASE Begins
  <2>1. PICK at \in Nat : BeginAdvance(at) \/ BeginBoundary(at)
    BY <1>2 DEF Begins
  <2>2. pc = "idle" /\ pc' = "advance" /\ ~InBatch'
    BY <2>1, BeginLocals
  <2>3. UNCHANGED <<now, ingress, cancelled, boundaries>>
    BY <2>1 DEF BeginAdvance, BeginBoundary, journal, settled
  <2>4. InBoundary' => Opens
    BY <2>1, <2>2 DEF BeginAdvance, BeginBoundary, Call, InBoundary, FullCheckpoint, Opens,
       Early
  <2> QED
    BY <1>0, <2>2, <2>3, <2>4 DEF Frame, InBoundary
<1>3. CASE FinishAdvance \/ RollBackBatch
  <2>1. Return /\ ~run.canonical /\ UNCHANGED <<ingress, cancelled, boundaries>>
    BY <1>3 DEF FinishAdvance, RollBackBatch, journal, settled
  <2>2. ~InBoundary /\ ~InBoundary' /\ ~InBatch'
    BY <2>1, ReturnLocals DEF InBoundary
  <2>3. now' \in Nat /\ (now' >= now \/ (InBatch /\ now' = batch.now /\ nextId' = batch.nextId))
    <3>1. CASE FinishAdvance
      BY <1>0, <3>1 DEF FinishAdvance, ClockInv
    <3>2. CASE RollBackBatch
      BY <1>0, <3>2 DEF RollBackBatch, RestorePartial, Refused, TooDeep, Applying, InBatch,
         CallInv, CallState
    <3> QED
      BY <1>3, <3>1, <3>2
  <2> QED
    BY <2>1, <2>2, <2>3 DEF Frame
<1>4. CASE BeginBatch
  <2>1. /\ UNCHANGED <<ingress, cancelled, boundaries, saved>> /\ pc # "idle" /\ pc' # "idle"
        /\ run' = [run EXCEPT !.caller = "batch"] /\ batch' = PartialCheckpoint
    BY <1>4 DEF BeginBatch, journal, settled
  <2>2. run'.canonical = run.canonical /\ run'.goal = run.goal
        /\ batch'.now = now /\ batch'.nextId = nextId
    BY <1>0, <2>1 DEF CallState, PartialCheckpoint
  <2>3. PICK action \in actions : now' = action.at
    BY <1>4 DEF BeginBatch
  <2>4. now' \in Nat /\ now' >= now
    BY <1>0, <2>3 DEF ClockInv, TypeInv, TypeOK, Actions
  <2> QED
    BY <1>0, <2>1, <2>2, <2>4, FrameRunning
<1>5. CASE TakeDueIngress
  <2>1. /\ UNCHANGED <<ingress, cancelled, boundaries, saved>> /\ pc # "idle" /\ pc' = "admit"
        /\ now' = run.goal
        /\ run' = [run EXCEPT !.taken = {k \in pending : k.due <= run.goal}]
    BY <1>5 DEF TakeDueIngress, settled
  <2>2. run'.canonical = run.canonical /\ run'.goal = run.goal /\ ~InBatch'
    BY <1>0, <2>1 DEF CallState, InBatch
  <2>3. now' \in Nat /\ now' >= now
    BY <1>0, <2>1 DEF ClockInv
  <2> QED
    BY <1>0, <2>1, <2>2, <2>3, FrameRunning
<1>6. CASE \/ AdmitPacket \/ RejectCommand \/ RollBackCommand
           \/ (EndApply /\ run.caller = "command")
  <2>1. /\ run'.goal = run.goal /\ run'.canonical = run.canonical
        /\ pc # "idle" /\ pc' = "admit"
        /\ UNCHANGED <<ingress, cancelled, boundaries, saved>>
    BY <1>6, AdmitSteps
  <2>2. now' = now
    <3>1. CASE RollBackCommand
      BY <1>0, <3>1 DEF RollBackCommand, RestorePartial, ClockBackInv, InCommand
    <3>2. CASE ~RollBackCommand
      BY <1>6, <3>2 DEF AdmitPacket, RejectCommand, EndApply
    <3> QED
      BY <3>1, <3>2
  <2>3. ~InBatch'
    BY <2>1 DEF InBatch
  <2> QED
    BY <1>0, <2>1, <2>2, <2>3, FrameRunning
<1>7. CASE \/ (EndApply /\ run.caller # "command") \/ RunScheduled \/ EndScheduled
           \/ EndAdmission
  <2>1. /\ run'.goal = run.goal /\ run'.canonical = run.canonical
        /\ pc # "idle" /\ pc' # "idle" /\ now' = now
        /\ UNCHANGED <<ingress, cancelled, boundaries, saved>>
    BY <1>0, <1>7 DEF EndApply, RunScheduled, EndScheduled, EndAdmission, journal, settled,
       CallState
  <2>2. InBatch' => InBatch /\ batch' = batch
    BY <1>0, <1>7 DEF EndApply, RunScheduled, EndScheduled, EndAdmission, InBatch, CallState
  <2> QED
    BY <1>0, <2>1, <2>2, FrameRunning
<1>8. CASE Commands \/ Emits \/ ApplySchedule \/ SystemSpeaks
  <2>1. /\ run'.goal = run.goal /\ run'.canonical = run.canonical
        /\ pc # "idle" /\ pc' # "idle" /\ now' = now
        /\ UNCHANGED <<ingress, cancelled, boundaries, saved>>
    BY <1>0, <1>8 DEF Commands, BeginCommand, Emits, ApplyEmit, ApplySchedule, Applying,
       SystemSpeaks, SystemEmits, journal, settled, control, CallState
  <2>2. InBatch' => InBatch /\ batch' = batch
    BY <1>0, <1>8 DEF Commands, BeginCommand, Emits, ApplyEmit, ApplySchedule, Applying,
       SystemSpeaks, SystemEmits, control, InBatch, CallState
  <2> QED
    BY <1>0, <2>1, <2>2, FrameRunning
<1> QED
  BY <1>1, <1>2, <1>3, <1>4, <1>5, <1>6, <1>7, <1>8 DEF Runs

-----------------------------------------------------------------------------
(* What every step keeps, whatever refused calls left behind. *)

\* A step that journals nothing issues no identifier, and a rollback takes back those
\* since its checkpoint.
LEMMA CounterRuns ==
  ASSUME TypeInv, GapInv, Runs
  PROVE  /\ nextId' <= nextId
         /\ InBatch' \/ InCommand' => batch'.nextId <= nextId'
         /\ nextId' # nextId =>
               (RollBackCommand \/ RollBackBatch) /\ batch.nextId < nextId
<1>0. /\ CallInv /\ run \in CallState /\ nextId \in Nat
      /\ batch.nextId \in Nat
  BY DEF TypeInv, TypeOK, Partial
<1>1. CASE UNCHANGED vars
  BY <1>0, <1>1 DEF vars, journal, control, GapInv, InBatch, InCommand
<1>2. CASE Begins
  <2>1. UNCHANGED nextId
    BY <1>2 DEF Begins, BeginAdvance, BeginBoundary, journal
  <2>2. ~InBatch' /\ ~InCommand'
    BY <1>2, BeginLocals DEF Begins
  <2> QED
    BY <1>0, <2>1, <2>2
<1>3. CASE FinishAdvance
  <2>1. UNCHANGED nextId /\ Return
    BY <1>3 DEF FinishAdvance, journal
  <2> QED
    BY <1>0, <2>1, ReturnLocals
<1>4. CASE RollBackBatch
  <2>1. /\ nextId' = batch.nextId /\ Return /\ pc = "apply" /\ ~run.canonical
    BY <1>4 DEF RollBackBatch, RestorePartial, Refused, TooDeep, Applying
  <2>2. InBatch
    BY <1>0, <2>1 DEF CallInv, CallState, InBatch
  <2> QED
    BY <1>0, <1>4, <2>1, <2>2, ReturnLocals DEF GapInv
<1>5. CASE RollBackCommand
  <2>1. nextId' = batch.nextId /\ InCommand /\ pc' = "admit"
    BY <1>5 DEF RollBackCommand, RestorePartial, InCommand
  <2>2. run'.caller = "none"
    BY <1>0, <1>5, AdmitLocals DEF RollBackCommand, CallState, TypeInv, CommandInv
  <2> QED
    BY <1>0, <1>5, <2>1, <2>2 DEF GapInv, InBatch, InCommand
<1>6. CASE EndApply /\ run.caller = "command"
  <2>1. UNCHANGED nextId /\ pc' = "admit"
    BY <1>6 DEF EndApply, journal
  <2>2. run'.caller = "none"
    BY <1>0, <1>6, AdmitLocals DEF EndApply, CallState, TypeInv, CommandInv
  <2> QED
    BY <1>0, <2>1, <2>2 DEF InBatch, InCommand
<1>7. CASE AdmitPacket \/ RejectCommand
  <2>1. UNCHANGED nextId /\ pc = "admit" /\ pc' = "admit"
    BY <1>7 DEF AdmitPacket, RejectCommand, journal
  <2>2. run'.caller \in {run.caller, "none"}
    BY <1>7, AdmitSteps
  <2> QED
    BY <1>0, <2>1, <2>2 DEF CallInv, InBatch, InCommand
<1>8. CASE BeginBatch \/ Commands
  <2>1. UNCHANGED nextId /\ batch'.nextId = nextId
    BY <1>8 DEF BeginBatch, Commands, BeginCommand, PartialCheckpoint, journal
  <2> QED
    BY <1>0, <2>1
<1>9. CASE TakeDueIngress \/ EndAdmission \/ EndScheduled
  <2>1. /\ UNCHANGED nextId /\ pc \in {"advance", "admit", "scheduled"}
        /\ pc' \in {"admit", "advance", "systems"} \/ run'.caller = "boundary"
        /\ run'.caller \in {run.caller, "boundary"}
    BY <1>0, <1>9 DEF TakeDueIngress, EndAdmission, EndScheduled, journal, CallState
  <2> QED
    BY <1>0, <2>1 DEF CallInv, InBatch, InCommand
<1>10. CASE \/ RunScheduled \/ Emits \/ ApplySchedule \/ SystemSpeaks
            \/ (EndApply /\ run.caller # "command")
  <2>1. /\ UNCHANGED <<nextId, run, batch>>
        /\ pc' = pc \/ pc \in {"scheduled", "apply"}
    BY <1>10 DEF RunScheduled, Emits, ApplyEmit, ApplySchedule, Applying, SystemSpeaks,
       SystemEmits, EndApply, journal, control
  <2> QED
    BY <1>0, <2>1 DEF GapInv, InBatch, InCommand
<1> QED
  BY <1>1, <1>2, <1>3, <1>4, <1>5, <1>6, <1>7, <1>8, <1>9, <1>10 DEF Runs

\* The counter and the journal keep their distance, or it grows.
LEMMA GapStep ==
  ASSUME TypeInv, EventInv, TodoInv, GapInv, [Next]_vars
  PROVE  GapInv'
<1>0. /\ nextId \in Nat /\ Len(ingress) \in Nat /\ saved.nextId \in Nat
      /\ saved.ingress \in Nat /\ batch.nextId \in Nat
  BY QueueTypes DEF TypeInv, TypeOK, Full, Partial
<1>1. CASE Aborts \/ Commit
  <2>1. Return
    BY <1>1 DEF Aborts, AbortBoundary, Commit
  <2> QED
    BY <2>1, ReturnLocals DEF GapInv
<1>2. CASE Runs
  <2>1. /\ nextId' <= nextId /\ nextId' \in Nat
        /\ InBatch' \/ InCommand' => batch'.nextId <= nextId'
    BY <1>2, CounterRuns, TypeStep DEF TypeInv, TypeOK
  <2>2. Frame
    BY <1>2, RunsFrame
  <2>3. InBoundary' => /\ nextId' - saved'.nextId <= Len(ingress') - saved'.ingress
                       /\ saved'.cancelled \subseteq cancelled'
    BY <1>0, <2>1, <2>2 DEF Frame, Opens, GapInv
  <2> QED
    BY <2>1, <2>3 DEF GapInv
<1>3. CASE Journals
  <2>1. PICK record : Journalled(record)
    BY <1>3, JournalStep
  <2>2. /\ UNCHANGED <<pc, saved, batch>> /\ cancelled \subseteq cancelled'
        /\ run'.canonical = run.canonical /\ run'.caller = run.caller
    BY <1>3, JournalStep
  <2>3. nextId' = nextId + 1 /\ Len(ingress') = Len(ingress) + 1
    BY <2>1, JournalGrows DEF Journalled
  <2> QED
    BY <1>0, <2>2, <2>3 DEF GapInv, InBoundary, InBatch, InCommand
<1> QED
  BY <1>1, <1>2, <1>3, FourCases

\* Where the journal is intact after a step that undoes no boundary it was before.
LEMMA IntactBefore ==
  ASSUME TypeInv, EventInv, TodoInv, GapInv, Runs \/ Journals \/ Commit, Intact'
  PROVE  Intact /\ (Runs => nextId' = nextId)
<1>0. nextId \in Nat /\ Len(ingress) \in Nat /\ nextId <= Len(ingress) + 1
  BY QueueTypes DEF TypeInv, TypeOK, JournalInv
<1>1. CASE Runs
  <2>1. nextId' <= nextId /\ ingress' = ingress
    BY <1>1, CounterRuns, RunsFrame DEF Frame
  <2> QED
    BY <1>0, <2>1 DEF Intact
<1>2. CASE Journals /\ ~Runs
  <2>1. PICK record : Journalled(record)
    BY <1>2, JournalStep
  <2>2. nextId' = nextId + 1 /\ Len(ingress') = Len(ingress) + 1
    BY <2>1, JournalGrows DEF Journalled
  <2> QED
    BY <1>0, <1>2, <2>2 DEF Intact
<1>3. CASE Commit /\ ~Runs
  <2>1. UNCHANGED <<nextId, ingress>>
    BY <1>3 DEF Commit, journal
  <2> QED
    BY <1>3, <2>1 DEF Intact
<1> QED
  BY <1>1, <1>2, <1>3

\* In a boundary that is intact so far the journal was intact when it began.
LEMMA IntactSaved ==
  ASSUME TypeInv, GapInv, Intact, InBoundary
  PROVE  WasIntact
<1>1. /\ nextId \in Nat /\ Len(ingress) \in Nat /\ saved.nextId \in Nat
      /\ saved.ingress \in Nat /\ saved.nextId <= saved.ingress + 1
  BY QueueTypes DEF TypeInv, TypeOK, CheckpointInv, Full
<1> QED
  BY <1>1 DEF GapInv, Intact, WasIntact

\* What an intact journal says holds of all of its records.
LEMMA WithdrawnAll ==
  ASSUME TypeInv, WithdrawnInTime
  PROVE  WithdrawnIn(Len(ingress))
BY QueueTypes DEF WithdrawnInTime, WithdrawnIn

\* What a boundary goes back to is not touched while it runs.
LEMMA BackStep ==
  ASSUME TypeInv, EventInv, QueueInv, [Next]_vars
  PROVE  BackInv'
<1>0. TodoInv /\ LocalsInv /\ BackInv
  BY DEF QueueInv
<1>1. CASE Aborts \/ Commit
  <2>1. Return
    BY <1>1 DEF Aborts, AbortBoundary, Commit
  <2> QED
    BY <2>1, ReturnLocals DEF BackInv
<1>2. CASE Runs /\ InBoundary
  <2>1. /\ UNCHANGED <<ingress, boundaries, saved>> /\ run'.goal = run.goal
    BY <1>2, RunsFrame DEF Frame
  <2> QED
    BY <1>0, <1>2, <2>1 DEF BackInv, WasIntact, Stands, WithdrawnIn, Targets, Scheduled,
       Answered
<1>3. CASE Runs /\ ~InBoundary
  <2> SUFFICES ASSUME InBoundary' PROVE BackInv'
    BY DEF BackInv
  <2>1. Opens /\ UNCHANGED <<ingress, cancelled, boundaries>>
    BY <1>3, RunsFrame DEF Frame
  <2>2. /\ saved'.nextId = nextId /\ saved'.ingress = Len(ingress)
        /\ saved'.pending = pending /\ saved'.cancelled = cancelled
        /\ \A k \in pending : k.due >= run'.goal
        /\ run.taken = {} /\ run.admitted = <<>>
    BY <1>0, <2>1 DEF Opens, LocalsInv
  <2>3. Ids({}) = {} /\ Elements(<<>>) = {} /\ DOMAIN ingress = 1 .. Len(ingress)
    BY QueueTypes DEF Ids, Elements
  <2>4. WasIntact' => RecordsInv /\ WithdrawnIn(Len(ingress))
    BY <2>2, WithdrawnAll DEF QueueInv, WasIntact, Intact, RecordsInv, WithdrawalInv
  <2>5. /\ Targets(saved.ingress)' = Targets(Len(ingress))
        /\ Scheduled(saved.ingress)' = Scheduled(Len(ingress)) /\ Answered' = Answered
        /\ WithdrawnIn(saved.ingress)' = WithdrawnIn(Len(ingress))
    BY <2>1, <2>2 DEF Targets, Scheduled, Answered, WithdrawnIn
  <2>6. WasIntact' =>
          /\ \A i \in 1 .. Len(ingress) : ingress'[i].id = i
          /\ \A k \in pending : Stands(k)'
          /\ cancelled = Targets(Len(ingress))
          /\ Parts(Scheduled(Len(ingress)), Ids(pending), {}, {}, Answered, cancelled)
    BY <2>1, <2>2, <2>3, <2>4 DEF RecordsInv, IdentityIsPosition, KeyInv, Stands,
       WithdrawalInv, FateInv
  <2> QED
    BY <2>2, <2>4, <2>5, <2>6 DEF BackInv
<1>4. CASE Journals
  <2> SUFFICES ASSUME InBoundary' PROVE BackInv'
    BY DEF BackInv
  <2>1. /\ UNCHANGED <<saved, boundaries>> /\ run'.goal = run.goal /\ InBoundary
    BY <1>4, JournalStep, <1>0 DEF InBoundary
  <2>2. PICK record : ingress' = Append(ingress, record)
    BY <1>0, <1>4, JournalStep DEF Journalled
  <2>3. \A i \in 1 .. saved.ingress : ingress'[i] = ingress[i]
    BY <2>2, JournalGrows
  <2>4. saved.ingress \in Nat /\ \A k \in saved.pending : k.id \in 1 .. saved.ingress
    BY QueueTypes
  <2>5. /\ Targets(saved.ingress)' = Targets(saved.ingress)
        /\ Scheduled(saved.ingress)' = Scheduled(saved.ingress) /\ Answered' = Answered
    BY <2>1, <2>3, <2>4, PrefixKept DEF Targets, Scheduled, Answered
  <2>6. WasIntact => \A k \in saved.pending : Stands(k)'
    BY <1>0, <2>1, <2>3, <2>4 DEF BackInv, Stands, QueueKey
  <2>7. WasIntact => WithdrawnIn(saved.ingress)'
    <3> SUFFICES ASSUME WasIntact PROVE WithdrawnIn(saved.ingress)'
      OBVIOUS
    <3>1. saved.cancelled \subseteq 1 .. saved.ingress
      BY <1>0, <2>1 DEF BackInv, Parts, Scheduled
    <3>2. \A c \in 1 .. saved.ingress : ingress[c].body.kind = "cancel" =>
             ingress[c].body.target \in 1 .. saved.ingress
      BY <1>0, <2>1, <3>1 DEF BackInv, Targets
    <3> QED
      BY <1>0, <2>1, <2>3, <3>2 DEF BackInv, WithdrawnIn
  <2>8. WasIntact' = WasIntact
    BY <2>1 DEF WasIntact
  <2> QED
    BY <1>0, <2>1, <2>3, <2>5, <2>6, <2>7, <2>8 DEF BackInv
<1> QED
  BY <1>1, <1>2, <1>3, <1>4, FourCases

-----------------------------------------------------------------------------
(* The queue of an intact journal. *)

\* Who issued a record does not change.
LEMMA ReactorsKept ==
  ASSUME TypeInv, \/ UNCHANGED ingress
                  \/ \E record : ingress' = Append(ingress, record)
  PROVE  \A i \in DOMAIN ingress : FromReactor(i)' <=> FromReactor(i)
<1>1. \A i \in DOMAIN ingress : ingress'[i] = ingress[i]
  BY JournalGrows
<1> QED
  BY <1>1 DEF FromReactor

\* The due times of the queue while it only shrinks, or gets packets that are due
\* no earlier than the target of the running call or are a reactor's.
LEMMA DueIssue ==
  ASSUME TypeInv, EventInv, DueInv, NEW S, pending' \subseteq pending \cup S,
         \A i \in DOMAIN ingress : FromReactor(i)' <=> FromReactor(i),
         UNCHANGED <<now, pc>>, run'.goal = run.goal,
         run'.canonical = run.canonical, run'.taken = run.taken,
         \A k \in S : k.due >= now,
         \A k \in S : FromReactor(k.id)' \/ pc \in {"idle", "systems"} \/ InCommand
  PROVE  DueInv'
<1>1. CallInv /\ \A k \in pending \cup run.taken : k.id \in DOMAIN ingress
  BY QueueTypes DEF TypeInv
<1>2. \A k \in pending \cup run.taken : FromReactor(k.id) => FromReactor(k.id)'
  BY <1>1
<1>3. ~run.canonical /\ pc # "idle" => \A k \in S : FromReactor(k.id)'
  BY <1>1 DEF CallInv, InCommand
<1>4. pc # "idle" => \A k \in S : k.due >= run.goal \/ FromReactor(k.id)'
  BY DueTypes
<1> QED
  BY <1>2, <1>3, <1>4 DEF DueInv, InBoundary

\* The clock passes nothing that is queued but a reactor's packets.
LEMMA DueStep ==
  ASSUME TypeInv, EventInv, TodoInv, GapInv, LocalsInv, RecordsInv, DueInv,
         Runs \/ Journals \/ Commit
  PROVE  DueInv'
<1>0. /\ CallInv /\ run \in CallState /\ nextId = Len(ingress) + 1
  BY DEF TypeInv, TypeOK, RecordsInv, Intact
<1>k. \A k \in pending \cup run.taken : k.id \in DOMAIN ingress
  BY QueueTypes
<1>i. ASSUME UNCHANGED ingress
      PROVE  \A k \in pending \cup run.taken : FromReactor(k.id) => FromReactor(k.id)'
  BY <1>k, <1>i, ReactorsKept
<1>j. CASE Runs
  <2>f. UNCHANGED ingress
    BY <1>j, RunsFrame DEF Frame
  <2>r. \A k \in pending \cup run.taken : FromReactor(k.id) => FromReactor(k.id)'
    BY <1>i, <2>f
  <2>1. CASE UNCHANGED <<now, pending, pc, run>>
    BY <2>r, <2>1 DEF DueInv, InBoundary
  <2>2. CASE UNCHANGED vars
    BY <2>1, <2>2 DEF vars, journal, control
  <2>7. CASE Begins
    <3>1. PICK at \in Nat : BeginAdvance(at) \/ BeginBoundary(at)
      BY <2>7 DEF Begins
    <3>2. pc' = "advance" /\ run'.taken = {} /\ run'.goal = at
      BY <3>1, BeginLocals
    <3>3. /\ UNCHANGED pending
          /\ \/ ~run'.canonical /\ \A k \in pending : k.due > at
             \/ run'.canonical /\ \A k \in pending : k.due >= at
      <4>1. CASE BeginAdvance(at)
        BY <4>1 DEF BeginAdvance, ClearTo, Call, journal
      <4>2. CASE BeginBoundary(at)
        BY <4>2 DEF BeginBoundary, Call, journal
      <4> QED
        BY <3>1, <4>1, <4>2
    <3> QED
      BY <3>2, <3>3 DEF DueInv, InBoundary
  <2>8. CASE FinishAdvance \/ RollBackBatch
    <3>1. Return /\ pc # "idle" /\ ~run.canonical /\ UNCHANGED pending
      BY <2>8 DEF FinishAdvance, RollBackBatch, Refused, TooDeep, Applying, journal
    <3>2. now' = run.goal \/ (InBatch /\ now' = batch.now)
      <4>1. CASE FinishAdvance
        BY <4>1 DEF FinishAdvance
      <4>2. CASE RollBackBatch
        <5>1. pc = "apply" /\ ~run.canonical /\ now' = batch.now
          BY <4>2 DEF RollBackBatch, RestorePartial, Refused, TooDeep, Applying
        <5>2. run.caller = "batch"
          BY <1>0, <5>1 DEF CallInv, CallState
        <5> QED
          BY <5>1, <5>2 DEF InBatch
      <4> QED
        BY <2>8, <4>1, <4>2
    <3>3. now' \in Nat /\ now' <= run.goal
      BY <3>1, <3>2, DueTypes
    <3>4. \A k \in pending : k.due >= now' \/ FromReactor(k.id)
      BY <3>1, <3>3, DueTypes DEF DueInv
    <3> QED
      BY <2>r, <3>1, <3>4, ReturnLocals DEF DueInv
  <2>11. CASE TakeDueIngress
    <3>1. /\ pc' = "admit" /\ run'.goal = run.goal /\ run'.canonical = run.canonical
          /\ pending' \subseteq pending /\ InBoundary /\ run.canonical
          /\ \A k \in run'.taken : k \in pending /\ k.due <= run.goal
      BY <1>0, <2>11 DEF TakeDueIngress, CallState, InBoundary
    <3>2. \A k \in run'.taken : k.due = run.goal \/ FromReactor(k.id)
      BY <3>1, DueTypes DEF DueInv
    <3> QED
      BY <2>r, <3>1, <3>2 DEF DueInv, InBoundary
  <2>12. CASE \/ AdmitPacket \/ RejectCommand \/ RollBackCommand
              \/ (EndApply /\ run.caller = "command")
    <3>1. PICK key \in run.taken :
            /\ run'.taken = run.taken \ {key} /\ run'.goal = run.goal
            /\ run'.canonical = run.canonical /\ pc # "idle" /\ pc' # "idle"
            /\ UNCHANGED pending
      BY <2>12, AdmitSteps
    <3> QED
      BY <2>r, <3>1 DEF DueInv, InBoundary
  <2>13. CASE \/ (EndApply /\ run.caller # "command") \/ BeginBatch \/ RunScheduled
              \/ EndScheduled \/ EndAdmission
    <3>1. /\ run'.taken = run.taken /\ run'.goal = run.goal /\ run'.canonical = run.canonical
          /\ pc # "idle" /\ pc' # "idle" /\ UNCHANGED pending
      BY <1>0, <2>13 DEF EndApply, BeginBatch, RunScheduled, EndScheduled, EndAdmission,
         journal, CallState
    <3> QED
      BY <2>r, <3>1 DEF DueInv, InBoundary
  <2>14. CASE Commands \/ Emits \/ ApplySchedule \/ SystemSpeaks
    <3>1. /\ run'.taken = run.taken /\ run'.goal = run.goal /\ run'.canonical = run.canonical
          /\ pc # "idle" /\ pc' # "idle" /\ UNCHANGED pending
      BY <1>0, <2>14 DEF Commands, BeginCommand, Emits, ApplyEmit, ApplySchedule, Applying,
         SystemSpeaks, SystemEmits, journal, control, CallState
    <3> QED
      BY <2>r, <3>1 DEF DueInv, InBoundary
  <2> QED
    BY <1>j, <2>2, <2>7, <2>8, <2>11, <2>12, <2>13, <2>14 DEF Runs
<1>2. CASE Enqueue \/ Issues \/ SystemIssues
  <2>1. PICK record : Pushed(record)
    BY <1>2, IssuesPush
  <2>2. /\ UNCHANGED <<now, pc>> /\ run'.goal = run.goal /\ run'.canonical = run.canonical
        /\ run'.taken = run.taken
    BY <1>2, JournalStep DEF Journals
  <2> DEFINE S == {QueueKey(record)}
  <2>3. /\ pending' = pending \cup S /\ \A k \in S : k.due >= now /\ k.id = Len(ingress) + 1
        /\ ingress' = Append(ingress, record)
        /\ ByReactor(record) \/ pc \in {"idle", "systems"} \/ InCommand
    BY <1>0, <2>1 DEF Pushed, Stamp, QueueKey
  <2> HIDE DEF S
  <2>4. \A k \in S : FromReactor(k.id)' <=> ByReactor(record)
    BY <2>3, JournalGrows DEF FromReactor
  <2>5. \A i \in DOMAIN ingress : FromReactor(i)' <=> FromReactor(i)
    BY <2>3, ReactorsKept
  <2> QED
    BY <2>2, <2>3, <2>4, <2>5, DueIssue
<1>3. CASE Withdraw \/ SystemWithdraws
  <2>1. PICK S, record : S = {} /\ pending' \subseteq pending \cup S
                         /\ ingress' = Append(ingress, record)
    BY <1>3, WithdrawsPush DEF Withdrawn
  <2>2. /\ UNCHANGED <<now, pc>> /\ run'.goal = run.goal /\ run'.canonical = run.canonical
        /\ run'.taken = run.taken
    BY <1>3, JournalStep DEF Journals
  <2>3. \A i \in DOMAIN ingress : FromReactor(i)' <=> FromReactor(i)
    BY <2>1, ReactorsKept
  <2>4. /\ pending' \subseteq pending \cup S /\ \A k \in S : k.due >= now
        /\ \A k \in S : FromReactor(k.id)'
    BY <2>1
  <2> QED
    BY <2>2, <2>3, <2>4, DueIssue
<1>4. CASE Commit
  <2>1. Return /\ UNCHANGED <<now, pending, ingress>> /\ now = run.goal /\ InBoundary
    BY <1>0, <1>4, DueTypes DEF Commit, journal, InBoundary, CallInv
  <2>2. \A k \in pending : FromReactor(k.id) => FromReactor(k.id)'
    BY <1>i, <2>1
  <2> QED
    BY <2>1, <2>2, ReturnLocals DEF DueInv
<1> QED
  BY <1>j, <1>2, <1>3, <1>4 DEF Journals

\* A boundary that fails goes back to a queue that is not behind the clock.
LEMMA DueAbort ==
  ASSUME TypeInv, EventInv, BackInv, Aborts
  PROVE  DueInv'
<1>1. Return /\ now' = saved.now /\ pending' = saved.pending /\ pc # "idle" /\ InBoundary
  BY DEF Aborts, AbortBoundary, RestoreQueue, InBoundary
<1>2. saved.now <= run.goal /\ \A k \in saved.pending : k.due >= run.goal
  BY <1>1, DueTypes DEF BackInv
<1>3. \A k \in pending' : k.due >= now'
  BY <1>1, <1>2, DueTypes
<1> QED
  BY <1>1, <1>3, ReturnLocals DEF DueInv

\* The journal and the queue agree after every step that leaves the journal intact.
LEMMA RecordsStep ==
  ASSUME TypeInv, EventInv, TodoInv, GapInv, LocalsInv, RecordsInv, Intact',
         Runs \/ Journals \/ Commit
  PROVE  RecordsInv'
<1>0. /\ CallInv /\ run \in CallState /\ nextId = Len(ingress) + 1
  BY DEF RecordsInv, Intact, TypeInv, TypeOK
<1>r. ASSUME Runs PROVE nextId' = nextId /\ UNCHANGED <<ingress, cancelled, boundaries>>
  BY <1>r, IntactBefore, RunsFrame DEF Frame
<1>1. CASE UNCHANGED vars
  BY <1>1, RecordsStill DEF vars, journal, settled, control
<1>2. CASE Enqueue \/ Issues \/ SystemIssues
  <2>1. PICK record : Pushed(record)
    BY <1>2, IssuesPush
  <2>2. /\ ingress' = Append(ingress, record) /\ nextId' = nextId + 1
        /\ pending' = pending \cup {QueueKey(record)} /\ UNCHANGED cancelled
        /\ record.id = Len(ingress) + 1 /\ record.body.kind # "cancel"
    BY <1>0, <2>1 DEF Pushed, Stamp
  <2>3. UNCHANGED boundaries /\ run'.taken = run.taken /\ run'.admitted = run.admitted
    BY <1>2, JournalStep DEF Journals
  <2> QED
    BY <2>2, <2>3, RecordsPush
<1>3. CASE Withdraw \/ SystemWithdraws
  <2>1. PICK key \in pending, after \in BOOLEAN : key.due > now /\ PushCancellation(key, after)
    BY <1>3 DEF Withdraw, CancelPlugin, SystemWithdraws, SystemCancels, Cancellable
  <2>2. UNCHANGED boundaries /\ run'.taken = run.taken /\ run'.admitted = run.admitted
    BY <1>3, JournalStep DEF Journals
  <2> QED
    BY <2>1, <2>2, RecordsCancel
<1>4. CASE Begins
  <2>1. PICK at \in Nat : BeginAdvance(at) \/ BeginBoundary(at)
    BY <1>4 DEF Begins
  <2>2. pc = "idle" /\ run'.taken = {} /\ run'.admitted = <<>>
    BY <2>1, BeginLocals
  <2>3. run.taken = {} /\ run.admitted = <<>>
    BY <2>2 DEF LocalsInv
  <2>4. UNCHANGED <<ingress, nextId, pending, cancelled, boundaries>>
    BY <2>1 DEF BeginAdvance, BeginBoundary, journal, settled
  <2> QED
    BY <2>2, <2>3, <2>4, RecordsStill
<1>5. CASE FinishAdvance \/ RollBackBatch
  <2>1. Return /\ UNCHANGED <<ingress, pending, cancelled, boundaries>>
    BY <1>5 DEF FinishAdvance, RollBackBatch, journal, settled
  <2>2. pc = "advance" \/ InBatch
    BY <1>0, <1>5 DEF FinishAdvance, RollBackBatch, Refused, TooDeep, Applying, InBatch,
       CallInv, CallState
  <2>3. nextId' = nextId
    BY <1>5, <1>r DEF Runs
  <2>4. run.taken = {} /\ run.admitted = <<>>
    BY <2>2 DEF LocalsInv
  <2> QED
    BY <2>1, <2>3, <2>4, ReturnLocals, RecordsStill
<1>7. CASE Commit
  <2>1. run.taken = {}
    BY <1>7 DEF Commit, LocalsInv
  <2> QED
    BY <1>7, <2>1, RecordsCommit
<1>8. CASE TakeDueIngress
  <2>1. run.taken = {}
    BY <1>8 DEF TakeDueIngress, LocalsInv
  <2> QED
    BY <1>8, <2>1, RecordsTake
<1>9. CASE \/ AdmitPacket \/ RejectCommand \/ RollBackCommand
           \/ (EndApply /\ run.caller = "command")
  <2>1. PICK key \in run.taken :
          /\ run'.taken = run.taken \ {key}
          /\ run'.admitted = Append(run.admitted, key.id)
          /\ UNCHANGED <<ingress, pending, cancelled, boundaries>>
    BY <1>9, AdmitSteps
  <2>2. nextId' = nextId
    BY <1>9, <1>r DEF Runs
  <2> QED
    BY <2>1, <2>2, RecordsAdmit
<1>10. CASE \/ (EndApply /\ run.caller # "command") \/ BeginBatch \/ RunScheduled
            \/ EndScheduled \/ EndAdmission
  <2>1. /\ run'.taken = run.taken /\ run'.admitted = run.admitted
        /\ UNCHANGED <<ingress, nextId, pending, cancelled, boundaries>>
    BY <1>0, <1>10 DEF EndApply, BeginBatch, RunScheduled, EndScheduled, EndAdmission, journal,
       settled, CallState
  <2> QED
    BY <2>1, RecordsStill
<1>11. CASE Commands \/ Emits \/ ApplySchedule \/ SystemSpeaks
  <2>1. /\ run'.taken = run.taken /\ run'.admitted = run.admitted
        /\ UNCHANGED <<ingress, nextId, pending, cancelled, boundaries>>
    BY <1>0, <1>11 DEF Commands, BeginCommand, Emits, ApplyEmit, ApplySchedule, Applying,
       SystemSpeaks, SystemEmits, journal, settled, control, CallState
  <2> QED
    BY <2>1, RecordsStill
<1> QED
  BY <1>1, <1>2, <1>3, <1>4, <1>5, <1>7, <1>8, <1>9, <1>10, <1>11 DEF Runs, Journals

\* The invariant is inductive: a journal that is intact after a step was so before it,
\* unless the step undid a boundary, which then goes back to what was.
LEMMA QueueStep ==
  ASSUME TypeInv, EventInv, QueueInv, [Next]_vars
  PROVE  QueueInv'
<1>0. TodoInv /\ GapInv /\ LocalsInv /\ BackInv
  BY DEF QueueInv
<1>1. TodoInv' /\ GapInv' /\ LocalsInv' /\ BackInv'
  BY <1>0, TodoStep, GapStep, LocalsStep, BackStep
<1>2. ASSUME Intact', Runs \/ Journals \/ Commit PROVE RecordsInv' /\ DueInv'
  <2>1. RecordsInv /\ DueInv
    BY <1>0, <1>2, IntactBefore DEF QueueInv
  <2> QED
    BY <1>0, <1>2, <2>1, RecordsStep, DueStep
<1>3. ASSUME Intact', Aborts PROVE RecordsInv' /\ DueInv'
  <2>1. AbortBoundary /\ InBoundary
    BY <1>3 DEF Aborts
  <2>2. nextId' = saved.nextId /\ Len(ingress') = saved.ingress
    BY <2>1, QueueTypes DEF AbortBoundary, RestoreEvidence
  <2>3. WasIntact
    BY <1>3, <2>2 DEF Intact, WasIntact
  <2> QED
    BY <1>0, <1>3, <2>1, <2>3, RecordsAbort, DueAbort
<1> QED
  BY <1>1, <1>2, <1>3, FourCases DEF QueueInv

\* Initially nothing is journalled.
LEMMA QueueInit == Init => QueueInv
<1> SUFFICES ASSUME Init PROVE QueueInv
  OBVIOUS
<1>1. /\ ingress = <<>> /\ nextId = 1 /\ pending = {} /\ cancelled = {} /\ boundaries = <<>>
      /\ pc = "idle" /\ todo = <<>> /\ now = 0
      /\ run.taken = {} /\ run.admitted = <<>> /\ run.caller = "none"
  BY DEF Init, Call
<1>2. ~InBoundary /\ ~InBatch /\ ~InCommand
  BY <1>1 DEF InBoundary, InBatch, InCommand
<1>3. /\ DOMAIN ingress = {} /\ Len(ingress) = 0 /\ DOMAIN boundaries = {} /\ DOMAIN todo = {}
      /\ 1 .. 0 = {}
  BY <1>1
<1>4. /\ Targets(0) = {} /\ Scheduled(0) = {} /\ Answered = {} /\ Ids({}) = {}
      /\ Elements(<<>>) = {}
  BY <1>3 DEF Targets, Scheduled, Answered, Ids, Elements
<1>5. RecordsInv
  BY <1>1, <1>2, <1>3, <1>4 DEF RecordsInv, IdentityIsPosition, KeyInv, WithdrawalInv,
     WithdrawnInTime, FateInv, Parts, Intact
<1>6. TodoInv /\ GapInv /\ LocalsInv /\ BackInv /\ DueInv
  BY <1>1, <1>2, <1>3 DEF TodoInv, GapInv, LocalsInv, BackInv, DueInv
<1> QED
  BY <1>5, <1>6 DEF QueueInv

-----------------------------------------------------------------------------
(* What follows for the queue. *)

\* Exactly one of five is true, or none is.
LEMMA OneOfFive ==
  ASSUME NEW places, DOMAIN places = 1 .. 5,
         NEW n \in 0 .. 1,
         n = 0 => \A p \in 1 .. 5 : ~places[p],
         n = 1 => \E p \in 1 .. 5 : places[p] /\ \A q \in 1 .. 5 : places[q] => q = p
  PROVE  Cardinality({p \in DOMAIN places : places[p]}) = n
<1>1. CASE n = 0
  <2>1. {p \in DOMAIN places : places[p]} = {}
    BY <1>1
  <2> QED
    BY <1>1, <2>1, FS_EmptySet
<1>2. CASE n = 1
  <2>1. PICK p \in 1 .. 5 : places[p] /\ \A q \in 1 .. 5 : places[q] => q = p
    BY <1>2
  <2>2. {q \in DOMAIN places : places[q]} = {p}
    BY <2>1
  <2> QED
    BY <1>2, <2>2, FS_Singleton
<1> QED
  BY <1>1, <1>2

\* The parts of the journal are the fates of its records.
LEMMA FiveFates ==
  ASSUME TypeInv, FateInv
  PROVE  OneFate
<1> SUFFICES ASSUME NEW i \in DOMAIN ingress
             PROVE  LET places == << i \in Ids(pending), i \in Ids(run.taken),
                                     i \in Elements(run.admitted), Admitted(i),
                                     i \in cancelled >>
                    IN  Cardinality({p \in DOMAIN places : places[p]})
                          = (IF ingress[i].body.kind = "cancel" THEN 0 ELSE 1)
  BY DEF OneFate
<1> DEFINE places == << i \in Ids(pending), i \in Ids(run.taken),
                        i \in Elements(run.admitted), Admitted(i), i \in cancelled >>
           n == IF ingress[i].body.kind = "cancel" THEN 0 ELSE 1
<1>1. Admitted(i) <=> i \in Answered
  BY DEF Admitted, Answered
<1>2. i \in Scheduled(Len(ingress)) <=> ingress[i].body.kind # "cancel"
  BY QueueTypes DEF Scheduled
<1>3. Parts(Scheduled(Len(ingress)), Ids(pending), Ids(run.taken), Elements(run.admitted),
            Answered, cancelled)
  BY DEF FateInv
<1>4. /\ DOMAIN places = 1 .. 5
      /\ places[1] = (i \in Ids(pending)) /\ places[2] = (i \in Ids(run.taken))
      /\ places[3] = (i \in Elements(run.admitted)) /\ places[4] = Admitted(i)
      /\ places[5] = (i \in cancelled)
  OBVIOUS
<1> HIDE DEF places
<1>5. n = 0 => \A p \in 1 .. 5 : ~places[p]
  <2>1. ASSUME n = 0, NEW p \in 1 .. 5 PROVE ~places[p]
    <3>1. i \notin Scheduled(Len(ingress))
      BY <1>2, <2>1
    <3>2. p = 1 \/ p = 2 \/ p = 3 \/ p = 4 \/ p = 5
      OBVIOUS
    <3> QED
      BY <1>1, <1>3, <1>4, <3>1, <3>2 DEF Parts
  <2> QED
    BY <2>1
<1>6. n = 1 => \E p \in 1 .. 5 : places[p] /\ \A q \in 1 .. 5 : places[q] => q = p
  <2> SUFFICES ASSUME n = 1
               PROVE  \E p \in 1 .. 5 : places[p] /\ \A q \in 1 .. 5 : places[q] => q = p
    OBVIOUS
  <2>1. i \in Scheduled(Len(ingress))
    BY <1>2
  <2>2. \A q \in 1 .. 5 : q = 1 \/ q = 2 \/ q = 3 \/ q = 4 \/ q = 5
    OBVIOUS
  <2>3. PICK p \in 1 .. 5 : places[p]
    <3>1. places[1] \/ places[2] \/ places[3] \/ places[4] \/ places[5]
      BY <1>1, <1>3, <1>4, <2>1 DEF Parts
    <3>2. 1 \in 1 .. 5 /\ 2 \in 1 .. 5 /\ 3 \in 1 .. 5 /\ 4 \in 1 .. 5 /\ 5 \in 1 .. 5
      OBVIOUS
    <3> QED
      BY <3>1, <3>2
  <2>4. \A q \in 1 .. 5 : places[q] => q = p
    BY <1>1, <1>3, <1>4, <2>2, <2>3 DEF Parts
  <2> QED
    BY <2>3, <2>4
<1>7. Cardinality({p \in DOMAIN places : places[p]}) = n
  BY <1>4, <1>5, <1>6, OneOfFive
<1> QED
  BY <1>7 DEF places

\* The queue keeps faith with the journal: whatever calls fail and are rolled back,
\* as long as none of them left a packet behind, every record is in exactly one place,
\* no queued ingress but a reactor's packet and no action is behind the clock between
\* calls, and what is withdrawn was not yet due.
THEOREM QueueKept == Spec => []QueueSound
<1>1. QueueInv /\ TypeInv /\ EventInv => QueueSound
  <2> SUFFICES ASSUME QueueInv, TypeInv, EventInv, Intact
               PROVE  OneFate /\ Punctual /\ WithdrawnInTime
    BY DEF QueueSound
  <2>1. OneFate /\ WithdrawnInTime
    BY FiveFates DEF QueueInv, RecordsInv, WithdrawalInv
  <2>2. Punctual
    BY DEF QueueInv, DueInv, EventInv, ClockInv, Punctual
  <2> QED
    BY <2>1, <2>2
<1>2. TypeInv /\ EventInv /\ QueueInv /\ [Next]_vars => QueueInv'
  BY QueueStep
<1>3. Init => EventInv
  BY EventInit
<1>4. Spec => [](TypeInv /\ EventInv /\ QueueInv)
  BY <1>2, <1>3, QueueInit, TypeInit, TypeStep, EventStep, PTL DEF Spec
<1> QED
  BY <1>1, <1>4, PTL

\* Only a refused call that had issued a packet leaves the journal's identifiers
\* behind: no other step, and no boundary that fails, gives one out twice.
THEOREM TracesOnlyByRefusal ==
  Spec => [][Intact /\ ~Intact' =>
               (RollBackCommand \/ RollBackBatch) /\ batch.nextId < nextId]_vars
<1>1. ASSUME TypeInv, EventInv, QueueInv, [Next]_vars, Intact, ~Intact'
      PROVE  (RollBackCommand \/ RollBackBatch) /\ batch.nextId < nextId
  <2>0. /\ TodoInv /\ GapInv /\ nextId \in Nat /\ Len(ingress) \in Nat
        /\ nextId = Len(ingress) + 1
    BY <1>1, QueueTypes DEF QueueInv, TypeInv, TypeOK, Intact
  <2>1. CASE Runs
    <3>1. UNCHANGED ingress
      BY <1>1, <2>1, RunsFrame DEF Frame
    <3>2. nextId' # nextId
      BY <1>1, <3>1 DEF Intact
    <3> QED
      BY <1>1, <2>0, <2>1, <3>2, CounterRuns
  <2>2. CASE Journals
    <3>1. PICK record : Journalled(record)
      BY <1>1, <2>0, <2>2, JournalStep
    <3>2. nextId' = nextId + 1 /\ Len(ingress') = Len(ingress) + 1
      BY <1>1, <3>1, JournalGrows DEF Journalled
    <3> QED
      BY <1>1, <2>0, <3>2 DEF Intact
  <2>3. CASE Commit
    <3>1. UNCHANGED <<nextId, ingress>>
      BY <2>3 DEF Commit, journal
    <3> QED
      BY <1>1, <3>1 DEF Intact
  <2>4. CASE Aborts
    <3>1. nextId' = saved.nextId /\ Len(ingress') = saved.ingress
      BY <1>1, <2>4, QueueTypes DEF Aborts, AbortBoundary, RestoreEvidence
    <3>2. WasIntact
      BY <1>1, <2>0, <2>4, IntactSaved DEF Aborts
    <3> QED
      BY <1>1, <3>1, <3>2 DEF WasIntact, Intact
  <2> QED
    BY <1>1, <2>1, <2>2, <2>3, <2>4, FourCases
<1>2. Spec => [](TypeInv /\ EventInv /\ QueueInv)
  BY QueueStep, EventInit, QueueInit, TypeInit, TypeStep, EventStep, PTL DEF Spec
<1> QED
  BY <1>1, <1>2, PTL DEF Spec

-----------------------------------------------------------------------------
(* The inductive invariant of the journal. *)

\* No boundary and none of the first n records is later than t.
Past(n, t) ==
    /\ \A i \in 1 .. n : ingress[i].issued <= t
    /\ \A b \in DOMAIN boundaries : boundaries[b].at <= t

\* Issue times grow along the first n records, and so do the issue cuts of those that
\* no reactor issued.
Ordered(n) ==
    \A i, j \in 1 .. n :
        i < j => /\ ingress[i].issued <= ingress[j].issued
                 /\ ~FromReactor(i) /\ ~FromReactor(j)
                      => ingress[i].eligible <= ingress[j].eligible

\* They are not issued before the boundary that made them eligible.
Stamped(n) ==
    \A i \in 1 .. n, b \in DOMAIN boundaries :
        ~FromReactor(i) /\ b <= ingress[i].eligible => boundaries[b].at <= ingress[i].issued

\* What the running boundary issued is what is cut off if it fails, and is seen
\* by the next boundary only.
CutAt(n) ==
    \A i \in DOMAIN ingress :
        /\ i <= n /\ ~FromReactor(i) => ingress[i].eligible <= Len(boundaries)
        /\ i > n => ingress[i].eligible = Len(boundaries) + 1
        /\ i > n /\ ~FromReactor(i) => ingress[i].issued = run.goal

\* The first n records are in order, and due, at a clock that shows t.
InOrder(n, t) ==
    /\ Ordered(n) /\ Stamped(n) /\ Past(n, t)
    /\ \A i \in 1 .. n : ingress[i].issued <= ingress[i].due

\* The records between two boundaries are told apart from those a boundary issued,
\* whatever is taken back; their order is lost with the first refusal that left a
\* packet behind.
CutsInv ==
    /\ ~InBoundary => CutAt(Len(ingress))
    /\ InBoundary => CutAt(saved.ingress)
    /\ Intact => /\ InOrder(Len(ingress), now)
                 /\ InBatch => Past(batch.nextId - 1, batch.now)
    /\ InBoundary /\ WasIntact => InOrder(saved.ingress, saved.now)

\* The requests of the commands among some records.
IsCommand(i) == ingress[i].body.kind = "command"
Asked(S) == {ingress[i].body.request : i \in {j \in S : IsCommand(j)}}

\* The requests that the attempts of A answer.
Given(A) == {attempts[a].request : a \in A}

\* The attempts of A answer the commands among the records of R that were admitted,
\* once and when they are due, and no others.
Answering(R, A, done) ==
    /\ \A i, j \in R :
          IsCommand(i) /\ IsCommand(j) /\ ingress[i].body.request = ingress[j].body.request
          => i = j
    /\ \A a, c \in A : attempts[a].request = attempts[c].request => a = c
    /\ \A a \in A, i \in R :
          IsCommand(i) /\ attempts[a].request = ingress[i].body.request
          => attempts[a].at = ingress[i].due
    /\ Given(A) = Asked(done)

\* Attempts answer the commands that were admitted: those of the settled boundaries
\* and those of the running one, which are cut off if it fails.
AnswerNow ==
    Answering(DOMAIN ingress, DOMAIN attempts, Answered \cup Elements(run.admitted))
AnswerBack == Answering(1 .. saved.ingress, 1 .. saved.attempts, Answered)

AnswerInv ==
    /\ Intact => AnswerNow
    /\ InBoundary /\ WasIntact => AnswerBack

\* The keys of what no reactor issued, and those the running boundary is to admit.
Own(keys) == {k \in keys : ~FromReactor(k.id)}
DueIds == Ids({k \in Own(saved.pending) : k.due = run.goal})

\* Some records are in queue order.
Sorted(seq) ==
    \A i, j \in DOMAIN seq :
        i < j => Before(QueueKey(ingress[seq[i]]), QueueKey(ingress[seq[j]]))

\* Boundary b admitted what the journal says, in the queue's order.
Replayed(b) ==
    /\ \A i \in QueueAt(b) : ingress[i].due >= boundaries[b].at
    /\ {i \in Elements(boundaries[b].admitted) : ~FromReactor(i)}
         = {i \in QueueAt(b) : ingress[i].due = boundaries[b].at}
    /\ Sorted(boundaries[b].admitted)

\* Boundary by boundary, and the running one as far as it came.
Replaying ==
    /\ InBoundary /\ Early => Own(pending) = Own(saved.pending)
    /\ InBoundary /\ ~Early =>
          {i \in Elements(run.admitted) \cup Ids(run.taken) : ~FromReactor(i)} = DueIds
    /\ Sorted(run.admitted)
    /\ \A i \in DOMAIN run.admitted, k \in run.taken :
          Before(QueueKey(ingress[run.admitted[i]]), k)

ReplayInv ==
    /\ Intact \/ (InBoundary /\ WasIntact) => \A b \in DOMAIN boundaries : Replayed(b)
    /\ Intact => Replaying

\* A refused command, or a reactor that issued a packet, among the first m attempts
\* and the first n records.
Trace(n, m) ==
    (\E a \in 1 .. m : ~attempts[a].accepted) \/ (\E i \in 1 .. n : FromReactor(i))

\* Where an identifier may be given out twice, there is a trace of the refused call.
TraceInv ==
    /\ ~Intact => Trace(Len(ingress), Len(attempts))
    /\ InBoundary /\ ~WasIntact => Trace(saved.ingress, saved.attempts)
    /\ InBatch /\ batch.nextId < nextId => \E i \in DOMAIN ingress : FromReactor(i)

\* Nothing is taken or admitted.
Kept ==
    /\ UNCHANGED <<pending, attempts>>
    /\ run'.taken = run.taken /\ run'.admitted = run.admitted
    /\ InBoundary => (Early' <=> Early)

\* An attempt answers a record at a time.
Answers(answer, record, time) ==
    /\ attempts' = Append(attempts, answer)
    /\ answer.request = record.body.request /\ answer.at = time

\* The first of what was taken is admitted, and answered if it is a command.
Admits(key) ==
    /\ key = First(run.taken) /\ UNCHANGED pending
    /\ run'.taken = run.taken \ {key} /\ run'.admitted = Append(run.admitted, key.id)
    /\ InBoundary /\ ~Early /\ ~Early'
    /\ ~IsCommand(key.id) => UNCHANGED attempts
    /\ IsCommand(key.id) => \E answer : Answers(answer, ingress[key.id], run.goal)

\* Recording an attempt records an answer.
LEMMA AttemptAnswers ==
  ASSUME NEW record, NEW before, NEW accepted \in BOOLEAN,
         RecordAttempt(record, before, accepted)
  PROVE  \E answer : Answers(answer, record, now)
<1> DEFINE answer == [request |-> record.body.request, at |-> now, revision |-> before,
                      expected |-> record.body.expected, accepted |-> accepted]
<1>1. answer.request = record.body.request /\ answer.at = now
  OBVIOUS
<1>2. attempts' = Append(attempts, answer)
  BY DEF RecordAttempt
<1> HIDE DEF answer
<1> QED
  BY <1>1, <1>2 DEF Answers

\* A step that only runs admits, takes what is due, or does neither.
LEMMA RunsAdmit ==
  ASSUME TypeInv, EventInv, LocalsInv, Runs
  PROVE  Kept \/ TakeDueIngress \/ \E key \in run.taken : Admits(key)
<1>0. /\ CallInv /\ run \in CallState /\ LocalsInv /\ ClockInv /\ attempts \in Seq(Attempt)
  BY DEF TypeInv, TypeOK, EventInv
<1>1. CASE UNCHANGED vars
  BY <1>0, <1>1 DEF vars, journal, outcomes, control, Kept, Early, InBatch
<1>2. CASE Begins
  <2>1. PICK at \in Nat : BeginAdvance(at) \/ BeginBoundary(at)
    BY <1>2 DEF Begins
  <2>2. pc = "idle" /\ run'.taken = {} /\ run'.admitted = <<>>
    BY <2>1, BeginLocals
  <2>3. UNCHANGED <<pending, attempts>>
    BY <2>1 DEF BeginAdvance, BeginBoundary, journal, outcomes
  <2> QED
    BY <1>0, <2>2, <2>3 DEF Kept, InBoundary, LocalsInv
<1>3. CASE FinishAdvance \/ RollBackBatch
  <2>1. Return /\ ~InBoundary /\ UNCHANGED <<pending, attempts>>
    BY <1>3 DEF FinishAdvance, RollBackBatch, journal, outcomes, InBoundary
  <2>2. pc = "advance" \/ InBatch
    BY <1>0, <1>3 DEF FinishAdvance, RollBackBatch, Refused, TooDeep, Applying, InBatch,
       CallInv, CallState
  <2> QED
    BY <1>0, <2>1, <2>2, ReturnLocals DEF Kept, LocalsInv
<1>4. CASE BeginBatch
  <2>1. /\ pc = "advance" /\ pc' = "scheduled" /\ UNCHANGED <<pending, attempts>>
        /\ run' = [run EXCEPT !.caller = "batch"]
    BY <1>4 DEF BeginBatch, journal, outcomes
  <2> QED
    BY <1>0, <2>1 DEF CallState, Kept, Early, InBatch
<1>6. CASE \/ AdmitPacket \/ RejectCommand \/ RollBackCommand
           \/ (EndApply /\ run.caller = "command")
  <2>1. PICK key \in run.taken :
          /\ key = First(run.taken)
          /\ run'.taken = run.taken \ {key} /\ run'.admitted = Append(run.admitted, key.id)
          /\ pc \in {"admit", "apply"} /\ pc' = "admit" /\ UNCHANGED pending
    BY <1>6, AdmitSteps
  <2>2. pc = "admit" \/ InCommand
    BY <1>6 DEF AdmitPacket, RejectCommand, RollBackCommand, EndApply, InCommand
  <2>3. InBoundary /\ ~Early /\ ~Early' /\ now = run.goal
    BY <1>0, <2>1, <2>2, DueTypes DEF CallInv, ClockInv, InBoundary, InCommand, Early, InBatch
  <2>4. CASE AdmitPacket
    <3>1. ~IsCommand(key.id) /\ UNCHANGED attempts
      BY <2>1, <2>4 DEF AdmitPacket, RecordOf, IsCommand, outcomes
    <3> QED
      BY <2>1, <2>3, <3>1 DEF Admits
  <2>5. CASE ~AdmitPacket
    <3>1. \E before : \E accepted \in BOOLEAN :
             RecordAttempt(RecordOf(key), before, accepted)
      BY <1>6, <2>1, <2>5 DEF RejectCommand, RollBackCommand, EndApply
    <3>2. IsCommand(key.id)
      BY <1>6, <2>1, <2>5 DEF RejectCommand, RollBackCommand, EndApply, TypeInv, CommandInv,
         IsCommand, RecordOf
    <3>3. \E answer : Answers(answer, ingress[key.id], run.goal)
      BY <2>3, <3>1, AttemptAnswers DEF RecordOf
    <3> QED
      BY <2>1, <2>3, <3>2, <3>3 DEF Admits
  <2> QED
    BY <2>4, <2>5
<1>7. CASE \/ (EndApply /\ run.caller # "command") \/ RunScheduled \/ EndScheduled
           \/ EndAdmission
  BY <1>0, <1>7 DEF EndApply, RunScheduled, EndScheduled, EndAdmission, journal, outcomes,
     CallState, Kept, Early, InBatch, LocalsInv
<1>8. CASE Commands \/ Emits \/ ApplySchedule \/ SystemSpeaks
  BY <1>0, <1>8 DEF Commands, BeginCommand, Emits, ApplyEmit, ApplySchedule, Applying,
     SystemSpeaks, SystemEmits, journal, outcomes, control, CallState, Kept, Early, InBatch
<1> QED
  BY <1>1, <1>2, <1>3, <1>4, <1>6, <1>7, <1>8 DEF Runs

\* What a boundary that fails cuts off.
LEMMA AbortCuts ==
  ASSUME TypeInv, Aborts
  PROVE  /\ Len(ingress') = saved.ingress /\ DOMAIN ingress' = 1 .. saved.ingress
         /\ saved.ingress \in Nat /\ DOMAIN ingress = 1 .. Len(ingress)
         /\ \A i \in 1 .. saved.ingress : ingress'[i] = ingress[i] /\ i \in DOMAIN ingress
         /\ UNCHANGED boundaries /\ pending' = saved.pending
         /\ cancelled' = saved.cancelled /\ now' = saved.now
         /\ InBoundary /\ ~InBoundary' /\ ~InBatch' /\ run'.admitted = <<>> /\ run'.taken = {}
         /\ attempts' = SubSeq(attempts, 1, saved.attempts) /\ pc' = "idle"
<1>1. /\ InBoundary /\ ingress' = SubSeq(ingress, 1, saved.ingress) /\ Return
      /\ UNCHANGED boundaries /\ pending' = saved.pending
      /\ cancelled' = saved.cancelled /\ now' = saved.now
      /\ attempts' = SubSeq(attempts, 1, saved.attempts)
  BY DEF Aborts, AbortBoundary, RestoreQueue, RestoreEvidence
<1>2. /\ saved.ingress \in Nat /\ saved.ingress <= Len(ingress)
      /\ ingress \in Seq(IngressRecord) /\ DOMAIN ingress = 1 .. Len(ingress)
  BY QueueTypes
<1>3. /\ Len(ingress') = saved.ingress /\ DOMAIN ingress' = 1 .. saved.ingress
      /\ \A i \in 1 .. saved.ingress : ingress'[i] = ingress[i] /\ i \in DOMAIN ingress
  BY <1>1, <1>2
<1> QED
  BY <1>1, <1>2, <1>3, ReturnLocals

\* What a boundary that is settled leaves, and adds.
LEMMA CommitGrows ==
  ASSUME TypeInv, EventInv, LocalsInv, Commit
  PROVE  /\ UNCHANGED <<now, ingress, pending, cancelled, attempts>> /\ now = run.goal
         /\ Len(boundaries) \in Nat /\ DOMAIN boundaries = 1 .. Len(boundaries)
         /\ Len(boundaries') = Len(boundaries) + 1
         /\ DOMAIN boundaries' = 1 .. Len(boundaries) + 1
         /\ \A b \in 1 .. Len(boundaries) : boundaries'[b] = boundaries[b]
         /\ boundaries'[Len(boundaries) + 1].at = run.goal
         /\ boundaries'[Len(boundaries) + 1].admitted = run.admitted
         /\ InBoundary /\ ~InBoundary' /\ ~InBatch' /\ run'.admitted = <<>> /\ run'.taken = {}
         /\ run.taken = {} /\ pc = "systems" /\ pc' = "idle" /\ ~Early
<1> DEFINE boundary == [at |-> run.goal, admitted |-> run.admitted,
                        generated |-> run.generated, first |-> cursor + 1, last |-> run.cut]
<1>1. /\ UNCHANGED <<now, ingress, pending, cancelled, attempts>> /\ Return
      /\ boundaries' = Append(boundaries, boundary) /\ pc = "systems"
  BY DEF Commit, journal
<1>2. boundary.at = run.goal /\ boundary.admitted = run.admitted
  OBVIOUS
<1> HIDE DEF boundary
<1>3. boundaries \in Seq(Boundary)
  BY QueueTypes
<1>4. /\ Len(boundaries) \in Nat /\ DOMAIN boundaries = 1 .. Len(boundaries)
      /\ Len(boundaries') = Len(boundaries) + 1
      /\ DOMAIN boundaries' = 1 .. Len(boundaries) + 1
      /\ \A b \in 1 .. Len(boundaries) : boundaries'[b] = boundaries[b]
      /\ boundaries'[Len(boundaries) + 1] = boundary
  BY <1>1, <1>3
<1>5. InBoundary /\ ~Early /\ run.taken = {} /\ now = run.goal
  BY <1>1, DueTypes DEF LocalsInv, TypeInv, CallInv, InBoundary, Early,
     InBatch
<1> QED
  BY <1>1, <1>2, <1>4, <1>5, ReturnLocals

\* Attempts are only added by what runs.
LEMMA AttemptsGrow ==
  ASSUME TypeInv, EventInv, LocalsInv, Runs
  PROVE  /\ \A a \in DOMAIN attempts : attempts'[a] = attempts[a] /\ a \in DOMAIN attempts'
         /\ ~InBoundary => UNCHANGED attempts
<1>0. attempts \in Seq(Attempt)
  BY DEF TypeInv, TypeOK
<1>1. CASE Kept \/ TakeDueIngress
  BY <1>1 DEF Kept, TakeDueIngress, outcomes
<1>2. CASE \E key \in run.taken : Admits(key)
  <2>1. PICK key \in run.taken : Admits(key)
    BY <1>2
  <2>2. CASE ~IsCommand(key.id)
    BY <2>1, <2>2 DEF Admits
  <2>3. CASE IsCommand(key.id)
    <3>1. PICK answer : attempts' = Append(attempts, answer)
      BY <2>1, <2>3 DEF Admits, Answers
    <3>2. InBoundary
      BY <2>1 DEF Admits
    <3> QED
      BY <1>0, <3>1, <3>2
  <2> QED
    BY <2>2, <2>3
<1> QED
  BY <1>1, <1>2, RunsAdmit

\* What a step leaves of what a boundary goes back to: it does not touch it, or it
\* opens the boundary.
LEMMA BoundaryFrame ==
  ASSUME TypeInv, EventInv, TodoInv, LocalsInv, [Next]_vars, InBoundary'
  PROVE  \/ /\ InBoundary /\ UNCHANGED <<saved, boundaries>> /\ run'.goal = run.goal
            /\ WasIntact' = WasIntact
            /\ \A i \in 1 .. saved.ingress : i \in DOMAIN ingress /\ ingress'[i] = ingress[i]
            /\ \A a \in 1 .. saved.attempts : attempts'[a] = attempts[a]
         \/ /\ ~InBoundary /\ Opens /\ UNCHANGED <<ingress, boundaries, attempts>>
            /\ run.taken = {} /\ run.admitted = <<>>
            /\ WasIntact' = Intact
<1>0. /\ saved.attempts \in Nat /\ saved.attempts <= Len(attempts)
      /\ attempts \in Seq(Attempt)
      /\ \A i \in 1 .. saved.ingress : i \in DOMAIN ingress
  BY QueueTypes DEF TypeInv, TypeOK, CheckpointInv, Full
<1>1. CASE Aborts \/ Commit
  <2>1. Return
    BY <1>1 DEF Aborts, AbortBoundary, Commit
  <2> QED
    BY <2>1, ReturnLocals
<1>2. CASE Runs /\ InBoundary
  <2>1. /\ UNCHANGED <<ingress, boundaries, saved>> /\ run'.goal = run.goal
    BY <1>2, RunsFrame DEF Frame
  <2>2. \A a \in 1 .. saved.attempts : attempts'[a] = attempts[a]
    BY <1>0, <1>2, AttemptsGrow
  <2> QED
    BY <1>0, <1>2, <2>1, <2>2 DEF WasIntact
<1>3. CASE Runs /\ ~InBoundary
  <2>1. Opens /\ UNCHANGED <<ingress, boundaries>>
    BY <1>3, RunsFrame DEF Frame
  <2>2. UNCHANGED attempts
    BY <1>3, AttemptsGrow
  <2> QED
    BY <1>3, <2>1, <2>2 DEF Opens, LocalsInv, WasIntact, Intact
<1>4. CASE Journals
  <2>1. /\ UNCHANGED <<saved, boundaries, attempts>> /\ run'.goal = run.goal /\ InBoundary
    BY <1>4, JournalStep DEF InBoundary
  <2>2. PICK record : ingress' = Append(ingress, record)
    BY <1>4, JournalStep DEF Journalled
  <2>3. \A i \in 1 .. saved.ingress : ingress'[i] = ingress[i]
    BY <2>2, JournalGrows
  <2> QED
    BY <1>0, <2>1, <2>3 DEF WasIntact
<1> QED
  BY <1>1, <1>2, <1>3, <1>4, FourCases

\* Where the journal is intact after a step, it was before, or when the boundary that
\* fails began.
LEMMA IntactCases ==
  ASSUME TypeInv, EventInv, TodoInv, GapInv, [Next]_vars, Intact'
  PROVE  \/ Aborts /\ WasIntact
         \/ (Runs \/ Journals \/ Commit) /\ Intact /\ (Runs => nextId' = nextId)
<1>1. ASSUME Aborts PROVE WasIntact
  <2>1. nextId' = saved.nextId /\ Len(ingress') = saved.ingress
    BY <1>1, QueueTypes DEF Aborts, AbortBoundary, RestoreEvidence
  <2> QED
    BY <2>1 DEF Intact, WasIntact
<1> QED
  BY <1>1, FourCases, IntactBefore

-----------------------------------------------------------------------------
(* Issue cuts and issue times. *)

\* What a boundary issued stays told apart from what it found.
LEMMA CutAtStep ==
  ASSUME TypeInv, EventInv, TodoInv, LocalsInv, CutsInv, [Next]_vars
  PROVE  (~InBoundary => CutAt(Len(ingress)))' /\ (InBoundary => CutAt(saved.ingress))'
<1>0. /\ DOMAIN ingress = 1 .. Len(ingress) /\ Len(ingress) \in Nat
      /\ \A i \in DOMAIN ingress : ingress[i].eligible \in Nat
      /\ saved.ingress \in Nat /\ saved.ingress <= Len(ingress)
      /\ Len(boundaries) \in Nat
  BY QueueTypes
<1>1. CASE Runs
  <2>1. Frame
    BY <1>1, RunsFrame
  <2> QED
    BY <1>0, <2>1 DEF CutsInv, CutAt, FromReactor, Frame, Opens
<1>2. CASE Journals
  <2>1. /\ UNCHANGED <<now, boundaries, pc, saved>>
        /\ run'.goal = run.goal /\ run'.canonical = run.canonical
    BY <1>2, JournalStep
  <2>2. PICK record : /\ Journalled(record)
                      /\ pc # "idle" /\ ~ByReactor(record)
                            => InBoundary /\ ~Early /\ now = run.goal
    BY <1>2, JournalStep
  <2>3. /\ ingress' = Append(ingress, record) /\ record.issued = now
        /\ record.eligible = Len(boundaries) + (IF pc = "idle" THEN 0 ELSE 1)
    BY <2>2 DEF Journalled, Stamp
  <2>n. PICK n \in Nat : n = Len(ingress)
    BY <1>0
  <2>4. /\ Len(ingress') = n + 1 /\ DOMAIN ingress' = 1 .. n + 1 /\ n \in Nat
        /\ ingress'[n + 1] = record /\ DOMAIN ingress = 1 .. n
        /\ \A i \in 1 .. n : ingress'[i] = ingress[i]
    BY <2>n, <2>3, JournalGrows
  <2>5. /\ \A i \in 1 .. n : FromReactor(i)' <=> FromReactor(i)
        /\ FromReactor(n + 1)' <=> ByReactor(record)
    BY <2>4 DEF FromReactor
  <2>6. (InBoundary' <=> InBoundary) /\ (InBoundary => pc # "idle")
    BY <2>1 DEF InBoundary
  <2>7. \A i \in DOMAIN ingress' : i \in 1 .. n \/ i = n + 1
    BY <2>4
  <2>8. ASSUME ~InBoundary PROVE CutAt(Len(ingress))'
    <3>1. CutAt(n)
      BY <2>n, <2>8 DEF CutsInv
    <3>2. ~ByReactor(record) => record.eligible = Len(boundaries)
      BY <1>0, <2>2, <2>3, <2>8
    <3> QED
      BY <1>0, <2>1, <2>4, <2>5, <2>7, <3>1, <3>2 DEF CutAt
  <2>9. ASSUME InBoundary PROVE CutAt(saved.ingress)'
    <3>1. CutAt(saved.ingress)
      BY <2>9 DEF CutsInv
    <3>2. /\ record.eligible = Len(boundaries) + 1
          /\ ~ByReactor(record) => record.issued = run.goal
      BY <2>2, <2>3, <2>6, <2>9
    <3> QED
      BY <1>0, <2>n, <2>1, <2>4, <2>5, <2>7, <3>1, <3>2 DEF CutAt
  <2> QED
    BY <2>6, <2>8, <2>9
<1>3. CASE Aborts
  <2>1. /\ Len(ingress') = saved.ingress /\ DOMAIN ingress' = 1 .. saved.ingress
        /\ \A i \in 1 .. saved.ingress : ingress'[i] = ingress[i] /\ i \in DOMAIN ingress
        /\ UNCHANGED boundaries /\ InBoundary /\ ~InBoundary'
    BY <1>3, AbortCuts
  <2> QED
    BY <1>0, <2>1 DEF CutsInv, CutAt, FromReactor
<1>4. CASE Commit
  <2>1. /\ UNCHANGED ingress /\ Len(boundaries') = Len(boundaries) + 1
        /\ InBoundary /\ ~InBoundary'
    BY <1>4, CommitGrows
  <2>2. CutAt(saved.ingress)
    BY <2>1 DEF CutsInv
  <2> QED
    BY <1>0, <2>1, <2>2 DEF CutAt, FromReactor
<1> QED
  BY <1>1, <1>2, <1>3, <1>4, FourCases

\* What a boundary goes back to keeps its order while it runs.
LEMMA CutsBack ==
  ASSUME TypeInv, EventInv, TodoInv, LocalsInv, CutsInv, [Next]_vars,
         InBoundary', WasIntact'
  PROVE  InOrder(saved.ingress, saved.now)'
<1>1. CASE /\ InBoundary /\ UNCHANGED <<saved, boundaries>> /\ WasIntact' = WasIntact
           /\ \A i \in 1 .. saved.ingress : i \in DOMAIN ingress /\ ingress'[i] = ingress[i]
  <2>1. InOrder(saved.ingress, saved.now)
    BY <1>1 DEF CutsInv
  <2> QED
    BY <1>1, <2>1 DEF InOrder, Ordered, Stamped, Past, FromReactor
<1>2. CASE Opens /\ UNCHANGED <<ingress, boundaries>> /\ WasIntact' = Intact
  <2>1. InOrder(Len(ingress), now)
    BY <1>2 DEF CutsInv
  <2>2. saved'.ingress = Len(ingress) /\ saved'.now = now
    BY <1>2 DEF Opens
  <2> QED
    BY <1>2, <2>1, <2>2 DEF InOrder, Ordered, Stamped, Past, FromReactor
<1> QED
  BY <1>1, <1>2, BoundaryFrame

\* Steps that only run.
LEMMA CutsRun ==
  ASSUME TypeInv, EventInv, CutsInv, Intact, Frame, nextId' = nextId
  PROVE  InOrder(Len(ingress), now)' /\ (InBatch => Past(batch.nextId - 1, batch.now))'
<1>0. /\ UNCHANGED <<ingress, boundaries>> /\ now \in Nat /\ now' \in Nat
      /\ DOMAIN ingress = 1 .. Len(ingress) /\ Len(ingress) \in Nat
      /\ \A i \in 1 .. Len(ingress) : ingress[i].issued \in Nat
      /\ \A b \in DOMAIN boundaries : boundaries[b].at \in Nat
      /\ nextId = Len(ingress) + 1
  BY DueTypes, QueueTypes, CursorTypes DEF Frame, Intact
<1>1. /\ InOrder(Len(ingress), now)
      /\ InBatch => Past(batch.nextId - 1, batch.now)
  BY DEF CutsInv
<1>2. Past(Len(ingress), now')
  <2>1. CASE now' >= now
    BY <1>0, <1>1, <2>1 DEF InOrder, Past
  <2>2. CASE InBatch /\ now' = batch.now /\ nextId' = batch.nextId
    BY <1>0, <1>1, <2>2
  <2> QED
    BY <2>1, <2>2 DEF Frame
<1>3. InOrder(Len(ingress), now)'
  BY <1>0, <1>1, <1>2 DEF InOrder, Ordered, Stamped, Past, FromReactor
<1>4. (InBatch => Past(batch.nextId - 1, batch.now))'
  <2> SUFFICES ASSUME InBatch' PROVE Past(batch.nextId - 1, batch.now)'
    OBVIOUS
  <2>1. CASE InBatch /\ batch' = batch
    BY <1>0, <1>1, <2>1 DEF Past
  <2>2. CASE batch'.now = now /\ batch'.nextId = nextId
    BY <1>0, <1>1, <2>2 DEF InOrder, Past
  <2> QED
    BY <2>1, <2>2 DEF Frame
<1> QED
  BY <1>3, <1>4

\* Steps that journal a record.
LEMMA CutsJournal ==
  ASSUME TypeInv, EventInv, TodoInv, GapInv, CutsInv, Intact, Journals
  PROVE  InOrder(Len(ingress), now)' /\ (InBatch => Past(batch.nextId - 1, batch.now))'
<1>n. PICK n \in Nat : n = Len(ingress)
  BY QueueTypes
<1>0. /\ now \in Nat /\ DOMAIN ingress = 1 .. n /\ n \in Nat
      /\ \A i \in DOMAIN ingress : ingress[i].issued \in Nat /\ ingress[i].eligible \in Nat
      /\ Len(boundaries) \in Nat /\ saved.ingress \in Nat /\ saved.ingress <= n
      /\ nextId = n + 1 /\ batch.nextId \in Nat
  BY <1>n, DueTypes, QueueTypes DEF Intact, TypeInv, TypeOK, Partial
<1>1. /\ UNCHANGED <<now, boundaries, pc, saved, batch>>
      /\ run'.canonical = run.canonical /\ run'.caller = run.caller
  BY JournalStep
<1>2. PICK record : /\ Journalled(record)
                    /\ pc # "idle" /\ ~ByReactor(record) => InBoundary
  BY JournalStep
<1>3. /\ ingress' = Append(ingress, record) /\ record.issued = now /\ record.due >= now
      /\ record.eligible = Len(boundaries) + (IF pc = "idle" THEN 0 ELSE 1)
  BY <1>2 DEF Journalled, Stamp
<1>4. /\ Len(ingress') = n + 1 /\ ingress'[n + 1] = record
      /\ \A i \in 1 .. n : ingress'[i] = ingress[i]
  BY <1>n, <1>3, JournalGrows
<1>5. /\ \A i \in 1 .. n : FromReactor(i)' <=> FromReactor(i)
      /\ FromReactor(n + 1)' <=> ByReactor(record)
  BY <1>4 DEF FromReactor
<1>6. /\ Ordered(n) /\ Stamped(n) /\ Past(n, now)
      /\ \A i \in 1 .. n : ingress[i].issued <= ingress[i].due
      /\ InBatch => Past(batch.nextId - 1, batch.now)
  BY <1>n DEF CutsInv, InOrder
<1>7. \A i \in 1 .. n : /\ ingress[i].issued <= record.issued
                        /\ ~FromReactor(i) /\ ~ByReactor(record)
                              => ingress[i].eligible <= record.eligible
  <2>1. \A i \in 1 .. n : ingress[i].issued <= now
    BY <1>6 DEF Past
  <2>2. CASE pc = "idle"
    <3>1. CutAt(n)
      BY <1>n, <2>2 DEF CutsInv, InBoundary
    <3> QED
      BY <1>0, <1>3, <2>1, <2>2, <3>1 DEF CutAt
  <2>3. CASE pc # "idle" /\ InBoundary
    <3>1. CutAt(saved.ingress)
      BY <2>3 DEF CutsInv
    <3>2. ASSUME NEW i \in DOMAIN ingress, ~FromReactor(i)
          PROVE  ingress[i].eligible <= Len(boundaries) + 1
      BY <1>0, <3>1, <3>2 DEF CutAt
    <3> QED
      BY <1>0, <1>3, <2>1, <2>3, <3>2
  <2> QED
    BY <1>2, <1>3, <2>1, <2>2, <2>3
<1>8. \A i \in 1 .. n + 1 : i \in 1 .. n \/ i = n + 1
  BY <1>0
<1>9. Ordered(n + 1)'
  <2> SUFFICES ASSUME NEW i \in 1 .. n + 1, NEW j \in 1 .. n + 1, i < j
               PROVE  /\ ingress'[i].issued <= ingress'[j].issued
                      /\ ~FromReactor(i)' /\ ~FromReactor(j)'
                            => ingress'[i].eligible <= ingress'[j].eligible
    BY DEF Ordered
  <2>1. i \in 1 .. n
    BY <1>0
  <2>2. CASE j \in 1 .. n
    BY <1>4, <1>5, <1>6, <2>1, <2>2 DEF Ordered
  <2>3. CASE j = n + 1
    BY <1>4, <1>5, <1>7, <2>1, <2>3
  <2> QED
    BY <1>8, <2>2, <2>3
<1>10. Stamped(n + 1)'
  <2>1. \A b \in DOMAIN boundaries : boundaries[b].at <= now
    BY <1>6 DEF Past
  <2> QED
    BY <1>1, <1>3, <1>4, <1>5, <1>6, <1>8, <2>1 DEF Stamped
<1>11. Past(n + 1, now)'
  BY <1>0, <1>1, <1>3, <1>4, <1>6, <1>8 DEF Past
<1>12. \A i \in 1 .. n + 1 : ingress'[i].issued <= ingress'[i].due
  BY <1>3, <1>4, <1>6, <1>8
<1>13. InOrder(Len(ingress), now)'
  BY <1>4, <1>9, <1>10, <1>11, <1>12 DEF InOrder, Ordered, Stamped, Past
<1>14. (InBatch => Past(batch.nextId - 1, batch.now))'
  <2> SUFFICES ASSUME InBatch PROVE Past(batch.nextId - 1, batch.now)'
    BY <1>1 DEF InBatch
  <2>1. batch.nextId <= nextId /\ Past(batch.nextId - 1, batch.now)
    BY <1>6 DEF GapInv
  <2> QED
    BY <1>0, <1>1, <1>4, <2>1 DEF Past
<1> QED
  BY <1>13, <1>14

\* A boundary fails.
LEMMA CutsAbort ==
  ASSUME TypeInv, CutsInv, Aborts, WasIntact
  PROVE  InOrder(Len(ingress), now)' /\ ~InBatch'
<1>0. /\ Len(ingress') = saved.ingress
      /\ \A i \in 1 .. saved.ingress : ingress'[i] = ingress[i] /\ i \in DOMAIN ingress
      /\ UNCHANGED boundaries /\ now' = saved.now /\ InBoundary /\ ~InBatch'
      /\ saved.ingress \in Nat
  BY AbortCuts
<1>1. InOrder(saved.ingress, saved.now)
  BY <1>0 DEF CutsInv
<1> QED
  BY <1>0, <1>1 DEF InOrder, Ordered, Stamped, Past, FromReactor

\* A boundary is settled: what it issued is seen by the next one.
LEMMA CutsCommit ==
  ASSUME TypeInv, EventInv, LocalsInv, CutsInv, Intact, Commit
  PROVE  InOrder(Len(ingress), now)' /\ ~InBatch'
<1>0. /\ UNCHANGED <<now, ingress>> /\ now = run.goal
      /\ Len(boundaries) \in Nat /\ DOMAIN boundaries = 1 .. Len(boundaries)
      /\ DOMAIN boundaries' = 1 .. Len(boundaries) + 1
      /\ \A b \in 1 .. Len(boundaries) : boundaries'[b] = boundaries[b]
      /\ boundaries'[Len(boundaries) + 1].at = run.goal
      /\ InBoundary /\ ~InBatch'
  BY CommitGrows
<1>1. /\ DOMAIN ingress = 1 .. Len(ingress) /\ Len(ingress) \in Nat /\ run.goal \in Nat
      /\ saved.ingress \in Nat
      /\ \A i \in DOMAIN ingress : ingress[i].eligible \in Nat /\ ingress[i].issued \in Nat
  BY QueueTypes, DueTypes
<1>2. CutAt(saved.ingress)
  BY <1>0 DEF CutsInv
<1>3. \A b \in DOMAIN boundaries' : b \in 1 .. Len(boundaries) \/ b = Len(boundaries) + 1
  BY <1>0
<1>4. /\ Ordered(Len(ingress)) /\ Stamped(Len(ingress)) /\ Past(Len(ingress), now)
      /\ \A i \in 1 .. Len(ingress) : ingress[i].issued <= ingress[i].due
  BY DEF CutsInv, InOrder
<1>5. \A i \in DOMAIN ingress : FromReactor(i)' <=> FromReactor(i)
  BY <1>0 DEF FromReactor
<1>6. Stamped(Len(ingress))'
  <2>1. \A i \in DOMAIN ingress :
           ~FromReactor(i) /\ Len(boundaries) + 1 <= ingress[i].eligible
             => ingress[i].issued = run.goal
    BY <1>0, <1>1, <1>2 DEF CutAt
  <2> QED
    BY <1>0, <1>1, <1>3, <1>4, <1>5, <2>1 DEF Stamped
<1>7. Past(Len(ingress), now)'
  BY <1>0, <1>1, <1>3, <1>4 DEF Past
<1>8. Ordered(Len(ingress))'
  BY <1>0, <1>1, <1>4, <1>5 DEF Ordered
<1>9. (\A i \in 1 .. Len(ingress) : ingress[i].issued <= ingress[i].due)'
  BY <1>0, <1>4
<1> QED
  BY <1>0, <1>6, <1>7, <1>8, <1>9 DEF InOrder

\* Issue cuts and issue times stay in order after every step.
LEMMA CutsStep ==
  ASSUME TypeInv, EventInv, TodoInv, GapInv, LocalsInv, CutsInv, [Next]_vars
  PROVE  CutsInv'
<1>1. ASSUME Intact'
      PROVE  InOrder(Len(ingress), now)' /\ (InBatch => Past(batch.nextId - 1, batch.now))'
  BY <1>1, IntactCases, RunsFrame, CutsRun, CutsJournal, CutsAbort, CutsCommit
<1> QED
  BY <1>1, CutAtStep, CutsBack DEF CutsInv

-----------------------------------------------------------------------------
(* Requests and their answers. *)

\* What is known of attempts.
LEMMA AttemptBounds ==
  ASSUME TypeInv
  PROVE  /\ attempts \in Seq(Attempt) /\ Len(attempts) \in Nat
         /\ DOMAIN attempts = 1 .. Len(attempts)
         /\ saved.attempts \in Nat /\ saved.attempts <= Len(attempts)
BY DEF TypeInv, TypeOK, CheckpointInv, Full

\* What is in the parts of an intact journal.
LEMMA FateTypes ==
  ASSUME TypeInv, QueueInv, Intact
  PROVE  /\ Answered \cup Elements(run.admitted) \subseteq DOMAIN ingress
         /\ \A k \in run.taken :
               /\ k.id \in DOMAIN ingress /\ k.id \notin Answered \cup Elements(run.admitted)
               /\ k = QueueKey(ingress[k.id]) /\ ingress[k.id].due = k.due
               /\ k.due = run.goal \/ FromReactor(k.id)
<1>0. RecordsInv /\ DueInv
  BY DEF QueueInv
<1>1. Parts(Scheduled(Len(ingress)), Ids(pending), Ids(run.taken), Elements(run.admitted),
            Answered, cancelled)
  BY <1>0 DEF RecordsInv, FateInv
<1>2. DOMAIN ingress = 1 .. Len(ingress)
  BY QueueTypes
<1>3. Answered \cup Elements(run.admitted) \subseteq DOMAIN ingress
  BY <1>1, <1>2 DEF Parts, Scheduled
<1>4. ASSUME NEW k \in run.taken
      PROVE  /\ k.id \in DOMAIN ingress /\ k.id \notin Answered \cup Elements(run.admitted)
             /\ k = QueueKey(ingress[k.id]) /\ ingress[k.id].due = k.due
             /\ k.due = run.goal \/ FromReactor(k.id)
  <2>1. k.id \in DOMAIN ingress
    BY QueueTypes
  <2>2. k.id \in Ids(run.taken)
    BY DEF Ids
  <2>3. k.id \notin Answered \cup Elements(run.admitted)
    BY <1>1, <2>2 DEF Parts
  <2>4. k = QueueKey(ingress[k.id]) /\ (k.due = run.goal \/ FromReactor(k.id))
    BY <1>0 DEF RecordsInv, KeyInv, Stands, DueInv
  <2>5. ingress[k.id].due = k.due
    BY <2>4 DEF QueueKey
  <2> QED
    BY <2>1, <2>3, <2>4, <2>5
<1> QED
  BY <1>3, <1>4

\* What was answered when the running boundary began.
LEMMA AnsweredBack ==
  ASSUME QueueInv, InBoundary, WasIntact
  PROVE  Answered \subseteq 1 .. saved.ingress
BY DEF QueueInv, BackInv, Parts, Scheduled

\* Nothing is answered.
LEMMA AnswerStill ==
  ASSUME AnswerNow, UNCHANGED <<ingress, boundaries, attempts>>,
         run'.admitted = run.admitted
  PROVE  AnswerNow'
<1>1. Answered' = Answered /\ Given(DOMAIN attempts)' = Given(DOMAIN attempts)
  BY DEF Answered, Given
<1>2. Asked(Answered \cup Elements(run.admitted))' = Asked(Answered \cup Elements(run.admitted))
  BY <1>1 DEF Asked, IsCommand
<1> QED
  BY <1>1, <1>2 DEF AnswerNow, Answering, IsCommand

\* What a boundary goes back to keeps its answers while it runs.
LEMMA AnswersBack ==
  ASSUME TypeInv, EventInv, QueueInv, AnswerInv, [Next]_vars, InBoundary', WasIntact'
  PROVE  AnswerBack'
<1>0. TodoInv /\ LocalsInv
  BY DEF QueueInv
<1>1. CASE /\ InBoundary /\ UNCHANGED <<saved, boundaries>> /\ WasIntact' = WasIntact
           /\ \A i \in 1 .. saved.ingress : i \in DOMAIN ingress /\ ingress'[i] = ingress[i]
           /\ \A a \in 1 .. saved.attempts : attempts'[a] = attempts[a]
  <2>1. AnswerBack /\ Answered \subseteq 1 .. saved.ingress /\ Answered' = Answered
    BY <1>1, AnsweredBack DEF AnswerInv, Answered
  <2>2. Asked(Answered)' = Asked(Answered)
    BY <1>1, <2>1 DEF Asked, IsCommand
  <2>3. Given(1 .. saved.attempts)' = Given(1 .. saved.attempts)
    BY <1>1 DEF Given
  <2> QED
    BY <1>1, <2>1, <2>2, <2>3 DEF AnswerBack, Answering, IsCommand
<1>2. CASE /\ Opens /\ UNCHANGED <<ingress, boundaries, attempts>> /\ WasIntact' = Intact
           /\ run.admitted = <<>>
  <2>1. /\ AnswerNow /\ saved'.ingress = Len(ingress) /\ saved'.attempts = Len(attempts)
        /\ DOMAIN ingress = 1 .. Len(ingress) /\ DOMAIN attempts = 1 .. Len(attempts)
    BY <1>2, QueueTypes, AttemptBounds DEF AnswerInv, Opens
  <2>2. Answered \cup Elements(run.admitted) = Answered /\ Answered' = Answered
    BY <1>2 DEF Elements, Answered
  <2>3. Asked(Answered)' = Asked(Answered)
    BY <1>2, <2>2 DEF Asked, IsCommand
  <2>4. Given(1 .. saved.attempts)' = Given(DOMAIN attempts)
    BY <1>2, <2>1 DEF Given
  <2> QED
    BY <1>2, <2>1, <2>2, <2>3, <2>4 DEF AnswerNow, AnswerBack, Answering, IsCommand
<1> QED
  BY <1>0, <1>1, <1>2, BoundaryFrame

\* A packet is admitted.
LEMMA AnswerPacket ==
  ASSUME TypeInv, QueueInv, Intact, AnswerNow, Frame,
         NEW key \in run.taken, Admits(key), ~IsCommand(key.id)
  PROVE  AnswerNow'
<1>1. /\ UNCHANGED <<ingress, boundaries, attempts>>
      /\ run'.admitted = Append(run.admitted, key.id)
  BY DEF Frame, Admits
<1>2. Elements(run'.admitted) = Elements(run.admitted) \cup {key.id}
  <2>1. key.id \in Nat /\ run.admitted \in Seq(Nat)
    BY QueueTypes
  <2> QED
    BY <1>1, <2>1, ElementsAppend
<1>3. Answered' = Answered
  BY <1>1 DEF Answered
<1>4. Asked(Answered \cup Elements(run.admitted))' = Asked(Answered \cup Elements(run.admitted))
  BY <1>1, <1>2, <1>3 DEF Asked, IsCommand
<1> QED
  BY <1>1, <1>4 DEF AnswerNow, Answering, IsCommand, Given

\* A command is admitted, and answered: no command of its request was before.
LEMMA AnswerCommand ==
  ASSUME TypeInv, QueueInv, Intact, AnswerNow, Frame,
         NEW key \in run.taken, Admits(key), IsCommand(key.id)
  PROVE  AnswerNow'
<1> DEFINE i == key.id
           done == Answered \cup Elements(run.admitted)
           n == Len(attempts)
           request == ingress[i].body.request
<1>1. /\ UNCHANGED <<ingress, boundaries>>
      /\ run'.admitted = Append(run.admitted, i)
  BY DEF Frame, Admits
<1>2. PICK answer : Answers(answer, ingress[i], run.goal)
  BY DEF Admits
<1>3. /\ i \in DOMAIN ingress /\ i \notin done /\ done \subseteq DOMAIN ingress
      /\ ingress[i].due = run.goal
      /\ n \in Nat /\ DOMAIN attempts = 1 .. n /\ attempts \in Seq(Attempt)
  BY FateTypes, AttemptBounds DEF IsCommand, FromReactor, ByReactor
<1>4. /\ DOMAIN attempts' = 1 .. n + 1 /\ Len(attempts') = n + 1
      /\ \A a \in 1 .. n : attempts'[a] = attempts[a]
      /\ attempts'[n + 1].request = request /\ attempts'[n + 1].at = run.goal
  BY <1>2, <1>3 DEF Answers
<1>5. Elements(run'.admitted) = Elements(run.admitted) \cup {i} /\ Answered' = Answered
  <2>1. key.id \in Nat /\ run.admitted \in Seq(Nat)
    BY QueueTypes
  <2> QED
    BY <1>1, <2>1, ElementsAppend DEF Answered
<1>6. (Answered \cup Elements(run.admitted))' = done \cup {i}
  BY <1>5
<1> HIDE DEF i, done, n
<1>7. request \notin Given(1 .. n)
  <2> SUFFICES ASSUME request \in Asked(done) PROVE FALSE
    BY <1>3 DEF AnswerNow, Answering, done, n
  <2>1. PICK j \in done : IsCommand(j) /\ ingress[j].body.request = request
    BY DEF Asked
  <2> QED
    BY <1>3, <2>1 DEF AnswerNow, Answering, i
<1>8. \A a \in DOMAIN attempts' : a \in 1 .. n \/ a = n + 1
  BY <1>3, <1>4
<1>9. \A a, c \in DOMAIN attempts' : attempts'[a].request = attempts'[c].request => a = c
  <2>1. \A a \in 1 .. n : attempts[a].request # request
    BY <1>7 DEF Given
  <2> QED
    BY <1>3, <1>4, <1>8, <2>1 DEF AnswerNow, Answering
<1>10. \A a \in DOMAIN attempts', j \in DOMAIN ingress :
          IsCommand(j) /\ attempts'[a].request = ingress[j].body.request
          => attempts'[a].at = ingress[j].due
  <2>1. \A j \in DOMAIN ingress : IsCommand(j) /\ ingress[j].body.request = request => j = i
    BY <1>3 DEF AnswerNow, Answering, i
  <2> QED
    BY <1>3, <1>4, <1>8, <2>1 DEF AnswerNow, Answering
<1>11. Given(DOMAIN attempts)' = Given(1 .. n) \cup {request}
  BY <1>3, <1>4, <1>8 DEF Given
<1>12. Asked(Answered \cup Elements(run.admitted))' = Asked(done) \cup {request}
  BY <1>1, <1>6 DEF Asked, IsCommand, i
<1>13. Given(1 .. n) = Asked(done)
  BY <1>3 DEF AnswerNow, Answering, done, n
<1> QED
  BY <1>1, <1>9, <1>10, <1>11, <1>12, <1>13 DEF AnswerNow, Answering, IsCommand

\* A record is journalled: if it is a command, its request is a new one.
LEMMA AnswerJournal ==
  ASSUME TypeInv, EventInv, QueueInv, Intact, AnswerNow, Journals
  PROVE  AnswerNow'
<1>n. PICK n \in Nat : n = Len(ingress)
  BY QueueTypes
<1> DEFINE done == Answered \cup Elements(run.admitted)
<1>t. TodoInv
  BY DEF QueueInv
<1>1. /\ UNCHANGED <<boundaries, attempts, pc, saved>>
      /\ run'.canonical = run.canonical /\ run'.admitted = run.admitted
  BY <1>t, JournalStep
<1>2. PICK record : Journalled(record)
  BY <1>t, JournalStep
<1>3. /\ Len(ingress') = n + 1 /\ DOMAIN ingress' = 1 .. n + 1 /\ n \in Nat
      /\ DOMAIN ingress = 1 .. n /\ ingress'[n + 1] = record
      /\ \A i \in 1 .. n : ingress'[i] = ingress[i]
  BY <1>n, <1>2, JournalGrows DEF Journalled
<1>4. done \subseteq DOMAIN ingress /\ DOMAIN attempts = 1 .. Len(attempts)
  BY FateTypes, AttemptBounds
<1>5. (InBoundary' <=> InBoundary) /\ (Answered \cup Elements(run.admitted))' = done
      /\ Answered' = Answered
  BY <1>1 DEF InBoundary, Answered
<1> HIDE DEF done
<1>6. record.body.kind = "command" =>
         \A i \in 1 .. n : IsCommand(i) => ingress[i].body.request # record.body.request
  BY <1>2, <1>3 DEF Journalled, Unused, IsCommand
<1>7. \A i \in DOMAIN ingress' : i \in 1 .. n \/ i = n + 1
  BY <1>3
<1>8. \A i \in 1 .. n : IsCommand(i)' <=> IsCommand(i)
  BY <1>3 DEF IsCommand
<1>9. \A i \in DOMAIN ingress' : i = n + 1 => (IsCommand(i)' <=> record.body.kind = "command")
  BY <1>3 DEF IsCommand
<1>10. ASSUME NEW i \in DOMAIN ingress', NEW j \in DOMAIN ingress', IsCommand(i)', IsCommand(j)',
              ingress'[i].body.request = ingress'[j].body.request
       PROVE  i = j
  BY <1>3, <1>6, <1>7, <1>8, <1>9, <1>10 DEF AnswerNow, Answering
<1>11. \A S \in SUBSET (1 .. n) : Asked(S)' = Asked(S)
  BY <1>3, <1>8 DEF Asked
<1>12. Asked(done)' = Asked(done)
  BY <1>3, <1>4, <1>5, <1>11 DEF done
<1>13. ASSUME NEW a \in DOMAIN attempts, NEW i \in DOMAIN ingress', IsCommand(i)',
              attempts[a].request = ingress'[i].body.request
       PROVE  attempts[a].at = ingress'[i].due
  <2>1. CASE i \in 1 .. n
    BY <1>3, <1>8, <1>13, <2>1 DEF AnswerNow, Answering
  <2>2. CASE i = n + 1
    <3>1. attempts[a].request \in Asked(done)
      BY <1>4 DEF AnswerNow, Answering, Given, done
    <3>2. PICK j \in done : IsCommand(j) /\ ingress[j].body.request = attempts[a].request
      BY <3>1 DEF Asked
    <3> QED
      BY <1>3, <1>4, <1>6, <1>9, <1>13, <2>2, <3>2
  <2> QED
    BY <1>7, <2>1, <2>2
<1>14. Given(DOMAIN attempts)' = Given(DOMAIN attempts)
  BY <1>1 DEF Given
<1> QED
  BY <1>1, <1>5, <1>10, <1>12, <1>13, <1>14 DEF AnswerNow, Answering, done

\* A boundary fails: its answers are cut off with what it admitted.
LEMMA AnswerAbort ==
  ASSUME TypeInv, QueueInv, AnswerInv, Aborts, WasIntact
  PROVE  AnswerNow'
<1>1. /\ DOMAIN ingress' = 1 .. saved.ingress
      /\ \A i \in 1 .. saved.ingress : ingress'[i] = ingress[i]
      /\ UNCHANGED boundaries /\ InBoundary /\ run'.admitted = <<>>
      /\ attempts' = SubSeq(attempts, 1, saved.attempts)
  BY AbortCuts
<1>2. AnswerBack /\ Answered \subseteq 1 .. saved.ingress
  BY <1>1, AnsweredBack DEF AnswerInv
<1>3. /\ DOMAIN attempts' = 1 .. saved.attempts
      /\ \A a \in 1 .. saved.attempts : attempts'[a] = attempts[a]
  BY <1>1, AttemptBounds
<1>4. (Answered \cup Elements(run.admitted))' = Answered
  BY <1>1 DEF Answered, Elements
<1>5. Asked(Answered \cup Elements(run.admitted))' = Asked(Answered)
  BY <1>1, <1>2, <1>4 DEF Asked, IsCommand
<1>6. Given(DOMAIN attempts)' = Given(1 .. saved.attempts)
  BY <1>3 DEF Given
<1>7. \A i \in 1 .. saved.ingress : IsCommand(i)' <=> IsCommand(i)
  BY <1>1 DEF IsCommand
<1>8. \A i, j \in DOMAIN ingress' :
         IsCommand(i)' /\ IsCommand(j)' /\ ingress'[i].body.request = ingress'[j].body.request
         => i = j
  BY <1>1, <1>2, <1>7 DEF AnswerBack, Answering
<1>9. \A a, c \in DOMAIN attempts' : attempts'[a].request = attempts'[c].request => a = c
  BY <1>2, <1>3 DEF AnswerBack, Answering
<1>10. ASSUME NEW a \in DOMAIN attempts', NEW i \in DOMAIN ingress', IsCommand(i)',
              attempts'[a].request = ingress'[i].body.request
       PROVE  attempts'[a].at = ingress'[i].due
  <2>1. /\ a \in 1 .. saved.attempts /\ i \in 1 .. saved.ingress /\ IsCommand(i)
        /\ attempts'[a] = attempts[a] /\ ingress'[i] = ingress[i]
    BY <1>1, <1>3, <1>7, <1>10
  <2> QED
    BY <1>2, <1>10, <2>1 DEF AnswerBack, Answering
<1>11. (Given(DOMAIN attempts) = Asked(Answered \cup Elements(run.admitted)))'
  BY <1>2, <1>5, <1>6 DEF AnswerBack, Answering
<1> QED
  BY <1>8, <1>9, <1>10, <1>11 DEF AnswerNow, Answering

\* What is answered when a boundary is settled.
LEMMA AnsweredGrows ==
  ASSUME TypeInv, EventInv, LocalsInv, Commit
  PROVE  Answered' = Answered \cup Elements(run.admitted)
<1>1. /\ DOMAIN boundaries = 1 .. Len(boundaries) /\ Len(boundaries) \in Nat
      /\ DOMAIN boundaries' = 1 .. Len(boundaries) + 1
      /\ \A b \in 1 .. Len(boundaries) : boundaries'[b] = boundaries[b]
      /\ boundaries'[Len(boundaries) + 1].admitted = run.admitted
  BY CommitGrows
<1>2. DOMAIN boundaries' = DOMAIN boundaries \cup {Len(boundaries) + 1}
  BY <1>1
<1> QED
  BY <1>1, <1>2 DEF Answered

\* A boundary is settled: what it admitted is answered for good.
LEMMA AnswerCommit ==
  ASSUME TypeInv, EventInv, QueueInv, Intact, AnswerNow, Commit
  PROVE  AnswerNow'
<1>0. LocalsInv
  BY DEF QueueInv
<1>1. UNCHANGED <<ingress, attempts>> /\ run'.admitted = <<>>
  BY <1>0, CommitGrows
<1>2. (Answered \cup Elements(run.admitted))' = Answered \cup Elements(run.admitted)
  BY <1>0, <1>1, AnsweredGrows DEF Elements
<1>3. Asked(Answered \cup Elements(run.admitted))' = Asked(Answered \cup Elements(run.admitted))
  BY <1>1, <1>2 DEF Asked, IsCommand
<1> QED
  BY <1>1, <1>3 DEF AnswerNow, Answering, IsCommand, Given

\* Attempts answer what was admitted after every step.
LEMMA AnswerStep ==
  ASSUME TypeInv, EventInv, QueueInv, AnswerInv, [Next]_vars
  PROVE  AnswerInv'
<1>0. TodoInv /\ GapInv /\ LocalsInv
  BY DEF QueueInv
<1>1. ASSUME Runs, Intact PROVE AnswerNow'
  <2>1. Frame /\ AnswerNow
    BY <1>1, RunsFrame DEF AnswerInv
  <2>2. CASE Kept \/ TakeDueIngress
    <3>1. UNCHANGED <<attempts, ingress, boundaries>> /\ run'.admitted = run.admitted
      BY <2>1, <2>2 DEF Kept, TakeDueIngress, Frame, outcomes, TypeInv, TypeOK, CallState
    <3> QED
      BY <2>1, <3>1, AnswerStill
  <2>3. CASE \E key \in run.taken : Admits(key)
    BY <1>1, <2>1, <2>3, AnswerPacket, AnswerCommand
  <2> QED
    BY <1>0, <1>1, <2>2, <2>3, RunsAdmit
<1>2. ASSUME Intact' PROVE AnswerNow'
  <2>1. CASE Aborts /\ WasIntact
    BY <2>1, AnswerAbort
  <2>2. CASE (Runs \/ Journals \/ Commit) /\ Intact
    BY <1>1, <2>2, AnswerJournal, AnswerCommit DEF AnswerInv
  <2> QED
    BY <1>0, <1>2, <2>1, <2>2, IntactCases
<1> QED
  BY <1>2, AnswersBack DEF AnswerInv

-----------------------------------------------------------------------------
(* Reading the journal back. *)

\* The records a boundary sees.
Known(b) == {i \in DOMAIN ingress : ingress[i].eligible < b}

\* What boundary b had queued stays as it was while the records it sees, and the
\* boundaries before it, do.
LEMMA QueueAtKept ==
  ASSUME NEW b \in Nat, Known(b)' = Known(b),
         \A i \in Known(b) : ingress'[i] = ingress[i],
         \A a \in 1 .. b - 1 : boundaries'[a] = boundaries[a]
  PROVE  QueueAt(b)' = QueueAt(b) /\ QueueAt(b) \subseteq Known(b)
<1>1. QueueAt(b) = {i \in Known(b) :
          /\ ingress[i].body.kind # "cancel" /\ ~ByReactor(ingress[i])
          /\ \A c \in Known(b) : ingress[c].body.kind = "cancel"
                                   => ingress[c].body.target # i
          /\ \A a \in 1 .. b - 1 : i \notin Elements(boundaries[a].admitted)}
  BY DEF QueueAt, Known, FromReactor
<1>2. QueueAt(b)' = {i \in Known(b)' :
          /\ ingress'[i].body.kind # "cancel" /\ ~ByReactor(ingress'[i])
          /\ \A c \in Known(b)' : ingress'[c].body.kind = "cancel"
                                    => ingress'[c].body.target # i
          /\ \A a \in 1 .. b - 1 : i \notin Elements(boundaries'[a].admitted)}
  BY DEF QueueAt, Known, FromReactor
<1> QED
  BY <1>1, <1>2

\* A list of records stays in queue order while its records do.
LEMMA SortedKept ==
  ASSUME NEW seq, Sorted(seq), \A i \in DOMAIN seq : ingress'[seq[i]] = ingress[seq[i]]
  PROVE  \A i, j \in DOMAIN seq :
            i < j => Before(QueueKey(ingress'[seq[i]]), QueueKey(ingress'[seq[j]]))
<1>1. ASSUME NEW i \in DOMAIN seq, NEW j \in DOMAIN seq, i < j
      PROVE  Before(QueueKey(ingress'[seq[i]]), QueueKey(ingress'[seq[j]]))
  <2>1. ingress'[seq[i]] = ingress[seq[i]] /\ ingress'[seq[j]] = ingress[seq[j]]
    OBVIOUS
  <2>2. Before(QueueKey(ingress[seq[i]]), QueueKey(ingress[seq[j]]))
    BY <1>1 DEF Sorted
  <2> QED
    BY <2>1, <2>2
<1> QED
  BY <1>1

\* What a boundary replayed stays replayed while journal and boundaries do.
LEMMA ReplayedStill ==
  ASSUME \A b \in DOMAIN boundaries : Replayed(b), UNCHANGED <<ingress, boundaries>>
  PROVE  \A b \in DOMAIN boundaries' : Replayed(b)'
<1>1. ASSUME NEW b \in DOMAIN boundaries PROVE Replayed(b)'
  <2>1. ingress' = ingress /\ boundaries' = boundaries /\ Replayed(b)
    OBVIOUS
  <2>2. QueueAt(b)' = QueueAt(b)
    BY <2>1 DEF QueueAt, FromReactor
  <2>3. Sorted(boundaries[b].admitted)'
    BY <2>1 DEF Replayed, Sorted
  <2> QED
    BY <2>1, <2>2, <2>3 DEF Replayed, FromReactor
<1> QED
  BY <1>1

\* So does what it admitted of them.
LEMMA ReplayedKept ==
  ASSUME NEW b \in Nat, Known(b)' = Known(b), Replayed(b),
         \A i \in Known(b) \cup Elements(boundaries[b].admitted) : ingress'[i] = ingress[i],
         \A a \in 1 .. b : boundaries'[a] = boundaries[a], b > 0
  PROVE  Replayed(b)'
<1>1. /\ QueueAt(b)' = QueueAt(b) /\ QueueAt(b) \subseteq Known(b)
      /\ boundaries'[b] = boundaries[b]
  BY QueueAtKept
<1>2. \A i \in QueueAt(b) : ingress'[i] = ingress[i]
  BY <1>1
<1>3. \A i \in Elements(boundaries[b].admitted) : FromReactor(i)' <=> FromReactor(i)
  BY DEF FromReactor
<1>4. Sorted(boundaries[b].admitted)'
  <2>1. Sorted(boundaries[b].admitted)
    BY DEF Replayed
  <2>2. \A i \in DOMAIN boundaries[b].admitted :
           ingress'[boundaries[b].admitted[i]] = ingress[boundaries[b].admitted[i]]
    BY DEF Elements
  <2>3. \A i, j \in DOMAIN boundaries[b].admitted :
           i < j => Before(QueueKey(ingress'[boundaries[b].admitted[i]]),
                           QueueKey(ingress'[boundaries[b].admitted[j]]))
    BY <2>1, <2>2, SortedKept
  <2> QED
    BY <1>1, <2>3 DEF Sorted, QueueKey
<1>5. {i \in Elements(boundaries[b].admitted) : ~FromReactor(i)}'
        = {i \in QueueAt(b) : ingress[i].due = boundaries[b].at}
  <2>1. {i \in Elements(boundaries[b].admitted) : ~FromReactor(i)}
          = {i \in QueueAt(b) : ingress[i].due = boundaries[b].at}
    BY DEF Replayed
  <2>2. Elements(boundaries[b].admitted)' = Elements(boundaries[b].admitted)
    BY <1>1 DEF Elements
  <2> QED
    BY <1>3, <2>1, <2>2
<1> QED
  BY <1>1, <1>2, <1>4, <1>5 DEF Replayed

\* The boundaries stay replayed while the records they see and admitted do.
LEMMA BoundariesKept ==
  ASSUME TypeInv, \A b \in DOMAIN boundaries : Replayed(b),
         \A b \in DOMAIN boundaries : /\ Known(b)' = Known(b)
                                      /\ \A i \in Known(b) : ingress'[i] = ingress[i]
                                      /\ boundaries'[b] = boundaries[b],
         \A i \in Answered : ingress'[i] = ingress[i]
  PROVE  \A b \in DOMAIN boundaries : Replayed(b)'
<1>1. DOMAIN boundaries = 1 .. Len(boundaries) /\ Len(boundaries) \in Nat
  BY QueueTypes
<1>2. ASSUME NEW b \in DOMAIN boundaries PROVE Replayed(b)'
  <2>1. b \in Nat /\ b > 0 /\ \A a \in 1 .. b : boundaries'[a] = boundaries[a]
    BY <1>1
  <2>2. \A i \in Elements(boundaries[b].admitted) : i \in Answered
    BY DEF Answered
  <2>3. \A i \in Known(b) \cup Elements(boundaries[b].admitted) : ingress'[i] = ingress[i]
    BY <2>2
  <2> QED
    BY <2>1, <2>3, ReplayedKept
<1> QED
  BY <1>2

\* A record is journalled: no settled boundary sees it.
LEMMA ReplayedJournal ==
  ASSUME TypeInv, EventInv, TodoInv, \A b \in DOMAIN boundaries : Replayed(b),
         Answered \subseteq DOMAIN ingress, Journals
  PROVE  \A b \in DOMAIN boundaries' : Replayed(b)'
<1>n. PICK n \in Nat : n = Len(ingress)
  BY QueueTypes
<1>1. UNCHANGED boundaries
  BY JournalStep
<1>2. PICK record : Journalled(record)
  BY JournalStep
<1>3. /\ DOMAIN ingress' = 1 .. n + 1 /\ DOMAIN ingress = 1 .. n
      /\ ingress'[n + 1] = record /\ \A i \in 1 .. n : ingress'[i] = ingress[i]
  BY <1>n, <1>2, JournalGrows DEF Journalled
<1>4. record.eligible \in Nat /\ record.eligible >= Len(boundaries) /\ Len(boundaries) \in Nat
      /\ DOMAIN boundaries = 1 .. Len(boundaries)
  BY <1>2, QueueTypes DEF Journalled, Stamp
<1>5. ASSUME NEW b \in DOMAIN boundaries
      PROVE  /\ Known(b)' = Known(b)
             /\ \A i \in Known(b) : ingress'[i] = ingress[i]
             /\ boundaries'[b] = boundaries[b]
  <2>1. ~(record.eligible < b)
    BY <1>4
  <2>2. n + 1 \notin Known(b)'
    BY <1>3, <2>1 DEF Known
  <2> QED
    BY <1>1, <1>3, <2>2 DEF Known
<1> QED
  BY <1>1, <1>3, <1>5, BoundariesKept

\* A boundary fails: no settled boundary saw what is cut off.
LEMMA ReplayedAbort ==
  ASSUME TypeInv, CutsInv, \A b \in DOMAIN boundaries : Replayed(b),
         Answered \subseteq 1 .. saved.ingress, Aborts
  PROVE  \A b \in DOMAIN boundaries' : Replayed(b)'
<1>1. /\ DOMAIN ingress' = 1 .. saved.ingress /\ DOMAIN ingress = 1 .. Len(ingress)
      /\ \A i \in 1 .. saved.ingress : ingress'[i] = ingress[i] /\ i \in DOMAIN ingress
      /\ UNCHANGED boundaries /\ InBoundary /\ saved.ingress \in Nat
  BY AbortCuts
<1>2. /\ DOMAIN boundaries = 1 .. Len(boundaries) /\ Len(boundaries) \in Nat
      /\ Len(ingress) \in Nat
  BY QueueTypes
<1>3. \A i \in DOMAIN ingress :
         i > saved.ingress => ingress[i].eligible = Len(boundaries) + 1
  BY <1>1 DEF CutsInv, CutAt
<1>4. ASSUME NEW b \in DOMAIN boundaries
      PROVE  /\ Known(b)' = Known(b)
             /\ \A i \in Known(b) : ingress'[i] = ingress[i]
             /\ boundaries'[b] = boundaries[b]
  <2>1. \A i \in Known(b) : i \in 1 .. saved.ingress
    BY <1>1, <1>2, <1>3 DEF Known
  <2>2. \A i \in Known(b)' : i \in 1 .. saved.ingress
    BY <1>1 DEF Known
  <2> QED
    BY <1>1, <2>1, <2>2 DEF Known
<1> QED
  BY <1>1, <1>4, BoundariesKept

\* What the next boundary finds queued: of the records that are cut off from it by
\* none, those that were not withdrawn or admitted before.
LEMMA QueueNow ==
  ASSUME TypeInv, NEW n \in Nat, n <= Len(ingress), CutAt(n), NEW P,
         Parts(Scheduled(n), P, {}, {}, Answered, Targets(n)),
         NEW b, b = Len(boundaries) + 1
  PROVE  QueueAt(b) = {i \in P : ~FromReactor(i)}
<1>1. /\ DOMAIN ingress = 1 .. Len(ingress) /\ Len(ingress) \in Nat
      /\ DOMAIN boundaries = 1 .. Len(boundaries) /\ Len(boundaries) \in Nat
      /\ \A i \in DOMAIN ingress : ingress[i].eligible \in Nat
  BY QueueTypes
<1>2. /\ \A i \in Known(b) : i \in 1 .. n
      /\ \A i \in 1 .. n : ~FromReactor(i) => i \in Known(b)
  BY <1>1 DEF Known, CutAt
<1>3. 1 .. b - 1 = DOMAIN boundaries
  BY <1>1
<1>4. \A c : ingress[c].body.kind = "cancel" => ~FromReactor(c)
  BY DEF FromReactor, ByReactor
<1>5. {ingress[c].body.target : c \in {d \in Known(b) : ingress[d].body.kind = "cancel"}}
        = Targets(n)
  BY <1>2, <1>4 DEF Targets
<1>6. QueueAt(b) = {i \in Known(b) :
          /\ ingress[i].body.kind # "cancel" /\ ~FromReactor(i)
          /\ \A c \in Known(b) : ingress[c].body.kind = "cancel"
                                   => ingress[c].body.target # i
          /\ \A a \in 1 .. b - 1 : i \notin Elements(boundaries[a].admitted)}
  BY DEF QueueAt, Known
<1>7. QueueAt(b) = {i \in Scheduled(n) : ~FromReactor(i) /\ i \notin Targets(n)
                                         /\ i \notin Answered}
  BY <1>2, <1>3, <1>5, <1>6 DEF Scheduled, Answered
<1> QED
  BY <1>7 DEF Parts

\* What the running boundary found queued.
LEMMA QueueSaved ==
  ASSUME TypeInv, QueueInv, CutsInv, InBoundary, WasIntact, NEW b, b = Len(boundaries) + 1
  PROVE  QueueAt(b) = {i \in Ids(saved.pending) : ~FromReactor(i)}
<1>1. Parts(Scheduled(saved.ingress), Ids(saved.pending), {}, {}, Answered,
            Targets(saved.ingress))
  BY DEF QueueInv, BackInv
<1>2. CutAt(saved.ingress) /\ saved.ingress \in Nat /\ saved.ingress <= Len(ingress)
  BY QueueTypes DEF CutsInv
<1> QED
  BY <1>1, <1>2, QueueNow

\* What is queued between calls.
LEMMA QueueIdle ==
  ASSUME TypeInv, QueueInv, CutsInv, Intact, pc = "idle", NEW b, b = Len(boundaries) + 1
  PROVE  QueueAt(b) = {i \in Ids(pending) : ~FromReactor(i)}
<1>1. Ids(run.taken) = {} /\ Elements(run.admitted) = {}
  BY DEF QueueInv, LocalsInv, Ids, Elements
<1>2. Parts(Scheduled(Len(ingress)), Ids(pending), {}, {}, Answered, Targets(Len(ingress)))
  BY <1>1 DEF QueueInv, RecordsInv, FateInv, WithdrawalInv
<1>3. CutAt(Len(ingress)) /\ Len(ingress) \in Nat
  BY QueueTypes DEF CutsInv, InBoundary
<1> QED
  BY <1>2, <1>3, QueueNow

\* Nothing is taken or admitted.
LEMMA ReplayKept ==
  ASSUME TypeInv, Replaying, Frame, Kept
  PROVE  Replaying'
<1>1. UNCHANGED <<ingress, pending>>
      /\ run'.taken = run.taken /\ run'.admitted = run.admitted
  BY DEF Frame, Kept
<1>2. (InBoundary /\ Early)' => Own(pending)' = Own(saved.pending)'
  BY <1>1 DEF Replaying, Frame, Kept, Opens, Own, FromReactor
<1>3. (InBoundary /\ ~Early)' =>
        ({i \in Elements(run.admitted) \cup Ids(run.taken) : ~FromReactor(i)} = DueIds)'
  <2> SUFFICES ASSUME InBoundary', ~Early'
               PROVE  ({i \in Elements(run.admitted) \cup Ids(run.taken) : ~FromReactor(i)}
                         = DueIds)'
    OBVIOUS
  <2>1. InBoundary /\ ~Early /\ UNCHANGED saved /\ run'.goal = run.goal
    BY DEF Frame, Kept, Opens
  <2> QED
    BY <1>1, <2>1 DEF Replaying, DueIds, Own, FromReactor
<1>4. Sorted(run.admitted)'
  BY <1>1 DEF Replaying, Sorted
<1> QED
  BY <1>1, <1>2, <1>3, <1>4 DEF Replaying

\* A boundary takes what is due at its time, and nothing is due before it.
LEMMA ReplayTake ==
  ASSUME TypeInv, QueueInv, Replaying, Frame, TakeDueIngress
  PROVE  Replaying'
<1> DEFINE due == {k \in pending : k.due <= run.goal}
<1>0. run \in CallState /\ run.goal \in Nat
  BY QueueTypes DEF CallState
<1>1. /\ UNCHANGED <<ingress, saved>> /\ run' = [run EXCEPT !.taken = due]
      /\ pc = "advance" /\ pc' = "admit" /\ run.canonical
  BY DEF TakeDueIngress, Frame
<1>2. /\ run'.taken = due /\ run'.admitted = run.admitted /\ run'.goal = run.goal
      /\ run.admitted = <<>> /\ InBoundary /\ Early /\ ~Early'
  BY <1>0, <1>1 DEF CallState, QueueInv, LocalsInv, InBoundary, Early, InBatch
<1>3. Own(due) = {k \in Own(saved.pending) : k.due = run.goal}
  <2>1. \A k \in saved.pending : k.due >= run.goal /\ k.due \in Nat
    BY <1>2, QueueTypes DEF QueueInv, BackInv
  <2>2. Own(due) = {k \in Own(pending) : k.due <= run.goal}
    BY DEF Own
  <2>3. Own(pending) = Own(saved.pending) /\ Own(saved.pending) \subseteq saved.pending
    BY <1>2 DEF Replaying, Own
  <2> QED
    BY <1>0, <2>1, <2>2, <2>3
<1> HIDE DEF due
<1>4. ({i \in Elements(run.admitted) \cup Ids(run.taken) : ~FromReactor(i)} = DueIds)'
  <2>1. DueIds' = Ids(Own(due))
    BY <1>1, <1>2, <1>3 DEF DueIds, Own, FromReactor
  <2>2. Elements(run.admitted)' = {} /\ Ids(run.taken)' = Ids(due)
    BY <1>2 DEF Elements, Ids
  <2>3. {i \in Ids(due) : ~FromReactor(i)} = Ids(Own(due))
    BY DEF Ids, Own
  <2> QED
    BY <1>1, <2>1, <2>2, <2>3 DEF FromReactor
<1>5. DOMAIN run'.admitted = {}
  BY <1>2
<1> QED
  BY <1>2, <1>4, <1>5 DEF Replaying, Sorted

\* What is first in the queue is admitted next.
LEMMA ReplayAdmit ==
  ASSUME TypeInv, QueueInv, Intact, Replaying, Frame, NEW key \in run.taken, Admits(key)
  PROVE  Replaying'
<1> DEFINE n == Len(run.admitted)
<1>1. /\ UNCHANGED <<ingress, saved, pending>> /\ run'.goal = run.goal
      /\ run'.taken = run.taken \ {key} /\ run'.admitted = Append(run.admitted, key.id)
      /\ key = First(run.taken) /\ InBoundary /\ ~Early /\ ~Early'
  BY DEF Frame, Admits
<1>2. key.id \in Nat /\ run.admitted \in Seq(Nat) /\ run.taken \in SUBSET QueueKeys
      /\ IsFiniteSet(run.taken)
  BY QueueTypes DEF TypeInv, CallInv
<1>4. Elements(run'.admitted) = Elements(run.admitted) \cup {key.id}
  BY <1>1, <1>2, ElementsAppend
<1>5. ({i \in Elements(run.admitted) \cup Ids(run.taken) : ~FromReactor(i)} = DueIds)'
  <2>1. Ids(run'.taken) \cup {key.id} = Ids(run.taken)
    BY <1>1 DEF Ids
  <2>2. DueIds' = DueIds
    BY <1>1 DEF DueIds, Own, FromReactor
  <2>3. (Elements(run.admitted) \cup Ids(run.taken))' = Elements(run.admitted) \cup Ids(run.taken)
    BY <1>4, <2>1 DEF Ids
  <2> QED
    BY <1>1, <2>2, <2>3 DEF Replaying, FromReactor
<1>6. /\ DOMAIN run'.admitted = 1 .. n + 1 /\ DOMAIN run.admitted = 1 .. n /\ n \in Nat
      /\ run'.admitted[n + 1] = key.id
      /\ \A i \in 1 .. n : run'.admitted[i] = run.admitted[i]
  BY <1>1, <1>2
<1> HIDE DEF n
<1>7. QueueKey(ingress[key.id]) = key
  BY FateTypes
<1>8. \A k \in run.taken : k = key \/ Before(key, k)
  BY <1>1, <1>2, FirstExists
<1>9. \A i \in DOMAIN run'.admitted : i \in 1 .. n \/ i = n + 1
  BY <1>6
<1>10. \A i \in 1 .. n, k \in run.taken : Before(QueueKey(ingress[run.admitted[i]]), k)
  BY <1>6 DEF Replaying
<1>11. \A i, j \in 1 .. n :
         i < j => Before(QueueKey(ingress[run.admitted[i]]), QueueKey(ingress[run.admitted[j]]))
  BY <1>6 DEF Replaying, Sorted
<1>12. ASSUME NEW i \in DOMAIN run'.admitted, NEW j \in DOMAIN run'.admitted, i < j
       PROVE  Before(QueueKey(ingress[run'.admitted[i]]), QueueKey(ingress[run'.admitted[j]]))
  <2>1. i \in 1 .. n
    BY <1>6, <1>12
  <2>2. CASE j \in 1 .. n
    BY <1>6, <1>11, <1>12, <2>1, <2>2
  <2>3. CASE j = n + 1
    BY <1>6, <1>7, <1>10, <2>1, <2>3
  <2> QED
    BY <1>9, <2>2, <2>3
<1>13. ASSUME NEW i \in DOMAIN run'.admitted, NEW k \in run'.taken
       PROVE  Before(QueueKey(ingress[run'.admitted[i]]), k)
  <2>1. CASE i \in 1 .. n
    BY <1>1, <1>6, <1>10, <2>1
  <2>2. CASE i = n + 1
    BY <1>1, <1>6, <1>7, <1>8, <2>2
  <2> QED
    BY <1>9, <2>1, <2>2
<1>14. Sorted(run.admitted)'
  BY <1>1, <1>12 DEF Sorted, QueueKey
<1>15. \A i \in DOMAIN run'.admitted, k \in run'.taken :
          Before(QueueKey(ingress'[run'.admitted[i]]), k)
  BY <1>1, <1>13 DEF QueueKey
<1> QED
  BY <1>1, <1>5, <1>14, <1>15 DEF Replaying, QueueKey

\* A record is journalled: what a boundary that is on its way journals is a reactor's.
LEMMA ReplayJournal ==
  ASSUME TypeInv, EventInv, QueueInv, Intact, Replaying, Journals
  PROVE  Replaying'
<1>n. PICK n \in Nat : n = Len(ingress)
  BY QueueTypes
<1>0. TodoInv /\ n + 1 = nextId
  BY <1>n DEF QueueInv, Intact
<1>1. /\ UNCHANGED <<pc, saved>>
      /\ run'.goal = run.goal /\ run'.canonical = run.canonical /\ run'.caller = run.caller
      /\ run'.taken = run.taken /\ run'.admitted = run.admitted
  BY <1>0, JournalStep
<1>2. (InBoundary' <=> InBoundary) /\ (Early' <=> Early)
  BY <1>1 DEF InBoundary, Early, InBatch
<1>3. PICK record : Journalled(record)
  BY <1>0, JournalStep
<1>4. /\ DOMAIN ingress' = 1 .. n + 1 /\ DOMAIN ingress = 1 .. n
      /\ \A i \in 1 .. n : ingress'[i] = ingress[i]
  BY <1>n, <1>3, JournalGrows DEF Journalled
<1>5. \A i \in 1 .. n : FromReactor(i)' <=> FromReactor(i)
  BY <1>4 DEF FromReactor
<1>6. /\ \A i \in DOMAIN run.admitted : run.admitted[i] \in 1 .. n
      /\ Elements(run.admitted) \cup Ids(run.taken) \subseteq 1 .. n
      /\ Ids(pending) \subseteq 1 .. n /\ Ids(saved.pending) \subseteq 1 .. n
  <2>1. Elements(run.admitted) \subseteq 1 .. n
    BY <1>4, FateTypes
  <2>2. \A k \in pending \cup run.taken : k.id \in 1 .. n
    BY <1>4, QueueTypes
  <2>3. \A k \in saved.pending : k.id \in 1 .. n
    BY <1>n, QueueTypes
  <2> QED
    BY <2>1, <2>2, <2>3 DEF Elements, Ids
<1>7. Own(saved.pending)' = Own(saved.pending) /\ DueIds' = DueIds
  <2>1. Own(saved.pending)' = Own(saved.pending)
    BY <1>1, <1>5, <1>6 DEF Own, Ids
  <2> QED
    BY <1>1, <2>1 DEF DueIds
<1>8. InBoundary /\ Early => Own(pending)' = Own(pending)
  <2> SUFFICES ASSUME InBoundary, Early PROVE Own(pending)' = Own(pending)
    OBVIOUS
  <2>1. pc \notin {"idle", "systems"} /\ ~InCommand
    BY DueTypes DEF InBoundary, Early, InBatch, InCommand, TypeInv, CallInv
  <2>2. CASE Enqueue \/ Issues \/ SystemIssues
    <3>1. PICK packet : Pushed(packet)
      BY <1>0, <2>2, IssuesPush
    <3>2. /\ ByReactor(packet) /\ packet.id = n + 1 /\ ingress' = Append(ingress, packet)
          /\ pending' = pending \cup {QueueKey(packet)}
      BY <1>0, <2>1, <3>1 DEF Pushed, Stamp
    <3>3. FromReactor(n + 1)' /\ QueueKey(packet).id = n + 1
      BY <1>n, <3>2, JournalGrows DEF FromReactor, QueueKey
    <3> QED
      BY <1>5, <1>6, <3>2, <3>3 DEF Own, Ids
  <2>3. CASE Withdraw \/ SystemWithdraws
    BY <2>1, <2>3 DEF Withdraw, CancelPlugin, SystemWithdraws, SystemCancels
  <2> QED
    BY <2>2, <2>3 DEF Journals
<1>9. ({i \in Elements(run.admitted) \cup Ids(run.taken) : ~FromReactor(i)})'
        = {i \in Elements(run.admitted) \cup Ids(run.taken) : ~FromReactor(i)}
  <2>1. (Elements(run.admitted) \cup Ids(run.taken))'
          = Elements(run.admitted) \cup Ids(run.taken)
    BY <1>1 DEF Elements, Ids
  <2> QED
    BY <1>5, <1>6, <2>1
<1>10. \A i \in DOMAIN run.admitted : ingress'[run.admitted[i]] = ingress[run.admitted[i]]
  BY <1>4, <1>6
<1>11. Sorted(run.admitted)'
  <2>1. \A i, j \in DOMAIN run.admitted :
           i < j => Before(QueueKey(ingress'[run.admitted[i]]),
                           QueueKey(ingress'[run.admitted[j]]))
    BY <1>10, SortedKept DEF Replaying
  <2> QED
    BY <1>1, <2>1 DEF Sorted, QueueKey
<1>12. \A i \in DOMAIN run'.admitted, k \in run'.taken :
          Before(QueueKey(ingress'[run'.admitted[i]]), k)
  BY <1>1, <1>10 DEF Replaying
<1> QED
  BY <1>2, <1>7, <1>8, <1>9, <1>11, <1>12 DEF Replaying, QueueKey

\* A boundary fails, and nothing is taken or admitted.
LEMMA ReplayAbort ==
  ASSUME TypeInv, Aborts
  PROVE  Replaying'
<1>1. ~InBoundary' /\ run'.admitted = <<>> /\ run'.taken = {}
  BY AbortCuts
<1>2. DOMAIN run'.admitted = {}
  BY <1>1
<1> QED
  BY <1>1, <1>2 DEF Replaying, Sorted

\* A boundary is settled: it admitted what the journal has queued for it.
LEMMA ReplayCommit ==
  ASSUME TypeInv, EventInv, QueueInv, CutsInv, Intact, Replaying,
         \A b \in DOMAIN boundaries : Replayed(b), Commit
  PROVE  Replaying' /\ \A b \in DOMAIN boundaries' : Replayed(b)'
<1>0. LocalsInv /\ BackInv
  BY DEF QueueInv
<1>1. /\ UNCHANGED ingress
      /\ Len(boundaries) \in Nat /\ DOMAIN boundaries = 1 .. Len(boundaries)
      /\ DOMAIN boundaries' = 1 .. Len(boundaries) + 1
      /\ \A b \in 1 .. Len(boundaries) : boundaries'[b] = boundaries[b]
      /\ boundaries'[Len(boundaries) + 1].at = run.goal
      /\ boundaries'[Len(boundaries) + 1].admitted = run.admitted
      /\ InBoundary /\ ~InBoundary' /\ ~Early
      /\ run'.admitted = <<>> /\ run'.taken = {} /\ run.taken = {}
  BY <1>0, CommitGrows
<1>2. \A b \in Nat : Known(b)' = Known(b)
  BY <1>1 DEF Known
<1>3. \A b \in DOMAIN boundaries : Replayed(b)'
  BY <1>1, <1>2, BoundariesKept
<1>4. PICK b \in Nat : b = Len(boundaries) + 1
  BY <1>1
<1>5. QueueAt(b)' = {i \in Ids(saved.pending) : ~FromReactor(i)}
  <2>1. QueueAt(b) = {i \in Ids(saved.pending) : ~FromReactor(i)}
    BY <1>0, <1>1, <1>4, QueueSaved, IntactSaved DEF QueueInv
  <2>2. \A a \in 1 .. b - 1 : boundaries'[a] = boundaries[a]
    BY <1>1, <1>4
  <2> QED
    BY <1>1, <1>2, <2>1, <2>2, QueueAtKept
<1>6. \A k \in saved.pending : ingress[k.id].due = k.due /\ k.due >= run.goal
  <2>1. WasIntact
    BY <1>1, IntactSaved DEF QueueInv
  <2> QED
    BY <1>0, <1>1, <2>1 DEF BackInv, Stands, QueueKey
<1>7. {i \in Elements(run.admitted) : ~FromReactor(i)} = DueIds
  <2>1. Elements(run.admitted) \cup Ids(run.taken) = Elements(run.admitted)
    BY <1>1 DEF Ids
  <2> QED
    BY <1>1, <2>1 DEF Replaying
<1>8. DueIds = {i \in Ids(saved.pending) : ~FromReactor(i) /\ ingress[i].due = run.goal}
  BY <1>6 DEF DueIds, Ids, Own
<1>9. Sorted(run.admitted)
  BY DEF Replaying
<1>10. Replayed(b)'
  <2>1. boundaries'[b].at = run.goal /\ boundaries'[b].admitted = run.admitted
    BY <1>1, <1>4
  <2>2. \A i \in QueueAt(b)' : ingress'[i].due >= boundaries'[b].at
    BY <1>1, <1>5, <1>6, <2>1 DEF Ids
  <2>3. {i \in Elements(boundaries'[b].admitted) : ~FromReactor(i)'}
          = {i \in QueueAt(b)' : ingress'[i].due = boundaries'[b].at}
    <3>1. \A i : FromReactor(i)' <=> FromReactor(i)
      BY <1>1 DEF FromReactor
    <3> QED
      BY <1>1, <1>5, <1>7, <1>8, <2>1, <3>1
  <2>4. Sorted(boundaries[b].admitted)'
    BY <1>1, <1>9, <2>1 DEF Sorted
  <2> QED
    BY <2>2, <2>3, <2>4 DEF Replayed, Elements
<1>11. \A c \in DOMAIN boundaries' : Replayed(c)'
  <2>1. \A c \in DOMAIN boundaries' : c \in DOMAIN boundaries \/ c = b
    BY <1>1, <1>4
  <2> QED
    BY <1>3, <1>10, <2>1
<1>12. DOMAIN run'.admitted = {}
  BY <1>1
<1> QED
  BY <1>1, <1>11, <1>12 DEF Replaying, Sorted

\* The journal can be read back after every step.
LEMMA ReplayStep ==
  ASSUME TypeInv, EventInv, QueueInv, CutsInv, ReplayInv, [Next]_vars
  PROVE  ReplayInv'
<1>0. TodoInv /\ GapInv /\ LocalsInv
  BY DEF QueueInv
<1>1. ASSUME Intact' PROVE Replaying'
  <2>1. CASE Aborts
    BY <2>1, ReplayAbort
  <2>2. CASE Runs /\ Intact
    BY <1>0, <2>2, RunsFrame, RunsAdmit, ReplayKept, ReplayTake, ReplayAdmit DEF ReplayInv
  <2>3. CASE Journals /\ Intact
    BY <2>3, ReplayJournal DEF ReplayInv
  <2>4. CASE Commit /\ Intact
    BY <2>4, ReplayCommit DEF ReplayInv
  <2> QED
    BY <1>0, <1>1, <2>1, <2>2, <2>3, <2>4, IntactCases
<1>2. ASSUME Intact' \/ (InBoundary' /\ WasIntact')
      PROVE  \A b \in DOMAIN boundaries' : Replayed(b)'
  <2>1. CASE Commit
    <3>1. ~InBoundary'
      BY <1>0, <2>1, CommitGrows
    <3>2. Intact
      BY <1>0, <1>2, <2>1, <3>1, IntactBefore
    <3> QED
      BY <2>1, <3>2, ReplayCommit DEF ReplayInv
  <2>2. CASE Aborts
    <3>1. InBoundary /\ ~InBoundary'
      BY <2>2, AbortCuts
    <3>2. WasIntact
      <4>1. nextId' = saved.nextId /\ Len(ingress') = saved.ingress
        BY <2>2, QueueTypes DEF Aborts, AbortBoundary, RestoreEvidence
      <4> QED
        BY <1>2, <3>1, <4>1 DEF Intact, WasIntact
    <3> QED
      BY <2>2, <3>1, <3>2, AnsweredBack, ReplayedAbort DEF ReplayInv
  <2>3. CASE Runs \/ Journals
    <3>1. Intact \/ (InBoundary /\ WasIntact)
      <4>1. CASE Intact'
        BY <1>0, <2>3, <4>1, IntactBefore
      <4>2. CASE InBoundary' /\ WasIntact'
        BY <1>0, <4>2, BoundaryFrame
      <4> QED
        BY <1>2, <4>1, <4>2
    <3>2. \A b \in DOMAIN boundaries : Replayed(b)
      BY <3>1 DEF ReplayInv
    <3>3. Answered \subseteq DOMAIN ingress
      <4>1. CASE Intact
        BY <4>1, FateTypes
      <4>2. CASE InBoundary /\ WasIntact
        <5>1. \A i \in 1 .. saved.ingress : i \in DOMAIN ingress
          BY QueueTypes
        <5> QED
          BY <4>2, <5>1, AnsweredBack
      <4> QED
        BY <3>1, <4>1, <4>2
    <3>4. CASE Runs
      <4>1. UNCHANGED <<ingress, boundaries>>
        BY <3>4, RunsFrame DEF Frame
      <4> QED
        BY <3>2, <4>1, ReplayedStill
    <3>5. CASE Journals
      BY <1>0, <3>2, <3>3, <3>5, ReplayedJournal
    <3> QED
      BY <2>3, <3>4, <3>5
  <2> QED
    BY <2>1, <2>2, <2>3, FourCases
<1> QED
  BY <1>1, <1>2 DEF ReplayInv

-----------------------------------------------------------------------------
(* What follows for the journal. *)

\* What tells of a refused call stays, and nothing else needs telling.
LEMMA TraceNow ==
  ASSUME TypeInv, EventInv, QueueInv, TraceInv, [Next]_vars, ~Intact'
  PROVE  Trace(Len(ingress), Len(attempts))'
<1>0. /\ DOMAIN ingress = 1 .. Len(ingress) /\ Len(ingress) \in Nat
      /\ attempts \in Seq(Attempt) /\ DOMAIN attempts = 1 .. Len(attempts)
      /\ nextId \in Nat /\ TodoInv /\ GapInv /\ LocalsInv
  BY QueueTypes, AttemptBounds DEF QueueInv, TypeInv, TypeOK
<1>1. /\ DOMAIN ingress' = 1 .. Len(ingress') /\ DOMAIN attempts' = 1 .. Len(attempts')
      /\ attempts' \in Seq(Attempt)
  BY TypeStep DEF TypeInv, TypeOK
<1> SUFFICES \/ \E a \in DOMAIN attempts' : ~attempts'[a].accepted
             \/ \E i \in DOMAIN ingress' : FromReactor(i)'
  BY <1>1 DEF Trace
<1>2. CASE ~Intact /\ (Runs \/ Journals \/ Commit)
  <2>1. \/ \E a \in DOMAIN attempts : ~attempts[a].accepted
        \/ \E i \in DOMAIN ingress : FromReactor(i)
    BY <1>0, <1>2 DEF TraceInv, Trace
  <2>2. \A a \in DOMAIN attempts : attempts'[a] = attempts[a] /\ a \in DOMAIN attempts'
    BY <1>0, <1>2, AttemptsGrow, JournalStep, CommitGrows
  <2>3. \A i \in DOMAIN ingress : ingress'[i] = ingress[i] /\ i \in DOMAIN ingress'
    <3>1. UNCHANGED ingress \/ \E record : ingress' = Append(ingress, record)
      BY <1>0, <1>2, RunsFrame, JournalStep, CommitGrows DEF Frame, Journalled
    <3> QED
      BY <1>0, <3>1, JournalGrows
  <2> QED
    BY <2>1, <2>2, <2>3 DEF FromReactor
<1>3. CASE Intact /\ Runs
  <2>1. UNCHANGED ingress
    BY <1>3, RunsFrame DEF Frame
  <2>2. (RollBackCommand \/ RollBackBatch) /\ batch.nextId < nextId
    BY <1>0, <1>3, <2>1, CounterRuns DEF Intact
  <2>3. CASE RollBackCommand
    <3>1. PICK answer : attempts' = Append(attempts, answer) /\ ~answer.accepted
      BY <2>3 DEF RollBackCommand, RecordAttempt
    <3> QED
      BY <1>0, <3>1
  <2>4. CASE RollBackBatch
    <3>1. InBatch
      BY <2>4 DEF RollBackBatch, Refused, TooDeep, Applying, TypeInv, TypeOK, CallInv,
         CallState, InBatch
    <3> QED
      BY <2>1, <2>2, <3>1 DEF TraceInv, FromReactor
  <2> QED
    BY <2>2, <2>3, <2>4
<1>4. CASE Intact /\ (Journals \/ Commit)
  <2>1. CASE Journals
    <3>1. PICK record : Journalled(record)
      BY <1>0, <2>1, JournalStep
    <3>2. nextId' = nextId + 1 /\ Len(ingress') = Len(ingress) + 1
      BY <3>1, JournalGrows DEF Journalled
    <3> QED
      BY <1>0, <1>4, <3>2 DEF Intact
  <2>2. CASE Commit
    <3>1. UNCHANGED <<nextId, ingress>>
      BY <2>2 DEF Commit, journal
    <3> QED
      BY <1>4, <3>1 DEF Intact
  <2> QED
    BY <1>4, <2>1, <2>2
<1>5. CASE Aborts
  <2>1. nextId' = saved.nextId /\ Len(ingress') = saved.ingress
    BY <1>5, QueueTypes DEF Aborts, AbortBoundary, RestoreEvidence
  <2>2. ~WasIntact
    BY <2>1 DEF WasIntact, Intact
  <2>3. Trace(saved.ingress, saved.attempts)
    BY <1>5, <2>2 DEF TraceInv, Aborts
  <2>4. \A a \in 1 .. saved.attempts : attempts'[a] = attempts[a] /\ a \in DOMAIN attempts'
    BY <1>5, AbortCuts, AttemptBounds
  <2>5. \A i \in 1 .. saved.ingress : ingress'[i] = ingress[i] /\ i \in DOMAIN ingress'
    BY <1>5, AbortCuts
  <2> QED
    BY <2>3, <2>4, <2>5 DEF Trace, FromReactor
<1> QED
  BY <1>2, <1>3, <1>4, <1>5, FourCases

\* So does what tells of those before the running boundary.
LEMMA TraceBack ==
  ASSUME TypeInv, EventInv, QueueInv, TraceInv, [Next]_vars, InBoundary', ~WasIntact'
  PROVE  Trace(saved.ingress, saved.attempts)'
<1>1. CASE /\ InBoundary /\ UNCHANGED saved /\ WasIntact' = WasIntact
           /\ \A i \in 1 .. saved.ingress : ingress'[i] = ingress[i]
           /\ \A a \in 1 .. saved.attempts : attempts'[a] = attempts[a]
  BY <1>1 DEF TraceInv, Trace, FromReactor
<1>2. CASE /\ Opens /\ UNCHANGED <<ingress, attempts>> /\ WasIntact' = Intact
  BY <1>2 DEF Opens, TraceInv, Trace, FromReactor
<1> QED
  BY <1>1, <1>2, BoundaryFrame DEF QueueInv

\* Of a batch, only reactors issue packets.
LEMMA TraceBatch ==
  ASSUME TypeInv, EventInv, QueueInv, TraceInv, [Next]_vars, InBatch',
         batch'.nextId < nextId'
  PROVE  \E i \in DOMAIN ingress' : FromReactor(i)'
<1>0. /\ nextId \in Nat /\ nextId' \in Nat /\ TodoInv /\ GapInv
  BY TypeStep DEF QueueInv, TypeInv, TypeOK
<1>1. CASE Runs
  <2>1. /\ nextId' <= nextId /\ UNCHANGED ingress
        /\ (InBatch /\ batch' = batch) \/ batch'.nextId = nextId
    BY <1>0, <1>1, CounterRuns, RunsFrame DEF Frame
  <2>2. InBatch /\ batch.nextId < nextId
    <3>1. batch.nextId \in Nat
      BY CheckpointTypes
    <3> QED
      BY <1>0, <2>1, <3>1
  <2> QED
    BY <2>1, <2>2 DEF TraceInv, FromReactor
<1>2. CASE Journals
  <2>1. PICK record : Journalled(record) /\ (pc # "idle" /\ ~ByReactor(record) => ~Early)
    BY <1>0, <1>2, JournalStep
  <2>2. UNCHANGED pc /\ run'.caller = run.caller
    BY <1>0, <1>2, JournalStep
  <2>3. ByReactor(record)
    BY <2>1, <2>2 DEF InBatch, Early
  <2>4. Len(ingress) + 1 \in DOMAIN ingress' /\ ingress'[Len(ingress) + 1] = record
    BY <2>1, JournalGrows DEF Journalled
  <2> QED
    BY <2>3, <2>4 DEF FromReactor
<1>3. CASE Aborts \/ Commit
  <2>1. Return
    BY <1>3 DEF Aborts, AbortBoundary, Commit
  <2> QED
    BY <2>1, ReturnLocals
<1> QED
  BY <1>1, <1>2, <1>3, FourCases

\* Together.
LEMMA TraceStep ==
  ASSUME TypeInv, EventInv, QueueInv, TraceInv, [Next]_vars
  PROVE  TraceInv'
BY TraceNow, TraceBack, TraceBatch DEF TraceInv

\* What is said of the journal on top of what is said of the queue.
ReadInv == CutsInv /\ AnswerInv /\ ReplayInv /\ TraceInv

\* Initially there is nothing to read.
LEMMA ReadInit == Init => ReadInv
<1> SUFFICES ASSUME Init PROVE ReadInv
  OBVIOUS
<1>1. /\ ingress = <<>> /\ attempts = <<>> /\ boundaries = <<>> /\ pc = "idle"
      /\ run.taken = {} /\ run.admitted = <<>> /\ now = 0 /\ nextId = 1
  BY DEF Init, Call
<1>2. /\ DOMAIN ingress = {} /\ Len(ingress) = 0 /\ DOMAIN boundaries = {}
      /\ DOMAIN attempts = {} /\ Len(attempts) = 0 /\ 1 .. 0 = {} /\ DOMAIN run.admitted = {}
  BY <1>1
<1>3. ~InBoundary /\ ~InBatch /\ Intact
  BY <1>1, <1>2 DEF InBoundary, InBatch, Intact
<1>4. CutsInv
  BY <1>2, <1>3 DEF CutsInv, InOrder, Ordered, Stamped, Past, CutAt
<1>5. Answered \cup Elements(run.admitted) = {}
  BY <1>2 DEF Answered, Elements
<1>6. Given(DOMAIN attempts) = Asked(Answered \cup Elements(run.admitted))
  BY <1>2, <1>5 DEF Given, Asked
<1>7. AnswerInv
  BY <1>2, <1>3, <1>6 DEF AnswerInv, AnswerNow, Answering
<1>8. ReplayInv
  BY <1>1, <1>2, <1>3 DEF ReplayInv, Replaying, Sorted
<1>9. TraceInv
  BY <1>3 DEF TraceInv
<1> QED
  BY <1>4, <1>7, <1>8, <1>9 DEF ReadInv

\* Issue cuts and issue times.
LEMMA CutsFollow ==
  ASSUME TypeInv, CutsInv, Intact
  PROVE  IssueCuts
<1>1. /\ DOMAIN ingress = 1 .. Len(ingress) /\ Len(boundaries) \in Nat
      /\ saved.ingress \in Nat
  BY QueueTypes
<1>2. ASSUME NEW i \in DOMAIN ingress, ~FromReactor(i)
      PROVE  ingress[i].eligible <= Len(boundaries) + (IF pc = "idle" THEN 0 ELSE 1)
  <2>1. ingress[i].eligible \in Nat
    BY QueueTypes
  <2>2. CASE InBoundary
    <3>1. pc # "idle" /\ CutAt(saved.ingress)
      BY <2>2 DEF CutsInv, InBoundary
    <3> QED
      BY <1>1, <1>2, <2>1, <3>1 DEF CutAt
  <2>3. CASE ~InBoundary
    <3>1. CutAt(Len(ingress))
      BY <2>3 DEF CutsInv
    <3>2. ingress[i].eligible <= Len(boundaries)
      BY <1>1, <1>2, <3>1 DEF CutAt
    <3> QED
      BY <1>1, <2>1, <3>2
  <2> QED
    BY <2>2, <2>3
<1>3. Ordered(Len(ingress)) /\ Stamped(Len(ingress))
  BY DEF CutsInv, InOrder
<1> QED
  BY <1>1, <1>2, <1>3 DEF Ordered, Stamped, IssueCuts

\* Requests are answered by one attempt, or not yet.
LEMMA AnswersFollow ==
  ASSUME TypeInv, QueueInv, AnswerInv, Intact
  PROVE  AnsweredOnce
<1> DEFINE answers(i) == {a \in DOMAIN attempts :
                            attempts[a].request = ingress[i].body.request}
           done == Answered \cup Elements(run.admitted)
<1>1. done \subseteq DOMAIN ingress
  BY FateTypes
<1>0. Answering(DOMAIN ingress, DOMAIN attempts, done)
  BY DEF AnswerInv, AnswerNow
<1>2. ASSUME NEW i \in DOMAIN ingress, IsCommand(i)
      PROVE  /\ Cardinality(answers(i))
                  = (IF Admitted(i) \/ i \in Elements(run.admitted) THEN 1 ELSE 0)
             /\ \A a \in answers(i) : attempts[a].at = ingress[i].due
  <2>1. Admitted(i) \/ i \in Elements(run.admitted) <=> i \in done
    BY DEF Admitted, Answered
  <2> HIDE DEF done
  <2>2. Given(DOMAIN attempts) = Asked(done)
    BY <1>0 DEF Answering
  <2>3. CASE i \in done
    <3>1. ingress[i].body.request \in Given(DOMAIN attempts)
      BY <1>2, <2>2, <2>3 DEF Asked
    <3>2. PICK a \in DOMAIN attempts : attempts[a].request = ingress[i].body.request
      BY <3>1 DEF Given
    <3>3. answers(i) = {a}
      BY <1>0, <3>2 DEF Answering
    <3> QED
      BY <1>0, <1>2, <2>1, <2>3, <3>2, <3>3, FS_Singleton DEF Answering
  <2>4. CASE i \notin done
    <3>1. answers(i) = {}
      <4> SUFFICES ASSUME NEW a \in DOMAIN attempts,
                          attempts[a].request = ingress[i].body.request
                   PROVE  FALSE
        OBVIOUS
      <4>1. attempts[a].request \in Asked(done)
        BY <2>2 DEF Given
      <4>2. PICK j \in done : IsCommand(j) /\ ingress[j].body.request = attempts[a].request
        BY <4>1 DEF Asked
      <4>3. j = i
        BY <1>0, <1>1, <1>2, <4>2 DEF Answering
      <4> QED
        BY <2>4, <4>2, <4>3
    <3> QED
      BY <2>1, <2>4, <3>1, FS_EmptySet
  <2> QED
    BY <2>3, <2>4
<1> QED
  BY <1>2 DEF AnsweredOnce, IsCommand

\* What the boundaries admitted, and what is queued between calls.
LEMMA ReplayFollows ==
  ASSUME TypeInv, QueueInv, CutsInv, ReplayInv, Intact
  PROVE  JournalReplays
<1>1. ASSUME pc = "idle"
      PROVE  {k \in pending : ~FromReactor(k.id)}
               = {QueueKey(ingress[i]) : i \in QueueAt(Len(boundaries) + 1)}
  <2>1. QueueAt(Len(boundaries) + 1) = {i \in Ids(pending) : ~FromReactor(i)}
    <3>1. \E b : b = Len(boundaries) + 1
      OBVIOUS
    <3> QED
      BY <1>1, <3>1, QueueIdle
  <2>2. \A k \in pending : k = QueueKey(ingress[k.id])
    BY DEF QueueInv, RecordsInv, KeyInv, Stands
  <2>3. {k \in pending : ~FromReactor(k.id)}
          = {QueueKey(ingress[i]) : i \in {j \in Ids(pending) : ~FromReactor(j)}}
    BY <2>2 DEF Ids
  <2> QED
    BY <2>1, <2>3
<1> QED
  BY <1>1 DEF ReplayInv, Replayed, Sorted, JournalReplays

\* Where the journal is intact it can be read back, whatever calls fail and are rolled
\* back: identifiers are positions, issue cuts and times grow, a request is answered
\* once and when it is due, and what each boundary admitted, and in which order, and
\* what is still queued is what a reader of the journal computes.  Where it is not,
\* the journal tells of the refused call.
THEOREM JournalKept == Spec => []JournalSound
<1>1. TypeInv /\ QueueInv /\ ReadInv => JournalSound
  <2> SUFFICES ASSUME TypeInv, QueueInv, ReadInv PROVE JournalSound
    OBVIOUS
  <2>1. CASE Intact
    BY <2>1, CutsFollow, AnswersFollow, ReplayFollows DEF ReadInv, JournalSound, QueueInv,
       RecordsInv
  <2>2. CASE ~Intact
    BY <2>2, AttemptBounds, QueueTypes DEF ReadInv, TraceInv, Trace, JournalSound
  <2> QED
    BY <2>1, <2>2
<1>2. TypeInv /\ EventInv /\ QueueInv /\ ReadInv /\ [Next]_vars => ReadInv'
  BY CutsStep, AnswerStep, ReplayStep, TraceStep DEF ReadInv, QueueInv
<1>3. TypeInv /\ EventInv /\ QueueInv /\ [Next]_vars => QueueInv'
  BY QueueStep
<1>4. Init => EventInv
  BY EventInit
<1>5. Spec => [](TypeInv /\ EventInv /\ QueueInv /\ ReadInv)
  BY <1>2, <1>3, <1>4, QueueInit, ReadInit, TypeInit, TypeStep, EventStep, PTL DEF Spec
<1> QED
  BY <1>1, <1>5, PTL

-----------------------------------------------------------------------------
(* What the host sees. *)

\* The length of the journal the host sees, and what the ledger makes of it.
HostLength == IF InBoundary THEN saved.ingress ELSE Len(ingress)
HostIssued == [i \in DOMAIN Committed |-> Entry(ingress[i])]
HostSettled == [b \in DOMAIN boundaries |-> Elements(boundaries[b].admitted)]
HostWithdrawn == IF InBoundary THEN saved.cancelled ELSE cancelled
HostIntact == IF InBoundary THEN saved.nextId = saved.ingress + 1 ELSE Intact

\* An entry of the ledger.
Entries == {Entry(record) : record \in IngressRecord}

\* What the ledger makes of the first n records of a journal.
LEMMA JournalView ==
  ASSUME NEW seq \in Seq(IngressRecord), NEW n \in Nat, n <= Len(seq),
         NEW view, view = [i \in DOMAIN SubSeq(seq, 1, n) |-> Entry(seq[i])]
  PROVE  /\ view \in Seq(Entries) /\ Len(view) = n /\ DOMAIN view = 1 .. n
         /\ \A i \in 1 .. n : view[i] = Entry(seq[i])
<1>1. DOMAIN SubSeq(seq, 1, n) = 1 .. n
  OBVIOUS
<1>2. \A i \in 1 .. n : seq[i] \in IngressRecord
  OBVIOUS
<1>3. DOMAIN view = 1 .. n /\ \A i \in 1 .. n : view[i] = Entry(seq[i])
  BY <1>1
<1>4. view \in [1 .. n -> Entries]
  BY <1>1, <1>2 DEF Entries
<1>5. view \in Seq(Entries)
  BY <1>4
<1>6. Len(view) \in Nat /\ DOMAIN view = 1 .. Len(view)
  BY <1>5, LenProperties
<1>7. Len(view) = n
  BY <1>3, <1>6
<1> QED
  BY <1>3, <1>5, <1>7

\* What the host sees of the journal.
LEMMA HostView ==
  ASSUME TypeInv
  PROVE  /\ HostLength \in Nat /\ HostLength <= Len(ingress)
         /\ HostIssued \in Seq(Entries) /\ Len(HostIssued) = HostLength
         /\ DOMAIN HostIssued = 1 .. HostLength
         /\ \A i \in 1 .. HostLength : HostIssued[i] = Entry(ingress[i])
<1>1. ingress \in Seq(IngressRecord) /\ HostLength \in Nat /\ HostLength <= Len(ingress)
  BY QueueTypes DEF HostLength
<1>2. HostIssued = [i \in DOMAIN SubSeq(ingress, 1, HostLength) |-> Entry(ingress[i])]
  BY DEF HostIssued, HostLength, Committed
<1> QED
  BY <1>1, <1>2, JournalView

\* What it sees next.
LEMMA HostViewNext ==
  ASSUME TypeInv'
  PROVE  /\ HostLength' \in Nat /\ HostLength' <= Len(ingress')
         /\ HostIssued' \in Seq(Entries) /\ Len(HostIssued') = HostLength'
         /\ DOMAIN HostIssued' = 1 .. HostLength'
         /\ \A i \in 1 .. HostLength' : HostIssued'[i] = Entry(ingress'[i])
<1>1. ingress' \in Seq(IngressRecord) /\ HostLength' \in Nat /\ HostLength' <= Len(ingress')
  <2>1. (TypeOK /\ CheckpointInv)'
    BY DEF TypeInv
  <2>2. ingress' \in Seq(IngressRecord) /\ saved' \in Full /\ saved'.ingress <= Len(ingress')
    BY <2>1 DEF TypeOK, CheckpointInv
  <2>3. saved'.ingress \in Nat /\ Len(ingress') \in Nat
    BY <2>2 DEF Full
  <2>4. HostLength' = saved'.ingress \/ HostLength' = Len(ingress')
    BY DEF HostLength
  <2> QED
    BY <2>2, <2>3, <2>4
<1>2. PICK seq, n, view : seq = ingress' /\ n = HostLength' /\ view = HostIssued'
  OBVIOUS
<1>3. view = [i \in DOMAIN SubSeq(seq, 1, n) |-> Entry(seq[i])]
  BY <1>2 DEF HostIssued, HostLength, Committed
<1>4. /\ view \in Seq(Entries) /\ Len(view) = n /\ DOMAIN view = 1 .. n
      /\ \A i \in 1 .. n : view[i] = Entry(seq[i])
  <2>1. seq \in Seq(IngressRecord) /\ n \in Nat /\ n <= Len(seq)
    BY <1>1, <1>2
  <2> QED
    BY <1>3, <2>1, JournalView
<1> QED
  BY <1>1, <1>2, <1>4

\* The host sees nothing change.
LEMMA HostStill ==
  ASSUME TypeInv, TypeInv', HostLength' = HostLength,
         \A i \in 1 .. HostLength : ingress'[i] = ingress[i],
         UNCHANGED boundaries, HostWithdrawn' = HostWithdrawn
  PROVE  UNCHANGED <<HostIssued, HostSettled, HostWithdrawn>>
<1>1. HostIssued' = HostIssued
  <2>1. \A i \in 1 .. HostLength : HostIssued'[i] = HostIssued[i]
    BY HostView, HostViewNext
  <2> QED
    BY <2>1, HostView, HostViewNext, SeqEqual
<1>2. HostSettled' = HostSettled
  BY DEF HostSettled
<1> QED
  BY <1>1, <1>2

\* The ledger stutters when the host sees nothing change.
LEMMA LedgerStill ==
  ASSUME UNCHANGED <<HostIssued, HostSettled, HostWithdrawn, CommittedTime>>,
         HostIntact' = HostIntact
  PROVE  UNCHANGED Ledger!ledger
BY DEF Ledger!ledger, HostIssued, HostSettled, HostWithdrawn, HostIntact

\* The journal grows, in the terms of the ledger.
LEMMA LedgerGrows ==
  ASSUME NEW t, NEW gone,
         Len(HostIssued') >= Len(HostIssued),
         SubSeq(HostIssued', 1, Len(HostIssued)) = HostIssued,
         \A i \in Len(HostIssued) + 1 .. Len(HostIssued') :
            IF HostIssued'[i].target = 0 THEN HostIssued'[i].due >= t \/ HostIssued'[i].loose
            ELSE /\ HostIssued'[i].target \in 1 .. i - 1 \ (HostWithdrawn \cup gone)
                 /\ HostIssued'[HostIssued'[i].target].due > t,
         HostWithdrawn' = HostWithdrawn \cup
            ({HostIssued'[i].target : i \in Len(HostIssued) + 1 .. Len(HostIssued')} \ {0})
  PROVE  Ledger!Grows(t, gone)
BY DEF Ledger!Grows, Ledger!Appended, HostIssued, HostWithdrawn

\* What a journal that grew by some records shows to the host.
LEMMA GrownView ==
  ASSUME TypeInv, TypeInv', HostLength' >= HostLength,
         \A i \in 1 .. HostLength : ingress'[i] = ingress[i]
  PROVE  SubSeq(HostIssued', 1, Len(HostIssued)) = HostIssued
<1>1. /\ HostIssued \in Seq(Entries) /\ HostIssued' \in Seq(Entries)
      /\ Len(HostIssued) = HostLength /\ Len(HostIssued') = HostLength'
      /\ HostLength \in Nat /\ HostLength' \in Nat
  BY HostView, HostViewNext
<1>2. \A i \in 1 .. HostLength : HostIssued'[i] = HostIssued[i]
  BY <1>1, HostView, HostViewNext
<1> DEFINE prefix == SubSeq(HostIssued', 1, HostLength)
<1>3. /\ prefix \in Seq(Entries) /\ Len(prefix) = HostLength
      /\ \A i \in 1 .. HostLength : prefix[i] = HostIssued'[i]
  BY <1>1
<1> HIDE DEF prefix
<1>4. prefix = HostIssued
  BY <1>1, <1>2, <1>3, SeqEqual
<1> QED
  BY <1>1, <1>4 DEF prefix

\* What an entry of the ledger withdraws.
LEMMA EntryTarget ==
  ASSUME NEW record
  PROVE  /\ Entry(record).due = record.due /\ (Entry(record).loose <=> ByReactor(record))
         /\ record.body.kind = "cancel" => Entry(record).target = record.body.target
         /\ record.body.kind # "cancel" => Entry(record).target = 0
BY DEF Entry

\* The targets of the withdrawals are records: none is 0.
LEMMA TargetsAreRecords ==
  ASSUME TypeInv, QueueInv, Intact
  PROVE  \A c \in DOMAIN ingress : ingress[c].body.kind = "cancel" =>
            ingress[c].body.target \in 1 .. c - 1 /\ ingress[c].body.target \in cancelled
<1>1. /\ DOMAIN ingress = 1 .. Len(ingress) /\ Len(ingress) \in Nat
      /\ cancelled \subseteq 1 .. Len(ingress) /\ cancelled = Targets(Len(ingress))
      /\ WithdrawnInTime
  BY QueueTypes DEF QueueInv, RecordsInv, FateInv, Parts, Scheduled, WithdrawalInv
<1> SUFFICES ASSUME NEW c \in DOMAIN ingress, ingress[c].body.kind = "cancel"
             PROVE  /\ ingress[c].body.target \in 1 .. c - 1
                    /\ ingress[c].body.target \in cancelled
  OBVIOUS
<1>2. ingress[c].body.target \in cancelled
  BY <1>1 DEF Targets
<1>3. ingress[c].body.target < c
  BY <1>1 DEF WithdrawnInTime
<1> QED
  BY <1>1, <1>2, <1>3

\* The records that wait for their boundary are those the journal has scheduled, and
\* no boundary admitted and nothing withdrew.
LEMMA OpenRecords ==
  ASSUME TypeInv, QueueInv, Intact, NEW P,
         Parts(Scheduled(HostLength), P, {}, {}, Answered, HostWithdrawn)
  PROVE  Ledger!Open = P
<1>1. /\ DOMAIN HostIssued = 1 .. HostLength /\ HostLength \in Nat
      /\ HostLength <= Len(ingress) /\ DOMAIN ingress = 1 .. Len(ingress)
      /\ \A i \in 1 .. HostLength : HostIssued[i] = Entry(ingress[i])
  BY HostView, QueueTypes
<1>2. Ledger!Open = {i \in DOMAIN HostIssued :
          /\ HostIssued[i].target = 0
          /\ i \notin HostWithdrawn
          /\ \A b \in DOMAIN HostSettled : i \notin HostSettled[b]}
  BY DEF Ledger!Open, HostIssued, HostSettled, HostWithdrawn
<1>3. \A i \in 1 .. HostLength : HostIssued[i].target = 0 <=> ingress[i].body.kind # "cancel"
  <2> SUFFICES ASSUME NEW i \in 1 .. HostLength
               PROVE  HostIssued[i].target = 0 <=> ingress[i].body.kind # "cancel"
    OBVIOUS
  <2>1. ingress[i].body.kind = "cancel" => ingress[i].body.target \in 1 .. i - 1
    BY <1>1, TargetsAreRecords
  <2>2. 0 \notin 1 .. i - 1
    BY <1>1
  <2> QED
    BY <1>1, <2>1, <2>2, EntryTarget
<1>4. \A i : (\A b \in DOMAIN HostSettled : i \notin HostSettled[b]) <=> i \notin Answered
  BY DEF HostSettled, Answered
<1>5. Ledger!Open = {i \in Scheduled(HostLength) : i \notin HostWithdrawn /\ i \notin Answered}
  BY <1>1, <1>2, <1>3, <1>4 DEF Scheduled
<1> QED
  BY <1>5 DEF Parts

-----------------------------------------------------------------------------
(* The steps of the kernel as steps of the ledger. *)

\* The committed time: that of the open checkpoint, or the clock.
LEMMA CommittedTimes ==
  /\ InBoundary => CommittedTime = saved.now
  /\ ~InBoundary /\ pc \in {"scheduled", "apply"} => CommittedTime = batch.now
  /\ ~InBoundary /\ pc \notin {"scheduled", "apply"} => CommittedTime = now
BY DEF CommittedTime

\* The committed time after a step.
LEMMA CommittedTimesNext ==
  /\ InBoundary' => CommittedTime' = saved'.now
  /\ ~InBoundary' /\ pc' \in {"scheduled", "apply"} => CommittedTime' = batch'.now
  /\ ~InBoundary' /\ pc' \notin {"scheduled", "apply"} => CommittedTime' = now'
BY DEF CommittedTime

\* Outside a boundary only these steps move the committed time.
LEMMA ClockRuns ==
  ASSUME TypeInv, EventInv, QueueInv, Runs, ~InBoundary, ~InBoundary'
  PROVE  CommittedTime' = CommittedTime \/ FinishAdvance \/ EndScheduled
<1>0. CallInv /\ run \in CallState
  BY DEF TypeInv, TypeOK
<1>1. CASE UNCHANGED vars
  BY <1>1, CommittedTimes, CommittedTimesNext DEF vars, control
<1>2. CASE Begins
  <2>1. PICK at \in Nat : BeginAdvance(at) \/ BeginBoundary(at)
    BY <1>2 DEF Begins
  <2>2. pc = "idle" /\ pc' = "advance" /\ UNCHANGED now
    BY <2>1 DEF BeginAdvance, BeginBoundary
  <2> QED
    BY <2>2, CommittedTimes, CommittedTimesNext
<1>3. CASE RollBackBatch
  <2>1. pc = "apply" /\ now' = batch.now /\ pc' = "idle"
    BY <1>3 DEF RollBackBatch, RestorePartial, Refused, TooDeep, Applying, Return
  <2> QED
    BY <2>1, CommittedTimes, CommittedTimesNext
<1>4. CASE BeginBatch
  <2>1. pc = "advance" /\ pc' = "scheduled" /\ batch'.now = now
    BY <1>4 DEF BeginBatch, PartialCheckpoint
  <2> QED
    BY <2>1, CommittedTimes, CommittedTimesNext
<1>5. CASE RunScheduled \/ ApplySchedule \/ Emits
  <2>1. pc \in {"scheduled", "apply"} /\ pc' = "apply" /\ UNCHANGED batch
    BY <1>5 DEF RunScheduled, ApplySchedule, Emits, ApplyEmit, Applying
  <2> QED
    BY <2>1, CommittedTimes, CommittedTimesNext
<1>6. CASE EndApply
  <2>1. run.caller # "command"
    BY <1>0, <1>6 DEF EndApply, CallInv, InBoundary
  <2>2. pc = "apply" /\ pc' = "scheduled" /\ UNCHANGED batch
    BY <1>6, <2>1 DEF EndApply
  <2> QED
    BY <2>2, CommittedTimes, CommittedTimesNext
<1>7. CASE \/ TakeDueIngress \/ AdmitPacket \/ RejectCommand \/ EndAdmission \/ Commands
           \/ RollBackCommand \/ SystemSpeaks
  <2>1. InBoundary
    BY <1>0, <1>7 DEF TakeDueIngress, AdmitPacket, RejectCommand, EndAdmission, Commands,
       BeginCommand, RollBackCommand, Refused, Applying, SystemSpeaks, SystemEmits, CallInv,
       InBoundary
  <2> QED
    BY <2>1
<1> QED
  BY <1>1, <1>2, <1>3, <1>4, <1>5, <1>6, <1>7 DEF Runs

\* They move it forward, at most to the target of the call.
LEMMA PassingTimes ==
  ASSUME TypeInv, EventInv, ~InBoundary, ~InBoundary', FinishAdvance \/ EndScheduled
  PROVE  /\ CommittedTime' \in Nat /\ CommittedTime' <= run.goal
         /\ CommittedTime \in Nat /\ CommittedTime' >= CommittedTime
         /\ pc # "idle" /\ ~run.canonical /\ (pc = "advance" \/ InBatch)
<1>0. /\ CallInv /\ now \in Nat /\ run.goal \in Nat /\ batch.now \in Nat
  BY DueTypes DEF TypeInv
<1>1. pc # "idle" /\ ~run.canonical /\ (pc = "advance" \/ InBatch)
  BY <1>0 DEF FinishAdvance, EndScheduled, InBoundary, CallInv, InBatch
<1>2. CASE FinishAdvance
  <2>1. CommittedTime = now /\ CommittedTime' = run.goal
    BY <1>2, CommittedTimes, CommittedTimesNext DEF FinishAdvance, Return
  <2> QED
    BY <1>0, <1>1, <2>1, DueTypes
<1>3. CASE EndScheduled
  <2>1. run.caller = "batch" /\ InBatch
    BY <1>0, <1>1, <1>3 DEF EndScheduled, CallInv, InBatch
  <2>2. CommittedTime = batch.now /\ CommittedTime' = now
    BY <1>3, <2>1, CommittedTimes, CommittedTimesNext DEF EndScheduled
  <2> QED
    BY <1>0, <1>1, <2>1, <2>2, DueTypes
<1> QED
  BY <1>2, <1>3

\* What the host sees of the settled boundaries.
LEMMA SettledView ==
  ASSUME TypeInv
  PROVE  /\ HostSettled \in Seq(SUBSET Nat) /\ Len(HostSettled) \in Nat
         /\ Len(HostSettled) = Len(boundaries)
         /\ SubSeq(HostSettled, 1, Len(HostSettled)) = HostSettled
<1>1. /\ DOMAIN boundaries = 1 .. Len(boundaries) /\ Len(boundaries) \in Nat
      /\ \A b \in DOMAIN boundaries : Elements(boundaries[b].admitted) \in SUBSET Nat
  BY QueueTypes DEF Elements
<1>2. HostSettled \in [1 .. Len(boundaries) -> SUBSET Nat]
  BY <1>1 DEF HostSettled
<1> HIDE DEF HostSettled
<1>3. HostSettled \in Seq(SUBSET Nat) /\ Len(HostSettled) = Len(boundaries)
  BY <1>1, <1>2, LenProperties
<1> QED
  BY <1>1, <1>3

\* It grows by what the settled boundary admitted.
LEMMA SettledGrows ==
  ASSUME TypeInv, EventInv, LocalsInv, Commit
  PROVE  /\ HostSettled' = Append(HostSettled, Elements(run.admitted))
         /\ Len(HostSettled') >= Len(HostSettled)
         /\ SubSeq(HostSettled', 1, Len(HostSettled)) = HostSettled
<1> DEFINE S == SUBSET Nat
           gone == Elements(run.admitted)
<1>1. /\ Len(boundaries) \in Nat /\ DOMAIN boundaries = 1 .. Len(boundaries)
      /\ DOMAIN boundaries' = 1 .. Len(boundaries) + 1
      /\ \A b \in 1 .. Len(boundaries) : boundaries'[b] = boundaries[b]
      /\ boundaries'[Len(boundaries) + 1].admitted = run.admitted
  BY CommitGrows
<1>2. gone \in S
  BY QueueTypes DEF Elements
<1>3. HostSettled \in Seq(S) /\ Len(HostSettled) = Len(boundaries)
  BY SettledView
<1>4. /\ DOMAIN HostSettled' = 1 .. Len(boundaries) + 1
      /\ \A b \in 1 .. Len(boundaries) : HostSettled'[b] = HostSettled[b]
      /\ HostSettled'[Len(boundaries) + 1] = gone
  BY <1>1 DEF HostSettled
<1>5. \A b \in 1 .. Len(boundaries) + 1 : b \in 1 .. Len(boundaries) \/ b = Len(boundaries) + 1
  BY <1>1
<1> HIDE DEF S, gone
<1>6. \A b \in 1 .. Len(boundaries) + 1 : HostSettled'[b] \in S
  BY <1>1, <1>2, <1>3, <1>4, <1>5
<1>7. HostSettled' \in [1 .. Len(boundaries) + 1 -> S]
  <2>1. HostSettled' = [b \in 1 .. Len(boundaries) + 1 |-> HostSettled'[b]]
    BY <1>1 DEF HostSettled
  <2> QED
    BY <1>6, <2>1
<1>8. HostSettled' \in Seq(S) /\ Len(HostSettled') = Len(boundaries) + 1
  BY <1>1, <1>4, <1>7, LenProperties
<1> DEFINE longer == Append(HostSettled, gone)
           prefix == SubSeq(HostSettled', 1, Len(HostSettled))
<1>9. /\ longer \in Seq(S) /\ Len(longer) = Len(boundaries) + 1
      /\ \A b \in 1 .. Len(boundaries) : longer[b] = HostSettled[b]
      /\ longer[Len(boundaries) + 1] = gone
  BY <1>2, <1>3
<1>10. /\ prefix \in Seq(S) /\ Len(prefix) = Len(boundaries)
       /\ \A b \in 1 .. Len(boundaries) : prefix[b] = HostSettled'[b]
  BY <1>1, <1>3, <1>8
<1> HIDE DEF longer, prefix
<1>11. \A b \in 1 .. Len(boundaries) + 1 : HostSettled'[b] = longer[b]
  BY <1>4, <1>5, <1>9
<1>12. HostSettled' = longer
  BY <1>8, <1>9, <1>11, SeqEqual
<1>13. prefix = HostSettled
  BY <1>3, <1>4, <1>10, SeqEqual
<1> QED
  BY <1>1, <1>3, <1>8, <1>12, <1>13 DEF longer, prefix, gone
\* No step takes back the committed time.
LEMMA ClockGrows ==
  ASSUME TypeInv, EventInv, QueueInv, [Next]_vars
  PROVE  CommittedTime' >= CommittedTime
<1>0. /\ now \in Nat /\ run.goal \in Nat /\ saved.now \in Nat /\ batch.now \in Nat
      /\ TodoInv /\ LocalsInv
  BY DueTypes DEF QueueInv
<1>1. CommittedTime \in Nat
  BY <1>0, CommittedTimes
<1>2. CASE Runs /\ (InBoundary \/ InBoundary')
  <2>1. CommittedTime' = CommittedTime
    BY <1>2, RunsFrame, CommittedTimes, CommittedTimesNext DEF Frame, Opens
  <2> QED
    BY <1>1, <2>1
<1>3. CASE Runs /\ ~InBoundary /\ ~InBoundary'
  BY <1>1, <1>3, ClockRuns, PassingTimes
<1>4. CASE Journals
  <2>1. UNCHANGED <<now, pc, saved, batch>> /\ run'.canonical = run.canonical
    BY <1>0, <1>4, JournalStep
  <2>2. CommittedTime' = CommittedTime
    BY <2>1, CommittedTimes, CommittedTimesNext DEF InBoundary
  <2> QED
    BY <1>1, <2>2
<1>5. CASE Aborts
  <2>1. CommittedTime' = CommittedTime
    BY <1>5, AbortCuts, CommittedTimes, CommittedTimesNext
  <2> QED
    BY <1>1, <2>1
<1>6. CASE Commit
  <2>1. CommittedTime = saved.now /\ CommittedTime' = run.goal /\ saved.now <= run.goal
    BY <1>0, <1>6, CommitGrows, DueTypes, CommittedTimes, CommittedTimesNext
  <2> QED
    BY <1>0, <2>1
<1> QED
  BY <1>2, <1>3, <1>4, <1>5, <1>6, FourCases

\* No step takes back a record, a boundary or a withdrawal the host has seen.
LEMMA NothingTaken ==
  ASSUME TypeInv, TypeInv', EventInv, QueueInv, [Next]_vars
  PROVE  /\ HostLength' >= HostLength /\ HostWithdrawn \subseteq HostWithdrawn'
         /\ SubSeq(HostIssued', 1, Len(HostIssued)) = HostIssued
         /\ Len(HostSettled') >= Len(HostSettled)
         /\ SubSeq(HostSettled', 1, Len(HostSettled)) = HostSettled
<1>0. /\ TodoInv /\ LocalsInv /\ GapInv
      /\ saved.ingress \in Nat /\ saved.ingress <= Len(ingress) /\ Len(ingress) \in Nat
  BY QueueTypes DEF QueueInv
<1>1. CASE ~Commit
  <2>1. /\ UNCHANGED boundaries
        /\ HostLength' >= HostLength /\ HostWithdrawn \subseteq HostWithdrawn'
        /\ \A i \in 1 .. HostLength : ingress'[i] = ingress[i]
    <3>1. CASE Runs
      BY <1>0, <3>1, RunsFrame DEF Frame, Opens, HostLength, HostWithdrawn
    <3>2. CASE Journals
      <4>1. /\ UNCHANGED <<boundaries, pc, saved>> /\ cancelled \subseteq cancelled'
            /\ run'.canonical = run.canonical
        BY <1>0, <3>2, JournalStep
      <4>2. PICK record : ingress' = Append(ingress, record)
        BY <1>0, <3>2, JournalStep DEF Journalled
      <4>3. /\ Len(ingress') = Len(ingress) + 1
            /\ \A i \in 1 .. Len(ingress) : ingress'[i] = ingress[i]
        BY <4>2, JournalGrows
      <4> QED
        BY <1>0, <4>1, <4>3 DEF HostLength, HostWithdrawn, InBoundary
    <3>3. CASE Aborts
      BY <1>0, <3>3, AbortCuts DEF HostLength, HostWithdrawn
    <3> QED
      BY <1>1, <3>1, <3>2, <3>3, FourCases
  <2>2. SubSeq(HostIssued', 1, Len(HostIssued)) = HostIssued
    BY <2>1, GrownView
  <2>3. UNCHANGED HostSettled
    BY <2>1 DEF HostSettled
  <2>4. Len(HostSettled) \in Nat /\ SubSeq(HostSettled, 1, Len(HostSettled)) = HostSettled
    BY SettledView
  <2> QED
    BY <2>1, <2>2, <2>3, <2>4
<1>2. CASE Commit
  <2>1. HostLength = saved.ingress /\ HostLength' = Len(ingress) /\ UNCHANGED ingress
    BY <1>0, <1>2, CommitGrows DEF HostLength
  <2>2. HostWithdrawn \subseteq HostWithdrawn'
    BY <1>0, <1>2, CommitGrows DEF GapInv, HostWithdrawn
  <2>3. SubSeq(HostIssued', 1, Len(HostIssued)) = HostIssued
    BY <1>0, <2>1, GrownView
  <2> QED
    BY <1>0, <1>2, <2>1, <2>2, <2>3, SettledGrows
<1> QED
  BY <1>1, <1>2

\* Once a refused call left a packet behind, the host is promised no more than that.
LEMMA LedgerBroken ==
  ASSUME TypeInv, TypeInv', EventInv, QueueInv, [Next]_vars, ~HostIntact'
  PROVE  Ledger!Broken
<1>1. Len(HostIssued') >= Len(HostIssued)
  BY NothingTaken, HostView, HostViewNext
<1> QED
  BY <1>1, NothingTaken, ClockGrows
  DEF Ledger!Broken, Ledger!Appended, HostIssued, HostSettled, HostWithdrawn, HostIntact

\* A boundary that fails leaves the journal as intact as it found it.
LEMMA AbortIntact ==
  ASSUME TypeInv, Aborts
  PROVE  Intact' <=> WasIntact
<1>1. nextId' = saved.nextId /\ Len(ingress') = saved.ingress
  BY QueueTypes DEF Aborts, AbortBoundary, RestoreEvidence
<1> QED
  BY <1>1 DEF Intact, WasIntact

\* Where the host is promised all, it was before.
LEMMA HostIntactBefore ==
  ASSUME TypeInv, EventInv, QueueInv, [Next]_vars, HostIntact'
  PROVE  /\ HostIntact
         /\ (Journals \/ Commit \/ Runs) /\ ~InBoundary' => Intact
<1>0. TodoInv /\ GapInv /\ LocalsInv
  BY DEF QueueInv
<1>1. HostIntact <=> (IF InBoundary THEN WasIntact ELSE Intact)
  BY DEF HostIntact, WasIntact
<1>2. HostIntact' <=> (IF InBoundary' THEN WasIntact' ELSE Intact')
  BY DEF HostIntact, WasIntact
<1>3. CASE InBoundary'
  <2>1. WasIntact'
    BY <1>2, <1>3
  <2>2. (InBoundary /\ WasIntact' = WasIntact) \/ (~InBoundary /\ WasIntact' = Intact)
    BY <1>0, <1>3, BoundaryFrame
  <2> QED
    BY <1>1, <1>3, <2>1, <2>2
<1>4. CASE ~InBoundary'
  <2>1. Intact'
    BY <1>2, <1>4
  <2>2. Aborts => WasIntact
    BY <1>0, <2>1, AbortIntact
  <2>3. Runs \/ Journals \/ Commit => Intact
    BY <1>0, <2>1, IntactBefore
  <2>4. Intact /\ InBoundary => WasIntact
    BY <1>0, IntactSaved
  <2>5. Aborts => InBoundary
    BY DEF Aborts
  <2> QED
    BY <1>1, <1>4, <2>2, <2>3, <2>4, <2>5, FourCases
<1> QED
  BY <1>3, <1>4


\* The host submits what is journalled between calls, and what the reactors of an
\* advance issue.
LEMMA LedgerSubmit ==
  ASSUME TypeInv, TypeInv', EventInv, QueueInv, Journals, ~InBoundary, Intact
  PROVE  Ledger!Submit
<1>0. TodoInv /\ CallInv
  BY DEF QueueInv, TypeInv
<1>1. UNCHANGED <<now, boundaries, pc, batch>> /\ run'.canonical = run.canonical
  BY <1>0, JournalStep
<1>2. ~InBoundary'
  BY <1>1 DEF InBoundary
<1>3. /\ CommittedTime' = CommittedTime /\ HostSettled' = HostSettled
      /\ pc = "idle" => CommittedTime = now
  BY <1>1, <1>2, CommittedTimes, CommittedTimesNext DEF HostSettled
<1>4. PICK n \in Nat : n = Len(ingress)
  BY QueueTypes
<1>5. /\ Len(HostIssued) = n /\ Len(HostIssued') = Len(ingress')
      /\ \A i \in 1 .. n : HostIssued[i] = Entry(ingress[i])
      /\ \A i \in 1 .. Len(ingress') : HostIssued'[i] = Entry(ingress'[i])
      /\ HostWithdrawn = cancelled /\ HostWithdrawn' = cancelled'
      /\ HostLength = n /\ HostLength' = Len(ingress')
  BY <1>2, <1>4, HostView, HostViewNext DEF HostLength, HostWithdrawn
<1>6. \E record : \/ Pushed(record)
                  \/ pc = "idle" /\ \E key \in pending : Withdrawn(key, record)
  <2>1. SystemIssues \/ SystemWithdraws => InBoundary
    BY <1>0 DEF SystemIssues, SystemSchedules, SystemWithdraws, SystemCancels, CallInv,
       InBoundary
  <2>2. Withdraw => pc = "idle"
    BY DEF Withdraw, CancelPlugin
  <2> QED
    BY <1>0, <2>1, <2>2, IssuesPush, WithdrawsPush DEF Journals
<1>7. PICK record : \/ Pushed(record)
                    \/ pc = "idle" /\ \E key \in pending : Withdrawn(key, record)
  BY <1>6
<1>8. ingress' = Append(ingress, record) /\ Stamp(record)
  BY <1>7 DEF Pushed, Withdrawn
<1>9. /\ Len(ingress') = n + 1 /\ ingress'[n + 1] = record
      /\ \A i \in 1 .. n : ingress'[i] = ingress[i]
  BY <1>4, <1>8, JournalGrows
<1>10. SubSeq(HostIssued', 1, Len(HostIssued)) = HostIssued
  BY <1>5, <1>9, GrownView
<1>11. n + 1 .. n + 1 = {n + 1} /\ HostIssued'[n + 1] = Entry(record)
  BY <1>5, <1>9
<1>12. CASE Pushed(record)
  <2>1. Entry(record).target = 0 /\ cancelled' = cancelled
    BY <1>12, EntryTarget DEF Pushed
  <2>2. Entry(record).due >= CommittedTime \/ Entry(record).loose
    <3>1. CASE pc = "idle"
      BY <1>3, <1>8, <3>1, EntryTarget DEF Stamp
    <3>2. CASE pc # "idle"
      <4>1. ByReactor(record)
        BY <1>0, <1>8, <3>2 DEF Stamp, CallInv, InCommand, InBoundary
      <4> QED
        BY <4>1, EntryTarget
    <3> QED
      BY <3>1, <3>2
  <2>3. Ledger!Grows(CommittedTime, {})
    BY <1>5, <1>9, <1>10, <1>11, <2>1, <2>2, LedgerGrows
  <2> QED
    BY <1>3, <1>5, <1>9, <2>3 DEF Ledger!Submit, HostIssued, HostSettled
<1>13. CASE pc = "idle" /\ \E key \in pending : Withdrawn(key, record)
  <2>0. RecordsInv
    BY DEF QueueInv
  <2>1. PICK key \in pending : Withdrawn(key, record)
    BY <1>13
  <2>2. Entry(record).target = key.id /\ cancelled' = cancelled \cup {key.id}
    BY <2>1, EntryTarget DEF Withdrawn
  <2>3. key.id \in 1 .. n /\ key.id # 0
    BY <1>4, QueueTypes
  <2>4. key.id \notin cancelled
    BY <2>0 DEF RecordsInv, FateInv, Parts, Ids
  <2>5. HostIssued'[key.id].due > CommittedTime
    <3>1. HostIssued'[key.id] = Entry(ingress[key.id])
      BY <1>4, <1>5, <1>9, <2>3
    <3>2. ingress[key.id].due = key.due /\ key.due > now
      BY <2>0, <2>1 DEF RecordsInv, KeyInv, Stands, QueueKey, Withdrawn
    <3> QED
      BY <1>3, <1>13, <3>1, <3>2, EntryTarget
  <2>6. Ledger!Grows(CommittedTime, {})
    <3>1. {HostIssued'[i].target : i \in n + 1 .. n + 1} = {key.id}
      BY <1>11, <2>2
    <3>2. HostWithdrawn' = HostWithdrawn \cup
             ({HostIssued'[i].target : i \in n + 1 .. n + 1} \ {0})
      BY <1>5, <2>2, <2>3, <3>1
    <3>3. \A i \in n + 1 .. n + 1 :
             /\ HostIssued'[i].target # 0
             /\ HostIssued'[i].target \in 1 .. i - 1 \ (HostWithdrawn \cup {})
             /\ HostIssued'[HostIssued'[i].target].due > CommittedTime
      BY <1>5, <1>11, <2>2, <2>3, <2>4, <2>5
    <3> QED
      BY <1>5, <1>9, <1>10, <3>2, <3>3, LedgerGrows
  <2> QED
    BY <1>3, <1>5, <1>9, <2>6 DEF Ledger!Submit, HostIssued, HostSettled
<1> QED
  BY <1>7, <1>12, <1>13

\* What a running boundary journals the host does not see yet.
LEMMA LedgerUnseen ==
  ASSUME TypeInv, TypeInv', EventInv, QueueInv, Journals, InBoundary
  PROVE  UNCHANGED Ledger!ledger
<1>0. TodoInv
  BY DEF QueueInv
<1>1. /\ UNCHANGED <<boundaries, pc, saved>> /\ run'.canonical = run.canonical
  BY <1>0, JournalStep
<1>2. InBoundary'
  BY <1>1 DEF InBoundary
<1>3. /\ CommittedTime' = CommittedTime /\ HostLength' = HostLength
      /\ HostWithdrawn' = HostWithdrawn /\ HostIntact' = HostIntact
  BY <1>1, <1>2, CommittedTimes, CommittedTimesNext
  DEF HostLength, HostWithdrawn, HostIntact
<1>4. \A i \in 1 .. HostLength : ingress'[i] = ingress[i]
  <2>1. PICK record : ingress' = Append(ingress, record)
    BY <1>0, JournalStep DEF Journalled
  <2> QED
    BY <2>1, JournalGrows DEF HostLength
<1> QED
  BY <1>1, <1>3, <1>4, HostStill, LedgerStill

\* Of a boundary that fails the host sees nothing.
LEMMA LedgerAbort ==
  ASSUME TypeInv, TypeInv', Aborts
  PROVE  UNCHANGED Ledger!ledger
<1>1. /\ Len(ingress') = saved.ingress
      /\ \A i \in 1 .. saved.ingress : ingress'[i] = ingress[i] /\ i \in DOMAIN ingress
      /\ UNCHANGED boundaries /\ cancelled' = saved.cancelled /\ now' = saved.now
      /\ InBoundary /\ ~InBoundary' /\ pc' = "idle"
  BY AbortCuts
<1>2. /\ CommittedTime' = CommittedTime /\ HostLength' = HostLength
      /\ HostWithdrawn' = HostWithdrawn
  BY <1>1, CommittedTimes, CommittedTimesNext DEF HostLength, HostWithdrawn
<1>3. HostIntact' = HostIntact
  <2>1. HostIntact' <=> Intact'
    BY <1>1 DEF HostIntact
  <2>2. HostIntact <=> WasIntact
    BY <1>1 DEF HostIntact, WasIntact
  <2>3. HostIntact' <=> HostIntact
    BY <2>1, <2>2, AbortIntact
  <2>4. HostIntact \in BOOLEAN /\ HostIntact' \in BOOLEAN
    BY DEF HostIntact, Intact
  <2> QED
    BY <2>3, <2>4
<1>4. \A i \in 1 .. HostLength : ingress'[i] = ingress[i]
  BY <1>1 DEF HostLength
<1> QED
  BY <1>1, <1>2, <1>3, <1>4, HostStill, LedgerStill

\* The open records, and when they are due: those queued when the boundary began, ...
LEMMA OpenInBoundary ==
  ASSUME TypeInv, QueueInv, InBoundary, Intact
  PROVE  /\ Ledger!Open = Ids(saved.pending)
         /\ \A k \in saved.pending : HostIssued[k.id].due = k.due
         /\ \A k \in saved.pending : ingress[k.id].due = k.due
<1>0. BackInv /\ WasIntact
  BY IntactSaved DEF QueueInv
<1>1. Parts(Scheduled(HostLength), Ids(saved.pending), {}, {}, Answered, HostWithdrawn)
  BY <1>0 DEF BackInv, HostLength, HostWithdrawn
<1>2. ASSUME NEW k \in saved.pending
      PROVE  HostIssued[k.id].due = k.due /\ ingress[k.id].due = k.due
  <2>1. k.id \in 1 .. HostLength
    BY QueueTypes DEF HostLength
  <2>2. ingress[k.id].due = k.due
    BY <1>0 DEF BackInv, Stands, QueueKey
  <2> QED
    BY <2>1, <2>2, HostView, EntryTarget
<1> QED
  BY <1>1, <1>2, OpenRecords

\* ... or those queued, of a call that took nothing.
LEMMA OpenOutside ==
  ASSUME TypeInv, QueueInv, Intact, ~InBoundary, run.taken = {}, run.admitted = <<>>
  PROVE  /\ Ledger!Open = Ids(pending)
         /\ \A k \in pending : /\ HostIssued[k.id].due = k.due
                               /\ HostIssued[k.id].loose <=> FromReactor(k.id)
<1>0. RecordsInv
  BY DEF QueueInv
<1>1. Ids({}) = {} /\ Elements(<<>>) = {}
  BY DEF Ids, Elements
<1>2. Parts(Scheduled(HostLength), Ids(pending), {}, {}, Answered, HostWithdrawn)
  BY <1>0, <1>1 DEF RecordsInv, FateInv, HostLength, HostWithdrawn
<1>3. ASSUME NEW k \in pending
      PROVE  HostIssued[k.id].due = k.due /\ (HostIssued[k.id].loose <=> FromReactor(k.id))
  <2>1. k.id \in 1 .. HostLength
    BY QueueTypes DEF HostLength
  <2>2. ingress[k.id].due = k.due
    BY <1>0 DEF RecordsInv, KeyInv, Stands, QueueKey
  <2> QED
    BY <2>1, <2>2, HostView, EntryTarget DEF FromReactor
<1> QED
  BY <1>2, <1>3, OpenRecords

\* When a call that moves time ends, or one of its batches, time passes over nothing
\* but reactors' packets.
LEMMA LedgerPasses ==
  ASSUME TypeInv, EventInv, QueueInv, Intact, ~InBoundary, ~InBoundary',
         FinishAdvance \/ EndScheduled, HostIntact' = HostIntact,
         UNCHANGED <<HostIssued, HostSettled, HostWithdrawn>>
  PROVE  Ledger!Tick \/ UNCHANGED Ledger!ledger
<1>0. /\ LocalsInv /\ DueInv /\ run.goal \in Nat /\ \A k \in pending : k.due \in Nat
  BY DueTypes DEF QueueInv
<1>1. /\ CommittedTime' \in Nat /\ CommittedTime' <= run.goal
      /\ CommittedTime \in Nat /\ CommittedTime' >= CommittedTime
      /\ pc # "idle" /\ ~run.canonical /\ (pc = "advance" \/ InBatch)
  BY PassingTimes
<1>2. \A k \in pending : k.due > run.goal \/ FromReactor(k.id)
  BY <1>0, <1>1 DEF DueInv
<1>3. /\ Ledger!Open = Ids(pending)
      /\ \A k \in pending : /\ HostIssued[k.id].due = k.due
                            /\ HostIssued[k.id].loose <=> FromReactor(k.id)
  <2>1. run.taken = {} /\ run.admitted = <<>>
    BY <1>0, <1>1 DEF LocalsInv
  <2> QED
    BY <2>1, OpenOutside
<1>4. \A i \in Ledger!Open : HostIssued[i].due > CommittedTime' \/ HostIssued[i].loose
  BY <1>0, <1>1, <1>2, <1>3 DEF Ids
<1>5. CASE CommittedTime' = CommittedTime
  BY <1>5, LedgerStill
<1>6. CASE CommittedTime' # CommittedTime
  <2>1. CommittedTime' > CommittedTime
    BY <1>1, <1>6
  <2> QED
    BY <1>4, <2>1 DEF Ledger!Tick, HostIssued, HostSettled, HostWithdrawn
<1> QED
  BY <1>5, <1>6

\* Of a call that runs the host sees at most that time passes.
LEMMA LedgerRuns ==
  ASSUME TypeInv, TypeInv', EventInv, QueueInv, Runs, HostIntact' = HostIntact,
         ~InBoundary' => Intact
  PROVE  Ledger!Tick \/ UNCHANGED Ledger!ledger
<1>1. Frame
  BY RunsFrame
<1>2. /\ HostLength' = HostLength /\ HostWithdrawn' = HostWithdrawn
      /\ UNCHANGED <<ingress, boundaries>>
  BY <1>1 DEF Frame, Opens, HostLength, HostWithdrawn
<1>3. UNCHANGED <<HostIssued, HostSettled, HostWithdrawn>>
  BY <1>2, HostStill
<1>4. CASE InBoundary \/ InBoundary'
  <2>1. CommittedTime' = CommittedTime
    BY <1>1, <1>4, CommittedTimes, CommittedTimesNext DEF Frame, Opens
  <2> QED
    BY <1>3, <2>1, LedgerStill
<1>5. CASE ~InBoundary /\ ~InBoundary'
  BY <1>3, <1>5, ClockRuns, LedgerPasses, LedgerStill
<1> QED
  BY <1>4, <1>5

\* What a boundary that has reached its time took was due by then, and of what was
\* queued when it began nothing due by then is left.
LateInv ==
    Intact /\ InBoundary /\ ~Early =>
        /\ \A k \in run.taken : k.due <= run.goal
        /\ \A i \in Elements(run.admitted) : ingress[i].due <= run.goal
        /\ \A k \in pending : k.id \in 1 .. saved.ingress => k.due > run.goal

\* It still was when the boundary went a step on.
LEMMA LateStep ==
  ASSUME TypeInv, EventInv, QueueInv, LateInv, [Next]_vars
  PROVE  LateInv'
<1>0. TodoInv /\ GapInv /\ LocalsInv
  BY DEF QueueInv
<1> SUFFICES ASSUME Intact', InBoundary', ~Early' PROVE LateInv'
  BY DEF LateInv
<1>1. /\ InBoundary /\ UNCHANGED saved /\ run'.goal = run.goal
  BY <1>0, BoundaryFrame DEF Opens
<1>2. (Runs \/ Journals) /\ Intact
  <2>1. ~Aborts /\ ~Commit
    BY ReturnLocals DEF Aborts, AbortBoundary, Commit
  <2> QED
    BY <1>0, <2>1, IntactCases
<1>3. CASE Runs
  <2>0. UNCHANGED ingress
    BY <1>3, RunsFrame DEF Frame
  <2>1. CASE Kept
    <3>1. ~Early /\ UNCHANGED pending /\ run'.taken = run.taken
          /\ run'.admitted = run.admitted
      BY <1>1, <2>1 DEF Kept
    <3> QED
      BY <1>1, <1>2, <2>0, <3>1 DEF LateInv
  <2>2. CASE TakeDueIngress
    <3>1. /\ run'.taken = {k \in pending : k.due <= run.goal}
          /\ run'.admitted = run.admitted /\ run.admitted = <<>>
          /\ pending' = pending \ {k \in pending : k.due <= run.goal}
      BY <1>0, <2>2, QueueTypes DEF TakeDueIngress, CallState, LocalsInv
    <3>2. \A k \in pending : k.due \in Nat /\ run.goal \in Nat
      BY DueTypes
    <3> QED
      BY <1>1, <3>1, <3>2 DEF LateInv, Elements
  <2>3. ASSUME NEW key \in run.taken, Admits(key) PROVE LateInv'
    <3>1. /\ ~Early /\ UNCHANGED pending /\ run'.taken = run.taken \ {key}
          /\ run'.admitted = Append(run.admitted, key.id)
      BY <2>3 DEF Admits
    <3>2. Elements(run'.admitted) = Elements(run.admitted) \cup {key.id}
      BY <3>1, QueueTypes, ElementsAppend
    <3>3. ingress[key.id].due = key.due
      BY <1>2, FateTypes
    <3> QED
      BY <1>1, <1>2, <2>0, <3>1, <3>2, <3>3 DEF LateInv
  <2> QED
    BY <1>0, <1>3, <2>1, <2>2, <2>3, RunsAdmit
<1>4. CASE Journals
  <2>1. /\ UNCHANGED pc /\ run'.caller = run.caller
        /\ run'.taken = run.taken /\ run'.admitted = run.admitted
    BY <1>0, <1>4, JournalStep
  <2>2. ~Early
    BY <2>1 DEF Early, InBatch
  <2>3. PICK record :
          /\ ingress' = Append(ingress, record) /\ record.id = nextId
          /\ pending' \subseteq pending \cup {QueueKey(record)}
    BY <1>0, <1>4, IssuesPush, WithdrawsPush DEF Journals, Pushed, Withdrawn, Stamp
  <2>4. \A i \in Elements(run.admitted) : ingress'[i] = ingress[i]
    BY <1>2, <2>3, FateTypes, JournalGrows
  <2>5. QueueKey(record).id \notin 1 .. saved.ingress
    BY <1>2, <2>3, QueueTypes DEF QueueKey, Intact
  <2> QED
    BY <1>1, <1>2, <2>1, <2>2, <2>3, <2>4, <2>5 DEF LateInv
<1> QED
  BY <1>2, <1>3, <1>4

\* No record is withdrawn twice.
LEMMA WithdrawnOnce ==
  ASSUME TypeInv, WithdrawnInTime, NEW c \in DOMAIN ingress, NEW d \in DOMAIN ingress,
         ingress[c].body.kind = "cancel", ingress[d].body.kind = "cancel",
         ingress[c].body.target = ingress[d].body.target
  PROVE  c = d
<1>1. \A i \in DOMAIN ingress : ingress[i].body \in Body
  <2>1. \A i \in DOMAIN ingress : ingress[i] \in IngressRecord
    BY QueueTypes
  <2> QED
    BY <2>1 DEF IngressRecord
<1>2. \A body \in Body : body.kind = "cancel" => body \in [kind : {"cancel"}, target : Nat]
  BY DEF Body
<1>3. ingress[c].body = ingress[d].body
  BY <1>1, <1>2
<1> QED
  BY <1>3 DEF WithdrawnInTime

\* What the running boundary issued or withdrew: nothing due before its time, but for
\* reactors' packets, and nothing withdrawn that was due by then.
LEMMA IssuedRunning ==
  ASSUME TypeInv, EventInv, QueueInv, CutsInv, Commit, Intact,
         NEW i \in DOMAIN ingress, i > saved.ingress
  PROVE  IF ingress[i].body.kind # "cancel"
         THEN ingress[i].due >= run.goal \/ FromReactor(i)
         ELSE LET t == ingress[i].body.target IN
              /\ t \in 1 .. i - 1 /\ t \in cancelled \ saved.cancelled
              /\ ingress[t].due > run.goal
<1>0. /\ RecordsInv /\ LocalsInv /\ BackInv
  BY DEF QueueInv
<1>1. InBoundary /\ run.taken = {} /\ run.goal \in Nat
  BY <1>0, CommitGrows, DueTypes
<1>2. /\ CutAt(saved.ingress) /\ InOrder(Len(ingress), now) /\ WasIntact
  BY <1>1, IntactSaved DEF CutsInv, QueueInv
<1>3. /\ ~FromReactor(i) => ingress[i].issued = run.goal
      /\ ingress[i].issued <= ingress[i].due
  BY <1>2, QueueTypes DEF CutAt, InOrder
<1>4. CASE ingress[i].body.kind # "cancel"
  BY <1>3, <1>4
<1>5. CASE ingress[i].body.kind = "cancel"
  <2> DEFINE t == ingress[i].body.target
  <2>1. ~FromReactor(i)
    BY <1>5 DEF FromReactor, ByReactor
  <2>2. t \in 1 .. i - 1 /\ t \in cancelled
    BY <1>5, TargetsAreRecords
  <2>3. WithdrawnInTime /\ saved.cancelled = Targets(saved.ingress)
    BY <1>0, <1>1, <1>2 DEF RecordsInv, WithdrawalInv, BackInv
  <2>4. t \notin saved.cancelled
    <3> SUFFICES ASSUME t \in Targets(saved.ingress) PROVE FALSE
      BY <2>3
    <3>1. PICK c \in 1 .. saved.ingress :
             ingress[c].body.kind = "cancel" /\ ingress[c].body.target = t
      BY DEF Targets
    <3>2. c \in DOMAIN ingress /\ c \in Nat
      BY QueueTypes
    <3>3. c = i
      BY <1>5, <2>3, <3>1, <3>2, WithdrawnOnce
    <3> QED
      BY <3>2, <3>3, QueueTypes
  <2>5. ingress[i].issued < ingress[t].due
    BY <1>5, <2>3 DEF WithdrawnInTime
  <2> QED
    BY <1>3, <1>5, <2>1, <2>2, <2>4, <2>5
<1> QED
  BY <1>4, <1>5

\* A boundary that is settled admitted what was queued for its time when it began, and
\* of what it issued only reactors' packets.
LEMMA AdmittedRunning ==
  ASSUME TypeInv, EventInv, QueueInv, CutsInv, ReplayInv, LateInv, Commit, Intact
  PROVE  \A i : i \in Elements(run.admitted) <=>
            \/ \E k \in saved.pending : k.id = i /\ k.due = run.goal
            \/ /\ i \in Elements(run.admitted) /\ i \in DOMAIN ingress /\ i > saved.ingress
               /\ FromReactor(i) /\ ingress[i].due <= run.goal
<1>0. /\ RecordsInv /\ LocalsInv /\ BackInv /\ GapInv
  BY DEF QueueInv
<1>1. InBoundary /\ ~Early /\ run.taken = {} /\ run.goal \in Nat
  BY <1>0, CommitGrows, DueTypes
<1>2. /\ WasIntact /\ saved.cancelled \subseteq cancelled
      /\ \A k \in saved.pending : k.due >= run.goal /\ ingress[k.id].due = k.due
      /\ \A k \in saved.pending : k.due \in Nat
  BY <1>0, <1>1, IntactSaved, OpenInBoundary, QueueTypes DEF BackInv, GapInv
<1>3. /\ Parts(Scheduled(Len(ingress)), Ids(pending), Ids(run.taken), Elements(run.admitted),
               Answered, cancelled)
      /\ Parts(Scheduled(saved.ingress), Ids(saved.pending), {}, {}, Answered,
               saved.cancelled)
  BY <1>0, <1>1, <1>2 DEF RecordsInv, FateInv, BackInv
<1>4. /\ saved.ingress \in Nat /\ saved.ingress <= Len(ingress) /\ Len(ingress) \in Nat
      /\ DOMAIN ingress = 1 .. Len(ingress)
      /\ \A k \in saved.pending : k.id \in 1 .. saved.ingress
  BY QueueTypes
<1>5. Ids(run.taken) = {}
  BY <1>1 DEF Ids
<1>6. ASSUME NEW i \in Elements(run.admitted)
      PROVE  \/ \E k \in saved.pending : k.id = i /\ k.due = run.goal
             \/ i \in DOMAIN ingress /\ i > saved.ingress /\ FromReactor(i)
                /\ ingress[i].due <= run.goal
  <2>1. /\ i \in DOMAIN ingress /\ ingress[i].body.kind # "cancel" /\ i \notin cancelled
        /\ i \notin Answered /\ ingress[i].due <= run.goal /\ ingress[i].due \in Nat
    BY <1>1, <1>3, <1>4, QueueTypes DEF Parts, Scheduled, LateInv
  <2>2. CASE i > saved.ingress
    <3>1. FromReactor(i)
      <4> SUFFICES ASSUME ~FromReactor(i) PROVE FALSE
        OBVIOUS
      <4>1. i \in DueIds
        BY <1>1, <1>5 DEF ReplayInv, Replaying
      <4>2. PICK k \in saved.pending : k.id = i
        BY <4>1 DEF DueIds, Ids, Own
      <4> QED
        BY <1>4, <2>2, <4>2
    <3> QED
      BY <2>1, <2>2, <3>1
  <2>3. CASE ~(i > saved.ingress)
    <3>1. i \in Scheduled(saved.ingress)
      BY <1>4, <2>1, <2>3 DEF Scheduled
    <3>2. i \in Ids(saved.pending)
      BY <1>2, <1>3, <2>1, <3>1 DEF Parts
    <3>3. PICK k \in saved.pending : k.id = i
      BY <3>2 DEF Ids
    <3> QED
      BY <1>1, <1>2, <2>1, <3>3
  <2> QED
    BY <2>2, <2>3
<1>7. ASSUME NEW k \in saved.pending, k.due = run.goal PROVE k.id \in Elements(run.admitted)
  <2>1. k.id \in Ids(saved.pending) /\ k.id \in 1 .. saved.ingress
    BY <1>4 DEF Ids
  <2>2. /\ k.id \in Scheduled(Len(ingress)) /\ k.id \notin Answered
        /\ k.id \notin saved.cancelled
    BY <1>3, <1>4, <2>1 DEF Parts, Scheduled
  <2>3. k.id \notin Ids(pending)
    <3> SUFFICES ASSUME NEW j \in pending, j.id = k.id PROVE FALSE
      BY DEF Ids
    <3>1. j.due > run.goal
      BY <1>1, <2>1 DEF LateInv
    <3>2. j.due = ingress[j.id].due
      BY <1>0 DEF RecordsInv, KeyInv, Stands, QueueKey
    <3> QED
      BY <1>1, <1>2, <1>7, <3>1, <3>2
  <2>4. k.id \notin cancelled
    <3> SUFFICES ASSUME k.id \in cancelled PROVE FALSE
      OBVIOUS
    <3>1. cancelled = Targets(Len(ingress)) /\ saved.cancelled = Targets(saved.ingress)
      BY <1>0, <1>1, <1>2 DEF RecordsInv, WithdrawalInv, BackInv
    <3>2. PICK c \in 1 .. Len(ingress) :
             ingress[c].body.kind = "cancel" /\ ingress[c].body.target = k.id
      BY <3>1 DEF Targets
    <3>3. c \in 1 .. saved.ingress \/ c > saved.ingress
      BY <1>4
    <3>4. CASE c \in 1 .. saved.ingress
      BY <2>2, <3>1, <3>2, <3>4 DEF Targets
    <3>5. CASE c > saved.ingress
      <4>1. ingress[k.id].due > run.goal
        BY <1>4, <3>2, <3>5, IssuedRunning
      <4> QED
        BY <1>1, <1>2, <1>7, <4>1
    <3> QED
      BY <3>3, <3>4, <3>5
  <2> QED
    BY <1>3, <1>5, <2>2, <2>3, <2>4 DEF Parts
<1> QED
  BY <1>6, <1>7

\* What is settled, in the terms of the ledger.
LEMMA LedgerSettles ==
  ASSUME NEW gone, NEW soon,
         gone = {i \in Ledger!Open : HostIssued[i].due = CommittedTime'} \cup soon,
         \A i \in soon : /\ i \in DOMAIN HostIssued' /\ i \notin DOMAIN HostIssued
                         /\ HostIssued'[i].loose /\ HostIssued'[i].due <= CommittedTime',
         CommittedTime' >= CommittedTime,
         \A i \in Ledger!Open : HostIssued[i].due >= CommittedTime',
         HostSettled' = Append(HostSettled, gone), Ledger!Grows(CommittedTime', gone)
  PROVE  Ledger!Settle
<1> DEFINE own == {i \in DOMAIN HostIssued' \ DOMAIN HostIssued :
                      HostIssued'[i].loose /\ HostIssued'[i].due <= CommittedTime'}
<1>1. soon \in SUBSET own
  OBVIOUS
<1> QED
  BY <1>1 DEF Ledger!Settle, HostIssued, HostSettled

\* A boundary that is settled admitted what was due at its time, the earliest of all;
\* what it issued is due later or now, and what it withdrew is due later.
LEMMA LedgerCommit ==
  ASSUME TypeInv, TypeInv', EventInv, QueueInv, CutsInv, ReplayInv, LateInv, Commit, Intact,
         CommittedTime' >= CommittedTime
  PROVE  Ledger!Settle
<1>0. LocalsInv /\ BackInv /\ RecordsInv
  BY DEF QueueInv
<1>1. PICK m, n, goal, gone, lost :
        /\ m = saved.ingress /\ n = Len(ingress) /\ goal = run.goal
        /\ gone = Elements(run.admitted) /\ lost = saved.cancelled
  OBVIOUS
<1>2. /\ UNCHANGED <<ingress, cancelled>> /\ InBoundary /\ ~InBoundary' /\ pc' = "idle"
      /\ now' = goal
  BY <1>0, <1>1, CommitGrows
<1>3. CommittedTime' = goal
  BY <1>2, CommittedTimes, CommittedTimesNext
<1>4. /\ m \in Nat /\ n \in Nat /\ m <= n /\ DOMAIN ingress = 1 .. n /\ goal \in Nat
      /\ \A k \in saved.pending : k.id \in 1 .. m
  BY <1>1, DueTypes, QueueTypes
<1>5. /\ HostLength = m /\ HostLength' = n
      /\ HostWithdrawn = lost /\ HostWithdrawn' = cancelled
  BY <1>1, <1>2 DEF HostLength, HostWithdrawn
<1>6. /\ Len(HostIssued) = m /\ DOMAIN HostIssued = 1 .. m
      /\ Len(HostIssued') = n /\ DOMAIN HostIssued' = 1 .. n
      /\ \A i \in 1 .. n : HostIssued'[i] = Entry(ingress[i])
  BY <1>2, <1>5, HostView, HostViewNext
<1>7. /\ Ledger!Open = Ids(saved.pending)
      /\ \A k \in saved.pending : HostIssued[k.id].due = k.due
      /\ \A k \in saved.pending : k.due >= goal
  BY <1>0, <1>1, <1>2, OpenInBoundary DEF BackInv
<1>8. \A i \in Ledger!Open : HostIssued[i].due >= CommittedTime'
  BY <1>3, <1>7 DEF Ids
<1>9. PICK soon : soon = {i \in gone : i > m}
  OBVIOUS
<1>10. \A i \in soon : /\ i \in 1 .. n /\ i \notin 1 .. m
                       /\ HostIssued'[i].loose /\ HostIssued'[i].due <= CommittedTime'
  <2> SUFFICES ASSUME NEW i \in soon
               PROVE  /\ i \in 1 .. n /\ i \notin 1 .. m
                      /\ HostIssued'[i].loose /\ HostIssued'[i].due <= CommittedTime'
    OBVIOUS
  <2>1. ~\E k \in saved.pending : k.id = i
    BY <1>4, <1>9
  <2>2. i \in DOMAIN ingress /\ FromReactor(i) /\ ingress[i].due <= goal
    BY <1>1, <1>9, <2>1, AdmittedRunning
  <2> QED
    BY <1>3, <1>4, <1>6, <1>9, <2>2, EntryTarget DEF FromReactor
<1>11. gone = {i \in Ledger!Open : HostIssued[i].due = CommittedTime'} \cup soon
  <2>1. \A i : i \in {j \in Ledger!Open : HostIssued[j].due = CommittedTime'}
                 <=> \E k \in saved.pending : k.id = i /\ k.due = goal
    BY <1>3, <1>7 DEF Ids
  <2>2. \A i : i \in gone <=> \/ \E k \in saved.pending : k.id = i /\ k.due = goal
                              \/ i \in soon
    BY <1>1, <1>9, AdmittedRunning
  <2> QED
    BY <2>1, <2>2
<1>12. HostSettled' = Append(HostSettled, gone)
  BY <1>0, <1>1, SettledGrows
<1>13. Ledger!Grows(CommittedTime', gone)
  <2>1. SubSeq(HostIssued', 1, Len(HostIssued)) = HostIssued
    BY <1>2, <1>4, <1>5, GrownView
  <2>2. cancelled \cap gone = {}
    BY <1>0, <1>1 DEF RecordsInv, FateInv, Parts
  <2>3. ASSUME NEW i \in m + 1 .. n
        PROVE  /\ i \in 1 .. n /\ HostIssued'[i] = Entry(ingress[i])
               /\ ingress[i].body.kind # "cancel" => ingress[i].due >= goal \/ FromReactor(i)
               /\ ingress[i].body.kind = "cancel" =>
                     LET t == ingress[i].body.target IN
                     /\ t \in 1 .. i - 1 /\ t # 0 /\ t \notin lost \cup gone
                     /\ t \in cancelled /\ HostIssued'[t].due > goal
    <3>1. i \in DOMAIN ingress /\ i > saved.ingress /\ i \in 1 .. n
      BY <1>1, <1>4
    <3>2. HostIssued'[i] = Entry(ingress[i])
      BY <1>6, <3>1
    <3>3. ingress[i].body.kind # "cancel" => ingress[i].due >= goal \/ FromReactor(i)
      BY <1>1, <3>1, IssuedRunning
    <3>4. ASSUME ingress[i].body.kind = "cancel", NEW t, t = ingress[i].body.target
          PROVE  /\ t \in 1 .. i - 1 /\ t # 0 /\ t \notin lost \cup gone
                 /\ t \in cancelled /\ HostIssued'[t].due > goal
      <4>1. t \in 1 .. i - 1 /\ t \in cancelled \ saved.cancelled /\ ingress[t].due > run.goal
        BY <3>1, <3>4, IssuedRunning
      <4>2. t \in 1 .. n /\ t # 0
        BY <1>4, <3>1, <4>1
      <4>3. HostIssued'[t].due = ingress[t].due
        BY <1>6, <4>2, EntryTarget
      <4> QED
        BY <1>1, <2>2, <4>1, <4>2, <4>3
    <3> QED
      BY <3>1, <3>2, <3>3, <3>4
  <2>4. ASSUME NEW i \in m + 1 .. n
        PROVE  IF HostIssued'[i].target = 0
               THEN HostIssued'[i].due >= goal \/ HostIssued'[i].loose
               ELSE /\ HostIssued'[i].target \in 1 .. i - 1 \ (HostWithdrawn \cup gone)
                    /\ HostIssued'[HostIssued'[i].target].due > goal
    BY <1>5, <2>3, EntryTarget DEF FromReactor
  <2>5. cancelled = lost \cup ({HostIssued'[i].target : i \in m + 1 .. n} \ {0})
    <3>1. cancelled = Targets(n) /\ lost = Targets(m)
      BY <1>0, <1>1, <1>2, IntactSaved DEF QueueInv, RecordsInv, WithdrawalInv, BackInv
    <3>2. \A i \in m + 1 .. n : ingress[i].body.kind = "cancel" =>
             HostIssued'[i].target = ingress[i].body.target /\ HostIssued'[i].target # 0
      BY <2>3, EntryTarget
    <3>3. \A i \in m + 1 .. n : ingress[i].body.kind # "cancel" => HostIssued'[i].target = 0
      BY <2>3, EntryTarget
    <3>4. /\ \A i \in 1 .. n : i \in 1 .. m \/ i \in m + 1 .. n
          /\ \A i \in 1 .. m : i \in 1 .. n
          /\ \A i \in m + 1 .. n : i \in 1 .. n
      BY <1>4
    <3> QED
      BY <3>1, <3>2, <3>3, <3>4 DEF Targets
  <2> QED
    BY <1>3, <1>4, <1>5, <1>6, <2>1, <2>4, <2>5, LedgerGrows
<1> QED
  BY <1>6, <1>8, <1>10, <1>11, <1>12, <1>13, LedgerSettles

\* Every step of the kernel is a step of the ledger, or nothing the host can see.
LEMMA LedgerStep ==
  ASSUME TypeInv, TypeInv', EventInv, QueueInv, ReadInv, LateInv, [Next]_vars
  PROVE  [Ledger!Promised \/ Ledger!Broken]_(Ledger!ledger)
<1>1. CASE ~HostIntact'
  BY <1>1, LedgerBroken
<1>2. CASE HostIntact'
  <2>1. /\ HostIntact /\ HostIntact' = HostIntact
        /\ (Journals \/ Commit \/ Runs) /\ ~InBoundary' => Intact
    BY <1>2, HostIntactBefore
  <2>2. Journals => (InBoundary' <=> InBoundary)
    BY JournalStep DEF QueueInv, InBoundary
  <2>3. Commit => ~InBoundary'
    BY CommitGrows DEF QueueInv
  <2>4. \/ Ledger!Submit \/ Ledger!Tick \/ Ledger!Settle \/ UNCHANGED Ledger!ledger
    BY <2>1, <2>2, <2>3, FourCases, LedgerSubmit, LedgerUnseen, LedgerAbort, LedgerRuns,
       LedgerCommit, ClockGrows DEF ReadInv
  <2>5. (Ledger!Submit \/ Ledger!Tick \/ Ledger!Settle) => Ledger!Promised
    BY <1>2, <2>1 DEF Ledger!Promised, HostIntact
  <2> QED
    BY <2>4, <2>5
<1> QED
  BY <1>1, <1>2

\* Initially the host sees an empty ledger.
LEMMA LedgerBegins == Init => Ledger!LedgerInit
<1> SUFFICES ASSUME Init PROVE Ledger!LedgerInit
  OBVIOUS
<1>1. /\ ingress = <<>> /\ boundaries = <<>> /\ cancelled = {} /\ now = 0 /\ pc = "idle"
      /\ nextId = 1
  BY DEF Init
<1>2. ~InBoundary /\ HostWithdrawn = {} /\ CommittedTime = 0 /\ Len(ingress) = 0
  BY <1>1, CommittedTimes DEF InBoundary, HostWithdrawn
<1>3. Committed = SubSeq(<<>>, 1, 0)
  BY <1>1, <1>2 DEF Committed
<1>4. DOMAIN Committed = {} /\ DOMAIN boundaries = {}
  BY <1>1, <1>3
<1>5. HostIssued = <<>> /\ HostSettled = <<>>
  BY <1>4 DEF HostIssued, HostSettled
<1>6. HostIntact = TRUE
  BY <1>1, <1>2 DEF HostIntact, Intact
<1> QED
  BY <1>2, <1>5, <1>6 DEF Ledger!LedgerInit, HostIssued, HostSettled, HostWithdrawn,
     HostIntact

\* To its host the kernel is an append-only journal in which every record settles in
\* the one boundary of its due time or is withdrawn before it, on a clock that never
\* goes back, and of a boundary that fails nothing is seen.  Once a call was refused
\* that had issued a packet, nothing the host was told is taken back.
THEOREM LedgerImplemented == Spec => ImplementsLedger
<1>1. TypeInv /\ EventInv /\ QueueInv /\ ReadInv /\ LateInv /\ [Next]_vars
        => TypeInv' /\ EventInv' /\ QueueInv' /\ ReadInv' /\ LateInv'
  BY TypeStep, EventStep, QueueStep, CutsStep, AnswerStep, ReplayStep, TraceStep, LateStep
  DEF ReadInv, QueueInv
<1>2. Init => TypeInv /\ EventInv /\ QueueInv /\ ReadInv /\ LateInv
  <2>1. Init => LateInv
    BY DEF Init, InBoundary, LateInv
  <2> QED
    BY <2>1, TypeInit, EventInit, QueueInit, ReadInit
<1>3. TypeInv /\ TypeInv' /\ EventInv /\ QueueInv /\ ReadInv /\ LateInv /\ [Next]_vars
        => [Ledger!Promised \/ Ledger!Broken]_(Ledger!ledger)
  BY LedgerStep
<1> QED
  BY <1>1, <1>2, <1>3, LedgerBegins, PTL DEF Spec, ImplementsLedger, Ledger!LedgerSpec

==============================================================================
