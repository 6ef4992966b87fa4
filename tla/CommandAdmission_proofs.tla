------------------------ MODULE CommandAdmission_proofs ------------------------
(***************************************************************************)
(* The admission history answers from what it kept as from the whole run,  *)
(* and an answer that was given stands.                                    *)
(*                                                                         *)
(* What the archived tables and the history index hold is a function of    *)
(* the journals, the cut, the retired requests and the pins (EvidenceOk).  *)
(* Every push, truncation, seal and restore keeps that form; two histories *)
(* over the same journals and cut are then one, and the answers depend on  *)
(* the journals alone.                                                     *)
(***************************************************************************)
EXTENDS CommandAdmission, FiniteSetTheorems, TLAPS

(* The attempt of a request and the ingress record of a request or of a     *)
(* decision, by position; 0 when there is none.                             *)
AttemptsOf(attempts, r) == {n \in DOMAIN attempts : attempts[n].request = r}
CarriersOf(ingress, r) == {i \in DOMAIN ingress : ingress[i].request = r}
DecidersOf(ingress, d) == {i \in DOMAIN ingress : ingress[i].decision = d}
AttemptOf(attempts, r) == Least(AttemptsOf(attempts, r))
CarrierOf(ingress, r) == Least(CarriersOf(ingress, r))
DeciderOf(ingress, d) == Least(DecidersOf(ingress, d))

AtMostOne(S) == \A x, y \in S : x = y

(* The journals: every request is attempted once and carried once, every    *)
(* decision ID used once; an accepted attempt and its command name each     *)
(* other; the families of commands never mix.                               *)
Unique(attempts, ingress) ==
    /\ \A r \in Requests : AtMostOne(AttemptsOf(attempts, r)) /\ AtMostOne(CarriersOf(ingress, r))
    /\ \A d \in DecisionIds : AtMostOne(DecidersOf(ingress, d))

Linked(commands, attempts) ==
    /\ \A n \in DOMAIN attempts : attempts[n].command # 0 =>
           /\ attempts[n].command \in DOMAIN commands
           /\ commands[attempts[n].command] = n
    /\ \A c \in DOMAIN commands : commands[c] # 0 =>
           commands[c] \in DOMAIN attempts /\ attempts[commands[c]].command = c

Apart(commands, attempts, ingress) ==
    /\ (\E c \in DOMAIN commands : commands[c] = 0) => attempts = <<>> /\ ingress = <<>>
    /\ ingress # <<>> =>
           \A n \in DOMAIN attempts : CarriersOf(ingress, attempts[n].request) # {}

JournalsOk(commands, attempts, ingress) ==
    /\ commands \in Seq(Nat) /\ attempts \in Seq(Attempt) /\ ingress \in Seq(IngressRecord)
    /\ Unique(attempts, ingress) /\ Linked(commands, attempts)
    /\ Apart(commands, attempts, ingress)

(* A cut takes an accepted attempt exactly if it takes its command.         *)
Aligned(attempts, x) ==
    \A n \in DOMAIN attempts : attempts[n].command # 0 =>
        (n <= x.attempts <=> attempts[n].command <= x.commands)

CutType == [commands : Nat, attempts : Nat, ingress : Nat, boundaries : Nat]
CutOk(e) ==
    /\ e.cut \in CutType
    /\ e.cut.commands <= Len(e.commands) /\ e.cut.attempts <= Len(e.attempts)
    /\ e.cut.ingress <= Len(e.ingress)
    /\ Aligned(e.attempts, e.cut)
    /\ e.pinned \subseteq 1 .. e.cut.ingress

(* What the archived tables say of the sealed journals.                     *)
OutcomesOf(attempts, cut, retired) ==
    [r \in Requests |-> IF r \notin retired /\ AttemptOf(attempts, r) <= cut.attempts
                        THEN AttemptOf(attempts, r) ELSE 0]
ReceiptsOf(ingress, cut, retired) ==
    [r \in Requests |->
        IF /\ r \notin retired /\ CarrierOf(ingress, r) \in 1 .. cut.ingress
           /\ ingress[CarrierOf(ingress, r)].decision = None
        THEN CarrierOf(ingress, r) ELSE 0]
DecisionsOf(ingress, cut) ==
    [d \in DecisionIds |-> IF DeciderOf(ingress, d) <= cut.ingress
                           THEN DeciderOf(ingress, d) ELSE 0]
NestedOf(ingress, cut) ==
    {r \in Requests : /\ CarrierOf(ingress, r) \in 1 .. cut.ingress
                      /\ ingress[CarrierOf(ingress, r)].decision # None}
LegacyOf(attempts, cut) == attempts = <<>> /\ cut.commands > 0
UnqueuedOf(attempts, ingress, cut) ==
    LegacyOf(attempts, cut) \/ (cut.attempts > 0 /\ ingress = <<>>)

(* A retired request was attempted before the cut, longer ago than the      *)
(* retention, and nothing of it is queued.                                  *)
RetiredOk(e, at) ==
    /\ e.retired \subseteq Requests
    /\ \A r \in e.retired :
           /\ AttemptOf(e.attempts, r) \in 1 .. e.cut.attempts
           /\ e.attempts[AttemptOf(e.attempts, r)].at < KeptFrom(at)
           /\ CarrierOf(e.ingress, r) <= e.cut.ingress

TablesOk(e, at) ==
    /\ RetiredOk(e, at)
    /\ e.outcomes = OutcomesOf(e.attempts, e.cut, e.retired)
    /\ e.receipts = ReceiptsOf(e.ingress, e.cut, e.retired)
    /\ e.decisions = DecisionsOf(e.ingress, e.cut)
    /\ e.nested = NestedOf(e.ingress, e.cut)
    /\ e.legacy = LegacyOf(e.attempts, e.cut)
    /\ e.tracked = (e.cut.attempts > 0 \/ e.cut.ingress > 0)
    /\ e.unqueuedHistory = UnqueuedOf(e.attempts, e.ingress, e.cut)

(* What the index says of the retained journals.                            *)
QueuedOf(ingress, cut) ==
    [r \in Requests |-> IF CarrierOf(ingress, r) > cut.ingress THEN 1 ELSE 0]
FirstOf(attempts, cut) ==
    [r \in Requests |-> IF AttemptOf(attempts, r) > cut.attempts
                        THEN AttemptOf(attempts, r) - cut.attempts ELSE 0]
DirectOf(commands, attempts, cut) ==
    IF attempts = <<>> /\ Len(commands) > cut.commands THEN 1 ELSE 0
UnqueuedAt(attempts, ingress, cut) ==
    IF ingress = <<>> /\ Len(attempts) > cut.attempts THEN 1 ELSE 0

IndexOk(e) ==
    /\ e.queued = QueuedOf(e.ingress, e.cut)
    /\ e.first = FirstOf(e.attempts, e.cut)
    /\ e.direct = DirectOf(e.commands, e.attempts, e.cut)
    /\ e.unqueued = UnqueuedAt(e.attempts, e.ingress, e.cut)

EvidenceType ==
    [commands : Seq(Nat), attempts : Seq(Attempt), ingress : Seq(IngressRecord),
     cut : CutType, outcomes : [Requests -> Nat], receipts : [Requests -> Nat],
     decisions : [DecisionIds -> Nat], nested : SUBSET Requests,
     retired : SUBSET Requests, legacy : BOOLEAN, tracked : BOOLEAN,
     unqueuedHistory : BOOLEAN, pinned : SUBSET Nat, queued : [Requests -> Nat],
     first : [Requests -> Nat], direct : Nat, unqueued : Nat]

EvidenceOk(e, at) ==
    /\ e \in EvidenceType
    /\ JournalsOk(e.commands, e.attempts, e.ingress)
    /\ CutOk(e) /\ TablesOk(e, at) /\ IndexOk(e)

LengthType == [commands : Nat, attempts : Nat, ingress : Nat]
SavedType ==
    [open : BOOLEAN, now : Nat, pending : SUBSET Nat, pinned : SUBSET Nat,
     lengths : LengthType]

(* A queued record is readable and its request not yet attempted.           *)
Waiting(i, e) ==
    /\ i \in DOMAIN e.ingress /\ i \in Readable(e)
    /\ e.ingress[i].request # None => AttemptOf(e.attempts, e.ingress[i].request) = 0

(* What a failed boundary goes back to.                                     *)
SavedOk(e) ==
    LET L == saved.lengths IN
    /\ saved.now <= now /\ saved.pinned = e.pinned
    /\ L.commands <= Len(e.commands) /\ L.attempts <= Len(e.attempts)
    /\ L.ingress <= Len(e.ingress)
    /\ cursor.commands <= L.commands /\ cursor.attempts <= L.attempts
    /\ e.cut.ingress <= L.ingress
    /\ Aligned(e.attempts, L)
    /\ \A n \in 1 .. L.attempts : e.attempts[n].at <= saved.now
    /\ e.ingress # <<>> =>
           \A n \in DOMAIN e.attempts :
               CarrierOf(e.ingress, e.attempts[n].request) \in 1 .. L.ingress
    /\ taking \subseteq 1 .. L.ingress /\ boundaries < MaxBoundaries
    /\ \A i \in saved.pending :
           /\ i \in 1 .. L.ingress /\ i \in Readable(e)
           /\ e.ingress[i].request # None =>
                  \/ AttemptOf(e.attempts, e.ingress[i].request) = 0
                  \/ AttemptOf(e.attempts, e.ingress[i].request) > L.attempts

(* A queued command carries a request.                                      *)
Carrying(ingress) ==
    \A i \in DOMAIN ingress : ingress[i].decision = None => ingress[i].request # None

AdmissionSound ==
    /\ EvidenceOk(evidence, CommittedNow) /\ Carrying(evidence.ingress)
    /\ now \in Times /\ boundaries \in 0 .. MaxBoundaries
    /\ cursor \in [commands : Nat, attempts : Nat]
    /\ evidence.cut.commands <= cursor.commands /\ evidence.cut.attempts <= cursor.attempts
    /\ cursor.commands <= Len(evidence.commands) /\ cursor.attempts <= Len(evidence.attempts)
    /\ Aligned(evidence.attempts, cursor)
    /\ \A n \in DOMAIN evidence.attempts : evidence.attempts[n].at <= now
    /\ pending \cap taking = {}
    /\ \A i \in pending \cup taking : Waiting(i, evidence)
    /\ saved \in SavedType /\ saved.now \in Times
    /\ ~saved.open => taking = {}
    /\ saved.open => SavedOk(evidence)

-----------------------------------------------------------------------------
(* Looking up the one entry of a request.                                   *)

(* Least of nothing is 0.                                                   *)
LEMMA LeastNone == Least({}) = 0
BY DEF Least

(* Least of a single position is that position.                             *)
LEMMA LeastOne ==
    ASSUME NEW S \in SUBSET Nat, AtMostOne(S), NEW x \in S
    PROVE  Least(S) = x
<1>1. S = {x}  BY DEF AtMostOne
<1>2. x <= x /\ \A p \in S : p = x  BY <1>1
<1>3. (CHOOSE p \in S : \A q \in S : p <= q) = x  BY <1>1, <1>2
<1> QED  BY <1>1, <1>3 DEF Least

(* Least of at most one position is 0 or a member.                          *)
LEMMA LeastKind ==
    ASSUME NEW S \in SUBSET (Nat \ {0}), AtMostOne(S)
    PROVE  /\ Least(S) \in Nat
           /\ Least(S) = 0 <=> S = {}
           /\ Least(S) # 0 => Least(S) \in S
           /\ \A x \in S : Least(S) = x
<1>1. \A x \in S : Least(S) = x  BY LeastOne
<1>2. S = {} => Least(S) = 0  BY LeastNone
<1> QED  BY <1>1, <1>2

(* The attempt of a request, in journals that name it at most once.         *)
LEMMA AttemptLookup ==
    ASSUME NEW attempts \in Seq(Attempt), NEW r, AtMostOne(AttemptsOf(attempts, r))
    PROVE  /\ AttemptOf(attempts, r) \in 0 .. Len(attempts)
           /\ AttemptOf(attempts, r) = 0 => \A n \in DOMAIN attempts : attempts[n].request # r
           /\ AttemptOf(attempts, r) # 0 =>
                  /\ AttemptOf(attempts, r) \in DOMAIN attempts
                  /\ attempts[AttemptOf(attempts, r)].request = r
           /\ \A n \in DOMAIN attempts : attempts[n].request = r => AttemptOf(attempts, r) = n
<1> DEFINE S == AttemptsOf(attempts, r)
<1>1. DOMAIN attempts = 1 .. Len(attempts) /\ Len(attempts) \in Nat  OBVIOUS
<1>2. S \in SUBSET (Nat \ {0})  BY <1>1 DEF AttemptsOf
<1>3. \A n : n \in S <=> n \in DOMAIN attempts /\ attempts[n].request = r  BY DEF AttemptsOf
<1> HIDE DEF S
<1>4. /\ Least(S) \in Nat /\ (Least(S) = 0 <=> S = {})
      /\ Least(S) # 0 => Least(S) \in S
      /\ \A x \in S : Least(S) = x
  BY <1>2, LeastKind DEF S
<1>5. AttemptOf(attempts, r) = Least(S)  BY DEF AttemptOf, S
<1> QED  BY <1>1, <1>3, <1>4, <1>5

(* The ingress record that carries a request.                               *)
LEMMA CarrierLookup ==
    ASSUME NEW ingress \in Seq(IngressRecord), NEW r, AtMostOne(CarriersOf(ingress, r))
    PROVE  /\ CarrierOf(ingress, r) \in 0 .. Len(ingress)
           /\ CarrierOf(ingress, r) = 0 => \A n \in DOMAIN ingress : ingress[n].request # r
           /\ CarrierOf(ingress, r) # 0 =>
                  /\ CarrierOf(ingress, r) \in DOMAIN ingress
                  /\ ingress[CarrierOf(ingress, r)].request = r
           /\ \A n \in DOMAIN ingress : ingress[n].request = r => CarrierOf(ingress, r) = n
<1> DEFINE S == CarriersOf(ingress, r)
<1>1. DOMAIN ingress = 1 .. Len(ingress) /\ Len(ingress) \in Nat  OBVIOUS
<1>2. S \in SUBSET (Nat \ {0})  BY <1>1 DEF CarriersOf
<1>3. \A n : n \in S <=> n \in DOMAIN ingress /\ ingress[n].request = r  BY DEF CarriersOf
<1> HIDE DEF S
<1>4. /\ Least(S) \in Nat /\ (Least(S) = 0 <=> S = {})
      /\ Least(S) # 0 => Least(S) \in S
      /\ \A x \in S : Least(S) = x
  BY <1>2, LeastKind DEF S
<1>5. CarrierOf(ingress, r) = Least(S)  BY DEF CarrierOf, S
<1> QED  BY <1>1, <1>3, <1>4, <1>5

(* The ingress record of a decision.                                        *)
LEMMA DeciderLookup ==
    ASSUME NEW ingress \in Seq(IngressRecord), NEW d, AtMostOne(DecidersOf(ingress, d))
    PROVE  /\ DeciderOf(ingress, d) \in 0 .. Len(ingress)
           /\ DeciderOf(ingress, d) = 0 => \A n \in DOMAIN ingress : ingress[n].decision # d
           /\ DeciderOf(ingress, d) # 0 =>
                  /\ DeciderOf(ingress, d) \in DOMAIN ingress
                  /\ ingress[DeciderOf(ingress, d)].decision = d
           /\ \A n \in DOMAIN ingress : ingress[n].decision = d => DeciderOf(ingress, d) = n
<1> DEFINE S == DecidersOf(ingress, d)
<1>1. DOMAIN ingress = 1 .. Len(ingress) /\ Len(ingress) \in Nat  OBVIOUS
<1>2. S \in SUBSET (Nat \ {0})  BY <1>1 DEF DecidersOf
<1>3. \A n : n \in S <=> n \in DOMAIN ingress /\ ingress[n].decision = d  BY DEF DecidersOf
<1> HIDE DEF S
<1>4. /\ Least(S) \in Nat /\ (Least(S) = 0 <=> S = {})
      /\ Least(S) # 0 => Least(S) \in S
      /\ \A x \in S : Least(S) = x
  BY <1>2, LeastKind DEF S
<1>5. DeciderOf(ingress, d) = Least(S)  BY DEF DeciderOf, S
<1> QED  BY <1>1, <1>3, <1>4, <1>5

(* The journals of a history, one lookup each.                              *)
LEMMA Lookups ==
    ASSUME NEW commands, NEW attempts, NEW ingress, JournalsOk(commands, attempts, ingress)
    PROVE  /\ \A r \in Requests :
                  /\ AttemptOf(attempts, r) \in 0 .. Len(attempts)
                  /\ AttemptOf(attempts, r) = 0 =>
                         \A n \in DOMAIN attempts : attempts[n].request # r
                  /\ AttemptOf(attempts, r) # 0 =>
                         /\ AttemptOf(attempts, r) \in DOMAIN attempts
                         /\ attempts[AttemptOf(attempts, r)].request = r
                  /\ \A n \in DOMAIN attempts :
                         attempts[n].request = r => AttemptOf(attempts, r) = n
           /\ \A r \in Requests :
                  /\ CarrierOf(ingress, r) \in 0 .. Len(ingress)
                  /\ CarrierOf(ingress, r) = 0 =>
                         \A n \in DOMAIN ingress : ingress[n].request # r
                  /\ CarrierOf(ingress, r) # 0 =>
                         /\ CarrierOf(ingress, r) \in DOMAIN ingress
                         /\ ingress[CarrierOf(ingress, r)].request = r
                  /\ \A n \in DOMAIN ingress :
                         ingress[n].request = r => CarrierOf(ingress, r) = n
           /\ \A d \in DecisionIds :
                  /\ DeciderOf(ingress, d) \in 0 .. Len(ingress)
                  /\ DeciderOf(ingress, d) = 0 =>
                         \A n \in DOMAIN ingress : ingress[n].decision # d
                  /\ DeciderOf(ingress, d) # 0 =>
                         /\ DeciderOf(ingress, d) \in DOMAIN ingress
                         /\ ingress[DeciderOf(ingress, d)].decision = d
                  /\ \A n \in DOMAIN ingress :
                         ingress[n].decision = d => DeciderOf(ingress, d) = n
<1>1. attempts \in Seq(Attempt) /\ ingress \in Seq(IngressRecord)  BY DEF JournalsOk
<1>2. /\ \A r \in Requests : /\ AtMostOne(AttemptsOf(attempts, r))
                             /\ AtMostOne(CarriersOf(ingress, r))
      /\ \A d \in DecisionIds : AtMostOne(DecidersOf(ingress, d))
  BY DEF JournalsOk, Unique
<1>3. ASSUME NEW r \in Requests
      PROVE  /\ AttemptOf(attempts, r) \in 0 .. Len(attempts)
             /\ AttemptOf(attempts, r) = 0 =>
                    \A n \in DOMAIN attempts : attempts[n].request # r
             /\ AttemptOf(attempts, r) # 0 =>
                    /\ AttemptOf(attempts, r) \in DOMAIN attempts
                    /\ attempts[AttemptOf(attempts, r)].request = r
             /\ \A n \in DOMAIN attempts :
                    attempts[n].request = r => AttemptOf(attempts, r) = n
  BY <1>1, <1>2, AttemptLookup
<1>4. ASSUME NEW r \in Requests
      PROVE  /\ CarrierOf(ingress, r) \in 0 .. Len(ingress)
             /\ CarrierOf(ingress, r) = 0 =>
                    \A n \in DOMAIN ingress : ingress[n].request # r
             /\ CarrierOf(ingress, r) # 0 =>
                    /\ CarrierOf(ingress, r) \in DOMAIN ingress
                    /\ ingress[CarrierOf(ingress, r)].request = r
             /\ \A n \in DOMAIN ingress :
                    ingress[n].request = r => CarrierOf(ingress, r) = n
  BY <1>1, <1>2, CarrierLookup
<1>5. ASSUME NEW d \in DecisionIds
      PROVE  /\ DeciderOf(ingress, d) \in 0 .. Len(ingress)
             /\ DeciderOf(ingress, d) = 0 =>
                    \A n \in DOMAIN ingress : ingress[n].decision # d
             /\ DeciderOf(ingress, d) # 0 =>
                    /\ DeciderOf(ingress, d) \in DOMAIN ingress
                    /\ ingress[DeciderOf(ingress, d)].decision = d
             /\ \A n \in DOMAIN ingress :
                    ingress[n].decision = d => DeciderOf(ingress, d) = n
  BY <1>1, <1>2, DeciderLookup
<1> QED  BY <1>3, <1>4, <1>5

-----------------------------------------------------------------------------
(* The answers depend on the journals alone.                                *)

(* The fields of a history that is in form.                                 *)
LEMMA Fields ==
    ASSUME NEW e, NEW at, EvidenceOk(e, at)
    PROVE  /\ e.attempts \in Seq(Attempt) /\ e.ingress \in Seq(IngressRecord)
           /\ e.commands \in Seq(Nat)
           /\ Len(e.attempts) \in Nat /\ Len(e.ingress) \in Nat /\ Len(e.commands) \in Nat
           /\ DOMAIN e.attempts = 1 .. Len(e.attempts)
           /\ DOMAIN e.ingress = 1 .. Len(e.ingress)
           /\ DOMAIN e.commands = 1 .. Len(e.commands)
           /\ e.cut \in CutType
           /\ e.cut.commands \in 0 .. Len(e.commands)
           /\ e.cut.attempts \in 0 .. Len(e.attempts)
           /\ e.cut.ingress \in 0 .. Len(e.ingress)
           /\ e.pinned \in SUBSET (1 .. e.cut.ingress) /\ e.retired \in SUBSET Requests
           /\ JournalsOk(e.commands, e.attempts, e.ingress)
<1>1. e \in EvidenceType /\ JournalsOk(e.commands, e.attempts, e.ingress) /\ CutOk(e)
  BY DEF EvidenceOk
<1>2. /\ e.attempts \in Seq(Attempt) /\ e.ingress \in Seq(IngressRecord)
      /\ e.commands \in Seq(Nat)
  BY <1>1 DEF JournalsOk
<1>3. /\ e.cut \in CutType /\ e.cut.commands <= Len(e.commands)
      /\ e.cut.attempts <= Len(e.attempts) /\ e.cut.ingress <= Len(e.ingress)
  BY <1>1 DEF CutOk
<1>4. e.cut.commands \in Nat /\ e.cut.attempts \in Nat /\ e.cut.ingress \in Nat
  BY <1>3 DEF CutType
<1>5. e.pinned \in SUBSET (1 .. e.cut.ingress) /\ e.retired \in SUBSET Requests
  BY <1>1 DEF EvidenceType, CutOk
<1>6. /\ Len(e.attempts) \in Nat /\ Len(e.ingress) \in Nat /\ Len(e.commands) \in Nat
      /\ DOMAIN e.attempts = 1 .. Len(e.attempts)
      /\ DOMAIN e.ingress = 1 .. Len(e.ingress)
      /\ DOMAIN e.commands = 1 .. Len(e.commands)
  BY <1>2
<1> QED  BY <1>1, <1>2, <1>3, <1>4, <1>5, <1>6

(* What a history in form holds of one request.                             *)
LEMMA Entries ==
    ASSUME NEW e, NEW at, EvidenceOk(e, at), NEW r \in Requests
    PROVE  /\ e.outcomes[r] = IF r \notin e.retired /\ AttemptOf(e.attempts, r) <= e.cut.attempts
                              THEN AttemptOf(e.attempts, r) ELSE 0
           /\ e.receipts[r] = IF /\ r \notin e.retired
                                 /\ CarrierOf(e.ingress, r) \in 1 .. e.cut.ingress
                                 /\ e.ingress[CarrierOf(e.ingress, r)].decision = None
                              THEN CarrierOf(e.ingress, r) ELSE 0
           /\ r \in e.nested <=> /\ CarrierOf(e.ingress, r) \in 1 .. e.cut.ingress
                                 /\ e.ingress[CarrierOf(e.ingress, r)].decision # None
           /\ e.queued[r] = IF CarrierOf(e.ingress, r) > e.cut.ingress THEN 1 ELSE 0
           /\ e.first[r] = IF AttemptOf(e.attempts, r) > e.cut.attempts
                           THEN AttemptOf(e.attempts, r) - e.cut.attempts ELSE 0
           /\ r \in e.retired =>
                  /\ AttemptOf(e.attempts, r) \in 1 .. e.cut.attempts
                  /\ e.attempts[AttemptOf(e.attempts, r)].at < KeptFrom(at)
                  /\ CarrierOf(e.ingress, r) <= e.cut.ingress
<1>1. TablesOk(e, at) /\ IndexOk(e)  BY DEF EvidenceOk
<1>2. /\ e.outcomes = OutcomesOf(e.attempts, e.cut, e.retired)
      /\ e.receipts = ReceiptsOf(e.ingress, e.cut, e.retired)
      /\ e.nested = NestedOf(e.ingress, e.cut) /\ RetiredOk(e, at)
  BY <1>1 DEF TablesOk
<1>3. e.queued = QueuedOf(e.ingress, e.cut) /\ e.first = FirstOf(e.attempts, e.cut)
  BY <1>1 DEF IndexOk
<1>4. e.outcomes[r] = IF r \notin e.retired /\ AttemptOf(e.attempts, r) <= e.cut.attempts
                      THEN AttemptOf(e.attempts, r) ELSE 0
  BY <1>2 DEF OutcomesOf
<1>5. e.receipts[r] = IF /\ r \notin e.retired
                         /\ CarrierOf(e.ingress, r) \in 1 .. e.cut.ingress
                         /\ e.ingress[CarrierOf(e.ingress, r)].decision = None
                      THEN CarrierOf(e.ingress, r) ELSE 0
  BY <1>2 DEF ReceiptsOf
<1>6. r \in e.nested <=> /\ CarrierOf(e.ingress, r) \in 1 .. e.cut.ingress
                         /\ e.ingress[CarrierOf(e.ingress, r)].decision # None
  BY <1>2 DEF NestedOf
<1>7. e.queued[r] = IF CarrierOf(e.ingress, r) > e.cut.ingress THEN 1 ELSE 0
  BY <1>3 DEF QueuedOf
<1>8. e.first[r] = IF AttemptOf(e.attempts, r) > e.cut.attempts
                   THEN AttemptOf(e.attempts, r) - e.cut.attempts ELSE 0
  BY <1>3 DEF FirstOf
<1>9. r \in e.retired =>
          /\ AttemptOf(e.attempts, r) \in 1 .. e.cut.attempts
          /\ e.attempts[AttemptOf(e.attempts, r)].at < KeptFrom(at)
          /\ CarrierOf(e.ingress, r) <= e.cut.ingress
  BY <1>2 DEF RetiredOk
<1> QED  BY <1>4, <1>5, <1>6, <1>7, <1>8, <1>9

(* An attempt whose time lies before the retention.                         *)
Old(attempts, t, r) ==
    AttemptOf(attempts, r) # 0 /\ attempts[AttemptOf(attempts, r)].at < KeptFrom(t)

CommandReply(attempts, t, r, input) ==
    IF AttemptOf(attempts, r) = 0 THEN New
    ELSE IF Old(attempts, t, r) THEN IsRetired
    ELSE IF attempts[AttemptOf(attempts, r)].input = input
         THEN Reply("outcome", AttemptOf(attempts, r)) ELSE Conflict

Used(attempts, ingress, r) == AttemptOf(attempts, r) # 0 \/ CarrierOf(ingress, r) # 0

RecordReply(ingress, i, content) ==
    IF ingress[i] = content THEN Reply("receipt", i) ELSE Conflict

EnqueueReply(attempts, ingress, t, content) ==
    LET r == content.request IN
    IF Old(attempts, t, r) THEN IsRetired
    ELSE IF CarrierOf(ingress, r) # 0 /\ ingress[CarrierOf(ingress, r)].decision = None
         THEN RecordReply(ingress, CarrierOf(ingress, r), content)
    ELSE IF Used(attempts, ingress, r) THEN Conflict ELSE New

NestedReply(attempts, ingress, t, r) ==
    IF r = None THEN New
    ELSE IF Old(attempts, t, r) THEN IsRetired
    ELSE IF Used(attempts, ingress, r) THEN Conflict ELSE New

DecisionReply(attempts, ingress, t, content) ==
    IF DeciderOf(ingress, content.decision) # 0
    THEN RecordReply(ingress, DeciderOf(ingress, content.decision), content)
    ELSE NestedReply(attempts, ingress, t, content.request)

(* A request counts as retired if its attempt is old.                       *)
LEMMA RetiredByTime ==
    ASSUME NEW e, NEW at \in Int, EvidenceOk(e, at), NEW t \in Int, at <= t,
           NEW r \in Requests
    PROVE  Retired(e, t, r) <=> Old(e.attempts, t, r)
<1> DEFINE n == AttemptOf(e.attempts, r)
<1>1. /\ e.outcomes[r] = IF r \notin e.retired /\ n <= e.cut.attempts THEN n ELSE 0
      /\ e.first[r] = IF n > e.cut.attempts THEN n - e.cut.attempts ELSE 0
      /\ r \in e.retired => n \in 1 .. e.cut.attempts /\ e.attempts[n].at < KeptFrom(at)
  BY Entries
<1>2. /\ n \in 0 .. Len(e.attempts) /\ Len(e.attempts) \in Nat
      /\ e.cut.attempts \in 0 .. Len(e.attempts) /\ e.attempts \in Seq(Attempt)
      /\ DOMAIN e.attempts = 1 .. Len(e.attempts)
  BY Fields, Lookups
<1>3. n # 0 => e.attempts[n].at \in Nat
  <2>1. n # 0 => e.attempts[n] \in Attempt  BY <1>2
  <2> QED  BY <2>1 DEF Attempt
<1>4. KeptFrom(at) <= KeptFrom(t) /\ KeptFrom(at) \in Int /\ KeptFrom(t) \in Int
  BY AdmissionAssumption DEF KeptFrom
<1>5. Old(e.attempts, t, r) <=> n # 0 /\ e.attempts[n].at < KeptFrom(t)  BY DEF Old
<1> HIDE DEF n
<1>6. CASE r \in e.retired
  <2>1. n # 0 /\ e.attempts[n].at < KeptFrom(t)  BY <1>1, <1>2, <1>3, <1>4, <1>6
  <2> QED  BY <2>1, <1>5, <1>6 DEF Retired
<1>7. CASE r \notin e.retired /\ n <= e.cut.attempts
  <2>1. e.outcomes[r] = n /\ e.first[r] = 0  BY <1>1, <1>2, <1>7
  <2> QED  BY <2>1, <1>5, <1>7 DEF Retired
<1>8. CASE r \notin e.retired /\ n > e.cut.attempts
  <2>1. e.outcomes[r] = 0 /\ e.first[r] = n - e.cut.attempts  BY <1>1, <1>2, <1>8
  <2>2. e.first[r] # 0 /\ e.cut.attempts + e.first[r] = n /\ n # 0  BY <2>1, <1>2, <1>8
  <2> QED  BY <2>1, <2>2, <1>5, <1>8 DEF Retired
<1> QED  BY <1>6, <1>7, <1>8, <1>2

(* What a known request is told: CommandAnswer reads the journal.           *)
LEMMA CommandAnswered ==
    ASSUME NEW e, NEW at \in Int, EvidenceOk(e, at), NEW t \in Int, at <= t,
           NEW r \in Requests, NEW input
    PROVE  CommandAnswer(e, t, r, input) = CommandReply(e.attempts, t, r, input)
<1> DEFINE n == AttemptOf(e.attempts, r)
<1>1. /\ e.outcomes[r] = IF r \notin e.retired /\ n <= e.cut.attempts THEN n ELSE 0
      /\ e.first[r] = IF n > e.cut.attempts THEN n - e.cut.attempts ELSE 0
      /\ r \in e.retired => n \in 1 .. e.cut.attempts
  BY Entries
<1>2. /\ n \in 0 .. Len(e.attempts) /\ Len(e.attempts) \in Nat
      /\ e.cut.attempts \in 0 .. Len(e.attempts) /\ e.attempts \in Seq(Attempt)
      /\ n # 0 => n \in DOMAIN e.attempts
  BY Fields, Lookups
<1>3. Retired(e, t, r) <=> Old(e.attempts, t, r)  BY RetiredByTime
<1>4. Old(e.attempts, t, r) => n # 0  BY DEF Old
<1>5. r \in e.retired => Retired(e, t, r)  BY DEF Retired
<1>6. CommandReply(e.attempts, t, r, input) =
          IF n = 0 THEN New ELSE IF Old(e.attempts, t, r) THEN IsRetired
          ELSE IF e.attempts[n].input = input THEN Reply("outcome", n) ELSE Conflict
  BY DEF CommandReply
<1>7. Aligned(e.attempts, e.cut) /\ e.cut \in CutType  BY DEF EvidenceOk, CutOk
<1>8. ASSUME n # 0, n > e.cut.attempts PROVE OutcomeOf(e, n) = Reply("outcome", n)
  <2>1. e.attempts[n].command # 0 => ~(e.attempts[n].command <= e.cut.commands)
    BY <1>2, <1>7, <1>8 DEF Aligned
  <2>2. e.attempts[n].command \notin 1 .. e.cut.commands  BY <2>1, <1>7 DEF CutType
  <2> QED  BY <2>2 DEF OutcomeOf
<1> HIDE DEF n
<1>9. CASE Old(e.attempts, t, r)
  BY <1>3, <1>4, <1>6, <1>9 DEF CommandAnswer
<1>10. CASE ~Old(e.attempts, t, r) /\ n <= e.cut.attempts /\ n # 0
  <2>1. e.outcomes[r] = n  BY <1>1, <1>2, <1>3, <1>5, <1>10
  <2> QED  BY <2>1, <1>3, <1>6, <1>10 DEF CommandAnswer
<1>11. CASE ~Old(e.attempts, t, r) /\ n > e.cut.attempts
  <2>1. e.outcomes[r] = 0 /\ e.first[r] # 0 /\ e.cut.attempts + e.first[r] = n /\ n # 0
    BY <1>1, <1>2, <1>11
  <2> QED  BY <2>1, <1>3, <1>6, <1>8, <1>11 DEF CommandAnswer
<1>12. CASE ~Old(e.attempts, t, r) /\ n = 0
  <2>1. e.outcomes[r] = 0 /\ e.first[r] = 0  BY <1>1, <1>2, <1>12
  <2> QED  BY <2>1, <1>3, <1>6, <1>12 DEF CommandAnswer
<1> QED  BY <1>2, <1>9, <1>10, <1>11, <1>12

(* A request is in use if it was attempted or carried.                      *)
LEMMA InUseByJournals ==
    ASSUME NEW e, NEW at, EvidenceOk(e, at), NEW r \in Requests
    PROVE  InUse(e, r) <=> Used(e.attempts, e.ingress, r)
<1> DEFINE n == AttemptOf(e.attempts, r)
           i == CarrierOf(e.ingress, r)
           c == e.ingress[i].decision
<1>1. /\ e.outcomes[r] = IF r \notin e.retired /\ n <= e.cut.attempts THEN n ELSE 0
      /\ e.receipts[r] = IF r \notin e.retired /\ i \in 1 .. e.cut.ingress /\ c = None
                         THEN i ELSE 0
      /\ r \in e.nested <=> i \in 1 .. e.cut.ingress /\ c # None
      /\ e.queued[r] = IF i > e.cut.ingress THEN 1 ELSE 0
      /\ e.first[r] = IF n > e.cut.attempts THEN n - e.cut.attempts ELSE 0
      /\ r \in e.retired => n \in 1 .. e.cut.attempts
  BY Entries
<1>2. /\ n \in 0 .. Len(e.attempts) /\ Len(e.attempts) \in Nat
      /\ e.cut.attempts \in 0 .. Len(e.attempts)
      /\ i \in 0 .. Len(e.ingress) /\ Len(e.ingress) \in Nat
      /\ e.cut.ingress \in 0 .. Len(e.ingress)
  BY Fields, Lookups
<1>3. Used(e.attempts, e.ingress, r) <=> n # 0 \/ i # 0  BY DEF Used
<1> HIDE DEF n, i, c
<1>4. CASE r \in e.retired  BY <1>1, <1>2, <1>3, <1>4 DEF InUse
<1>5. CASE r \notin e.retired
  <2>1. e.outcomes[r] # 0 \/ e.first[r] # 0 <=> n # 0  BY <1>1, <1>2, <1>5
  <2>2. e.receipts[r] # 0 \/ r \in e.nested \/ e.queued[r] > 0 <=> i # 0
    BY <1>1, <1>2, <1>5
  <2> QED  BY <2>1, <2>2, <1>3, <1>5 DEF InUse, ArchivedQueued
<1> QED  BY <1>4, <1>5

(* A record that can be read is the carrier of its request.                 *)
LEMMA ReadableInDomain ==
    ASSUME NEW e, NEW at, EvidenceOk(e, at), NEW i \in Readable(e)
    PROVE  i \in DOMAIN e.ingress
<1>1. /\ e.pinned \in SUBSET (1 .. e.cut.ingress) /\ e.cut.ingress \in 0 .. Len(e.ingress)
      /\ Len(e.ingress) \in Nat /\ DOMAIN e.ingress = 1 .. Len(e.ingress)
  BY Fields
<1>2. i \in e.pinned \/ i \in e.cut.ingress + 1 .. Len(e.ingress)
  BY DEF Readable, RetainedIngress
<1> QED  BY <1>1, <1>2

(* What is queued above the cut can be read.                                *)
LEMMA RetainedReadable ==
    ASSUME NEW e, NEW at, EvidenceOk(e, at), NEW i \in DOMAIN e.ingress, i > e.cut.ingress
    PROVE  i \in Readable(e)
<1>1. /\ e.cut.ingress \in 0 .. Len(e.ingress)
      /\ Len(e.ingress) \in Nat /\ DOMAIN e.ingress = 1 .. Len(e.ingress)
  BY Fields
<1> QED  BY <1>1 DEF Readable, RetainedIngress

(* What a queued request is told.                                           *)
LEMMA EnqueueAnswered ==
    ASSUME NEW e, NEW at \in Int, EvidenceOk(e, at), NEW t \in Int, at <= t,
           NEW content, content.request \in Requests
    PROVE  EnqueueAnswer(e, t, content) = EnqueueReply(e.attempts, e.ingress, t, content)
<1> DEFINE r == content.request
           i == CarrierOf(e.ingress, r)
           own == i # 0 /\ e.ingress[i].decision = None
           same == {j \in Readable(e) : e.ingress[j].decision = None /\ e.ingress[j].request = r}
           old == Old(e.attempts, t, r)
           used == Used(e.attempts, e.ingress, r)
<1>1. /\ e.receipts[r] = IF r \notin e.retired /\ i \in 1 .. e.cut.ingress
                            /\ e.ingress[i].decision = None
                         THEN i ELSE 0
      /\ r \in e.retired => i <= e.cut.ingress
  BY Entries
<1>2. /\ i \in 0 .. Len(e.ingress) /\ Len(e.ingress) \in Nat
      /\ e.cut.ingress \in 0 .. Len(e.ingress)
      /\ i # 0 => i \in DOMAIN e.ingress /\ e.ingress[i].request = r
      /\ \A n \in DOMAIN e.ingress : e.ingress[n].request = r => i = n
  BY Fields, Lookups
<1>3. Retired(e, t, r) <=> old  BY RetiredByTime
<1>4. r \in e.retired => old  BY <1>3 DEF Retired
<1>5. InUse(e, r) <=> used  BY InUseByJournals
<1>6. \A j \in same : j = i /\ own
  <2> SUFFICES ASSUME NEW j \in same PROVE j = i /\ own
    OBVIOUS
  <2>1. j \in DOMAIN e.ingress  BY ReadableInDomain
  <2>2. j = i  BY <2>1, <1>2
  <2>3. j # 0  BY <2>1, Fields
  <2> QED  BY <2>2, <2>3
<1>7. own /\ i > e.cut.ingress => i \in same
  BY <1>2, RetainedReadable
<1>8. EnqueueReply(e.attempts, e.ingress, t, content) =
          IF old THEN IsRetired ELSE IF own THEN RecordReply(e.ingress, i, content)
          ELSE IF used THEN Conflict ELSE New
  BY DEF EnqueueReply
<1>9. RecordReply(e.ingress, i, content) = ReceiptFor(e, i, content)
  BY DEF RecordReply, ReceiptFor
<1>10. EnqueueAnswer(e, t, content) =
          CASE Retired(e, t, r) -> IsRetired
            [] ~Retired(e, t, r) /\ e.receipts[r] # 0 -> ReceiptFor(e, e.receipts[r], content)
            [] ~Retired(e, t, r) /\ e.receipts[r] = 0 /\ same # {} ->
                   ReceiptFor(e, Least(same), content)
            [] OTHER -> IF InUse(e, r) THEN Conflict ELSE New
  BY DEF EnqueueAnswer
<1>11. own /\ ~old /\ i <= e.cut.ingress => e.receipts[r] = i
  BY <1>1, <1>2, <1>4
<1>12. ~own => e.receipts[r] = 0 /\ same = {}
  <2>1. ~own => same = {}  BY <1>6
  <2>2. ~own => e.receipts[r] = 0  BY <1>1, <1>2
  <2> QED  BY <2>1, <2>2
<1>13. own /\ i > e.cut.ingress => e.receipts[r] = 0 /\ same = {i}
  <2>1. own /\ i > e.cut.ingress => same = {i}  BY <1>6, <1>7
  <2>2. i > e.cut.ingress => e.receipts[r] = 0  BY <1>1, <1>2
  <2> QED  BY <2>1, <2>2
<1>14. own /\ i > e.cut.ingress => Least(same) = i
  <2>1. same = {i} /\ i \in Nat => same \in SUBSET Nat /\ AtMostOne(same) /\ i \in same
    BY DEF AtMostOne
  <2>2. same \in SUBSET Nat /\ AtMostOne(same) /\ i \in same => Least(same) = i
    BY LeastOne
  <2> QED  BY <2>1, <2>2, <1>13, <1>2
<1>15. own => i # 0  OBVIOUS
<1> HIDE DEF r, i, own, same, old, used
<1>16. CASE old  BY <1>16, <1>3, <1>8, <1>10
<1>17. CASE ~old /\ own /\ i <= e.cut.ingress
  <2>1. e.receipts[r] = i /\ i # 0  BY <1>17, <1>11, <1>15
  <2>2. EnqueueAnswer(e, t, content) = ReceiptFor(e, i, content)
    BY <2>1, <1>17, <1>3, <1>10
  <2> QED  BY <2>2, <1>17, <1>8, <1>9
<1>18. CASE ~old /\ own /\ i > e.cut.ingress
  <2>1. e.receipts[r] = 0 /\ same # {} /\ Least(same) = i  BY <1>18, <1>13, <1>14
  <2>2. EnqueueAnswer(e, t, content) = ReceiptFor(e, i, content)
    BY <2>1, <1>18, <1>3, <1>10
  <2> QED  BY <2>2, <1>18, <1>8, <1>9
<1>19. CASE ~old /\ ~own
  <2>1. e.receipts[r] = 0 /\ same = {}  BY <1>19, <1>12
  <2>2. EnqueueAnswer(e, t, content) = IF InUse(e, r) THEN Conflict ELSE New
    BY <2>1, <1>19, <1>3, <1>10
  <2> QED  BY <2>2, <1>19, <1>5, <1>8
<1>20. i <= e.cut.ingress \/ i > e.cut.ingress  BY <1>2
<1> QED  BY <1>16, <1>17, <1>18, <1>19, <1>20

(* What a new decision is told of its nested request.                       *)
LEMMA NestedAnswered ==
    ASSUME NEW e, NEW at \in Int, EvidenceOk(e, at), NEW t \in Int, at <= t,
           NEW r \in Requests \cup {None}
    PROVE  NestedAnswer(e, t, r) = NestedReply(e.attempts, e.ingress, t, r)
<1>1. CASE r = None  BY <1>1 DEF NestedAnswer, NestedReply
<1>2. CASE r # None
  <2>1. r \in Requests  BY <1>2
  <2>2. Retired(e, t, r) <=> Old(e.attempts, t, r)  BY <2>1, RetiredByTime
  <2>3. InUse(e, r) <=> Used(e.attempts, e.ingress, r)  BY <2>1, InUseByJournals
  <2> QED  BY <1>2, <2>2, <2>3 DEF NestedAnswer, NestedReply
<1> QED  BY <1>1, <1>2

(* A decision ID that no table and no readable record knows was never used. *)
LEMMA DecisionKnown ==
    ASSUME NEW e, NEW at, EvidenceOk(e, at), NEW d \in DecisionIds
    PROVE  LET i == DeciderOf(e.ingress, d)
               same == {j \in Readable(e) : e.ingress[j].decision = d} IN
           /\ i \in 0 .. Len(e.ingress)
           /\ i = 0 => e.decisions[d] = 0 /\ same = {}
           /\ i # 0 /\ e.decisions[d] # 0 => e.decisions[d] = i
           /\ i # 0 /\ e.decisions[d] = 0 => same = {i}
<1> DEFINE i == DeciderOf(e.ingress, d)
           same == {j \in Readable(e) : e.ingress[j].decision = d}
<1>1. TablesOk(e, at)  BY DEF EvidenceOk
<1>2. e.decisions[d] = IF i <= e.cut.ingress THEN i ELSE 0
  BY <1>1 DEF TablesOk, DecisionsOf
<1>3. /\ i \in 0 .. Len(e.ingress) /\ Len(e.ingress) \in Nat
      /\ e.cut.ingress \in 0 .. Len(e.ingress)
      /\ i # 0 => i \in DOMAIN e.ingress /\ e.ingress[i].decision = d
      /\ \A n \in DOMAIN e.ingress : e.ingress[n].decision = d => i = n
  BY Fields, Lookups
<1>4. \A j \in same : j = i /\ i # 0
  <2> SUFFICES ASSUME NEW j \in same PROVE j = i /\ i # 0
    OBVIOUS
  <2>1. j \in DOMAIN e.ingress  BY ReadableInDomain
  <2>2. j = i  BY <2>1, <1>3
  <2>3. j # 0  BY <2>1, Fields
  <2> QED  BY <2>2, <2>3
<1>5. i # 0 /\ i > e.cut.ingress => i \in same
  BY <1>3, RetainedReadable
<1> HIDE DEF i, same
<1>6. i = 0 => e.decisions[d] = 0 /\ same = {}
  BY <1>2, <1>3, <1>4
<1>7. i # 0 /\ e.decisions[d] # 0 => e.decisions[d] = i  BY <1>2
<1>8. i # 0 /\ e.decisions[d] = 0 => same = {i}
  <2>1. i # 0 /\ e.decisions[d] = 0 => i > e.cut.ingress  BY <1>2, <1>3
  <2> QED  BY <2>1, <1>4, <1>5
<1> QED  BY <1>3, <1>6, <1>7, <1>8 DEF i, same

(* What a queued decision is told.                                          *)
LEMMA DecisionAnswered ==
    ASSUME NEW e, NEW at \in Int, EvidenceOk(e, at), NEW t \in Int, at <= t,
           NEW content, content.decision \in DecisionIds,
           content.request \in Requests \cup {None}
    PROVE  DecisionAnswer(e, t, content) = DecisionReply(e.attempts, e.ingress, t, content)
<1> DEFINE d == content.decision
           i == DeciderOf(e.ingress, d)
           same == {j \in Readable(e) : e.ingress[j].decision = d}
<1>1. /\ i \in 0 .. Len(e.ingress)
      /\ i = 0 => e.decisions[d] = 0 /\ same = {}
      /\ i # 0 /\ e.decisions[d] # 0 => e.decisions[d] = i
      /\ i # 0 /\ e.decisions[d] = 0 => same = {i}
  BY DecisionKnown
<1>2. NestedAnswer(e, t, content.request)
          = NestedReply(e.attempts, e.ingress, t, content.request)
  BY NestedAnswered
<1>3. RecordReply(e.ingress, i, content) = ReceiptFor(e, i, content)
  BY DEF RecordReply, ReceiptFor
<1>4. DecisionAnswer(e, t, content) =
          CASE e.decisions[d] # 0 -> ReceiptFor(e, e.decisions[d], content)
            [] e.decisions[d] = 0 /\ same # {} -> ReceiptFor(e, Least(same), content)
            [] OTHER -> NestedAnswer(e, t, content.request)
  BY DEF DecisionAnswer
<1>5. DecisionReply(e.attempts, e.ingress, t, content) =
          IF i # 0 THEN RecordReply(e.ingress, i, content)
          ELSE NestedReply(e.attempts, e.ingress, t, content.request)
  BY DEF DecisionReply
<1>6. i # 0 /\ e.decisions[d] = 0 => Least(same) = i
  <2>1. same = {i} /\ i \in Nat => same \in SUBSET Nat /\ AtMostOne(same) /\ i \in same
    BY DEF AtMostOne
  <2>2. same \in SUBSET Nat /\ AtMostOne(same) /\ i \in same => Least(same) = i
    BY LeastOne
  <2>3. i \in Nat  BY <1>1, Fields
  <2> QED  BY <2>1, <2>2, <2>3, <1>1
<1> HIDE DEF d, i, same
<1>7. CASE i = 0
  <2>1. DecisionAnswer(e, t, content) = NestedAnswer(e, t, content.request)
    BY <1>7, <1>1, <1>4
  <2> QED  BY <2>1, <1>7, <1>2, <1>5
<1>8. CASE i # 0 /\ e.decisions[d] # 0
  <2>1. DecisionAnswer(e, t, content) = ReceiptFor(e, i, content)
    BY <1>8, <1>1, <1>4
  <2> QED  BY <2>1, <1>8, <1>3, <1>5
<1>9. CASE i # 0 /\ e.decisions[d] = 0
  <2>1. DecisionAnswer(e, t, content) = ReceiptFor(e, i, content)
    BY <1>9, <1>1, <1>4, <1>6
  <2> QED  BY <2>1, <1>9, <1>3, <1>5
<1> QED  BY <1>7, <1>8, <1>9

DirectHistory(commands, attempts) == attempts = <<>> /\ Len(commands) > 0

(* The families a history belongs to: HasDirect, HasTracked and             *)
(* HasUnqueuedHistory read the journals.                                    *)
LEMMA FamiliesRead ==
    ASSUME NEW e, NEW at, EvidenceOk(e, at)
    PROVE  /\ HasDirect(e) <=> DirectHistory(e.commands, e.attempts)
           /\ HasTracked(e) <=> e.attempts # <<>> \/ e.ingress # <<>>
           /\ HasUnqueuedHistory(e) <=>
                  \/ DirectHistory(e.commands, e.attempts)
                  \/ e.attempts # <<>> /\ e.ingress = <<>>
<1>1. TablesOk(e, at) /\ IndexOk(e)  BY DEF EvidenceOk
<1>2. /\ e.legacy = (e.attempts = <<>> /\ e.cut.commands > 0)
      /\ e.tracked = (e.cut.attempts > 0 \/ e.cut.ingress > 0)
      /\ e.unqueuedHistory = \/ e.attempts = <<>> /\ e.cut.commands > 0
                             \/ e.cut.attempts > 0 /\ e.ingress = <<>>
  BY <1>1 DEF TablesOk, LegacyOf, UnqueuedOf
<1>3. /\ e.direct = IF e.attempts = <<>> /\ Len(e.commands) > e.cut.commands THEN 1 ELSE 0
      /\ e.unqueued = IF e.ingress = <<>> /\ Len(e.attempts) > e.cut.attempts THEN 1 ELSE 0
  BY <1>1 DEF IndexOk, DirectOf, UnqueuedAt
<1>4. /\ Len(e.attempts) \in Nat /\ Len(e.ingress) \in Nat /\ Len(e.commands) \in Nat
      /\ e.cut.commands \in 0 .. Len(e.commands)
      /\ e.cut.attempts \in 0 .. Len(e.attempts)
      /\ e.cut.ingress \in 0 .. Len(e.ingress)
      /\ e.attempts \in Seq(Attempt) /\ e.ingress \in Seq(IngressRecord)
  BY Fields
<1>5. (e.attempts = <<>> <=> Len(e.attempts) = 0) /\ (e.ingress = <<>> <=> Len(e.ingress) = 0)
  BY <1>4
<1>6. HasDirect(e) <=> DirectHistory(e.commands, e.attempts)
  <2>1. e.direct # 0 <=> e.attempts = <<>> /\ Len(e.commands) > e.cut.commands
    BY <1>3
  <2>2. e.legacy <=> e.attempts = <<>> /\ e.cut.commands > 0  BY <1>2
  <2>3. Len(e.commands) > 0 <=> e.cut.commands > 0 \/ Len(e.commands) > e.cut.commands
    BY <1>4
  <2> QED  BY <2>1, <2>2, <2>3 DEF HasDirect, DirectHistory
<1>7. HasTracked(e) <=> e.attempts # <<>> \/ e.ingress # <<>>
  <2>1. RetainedAttempts(e) # {} <=> Len(e.attempts) > e.cut.attempts
    <3>1. Len(e.attempts) > e.cut.attempts => Len(e.attempts) \in RetainedAttempts(e)
      BY <1>4 DEF RetainedAttempts
    <3>2. \A n \in RetainedAttempts(e) : Len(e.attempts) > e.cut.attempts
      BY <1>4 DEF RetainedAttempts
    <3> QED  BY <3>1, <3>2
  <2>2. RetainedIngress(e) # {} <=> Len(e.ingress) > e.cut.ingress
    <3>1. Len(e.ingress) > e.cut.ingress => Len(e.ingress) \in RetainedIngress(e)
      BY <1>4 DEF RetainedIngress
    <3>2. \A n \in RetainedIngress(e) : Len(e.ingress) > e.cut.ingress
      BY <1>4 DEF RetainedIngress
    <3> QED  BY <3>1, <3>2
  <2>3. e.tracked <=> e.cut.attempts > 0 \/ e.cut.ingress > 0  BY <1>2
  <2>4. HasTracked(e) <=> \/ e.cut.attempts > 0 \/ e.cut.ingress > 0
                          \/ Len(e.attempts) > e.cut.attempts
                          \/ Len(e.ingress) > e.cut.ingress
    BY <2>1, <2>2, <2>3 DEF HasTracked
  <2> QED  BY <2>4, <1>4, <1>5
<1>8. HasUnqueuedHistory(e) <=> \/ DirectHistory(e.commands, e.attempts)
                                \/ e.attempts # <<>> /\ e.ingress = <<>>
  <2>1. e.direct # 0 <=> e.attempts = <<>> /\ Len(e.commands) > e.cut.commands
    BY <1>3
  <2>2. e.unqueued # 0 <=> e.ingress = <<>> /\ Len(e.attempts) > e.cut.attempts
    BY <1>3
  <2>3. e.unqueuedHistory <=> \/ e.attempts = <<>> /\ e.cut.commands > 0
                              \/ e.cut.attempts > 0 /\ e.ingress = <<>>
    BY <1>2
  <2>4. HasUnqueuedHistory(e) <=> e.unqueuedHistory \/ e.direct # 0 \/ e.unqueued # 0
    BY DEF HasUnqueuedHistory
  <2>5. Len(e.commands) > 0 <=> e.cut.commands > 0 \/ Len(e.commands) > e.cut.commands
    BY <1>4
  <2>6. Len(e.attempts) # 0 <=> e.cut.attempts > 0 \/ Len(e.attempts) > e.cut.attempts
    BY <1>4
  <2> QED  BY <2>1, <2>2, <2>3, <2>4, <2>5, <2>6, <1>5 DEF DirectHistory
<1> QED  BY <1>6, <1>7, <1>8

-----------------------------------------------------------------------------
(* A history in form is one value, and Rebuild finds its index.             *)

(* Two histories in form over the same journals, cut, retired requests and  *)
(* pins are equal.                                                          *)
LEMMA Determined ==
    ASSUME NEW e, NEW at, EvidenceOk(e, at), NEW f, NEW bt, EvidenceOk(f, bt),
           e.commands = f.commands, e.attempts = f.attempts, e.ingress = f.ingress,
           e.cut = f.cut, e.retired = f.retired, e.pinned = f.pinned
    PROVE  e = f
<1>1. e \in EvidenceType /\ f \in EvidenceType  BY DEF EvidenceOk
<1>2. TablesOk(e, at) /\ IndexOk(e) /\ TablesOk(f, bt) /\ IndexOk(f)  BY DEF EvidenceOk
<1>3. /\ e.outcomes = f.outcomes /\ e.receipts = f.receipts /\ e.decisions = f.decisions
      /\ e.nested = f.nested /\ e.legacy = f.legacy /\ e.tracked = f.tracked
      /\ e.unqueuedHistory = f.unqueuedHistory
  BY <1>2 DEF TablesOk
<1>4. /\ e.queued = f.queued /\ e.first = f.first /\ e.direct = f.direct
      /\ e.unqueued = f.unqueued
  BY <1>2 DEF IndexOk
<1> DEFINE names == {"commands", "attempts", "ingress", "cut", "outcomes", "receipts",
                      "decisions", "nested", "retired", "legacy", "tracked",
                      "unqueuedHistory", "pinned", "queued", "first", "direct", "unqueued"}
<1>5. \A x \in names : e[x] = f[x]  BY <1>3, <1>4
<1>6. e = [x \in names |-> e[x]] /\ f = [x \in names |-> f[x]]
  BY <1>1 DEF EvidenceType
<1> HIDE DEF names
<1> QED  BY <1>5, <1>6

(* The least of positions that start at 1 is 1.                             *)
LEMMA LeastFirst ==
    ASSUME NEW S \in SUBSET (Nat \ {0}), 1 \in S
    PROVE  Least(S) = 1
<1>1. \A q \in S : 1 <= q  OBVIOUS
<1>2. \A p \in S : (\A q \in S : p <= q) => p = 1  OBVIOUS
<1>3. (CHOOSE p \in S : \A q \in S : p <= q) = 1  BY <1>1, <1>2
<1> QED  BY <1>3 DEF Least

(* FirstUnqueued in a history whose tables and queue counts are in form.    *)
LEMMA UnqueuedFound ==
    ASSUME NEW f, NEW at, JournalsOk(f.commands, f.attempts, f.ingress), CutOk(f),
           TablesOk(f, at), f.queued = QueuedOf(f.ingress, f.cut)
    PROVE  FirstUnqueued(f) = UnqueuedAt(f.attempts, f.ingress, f.cut)
<1> DEFINE cut == f.cut.attempts
           Kept == {a \in RetainedAttempts(f) : IsUnqueued(f, f.attempts[a].request)}
           S == {n - cut : n \in Kept}
<1>1. /\ f.attempts \in Seq(Attempt) /\ f.ingress \in Seq(IngressRecord)
      /\ Apart(f.commands, f.attempts, f.ingress)
  BY DEF JournalsOk
<1>2. /\ cut \in Nat /\ f.cut.ingress \in Nat
      /\ cut <= Len(f.attempts) /\ f.cut.ingress <= Len(f.ingress)
  BY DEF CutOk, CutType
<1>3. RetainedAttempts(f) = cut + 1 .. Len(f.attempts)  BY DEF RetainedAttempts
<1>4. FirstUnqueued(f) = Least(S)  BY DEF FirstUnqueued
<1>5. \A a \in DOMAIN f.attempts : f.attempts[a].request \in Requests
  <2>1. \A a \in DOMAIN f.attempts : f.attempts[a] \in Attempt  BY <1>1
  <2> QED  BY <2>1 DEF Attempt
<1>6. S \in SUBSET (Nat \ {0})
  <2>1. \A n \in Kept : n \in cut + 1 .. Len(f.attempts)  BY <1>3
  <2>2. \A n \in Kept : n - cut \in Nat \ {0}  BY <2>1, <1>1, <1>2
  <2> HIDE DEF Kept
  <2> QED  BY <2>2
<1>7. ASSUME NEW r \in Requests
      PROVE  /\ f.receipts[r] = IF /\ r \notin f.retired
                                   /\ CarrierOf(f.ingress, r) \in 1 .. f.cut.ingress
                                   /\ f.ingress[CarrierOf(f.ingress, r)].decision = None
                                THEN CarrierOf(f.ingress, r) ELSE 0
             /\ r \in f.nested <=> /\ CarrierOf(f.ingress, r) \in 1 .. f.cut.ingress
                                   /\ f.ingress[CarrierOf(f.ingress, r)].decision # None
             /\ f.queued[r] = IF CarrierOf(f.ingress, r) > f.cut.ingress THEN 1 ELSE 0
             /\ r \in f.retired => AttemptOf(f.attempts, r) \in 1 .. cut
  BY <1>7 DEF TablesOk, RetiredOk, ReceiptsOf, NestedOf, QueuedOf
<1>8. CASE f.ingress = <<>>
  <2>1. Len(f.ingress) = 0  BY <1>8
  <2>2. \A r \in Requests : CarrierOf(f.ingress, r) = 0
    <3>1. ASSUME NEW r \in Requests PROVE CarriersOf(f.ingress, r) = {}
      BY <1>8 DEF CarriersOf
    <3> QED  BY <3>1, LeastNone DEF CarrierOf
  <2>3. \A r \in Requests : IsUnqueued(f, r)
    <3> SUFFICES ASSUME NEW r \in Requests PROVE IsUnqueued(f, r)
      OBVIOUS
    <3>1. f.receipts[r] = 0 /\ r \notin f.nested /\ f.queued[r] = 0
      BY <1>7, <1>2, <2>1, <2>2
    <3> QED  BY <3>1 DEF IsUnqueued, ArchivedQueued
  <2>4. Kept = cut + 1 .. Len(f.attempts)
    BY <2>3, <1>1, <1>2, <1>3, <1>5
  <2>5. CASE Len(f.attempts) > cut
    <3>1. cut + 1 \in Kept  BY <2>4, <2>5, <1>2
    <3>2. 1 \in S  BY <3>1, <1>2
    <3>3. Least(S) = 1  BY <3>2, <1>6, LeastFirst
    <3> QED  BY <3>3, <1>4, <1>8, <2>5 DEF UnqueuedAt
  <2>6. CASE ~(Len(f.attempts) > cut)
    <3>1. Kept = {}  BY <2>4, <2>6, <1>1, <1>2
    <3>2. S = {}  BY <3>1
    <3> HIDE DEF S
    <3>3. Least(S) = 0  BY <3>2, LeastNone
    <3> QED  BY <3>3, <1>4, <2>6 DEF UnqueuedAt
  <2> QED  BY <2>5, <2>6
<1>9. CASE f.ingress # <<>>
  <2>1. ASSUME NEW a \in RetainedAttempts(f) PROVE ~IsUnqueued(f, f.attempts[a].request)
    <3> DEFINE r == f.attempts[a].request
               i == CarrierOf(f.ingress, r)
    <3>1. a \in DOMAIN f.attempts /\ a > cut  BY <2>1, <1>1, <1>2, <1>3
    <3>2. r \in Requests  BY <3>1, <1>5
    <3>3. AttemptOf(f.attempts, r) = a  BY <3>1, <3>2, Lookups
    <3>4. i # 0 /\ i \in 0 .. Len(f.ingress)
      <4>1. CarriersOf(f.ingress, r) # {}  BY <3>1, <1>1, <1>9 DEF Apart
      <4>2. i = 0 => CarriersOf(f.ingress, r) = {}
        <5>1. i = 0 => \A n \in DOMAIN f.ingress : f.ingress[n].request # r
          BY <3>2, Lookups
        <5> QED  BY <5>1 DEF CarriersOf
      <4>3. i \in 0 .. Len(f.ingress)  BY <3>2, Lookups
      <4> QED  BY <4>1, <4>2, <4>3
    <3>5. r \notin f.retired  BY <1>7, <3>1, <3>2, <3>3, <1>2
    <3>6. f.queued[r] # 0 \/ f.receipts[r] # 0 \/ r \in f.nested
      <4> HIDE DEF i, r
      <4>1. Len(f.ingress) \in Nat  BY <1>1
      <4>2. CASE i > f.cut.ingress
        <5>1. f.queued[r] = 1  BY <1>7, <3>2, <4>2 DEF i
        <5> QED  BY <5>1
      <4>3. CASE i \in 1 .. f.cut.ingress /\ f.ingress[i].decision = None
        <5>1. f.receipts[r] = i  BY <1>7, <3>2, <3>5, <4>3 DEF i
        <5> QED  BY <5>1, <3>4
      <4>4. CASE i \in 1 .. f.cut.ingress /\ f.ingress[i].decision # None
        BY <1>7, <3>2, <4>4 DEF i
      <4>5. i > f.cut.ingress \/ i \in 1 .. f.cut.ingress  BY <3>4, <1>2, <4>1
      <4> QED  BY <4>2, <4>3, <4>4, <4>5
    <3> QED  BY <3>6 DEF IsUnqueued, ArchivedQueued
  <2>2. Kept = {}  BY <2>1
  <2>3. S = {}  BY <2>2
  <2> HIDE DEF S
  <2>4. Least(S) = 0  BY <2>3, LeastNone
  <2> QED  BY <2>4, <1>4, <1>9 DEF UnqueuedAt
<1> QED  BY <1>8, <1>9

(* The retained ingress records of a request are its carrier, or none.      *)
LEMMA QueuedCount ==
    ASSUME NEW e, JournalsOk(e.commands, e.attempts, e.ingress), CutOk(e),
           NEW r \in Requests
    PROVE  Cardinality({i \in RetainedIngress(e) : e.ingress[i].request = r})
               = IF CarrierOf(e.ingress, r) > e.cut.ingress THEN 1 ELSE 0
<1> DEFINE c == CarrierOf(e.ingress, r)
           S == {i \in RetainedIngress(e) : e.ingress[i].request = r}
<1>1. e.ingress \in Seq(IngressRecord)  BY DEF JournalsOk
<1>2. e.cut.ingress \in Nat /\ e.cut.ingress <= Len(e.ingress)  BY DEF CutOk, CutType
<1>3. RetainedIngress(e) = e.cut.ingress + 1 .. Len(e.ingress)  BY DEF RetainedIngress
<1>4. /\ c \in 0 .. Len(e.ingress)
      /\ c # 0 => c \in DOMAIN e.ingress /\ e.ingress[c].request = r
      /\ \A n \in DOMAIN e.ingress : e.ingress[n].request = r => c = n
  BY Lookups
<1>5. DOMAIN e.ingress = 1 .. Len(e.ingress) /\ Len(e.ingress) \in Nat  BY <1>1
<1>6. \A n : n \in S <=> n \in e.cut.ingress + 1 .. Len(e.ingress) /\ e.ingress[n].request = r
  BY <1>3
<1> HIDE DEF c, S
<1>7. c > e.cut.ingress => S = {c}
  BY <1>2, <1>4, <1>5, <1>6
<1>8. ~(c > e.cut.ingress) => S = {}
  BY <1>2, <1>4, <1>5, <1>6
<1>9. Cardinality({}) = 0 /\ Cardinality({c}) = 1  BY FS_EmptySet, FS_Singleton
<1>10. Cardinality(S) = IF c > e.cut.ingress THEN 1 ELSE 0  BY <1>7, <1>8, <1>9
<1> QED  BY <1>10 DEF c, S

(* The first retained attempt of a request is its attempt, or none.         *)
LEMMA FirstFound ==
    ASSUME NEW e, JournalsOk(e.commands, e.attempts, e.ingress), CutOk(e),
           NEW r \in Requests
    PROVE  Least({n - e.cut.attempts :
                  n \in {a \in RetainedAttempts(e) : e.attempts[a].request = r}})
               = IF AttemptOf(e.attempts, r) > e.cut.attempts
                 THEN AttemptOf(e.attempts, r) - e.cut.attempts ELSE 0
<1> DEFINE c == AttemptOf(e.attempts, r)
           cut == e.cut.attempts
           S == {a \in RetainedAttempts(e) : e.attempts[a].request = r}
           P == {n - cut : n \in S}
<1>1. e.attempts \in Seq(Attempt)  BY DEF JournalsOk
<1>2. cut \in Nat /\ cut <= Len(e.attempts)  BY DEF CutOk, CutType
<1>3. RetainedAttempts(e) = cut + 1 .. Len(e.attempts)  BY DEF RetainedAttempts
<1>4. /\ c \in 0 .. Len(e.attempts)
      /\ c # 0 => c \in DOMAIN e.attempts /\ e.attempts[c].request = r
      /\ \A n \in DOMAIN e.attempts : e.attempts[n].request = r => c = n
  BY Lookups
<1>5. DOMAIN e.attempts = 1 .. Len(e.attempts) /\ Len(e.attempts) \in Nat  BY <1>1
<1>6. \A n : n \in S <=> n \in cut + 1 .. Len(e.attempts) /\ e.attempts[n].request = r
  BY <1>3
<1>7. CASE c > cut
  <2>1. S = {c}  BY <1>2, <1>4, <1>5, <1>6, <1>7
  <2>2. P = {c - cut}  BY <2>1
  <2>3. P \in SUBSET Nat /\ AtMostOne(P) /\ c - cut \in P
    <3>1. c - cut \in Nat  BY <1>2, <1>4, <1>5, <1>7
    <3> HIDE DEF P, c, cut
    <3> QED  BY <2>2, <3>1 DEF AtMostOne
  <2>4. Least(P) = c - cut
    <3> HIDE DEF P
    <3> QED  BY <2>3, LeastOne
  <2> QED  BY <2>4, <1>7
<1>8. CASE ~(c > cut)
  <2>1. S = {}  BY <1>2, <1>4, <1>5, <1>6, <1>8
  <2>2. P = {}  BY <2>1
  <2>3. Least(P) = 0
    <3> HIDE DEF P
    <3> QED  BY <2>2, LeastNone
  <2> QED  BY <2>3, <1>8
<1> QED  BY <1>7, <1>8

(* The first retained direct command: direct commands come alone.           *)
LEMMA DirectFound ==
    ASSUME NEW e, JournalsOk(e.commands, e.attempts, e.ingress), CutOk(e)
    PROVE  Least({n - e.cut.commands :
                  n \in {c \in RetainedCommands(e) : e.commands[c] = Direct}})
               = DirectOf(e.commands, e.attempts, e.cut)
<1> DEFINE cut == e.cut.commands
           S == {c \in RetainedCommands(e) : e.commands[c] = Direct}
           P == {n - cut : n \in S}
<1>1. /\ e.commands \in Seq(Nat) /\ Linked(e.commands, e.attempts)
      /\ Apart(e.commands, e.attempts, e.ingress)
  BY DEF JournalsOk
<1>2. cut \in Nat /\ cut <= Len(e.commands)  BY DEF CutOk, CutType
<1>3. RetainedCommands(e) = cut + 1 .. Len(e.commands)  BY DEF RetainedCommands
<1>4. DOMAIN e.commands = 1 .. Len(e.commands) /\ Len(e.commands) \in Nat  BY <1>1
<1>5. P \in SUBSET (Nat \ {0})  BY <1>2, <1>3
<1>6. CASE e.attempts = <<>> /\ Len(e.commands) > cut
  <2>1. e.commands[cut + 1] = 0
    BY <1>1, <1>2, <1>4, <1>6 DEF Linked
  <2>2. cut + 1 \in S  BY <2>1, <1>2, <1>3, <1>4, <1>6 DEF Direct
  <2>3. 1 \in P  BY <2>2, <1>2
  <2>4. Least(P) = 1  BY <2>3, <1>5, LeastFirst
  <2> QED  BY <2>4, <1>6 DEF DirectOf
<1>7. CASE ~(e.attempts = <<>> /\ Len(e.commands) > cut)
  <2>1. S = {}
    <3> SUFFICES ASSUME NEW c \in S PROVE FALSE
      OBVIOUS
    <3>1. c \in DOMAIN e.commands /\ e.commands[c] = 0 /\ Len(e.commands) > cut
      BY <1>2, <1>3, <1>4 DEF Direct
    <3> QED  BY <3>1, <1>1, <1>7 DEF Apart
  <2>2. P = {}  BY <2>1
  <2>3. Least(P) = 0
    <3> HIDE DEF P
    <3> QED  BY <2>2, LeastNone
  <2> QED  BY <2>3, <1>7 DEF DirectOf
<1> QED  BY <1>6, <1>7

(* Rebuild leaves the journals and tables and puts the index in form.       *)
LEMMA Rebuilt ==
    ASSUME NEW e \in EvidenceType, NEW at, JournalsOk(e.commands, e.attempts, e.ingress),
           CutOk(e), TablesOk(e, at)
    PROVE  /\ EvidenceOk(Rebuild(e), at)
           /\ Rebuild(e).commands = e.commands /\ Rebuild(e).attempts = e.attempts
           /\ Rebuild(e).ingress = e.ingress /\ Rebuild(e).cut = e.cut
           /\ Rebuild(e).retired = e.retired /\ Rebuild(e).pinned = e.pinned
           /\ Rebuild(e).outcomes = e.outcomes /\ Rebuild(e).receipts = e.receipts
<1> DEFINE Q == QueuedOf(e.ingress, e.cut)
           F == FirstOf(e.attempts, e.cut)
           D == DirectOf(e.commands, e.attempts, e.cut)
           U == UnqueuedAt(e.attempts, e.ingress, e.cut)
           indexed == [e EXCEPT !.queued = Q, !.first = F, !.direct = D]
<1>1. [r \in Requests |->
          Cardinality({i \in RetainedIngress(e) : e.ingress[i].request = r})] = Q
  BY QueuedCount DEF QueuedOf
<1>2. [r \in Requests |->
          Least({n - e.cut.attempts :
                 n \in {a \in RetainedAttempts(e) : e.attempts[a].request = r}})] = F
  BY FirstFound DEF FirstOf
<1>3. Least({n - e.cut.commands :
             n \in {c \in RetainedCommands(e) : e.commands[c] = Direct}}) = D
  BY DirectFound
<1>4. Rebuild(e) = [indexed EXCEPT !.unqueued = FirstUnqueued(indexed)]
  BY <1>1, <1>2, <1>3 DEF Rebuild
<1>5. Q \in [Requests -> Nat] /\ F \in [Requests -> Nat] /\ D \in Nat /\ U \in Nat
  <2>1. Q \in [Requests -> Nat]  BY DEF QueuedOf
  <2>2. ASSUME NEW r \in Requests PROVE FirstOf(e.attempts, e.cut)[r] \in Nat
    <3>1. AttemptOf(e.attempts, r) \in 0 .. Len(e.attempts) /\ e.attempts \in Seq(Attempt)
      BY Lookups DEF JournalsOk
    <3>2. e.cut.attempts \in Nat  BY DEF CutOk, CutType
    <3> QED  BY <3>1, <3>2 DEF FirstOf
  <2>3. F \in [Requests -> Nat]  BY <2>2 DEF FirstOf
  <2>4. D \in Nat /\ U \in Nat  BY DEF DirectOf, UnqueuedAt
  <2> QED  BY <2>1, <2>3, <2>4
<1> HIDE DEF Q, F, D, U
<1>6. /\ indexed.commands = e.commands /\ indexed.attempts = e.attempts
      /\ indexed.ingress = e.ingress /\ indexed.cut = e.cut
      /\ indexed.outcomes = e.outcomes /\ indexed.receipts = e.receipts
      /\ indexed.decisions = e.decisions /\ indexed.nested = e.nested
      /\ indexed.retired = e.retired /\ indexed.legacy = e.legacy
      /\ indexed.tracked = e.tracked /\ indexed.unqueuedHistory = e.unqueuedHistory
      /\ indexed.pinned = e.pinned /\ indexed.queued = Q /\ indexed.first = F
      /\ indexed.direct = D
  BY DEF EvidenceType
<1>7. indexed \in EvidenceType
  BY <1>5 DEF EvidenceType
<1> HIDE DEF indexed
<1>8. FirstUnqueued(indexed) = U
  <2>1. CutOk(indexed)  BY <1>6 DEF CutOk
  <2>2. TablesOk(indexed, at)  BY <1>6 DEF TablesOk, RetiredOk
  <2>3. JournalsOk(indexed.commands, indexed.attempts, indexed.ingress)  BY <1>6
  <2>4. indexed.queued = QueuedOf(indexed.ingress, indexed.cut)  BY <1>6 DEF Q
  <2> QED  BY <2>1, <2>2, <2>3, <2>4, <1>6, UnqueuedFound DEF U
<1>9. PICK f : f = [indexed EXCEPT !.unqueued = U]  OBVIOUS
<1>10. Rebuild(e) = f  BY <1>4, <1>8, <1>9
<1>11. /\ f.commands = e.commands /\ f.attempts = e.attempts
       /\ f.ingress = e.ingress /\ f.cut = e.cut
       /\ f.outcomes = e.outcomes /\ f.receipts = e.receipts
       /\ f.decisions = e.decisions /\ f.nested = e.nested
       /\ f.retired = e.retired /\ f.legacy = e.legacy
       /\ f.tracked = e.tracked /\ f.unqueuedHistory = e.unqueuedHistory
       /\ f.pinned = e.pinned /\ f.queued = Q /\ f.first = F
       /\ f.direct = D /\ f.unqueued = U /\ f \in EvidenceType
  BY <1>5, <1>6, <1>7, <1>9 DEF EvidenceType
<1>12. EvidenceOk(f, at)
  <2>1. CutOk(f)  BY <1>11 DEF CutOk
  <2>2. TablesOk(f, at)  BY <1>11 DEF TablesOk, RetiredOk
  <2>3. JournalsOk(f.commands, f.attempts, f.ingress)  BY <1>11
  <2>4. IndexOk(f)  BY <1>11 DEF IndexOk, Q, F, D, U
  <2> QED  BY <2>1, <2>2, <2>3, <2>4, <1>11 DEF EvidenceOk
<1> QED  BY <1>10, <1>11, <1>12

(* The index of a history in form is the one a rebuild finds.               *)
LEMMA RebuildSame ==
    ASSUME NEW e, NEW at, EvidenceOk(e, at)
    PROVE  Rebuild(e) = e
<1>1. /\ e \in EvidenceType /\ JournalsOk(e.commands, e.attempts, e.ingress)
      /\ CutOk(e) /\ TablesOk(e, at)
  BY DEF EvidenceOk
<1>2. /\ EvidenceOk(Rebuild(e), at)
      /\ Rebuild(e).commands = e.commands /\ Rebuild(e).attempts = e.attempts
      /\ Rebuild(e).ingress = e.ingress /\ Rebuild(e).cut = e.cut
      /\ Rebuild(e).retired = e.retired /\ Rebuild(e).pinned = e.pinned
  BY <1>1, Rebuilt
<1> QED  BY <1>2, Determined

-----------------------------------------------------------------------------
(* Seals, continuations and reloads.                                        *)

Latest(old, S) == IF S = {} THEN old ELSE CHOOSE n \in S : \A o \in S : o <= n

(* The latest of nothing is what was there; of one position, that position. *)
LEMMA LatestKind ==
    ASSUME NEW old, NEW S, NEW x \in Nat
    PROVE  (S = {} => Latest(old, S) = old) /\ (S = {x} => Latest(old, S) = x)
<1>1. ASSUME S = {x} PROVE (CHOOSE n \in S : \A o \in S : o <= n) = x
  <2>1. x \in S /\ \A o \in S : o <= x  BY <1>1
  <2>2. \A n \in S : n = x  BY <1>1
  <2> QED  BY <2>1, <2>2
<1> QED  BY <1>1 DEF Latest

(* A seal may cut where the settled boundaries end.                         *)
CutForward(e, cut) ==
    /\ cut \in CutType
    /\ e.cut.commands <= cut.commands /\ cut.commands <= Len(e.commands)
    /\ e.cut.attempts <= cut.attempts /\ cut.attempts <= Len(e.attempts)
    /\ cut.ingress = Len(e.ingress)
    /\ Aligned(e.attempts, cut)

(* The outcomes a seal adds to the table.                                   *)
LEMMA OutcomesTabled ==
    ASSUME NEW e, NEW at, EvidenceOk(e, at), NEW cut, CutForward(e, cut),
           NEW r \in Requests
    PROVE  Latest(e.outcomes[r], {n \in e.cut.attempts + 1 .. cut.attempts :
                                  e.attempts[n].request = r})
               = OutcomesOf(e.attempts, cut, e.retired)[r]
<1> DEFINE c == AttemptOf(e.attempts, r)
           S == {n \in e.cut.attempts + 1 .. cut.attempts : e.attempts[n].request = r}
           old == e.outcomes[r]
<1>1. /\ cut.attempts \in Nat /\ e.cut.attempts <= cut.attempts
      /\ cut.attempts <= Len(e.attempts)
  BY DEF CutForward, CutType
<1>2. /\ c \in 0 .. Len(e.attempts)
      /\ c # 0 => c \in DOMAIN e.attempts /\ e.attempts[c].request = r
      /\ \A n \in DOMAIN e.attempts : e.attempts[n].request = r => c = n
      /\ e.cut.attempts \in 0 .. Len(e.attempts) /\ Len(e.attempts) \in Nat
      /\ DOMAIN e.attempts = 1 .. Len(e.attempts)
  BY Fields, Lookups
<1>3. /\ old = IF r \notin e.retired /\ c <= e.cut.attempts THEN c ELSE 0
      /\ r \in e.retired => c \in 1 .. e.cut.attempts
  BY Entries
<1>4. OutcomesOf(e.attempts, cut, e.retired)[r]
          = IF r \notin e.retired /\ c <= cut.attempts THEN c ELSE 0
  BY DEF OutcomesOf
<1>5. \A n : n \in S <=> n \in e.cut.attempts + 1 .. cut.attempts /\ e.attempts[n].request = r
  OBVIOUS
<1> HIDE DEF c, S, old
<1>6. CASE c \in e.cut.attempts + 1 .. cut.attempts
  <2>1. S = {c}  BY <1>1, <1>2, <1>5, <1>6
  <2>2. Latest(old, S) = c  BY <2>1, <1>2, LatestKind
  <2>3. r \notin e.retired /\ c <= cut.attempts  BY <1>1, <1>2, <1>3, <1>6
  <2> QED  BY <2>2, <2>3, <1>4 DEF S, old
<1>7. CASE c \notin e.cut.attempts + 1 .. cut.attempts
  <2>1. S = {}  BY <1>1, <1>2, <1>5, <1>7
  <2>2. Latest(old, S) = old  BY <2>1, LatestKind
  <2>3. c <= e.cut.attempts <=> c <= cut.attempts  BY <1>1, <1>2, <1>7
  <2> QED  BY <2>2, <2>3, <1>3, <1>4 DEF S, old
<1> QED  BY <1>6, <1>7

(* The receipts a seal adds to the table.                                   *)
LEMMA ReceiptsTabled ==
    ASSUME NEW e, NEW at, EvidenceOk(e, at), NEW cut, CutForward(e, cut),
           NEW r \in Requests
    PROVE  Latest(e.receipts[r],
                  {i \in e.cut.ingress + 1 .. cut.ingress :
                   e.ingress[i].decision = None /\ e.ingress[i].request = r})
               = ReceiptsOf(e.ingress, cut, e.retired)[r]
<1> DEFINE c == CarrierOf(e.ingress, r)
           own == e.ingress[c].decision = None
           S == {i \in e.cut.ingress + 1 .. cut.ingress :
                 e.ingress[i].decision = None /\ e.ingress[i].request = r}
           old == e.receipts[r]
<1>1. cut.ingress = Len(e.ingress)  BY DEF CutForward
<1>2. /\ c \in 0 .. Len(e.ingress)
      /\ c # 0 => c \in DOMAIN e.ingress /\ e.ingress[c].request = r
      /\ \A n \in DOMAIN e.ingress : e.ingress[n].request = r => c = n
      /\ e.cut.ingress \in 0 .. Len(e.ingress) /\ Len(e.ingress) \in Nat
      /\ DOMAIN e.ingress = 1 .. Len(e.ingress)
  BY Fields, Lookups
<1>3. /\ old = IF r \notin e.retired /\ c \in 1 .. e.cut.ingress /\ own THEN c ELSE 0
      /\ r \in e.retired => c <= e.cut.ingress
  BY Entries
<1>4. ReceiptsOf(e.ingress, cut, e.retired)[r]
          = IF r \notin e.retired /\ c \in 1 .. cut.ingress /\ own THEN c ELSE 0
  BY DEF ReceiptsOf
<1>5. \A i : i \in S <=> /\ i \in e.cut.ingress + 1 .. cut.ingress
                         /\ e.ingress[i].decision = None /\ e.ingress[i].request = r
  OBVIOUS
<1>6. own <=> e.ingress[c].decision = None  OBVIOUS
<1> HIDE DEF c, S, old, own
<1>7. CASE c \in e.cut.ingress + 1 .. cut.ingress /\ own
  <2>1. S = {c}  BY <1>1, <1>2, <1>5, <1>6, <1>7
  <2>2. Latest(old, S) = c  BY <2>1, <1>2, LatestKind
  <2>3. r \notin e.retired /\ c \in 1 .. cut.ingress  BY <1>1, <1>2, <1>3, <1>7
  <2> QED  BY <2>2, <2>3, <1>4, <1>7 DEF S, old
<1>8. CASE ~(c \in e.cut.ingress + 1 .. cut.ingress /\ own)
  <2>1. S = {}
    <3> SUFFICES ASSUME NEW i \in S PROVE FALSE
      OBVIOUS
    <3>1. i \in DOMAIN e.ingress  BY <1>1, <1>2, <1>5
    <3>2. i = c  BY <3>1, <1>2, <1>5
    <3> QED  BY <3>2, <1>5, <1>6, <1>8
  <2>2. Latest(old, S) = old  BY <2>1, LatestKind
  <2>3. own => (c \in 1 .. e.cut.ingress <=> c \in 1 .. cut.ingress)
    BY <1>1, <1>2, <1>8
  <2> QED  BY <2>2, <2>3, <1>3, <1>4 DEF S, old
<1> QED  BY <1>7, <1>8

(* The decision receipts a seal adds to the table.                          *)
LEMMA DecisionsTabled ==
    ASSUME NEW e, NEW at, EvidenceOk(e, at), NEW cut, CutForward(e, cut),
           NEW d \in DecisionIds
    PROVE  Latest(e.decisions[d], {i \in e.cut.ingress + 1 .. cut.ingress :
                                   e.ingress[i].decision = d})
               = DecisionsOf(e.ingress, cut)[d]
<1> DEFINE c == DeciderOf(e.ingress, d)
           S == {i \in e.cut.ingress + 1 .. cut.ingress : e.ingress[i].decision = d}
           old == e.decisions[d]
<1>1. cut.ingress = Len(e.ingress)  BY DEF CutForward
<1>2. /\ c \in 0 .. Len(e.ingress)
      /\ c # 0 => c \in DOMAIN e.ingress /\ e.ingress[c].decision = d
      /\ \A n \in DOMAIN e.ingress : e.ingress[n].decision = d => c = n
      /\ e.cut.ingress \in 0 .. Len(e.ingress) /\ Len(e.ingress) \in Nat
      /\ DOMAIN e.ingress = 1 .. Len(e.ingress)
  BY Fields, Lookups
<1>3. old = IF c <= e.cut.ingress THEN c ELSE 0
  BY DEF EvidenceOk, TablesOk, DecisionsOf
<1>4. DecisionsOf(e.ingress, cut)[d] = IF c <= cut.ingress THEN c ELSE 0
  BY DEF DecisionsOf
<1>5. \A i : i \in S <=> i \in e.cut.ingress + 1 .. cut.ingress /\ e.ingress[i].decision = d
  OBVIOUS
<1> HIDE DEF c, S, old
<1>6. CASE c > e.cut.ingress
  <2>1. S = {c}  BY <1>1, <1>2, <1>5, <1>6
  <2>2. Latest(old, S) = c  BY <2>1, <1>2, LatestKind
  <2> QED  BY <2>2, <1>1, <1>2, <1>4 DEF S, old
<1>7. CASE ~(c > e.cut.ingress)
  <2>1. S = {}  BY <1>1, <1>2, <1>5, <1>7
  <2>2. Latest(old, S) = old  BY <2>1, LatestKind
  <2>3. c <= e.cut.ingress /\ c <= cut.ingress  BY <1>1, <1>2, <1>7
  <2> QED  BY <2>2, <2>3, <1>3, <1>4 DEF S, old
<1> QED  BY <1>6, <1>7

(* The nested requests a seal adds.                                         *)
LEMMA NestedTabled ==
    ASSUME NEW e, NEW at, EvidenceOk(e, at), NEW cut, CutForward(e, cut)
    PROVE  e.nested \cup {r \in Requests : \E i \in e.cut.ingress + 1 .. cut.ingress :
                              e.ingress[i].decision # None /\ e.ingress[i].request = r}
               = NestedOf(e.ingress, cut)
<1>1. cut.ingress = Len(e.ingress)  BY DEF CutForward
<1>2. e.cut.ingress \in 0 .. Len(e.ingress) /\ Len(e.ingress) \in Nat
      /\ DOMAIN e.ingress = 1 .. Len(e.ingress)
  BY Fields
<1>3. ASSUME NEW r \in Requests
      PROVE  r \in NestedOf(e.ingress, cut)
                 <=> \/ r \in e.nested
                     \/ \E i \in e.cut.ingress + 1 .. cut.ingress :
                            e.ingress[i].decision # None /\ e.ingress[i].request = r
  <2> DEFINE c == CarrierOf(e.ingress, r)
             nested == e.ingress[c].decision # None
  <2>1. /\ c \in 0 .. Len(e.ingress)
        /\ c # 0 => c \in DOMAIN e.ingress /\ e.ingress[c].request = r
        /\ \A n \in DOMAIN e.ingress : e.ingress[n].request = r => c = n
    BY Fields, Lookups
  <2>2. r \in e.nested <=> c \in 1 .. e.cut.ingress /\ nested  BY Entries
  <2>3. r \in NestedOf(e.ingress, cut) <=> c \in 1 .. cut.ingress /\ nested
    BY DEF NestedOf
  <2>4. nested <=> e.ingress[c].decision # None  OBVIOUS
  <2> HIDE DEF c, nested
  <2>5. (\E i \in e.cut.ingress + 1 .. cut.ingress :
             e.ingress[i].decision # None /\ e.ingress[i].request = r)
            <=> c \in e.cut.ingress + 1 .. cut.ingress /\ nested
    <3>1. ASSUME NEW i \in e.cut.ingress + 1 .. cut.ingress, e.ingress[i].decision # None,
                 e.ingress[i].request = r
          PROVE  c \in e.cut.ingress + 1 .. cut.ingress /\ nested
      <4>1. i \in DOMAIN e.ingress  BY <1>1, <1>2
      <4>2. i = c  BY <4>1, <2>1, <3>1
      <4> QED  BY <4>2, <2>4, <3>1
    <3>2. ASSUME c \in e.cut.ingress + 1 .. cut.ingress, nested
          PROVE  \E i \in e.cut.ingress + 1 .. cut.ingress :
                     e.ingress[i].decision # None /\ e.ingress[i].request = r
      <4>1. c # 0  BY <3>2, <1>2
      <4> QED  BY <4>1, <3>2, <2>1, <2>4
    <3> QED  BY <3>1, <3>2
  <2>6. c \in 1 .. cut.ingress <=>
            c \in 1 .. e.cut.ingress \/ c \in e.cut.ingress + 1 .. cut.ingress
    BY <1>1, <1>2, <2>1
  <2> QED  BY <2>2, <2>3, <2>5, <2>6
<1>4. e.nested \in SUBSET Requests /\ NestedOf(e.ingress, cut) \in SUBSET Requests
  BY DEF EvidenceOk, EvidenceType, NestedOf
<1> QED  BY <1>3, <1>4

(* Direct commands fill a history, or there are none.                       *)
LEMMA DirectAlone ==
    ASSUME NEW e, NEW at, EvidenceOk(e, at)
    PROVE  \A c \in DOMAIN e.commands : e.commands[c] = 0 <=> e.attempts = <<>>
<1>1. Linked(e.commands, e.attempts) /\ Apart(e.commands, e.attempts, e.ingress)
  BY DEF EvidenceOk, JournalsOk
<1>2. \A c \in DOMAIN e.commands : e.commands[c] = 0 => e.attempts = <<>>
  BY <1>1 DEF Apart
<1>3. e.attempts = <<>> => \A c \in DOMAIN e.commands : e.commands[c] = 0
  <2> SUFFICES ASSUME e.attempts = <<>>, NEW c \in DOMAIN e.commands
               PROVE  e.commands[c] = 0
    OBVIOUS
  <2>1. DOMAIN e.attempts = {}  BY DOMAIN <<>> = {}
  <2> QED  BY <2>1, <1>1 DEF Linked
<1> QED  BY <1>2, <1>3

(* The flag of direct commands a seal sets.                                 *)
LEMMA LegacyTabled ==
    ASSUME NEW e, NEW at, EvidenceOk(e, at), NEW cut, CutForward(e, cut)
    PROVE  (e.legacy \/ \E c \in e.cut.commands + 1 .. cut.commands : e.commands[c] = Direct)
               <=> LegacyOf(e.attempts, cut)
<1>1. /\ e.cut.commands \in 0 .. Len(e.commands) /\ Len(e.commands) \in Nat
      /\ DOMAIN e.commands = 1 .. Len(e.commands)
  BY Fields
<1>2. /\ cut.commands \in Nat /\ e.cut.commands <= cut.commands
      /\ cut.commands <= Len(e.commands)
  BY DEF CutForward, CutType
<1>3. e.legacy <=> e.attempts = <<>> /\ e.cut.commands > 0
  BY DEF EvidenceOk, TablesOk, LegacyOf
<1>4. \A c \in e.cut.commands + 1 .. cut.commands : e.commands[c] = 0 <=> e.attempts = <<>>
  BY <1>1, <1>2, DirectAlone
<1>5. (\E c \in e.cut.commands + 1 .. cut.commands : e.commands[c] = 0)
          <=> e.attempts = <<>> /\ cut.commands > e.cut.commands
  <2>1. cut.commands > e.cut.commands => cut.commands \in e.cut.commands + 1 .. cut.commands
    BY <1>1, <1>2
  <2>2. \A c \in e.cut.commands + 1 .. cut.commands : cut.commands > e.cut.commands
    BY <1>1, <1>2
  <2> QED  BY <2>1, <2>2, <1>4
<1>6. cut.commands > 0 <=> e.cut.commands > 0 \/ cut.commands > e.cut.commands
  BY <1>1, <1>2
<1> QED  BY <1>3, <1>5, <1>6 DEF LegacyOf, Direct

(* The flag of tracked history a seal sets.                                 *)
LEMMA TrackedTabled ==
    ASSUME NEW e, NEW at, EvidenceOk(e, at), NEW cut, CutForward(e, cut)
    PROVE  (\/ e.tracked \/ e.cut.attempts + 1 .. cut.attempts # {}
            \/ e.cut.ingress + 1 .. cut.ingress # {})
               <=> cut.attempts > 0 \/ cut.ingress > 0
<1>1. e.cut.ingress \in 0 .. Len(e.ingress) /\ Len(e.ingress) \in Nat
      /\ e.cut.attempts \in 0 .. Len(e.attempts) /\ Len(e.attempts) \in Nat
  BY Fields
<1>2. /\ cut.attempts \in Nat /\ e.cut.attempts <= cut.attempts
      /\ cut.ingress = Len(e.ingress)
  BY DEF CutForward, CutType
<1>3. e.tracked <=> e.cut.attempts > 0 \/ e.cut.ingress > 0
  BY DEF EvidenceOk, TablesOk
<1>4. \A m, n \in Nat : m + 1 .. n # {} <=> n > m
  <2> SUFFICES ASSUME NEW m \in Nat, NEW n \in Nat PROVE m + 1 .. n # {} <=> n > m
    OBVIOUS
  <2>1. n > m => n \in m + 1 .. n  OBVIOUS
  <2>2. \A x \in m + 1 .. n : n > m  OBVIOUS
  <2> QED  BY <2>1, <2>2
<1>5. /\ e.cut.attempts + 1 .. cut.attempts # {} <=> cut.attempts > e.cut.attempts
      /\ e.cut.ingress + 1 .. cut.ingress # {} <=> cut.ingress > e.cut.ingress
  BY <1>1, <1>2, <1>4
<1>6. /\ cut.attempts > 0 <=> e.cut.attempts > 0 \/ cut.attempts > e.cut.attempts
      /\ cut.ingress > 0 <=> e.cut.ingress > 0 \/ cut.ingress > e.cut.ingress
  BY <1>1, <1>2
<1> QED  BY <1>3, <1>5, <1>6

(* The flag of unqueued history a seal sets.                                *)
LEMMA UnqueuedTabled ==
    ASSUME NEW e, NEW at, EvidenceOk(e, at), NEW cut, CutForward(e, cut)
    PROVE  (\/ e.unqueuedHistory
            \/ \E c \in e.cut.commands + 1 .. cut.commands : e.commands[c] = Direct
            \/ \E n \in e.cut.attempts + 1 .. cut.attempts :
                   ~ \/ ArchivedQueued(e, e.attempts[n].request)
                     \/ \E i \in e.cut.ingress + 1 .. cut.ingress :
                            e.ingress[i].request = e.attempts[n].request)
               <=> UnqueuedOf(e.attempts, e.ingress, cut)
<1> DEFINE new == \E c \in e.cut.commands + 1 .. cut.commands : e.commands[c] = Direct
           carried(n) ==
               \/ ArchivedQueued(e, e.attempts[n].request)
               \/ \E i \in e.cut.ingress + 1 .. cut.ingress :
                      e.ingress[i].request = e.attempts[n].request
           fresh == e.cut.attempts + 1 .. cut.attempts
<1>1. /\ e.cut.ingress \in 0 .. Len(e.ingress) /\ Len(e.ingress) \in Nat
      /\ e.cut.attempts \in 0 .. Len(e.attempts) /\ Len(e.attempts) \in Nat
      /\ DOMAIN e.attempts = 1 .. Len(e.attempts) /\ e.attempts \in Seq(Attempt)
      /\ DOMAIN e.ingress = 1 .. Len(e.ingress)
  BY Fields
<1>2. /\ cut.attempts \in Nat /\ e.cut.attempts <= cut.attempts
      /\ cut.attempts <= Len(e.attempts) /\ cut.ingress = Len(e.ingress)
  BY DEF CutForward, CutType
<1>3. e.legacy \/ new <=> LegacyOf(e.attempts, cut)  BY LegacyTabled
<1>4. /\ e.unqueuedHistory <=> UnqueuedOf(e.attempts, e.ingress, e.cut)
      /\ e.legacy <=> LegacyOf(e.attempts, e.cut)
  BY DEF EvidenceOk, TablesOk
<1>5. \A n \in fresh : n \in DOMAIN e.attempts /\ n > e.cut.attempts
                       /\ e.attempts[n].request \in Requests
  <2>1. \A n \in fresh : n \in DOMAIN e.attempts /\ n > e.cut.attempts  BY <1>1, <1>2
  <2>2. \A n \in fresh : e.attempts[n] \in Attempt  BY <2>1, <1>1
  <2> QED  BY <2>1, <2>2 DEF Attempt
<1>6. CASE e.ingress = <<>>
  <2>1. Len(e.ingress) = 0  BY <1>6
  <2>2. \A n \in fresh : ~carried(n)
    <3> SUFFICES ASSUME NEW n \in fresh PROVE ~carried(n)
      OBVIOUS
    <3> DEFINE r == e.attempts[n].request
    <3>1. r \in Requests  BY <1>5
    <3>2. e.receipts[r] = 0 /\ r \notin e.nested
      BY <3>1, <1>1, <2>1, Entries
    <3>3. e.cut.ingress + 1 .. cut.ingress = {}  BY <1>1, <1>2, <2>1
    <3> QED  BY <3>2, <3>3 DEF ArchivedQueued
  <2>3. (\E n \in fresh : ~carried(n)) <=> cut.attempts > e.cut.attempts
    <3>1. cut.attempts > e.cut.attempts => cut.attempts \in fresh  BY <1>1, <1>2
    <3>2. \A n \in fresh : cut.attempts > e.cut.attempts  BY <1>1, <1>2
    <3> HIDE DEF carried, fresh
    <3> QED  BY <3>1, <3>2, <2>2
  <2>4. cut.attempts > 0 <=> e.cut.attempts > 0 \/ cut.attempts > e.cut.attempts
    BY <1>1, <1>2
  <2> HIDE DEF carried, fresh, new
  <2>5. e.unqueuedHistory \/ new \/ (\E n \in fresh : ~carried(n))
            <=> LegacyOf(e.attempts, cut) \/ cut.attempts > 0
    BY <1>3, <1>4, <1>6, <2>3, <2>4 DEF UnqueuedOf
  <2>6. UnqueuedOf(e.attempts, e.ingress, cut) <=> LegacyOf(e.attempts, cut) \/ cut.attempts > 0
    BY <1>6 DEF UnqueuedOf
  <2> QED  BY <2>5, <2>6 DEF carried, fresh, new
<1>7. CASE e.ingress # <<>>
  <2>1. \A n \in fresh : carried(n)
    <3> SUFFICES ASSUME NEW n \in fresh PROVE carried(n)
      OBVIOUS
    <3> DEFINE r == e.attempts[n].request
               i == CarrierOf(e.ingress, r)
    <3>1. r \in Requests /\ n \in DOMAIN e.attempts /\ n > e.cut.attempts  BY <1>5
    <3>2. AttemptOf(e.attempts, r) = n  BY <3>1, Lookups, Fields
    <3>3. r \notin e.retired  BY <3>1, <3>2, <1>1, Entries
    <3>4. /\ i \in 0 .. Len(e.ingress)
          /\ i # 0 => i \in DOMAIN e.ingress /\ e.ingress[i].request = r
          /\ i = 0 => \A m \in DOMAIN e.ingress : e.ingress[m].request # r
      BY <3>1, Lookups, Fields
    <3>5. i # 0
      <4>1. CarriersOf(e.ingress, r) # {}
        BY <3>1, <1>7 DEF EvidenceOk, JournalsOk, Apart
      <4> QED  BY <4>1, <3>4 DEF CarriersOf
    <3>6. CASE i > e.cut.ingress
      <4>1. i \in e.cut.ingress + 1 .. cut.ingress  BY <3>4, <3>6, <1>1, <1>2
      <4> QED  BY <4>1, <3>4, <3>5
    <3>7. CASE ~(i > e.cut.ingress)
      <4>1. i \in 1 .. e.cut.ingress  BY <3>4, <3>5, <3>7, <1>1
      <4>2. e.receipts[r] = i \/ r \in e.nested
        <5>1. e.receipts[r] = IF r \notin e.retired /\ i \in 1 .. e.cut.ingress
                                 /\ e.ingress[i].decision = None THEN i ELSE 0
          BY <3>1, Entries
        <5>2. r \in e.nested <=> i \in 1 .. e.cut.ingress /\ e.ingress[i].decision # None
          BY <3>1, Entries
        <5> QED  BY <5>1, <5>2, <4>1, <3>3
      <4>3. ArchivedQueued(e, r)  BY <4>2, <3>5 DEF ArchivedQueued
      <4> QED  BY <4>3
    <3> QED  BY <3>6, <3>7
  <2> HIDE DEF carried, fresh, new
  <2>2. e.unqueuedHistory \/ new \/ (\E n \in fresh : ~carried(n)) <=> LegacyOf(e.attempts, cut)
    BY <1>3, <1>4, <1>7, <2>1 DEF UnqueuedOf
  <2>3. UnqueuedOf(e.attempts, e.ingress, cut) <=> LegacyOf(e.attempts, cut)
    BY <1>7 DEF UnqueuedOf
  <2> QED  BY <2>2, <2>3 DEF carried, fresh, new
<1> QED  BY <1>6, <1>7

(* Tabled, with the cut and the pins: the tables are in form for the cut.   *)
LEMMA TablesKept ==
    ASSUME NEW e, NEW at, EvidenceOk(e, at), NEW cut, CutForward(e, cut)
    PROVE  /\ Tabled(e, cut) \in EvidenceType
           /\ Tabled(e, cut).commands = e.commands /\ Tabled(e, cut).attempts = e.attempts
           /\ Tabled(e, cut).ingress = e.ingress /\ Tabled(e, cut).retired = e.retired
           /\ Tabled(e, cut).outcomes = OutcomesOf(e.attempts, cut, e.retired)
           /\ Tabled(e, cut).receipts = ReceiptsOf(e.ingress, cut, e.retired)
           /\ Tabled(e, cut).decisions = DecisionsOf(e.ingress, cut)
           /\ Tabled(e, cut).nested = NestedOf(e.ingress, cut)
           /\ Tabled(e, cut).legacy = LegacyOf(e.attempts, cut)
           /\ Tabled(e, cut).tracked = (cut.attempts > 0 \/ cut.ingress > 0)
           /\ Tabled(e, cut).unqueuedHistory = UnqueuedOf(e.attempts, e.ingress, cut)
<1> DEFINE O == OutcomesOf(e.attempts, cut, e.retired)
           R == ReceiptsOf(e.ingress, cut, e.retired)
           D == DecisionsOf(e.ingress, cut)
           N == NestedOf(e.ingress, cut)
           L == LegacyOf(e.attempts, cut)
           T == cut.attempts > 0 \/ cut.ingress > 0
           U == UnqueuedOf(e.attempts, e.ingress, cut)
<1>1. [r \in Requests |->
          Latest(e.outcomes[r], {n \in e.cut.attempts + 1 .. cut.attempts :
                                 e.attempts[n].request = r})] = O
  BY OutcomesTabled DEF OutcomesOf
<1>2. [r \in Requests |->
          Latest(e.receipts[r],
                 {i \in e.cut.ingress + 1 .. cut.ingress :
                  e.ingress[i].decision = None /\ e.ingress[i].request = r})] = R
  BY ReceiptsTabled DEF ReceiptsOf
<1>3. [d \in DecisionIds |->
          Latest(e.decisions[d], {i \in e.cut.ingress + 1 .. cut.ingress :
                                  e.ingress[i].decision = d})] = D
  BY DecisionsTabled DEF DecisionsOf
<1>4. e.nested \cup {r \in Requests : \E i \in e.cut.ingress + 1 .. cut.ingress :
                         e.ingress[i].decision # None /\ e.ingress[i].request = r} = N
  BY NestedTabled
<1>5. e.legacy \in BOOLEAN /\ e.tracked \in BOOLEAN /\ e.unqueuedHistory \in BOOLEAN
  BY DEF EvidenceOk, EvidenceType
<1>6. (e.legacy \/ \E c \in e.cut.commands + 1 .. cut.commands : e.commands[c] = Direct) = L
  BY LegacyTabled, <1>5 DEF LegacyOf
<1>7. (\/ e.tracked \/ e.cut.attempts + 1 .. cut.attempts # {}
       \/ e.cut.ingress + 1 .. cut.ingress # {}) = T
  BY TrackedTabled, <1>5
<1>8. (\/ e.unqueuedHistory
       \/ \E c \in e.cut.commands + 1 .. cut.commands : e.commands[c] = Direct
       \/ \E n \in e.cut.attempts + 1 .. cut.attempts :
              ~ \/ ArchivedQueued(e, e.attempts[n].request)
                \/ \E i \in e.cut.ingress + 1 .. cut.ingress :
                       e.ingress[i].request = e.attempts[n].request) = U
  BY UnqueuedTabled, <1>5 DEF UnqueuedOf, LegacyOf
<1>9. PICK t : t = [e EXCEPT !.outcomes = O, !.receipts = R, !.decisions = D, !.nested = N,
                             !.legacy = L, !.tracked = T, !.unqueuedHistory = U]
  OBVIOUS
<1>10. Tabled(e, cut) = t
  BY <1>1, <1>2, <1>3, <1>4, <1>6, <1>7, <1>8, <1>9 DEF Tabled, Latest
<1>11. e \in EvidenceType  BY DEF EvidenceOk
<1>12. /\ O \in [Requests -> Nat] /\ R \in [Requests -> Nat] /\ D \in [DecisionIds -> Nat]
       /\ N \in SUBSET Requests /\ L \in BOOLEAN /\ T \in BOOLEAN /\ U \in BOOLEAN
  <2>1. \A r \in Requests : AttemptOf(e.attempts, r) \in Nat /\ CarrierOf(e.ingress, r) \in Nat
    BY Lookups, Fields
  <2>2. \A d \in DecisionIds : DeciderOf(e.ingress, d) \in Nat  BY Lookups, Fields
  <2>3. O \in [Requests -> Nat]  BY <2>1 DEF OutcomesOf
  <2>4. R \in [Requests -> Nat]  BY <2>1 DEF ReceiptsOf
  <2>5. D \in [DecisionIds -> Nat]  BY <2>2 DEF DecisionsOf
  <2>6. N \in SUBSET Requests  BY DEF NestedOf
  <2>7. L \in BOOLEAN /\ T \in BOOLEAN /\ U \in BOOLEAN  BY DEF LegacyOf, UnqueuedOf
  <2> QED  BY <2>3, <2>4, <2>5, <2>6, <2>7
<1> HIDE DEF O, R, D, N, L, T, U
<1>13. /\ t \in EvidenceType
       /\ t.commands = e.commands /\ t.attempts = e.attempts /\ t.ingress = e.ingress
       /\ t.retired = e.retired /\ t.outcomes = O /\ t.receipts = R /\ t.decisions = D
       /\ t.nested = N /\ t.legacy = L /\ t.tracked = T /\ t.unqueuedHistory = U
  <2>1. t \in EvidenceType
    <3>1. PICK u : u = [e EXCEPT !.outcomes = O, !.receipts = R, !.decisions = D]  OBVIOUS
    <3>2. t = [u EXCEPT !.nested = N, !.legacy = L, !.tracked = T, !.unqueuedHistory = U]
      BY <1>9, <3>1
    <3>3. u \in EvidenceType  BY <1>11, <1>12, <3>1 DEF EvidenceType
    <3> QED  BY <1>12, <3>2, <3>3 DEF EvidenceType
  <2>2. /\ t.commands = e.commands /\ t.attempts = e.attempts /\ t.ingress = e.ingress
        /\ t.retired = e.retired /\ t.outcomes = O /\ t.receipts = R
    BY <1>9, <1>11 DEF EvidenceType
  <2>3. /\ t.decisions = D /\ t.nested = N
        /\ t.legacy = L /\ t.tracked = T /\ t.unqueuedHistory = U
    BY <1>9, <1>11 DEF EvidenceType
  <2> QED  BY <2>1, <2>2, <2>3
<1> QED  BY <1>10, <1>13 DEF O, R, D, N, L, T, U

(* The requests whose attempt a cut takes and the retention gives up.       *)
LateAt(attempts, cut, t) ==
    {r \in Requests : /\ AttemptOf(attempts, r) \in 1 .. cut.attempts
                      /\ attempts[AttemptOf(attempts, r)].at < KeptFrom(t)}

IsLate(attempts, cut, old, t, late) ==
    /\ late \in SUBSET Requests
    /\ \A r \in Requests : r \in late <=>
           /\ OutcomesOf(attempts, cut, old)[r] # 0
           /\ attempts[OutcomesOf(attempts, cut, old)[r]].at < KeptFrom(t)

Without(table, S) == [r \in Requests |-> IF r \in S THEN 0 ELSE table[r]]

Retiring(e, cut, late) ==
    /\ JournalsOk(e.commands, e.attempts, e.ingress)
    /\ cut \in CutType /\ now \in Int
    /\ e.retired \in SUBSET LateAt(e.attempts, cut, now)
    /\ IsLate(e.attempts, cut, e.retired, now, late)

RetiredWell(e, cut, late) ==
    /\ e.retired \cup late = LateAt(e.attempts, cut, now)
    /\ OutcomesOf(e.attempts, cut, e.retired \cup late)
           = Without(OutcomesOf(e.attempts, cut, e.retired), late)
    /\ ReceiptsOf(e.ingress, cut, e.retired \cup late)
           = Without(ReceiptsOf(e.ingress, cut, e.retired), late)
    /\ ReceiptsOf(e.ingress, cut, e.retired \cup late)
           = Without(ReceiptsOf(e.ingress, cut, e.retired), e.retired \cup late)

(* Tables in form for a cut stay in form when what is late is retired.      *)
LEMMA RetiredTables ==
    ASSUME NEW e, NEW cut, NEW late, Retiring(e, cut, late)
    PROVE  RetiredWell(e, cut, late)
<1>0. PICK commands, attempts, ingress, old, t :
          /\ commands = e.commands /\ attempts = e.attempts /\ ingress = e.ingress
          /\ old = e.retired /\ t = now
  OBVIOUS
<1>a. /\ JournalsOk(commands, attempts, ingress) /\ cut \in CutType /\ t \in Int
      /\ old \in SUBSET LateAt(attempts, cut, t) /\ IsLate(attempts, cut, old, t, late)
  BY <1>0 DEF Retiring
<1> DEFINE O(r) == OutcomesOf(attempts, cut, old)[r]
<1>1. \A r \in Requests : AttemptOf(attempts, r) \in 0 .. Len(attempts)  BY <1>a, Lookups
<1>2. cut.attempts \in Nat  BY <1>a DEF CutType
<1>3. Len(attempts) \in Nat  BY <1>a DEF JournalsOk
<1>4. \A r \in Requests : O(r) = IF r \notin old /\ AttemptOf(attempts, r) <= cut.attempts
                                 THEN AttemptOf(attempts, r) ELSE 0
  BY DEF OutcomesOf
<1>5. \A r \in Requests : r \in LateAt(attempts, cut, t) <=>
          /\ AttemptOf(attempts, r) \in 1 .. cut.attempts
          /\ attempts[AttemptOf(attempts, r)].at < KeptFrom(t)
  BY DEF LateAt
<1>6. /\ late \in SUBSET Requests
      /\ \A r \in Requests : r \in late <=> O(r) # 0 /\ attempts[O(r)].at < KeptFrom(t)
  BY <1>a DEF IsLate
<1> HIDE DEF O
<1>7. \A r \in Requests : r \in late <=> r \notin old /\ r \in LateAt(attempts, cut, t)
  <2> SUFFICES ASSUME NEW r \in Requests
               PROVE  r \in late <=> r \notin old /\ r \in LateAt(attempts, cut, t)
    OBVIOUS
  <2> DEFINE n == AttemptOf(attempts, r)
  <2>1. n \in 0 .. Len(attempts)  BY <1>1
  <2>2. O(r) = IF r \notin old /\ n <= cut.attempts THEN n ELSE 0  BY <1>4
  <2>3. r \in LateAt(attempts, cut, t) <=> n \in 1 .. cut.attempts /\ attempts[n].at < KeptFrom(t)
    BY <1>5
  <2> HIDE DEF n
  <2>4. n \in 1 .. cut.attempts <=> n # 0 /\ n <= cut.attempts  BY <2>1, <1>2, <1>3
  <2>5. O(r) # 0 <=> r \notin old /\ n \in 1 .. cut.attempts  BY <2>2, <2>4
  <2>6. O(r) # 0 => O(r) = n  BY <2>2
  <2> QED  BY <2>3, <2>5, <2>6, <1>6
<1>8. old \cup late = LateAt(attempts, cut, t)
  <2>1. LateAt(attempts, cut, t) \in SUBSET Requests /\ late \in SUBSET Requests
    BY <1>6 DEF LateAt
  <2> QED  BY <2>1, <1>7, <1>a
<1>9. \A r \in Requests : OutcomesOf(attempts, cut, old \cup late)[r]
                              = IF r \in late THEN 0 ELSE O(r)
  <2> SUFFICES ASSUME NEW r \in Requests
               PROVE  OutcomesOf(attempts, cut, old \cup late)[r] = IF r \in late THEN 0 ELSE O(r)
    OBVIOUS
  <2>1. OutcomesOf(attempts, cut, old \cup late)[r]
            = IF r \notin old \cup late /\ AttemptOf(attempts, r) <= cut.attempts
              THEN AttemptOf(attempts, r) ELSE 0
    BY DEF OutcomesOf
  <2> QED  BY <2>1, <1>4
<1>10. OutcomesOf(attempts, cut, old \cup late)
           = [r \in Requests |-> IF r \in late THEN 0 ELSE O(r)]
  BY <1>9 DEF OutcomesOf
<1>11. \A G : G \subseteq old \cup late /\ late \subseteq G =>
           ReceiptsOf(ingress, cut, old \cup late)
               = [r \in Requests |-> IF r \in G THEN 0 ELSE ReceiptsOf(ingress, cut, old)[r]]
  <2> SUFFICES ASSUME NEW G, G \subseteq old \cup late, late \subseteq G
               PROVE  ReceiptsOf(ingress, cut, old \cup late)
                          = [r \in Requests |->
                                IF r \in G THEN 0 ELSE ReceiptsOf(ingress, cut, old)[r]]
    OBVIOUS
  <2> DEFINE c(r) == /\ CarrierOf(ingress, r) \in 1 .. cut.ingress
                     /\ ingress[CarrierOf(ingress, r)].decision = None
  <2>1. \A r \in Requests : ReceiptsOf(ingress, cut, old)[r]
            = IF r \notin old /\ c(r) THEN CarrierOf(ingress, r) ELSE 0
    BY DEF ReceiptsOf
  <2>2. ReceiptsOf(ingress, cut, old \cup late)
            = [r \in Requests |-> IF r \notin old \cup late /\ c(r)
                                  THEN CarrierOf(ingress, r) ELSE 0]
    BY DEF ReceiptsOf
  <2> HIDE DEF c
  <2>3. \A r \in Requests : (IF r \notin old \cup late /\ c(r) THEN CarrierOf(ingress, r) ELSE 0)
            = IF r \in G THEN 0 ELSE ReceiptsOf(ingress, cut, old)[r]
    BY <2>1
  <2> QED  BY <2>2, <2>3
<1>12. ReceiptsOf(ingress, cut, old \cup late)
           = [r \in Requests |-> IF r \in late THEN 0 ELSE ReceiptsOf(ingress, cut, old)[r]]
  <2>1. late \subseteq old \cup late /\ late \subseteq late  OBVIOUS
  <2> QED  BY <2>1, <1>11
<1>13. ReceiptsOf(ingress, cut, old \cup late)
           = [r \in Requests |-> IF r \in old \cup late THEN 0
                                 ELSE ReceiptsOf(ingress, cut, old)[r]]
  <2>1. PICK G : G = old \cup late  OBVIOUS
  <2>2. G \subseteq old \cup late /\ late \subseteq G  BY <2>1
  <2>3. ReceiptsOf(ingress, cut, old \cup late)
           = [r \in Requests |-> IF r \in G THEN 0 ELSE ReceiptsOf(ingress, cut, old)[r]]
    BY <2>2, <1>11
  <2> QED  BY <2>1, <2>3
<1>14. OutcomesOf(attempts, cut, old \cup late)
           = [r \in Requests |-> IF r \in late THEN 0 ELSE OutcomesOf(attempts, cut, old)[r]]
  BY <1>10 DEF O
<1> QED  BY <1>0, <1>8, <1>12, <1>13, <1>14 DEF Without, RetiredWell

(* A history that the runtime may seal or continue now.                     *)
Sealable(e) ==
    /\ EvidenceOk(e, now) /\ now \in Int
    /\ CutForward(e, SettledCut)
    /\ pending \subseteq 1 .. SettledCut.ingress

(* What is retired already is late at the cut of a seal.                    *)
LEMMA RetiredIsLate ==
    ASSUME NEW e, Sealable(e)
    PROVE  e.retired \in SUBSET LateAt(e.attempts, SettledCut, now)
<1>1. RetiredOk(e, now)  BY DEF Sealable, EvidenceOk, TablesOk
<1>2. e.cut.attempts <= SettledCut.attempts /\ SettledCut.attempts \in Nat
  BY DEF Sealable, CutForward, CutType
<1>3. e.cut.attempts \in Nat  BY Fields DEF Sealable
<1>4. e.retired \subseteq Requests  BY <1>1 DEF RetiredOk
<1>5. ASSUME NEW r \in e.retired
      PROVE  r \in LateAt(e.attempts, SettledCut, now)
  <2>1. /\ AttemptOf(e.attempts, r) \in 1 .. e.cut.attempts
        /\ e.attempts[AttemptOf(e.attempts, r)].at < KeptFrom(now)
    BY <1>1 DEF RetiredOk
  <2>2. AttemptOf(e.attempts, r) \in 1 .. SettledCut.attempts  BY <2>1, <1>2, <1>3
  <2> QED  BY <2>1, <2>2, <1>4 DEF LateAt
<1> QED  BY <1>5

(* Retired requests in form: the late ones, all carried below the cut.      *)
LEMMA LateIsRetired ==
    ASSUME NEW e, JournalsOk(e.commands, e.attempts, e.ingress), NEW t,
           e.retired = LateAt(e.attempts, e.cut, t), e.cut.ingress = Len(e.ingress)
    PROVE  RetiredOk(e, t)
<1>1. \A r \in Requests : CarrierOf(e.ingress, r) \in 0 .. Len(e.ingress)  BY Lookups
<1>2. Len(e.ingress) \in Nat  BY DEF JournalsOk
<1>3. \A r \in Requests : CarrierOf(e.ingress, r) <= e.cut.ingress  BY <1>1, <1>2
<1> QED  BY <1>3 DEF RetiredOk, LateAt

(* The run restored from its continuation checkpoint.                       *)
LEMMA ContinuedInForm ==
    ASSUME NEW e, Sealable(e)
    PROVE  /\ EvidenceOk(ContinuedOf(e), now)
           /\ ContinuedOf(e).commands = e.commands /\ ContinuedOf(e).attempts = e.attempts
           /\ ContinuedOf(e).ingress = e.ingress /\ ContinuedOf(e).cut = SettledCut
           /\ ContinuedOf(e).retired = LateAt(e.attempts, SettledCut, now)
           /\ ContinuedOf(e).pinned = pending
<1>1. PICK cut : cut = SettledCut  OBVIOUS
<1>2. PICK t : t = Tabled(e, cut)  OBVIOUS
<1>3. EvidenceOk(e, now) /\ CutForward(e, cut) /\ pending \subseteq 1 .. cut.ingress
      /\ now \in Int
  BY <1>1 DEF Sealable
<1>4. /\ t \in EvidenceType
      /\ t.commands = e.commands /\ t.attempts = e.attempts
      /\ t.ingress = e.ingress /\ t.retired = e.retired
      /\ t.outcomes = OutcomesOf(e.attempts, cut, e.retired)
      /\ t.receipts = ReceiptsOf(e.ingress, cut, e.retired)
      /\ t.decisions = DecisionsOf(e.ingress, cut)
      /\ t.nested = NestedOf(e.ingress, cut)
      /\ t.legacy = LegacyOf(e.attempts, cut)
      /\ t.tracked = (cut.attempts > 0 \/ cut.ingress > 0)
      /\ t.unqueuedHistory = UnqueuedOf(e.attempts, e.ingress, cut)
  BY <1>2, <1>3, TablesKept
<1>5. PICK late : late = Late(t, now)  OBVIOUS
<1>6. IsLate(e.attempts, cut, e.retired, now, late)  BY <1>4, <1>5 DEF Late, IsLate
<1>7. JournalsOk(e.commands, e.attempts, e.ingress)  BY <1>3 DEF EvidenceOk
<1>8. cut \in CutType /\ cut.ingress = Len(e.ingress)  BY <1>3 DEF CutForward
<1>9. e.retired \in SUBSET LateAt(e.attempts, cut, now)  BY <1>1, RetiredIsLate
<1> DEFINE gone == e.retired \cup late
           O == OutcomesOf(e.attempts, cut, gone)
           R == ReceiptsOf(e.ingress, cut, gone)
<1>10. /\ e.retired \cup late = LateAt(e.attempts, cut, now)
       /\ OutcomesOf(e.attempts, cut, e.retired \cup late)
              = Without(OutcomesOf(e.attempts, cut, e.retired), late)
       /\ ReceiptsOf(e.ingress, cut, e.retired \cup late)
              = Without(ReceiptsOf(e.ingress, cut, e.retired), late)
       /\ ReceiptsOf(e.ingress, cut, e.retired \cup late)
              = Without(ReceiptsOf(e.ingress, cut, e.retired), e.retired \cup late)
  <2>1. Retiring(e, cut, late)  BY <1>3, <1>6, <1>7, <1>8, <1>9 DEF Retiring
  <2>2. RetiredWell(e, cut, late)  BY <2>1, RetiredTables
  <2> QED  BY <2>2 DEF RetiredWell
<1>11. PICK f : f = [t EXCEPT !.cut = cut, !.pinned = pending, !.retired = gone,
                              !.outcomes = O, !.receipts = R]
  OBVIOUS
<1>12. ContinuedOf(e) = Rebuild(f)
  <2>1. ContinuedOf(e) = Rebuild([t EXCEPT
            !.cut = cut, !.pinned = pending, !.retired = e.retired \cup late,
            !.outcomes = Without(t.outcomes, late),
            !.receipts = Without(t.receipts, e.retired \cup late)])
    BY <1>1, <1>2, <1>4, <1>5 DEF ContinuedOf, Without, EvidenceType
  <2>2. Without(t.outcomes, late) = O  BY <1>4, <1>10
  <2>3. Without(t.receipts, e.retired \cup late) = R  BY <1>4, <1>10
  <2> HIDE DEF O, R
  <2> QED  BY <2>1, <2>2, <2>3, <1>11
<1>13. /\ gone \in SUBSET Requests /\ O \in [Requests -> Nat] /\ R \in [Requests -> Nat]
       /\ pending \in SUBSET Nat
  <2>1. \A r \in Requests : AttemptOf(e.attempts, r) \in Nat /\ CarrierOf(e.ingress, r) \in Nat
    BY <1>7, <1>3, Lookups, Fields
  <2>2. O \in [Requests -> Nat]  BY <2>1 DEF OutcomesOf
  <2>3. R \in [Requests -> Nat]  BY <2>1 DEF ReceiptsOf
  <2>4. gone \in SUBSET Requests  BY <1>10 DEF LateAt
  <2>5. pending \in SUBSET Nat  BY <1>3
  <2> QED  BY <2>2, <2>3, <2>4, <2>5
<1>14. gone = LateAt(e.attempts, cut, now)  BY <1>10
<1> HIDE DEF O, R, gone
<1>15. /\ f \in EvidenceType
       /\ f.commands = e.commands /\ f.attempts = e.attempts /\ f.ingress = e.ingress
       /\ f.cut = cut /\ f.pinned = pending /\ f.retired = gone
       /\ f.outcomes = O /\ f.receipts = R
       /\ f.decisions = t.decisions /\ f.nested = t.nested /\ f.legacy = t.legacy
       /\ f.tracked = t.tracked /\ f.unqueuedHistory = t.unqueuedHistory
  BY <1>4, <1>8, <1>11, <1>13 DEF EvidenceType
<1>16. JournalsOk(f.commands, f.attempts, f.ingress)  BY <1>7, <1>15
<1>17. CutOk(f)
  <2>1. /\ cut.commands <= Len(e.commands) /\ cut.attempts <= Len(e.attempts)
        /\ cut.ingress <= Len(e.ingress) /\ Aligned(e.attempts, cut)
    <3>1. Len(e.ingress) \in Nat  BY <1>3, Fields
    <3> QED  BY <3>1, <1>3 DEF CutForward
  <2> QED  BY <2>1, <1>3, <1>8, <1>15 DEF CutOk
<1>18. RetiredOk(f, now)
  BY <1>8, <1>14, <1>15, <1>16, LateIsRetired
<1>19. TablesOk(f, now)
  BY <1>4, <1>15, <1>18 DEF TablesOk, O, R
<1>20. /\ EvidenceOk(Rebuild(f), now)
       /\ Rebuild(f).commands = f.commands /\ Rebuild(f).attempts = f.attempts
       /\ Rebuild(f).ingress = f.ingress /\ Rebuild(f).cut = f.cut
       /\ Rebuild(f).retired = f.retired /\ Rebuild(f).pinned = f.pinned
  BY <1>15, <1>16, <1>17, <1>19, Rebuilt
<1> QED  BY <1>1, <1>12, <1>14, <1>15, <1>20

(* The run that seals in place.                                             *)
LEMMA SealedInForm ==
    ASSUME NEW e, Sealable(e)
    PROVE  /\ EvidenceOk(SealedOf(e), now)
           /\ SealedOf(e).commands = e.commands /\ SealedOf(e).attempts = e.attempts
           /\ SealedOf(e).ingress = e.ingress /\ SealedOf(e).cut = SettledCut
           /\ SealedOf(e).retired = LateAt(e.attempts, SettledCut, now)
           /\ SealedOf(e).pinned = pending
<1>1. PICK cut : cut = SettledCut  OBVIOUS
<1>2. PICK t : t = Tabled(e, cut)  OBVIOUS
<1>3. EvidenceOk(e, now) /\ CutForward(e, cut) /\ pending \subseteq 1 .. cut.ingress
      /\ now \in Int
  BY <1>1 DEF Sealable
<1>4. /\ t \in EvidenceType
      /\ t.commands = e.commands /\ t.attempts = e.attempts
      /\ t.ingress = e.ingress /\ t.retired = e.retired
      /\ t.outcomes = OutcomesOf(e.attempts, cut, e.retired)
      /\ t.receipts = ReceiptsOf(e.ingress, cut, e.retired)
      /\ t.decisions = DecisionsOf(e.ingress, cut)
      /\ t.nested = NestedOf(e.ingress, cut)
      /\ t.legacy = LegacyOf(e.attempts, cut)
      /\ t.tracked = (cut.attempts > 0 \/ cut.ingress > 0)
      /\ t.unqueuedHistory = UnqueuedOf(e.attempts, e.ingress, cut)
  BY <1>2, <1>3, TablesKept
<1>5. JournalsOk(e.commands, e.attempts, e.ingress)  BY <1>3 DEF EvidenceOk
<1>6. cut \in CutType /\ cut.ingress = Len(e.ingress)  BY <1>3 DEF CutForward
<1>7. e.retired \in SUBSET LateAt(e.attempts, cut, now)  BY <1>1, RetiredIsLate
<1>8. PICK u : u = [t EXCEPT !.cut = cut, !.pinned = pending]  OBVIOUS
<1>9. pending \in SUBSET Nat  BY <1>3
<1>10. /\ u \in EvidenceType
       /\ u.commands = e.commands /\ u.attempts = e.attempts /\ u.ingress = e.ingress
       /\ u.cut = cut /\ u.pinned = pending /\ u.retired = e.retired
       /\ u.outcomes = t.outcomes /\ u.receipts = t.receipts
       /\ u.decisions = t.decisions /\ u.nested = t.nested /\ u.legacy = t.legacy
       /\ u.tracked = t.tracked /\ u.unqueuedHistory = t.unqueuedHistory
  BY <1>4, <1>6, <1>8, <1>9 DEF EvidenceType
<1>11. JournalsOk(u.commands, u.attempts, u.ingress)  BY <1>5, <1>10
<1>12. CutOk(u)
  <2>1. /\ cut.commands <= Len(e.commands) /\ cut.attempts <= Len(e.attempts)
        /\ cut.ingress <= Len(e.ingress) /\ Aligned(e.attempts, cut)
    <3>1. Len(e.ingress) \in Nat  BY <1>3, Fields
    <3> QED  BY <3>1, <1>3 DEF CutForward
  <2> QED  BY <2>1, <1>3, <1>6, <1>10 DEF CutOk
<1>13. RetiredOk(u, now)
  <2>1. \A r \in Requests : CarrierOf(e.ingress, r) \in 0 .. Len(e.ingress)  BY <1>5, Lookups
  <2>2. Len(e.ingress) \in Nat  BY <1>3, Fields
  <2>3. \A r \in Requests : CarrierOf(e.ingress, r) <= cut.ingress  BY <2>1, <2>2, <1>6
  <2> QED  BY <2>3, <1>7, <1>10 DEF RetiredOk, LateAt
<1>14. TablesOk(u, now)  BY <1>4, <1>10, <1>13 DEF TablesOk
<1>15. PICK v : v = Rebuild(u)  OBVIOUS
<1>16. /\ EvidenceOk(v, now)
       /\ v.commands = e.commands /\ v.attempts = e.attempts
       /\ v.ingress = e.ingress /\ v.cut = cut
       /\ v.retired = e.retired /\ v.pinned = pending
       /\ v.outcomes = t.outcomes /\ v.receipts = t.receipts
  BY <1>10, <1>11, <1>12, <1>14, <1>15, Rebuilt
<1>17. PICK late : late = Late(v, now)  OBVIOUS
<1>18. IsLate(e.attempts, cut, e.retired, now, late)  BY <1>4, <1>16, <1>17 DEF Late, IsLate
<1> DEFINE gone == e.retired \cup late
           O == OutcomesOf(e.attempts, cut, gone)
           R == ReceiptsOf(e.ingress, cut, gone)
<1>19. /\ e.retired \cup late = LateAt(e.attempts, cut, now)
       /\ OutcomesOf(e.attempts, cut, e.retired \cup late)
              = Without(OutcomesOf(e.attempts, cut, e.retired), late)
       /\ ReceiptsOf(e.ingress, cut, e.retired \cup late)
              = Without(ReceiptsOf(e.ingress, cut, e.retired), late)
       /\ ReceiptsOf(e.ingress, cut, e.retired \cup late)
              = Without(ReceiptsOf(e.ingress, cut, e.retired), e.retired \cup late)
  <2>1. Retiring(e, cut, late)  BY <1>3, <1>18, <1>5, <1>6, <1>7 DEF Retiring
  <2>2. RetiredWell(e, cut, late)  BY <2>1, RetiredTables
  <2> QED  BY <2>2 DEF RetiredWell
<1>20. PICK f : f = [v EXCEPT !.outcomes = O, !.receipts = R, !.retired = gone]
  OBVIOUS
<1>21. SealedOf(e) = f
  <2>1. SealedOf(e) = Retire(v, now)  BY <1>1, <1>2, <1>8, <1>15 DEF SealedOf
  <2>2. Retire(v, now) = f
    <3>1. Retire(v, now) =
              [v EXCEPT !.outcomes = Without(v.outcomes, late),
                        !.receipts = Without(v.receipts, late),
                        !.retired = v.retired \cup late]
      BY <1>17, <1>16 DEF Retire, Without, EvidenceOk, EvidenceType
    <3>2. Without(v.outcomes, late) = O  BY <1>4, <1>16, <1>19
    <3>3. Without(v.receipts, late) = R  BY <1>4, <1>16, <1>19
    <3>4. v.retired \cup late = gone  BY <1>16
    <3> HIDE DEF O, R, gone
    <3> QED  BY <3>1, <3>2, <3>3, <3>4, <1>20
  <2> QED  BY <2>1, <2>2
<1>22. v \in EvidenceType  BY <1>16 DEF EvidenceOk
<1>23. gone \in SUBSET Requests /\ O \in [Requests -> Nat] /\ R \in [Requests -> Nat]
  <2>1. \A r \in Requests : AttemptOf(e.attempts, r) \in Nat /\ CarrierOf(e.ingress, r) \in Nat
    BY <1>5, <1>3, Lookups, Fields
  <2>2. O \in [Requests -> Nat]  BY <2>1 DEF OutcomesOf
  <2>3. R \in [Requests -> Nat]  BY <2>1 DEF ReceiptsOf
  <2>4. gone \in SUBSET Requests  BY <1>19 DEF LateAt
  <2> QED  BY <2>2, <2>3, <2>4
<1>24. gone = LateAt(e.attempts, cut, now)  BY <1>19
<1> HIDE DEF O, R, gone
<1>25. /\ f \in EvidenceType
       /\ f.commands = v.commands /\ f.attempts = v.attempts /\ f.ingress = v.ingress
       /\ f.cut = v.cut /\ f.pinned = v.pinned /\ f.retired = gone
       /\ f.outcomes = O /\ f.receipts = R
       /\ f.decisions = v.decisions /\ f.nested = v.nested /\ f.legacy = v.legacy
       /\ f.tracked = v.tracked /\ f.unqueuedHistory = v.unqueuedHistory
       /\ f.queued = v.queued /\ f.first = v.first /\ f.direct = v.direct
       /\ f.unqueued = v.unqueued
  BY <1>20, <1>22, <1>23 DEF EvidenceType
<1>26. /\ JournalsOk(v.commands, v.attempts, v.ingress) /\ CutOk(v) /\ TablesOk(v, now)
       /\ IndexOk(v)
  BY <1>16 DEF EvidenceOk
<1>27. JournalsOk(f.commands, f.attempts, f.ingress)  BY <1>25, <1>26
<1>28. CutOk(f)  BY <1>25, <1>26 DEF CutOk
<1>29. IndexOk(f)  BY <1>25, <1>26 DEF IndexOk
<1>30. RetiredOk(f, now)
  BY <1>6, <1>16, <1>24, <1>25, <1>27, LateIsRetired
<1>31. TablesOk(f, now)
  BY <1>16, <1>25, <1>26, <1>30 DEF TablesOk, O, R
<1>32. EvidenceOk(f, now)  BY <1>25, <1>27, <1>28, <1>29, <1>31 DEF EvidenceOk
<1> QED  BY <1>1, <1>16, <1>21, <1>24, <1>25, <1>32

(* A save loaded with all its segments.                                     *)
LEMMA UnsealedInForm ==
    ASSUME NEW e, NEW at, EvidenceOk(e, at), NEW t
    PROVE  /\ EvidenceOk(Unsealed(e), t)
           /\ Unsealed(e).commands = e.commands /\ Unsealed(e).attempts = e.attempts
           /\ Unsealed(e).ingress = e.ingress /\ Unsealed(e).cut = NoCut
           /\ Unsealed(e).retired = {} /\ Unsealed(e).pinned = {}
<1> DEFINE zero == [r \in Requests |-> 0]
           none == [d \in DecisionIds |-> 0]
<1>1. PICK f : f = [e EXCEPT
        !.cut = NoCut, !.pinned = {}, !.retired = {}, !.nested = {},
        !.outcomes = zero, !.receipts = zero, !.decisions = none,
        !.legacy = FALSE, !.tracked = FALSE, !.unqueuedHistory = FALSE]
  OBVIOUS
<1>2. Unsealed(e) = Rebuild(f)  BY <1>1 DEF Unsealed
<1>3. e \in EvidenceType /\ JournalsOk(e.commands, e.attempts, e.ingress)  BY DEF EvidenceOk
<1>4. /\ NoCut \in CutType /\ NoCut.commands = 0 /\ NoCut.attempts = 0 /\ NoCut.ingress = 0
  BY DEF NoCut, CutType
<1>5. zero \in [Requests -> Nat] /\ none \in [DecisionIds -> Nat]  OBVIOUS
<1>6. \A r \in Requests : AttemptOf(e.attempts, r) \in Nat /\ CarrierOf(e.ingress, r) \in Nat
  BY <1>3, Lookups, Fields
<1>7. \A d \in DecisionIds : DeciderOf(e.ingress, d) \in Nat  BY <1>3, Lookups, Fields
<1>8. zero = OutcomesOf(e.attempts, NoCut, {})  BY <1>4, <1>6 DEF OutcomesOf
<1>9. zero = ReceiptsOf(e.ingress, NoCut, {})
  <2>1. \A r \in Requests : CarrierOf(e.ingress, r) \notin 1 .. NoCut.ingress  BY <1>4, <1>6
  <2> QED  BY <2>1 DEF ReceiptsOf
<1>10. none = DecisionsOf(e.ingress, NoCut)  BY <1>4, <1>7 DEF DecisionsOf
<1>11. {} = NestedOf(e.ingress, NoCut)
  <2>1. \A r \in Requests : CarrierOf(e.ingress, r) \notin 1 .. NoCut.ingress  BY <1>4, <1>6
  <2> QED  BY <2>1 DEF NestedOf
<1> HIDE DEF zero, none
<1>12. /\ f \in EvidenceType
       /\ f.commands = e.commands /\ f.attempts = e.attempts /\ f.ingress = e.ingress
       /\ f.cut = NoCut /\ f.pinned = {} /\ f.retired = {} /\ f.nested = {}
       /\ f.outcomes = zero /\ f.receipts = zero /\ f.decisions = none
       /\ f.legacy = FALSE /\ f.tracked = FALSE /\ f.unqueuedHistory = FALSE
  BY <1>1, <1>3, <1>4, <1>5 DEF EvidenceType
<1>13. JournalsOk(f.commands, f.attempts, f.ingress)  BY <1>3, <1>12
<1>14. CutOk(f)
  <2>1. Aligned(e.attempts, NoCut)
    <3> SUFFICES ASSUME NEW n \in DOMAIN e.attempts, e.attempts[n].command # 0
                 PROVE  n <= NoCut.attempts <=> e.attempts[n].command <= NoCut.commands
      BY DEF Aligned
    <3>1. e.attempts \in Seq(Attempt)  BY <1>3 DEF JournalsOk
    <3>2. n \in Nat \ {0} /\ e.attempts[n] \in Attempt  BY <3>1
    <3>3. e.attempts[n].command \in Nat  BY <3>2 DEF Attempt
    <3> QED  BY <3>2, <3>3, <1>4
  <2>2. Len(e.commands) \in Nat /\ Len(e.attempts) \in Nat /\ Len(e.ingress) \in Nat
    BY Fields
  <2>3. 0 <= Len(e.commands) /\ 0 <= Len(e.attempts) /\ 0 <= Len(e.ingress)  BY <2>2
  <2> QED  BY <2>1, <2>3, <1>4, <1>12 DEF CutOk
<1>15. TablesOk(f, t)
  <2>1. RetiredOk(f, t)  BY <1>12 DEF RetiredOk
  <2>2. LegacyOf(e.attempts, NoCut) = FALSE  BY <1>4 DEF LegacyOf
  <2>3. UnqueuedOf(e.attempts, e.ingress, NoCut) = FALSE  BY <2>2, <1>4 DEF UnqueuedOf
  <2>4. (NoCut.attempts > 0 \/ NoCut.ingress > 0) = FALSE  BY <1>4
  <2> QED  BY <2>1, <2>2, <2>3, <2>4, <1>8, <1>9, <1>10, <1>11, <1>12 DEF TablesOk
<1>16. /\ EvidenceOk(Rebuild(f), t)
       /\ Rebuild(f).commands = f.commands /\ Rebuild(f).attempts = f.attempts
       /\ Rebuild(f).ingress = f.ingress /\ Rebuild(f).cut = f.cut
       /\ Rebuild(f).retired = f.retired /\ Rebuild(f).pinned = f.pinned
  BY <1>12, <1>13, <1>14, <1>15, Rebuilt
<1> QED  BY <1>2, <1>12, <1>16

-----------------------------------------------------------------------------
(* What the invariant says of the answers.                                  *)

(* The times of an admission that is in form.                               *)
LEMMA SoundTimes ==
    ASSUME AdmissionSound
    PROVE  /\ now \in Int /\ CommittedNow \in Int /\ CommittedNow <= now
           /\ ~saved.open => CommittedNow = now
           /\ EvidenceOk(evidence, CommittedNow)
<1>1. now \in Int /\ saved.now \in Int
  <2>1. Times \subseteq Int  BY AdmissionAssumption DEF Times
  <2> QED  BY <2>1 DEF AdmissionSound
<1>2. saved.open => saved.now <= now  BY DEF AdmissionSound, SavedOk
<1>3. saved.open \in BOOLEAN  BY DEF AdmissionSound, SavedType
<1>4. CommittedNow = IF saved.open THEN saved.now ELSE now  BY DEF CommittedNow
<1>5. EvidenceOk(evidence, CommittedNow)  BY DEF AdmissionSound
<1> QED  BY <1>1, <1>2, <1>3, <1>4, <1>5

(* Between boundaries the history may be sealed.                            *)
LEMMA SoundSealable ==
    ASSUME AdmissionSound, ~saved.open
    PROVE  Sealable(evidence)
<1>1. EvidenceOk(evidence, now) /\ now \in Int  BY SoundTimes
<1>2. /\ cursor.commands \in Nat /\ cursor.attempts \in Nat /\ boundaries \in Nat
  BY AdmissionAssumption DEF AdmissionSound
<1>3. /\ evidence.cut.commands <= cursor.commands /\ evidence.cut.attempts <= cursor.attempts
      /\ cursor.commands <= Len(evidence.commands)
      /\ cursor.attempts <= Len(evidence.attempts)
      /\ Aligned(evidence.attempts, cursor)
  BY DEF AdmissionSound
<1>4. Len(evidence.ingress) \in Nat  BY <1>1, Fields
<1>5. /\ SettledCut \in CutType
      /\ SettledCut.commands = cursor.commands /\ SettledCut.attempts = cursor.attempts
      /\ SettledCut.ingress = Len(evidence.ingress)
  BY <1>2, <1>4 DEF SettledCut, CutType
<1>6. Aligned(evidence.attempts, SettledCut)  BY <1>3, <1>5 DEF Aligned
<1>7. CutForward(evidence, SettledCut)  BY <1>3, <1>5, <1>6 DEF CutForward
<1>8. pending \subseteq 1 .. SettledCut.ingress
  <2>1. DOMAIN evidence.ingress = 1 .. Len(evidence.ingress)  BY <1>1, Fields
  <2>2. \A i \in pending : i \in DOMAIN evidence.ingress  BY DEF AdmissionSound, Waiting
  <2> QED  BY <2>1, <2>2, <1>5
<1> QED  BY <1>1, <1>7, <1>8 DEF Sealable

(* A seal and a continuation are one, and the checkpoint of what it         *)
(* restores is itself.                                                      *)
LEMMA SealsAlike ==
    ASSUME NEW e, Sealable(e)
    PROVE  SealedOf(e) = ContinuedOf(e) /\ ContinuedOf(ContinuedOf(e)) = ContinuedOf(e)
<1>1. PICK s : s = SealedOf(e)  OBVIOUS
<1>2. PICK c : c = ContinuedOf(e)  OBVIOUS
<1>3. /\ EvidenceOk(s, now)
      /\ s.commands = e.commands /\ s.attempts = e.attempts /\ s.ingress = e.ingress
      /\ s.cut = SettledCut /\ s.retired = LateAt(e.attempts, SettledCut, now)
      /\ s.pinned = pending
  BY <1>1, SealedInForm
<1>4. /\ EvidenceOk(c, now)
      /\ c.commands = e.commands /\ c.attempts = e.attempts /\ c.ingress = e.ingress
      /\ c.cut = SettledCut /\ c.retired = LateAt(e.attempts, SettledCut, now)
      /\ c.pinned = pending
  BY <1>2, ContinuedInForm
<1>5. s = c  BY <1>3, <1>4, Determined
<1>6. Sealable(c)
  <2>1. /\ SettledCut \in CutType /\ SettledCut.commands <= Len(e.commands)
        /\ SettledCut.attempts <= Len(e.attempts) /\ SettledCut.ingress = Len(e.ingress)
        /\ Aligned(e.attempts, SettledCut)
    BY DEF Sealable, CutForward
  <2>2. SettledCut.commands \in Nat /\ SettledCut.attempts \in Nat  BY <2>1 DEF CutType
  <2>3. CutForward(c, SettledCut)  BY <2>1, <2>2, <1>4 DEF CutForward
  <2> QED  BY <1>4, <2>3 DEF Sealable
<1>7. PICK d : d = ContinuedOf(c)  OBVIOUS
<1>8. /\ EvidenceOk(d, now)
      /\ d.commands = c.commands /\ d.attempts = c.attempts /\ d.ingress = c.ingress
      /\ d.cut = SettledCut /\ d.retired = LateAt(c.attempts, SettledCut, now)
      /\ d.pinned = pending
  BY <1>6, <1>7, ContinuedInForm
<1>9. d = c  BY <1>4, <1>8, Determined
<1> QED  BY <1>1, <1>2, <1>5, <1>7, <1>9

(* The answers of a history in form are those of its whole journals.        *)
LEMMA SoundAlike ==
    ASSUME AdmissionSound
    PROVE  AnswersAlike
<1>1. PICK at : at = CommittedNow  OBVIOUS
<1>2. PICK e : e = Unsealed(evidence)  OBVIOUS
<1>3. PICK v : v = evidence  OBVIOUS
<1>4. /\ now \in Int /\ at \in Int /\ at <= now /\ EvidenceOk(v, at)
  BY <1>1, <1>3, SoundTimes
<1>5. /\ EvidenceOk(e, at) /\ e.commands = v.commands /\ e.attempts = v.attempts
      /\ e.ingress = v.ingress
  BY <1>2, <1>3, <1>4, UnsealedInForm
<1>6. ASSUME NEW r \in Requests, NEW input \in Inputs
      PROVE  CommandAnswer(v, now, r, input) = CommandAnswer(e, now, r, input)
  <2>1. CommandAnswer(v, now, r, input) = CommandReply(v.attempts, now, r, input)
    BY <1>4, CommandAnswered
  <2>2. CommandAnswer(e, now, r, input) = CommandReply(e.attempts, now, r, input)
    BY <1>4, <1>5, CommandAnswered
  <2> QED  BY <2>1, <2>2, <1>5
<1>7. ASSUME NEW c \in AllContents
      PROVE  EnqueueAnswer(v, now, c) = EnqueueAnswer(e, now, c)
  <2>0. c.request \in Requests  BY DEF AllContents
  <2>1. EnqueueAnswer(v, now, c) = EnqueueReply(v.attempts, v.ingress, now, c)
    BY <1>4, <2>0, EnqueueAnswered
  <2>2. EnqueueAnswer(e, now, c) = EnqueueReply(e.attempts, e.ingress, now, c)
    BY <1>4, <1>5, <2>0, EnqueueAnswered
  <2> QED  BY <2>1, <2>2, <1>5
<1>8. ASSUME NEW c \in NewDecisions
      PROVE  DecisionAnswer(v, now, c) = DecisionAnswer(e, now, c)
  <2>0. c.decision \in DecisionIds /\ c.request \in Requests \cup {None}
    BY DEF NewDecisions
  <2>1. DecisionAnswer(v, now, c) = DecisionReply(v.attempts, v.ingress, now, c)
    BY <1>4, <2>0, DecisionAnswered
  <2>2. DecisionAnswer(e, now, c) = DecisionReply(e.attempts, e.ingress, now, c)
    BY <1>4, <1>5, <2>0, DecisionAnswered
  <2> QED  BY <2>1, <2>2, <1>5
<1>9. /\ HasDirect(v) <=> DirectHistory(v.commands, v.attempts)
      /\ HasTracked(v) <=> v.attempts # <<>> \/ v.ingress # <<>>
      /\ HasUnqueuedHistory(v) <=>
             \/ DirectHistory(v.commands, v.attempts)
             \/ v.attempts # <<>> /\ v.ingress = <<>>
  BY <1>4, FamiliesRead
<1>10. /\ HasDirect(e) <=> DirectHistory(e.commands, e.attempts)
       /\ HasTracked(e) <=> e.attempts # <<>> \/ e.ingress # <<>>
       /\ HasUnqueuedHistory(e) <=>
              \/ DirectHistory(e.commands, e.attempts)
              \/ e.attempts # <<>> /\ e.ingress = <<>>
  BY <1>5, FamiliesRead
<1>11. /\ HasDirect(v) \in BOOLEAN /\ HasDirect(e) \in BOOLEAN
       /\ HasTracked(v) \in BOOLEAN /\ HasTracked(e) \in BOOLEAN
       /\ HasUnqueuedHistory(v) \in BOOLEAN /\ HasUnqueuedHistory(e) \in BOOLEAN
  BY DEF HasDirect, HasTracked, HasUnqueuedHistory
<1>12. /\ HasDirect(v) = HasDirect(e) /\ HasTracked(v) = HasTracked(e)
       /\ HasUnqueuedHistory(v) = HasUnqueuedHistory(e)
  BY <1>5, <1>9, <1>10, <1>11
<1> QED  BY <1>2, <1>3, <1>6, <1>7, <1>8, <1>12 DEF AnswersAlike

(* No request is used twice and the families never mix.                     *)
LEMMA SoundJournals ==
    ASSUME AdmissionSound
    PROVE  UsedOnce /\ FamiliesApart
<1>1. PICK commands, attempts, ingress :
          /\ commands = evidence.commands /\ attempts = evidence.attempts
          /\ ingress = evidence.ingress
  OBVIOUS
<1>2. EvidenceOk(evidence, CommittedNow)  BY SoundTimes
<1>3. JournalsOk(commands, attempts, ingress)  BY <1>1, <1>2, Fields
<1>4. /\ \A n \in DOMAIN attempts : attempts[n].request \in Requests
      /\ \A i \in DOMAIN ingress : ingress[i].request \in Requests \cup {None}
  <2>1. attempts \in Seq(Attempt) /\ ingress \in Seq(IngressRecord)  BY <1>3 DEF JournalsOk
  <2>2. \A n \in DOMAIN attempts : attempts[n] \in Attempt  BY <2>1
  <2>3. \A i \in DOMAIN ingress : ingress[i] \in IngressRecord  BY <2>1
  <2> QED  BY <2>2, <2>3 DEF Attempt, IngressRecord
<1>5. \A r \in Requests : AtMostOne(AttemptsOf(attempts, r)) /\ AtMostOne(CarriersOf(ingress, r))
  BY <1>3 DEF JournalsOk, Unique
<1>6. \A a, b \in DOMAIN attempts : attempts[a].request = attempts[b].request => a = b
  BY <1>4, <1>5 DEF AtMostOne, AttemptsOf
<1>7. \A i, j \in DOMAIN ingress :
          ingress[i].request # None /\ ingress[i].request = ingress[j].request => i = j
  BY <1>4, <1>5 DEF AtMostOne, CarriersOf
<1>8. Apart(commands, attempts, ingress)  BY <1>3 DEF JournalsOk
<1>9. {c \in DOMAIN commands : commands[c] = Direct} # {} => attempts = <<>> /\ ingress = <<>>
  BY <1>8 DEF Apart, Direct
<1>10. ingress # <<>> =>
           \A a \in DOMAIN attempts :
               attempts[a].request \in {ingress[i].request : i \in DOMAIN ingress}
  BY <1>8 DEF Apart, CarriersOf
<1> QED  BY <1>1, <1>6, <1>7, <1>9, <1>10 DEF UsedOnce, FamiliesApart

(* What is queued is readable and still fresh.                              *)
LEMMA SoundQueue ==
    ASSUME AdmissionSound
    PROVE  QueuedStaysFresh
<1>1. PICK at : at = CommittedNow  OBVIOUS
<1>2. PICK v : v = evidence  OBVIOUS
<1>3. now \in Int /\ at \in Int /\ at <= now /\ EvidenceOk(v, at)
  BY <1>1, <1>2, SoundTimes
<1> SUFFICES ASSUME NEW i \in pending \cup taking
             PROVE  /\ i \in Readable(v)
                    /\ v.ingress[i].request # None =>
                        /\ CommandAnswer(v, now, v.ingress[i].request, v.ingress[i].input) = New
                        /\ v.ingress[i].decision # None =>
                               UniqueForDecision(v, v.ingress[i].request)
  BY <1>2 DEF QueuedStaysFresh
<1>4. Waiting(i, v)  BY <1>2 DEF AdmissionSound
<1>5. i \in Readable(v) /\ i \in DOMAIN v.ingress  BY <1>4 DEF Waiting
<1>6. ASSUME v.ingress[i].request # None
      PROVE  /\ CommandAnswer(v, now, v.ingress[i].request, v.ingress[i].input) = New
             /\ v.ingress[i].decision # None => UniqueForDecision(v, v.ingress[i].request)
  <2>1. PICK r, c : r = v.ingress[i].request /\ c = CarrierOf(v.ingress, r)  OBVIOUS
  <2>2. r \in Requests
    <3>1. v.ingress \in Seq(IngressRecord)  BY <1>3, Fields
    <3>2. v.ingress[i] \in IngressRecord  BY <3>1, <1>5
    <3> QED  BY <3>2, <2>1, <1>6 DEF IngressRecord
  <2>3. AttemptOf(v.attempts, r) = 0  BY <1>4, <1>6, <2>1 DEF Waiting
  <2>4. CommandAnswer(v, now, r, v.ingress[i].input)
            = CommandReply(v.attempts, now, r, v.ingress[i].input)
    BY <1>3, <2>2, CommandAnswered
  <2>5. CommandAnswer(v, now, r, v.ingress[i].input) = New
    BY <2>3, <2>4 DEF CommandReply
  <2>6. ASSUME v.ingress[i].decision # None PROVE UniqueForDecision(v, r)
    <3>1. c = i
      <4>1. JournalsOk(v.commands, v.attempts, v.ingress)  BY <1>3, Fields
      <4> QED  BY <4>1, <1>5, <2>1, <2>2, Lookups
    <3>2. /\ i \in 1 .. Len(v.ingress) /\ Len(v.ingress) \in Nat
          /\ v.cut.ingress \in 0 .. Len(v.ingress) /\ v.cut.attempts \in Nat
      <4>1. /\ Len(v.ingress) \in Nat /\ v.cut.ingress \in 0 .. Len(v.ingress)
            /\ DOMAIN v.ingress = 1 .. Len(v.ingress) /\ v.cut \in CutType
        BY <1>3, Fields
      <4> QED  BY <4>1, <1>5 DEF CutType
    <3>3. /\ v.outcomes[r] = IF r \notin v.retired /\ 0 <= v.cut.attempts THEN 0 ELSE 0
          /\ v.receipts[r] = IF /\ r \notin v.retired /\ c \in 1 .. v.cut.ingress
                                /\ v.ingress[c].decision = None
                             THEN c ELSE 0
          /\ r \in v.nested <=> c \in 1 .. v.cut.ingress /\ v.ingress[c].decision # None
          /\ v.queued[r] = IF c > v.cut.ingress THEN 1 ELSE 0
          /\ v.first[r] = IF 0 > v.cut.attempts THEN 0 - v.cut.attempts ELSE 0
          /\ r \in v.retired => 0 \in 1 .. v.cut.attempts
      BY <1>3, <2>1, <2>2, <2>3, Entries
    <3>4. v.outcomes[r] = 0 /\ v.receipts[r] = 0  BY <3>1, <3>3, <2>6
    <3>5. r \notin v.retired /\ v.first[r] = 0  BY <3>2, <3>3
    <3>6. r \in v.nested <=> i <= v.cut.ingress  BY <3>1, <3>2, <3>3, <2>6
    <3>7. v.queued[r] = IF i > v.cut.ingress THEN 1 ELSE 0  BY <3>1, <3>3
    <3>8. v.queued[r] + (IF r \in v.nested THEN 1 ELSE 0) = 1
      <4>1. CASE i <= v.cut.ingress  BY <4>1, <3>2, <3>6, <3>7
      <4>2. CASE i > v.cut.ingress
        <5>1. ~(i <= v.cut.ingress)  BY <4>2, <3>2
        <5>2. r \notin v.nested  BY <5>1, <3>6
        <5> QED  BY <4>2, <5>2, <3>7
      <4> QED  BY <4>1, <4>2, <3>2
    <3> QED  BY <3>4, <3>5, <3>8 DEF UniqueForDecision
  <2> QED  BY <2>1, <2>5, <2>6
<1> QED  BY <1>5, <1>6

(* A restore accepts the checkpoint.                                        *)
LEMMA SoundCheckpoint ==
    ASSUME AdmissionSound, ~saved.open
    PROVE  CheckpointRestores
<1>1. PICK e : e = ContinuedOf(evidence)  OBVIOUS
<1>2. PICK v : v = evidence  OBVIOUS
<1>3. Sealable(v)  BY <1>2, SoundSealable
<1>4. /\ EvidenceOk(e, now) /\ e.attempts = v.attempts /\ e.ingress = v.ingress
      /\ e.cut = SettledCut /\ e.retired = LateAt(v.attempts, SettledCut, now)
  BY <1>1, <1>2, <1>3, ContinuedInForm
<1>5. now \in Int /\ e.cut.ingress = Len(v.ingress) /\ e.cut.attempts \in Nat
  BY <1>2, <1>3, <1>4 DEF Sealable, CutForward, CutType
<1>6. JournalsOk(e.commands, e.attempts, e.ingress)  BY <1>4, Fields
<1>7. ASSUME NEW r \in e.retired
      PROVE  e.outcomes[r] = 0 /\ e.receipts[r] = 0 /\ e.first[r] = 0
  <2>1. r \in Requests  BY <1>4 DEF LateAt
  <2>2. PICK n : n = AttemptOf(e.attempts, r)  OBVIOUS
  <2>3. /\ e.outcomes[r] = IF r \notin e.retired /\ n <= e.cut.attempts THEN n ELSE 0
        /\ e.receipts[r] = IF /\ r \notin e.retired
                              /\ CarrierOf(e.ingress, r) \in 1 .. e.cut.ingress
                              /\ e.ingress[CarrierOf(e.ingress, r)].decision = None
                           THEN CarrierOf(e.ingress, r) ELSE 0
        /\ e.first[r] = IF n > e.cut.attempts THEN n - e.cut.attempts ELSE 0
        /\ r \in e.retired => n \in 1 .. e.cut.attempts
    BY <1>4, <2>1, <2>2, Entries
  <2>4. e.outcomes[r] = 0 /\ e.receipts[r] = 0  BY <2>3
  <2>5. e.first[r] = 0  BY <2>3, <1>5
  <2> QED  BY <2>4, <2>5
<1>8. ASSUME NEW r \in Requests, e.outcomes[r] # 0
      PROVE  e.attempts[e.outcomes[r]].at \in KeptFrom(now) .. now
  <2>1. PICK n : n = AttemptOf(e.attempts, r)  OBVIOUS
  <2>2. e.outcomes[r] = IF r \notin e.retired /\ n <= e.cut.attempts THEN n ELSE 0
    BY <1>4, <2>1, Entries
  <2>3. r \notin e.retired /\ n <= e.cut.attempts /\ n # 0 /\ e.outcomes[r] = n
    BY <2>2, <1>8
  <2>4. n \in 0 .. Len(e.attempts) /\ n \in DOMAIN e.attempts
    BY <1>6, <2>1, <2>3, Lookups
  <2>5. n \in 1 .. e.cut.attempts  BY <2>3, <2>4, <1>5
  <2>6. ~(e.attempts[n].at < KeptFrom(now))
    BY <2>1, <2>3, <2>5, <1>4 DEF LateAt
  <2>7. e.attempts[n].at <= now  BY <2>4, <1>2, <1>4 DEF AdmissionSound
  <2>8. e.attempts[n].at \in Nat
    <3>1. e.attempts \in Seq(Attempt)  BY <1>6 DEF JournalsOk
    <3>2. e.attempts[n] \in Attempt  BY <3>1, <2>4
    <3> QED  BY <3>2 DEF Attempt
  <2>9. KeptFrom(now) \in Int  BY <1>5, AdmissionAssumption DEF KeptFrom
  <2> QED  BY <2>3, <2>6, <2>7, <2>8, <2>9, <1>5
<1>9. ASSUME NEW i \in pending, e.ingress[i].request # None
      PROVE  IF IsCommand(i) THEN e.receipts[e.ingress[i].request] # 0
             ELSE e.ingress[i].request \in e.nested
  <2>1. PICK r, c : r = e.ingress[i].request /\ c = CarrierOf(e.ingress, r)  OBVIOUS
  <2>2. Waiting(i, v)  BY <1>2 DEF AdmissionSound
  <2>3. i \in DOMAIN e.ingress /\ AttemptOf(e.attempts, r) = 0
    BY <1>4, <1>9, <2>1, <2>2 DEF Waiting
  <2>4. r \in Requests
    <3>1. e.ingress \in Seq(IngressRecord)  BY <1>6 DEF JournalsOk
    <3>2. e.ingress[i] \in IngressRecord  BY <3>1, <2>3
    <3> QED  BY <3>2, <2>1, <1>9 DEF IngressRecord
  <2>5. c = i  BY <1>6, <2>1, <2>3, <2>4, Lookups
  <2>6. i \in 1 .. e.cut.ingress
    <3>1. DOMAIN e.ingress = 1 .. Len(e.ingress)  BY <1>4, Fields
    <3> QED  BY <3>1, <2>3, <1>4, <1>5
  <2>7. /\ e.receipts[r] = IF /\ r \notin e.retired /\ c \in 1 .. e.cut.ingress
                              /\ e.ingress[c].decision = None
                           THEN c ELSE 0
        /\ r \in e.nested <=> c \in 1 .. e.cut.ingress /\ e.ingress[c].decision # None
        /\ r \in e.retired => 0 \in 1 .. e.cut.attempts
    BY <1>4, <2>1, <2>3, <2>4, Entries
  <2>8. r \notin e.retired  BY <2>7, <1>5
  <2>9. IsCommand(i) <=> e.ingress[i].decision = None  BY <1>2, <1>4 DEF IsCommand
  <2>10. i # 0  BY <2>6, <1>5
  <2> QED  BY <2>1, <2>5, <2>6, <2>7, <2>8, <2>9, <2>10
<1> QED  BY <1>1, <1>7, <1>8, <1>9 DEF CheckpointRestores

(* A sequence is one over any set that holds its elements.                  *)
LEMMA SeqOver ==
    ASSUME NEW R, NEW S, NEW s \in Seq(R), \A i \in 1 .. Len(s) : s[i] \in S
    PROVE  s \in Seq(S)
OBVIOUS

(* The type invariant.                                                      *)
LEMMA SoundTypes ==
    ASSUME AdmissionSound
    PROVE  TypeOK
<1>1. PICK v : v = evidence  OBVIOUS
<1>2. EvidenceOk(v, CommittedNow)  BY <1>1, SoundTimes
<1>3. /\ v.attempts \in Seq(Attempt) /\ v.ingress \in Seq(IngressRecord)
      /\ v.commands \in Seq(Nat) /\ Len(v.attempts) \in Nat
      /\ DOMAIN v.attempts = 1 .. Len(v.attempts)
      /\ v.cut.ingress \in 0 .. Len(v.ingress) /\ Len(v.ingress) \in Nat
      /\ JournalsOk(v.commands, v.attempts, v.ingress)
  BY <1>2, Fields
<1>4. v.commands \in Seq(0 .. Len(v.attempts) + 1)
  <2>1. Linked(v.commands, v.attempts)  BY <1>3 DEF JournalsOk
  <2>2. PICK m : m = Len(v.attempts)  OBVIOUS
  <2>3. \A c \in DOMAIN v.commands : v.commands[c] # 0 => v.commands[c] \in 1 .. m
    BY <2>1, <2>2, <1>3 DEF Linked
  <2>4. m \in Nat  BY <2>2, <1>3
  <2>5. \A c \in DOMAIN v.commands : v.commands[c] \in 0 .. m + 1
    BY <2>3, <2>4
  <2>6. PICK S : S = 0 .. m + 1  OBVIOUS
  <2>7. \A c \in 1 .. Len(v.commands) : v.commands[c] \in S  BY <2>5, <2>6, <1>3
  <2>8. v.commands \in Seq(S)  BY <2>7, <1>3, SeqOver
  <2> QED  BY <2>2, <2>6, <2>8
<1>5. v.cut.ingress <= Len(v.ingress)  BY <1>3
<1>6. \A i \in pending \cup taking : i \in DOMAIN v.ingress
  BY <1>1 DEF AdmissionSound, Waiting
<1> QED  BY <1>1, <1>3, <1>4, <1>5, <1>6 DEF AdmissionSound, TypeOK

(* The invariant implies that the admission history answers.                *)
LEMMA AdmissionAnswers ==
    ASSUME AdmissionSound
    PROVE  HistoryAnswers
<1>1. TypeOK  BY SoundTypes
<1>2. IndexExact
  <2>1. EvidenceOk(evidence, CommittedNow)  BY SoundTimes
  <2> QED  BY <2>1, RebuildSame DEF IndexExact
<1>3. AnswersAlike /\ UsedOnce /\ FamiliesApart /\ QueuedStaysFresh
  BY SoundAlike, SoundJournals, SoundQueue
<1>4. SealedLikeContinued
  <2>1. ASSUME ~saved.open PROVE Sealable(evidence)  BY <2>1, SoundSealable
  <2> QED  BY <2>1, SealsAlike DEF SealedLikeContinued
<1>5. CheckpointRestores
  <2>1. CASE ~saved.open  BY <2>1, SoundCheckpoint
  <2>2. CASE saved.open  BY <2>2 DEF CheckpointRestores
  <2> QED  BY <2>1, <2>2
<1> QED  BY <1>1, <1>2, <1>3, <1>4, <1>5 DEF HistoryAnswers

-----------------------------------------------------------------------------
(* A push keeps the form.                                                   *)

(* An attempt of a request that was never attempted.                        *)
LEMMA AttemptPushed ==
    ASSUME NEW attempts \in Seq(Attempt), NEW x \in Attempt,
           AttemptsOf(attempts, x.request) = {}
    PROVE  /\ AttemptsOf(Append(attempts, x), x.request) = {Len(attempts) + 1}
           /\ AttemptOf(Append(attempts, x), x.request) = Len(attempts) + 1
           /\ \A q : q # x.request =>
                  /\ AttemptsOf(Append(attempts, x), q) = AttemptsOf(attempts, q)
                  /\ AttemptOf(Append(attempts, x), q) = AttemptOf(attempts, q)
<1>1. PICK s : s = Append(attempts, x)  OBVIOUS
<1>2. PICK m : m = Len(attempts)  OBVIOUS
<1>3. /\ m \in Nat /\ DOMAIN attempts = 1 .. m /\ DOMAIN s = 1 .. m + 1
      /\ s[m + 1] = x /\ \A n \in 1 .. m : s[n] = attempts[n]
  BY <1>1, <1>2
<1>4. \A n \in 1 .. m : attempts[n].request # x.request  BY <1>3 DEF AttemptsOf
<1>5. \A n \in 1 .. m + 1 : n = m + 1 \/ n \in 1 .. m  BY <1>3
<1>6. m + 1 \in 1 .. m + 1 /\ m + 1 \notin 1 .. m /\ 1 .. m \subseteq 1 .. m + 1  BY <1>3
<1>7. AttemptsOf(s, x.request) = {m + 1}
  BY <1>3, <1>4, <1>5, <1>6 DEF AttemptsOf
<1>8. \A q : q # x.request => AttemptsOf(s, q) = AttemptsOf(attempts, q)
  BY <1>3, <1>5, <1>6 DEF AttemptsOf
<1>9. Least({m + 1}) = m + 1
  <2>1. m + 1 \in Nat  BY <1>3
  <2> QED  BY <2>1, LeastOne DEF AtMostOne
<1> QED  BY <1>1, <1>2, <1>7, <1>8, <1>9 DEF AttemptOf

\* What admission adds to the journals.
Admissible(commands, attempts, ingress, x) ==
    /\ JournalsOk(commands, attempts, ingress) /\ x \in Attempt
    /\ AttemptOf(attempts, x.request) = 0
    /\ ingress # <<>> => CarrierOf(ingress, x.request) # 0
    /\ x.command \in {0, Len(commands) + 1}
    /\ ~DirectHistory(commands, attempts)

Grown(commands, attempts, x) ==
    IF x.command = 0 THEN commands ELSE Append(commands, Len(attempts) + 1)

(* The journals with one more attempt, and its command if it was accepted.  *)
LEMMA AdmittedJournals ==
    ASSUME NEW commands, NEW attempts, NEW ingress, NEW x,
           Admissible(commands, attempts, ingress, x)
    PROVE  JournalsOk(Grown(commands, attempts, x), Append(attempts, x), ingress)
<1>1. PICK s, g, m, k : /\ s = Append(attempts, x) /\ g = Grown(commands, attempts, x)
                        /\ m = Len(attempts) /\ k = Len(commands)
  OBVIOUS
<1>2. /\ commands \in Seq(Nat) /\ attempts \in Seq(Attempt)
      /\ ingress \in Seq(IngressRecord) /\ x \in Attempt
      /\ Unique(attempts, ingress) /\ Linked(commands, attempts)
      /\ Apart(commands, attempts, ingress)
      /\ JournalsOk(commands, attempts, ingress)
      /\ x.command = 0 \/ x.command = k + 1
      /\ ingress # <<>> => CarrierOf(ingress, x.request) # 0
      /\ attempts # <<>> \/ ~(Len(commands) > 0)
  BY <1>1 DEF Admissible, JournalsOk, DirectHistory
<1>3. /\ m \in Nat /\ k \in Nat /\ DOMAIN attempts = 1 .. m /\ DOMAIN commands = 1 .. k
      /\ s \in Seq(Attempt) /\ DOMAIN s = 1 .. m + 1
      /\ s[m + 1] = x /\ \A n \in 1 .. m : s[n] = attempts[n]
  BY <1>1, <1>2
<1>4. x.request \in Requests /\ x.command \in Nat  BY <1>2 DEF Attempt
<1>5. AttemptsOf(attempts, x.request) = {}
  <2>1. AttemptOf(attempts, x.request) = 0  BY DEF Admissible
  <2>2. \A n \in DOMAIN attempts : attempts[n].request # x.request
    BY <1>2, <1>4, <2>1, Lookups
  <2> QED  BY <2>2 DEF AttemptsOf
<1>6. /\ AttemptsOf(s, x.request) = {m + 1}
      /\ \A q : q # x.request => AttemptsOf(s, q) = AttemptsOf(attempts, q)
  BY <1>1, <1>2, <1>5, AttemptPushed
<1>7. Unique(s, ingress)
  <2>1. ASSUME NEW q \in Requests PROVE AtMostOne(AttemptsOf(s, q))
    <3>1. CASE q = x.request  BY <3>1, <1>6 DEF AtMostOne
    <3>2. CASE q # x.request  BY <3>2, <1>6, <1>2 DEF Unique
    <3> QED  BY <3>1, <3>2
  <2> QED  BY <2>1, <1>2 DEF Unique
<1>8. \/ x.command = 0 /\ g = commands
      \/ x.command = k + 1 /\ g = Append(commands, m + 1)
  BY <1>1, <1>2, <1>3 DEF Grown
<1>9. /\ g \in Seq(Nat)
      /\ x.command = 0 => DOMAIN g = 1 .. k /\ \A c \in 1 .. k : g[c] = commands[c]
      /\ x.command # 0 => /\ DOMAIN g = 1 .. k + 1 /\ g[k + 1] = m + 1
                          /\ \A c \in 1 .. k : g[c] = commands[c]
  <2>1. CASE x.command = 0 /\ g = commands  BY <2>1, <1>2, <1>3
  <2>2. CASE x.command = k + 1 /\ g = Append(commands, m + 1)
    <3>1. m + 1 \in Nat /\ k + 1 # 0  BY <1>3
    <3>2. /\ g \in Seq(Nat) /\ DOMAIN g = 1 .. k + 1 /\ g[k + 1] = m + 1
          /\ \A c \in 1 .. k : g[c] = commands[c]
      BY <3>1, <2>2, <1>1, <1>2, <1>3
    <3> QED  BY <3>1, <3>2, <2>2
  <2> QED  BY <1>8, <2>1, <2>2
<1>10. Linked(g, s)
  <2>1. ASSUME NEW n \in DOMAIN s, s[n].command # 0
        PROVE  s[n].command \in DOMAIN g /\ g[s[n].command] = n
    <3>1. CASE n = m + 1
      <4>1. x.command # 0 /\ x.command = k + 1  BY <3>1, <2>1, <1>3, <1>2
      <4>2. DOMAIN g = 1 .. k + 1 /\ g[k + 1] = m + 1  BY <4>1, <1>9
      <4>3. k + 1 \in 1 .. k + 1  BY <1>3
      <4> QED  BY <4>1, <4>2, <4>3, <3>1, <1>3
    <3>2. CASE n # m + 1
      <4>1. n \in 1 .. m  BY <3>2, <1>3
      <4>2. PICK c : c = attempts[n].command  OBVIOUS
      <4>3. s[n].command = c /\ c # 0  BY <4>1, <4>2, <1>3, <2>1
      <4>4. c \in 1 .. k /\ commands[c] = n  BY <4>1, <4>2, <4>3, <1>2, <1>3 DEF Linked
      <4>5. c \in DOMAIN g /\ g[c] = commands[c]
        <5>1. 1 .. k \subseteq 1 .. k + 1  BY <1>3
        <5> QED  BY <5>1, <4>4, <1>9
      <4> QED  BY <4>3, <4>4, <4>5
    <3> QED  BY <3>1, <3>2
  <2>2. ASSUME NEW c \in DOMAIN g, g[c] # 0
        PROVE  g[c] \in DOMAIN s /\ s[g[c]].command = c
    <3>1. CASE c \in 1 .. k
      <4>1. g[c] = commands[c]  BY <3>1, <1>9
      <4>2. commands[c] \in 1 .. m /\ attempts[commands[c]].command = c
        BY <4>1, <3>1, <2>2, <1>2, <1>3 DEF Linked
      <4>3. 1 .. m \subseteq 1 .. m + 1  BY <1>3
      <4> QED  BY <4>1, <4>2, <4>3, <1>3
    <3>2. CASE c \notin 1 .. k
      <4>1. x.command # 0 /\ DOMAIN g = 1 .. k + 1  BY <3>2, <1>9
      <4>2. c = k + 1 /\ x.command = k + 1  BY <4>1, <3>2, <1>2, <1>3
      <4>3. g[c] = m + 1  BY <4>1, <4>2, <1>9
      <4>4. m + 1 \in 1 .. m + 1  BY <1>3
      <4> QED  BY <4>2, <4>3, <4>4, <1>3
    <3> QED  BY <3>1, <3>2
  <2> QED  BY <2>1, <2>2 DEF Linked
<1>11. Apart(g, s, ingress)
  <2>1. \A c \in DOMAIN g : g[c] # 0
    <3>1. \A c \in 1 .. k : commands[c] # 0
      <4>1. (\E c \in 1 .. k : commands[c] = 0) => attempts = <<>>  BY <1>2, <1>3 DEF Apart
      <4>2. (\E c \in 1 .. k : TRUE) => k > 0  BY <1>3
      <4> QED  BY <4>1, <4>2, <1>1, <1>2
    <3>2. \A c \in 1 .. k + 1 : c = k + 1 \/ c \in 1 .. k  BY <1>3
    <3>3. m + 1 # 0  BY <1>3
    <3> QED  BY <3>1, <3>2, <3>3, <1>9
  <2>2. ASSUME ingress # <<>>, NEW n \in DOMAIN s
        PROVE  CarriersOf(ingress, s[n].request) # {}
    <3>1. CASE n = m + 1
      <4>1. CarrierOf(ingress, x.request) # 0  BY <2>2, <1>2
      <4>2. PICK i : i = CarrierOf(ingress, x.request)  OBVIOUS
      <4>3. i \in DOMAIN ingress /\ ingress[i].request = x.request
        BY <4>1, <4>2, <1>2, <1>4, Lookups
      <4> QED  BY <4>3, <3>1, <1>3 DEF CarriersOf
    <3>2. CASE n # m + 1
      <4>1. n \in 1 .. m /\ s[n] = attempts[n]  BY <3>2, <1>3
      <4> QED  BY <4>1, <2>2, <1>2, <1>3 DEF Apart
    <3> QED  BY <3>1, <3>2
  <2> QED  BY <2>1, <2>2 DEF Apart
<1> QED  BY <1>1, <1>2, <1>3, <1>7, <1>9, <1>10, <1>11 DEF JournalsOk

(* A cut takes neither the new attempt nor its command.                     *)
LEMMA AlignedPushed ==
    ASSUME NEW commands, NEW attempts, NEW ingress, NEW x,
           Admissible(commands, attempts, ingress, x),
           NEW L, L.attempts \in Nat, L.commands \in Nat,
           L.attempts <= Len(attempts), L.commands <= Len(commands), Aligned(attempts, L)
    PROVE  Aligned(Append(attempts, x), L)
<1>1. PICK s, m, k, la, lc : /\ s = Append(attempts, x) /\ m = Len(attempts)
                             /\ k = Len(commands) /\ la = L.attempts /\ lc = L.commands
  OBVIOUS
<1>2. /\ attempts \in Seq(Attempt) /\ commands \in Seq(Nat) /\ x \in Attempt
      /\ x.command = 0 \/ x.command = k + 1
  BY <1>1 DEF Admissible, JournalsOk
<1>3. /\ m \in Nat /\ k \in Nat /\ DOMAIN attempts = 1 .. m /\ DOMAIN s = 1 .. m + 1
      /\ s[m + 1] = x /\ \A n \in 1 .. m : s[n] = attempts[n]
  BY <1>1, <1>2
<1>4. /\ la \in Nat /\ lc \in Nat /\ la <= m /\ lc <= k
  BY <1>1
<1>5. ASSUME NEW n \in DOMAIN s, s[n].command # 0
      PROVE  n <= la <=> s[n].command <= lc
  <2>1. CASE n = m + 1
    <3>1. s[n].command = k + 1  BY <2>1, <1>5, <1>2, <1>3
    <3>2. ~(m + 1 <= la) /\ ~(k + 1 <= lc)  BY <1>3, <1>4
    <3> QED  BY <3>1, <3>2, <2>1
  <2>2. CASE n # m + 1
    <3>1. n \in 1 .. m /\ s[n] = attempts[n]  BY <2>2, <1>3
    <3>2. attempts[n].command # 0 => (n <= la <=> attempts[n].command <= lc)
      BY <3>1, <1>1, <1>3 DEF Aligned
    <3>3. attempts[n].command # 0  BY <3>1, <1>5
    <3> QED  BY <3>1, <3>2, <3>3
  <2> QED  BY <2>1, <2>2
<1> QED  BY <1>1, <1>5 DEF Aligned

\* The attempt admission makes of a request.
AttemptFor(e, r, input, accepted) ==
    [request |-> r, input |-> input, at |-> now,
     command |-> IF accepted THEN Len(e.commands) + 1 ELSE 0]

CanAdmit(e, at, r, input, accepted) ==
    /\ EvidenceOk(e, at) /\ now \in Nat
    /\ r \in Requests /\ input \in Inputs /\ accepted \in BOOLEAN
    /\ ~HasDirect(e) /\ AttemptOf(e.attempts, r) = 0
    /\ e.ingress # <<>> => CarrierOf(e.ingress, r) # 0

\* f is the history e with attempt x.
GrownBy(f, e, x) ==
    /\ f.commands = Grown(e.commands, e.attempts, x)
    /\ f.attempts = Append(e.attempts, x) /\ f.ingress = e.ingress
    /\ f.cut = e.cut /\ f.pinned = e.pinned /\ f.retired = e.retired

(* What is admitted may be added to the journals.                           *)
LEMMA AdmitAdmissible ==
    ASSUME NEW e, NEW at, NEW r, NEW input, NEW accepted, CanAdmit(e, at, r, input, accepted),
           NEW x, x = AttemptFor(e, r, input, accepted)
    PROVE  /\ Admissible(e.commands, e.attempts, e.ingress, x)
           /\ x.request = r /\ x.at = now /\ x \in Attempt
<1>1. EvidenceOk(e, at) /\ now \in Nat /\ r \in Requests /\ input \in Inputs
  BY DEF CanAdmit
<1>2. accepted \in BOOLEAN /\ AttemptOf(e.attempts, r) = 0
      /\ (e.ingress # <<>> => CarrierOf(e.ingress, r) # 0)
  BY DEF CanAdmit
<1>3. Len(e.commands) \in Nat /\ JournalsOk(e.commands, e.attempts, e.ingress)
  BY <1>1, Fields
<1>4. PICK y : y = IF accepted THEN Len(e.commands) + 1 ELSE 0  OBVIOUS
<1>5. y \in {0, Len(e.commands) + 1} /\ y \in Nat  BY <1>2, <1>3, <1>4
<1>6. x = [request |-> r, input |-> input, at |-> now, command |-> y]
  BY <1>4 DEF AttemptFor
<1>7. x \in Attempt /\ x.request = r /\ x.command = y /\ x.at = now
  BY <1>1, <1>5, <1>6 DEF Attempt
<1>8. ~DirectHistory(e.commands, e.attempts)
  <2>1. ~HasDirect(e)  BY DEF CanAdmit
  <2> QED  BY <1>1, <2>1, FamiliesRead
<1> QED  BY <1>2, <1>3, <1>5, <1>7, <1>8 DEF Admissible

(* Admission keeps the form.                                                *)
LEMMA AdmittedInForm ==
    ASSUME NEW e, NEW at, NEW r, NEW input, NEW accepted, CanAdmit(e, at, r, input, accepted)
    PROVE  /\ EvidenceOk(Admitted(e, r, input, accepted), at)
           /\ GrownBy(Admitted(e, r, input, accepted), e, AttemptFor(e, r, input, accepted))
<1>1. PICK x : x = AttemptFor(e, r, input, accepted)  OBVIOUS
<1>2. /\ Admissible(e.commands, e.attempts, e.ingress, x)
      /\ x.request = r /\ x \in Attempt
  BY <1>1, AdmitAdmissible
<1>3. /\ EvidenceOk(e, at) /\ r \in Requests /\ AttemptOf(e.attempts, r) = 0
      /\ accepted \in BOOLEAN /\ (e.ingress # <<>> => CarrierOf(e.ingress, r) # 0)
  BY DEF CanAdmit
<1>4. PICK m, g, s : /\ m = Len(e.attempts) /\ g = Grown(e.commands, e.attempts, x)
                     /\ s = Append(e.attempts, x)
  OBVIOUS
<1>5. /\ e \in EvidenceType /\ TablesOk(e, at) /\ IndexOk(e) /\ CutOk(e)
  BY <1>3 DEF EvidenceOk
<1>6. /\ m \in Nat /\ Len(e.commands) \in Nat /\ e.attempts \in Seq(Attempt)
      /\ e.cut \in CutType
      /\ e.cut.attempts \in 0 .. m /\ e.cut.ingress \in 0 .. Len(e.ingress)
      /\ e.commands \in Seq(Nat) /\ e.ingress \in Seq(IngressRecord)
      /\ e.cut.commands \in 0 .. Len(e.commands) /\ Len(e.ingress) \in Nat
      /\ JournalsOk(e.commands, e.attempts, e.ingress)
  BY <1>3, <1>4, Fields
<1>7. /\ e.outcomes[r] = IF r \notin e.retired /\ 0 <= e.cut.attempts THEN 0 ELSE 0
      /\ e.receipts[r] = IF /\ r \notin e.retired
                            /\ CarrierOf(e.ingress, r) \in 1 .. e.cut.ingress
                            /\ e.ingress[CarrierOf(e.ingress, r)].decision = None
                         THEN CarrierOf(e.ingress, r) ELSE 0
      /\ r \in e.nested <=> /\ CarrierOf(e.ingress, r) \in 1 .. e.cut.ingress
                            /\ e.ingress[CarrierOf(e.ingress, r)].decision # None
      /\ e.queued[r] = IF CarrierOf(e.ingress, r) > e.cut.ingress THEN 1 ELSE 0
      /\ e.first[r] = IF 0 > e.cut.attempts THEN 0 - e.cut.attempts ELSE 0
      /\ r \in e.retired => 0 \in 1 .. e.cut.attempts
  BY <1>3, Entries
<1>8. e.first[r] = 0 /\ r \notin e.retired  BY <1>6, <1>7
<1>9. ~HasDirect(e) /\ ~DirectHistory(e.commands, e.attempts)
  BY <1>2 DEF CanAdmit, Admissible
<1>10. ~e.legacy /\ e.direct = 0  BY <1>9 DEF HasDirect
\* The first unqueued attempt.
<1>11. PICK u : u = IF e.unqueued = 0 /\ IsUnqueued(e, r) THEN m - e.cut.attempts + 1
                    ELSE e.unqueued
  OBVIOUS
<1>12. u = UnqueuedAt(s, e.ingress, e.cut)
  <2>1. e.unqueued = IF e.ingress = <<>> /\ m > e.cut.attempts THEN 1 ELSE 0
    BY <1>4, <1>5 DEF IndexOk, UnqueuedAt
  <2>2. UnqueuedAt(s, e.ingress, e.cut) = IF e.ingress = <<>> THEN 1 ELSE 0
    <3>1. Len(s) = m + 1 /\ m + 1 > e.cut.attempts  BY <1>2, <1>4, <1>6
    <3> QED  BY <3>1 DEF UnqueuedAt
  <2>3. CarrierOf(e.ingress, r) \in 0 .. Len(e.ingress)  BY <1>3, <1>6, Lookups
  <2>4. CASE e.ingress = <<>>
    <3>1. CarrierOf(e.ingress, r) = 0  BY <2>3, <2>4, <1>6
    <3>2. e.queued[r] = 0 /\ e.receipts[r] = 0 /\ r \notin e.nested
      BY <3>1, <1>6, <1>7
    <3>3. IsUnqueued(e, r)  BY <3>2 DEF IsUnqueued, ArchivedQueued
    <3>4. m > e.cut.attempts \/ m - e.cut.attempts + 1 = 1  BY <1>6
    <3> QED  BY <2>1, <2>2, <2>4, <3>3, <3>4, <1>11
  <2>5. CASE e.ingress # <<>>
    <3>1. PICK c : c = CarrierOf(e.ingress, r)  OBVIOUS
    <3>2. c # 0 /\ c \in 0 .. Len(e.ingress)  BY <3>1, <2>3, <2>5, <1>3
    <3>3. c > e.cut.ingress \/ c \in 1 .. e.cut.ingress  BY <3>2, <1>6
    <3>4. e.queued[r] # 0 \/ ArchivedQueued(e, r)
      <4>1. CASE c > e.cut.ingress  BY <4>1, <3>1, <1>7
      <4>2. CASE c \in 1 .. e.cut.ingress
        <5>1. CASE e.ingress[c].decision = None
          <6>1. e.receipts[r] = c  BY <4>2, <5>1, <3>1, <1>7, <1>8
          <6> QED  BY <6>1, <3>2 DEF ArchivedQueued
        <5>2. CASE e.ingress[c].decision # None
          <6>1. r \in e.nested  BY <4>2, <5>2, <3>1, <1>7
          <6> QED  BY <6>1 DEF ArchivedQueued
        <5> QED  BY <5>1, <5>2
      <4> QED  BY <3>3, <4>1, <4>2
    <3>5. ~IsUnqueued(e, r)  BY <3>4 DEF IsUnqueued
    <3> QED  BY <2>1, <2>2, <2>5, <3>5, <1>11
  <2> QED  BY <2>4, <2>5
<1>13. PICK w : w = [e.first EXCEPT ![r] = m - e.cut.attempts + 1]  OBVIOUS
<1>14. PICK f : f = [e EXCEPT !.commands = g, !.attempts = s, !.first = w, !.unqueued = u]
  OBVIOUS
<1>15. e.direct \in Nat /\ e.unqueued \in Nat /\ e.first \in [Requests -> Nat]
  BY <1>5 DEF EvidenceType
<1>16. Admitted(e, r, input, accepted) = f
  <2>1. PICK p : p = IF accepted THEN PushCommand(e, m + 1) ELSE e  OBVIOUS
  <2>2. g = IF accepted THEN Append(e.commands, m + 1) ELSE e.commands
    <3>1. x.command = IF accepted THEN Len(e.commands) + 1 ELSE 0  BY <1>1 DEF AttemptFor
    <3>2. Len(e.commands) + 1 # 0  BY <1>6
    <3> QED  BY <3>1, <3>2, <1>3, <1>4 DEF Grown
  <2>3. p = [e EXCEPT !.commands = g]
    <3>1. CASE accepted
      <4>1. m + 1 # Direct  BY <1>6 DEF Direct
      <4>2. p = [e EXCEPT !.commands = Append(e.commands, m + 1), !.direct = e.direct]
        BY <3>1, <4>1, <2>1, <1>5 DEF PushCommand, EvidenceType
      <4>3. g = Append(e.commands, m + 1)  BY <3>1, <2>2
      <4> QED  BY <4>2, <4>3, <1>5 DEF EvidenceType
    <3>2. CASE ~accepted
      <4>1. p = e /\ g = e.commands  BY <3>2, <2>1, <2>2
      <4> QED  BY <4>1, <1>5 DEF EvidenceType
    <3> QED  BY <3>1, <3>2
  <2>4. /\ p.attempts = e.attempts /\ p.cut = e.cut /\ p.first = e.first
        /\ p.unqueued = e.unqueued /\ p.queued = e.queued /\ p.receipts = e.receipts
        /\ p.nested = e.nested
    BY <2>3, <1>5 DEF EvidenceType
  <2>5. Admitted(e, r, input, accepted) = PushAttempt(p, x)
    BY <1>1, <1>4, <2>1 DEF Admitted, AttemptFor
  <2>6. IsUnqueued(p, r) <=> IsUnqueued(e, r)
    BY <2>4 DEF IsUnqueued, ArchivedQueued
  <2>7. PushAttempt(p, x) =
            [p EXCEPT !.attempts = s, !.first = w, !.unqueued = u]
    <3>1. Append(p.attempts, x) = s /\ Len(p.attempts) - p.cut.attempts + 1 = m - e.cut.attempts + 1
      BY <1>4, <2>4
    <3>2. [p.first EXCEPT ![x.request] = m - e.cut.attempts + 1] = w
      BY <1>2, <1>13, <2>4
    <3>3. p.first[x.request] = 0  BY <1>2, <1>8, <2>4
    <3>4. PushAttempt(p, x) =
            [p EXCEPT !.attempts = Append(p.attempts, x),
                      !.first = [p.first EXCEPT ![x.request] = m - e.cut.attempts + 1],
                      !.unqueued = IF p.unqueued = 0 /\ IsUnqueued(p, x.request)
                                   THEN m - e.cut.attempts + 1 ELSE p.unqueued]
      BY <2>3, <3>1, <3>3, <1>5 DEF PushAttempt, EvidenceType
    <3>5. (IF p.unqueued = 0 /\ IsUnqueued(p, x.request)
           THEN m - e.cut.attempts + 1 ELSE p.unqueued) = u
      BY <1>2, <1>11, <2>4, <2>6
    <3> QED  BY <3>1, <3>2, <3>4, <3>5
  <2> QED  BY <2>3, <2>5, <2>7, <1>5, <1>14 DEF EvidenceType
<1>17. /\ f \in EvidenceType
       /\ f.commands = g /\ f.attempts = s /\ f.first = w /\ f.unqueued = u
       /\ f.ingress = e.ingress /\ f.cut = e.cut /\ f.outcomes = e.outcomes
       /\ f.receipts = e.receipts /\ f.decisions = e.decisions /\ f.nested = e.nested
       /\ f.retired = e.retired /\ f.legacy = e.legacy /\ f.tracked = e.tracked
       /\ f.unqueuedHistory = e.unqueuedHistory /\ f.pinned = e.pinned
       /\ f.queued = e.queued /\ f.direct = e.direct
  <2>1. JournalsOk(g, s, e.ingress)  BY <1>2, <1>4, AdmittedJournals
  <2>2. g \in Seq(Nat) /\ s \in Seq(Attempt)  BY <2>1 DEF JournalsOk
  <2>3. m - e.cut.attempts + 1 \in Nat  BY <1>6
  <2>4. w \in [Requests -> Nat] /\ u \in Nat  BY <2>3, <1>11, <1>13, <1>15
  <2> QED  BY <2>2, <2>4, <1>5, <1>14 DEF EvidenceType
<1>18. JournalsOk(f.commands, f.attempts, f.ingress)
  BY <1>2, <1>4, <1>17, AdmittedJournals
<1>19. /\ AttemptOf(s, r) = m + 1
       /\ \A q \in Requests : q # r => AttemptOf(s, q) = AttemptOf(e.attempts, q)
       /\ \A q \in Requests : AttemptOf(e.attempts, q) \in 0 .. m
       /\ \A n \in 1 .. m : s[n] = e.attempts[n]
  <2>1. \A n \in DOMAIN e.attempts : e.attempts[n].request # r
    BY <1>3, <1>6, Lookups
  <2>2. AttemptsOf(e.attempts, r) = {}  BY <2>1 DEF AttemptsOf
  <2>3. /\ AttemptOf(s, r) = m + 1
        /\ \A q : q # r => AttemptOf(s, q) = AttemptOf(e.attempts, q)
    BY <2>2, <1>2, <1>4, <1>6, AttemptPushed
  <2>4. \A q \in Requests : AttemptOf(e.attempts, q) \in 0 .. m  BY <1>4, <1>6, Lookups
  <2>5. \A n \in 1 .. m : s[n] = e.attempts[n]  BY <1>2, <1>4, <1>6
  <2> QED  BY <2>3, <2>4, <2>5
<1>20. CutOk(f)
  <2>1. Aligned(e.attempts, e.cut) /\ e.pinned \subseteq 1 .. e.cut.ingress  BY <1>5 DEF CutOk
  <2>2. PICK L : L = e.cut  OBVIOUS
  <2>3. /\ L.attempts \in Nat /\ L.commands \in Nat
        /\ L.attempts <= Len(e.attempts) /\ L.commands <= Len(e.commands)
        /\ Aligned(e.attempts, L)
    BY <2>1, <2>2, <1>4, <1>6
  <2>4. Aligned(s, L)  BY <2>3, <1>2, <1>4, AlignedPushed
  <2>5. Len(s) = m + 1 /\ e.cut.attempts <= m + 1  BY <1>2, <1>4, <1>6
  <2>6. e.cut.commands <= Len(g)
    <3>1. g = e.commands \/ g = Append(e.commands, m + 1)  BY <1>4 DEF Grown
    <3>2. CASE g = e.commands  BY <3>2, <1>6
    <3>3. CASE g = Append(e.commands, m + 1)
      <4>1. Len(g) = Len(e.commands) + 1  BY <3>3, <1>6
      <4> QED  BY <4>1, <1>6
    <3> QED  BY <3>1, <3>2, <3>3
  <2>7. e.cut.ingress <= Len(e.ingress)  BY <1>6
  <2> QED  BY <2>1, <2>2, <2>4, <2>5, <2>6, <2>7, <1>6, <1>17 DEF CutOk
<1>21. TablesOk(f, at)
  <2>1. /\ RetiredOk(e, at)
        /\ e.outcomes = OutcomesOf(e.attempts, e.cut, e.retired)
        /\ e.receipts = ReceiptsOf(e.ingress, e.cut, e.retired)
        /\ e.decisions = DecisionsOf(e.ingress, e.cut)
        /\ e.nested = NestedOf(e.ingress, e.cut)
        /\ e.legacy = LegacyOf(e.attempts, e.cut)
        /\ e.tracked = (e.cut.attempts > 0 \/ e.cut.ingress > 0)
        /\ e.unqueuedHistory = UnqueuedOf(e.attempts, e.ingress, e.cut)
    BY <1>5 DEF TablesOk
  <2>2. RetiredOk(f, at)
    <3>1. e.retired \subseteq Requests  BY <2>1 DEF RetiredOk
    <3>2. ASSUME NEW q \in e.retired
          PROVE  /\ AttemptOf(s, q) \in 1 .. e.cut.attempts
                 /\ s[AttemptOf(s, q)].at < KeptFrom(at)
                 /\ CarrierOf(e.ingress, q) <= e.cut.ingress
      <4>1. /\ AttemptOf(e.attempts, q) \in 1 .. e.cut.attempts
            /\ e.attempts[AttemptOf(e.attempts, q)].at < KeptFrom(at)
            /\ CarrierOf(e.ingress, q) <= e.cut.ingress
        BY <2>1 DEF RetiredOk
      <4>2. q # r /\ q \in Requests  BY <1>8, <3>1
      <4>3. AttemptOf(s, q) = AttemptOf(e.attempts, q)  BY <4>2, <1>19
      <4>4. AttemptOf(e.attempts, q) \in 1 .. m  BY <4>1, <1>6
      <4>5. s[AttemptOf(s, q)] = e.attempts[AttemptOf(e.attempts, q)]  BY <4>3, <4>4, <1>19
      <4> QED  BY <4>1, <4>3, <4>5
    <3> QED  BY <3>1, <3>2, <1>17 DEF RetiredOk
  <2>3. OutcomesOf(s, e.cut, e.retired) = OutcomesOf(e.attempts, e.cut, e.retired)
    <3>1. ASSUME NEW q \in Requests
          PROVE  OutcomesOf(s, e.cut, e.retired)[q] = OutcomesOf(e.attempts, e.cut, e.retired)[q]
      <4>1. CASE q # r
        <5>1. AttemptOf(s, q) = AttemptOf(e.attempts, q)  BY <4>1, <1>19
        <5> QED  BY <5>1 DEF OutcomesOf
      <4>2. CASE q = r
        <5>1. AttemptOf(s, r) = m + 1 /\ AttemptOf(e.attempts, r) = 0  BY <1>3, <1>19
        <5>2. ~(m + 1 <= e.cut.attempts)  BY <1>6
        <5>3. OutcomesOf(s, e.cut, e.retired)[r] = 0  BY <1>3, <5>1, <5>2 DEF OutcomesOf
        <5>4. OutcomesOf(e.attempts, e.cut, e.retired)[r] = 0  BY <1>3, <5>1 DEF OutcomesOf
        <5> QED  BY <4>2, <5>3, <5>4
      <4> QED  BY <4>1, <4>2
    <3> QED  BY <3>1 DEF OutcomesOf
  <2>4. s # <<>>
    <3>1. Len(s) = m + 1  BY <1>2, <1>4, <1>6
    <3> QED  BY <3>1, <1>6
  <2>5. LegacyOf(e.attempts, e.cut) = LegacyOf(s, e.cut)
    <3>1. ~LegacyOf(e.attempts, e.cut)  BY <1>10, <2>1
    <3>2. ~LegacyOf(s, e.cut)  BY <2>4 DEF LegacyOf
    <3> QED  BY <3>1, <3>2 DEF LegacyOf
  <2>6. UnqueuedOf(e.attempts, e.ingress, e.cut) = UnqueuedOf(s, e.ingress, e.cut)
    BY <2>5 DEF UnqueuedOf
  <2> QED  BY <2>1, <2>2, <2>3, <2>5, <2>6, <1>17 DEF TablesOk
<1>22. IndexOk(f)
  <2>1. /\ e.queued = QueuedOf(e.ingress, e.cut) /\ e.first = FirstOf(e.attempts, e.cut)
        /\ e.direct = DirectOf(e.commands, e.attempts, e.cut)
    BY <1>5 DEF IndexOk
  <2>2. w = FirstOf(s, e.cut)
    <3>1. w \in [Requests -> Nat]  BY <1>17 DEF EvidenceType
    <3>2. ASSUME NEW q \in Requests PROVE w[q] = FirstOf(s, e.cut)[q]
      <4>1. CASE q = r
        <5>1. m + 1 > e.cut.attempts /\ m + 1 - e.cut.attempts = m - e.cut.attempts + 1
          BY <1>6
        <5>2. FirstOf(s, e.cut)[r] = m + 1 - e.cut.attempts
          <6>1. PICK n : n = AttemptOf(s, r)  OBVIOUS
          <6>2. FirstOf(s, e.cut)[r] = IF n > e.cut.attempts THEN n - e.cut.attempts ELSE 0
            BY <1>3, <6>1 DEF FirstOf
          <6>3. n = m + 1  BY <6>1, <1>19
          <6>4. n > e.cut.attempts  BY <5>1, <6>3
          <6>5. FirstOf(s, e.cut)[r] = n - e.cut.attempts  BY <6>2, <6>4
          <6>6. PICK y : y = e.cut.attempts  OBVIOUS
          <6>7. y \in Nat  BY <6>6, <1>6
          <6>8. n - y = m + 1 - y  BY <6>3, <6>7, <1>6
          <6> QED  BY <6>5, <6>6, <6>8
        <5>3. w[r] = m - e.cut.attempts + 1  BY <1>3, <1>13, <1>15
        <5> QED  BY <4>1, <5>1, <5>2, <5>3
      <4>2. CASE q # r
        <5>1. w[q] = e.first[q]  BY <4>2, <1>13, <1>15
        <5>2. AttemptOf(s, q) = AttemptOf(e.attempts, q)  BY <4>2, <1>19
        <5>3. FirstOf(s, e.cut)[q] = FirstOf(e.attempts, e.cut)[q]  BY <5>2 DEF FirstOf
        <5> QED  BY <5>1, <5>3, <2>1
      <4> QED  BY <4>1, <4>2
    <3>3. FirstOf(s, e.cut) = [q \in Requests |-> FirstOf(s, e.cut)[q]]  BY DEF FirstOf
    <3> QED  BY <3>1, <3>2, <3>3
  <2>3. DirectOf(g, s, e.cut) = 0
    <3>1. Len(s) = m + 1  BY <1>2, <1>4, <1>6
    <3>2. s # <<>>  BY <3>1, <1>6
    <3> QED  BY <3>2 DEF DirectOf
  <2> QED  BY <2>1, <2>2, <2>3, <1>10, <1>12, <1>17 DEF IndexOk
<1> QED  BY <1>1, <1>4, <1>16, <1>17, <1>18, <1>20, <1>21, <1>22 DEF EvidenceOk, GrownBy

(* A record of a request that nothing carries yet.                          *)
LEMMA CarrierPushed ==
    ASSUME NEW ingress \in Seq(IngressRecord), NEW x \in IngressRecord
    PROVE  /\ CarriersOf(ingress, x.request) = {} =>
                  /\ CarriersOf(Append(ingress, x), x.request) = {Len(ingress) + 1}
                  /\ CarrierOf(Append(ingress, x), x.request) = Len(ingress) + 1
           /\ \A q : q # x.request =>
                  /\ CarriersOf(Append(ingress, x), q) = CarriersOf(ingress, q)
                  /\ CarrierOf(Append(ingress, x), q) = CarrierOf(ingress, q)
<1>1. PICK s : s = Append(ingress, x)  OBVIOUS
<1>2. PICK m : m = Len(ingress)  OBVIOUS
<1>3. /\ m \in Nat /\ DOMAIN ingress = 1 .. m /\ DOMAIN s = 1 .. m + 1
      /\ s[m + 1] = x /\ \A n \in 1 .. m : s[n] = ingress[n]
  BY <1>1, <1>2
<1>4. CarriersOf(ingress, x.request) = {} => \A n \in 1 .. m : ingress[n].request # x.request
  BY <1>3 DEF CarriersOf
<1>5. \A n \in 1 .. m + 1 : n = m + 1 \/ n \in 1 .. m  BY <1>3
<1>6. m + 1 \in 1 .. m + 1 /\ m + 1 \notin 1 .. m /\ 1 .. m \subseteq 1 .. m + 1  BY <1>3
<1>7. CarriersOf(ingress, x.request) = {} => CarriersOf(s, x.request) = {m + 1}
  BY <1>3, <1>4, <1>5, <1>6 DEF CarriersOf
<1>8. \A q : q # x.request => CarriersOf(s, q) = CarriersOf(ingress, q)
  BY <1>3, <1>5, <1>6 DEF CarriersOf
<1>9. Least({m + 1}) = m + 1
  <2>1. m + 1 \in Nat  BY <1>3
  <2> QED  BY <2>1, LeastOne DEF AtMostOne
<1> QED  BY <1>1, <1>2, <1>7, <1>8, <1>9 DEF CarrierOf

(* A record of a decision that was never used.                              *)
LEMMA DeciderPushed ==
    ASSUME NEW ingress \in Seq(IngressRecord), NEW x \in IngressRecord
    PROVE  /\ DecidersOf(ingress, x.decision) = {} =>
                  /\ DecidersOf(Append(ingress, x), x.decision) = {Len(ingress) + 1}
                  /\ DeciderOf(Append(ingress, x), x.decision) = Len(ingress) + 1
           /\ \A d : d # x.decision =>
                  /\ DecidersOf(Append(ingress, x), d) = DecidersOf(ingress, d)
                  /\ DeciderOf(Append(ingress, x), d) = DeciderOf(ingress, d)
<1>1. PICK s : s = Append(ingress, x)  OBVIOUS
<1>2. PICK m : m = Len(ingress)  OBVIOUS
<1>3. /\ m \in Nat /\ DOMAIN ingress = 1 .. m /\ DOMAIN s = 1 .. m + 1
      /\ s[m + 1] = x /\ \A n \in 1 .. m : s[n] = ingress[n]
  BY <1>1, <1>2
<1>4. DecidersOf(ingress, x.decision) = {} =>
          \A n \in 1 .. m : ingress[n].decision # x.decision
  BY <1>3 DEF DecidersOf
<1>5. \A n \in 1 .. m + 1 : n = m + 1 \/ n \in 1 .. m  BY <1>3
<1>6. m + 1 \in 1 .. m + 1 /\ m + 1 \notin 1 .. m /\ 1 .. m \subseteq 1 .. m + 1  BY <1>3
<1>7. DecidersOf(ingress, x.decision) = {} => DecidersOf(s, x.decision) = {m + 1}
  BY <1>3, <1>4, <1>5, <1>6 DEF DecidersOf
<1>8. \A d : d # x.decision => DecidersOf(s, d) = DecidersOf(ingress, d)
  BY <1>3, <1>5, <1>6 DEF DecidersOf
<1>9. Least({m + 1}) = m + 1
  <2>1. m + 1 \in Nat  BY <1>3
  <2> QED  BY <2>1, LeastOne DEF AtMostOne
<1> QED  BY <1>1, <1>2, <1>7, <1>8, <1>9 DEF DeciderOf

\* What the queue may take.
CanQueue(e, at, x) ==
    /\ EvidenceOk(e, at) /\ x \in IngressRecord /\ ~HasUnqueuedHistory(e)
    /\ x.decision # None => DeciderOf(e.ingress, x.decision) = 0
    /\ x.request # None =>
           AttemptOf(e.attempts, x.request) = 0 /\ CarrierOf(e.ingress, x.request) = 0

(* What a new record carries was never carried.                             *)
LEMMA QueueFresh ==
    ASSUME NEW e, NEW at, NEW x, CanQueue(e, at, x)
    PROVE  /\ x.request \in Requests => CarriersOf(e.ingress, x.request) = {}
           /\ x.decision \in DecisionIds => DecidersOf(e.ingress, x.decision) = {}
           /\ e.ingress = <<>> => e.attempts = <<>>
           /\ \A c \in DOMAIN e.commands : e.commands[c] # 0
<1>1. JournalsOk(e.commands, e.attempts, e.ingress)  BY Fields DEF CanQueue
<1>2. None \notin Requests /\ None \notin DecisionIds  BY AdmissionAssumption
<1>3. ASSUME x.request \in Requests PROVE CarriersOf(e.ingress, x.request) = {}
  <2>1. CarrierOf(e.ingress, x.request) = 0  BY <1>2, <1>3 DEF CanQueue
  <2>2. \A n \in DOMAIN e.ingress : e.ingress[n].request # x.request
    BY <1>1, <1>3, <2>1, Lookups
  <2> QED  BY <2>2 DEF CarriersOf
<1>4. ASSUME x.decision \in DecisionIds PROVE DecidersOf(e.ingress, x.decision) = {}
  <2>1. DeciderOf(e.ingress, x.decision) = 0  BY <1>2, <1>4 DEF CanQueue
  <2>2. \A n \in DOMAIN e.ingress : e.ingress[n].decision # x.decision
    BY <1>1, <1>4, <2>1, Lookups
  <2> QED  BY <2>2 DEF DecidersOf
<1>5. /\ ~DirectHistory(e.commands, e.attempts)
      /\ e.ingress = <<>> => e.attempts = <<>>
  <2>1. EvidenceOk(e, at) /\ ~HasUnqueuedHistory(e)  BY DEF CanQueue
  <2> QED  BY <2>1, FamiliesRead
<1>6. ASSUME NEW c \in DOMAIN e.commands, e.commands[c] = 0 PROVE FALSE
  <2>1. e.attempts = <<>>  BY <1>1, <1>6 DEF JournalsOk, Apart
  <2>2. e.commands \in Seq(Nat)  BY <1>1 DEF JournalsOk
  <2>3. Len(e.commands) > 0  BY <2>2, <1>6
  <2> QED  BY <1>5, <2>1, <2>3 DEF DirectHistory
<1> QED  BY <1>3, <1>4, <1>5, <1>6

(* The journals with one more record.                                       *)
LEMMA QueuedJournals ==
    ASSUME NEW e, NEW at, NEW x, CanQueue(e, at, x)
    PROVE  JournalsOk(e.commands, e.attempts, Append(e.ingress, x))
<1>1. PICK s, m : s = Append(e.ingress, x) /\ m = Len(e.ingress)  OBVIOUS
<1>2. /\ JournalsOk(e.commands, e.attempts, e.ingress) /\ x \in IngressRecord
  BY Fields DEF CanQueue
<1>3. /\ e.commands \in Seq(Nat) /\ e.attempts \in Seq(Attempt)
      /\ e.ingress \in Seq(IngressRecord)
      /\ Unique(e.attempts, e.ingress) /\ Linked(e.commands, e.attempts)
      /\ Apart(e.commands, e.attempts, e.ingress)
  BY <1>2 DEF JournalsOk
<1>4. s \in Seq(IngressRecord)  BY <1>1, <1>2, <1>3
<1>5. /\ x.request \in Requests => CarriersOf(e.ingress, x.request) = {}
      /\ x.decision \in DecisionIds => DecidersOf(e.ingress, x.decision) = {}
      /\ e.ingress = <<>> => e.attempts = <<>>
      /\ \A c \in DOMAIN e.commands : e.commands[c] # 0
  BY QueueFresh
<1>6. /\ CarriersOf(e.ingress, x.request) = {} => CarriersOf(s, x.request) = {m + 1}
      /\ \A q : q # x.request => CarriersOf(s, q) = CarriersOf(e.ingress, q)
      /\ DecidersOf(e.ingress, x.decision) = {} => DecidersOf(s, x.decision) = {m + 1}
      /\ \A d : d # x.decision => DecidersOf(s, d) = DecidersOf(e.ingress, d)
  <2>1. /\ CarriersOf(e.ingress, x.request) = {} => CarriersOf(s, x.request) = {m + 1}
        /\ \A q : q # x.request => CarriersOf(s, q) = CarriersOf(e.ingress, q)
    BY <1>1, <1>2, <1>3, CarrierPushed
  <2>2. /\ DecidersOf(e.ingress, x.decision) = {} => DecidersOf(s, x.decision) = {m + 1}
        /\ \A d : d # x.decision => DecidersOf(s, d) = DecidersOf(e.ingress, d)
    BY <1>1, <1>2, <1>3, DeciderPushed
  <2> QED  BY <2>1, <2>2
<1>7. /\ \A r \in Requests : AtMostOne(AttemptsOf(e.attempts, r))
      /\ \A r \in Requests : AtMostOne(CarriersOf(e.ingress, r))
      /\ \A d \in DecisionIds : AtMostOne(DecidersOf(e.ingress, d))
  BY <1>3 DEF Unique
<1>8. ASSUME NEW q \in Requests PROVE AtMostOne(CarriersOf(s, q))
  <2>1. CASE q = x.request  BY <2>1, <1>5, <1>6 DEF AtMostOne
  <2>2. CASE q # x.request  BY <2>2, <1>6, <1>7
  <2> QED  BY <2>1, <2>2
<1>9. ASSUME NEW d \in DecisionIds PROVE AtMostOne(DecidersOf(s, d))
  <2>1. CASE d = x.decision  BY <2>1, <1>5, <1>6 DEF AtMostOne
  <2>2. CASE d # x.decision  BY <2>2, <1>6, <1>7
  <2> QED  BY <2>1, <2>2
<1>10. Unique(e.attempts, s)  BY <1>7, <1>8, <1>9 DEF Unique
<1>11. Apart(e.commands, e.attempts, s)
  <2>1. ASSUME NEW n \in DOMAIN e.attempts
        PROVE  CarriersOf(s, e.attempts[n].request) # {}
    <3>1. e.ingress # <<>>  BY <1>3, <1>5
    <3>2. CarriersOf(e.ingress, e.attempts[n].request) # {}  BY <3>1, <1>3 DEF Apart
    <3>3. PICK q : q = e.attempts[n].request  OBVIOUS
    <3>4. q \in Requests
      <4>1. e.attempts[n] \in Attempt  BY <1>3
      <4> QED  BY <4>1, <3>3 DEF Attempt
    <3>5. q # x.request  BY <3>2, <3>3, <3>4, <1>5
    <3> QED  BY <3>2, <3>3, <3>5, <1>6
  <2> QED  BY <2>1, <1>5 DEF Apart
<1> QED  BY <1>1, <1>3, <1>4, <1>10, <1>11 DEF JournalsOk

(* The queue keeps the form.                                                *)
LEMMA QueuedInForm ==
    ASSUME NEW e, NEW at, NEW x, CanQueue(e, at, x)
    PROVE  LET f == PushIngress(e, x) IN
           /\ EvidenceOk(f, at)
           /\ f.commands = e.commands /\ f.attempts = e.attempts
           /\ f.ingress = Append(e.ingress, x)
           /\ f.cut = e.cut /\ f.pinned = e.pinned /\ f.retired = e.retired
<1>1. EvidenceOk(e, at) /\ x \in IngressRecord /\ ~HasUnqueuedHistory(e)  BY DEF CanQueue
<1>2. /\ e \in EvidenceType /\ TablesOk(e, at) /\ IndexOk(e) /\ CutOk(e)
  BY <1>1 DEF EvidenceOk
<1>3. PICK s, m, cut : s = Append(e.ingress, x) /\ m = Len(e.ingress) /\ cut = e.cut
  OBVIOUS
<1>4. /\ m \in Nat /\ e.ingress \in Seq(IngressRecord)
      /\ cut.ingress \in 0 .. m /\ cut \in CutType
      /\ JournalsOk(e.commands, e.attempts, e.ingress)
  BY <1>1, <1>3, Fields
<1>5. cut.ingress \in Nat /\ cut.ingress <= m /\ ~(m + 1 <= cut.ingress)
      /\ m + 1 \notin 1 .. cut.ingress /\ m + 1 > cut.ingress
  BY <1>4
<1>6. /\ x.request \in Requests => CarriersOf(e.ingress, x.request) = {}
      /\ x.decision \in DecisionIds => DecidersOf(e.ingress, x.decision) = {}
  BY QueueFresh
<1>7. /\ CarriersOf(e.ingress, x.request) = {} => CarrierOf(s, x.request) = m + 1
      /\ \A q : q # x.request => CarrierOf(s, q) = CarrierOf(e.ingress, q)
      /\ DecidersOf(e.ingress, x.decision) = {} => DeciderOf(s, x.decision) = m + 1
      /\ \A d : d # x.decision => DeciderOf(s, d) = DeciderOf(e.ingress, d)
  BY <1>1, <1>3, <1>4, CarrierPushed, DeciderPushed
<1>8. /\ \A n \in 1 .. m : s[n] = e.ingress[n]
      /\ Len(s) = m + 1 /\ s # <<>>
  BY <1>1, <1>3, <1>4
<1>9. /\ \A r \in Requests : r = x.request =>
             CarrierOf(s, r) = m + 1 /\ CarrierOf(e.ingress, r) = 0
      /\ \A d \in DecisionIds : d = x.decision =>
             DeciderOf(s, d) = m + 1 /\ DeciderOf(e.ingress, d) = 0
  <2>1. ASSUME NEW r \in Requests, r = x.request
        PROVE  CarrierOf(s, r) = m + 1 /\ CarrierOf(e.ingress, r) = 0
    BY <2>1, <1>6, <1>7, LeastNone DEF CarrierOf
  <2>2. ASSUME NEW d \in DecisionIds, d = x.decision
        PROVE  DeciderOf(s, d) = m + 1 /\ DeciderOf(e.ingress, d) = 0
    BY <2>2, <1>6, <1>7, LeastNone DEF DeciderOf
  <2> QED  BY <2>1, <2>2
<1>10. e.unqueued = 0 /\ ~e.unqueuedHistory /\ e.direct = 0
  BY <1>1 DEF HasUnqueuedHistory
<1>11. /\ e.queued \in [Requests -> Nat] /\ e.unqueuedHistory \in BOOLEAN
  BY <1>2 DEF EvidenceType
<1>12. x.request \in Requests \/ x.request = None  BY <1>1 DEF IngressRecord
<1>13. None \notin Requests  BY AdmissionAssumption
<1>14. PICK w : w = IF x.request = None THEN e.queued
                    ELSE [e.queued EXCEPT ![x.request] = @ + 1]
  OBVIOUS
<1>15. PICK f : f = [e EXCEPT !.ingress = s, !.queued = w]  OBVIOUS
<1>16. PushIngress(e, x) = f
  <2>1. PICK p : p = [e EXCEPT !.ingress = s]  OBVIOUS
  <2>2. p \in EvidenceType /\ p.queued = e.queued /\ p.unqueued = 0
    <3>1. s \in Seq(IngressRecord)  BY <1>1, <1>3, <1>4
    <3> QED  BY <3>1, <2>1, <1>2, <1>10 DEF EvidenceType
  <2>3. CASE x.request = None
    <3>1. PushIngress(e, x) = p  BY <2>1, <2>3, <1>3, <1>2 DEF PushIngress, EvidenceType
    <3>2. w = e.queued  BY <2>3, <1>14
    <3> QED  BY <3>1, <3>2, <2>1, <1>15, <1>2 DEF EvidenceType
  <2>4. CASE x.request # None
    <3>1. PICK c : c = [p EXCEPT !.queued[x.request] = @ + 1]  OBVIOUS
    <3>2. w = [p.queued EXCEPT ![x.request] = @ + 1]  BY <2>2, <2>4, <1>14
    <3>3. c = [p EXCEPT !.queued = w]  BY <3>1, <3>2, <2>2 DEF EvidenceType
    <3>4. c.unqueued = 0  BY <3>3, <2>2 DEF EvidenceType
    <3>5. PushIngress(e, x) = [c EXCEPT !.unqueued = IF @ = 0 THEN 0 ELSE FirstUnqueued(c)]
      BY <3>1, <2>1, <2>4, <1>3, <1>2 DEF PushIngress, EvidenceType
    <3>6. PushIngress(e, x) = c
      <4>1. PushIngress(e, x) = [c EXCEPT !.unqueued = 0]
        BY <3>3, <3>4, <3>5, <2>2 DEF EvidenceType
      <4> QED  BY <4>1, <3>3, <3>4, <2>2 DEF EvidenceType
    <3> QED  BY <3>3, <3>6, <2>1, <1>2, <1>15 DEF EvidenceType
  <2> QED  BY <2>3, <2>4
<1>17. w \in [Requests -> Nat]
  <2>1. CASE x.request = None  BY <2>1, <1>11, <1>14
  <2>2. CASE x.request # None
    <3>1. x.request \in Requests /\ e.queued[x.request] + 1 \in Nat  BY <2>2, <1>11, <1>12
    <3> QED  BY <3>1, <2>2, <1>11, <1>14
  <2> QED  BY <2>1, <2>2
<1>18. /\ f \in EvidenceType /\ f.ingress = s /\ f.queued = w
       /\ f.commands = e.commands /\ f.attempts = e.attempts /\ f.cut = cut
       /\ f.outcomes = e.outcomes /\ f.receipts = e.receipts
       /\ f.decisions = e.decisions /\ f.nested = e.nested /\ f.retired = e.retired
       /\ f.legacy = e.legacy /\ f.tracked = e.tracked
       /\ f.unqueuedHistory = e.unqueuedHistory /\ f.pinned = e.pinned
       /\ f.first = e.first /\ f.direct = e.direct /\ f.unqueued = e.unqueued
  <2>1. s \in Seq(IngressRecord)  BY <1>1, <1>3, <1>4
  <2> QED  BY <2>1, <1>2, <1>3, <1>15, <1>17 DEF EvidenceType
<1>19. JournalsOk(f.commands, f.attempts, f.ingress)
  BY <1>3, <1>18, QueuedJournals
<1>20. CutOk(f)
  <2>1. /\ e.cut \in CutType
        /\ e.cut.commands <= Len(e.commands) /\ e.cut.attempts <= Len(e.attempts)
        /\ Aligned(e.attempts, e.cut) /\ e.pinned \subseteq 1 .. e.cut.ingress
    BY <1>2 DEF CutOk
  <2>2. cut.ingress <= Len(s)  BY <1>5, <1>8, <1>4
  <2> QED  BY <2>1, <2>2, <1>3, <1>18 DEF CutOk
<1>21. TablesOk(f, at)
  <2>1. /\ RetiredOk(e, at)
        /\ e.outcomes = OutcomesOf(e.attempts, e.cut, e.retired)
        /\ e.receipts = ReceiptsOf(e.ingress, e.cut, e.retired)
        /\ e.decisions = DecisionsOf(e.ingress, e.cut)
        /\ e.nested = NestedOf(e.ingress, e.cut)
        /\ e.legacy = LegacyOf(e.attempts, e.cut)
        /\ e.tracked = (e.cut.attempts > 0 \/ e.cut.ingress > 0)
        /\ e.unqueuedHistory = UnqueuedOf(e.attempts, e.ingress, e.cut)
    BY <1>2 DEF TablesOk
  <2>2. \A q \in Requests :
            /\ CarrierOf(s, q) \in 1 .. cut.ingress <=> CarrierOf(e.ingress, q) \in 1 .. cut.ingress
            /\ CarrierOf(s, q) \in 1 .. cut.ingress =>
                   /\ CarrierOf(s, q) = CarrierOf(e.ingress, q)
                   /\ s[CarrierOf(s, q)] = e.ingress[CarrierOf(e.ingress, q)]
    <3> SUFFICES ASSUME NEW q \in Requests
                 PROVE  /\ CarrierOf(s, q) \in 1 .. cut.ingress
                               <=> CarrierOf(e.ingress, q) \in 1 .. cut.ingress
                        /\ CarrierOf(s, q) \in 1 .. cut.ingress =>
                               /\ CarrierOf(s, q) = CarrierOf(e.ingress, q)
                               /\ s[CarrierOf(s, q)] = e.ingress[CarrierOf(e.ingress, q)]
      OBVIOUS
    <3>1. CASE q = x.request
      <4>1. CarrierOf(s, q) = m + 1 /\ CarrierOf(e.ingress, q) = 0  BY <3>1, <1>9
      <4>2. 0 \notin 1 .. cut.ingress  BY <1>5
      <4> QED  BY <4>1, <4>2, <1>5
    <3>2. CASE q # x.request
      <4>1. PICK c : c = CarrierOf(e.ingress, q)  OBVIOUS
      <4>2. CarrierOf(s, q) = c  BY <3>2, <4>1, <1>7
      <4>3. 1 .. cut.ingress \subseteq 1 .. m  BY <1>4
      <4>4. c \in 1 .. cut.ingress => s[c] = e.ingress[c]  BY <4>3, <1>8
      <4> QED  BY <4>1, <4>2, <4>4
    <3> QED  BY <3>1, <3>2
  <2>3. ReceiptsOf(s, cut, e.retired) = ReceiptsOf(e.ingress, cut, e.retired)
    BY <2>2 DEF ReceiptsOf
  <2>4. NestedOf(s, cut) = NestedOf(e.ingress, cut)  BY <2>2 DEF NestedOf
  <2>5. DecisionsOf(s, cut) = DecisionsOf(e.ingress, cut)
    <3>1. ASSUME NEW d \in DecisionIds
          PROVE  (IF DeciderOf(s, d) <= cut.ingress THEN DeciderOf(s, d) ELSE 0)
                     = IF DeciderOf(e.ingress, d) <= cut.ingress
                       THEN DeciderOf(e.ingress, d) ELSE 0
      <4>1. CASE d = x.decision
        <5>1. DeciderOf(s, d) = m + 1 /\ DeciderOf(e.ingress, d) = 0  BY <4>1, <1>9
        <5> QED  BY <5>1, <1>5
      <4>2. CASE d # x.decision
        <5>1. DeciderOf(s, d) = DeciderOf(e.ingress, d)  BY <4>2, <1>7
        <5> QED  BY <5>1
      <4> QED  BY <4>1, <4>2
    <3> QED  BY <3>1 DEF DecisionsOf
  <2>6. UnqueuedOf(e.attempts, s, cut) = UnqueuedOf(e.attempts, e.ingress, cut)
    <3>1. ~UnqueuedOf(e.attempts, e.ingress, cut)  BY <2>1, <1>3, <1>10
    <3>2. ~UnqueuedOf(e.attempts, s, cut)  BY <3>1, <1>8 DEF UnqueuedOf
    <3> QED  BY <3>1, <3>2 DEF UnqueuedOf
  <2>7. RetiredOk(f, at)
    <3>1. e.retired \subseteq Requests  BY <2>1 DEF RetiredOk
    <3>2. ASSUME NEW q \in e.retired
          PROVE  /\ AttemptOf(e.attempts, q) \in 1 .. cut.attempts
                 /\ e.attempts[AttemptOf(e.attempts, q)].at < KeptFrom(at)
                 /\ CarrierOf(s, q) <= cut.ingress
      <4>1. /\ AttemptOf(e.attempts, q) \in 1 .. cut.attempts
            /\ e.attempts[AttemptOf(e.attempts, q)].at < KeptFrom(at)
            /\ CarrierOf(e.ingress, q) <= cut.ingress
        BY <2>1, <1>3 DEF RetiredOk
      <4>2. AttemptOf(e.attempts, q) # 0
        <5>1. cut.attempts \in Nat  BY <1>4 DEF CutType
        <5> QED  BY <4>1, <5>1
      <4>3. q # x.request
        BY <4>2, <3>1, <1>13 DEF CanQueue
      <4>4. CarrierOf(s, q) = CarrierOf(e.ingress, q)  BY <4>3, <1>7
      <4> QED  BY <4>1, <4>4
    <3> QED  BY <3>1, <3>2, <1>18 DEF RetiredOk
  <2> QED  BY <2>1, <2>3, <2>4, <2>5, <2>6, <2>7, <1>3, <1>18 DEF TablesOk
<1>22. IndexOk(f)
  <2>1. /\ e.queued = QueuedOf(e.ingress, cut) /\ e.first = FirstOf(e.attempts, cut)
        /\ e.direct = DirectOf(e.commands, e.attempts, cut)
    BY <1>2, <1>3 DEF IndexOk
  <2>2. ASSUME NEW q \in Requests PROVE w[q] = QueuedOf(s, cut)[q]
    <3>1. CASE q = x.request
      <4>1. CarrierOf(s, q) = m + 1 /\ CarrierOf(e.ingress, q) = 0  BY <3>1, <1>9
      <4>2. e.queued[q] = 0
        <5>1. ~(0 > cut.ingress)  BY <1>5
        <5> QED  BY <4>1, <5>1, <2>1 DEF QueuedOf
      <4>3. w[q] = 1
        <5>1. x.request # None  BY <3>1, <1>13
        <5> QED  BY <3>1, <4>2, <5>1, <1>11, <1>14
      <4>4. QueuedOf(s, cut)[q] = 1  BY <4>1, <1>5 DEF QueuedOf
      <4> QED  BY <4>3, <4>4
    <3>2. CASE q # x.request
      <4>1. w[q] = e.queued[q]  BY <3>2, <1>11, <1>14
      <4>2. CarrierOf(s, q) = CarrierOf(e.ingress, q)  BY <3>2, <1>7
      <4>3. QueuedOf(s, cut)[q] = QueuedOf(e.ingress, cut)[q]  BY <4>2 DEF QueuedOf
      <4> QED  BY <4>1, <4>3, <2>1
    <3> QED  BY <3>1, <3>2
  <2>3. w = QueuedOf(s, cut)
    <3>1. QueuedOf(s, cut) = [q \in Requests |-> QueuedOf(s, cut)[q]]  BY DEF QueuedOf
    <3> QED  BY <3>1, <2>2, <1>17
  <2>4. UnqueuedAt(e.attempts, s, cut) = 0  BY <1>8 DEF UnqueuedAt
  <2> QED  BY <2>1, <2>3, <2>4, <1>10, <1>18 DEF IndexOk
<1>23. EvidenceOk(f, at)  BY <1>18, <1>19, <1>20, <1>21, <1>22 DEF EvidenceOk
<1> QED  BY <1>3, <1>16, <1>18, <1>23

(* A submitted command keeps the form.                                      *)
LEMMA SubmittedInForm ==
    ASSUME NEW e, NEW at, EvidenceOk(e, at), ~HasTracked(e)
    PROVE  LET f == PushCommand(e, Direct) IN
           /\ EvidenceOk(f, at)
           /\ f.commands = Append(e.commands, 0) /\ f.attempts = e.attempts
           /\ f.ingress = e.ingress
           /\ f.cut = e.cut /\ f.pinned = e.pinned /\ f.retired = e.retired
           /\ e.attempts = <<>> /\ e.ingress = <<>>
<1>1. e \in EvidenceType /\ TablesOk(e, at) /\ IndexOk(e) /\ CutOk(e)
  BY DEF EvidenceOk
<1>2. e.attempts = <<>> /\ e.ingress = <<>>  BY FamiliesRead
<1>3. PICK g, k, cut : g = Append(e.commands, 0) /\ k = Len(e.commands) /\ cut = e.cut
  OBVIOUS
<1>4. /\ JournalsOk(e.commands, e.attempts, e.ingress)
      /\ e.commands \in Seq(Nat) /\ k \in Nat /\ cut.commands \in 0 .. k
  BY <1>3, Fields
<1>5. /\ g \in Seq(Nat) /\ DOMAIN g = 1 .. k + 1 /\ g[k + 1] = 0 /\ Len(g) = k + 1
      /\ DOMAIN e.commands = 1 .. k /\ \A c \in 1 .. k : g[c] = e.commands[c]
  BY <1>3, <1>4
<1>6. DOMAIN e.attempts = {}  BY <1>2
<1>7. JournalsOk(g, e.attempts, e.ingress)
  <2>1. /\ e.attempts \in Seq(Attempt) /\ e.ingress \in Seq(IngressRecord)
        /\ Unique(e.attempts, e.ingress) /\ Linked(e.commands, e.attempts)
    BY <1>4 DEF JournalsOk
  <2>2. \A c \in 1 .. k : e.commands[c] = 0  BY <2>1, <1>5, <1>6 DEF Linked
  <2>3. \A c \in 1 .. k + 1 : c = k + 1 \/ c \in 1 .. k  BY <1>4
  <2>4. \A c \in DOMAIN g : g[c] = 0  BY <2>2, <2>3, <1>5
  <2>5. Linked(g, e.attempts)  BY <2>4, <1>6 DEF Linked
  <2>6. Apart(g, e.attempts, e.ingress)  BY <1>2 DEF Apart
  <2> QED  BY <2>1, <2>5, <2>6, <1>5 DEF JournalsOk
<1>8. PICK f : f = [e EXCEPT !.commands = g, !.direct = 1]  OBVIOUS
<1>9. e.direct = IF k > cut.commands THEN 1 ELSE 0
  BY <1>1, <1>2, <1>3 DEF IndexOk, DirectOf
<1>10. PushCommand(e, Direct) = f
  <2>1. PushCommand(e, Direct) =
            [e EXCEPT !.commands = g,
                      !.direct = IF e.direct = 0 THEN k - cut.commands + 1 ELSE e.direct]
    BY <1>1, <1>3 DEF PushCommand, Direct, EvidenceType
  <2>2. (IF e.direct = 0 THEN k - cut.commands + 1 ELSE e.direct) = 1  BY <1>4, <1>9
  <2> QED  BY <2>1, <2>2, <1>8
<1>11. /\ f \in EvidenceType /\ f.commands = g /\ f.direct = 1
       /\ f.attempts = e.attempts /\ f.ingress = e.ingress /\ f.cut = cut
       /\ f.outcomes = e.outcomes /\ f.receipts = e.receipts
       /\ f.decisions = e.decisions /\ f.nested = e.nested /\ f.retired = e.retired
       /\ f.legacy = e.legacy /\ f.tracked = e.tracked
       /\ f.unqueuedHistory = e.unqueuedHistory /\ f.pinned = e.pinned
       /\ f.queued = e.queued /\ f.first = e.first /\ f.unqueued = e.unqueued
  BY <1>1, <1>3, <1>5, <1>8 DEF EvidenceType
<1>12. JournalsOk(f.commands, f.attempts, f.ingress)  BY <1>7, <1>11
<1>13. CutOk(f)
  <2>1. cut.commands <= Len(g)  BY <1>4, <1>5
  <2> QED  BY <2>1, <1>1, <1>3, <1>11 DEF CutOk
<1>14. TablesOk(f, at)  BY <1>1, <1>3, <1>11 DEF TablesOk, RetiredOk
<1>15. IndexOk(f)
  <2>1. Len(g) > cut.commands  BY <1>4, <1>5
  <2>2. DirectOf(g, e.attempts, cut) = 1  BY <2>1, <1>2 DEF DirectOf
  <2> QED  BY <2>2, <1>1, <1>3, <1>11 DEF IndexOk
<1>16. EvidenceOk(f, at)  BY <1>11, <1>12, <1>13, <1>14, <1>15 DEF EvidenceOk
<1> QED  BY <1>2, <1>3, <1>10, <1>11, <1>16

-----------------------------------------------------------------------------
(* A rollback keeps the form.                                               *)

\* The first k records of a journal.
Cut(s, k) == SubSeq(s, 1, k)

(* What is left of a journal.                                               *)
LEMMA CutSeq ==
    ASSUME NEW S, NEW s \in Seq(S), NEW k \in 0 .. Len(s)
    PROVE  /\ Cut(s, k) \in Seq(S) /\ DOMAIN Cut(s, k) = 1 .. k /\ Len(Cut(s, k)) = k
           /\ \A n \in 1 .. k : Cut(s, k)[n] = s[n]
           /\ 1 .. k \subseteq DOMAIN s
           /\ Cut(s, k) = <<>> <=> k = 0
<1>1. Len(s) \in Nat /\ DOMAIN s = 1 .. Len(s)  OBVIOUS
<1>2. /\ SubSeq(s, 1, k) \in Seq(S) /\ Len(SubSeq(s, 1, k)) = k
      /\ \A n \in 1 .. k : SubSeq(s, 1, k)[n] = s[n]
  OBVIOUS
<1> QED  BY <1>1, <1>2 DEF Cut

(* The one position in what is left of a set of positions.                  *)
LEMMA LeastLeft ==
    ASSUME NEW S \in SUBSET (Nat \ {0}), AtMostOne(S), NEW k \in Nat
    PROVE  /\ AtMostOne(S \cap 1 .. k)
           /\ Least(S \cap 1 .. k) = IF Least(S) <= k THEN Least(S) ELSE 0
<1>1. AtMostOne(S \cap 1 .. k)  BY DEF AtMostOne
<1>2. CASE S = {}
  <2>1. S \cap 1 .. k = {} /\ Least(S) = 0 /\ 0 <= k  BY <1>2, LeastNone
  <2> QED  BY <1>1, <2>1, LeastNone
<1>3. CASE S # {}
  <2>1. PICK x \in S : TRUE  BY <1>3
  <2>2. Least(S) = x  BY <2>1, LeastKind
  <2>3. S = {x}  BY <2>1 DEF AtMostOne
  <2>4. CASE x <= k
    <3>1. S \cap 1 .. k = S  BY <2>3, <2>4
    <3> QED  BY <3>1, <2>2, <2>4, <1>1
  <2>5. CASE ~(x <= k)
    <3>1. S \cap 1 .. k = {}  BY <2>3, <2>5
    <3> QED  BY <3>1, <2>2, <2>5, <1>1, LeastNone
  <2> QED  BY <2>4, <2>5
<1> QED  BY <1>2, <1>3

(* The attempt of a request in what is left.                                *)
LEMMA AttemptLeft ==
    ASSUME NEW attempts \in Seq(Attempt), NEW k \in 0 .. Len(attempts), NEW r,
           AtMostOne(AttemptsOf(attempts, r))
    PROVE  /\ AtMostOne(AttemptsOf(Cut(attempts, k), r))
           /\ AttemptOf(Cut(attempts, k), r)
                  = IF AttemptOf(attempts, r) <= k THEN AttemptOf(attempts, r) ELSE 0
<1>1. PICK s : s = Cut(attempts, k)  OBVIOUS
<1>2. /\ DOMAIN s = 1 .. k /\ \A n \in 1 .. k : s[n] = attempts[n]
      /\ 1 .. k \subseteq DOMAIN attempts
  BY <1>1, CutSeq
<1>3. AttemptsOf(s, r) = AttemptsOf(attempts, r) \cap 1 .. k  BY <1>2 DEF AttemptsOf
<1>4. AttemptsOf(attempts, r) \in SUBSET (Nat \ {0})  BY DEF AttemptsOf
<1>5. k \in Nat  OBVIOUS
<1>6. PICK S : S = AttemptsOf(attempts, r)  OBVIOUS
<1>7. /\ AtMostOne(S \cap 1 .. k)
      /\ Least(S \cap 1 .. k) = IF Least(S) <= k THEN Least(S) ELSE 0
  BY <1>4, <1>5, <1>6, LeastLeft
<1> QED  BY <1>1, <1>3, <1>6, <1>7 DEF AttemptOf

(* The record of a request in what is left.                                 *)
LEMMA CarrierLeft ==
    ASSUME NEW ingress \in Seq(IngressRecord), NEW k \in 0 .. Len(ingress), NEW r,
           AtMostOne(CarriersOf(ingress, r))
    PROVE  /\ AtMostOne(CarriersOf(Cut(ingress, k), r))
           /\ CarrierOf(Cut(ingress, k), r)
                  = IF CarrierOf(ingress, r) <= k THEN CarrierOf(ingress, r) ELSE 0
<1>1. PICK s : s = Cut(ingress, k)  OBVIOUS
<1>2. /\ DOMAIN s = 1 .. k /\ \A n \in 1 .. k : s[n] = ingress[n]
      /\ 1 .. k \subseteq DOMAIN ingress
  BY <1>1, CutSeq
<1>3. CarriersOf(s, r) = CarriersOf(ingress, r) \cap 1 .. k  BY <1>2 DEF CarriersOf
<1>4. CarriersOf(ingress, r) \in SUBSET (Nat \ {0})  BY DEF CarriersOf
<1>5. k \in Nat  OBVIOUS
<1>6. PICK S : S = CarriersOf(ingress, r)  OBVIOUS
<1>7. /\ AtMostOne(S \cap 1 .. k)
      /\ Least(S \cap 1 .. k) = IF Least(S) <= k THEN Least(S) ELSE 0
  BY <1>4, <1>5, <1>6, LeastLeft
<1> QED  BY <1>1, <1>3, <1>6, <1>7 DEF CarrierOf

(* The record of a decision in what is left.                                *)
LEMMA DeciderLeft ==
    ASSUME NEW ingress \in Seq(IngressRecord), NEW k \in 0 .. Len(ingress), NEW d,
           AtMostOne(DecidersOf(ingress, d))
    PROVE  /\ AtMostOne(DecidersOf(Cut(ingress, k), d))
           /\ DeciderOf(Cut(ingress, k), d)
                  = IF DeciderOf(ingress, d) <= k THEN DeciderOf(ingress, d) ELSE 0
<1>1. PICK s : s = Cut(ingress, k)  OBVIOUS
<1>2. /\ DOMAIN s = 1 .. k /\ \A n \in 1 .. k : s[n] = ingress[n]
      /\ 1 .. k \subseteq DOMAIN ingress
  BY <1>1, CutSeq
<1>3. DecidersOf(s, d) = DecidersOf(ingress, d) \cap 1 .. k  BY <1>2 DEF DecidersOf
<1>4. DecidersOf(ingress, d) \in SUBSET (Nat \ {0})  BY DEF DecidersOf
<1>5. k \in Nat  OBVIOUS
<1>6. PICK S : S = DecidersOf(ingress, d)  OBVIOUS
<1>7. /\ AtMostOne(S \cap 1 .. k)
      /\ Least(S \cap 1 .. k) = IF Least(S) <= k THEN Least(S) ELSE 0
  BY <1>4, <1>5, <1>6, LeastLeft
<1> QED  BY <1>1, <1>3, <1>6, <1>7 DEF DeciderOf

\* Where a history may be rolled back to.
CanTruncate(e, L, at) ==
    /\ EvidenceOk(e, at) /\ L \in LengthType
    /\ e.cut.commands <= L.commands /\ L.commands <= Len(e.commands)
    /\ e.cut.attempts <= L.attempts /\ L.attempts <= Len(e.attempts)
    /\ e.cut.ingress <= L.ingress /\ L.ingress <= Len(e.ingress)
    /\ Aligned(e.attempts, L)
    /\ e.ingress # <<>> =>
           \A n \in DOMAIN e.attempts :
               CarrierOf(e.ingress, e.attempts[n].request) \in 1 .. L.ingress

(* The journals a rollback leaves.                                          *)
LEMMA TruncatedJournals ==
    ASSUME NEW e, NEW L, NEW at, CanTruncate(e, L, at)
    PROVE  JournalsOk(Cut(e.commands, L.commands), Cut(e.attempts, L.attempts),
                      Cut(e.ingress, L.ingress))
<1>1. PICK c, a, i, k, m, n :
          /\ c = Cut(e.commands, L.commands) /\ a = Cut(e.attempts, L.attempts)
          /\ i = Cut(e.ingress, L.ingress)
          /\ k = L.commands /\ m = L.attempts /\ n = L.ingress
  OBVIOUS
<1>2. EvidenceOk(e, at) /\ L \in LengthType  BY DEF CanTruncate
<1>3. JournalsOk(e.commands, e.attempts, e.ingress)  BY <1>2, Fields
<1>4. /\ e.commands \in Seq(Nat) /\ e.attempts \in Seq(Attempt)
      /\ e.ingress \in Seq(IngressRecord)
      /\ Unique(e.attempts, e.ingress) /\ Linked(e.commands, e.attempts)
      /\ Apart(e.commands, e.attempts, e.ingress)
  BY <1>3 DEF JournalsOk
<1>5. k \in 0 .. Len(e.commands) /\ m \in 0 .. Len(e.attempts) /\ n \in 0 .. Len(e.ingress)
  <2>1. k \in Nat /\ m \in Nat /\ n \in Nat  BY <1>1, <1>2 DEF LengthType
  <2>2. k <= Len(e.commands) /\ m <= Len(e.attempts) /\ n <= Len(e.ingress)
    BY <1>1 DEF CanTruncate
  <2>3. Len(e.commands) \in Nat /\ Len(e.attempts) \in Nat /\ Len(e.ingress) \in Nat
    BY <1>4
  <2> QED  BY <2>1, <2>2, <2>3
<1>6. /\ c \in Seq(Nat) /\ DOMAIN c = 1 .. k /\ \A x \in 1 .. k : c[x] = e.commands[x]
      /\ 1 .. k \subseteq DOMAIN e.commands
  BY <1>1, <1>4, <1>5, CutSeq
<1>7. /\ a \in Seq(Attempt) /\ DOMAIN a = 1 .. m /\ \A x \in 1 .. m : a[x] = e.attempts[x]
      /\ 1 .. m \subseteq DOMAIN e.attempts /\ (a = <<>> <=> m = 0)
  BY <1>1, <1>4, <1>5, CutSeq
<1>8. /\ i \in Seq(IngressRecord) /\ DOMAIN i = 1 .. n
      /\ \A x \in 1 .. n : i[x] = e.ingress[x]
      /\ 1 .. n \subseteq DOMAIN e.ingress /\ (i = <<>> <=> n = 0)
  BY <1>1, <1>4, <1>5, CutSeq
<1>9. Unique(a, i)
  <2>1. ASSUME NEW r \in Requests
        PROVE  AtMostOne(AttemptsOf(a, r)) /\ AtMostOne(CarriersOf(i, r))
    <3>1. AtMostOne(AttemptsOf(e.attempts, r)) /\ AtMostOne(CarriersOf(e.ingress, r))
      BY <1>4 DEF Unique
    <3>2. AtMostOne(AttemptsOf(a, r))  BY <3>1, <1>1, <1>4, <1>5, AttemptLeft
    <3>3. AtMostOne(CarriersOf(i, r))  BY <3>1, <1>1, <1>4, <1>5, CarrierLeft
    <3> QED  BY <3>2, <3>3
  <2>2. ASSUME NEW d \in DecisionIds PROVE AtMostOne(DecidersOf(i, d))
    <3>1. AtMostOne(DecidersOf(e.ingress, d))  BY <1>4 DEF Unique
    <3> QED  BY <3>1, <1>1, <1>4, <1>5, DeciderLeft
  <2> QED  BY <2>1, <2>2 DEF Unique
<1>10. \A x \in DOMAIN e.attempts : e.attempts[x].command # 0 =>
           (x <= m <=> e.attempts[x].command <= k)
  BY <1>1 DEF CanTruncate, Aligned
<1>11. /\ \A x \in DOMAIN e.attempts : e.attempts[x].command # 0 =>
              /\ e.attempts[x].command \in DOMAIN e.commands
              /\ e.commands[e.attempts[x].command] = x
       /\ \A y \in DOMAIN e.commands : e.commands[y] # 0 =>
              /\ e.commands[y] \in DOMAIN e.attempts
              /\ e.attempts[e.commands[y]].command = y
  BY <1>4 DEF Linked
<1>12. Linked(c, a)
  <2>1. ASSUME NEW x \in 1 .. m, a[x].command # 0
        PROVE  a[x].command \in 1 .. k /\ c[a[x].command] = x
    <3>1. PICK y : y = e.attempts[x].command  OBVIOUS
    <3>2. a[x].command = y /\ y # 0 /\ x \in DOMAIN e.attempts  BY <3>1, <2>1, <1>7
    <3>3. x <= m <=> y <= k  BY <3>1, <3>2, <1>10
    <3>4. y \in DOMAIN e.commands /\ e.commands[y] = x  BY <3>1, <3>2, <1>11
    <3>5. y <= k  BY <3>3, <1>5
    <3>6. DOMAIN e.commands = 1 .. Len(e.commands)  BY <1>4
    <3>7. y \in 1 .. k  BY <3>4, <3>5, <3>6, <1>5
    <3> QED  BY <3>2, <3>4, <3>7, <1>6
  <2>2. ASSUME NEW y \in 1 .. k, c[y] # 0
        PROVE  c[y] \in 1 .. m /\ a[c[y]].command = y
    <3>1. PICK x : x = e.commands[y]  OBVIOUS
    <3>2. c[y] = x /\ x # 0 /\ y \in DOMAIN e.commands  BY <3>1, <2>2, <1>6
    <3>3. x \in DOMAIN e.attempts /\ e.attempts[x].command = y  BY <3>1, <3>2, <1>11
    <3>4. y # 0 /\ y <= k  BY <1>5
    <3>5. x <= m  BY <3>3, <3>4, <1>10
    <3>6. DOMAIN e.attempts = 1 .. Len(e.attempts)  BY <1>4
    <3>7. x \in 1 .. m  BY <3>3, <3>5, <3>6, <1>5
    <3> QED  BY <3>2, <3>3, <3>7, <1>7
  <2> QED  BY <2>1, <2>2, <1>6, <1>7 DEF Linked
<1>13. Apart(c, a, i)
  <2>1. ASSUME NEW y \in DOMAIN c, c[y] = 0 PROVE a = <<>> /\ i = <<>>
    <3>1. y \in DOMAIN e.commands /\ e.commands[y] = 0  BY <2>1, <1>6
    <3>2. e.attempts = <<>> /\ e.ingress = <<>>  BY <3>1, <1>4 DEF Apart
    <3>3. Len(e.attempts) = 0 /\ Len(e.ingress) = 0  BY <3>2
    <3>4. m = 0 /\ n = 0  BY <3>3, <1>5
    <3> QED  BY <3>4, <1>7, <1>8
  <2>2. ASSUME i # <<>>, NEW x \in DOMAIN a PROVE CarriersOf(i, a[x].request) # {}
    <3>1. n # 0  BY <2>2, <1>8
    <3>2. e.ingress # <<>>
      <4>1. e.ingress = <<>> => Len(e.ingress) = 0  OBVIOUS
      <4> QED  BY <4>1, <3>1, <1>5
    <3>3. x \in DOMAIN e.attempts /\ a[x] = e.attempts[x]  BY <2>2, <1>7
    <3>4. PICK r : r = a[x].request  OBVIOUS
    <3>5. CarrierOf(e.ingress, r) \in 1 .. n  BY <3>2, <3>3, <3>4, <1>1 DEF CanTruncate
    <3>6. r \in Requests
      <4>1. a \in Seq(Attempt) /\ x \in DOMAIN a  BY <2>2, <1>7
      <4>2. a[x] \in Attempt  BY <4>1
      <4> QED  BY <4>2, <3>4 DEF Attempt
    <3>7. PICK y : y = CarrierOf(e.ingress, r)  OBVIOUS
    <3>8. y # 0  BY <3>5, <3>7, <1>5
    <3>9. y \in DOMAIN e.ingress /\ e.ingress[y].request = r
      BY <3>6, <3>7, <3>8, <1>3, Lookups
    <3>10. y \in DOMAIN i /\ i[y].request = r  BY <3>5, <3>7, <3>9, <1>8
    <3> QED  BY <3>4, <3>10 DEF CarriersOf
  <2> QED  BY <2>1, <2>2 DEF Apart
<1> QED  BY <1>1, <1>6, <1>7, <1>8, <1>9, <1>12, <1>13 DEF JournalsOk

(* What is left of the journals reads the tables and the index as before.   *)
LEMMA TruncatedLookups ==
    ASSUME NEW e, NEW L, NEW at, CanTruncate(e, L, at)
    PROVE  LET a == Cut(e.attempts, L.attempts)
               i == Cut(e.ingress, L.ingress)
           IN /\ \A r \in Requests :
                     /\ AttemptOf(a, r) = IF AttemptOf(e.attempts, r) <= L.attempts
                                          THEN AttemptOf(e.attempts, r) ELSE 0
                     /\ CarrierOf(i, r) = IF CarrierOf(e.ingress, r) <= L.ingress
                                          THEN CarrierOf(e.ingress, r) ELSE 0
              /\ \A d \in DecisionIds :
                     DeciderOf(i, d) = IF DeciderOf(e.ingress, d) <= L.ingress
                                       THEN DeciderOf(e.ingress, d) ELSE 0
              /\ \A n \in 1 .. L.attempts : a[n] = e.attempts[n]
              /\ \A n \in 1 .. L.ingress : i[n] = e.ingress[n]
              /\ L.attempts # 0 => (i = <<>> <=> e.ingress = <<>>)
              /\ L.commands # 0 => (a = <<>> <=> e.attempts = <<>>)
              /\ Len(a) = L.attempts /\ Len(i) = L.ingress
<1>1. PICK a, i, k, m, n :
          /\ a = Cut(e.attempts, L.attempts) /\ i = Cut(e.ingress, L.ingress)
          /\ k = L.commands /\ m = L.attempts /\ n = L.ingress
  OBVIOUS
<1>2. EvidenceOk(e, at) /\ L \in LengthType  BY DEF CanTruncate
<1>3. JournalsOk(e.commands, e.attempts, e.ingress)  BY <1>2, Fields
<1>4. /\ e.commands \in Seq(Nat) /\ e.attempts \in Seq(Attempt)
      /\ e.ingress \in Seq(IngressRecord)
      /\ Unique(e.attempts, e.ingress) /\ Linked(e.commands, e.attempts)
      /\ Apart(e.commands, e.attempts, e.ingress)
  BY <1>3 DEF JournalsOk
<1>5. k \in 0 .. Len(e.commands) /\ m \in 0 .. Len(e.attempts) /\ n \in 0 .. Len(e.ingress)
  <2>1. k \in Nat /\ m \in Nat /\ n \in Nat  BY <1>1, <1>2 DEF LengthType
  <2>2. k <= Len(e.commands) /\ m <= Len(e.attempts) /\ n <= Len(e.ingress)
    BY <1>1 DEF CanTruncate
  <2>3. Len(e.commands) \in Nat /\ Len(e.attempts) \in Nat /\ Len(e.ingress) \in Nat
    BY <1>4
  <2> QED  BY <2>1, <2>2, <2>3
<1>6. /\ \A x \in 1 .. m : a[x] = e.attempts[x]
      /\ 1 .. m \subseteq DOMAIN e.attempts /\ (a = <<>> <=> m = 0) /\ Len(a) = m
  BY <1>1, <1>4, <1>5, CutSeq
<1>7. /\ \A x \in 1 .. n : i[x] = e.ingress[x]
      /\ (i = <<>> <=> n = 0) /\ Len(i) = n
  BY <1>1, <1>4, <1>5, CutSeq
<1>8. ASSUME NEW r \in Requests
      PROVE  /\ AttemptOf(a, r) = IF AttemptOf(e.attempts, r) <= m
                                  THEN AttemptOf(e.attempts, r) ELSE 0
             /\ CarrierOf(i, r) = IF CarrierOf(e.ingress, r) <= n
                                  THEN CarrierOf(e.ingress, r) ELSE 0
  <2>1. AtMostOne(AttemptsOf(e.attempts, r)) /\ AtMostOne(CarriersOf(e.ingress, r))
    BY <1>4 DEF Unique
  <2>2. AttemptOf(a, r) = IF AttemptOf(e.attempts, r) <= m
                          THEN AttemptOf(e.attempts, r) ELSE 0
    BY <2>1, <1>1, <1>4, <1>5, AttemptLeft
  <2>3. CarrierOf(i, r) = IF CarrierOf(e.ingress, r) <= n
                          THEN CarrierOf(e.ingress, r) ELSE 0
    BY <2>1, <1>1, <1>4, <1>5, CarrierLeft
  <2> QED  BY <2>2, <2>3
<1>9. ASSUME NEW d \in DecisionIds
      PROVE  DeciderOf(i, d) = IF DeciderOf(e.ingress, d) <= n
                               THEN DeciderOf(e.ingress, d) ELSE 0
  <2>1. AtMostOne(DecidersOf(e.ingress, d))  BY <1>4 DEF Unique
  <2> QED  BY <2>1, <1>1, <1>4, <1>5, DeciderLeft
<1>10. m # 0 => (i = <<>> <=> e.ingress = <<>>)
  <2>1. CASE e.ingress = <<>>
    <3>1. Len(e.ingress) = 0  BY <2>1
    <3> QED  BY <3>1, <2>1, <1>5, <1>7
  <2>2. CASE e.ingress # <<>> /\ m # 0
    <3>1. 1 \in 1 .. m  BY <2>2, <1>5
    <3>2. 1 \in DOMAIN e.attempts  BY <3>1, <1>6
    <3>3. CarrierOf(e.ingress, e.attempts[1].request) \in 1 .. n
      BY <3>2, <2>2, <1>1 DEF CanTruncate
    <3>4. n # 0  BY <3>3, <1>5
    <3> QED  BY <3>4, <2>2, <1>7
  <2> QED  BY <2>1, <2>2
<1>11. k # 0 => (a = <<>> <=> e.attempts = <<>>)
  <2>1. CASE e.attempts = <<>>
    <3>1. Len(e.attempts) = 0  BY <2>1
    <3> QED  BY <3>1, <2>1, <1>5, <1>6
  <2>2. CASE e.attempts # <<>> /\ k # 0
    <3>1. DOMAIN e.commands = 1 .. Len(e.commands) /\ Len(e.commands) \in Nat  BY <1>4
    <3>2. 1 \in DOMAIN e.commands /\ 1 <= k  BY <3>1, <2>2, <1>5
    <3>3. PICK x : x = e.commands[1]  OBVIOUS
    <3>4. x # 0  BY <3>2, <3>3, <2>2, <1>4 DEF Apart
    <3>5. x \in DOMAIN e.attempts /\ e.attempts[x].command = 1
      BY <3>2, <3>3, <3>4, <1>4 DEF Linked
    <3>6. e.attempts[x].command # 0 => (x <= m <=> e.attempts[x].command <= k)
      BY <3>5, <1>1 DEF CanTruncate, Aligned
    <3>7. x <= m  BY <3>2, <3>5, <3>6
    <3>8. DOMAIN e.attempts = 1 .. Len(e.attempts)  BY <1>4
    <3>9. m # 0  BY <3>5, <3>7, <3>8, <1>5
    <3> QED  BY <3>9, <2>2, <1>6
  <2> QED  BY <2>1, <2>2
<1> QED  BY <1>1, <1>6, <1>7, <1>8, <1>9, <1>10, <1>11

(* The records of a request above a length.                                 *)
LEMMA GoneCount ==
    ASSUME NEW commands, NEW attempts, NEW ingress, JournalsOk(commands, attempts, ingress),
           NEW r \in Requests, NEW n \in 0 .. Len(ingress)
    PROVE  Cardinality({x \in n + 1 .. Len(ingress) : ingress[x].request = r})
               = IF CarrierOf(ingress, r) > n THEN 1 ELSE 0
<1> DEFINE C == CarrierOf(ingress, r)
           S == {x \in n + 1 .. Len(ingress) : ingress[x].request = r}
<1>1. /\ C \in 0 .. Len(ingress)
      /\ C # 0 => C \in DOMAIN ingress /\ ingress[C].request = r
      /\ \A x \in DOMAIN ingress : ingress[x].request = r => C = x
  BY Lookups
<1>2. Len(ingress) \in Nat /\ DOMAIN ingress = 1 .. Len(ingress)  BY DEF JournalsOk
<1>3. \A x : x \in S <=> x \in n + 1 .. Len(ingress) /\ ingress[x].request = r  OBVIOUS
<1> HIDE DEF C, S
<1>4. n + 1 .. Len(ingress) \subseteq 1 .. Len(ingress)  BY <1>2
<1>5. CASE C > n
  <2>1. C \in n + 1 .. Len(ingress) /\ C # 0  BY <1>1, <1>2, <1>5
  <2>2. S = {C}  BY <2>1, <1>1, <1>2, <1>3, <1>4
  <2>3. Cardinality({C}) = 1  BY FS_Singleton
  <2> QED  BY <2>2, <2>3, <1>5 DEF S, C
<1>6. CASE ~(C > n)
  <2>1. C \notin n + 1 .. Len(ingress)  BY <1>1, <1>2, <1>6
  <2>2. S = {}  BY <2>1, <1>1, <1>2, <1>3, <1>4
  <2>3. Cardinality({}) = 0  BY FS_EmptySet
  <2> QED  BY <2>2, <2>3, <1>6 DEF S, C
<1> QED  BY <1>5, <1>6

\* What a rollback to L leaves of the index.
FirstLeft(e, L) ==
    [r \in Requests |->
        IF \E n \in L.attempts + 1 .. Len(e.attempts) :
               e.attempts[n].request = r /\ e.first[r] = n - e.cut.attempts
        THEN 0 ELSE e.first[r]]
QueuedLeft(e, L) ==
    [r \in Requests |-> e.queued[r]
        - Cardinality({i \in L.ingress + 1 .. Len(e.ingress) : e.ingress[i].request = r})]
UnqueuedLeft(e, L) == IF e.unqueued > L.attempts - e.cut.attempts THEN 0 ELSE e.unqueued
DirectLeft(e, L) == IF e.direct > L.commands - e.cut.commands THEN 0 ELSE e.direct

Shorter(e, L) ==
    [e EXCEPT !.commands = Cut(@, L.commands), !.attempts = Cut(@, L.attempts),
              !.ingress = Cut(@, L.ingress),
              !.first = FirstLeft(e, L), !.queued = QueuedLeft(e, L),
              !.unqueued = UnqueuedLeft(e, L), !.direct = DirectLeft(e, L)]

(* The lengths and cut of a rollback, as numbers.                           *)
LEMMA TruncateRanges ==
    ASSUME NEW e, NEW L, NEW at, CanTruncate(e, L, at)
    PROVE  /\ L.commands \in Nat /\ L.attempts \in Nat /\ L.ingress \in Nat
           /\ e.cut.commands \in Nat /\ e.cut.attempts \in Nat /\ e.cut.ingress \in Nat
           /\ e.cut.commands <= L.commands /\ L.commands <= Len(e.commands)
           /\ e.cut.attempts <= L.attempts /\ L.attempts <= Len(e.attempts)
           /\ e.cut.ingress <= L.ingress /\ L.ingress <= Len(e.ingress)
           /\ Len(e.commands) \in Nat /\ Len(e.attempts) \in Nat /\ Len(e.ingress) \in Nat
<1>1. EvidenceOk(e, at) /\ L \in LengthType  BY DEF CanTruncate
<1>2. e.cut \in CutType /\ Len(e.commands) \in Nat /\ Len(e.attempts) \in Nat
      /\ Len(e.ingress) \in Nat
  BY <1>1, Fields
<1>3. /\ e.cut.commands <= L.commands /\ L.commands <= Len(e.commands)
      /\ e.cut.attempts <= L.attempts /\ L.attempts <= Len(e.attempts)
      /\ e.cut.ingress <= L.ingress /\ L.ingress <= Len(e.ingress)
  BY DEF CanTruncate
<1>4. L.commands \in Nat /\ L.attempts \in Nat /\ L.ingress \in Nat  BY <1>1 DEF LengthType
<1>5. e.cut.commands \in Nat /\ e.cut.attempts \in Nat /\ e.cut.ingress \in Nat
  BY <1>2 DEF CutType
<1> QED  BY <1>2, <1>3, <1>4, <1>5

(* The index of what is left.                                               *)
LEMMA IndexLeft ==
    ASSUME NEW e, NEW L, NEW at, CanTruncate(e, L, at)
    PROVE  /\ FirstLeft(e, L) = FirstOf(Cut(e.attempts, L.attempts), e.cut)
           /\ QueuedLeft(e, L) = QueuedOf(Cut(e.ingress, L.ingress), e.cut)
           /\ UnqueuedLeft(e, L)
                  = UnqueuedAt(Cut(e.attempts, L.attempts), Cut(e.ingress, L.ingress), e.cut)
           /\ DirectLeft(e, L)
                  = DirectOf(Cut(e.commands, L.commands), Cut(e.attempts, L.attempts), e.cut)
<1>1. PICK a, i, m, n, cut : /\ a = Cut(e.attempts, L.attempts) /\ i = Cut(e.ingress, L.ingress)
                             /\ m = L.attempts /\ n = L.ingress /\ cut = e.cut
  OBVIOUS
<1>2. EvidenceOk(e, at)  BY DEF CanTruncate
<1>3. JournalsOk(e.commands, e.attempts, e.ingress)  BY <1>2, Fields
<1>4. /\ m \in Nat /\ n \in Nat /\ cut.attempts \in Nat /\ cut.ingress \in Nat
      /\ cut.attempts <= m /\ m <= Len(e.attempts) /\ cut.ingress <= n
      /\ n <= Len(e.ingress) /\ Len(e.attempts) \in Nat /\ Len(e.ingress) \in Nat
  BY <1>1, TruncateRanges
<1>5. /\ L.commands \in Nat /\ cut.commands \in Nat /\ cut.commands <= L.commands
      /\ L.commands <= Len(e.commands) /\ Len(e.commands) \in Nat
  BY <1>1, TruncateRanges
<1>6. /\ \A r \in Requests :
             /\ AttemptOf(a, r) = IF AttemptOf(e.attempts, r) <= m
                                  THEN AttemptOf(e.attempts, r) ELSE 0
             /\ CarrierOf(i, r) = IF CarrierOf(e.ingress, r) <= n
                                  THEN CarrierOf(e.ingress, r) ELSE 0
      /\ m # 0 => (i = <<>> <=> e.ingress = <<>>)
      /\ L.commands # 0 => (a = <<>> <=> e.attempts = <<>>)
      /\ Len(a) = m /\ Len(i) = n
  BY <1>1, TruncatedLookups
<1>7. /\ e.queued = QueuedOf(e.ingress, cut) /\ e.first = FirstOf(e.attempts, cut)
      /\ e.direct = DirectOf(e.commands, e.attempts, cut)
      /\ e.unqueued = UnqueuedAt(e.attempts, e.ingress, cut)
  BY <1>1, <1>2 DEF EvidenceOk, IndexOk
<1>8. FirstLeft(e, L) = FirstOf(a, cut)
  <2>1. ASSUME NEW r \in Requests PROVE FirstLeft(e, L)[r] = FirstOf(a, cut)[r]
    <3>1. PICK N, B : N = AttemptOf(e.attempts, r) /\ B = AttemptOf(a, r)  OBVIOUS
    <3>2. /\ N \in 0 .. Len(e.attempts)
          /\ N # 0 => N \in DOMAIN e.attempts /\ e.attempts[N].request = r
          /\ \A x \in DOMAIN e.attempts : e.attempts[x].request = r => N = x
      BY <3>1, <1>3, Lookups
    <3>3. B = IF N <= m THEN N ELSE 0  BY <3>1, <1>6
    <3>4. FirstOf(a, cut)[r] = IF B > cut.attempts THEN B - cut.attempts ELSE 0
      BY <3>1 DEF FirstOf
    <3>5. e.first[r] = IF N > cut.attempts THEN N - cut.attempts ELSE 0
      BY <3>1, <1>7 DEF FirstOf
    <3>6. FirstLeft(e, L)[r] =
              IF \E x \in m + 1 .. Len(e.attempts) :
                     e.attempts[x].request = r /\ e.first[r] = x - cut.attempts
              THEN 0 ELSE e.first[r]
      BY <1>1 DEF FirstLeft
    <3>7. CASE N <= m
      <4>1. B = N  BY <3>3, <3>7
      <4>2. \A x \in m + 1 .. Len(e.attempts) : e.attempts[x].request # r
        <5>1. ASSUME NEW x \in m + 1 .. Len(e.attempts), e.attempts[x].request = r PROVE FALSE
          <6>1. DOMAIN e.attempts = 1 .. Len(e.attempts)  BY <1>2, Fields
          <6>2. x \in DOMAIN e.attempts /\ ~(x <= m)  BY <6>1, <1>4
          <6> QED  BY <5>1, <6>2, <3>2, <3>7
        <5> QED  BY <5>1
      <4>3. FirstLeft(e, L)[r] = e.first[r]  BY <3>6, <4>2
      <4> QED  BY <4>1, <4>3, <3>4, <3>5
    <3>8. CASE ~(N <= m)
      <4>1. B = 0 /\ ~(0 > cut.attempts)  BY <3>3, <3>8, <1>4
      <4>2. N > cut.attempts /\ N # 0 /\ N \in m + 1 .. Len(e.attempts)
        BY <3>2, <3>8, <1>4
      <4>3. e.first[r] = N - cut.attempts  BY <4>2, <3>5
      <4>4. e.attempts[N].request = r  BY <4>2, <3>2
      <4>5. FirstLeft(e, L)[r] = 0  BY <4>2, <4>3, <4>4, <3>6
      <4> QED  BY <4>1, <4>5, <3>4
    <3> QED  BY <3>7, <3>8
  <2> QED  BY <2>1 DEF FirstLeft, FirstOf
<1>9. QueuedLeft(e, L) = QueuedOf(i, cut)
  <2>1. ASSUME NEW r \in Requests PROVE QueuedLeft(e, L)[r] = QueuedOf(i, cut)[r]
    <3>1. PICK C, B : C = CarrierOf(e.ingress, r) /\ B = CarrierOf(i, r)  OBVIOUS
    <3>2. C \in 0 .. Len(e.ingress)  BY <3>1, <1>3, Lookups
    <3>3. B = IF C <= n THEN C ELSE 0  BY <3>1, <1>6
    <3>4. QueuedOf(i, cut)[r] = IF B > cut.ingress THEN 1 ELSE 0  BY <3>1 DEF QueuedOf
    <3>5. e.queued[r] = IF C > cut.ingress THEN 1 ELSE 0  BY <3>1, <1>7 DEF QueuedOf
    <3>6. PICK g : g = Cardinality({x \in n + 1 .. Len(e.ingress) : e.ingress[x].request = r})
      OBVIOUS
    <3>7. g = IF C > n THEN 1 ELSE 0
      <4>1. n \in 0 .. Len(e.ingress)  BY <1>4
      <4> QED  BY <4>1, <3>1, <3>6, <1>3, GoneCount
    <3>8. QueuedLeft(e, L)[r] = e.queued[r] - g  BY <3>6, <1>1 DEF QueuedLeft
    <3>9. CASE C <= n
      <4>1. B = C /\ g = 0  BY <3>2, <3>3, <3>7, <3>9, <1>4
      <4>2. e.queued[r] = QueuedOf(i, cut)[r] /\ e.queued[r] \in Int  BY <4>1, <3>4, <3>5
      <4> QED  BY <4>1, <4>2, <3>8
    <3>10. CASE ~(C <= n)
      <4>1. B = 0 /\ g = 1 /\ C > cut.ingress /\ ~(0 > cut.ingress)
        BY <3>2, <3>3, <3>7, <3>10, <1>4
      <4>2. e.queued[r] = 1 /\ QueuedOf(i, cut)[r] = 0  BY <4>1, <3>4, <3>5
      <4> QED  BY <4>1, <4>2, <3>8
    <3> QED  BY <3>9, <3>10
  <2> QED  BY <2>1 DEF QueuedLeft, QueuedOf
<1>10. UnqueuedLeft(e, L) = UnqueuedAt(a, i, cut)
  <2>1. UnqueuedLeft(e, L) = IF e.unqueued > m - cut.attempts THEN 0 ELSE e.unqueued
    BY <1>1 DEF UnqueuedLeft
  <2>2. e.unqueued = IF e.ingress = <<>> /\ Len(e.attempts) > cut.attempts THEN 1 ELSE 0
    BY <1>7 DEF UnqueuedAt
  <2>3. UnqueuedAt(a, i, cut) = IF i = <<>> /\ m > cut.attempts THEN 1 ELSE 0
    BY <1>6 DEF UnqueuedAt
  <2>4. CASE m = cut.attempts
    <3>1. ~(m > cut.attempts) /\ m - cut.attempts = 0  BY <2>4, <1>4
    <3>2. UnqueuedAt(a, i, cut) = 0  BY <2>3, <3>1
    <3>3. e.unqueued = 0 \/ e.unqueued = 1  BY <2>2
    <3> QED  BY <2>1, <3>1, <3>2, <3>3
  <2>5. CASE m # cut.attempts
    <3>1. m > cut.attempts /\ m # 0 /\ Len(e.attempts) > cut.attempts
      BY <2>5, <1>4
    <3>2. ~(1 > m - cut.attempts) /\ ~(0 > m - cut.attempts)  BY <2>5, <1>4
    <3>3. UnqueuedAt(a, i, cut) = e.unqueued  BY <2>2, <2>3, <3>1, <1>6
    <3>4. e.unqueued = 0 \/ e.unqueued = 1  BY <2>2
    <3> QED  BY <2>1, <3>2, <3>3, <3>4
  <2> QED  BY <2>4, <2>5
<1>11. DirectLeft(e, L) = DirectOf(Cut(e.commands, L.commands), a, cut)
  <2>1. PICK k, c : k = L.commands /\ c = Cut(e.commands, L.commands)  OBVIOUS
  <2>2. Len(c) = k
    <3>1. e.commands \in Seq(Nat)  BY <1>3 DEF JournalsOk
    <3>2. k \in 0 .. Len(e.commands)  BY <2>1, <1>5
    <3> QED  BY <3>1, <3>2, <2>1, CutSeq
  <2>3. DirectLeft(e, L) = IF e.direct > k - cut.commands THEN 0 ELSE e.direct
    BY <1>1, <2>1 DEF DirectLeft
  <2>4. e.direct = IF e.attempts = <<>> /\ Len(e.commands) > cut.commands THEN 1 ELSE 0
    BY <1>7 DEF DirectOf
  <2>5. DirectOf(c, a, cut) = IF a = <<>> /\ k > cut.commands THEN 1 ELSE 0
    BY <2>2 DEF DirectOf
  <2>6. CASE k = cut.commands
    <3>1. ~(k > cut.commands) /\ k - cut.commands = 0  BY <2>1, <2>6, <1>5
    <3>2. DirectOf(c, a, cut) = 0  BY <2>5, <3>1
    <3>3. e.direct = 0 \/ e.direct = 1  BY <2>4
    <3> QED  BY <2>1, <2>3, <3>1, <3>2, <3>3
  <2>7. CASE k # cut.commands
    <3>1. k > cut.commands /\ k # 0 /\ Len(e.commands) > cut.commands
      BY <2>1, <2>7, <1>5
    <3>2. ~(1 > k - cut.commands) /\ ~(0 > k - cut.commands)  BY <2>1, <2>7, <1>5
    <3>3. DirectOf(c, a, cut) = e.direct  BY <2>1, <2>4, <2>5, <3>1, <1>6
    <3>4. e.direct = 0 \/ e.direct = 1  BY <2>4
    <3> QED  BY <2>1, <2>3, <3>2, <3>3, <3>4
  <2> QED  BY <2>6, <2>7
<1> QED  BY <1>1, <1>8, <1>9, <1>10, <1>11

(* Nothing of an attempt that stays leaves the queue with a rollback.       *)
LEMMA StaysQueued ==
    ASSUME NEW e, NEW L, NEW at, CanTruncate(e, L, at), NEW r \in Requests,
           e.queued[r] # 0, QueuedLeft(e, L)[r] = 0
    PROVE  FirstLeft(e, L)[r] = 0
<1>1. PICK a, i, m, n, cut : /\ a = Cut(e.attempts, L.attempts) /\ i = Cut(e.ingress, L.ingress)
                             /\ m = L.attempts /\ n = L.ingress /\ cut = e.cut
  OBVIOUS
<1>2. EvidenceOk(e, at)  BY DEF CanTruncate
<1>3. JournalsOk(e.commands, e.attempts, e.ingress)  BY <1>2, Fields
<1>4. /\ m \in Nat /\ n \in Nat /\ cut.attempts \in Nat /\ cut.ingress \in Nat
      /\ m <= Len(e.attempts) /\ cut.ingress <= n
      /\ n <= Len(e.ingress) /\ Len(e.attempts) \in Nat /\ Len(e.ingress) \in Nat
  BY <1>1, TruncateRanges
<1>5. PICK N, C, B, D : /\ N = AttemptOf(e.attempts, r) /\ C = CarrierOf(e.ingress, r)
                        /\ B = CarrierOf(i, r) /\ D = AttemptOf(a, r)
  OBVIOUS
<1>6. /\ D = IF N <= m THEN N ELSE 0
      /\ B = IF C <= n THEN C ELSE 0
  BY <1>1, <1>5, TruncatedLookups
<1>7. e.queued[r] = IF C > cut.ingress THEN 1 ELSE 0  BY <1>1, <1>2, <1>5, Entries
<1>8. QueuedLeft(e, L)[r] = IF B > cut.ingress THEN 1 ELSE 0
  <2>1. QueuedLeft(e, L) = QueuedOf(i, cut)  BY <1>1, IndexLeft
  <2> QED  BY <2>1, <1>5 DEF QueuedOf
<1>9. FirstLeft(e, L)[r] = IF D > cut.attempts THEN D - cut.attempts ELSE 0
  <2>1. FirstLeft(e, L) = FirstOf(a, cut)  BY <1>1, IndexLeft
  <2> QED  BY <2>1, <1>5 DEF FirstOf
<1>10. C > cut.ingress /\ ~(B > cut.ingress)  BY <1>7, <1>8
<1>11. C \in 0 .. Len(e.ingress) /\ N \in 0 .. Len(e.attempts)
       /\ (N # 0 => N \in DOMAIN e.attempts /\ e.attempts[N].request = r)
  BY <1>3, <1>5, Lookups
<1>12. ~(C <= n)  BY <1>6, <1>10
<1>13. N = 0
  <2>1. ASSUME N # 0 PROVE FALSE
    <3>1. C # 0  BY <1>4, <1>11, <1>12
    <3>2. e.ingress # <<>>
      <4>1. e.ingress = <<>> => Len(e.ingress) = 0  OBVIOUS
      <4> QED  BY <4>1, <3>1, <1>11
    <3>3. CarrierOf(e.ingress, e.attempts[N].request) \in 1 .. n
      BY <2>1, <3>2, <1>1, <1>11 DEF CanTruncate
    <3>4. C \in 1 .. n  BY <2>1, <3>3, <1>5, <1>11
    <3> QED  BY <3>4, <1>4, <1>12
  <2> QED  BY <2>1
<1>14. D = 0 /\ ~(0 > cut.attempts)  BY <1>4, <1>6, <1>13
<1> QED  BY <1>9, <1>14

(* A rollback leaves the shorter journals and their index.                  *)
LEMMA TruncateShortens ==
    ASSUME NEW e, NEW L, NEW at, CanTruncate(e, L, at)
    PROVE  /\ Truncate(e, L) = Shorter(e, L)
           /\ Shorter(e, L) \in EvidenceType
<1>1. EvidenceOk(e, at) /\ e \in EvidenceType  BY DEF CanTruncate, EvidenceOk
<1>2. PICK w, q, u, d : /\ w = FirstLeft(e, L) /\ q = QueuedLeft(e, L)
                        /\ u = UnqueuedLeft(e, L) /\ d = DirectLeft(e, L)
  OBVIOUS
<1>3. PICK c, a, i : /\ c = Cut(e.commands, L.commands) /\ a = Cut(e.attempts, L.attempts)
                     /\ i = Cut(e.ingress, L.ingress)
  OBVIOUS
<1>4. PICK x : x = [e EXCEPT !.attempts = a, !.first = w, !.unqueued = u,
                             !.commands = c, !.direct = d]
  OBVIOUS
<1>5. PICK s : s = [x EXCEPT !.ingress = i, !.queued = q]  OBVIOUS
<1>6. s = Shorter(e, L)
  <2>1. Shorter(e, L) = [e EXCEPT !.commands = c, !.attempts = a, !.ingress = i,
                                  !.first = w, !.queued = q, !.unqueued = u, !.direct = d]
    BY <1>1, <1>2, <1>3 DEF Shorter, EvidenceType
  <2> QED  BY <2>1, <1>1, <1>4, <1>5 DEF EvidenceType
<1>7. /\ w \in [Requests -> Nat] /\ q \in [Requests -> Nat] /\ u \in Nat /\ d \in Nat
  <2>1. JournalsOk(c, a, i)  BY <1>3, TruncatedJournals
  <2>2. /\ w = FirstOf(a, e.cut) /\ q = QueuedOf(i, e.cut)
        /\ u = UnqueuedAt(a, i, e.cut) /\ d = DirectOf(c, a, e.cut)
    BY <1>2, <1>3, IndexLeft
  <2>3. w \in [Requests -> Nat]
    <3>1. e.cut.attempts \in Nat  BY TruncateRanges
    <3>2. \A r \in Requests : AttemptOf(a, r) \in Nat
      <4>1. \A r \in Requests : AttemptOf(a, r) \in 0 .. Len(a)  BY <2>1, Lookups
      <4> QED  BY <4>1
    <3>3. \A r \in Requests : (IF AttemptOf(a, r) > e.cut.attempts
                               THEN AttemptOf(a, r) - e.cut.attempts ELSE 0) \in Nat
      BY <3>1, <3>2
    <3> QED  BY <3>3, <2>2 DEF FirstOf
  <2>4. q \in [Requests -> Nat]  BY <2>2 DEF QueuedOf
  <2>5. u \in Nat  BY <2>2 DEF UnqueuedAt
  <2>6. d \in Nat  BY <2>2 DEF DirectOf
  <2> QED  BY <2>3, <2>4, <2>5, <2>6
<1>8. s \in EvidenceType /\ s.queued = q /\ s.first = w
  <2>1. JournalsOk(c, a, i)  BY <1>3, TruncatedJournals
  <2>2. c \in Seq(Nat) /\ a \in Seq(Attempt) /\ i \in Seq(IngressRecord)
    BY <2>1 DEF JournalsOk
  <2>3. x \in EvidenceType /\ x.first = w  BY <2>2, <1>1, <1>4, <1>7 DEF EvidenceType
  <2> QED  BY <2>2, <2>3, <1>5, <1>7 DEF EvidenceType
<1>9. Truncate(e, L) = IF \E r \in Requests : e.queued[r] # 0 /\ s.queued[r] = 0 /\ s.first[r] # 0
                       THEN [s EXCEPT !.unqueued = FirstUnqueued(s)] ELSE s
  <2>1. x = [e EXCEPT
                !.attempts = SubSeq(@, 1, L.attempts),
                !.first = [r \in Requests |->
                    IF \E n \in L.attempts + 1 .. Len(e.attempts) :
                        e.attempts[n].request = r /\ @[r] = n - e.cut.attempts
                    THEN 0 ELSE @[r]],
                !.unqueued = IF @ > L.attempts - e.cut.attempts THEN 0 ELSE @,
                !.commands = SubSeq(@, 1, L.commands),
                !.direct = IF @ > L.commands - e.cut.commands THEN 0 ELSE @]
    BY <1>1, <1>2, <1>3, <1>4
       DEF FirstLeft, UnqueuedLeft, DirectLeft, Cut, EvidenceType
  <2>2. x.ingress = e.ingress /\ x.queued = e.queued  BY <1>1, <1>4 DEF EvidenceType
  <2>3. s = [x EXCEPT
                !.ingress = SubSeq(@, 1, L.ingress),
                !.queued = [r \in Requests |->
                    @[r] - Cardinality({k \in L.ingress + 1 .. Len(e.ingress) :
                                        e.ingress[k].request = r})]]
    <3>1. i = SubSeq(x.ingress, 1, L.ingress)  BY <2>2, <1>3 DEF Cut
    <3>2. q = [r \in Requests |->
                  x.queued[r] - Cardinality({k \in L.ingress + 1 .. Len(e.ingress) :
                                             e.ingress[k].request = r})]
      BY <2>2, <1>2 DEF QueuedLeft
    <3> QED  BY <3>1, <3>2, <1>5
  <2> QED  BY <2>1, <2>3 DEF Truncate
<1>10. ~(\E r \in Requests : e.queued[r] # 0 /\ s.queued[r] = 0 /\ s.first[r] # 0)
  BY <1>2, <1>8, StaysQueued
<1> QED  BY <1>6, <1>8, <1>9, <1>10

(* A rollback keeps the form.                                               *)
LEMMA TruncatedInForm ==
    ASSUME NEW e, NEW L, NEW at, CanTruncate(e, L, at)
    PROVE  LET f == Truncate(e, L) IN
           /\ EvidenceOk(f, at)
           /\ f.commands = Cut(e.commands, L.commands)
           /\ f.attempts = Cut(e.attempts, L.attempts)
           /\ f.ingress = Cut(e.ingress, L.ingress)
           /\ f.cut = e.cut /\ f.pinned = e.pinned /\ f.retired = e.retired
<1>1. PICK c, a, i, m, n, cut :
          /\ c = Cut(e.commands, L.commands) /\ a = Cut(e.attempts, L.attempts)
          /\ i = Cut(e.ingress, L.ingress)
          /\ m = L.attempts /\ n = L.ingress /\ cut = e.cut
  OBVIOUS
<1>2. EvidenceOk(e, at)  BY DEF CanTruncate
<1>3. /\ e \in EvidenceType /\ TablesOk(e, at) /\ CutOk(e)
      /\ JournalsOk(e.commands, e.attempts, e.ingress)
  BY <1>2 DEF EvidenceOk
<1>4. /\ m \in Nat /\ n \in Nat /\ cut.attempts \in Nat /\ cut.ingress \in Nat
      /\ cut.attempts <= m /\ m <= Len(e.attempts) /\ cut.ingress <= n
      /\ n <= Len(e.ingress) /\ Len(e.attempts) \in Nat /\ Len(e.ingress) \in Nat
      /\ cut.commands \in Nat /\ cut.commands <= L.commands /\ L.commands \in Nat
      /\ L.commands <= Len(e.commands) /\ Len(e.commands) \in Nat
  BY <1>1, TruncateRanges
<1>5. /\ \A r \in Requests :
             /\ AttemptOf(a, r) = IF AttemptOf(e.attempts, r) <= m
                                  THEN AttemptOf(e.attempts, r) ELSE 0
             /\ CarrierOf(i, r) = IF CarrierOf(e.ingress, r) <= n
                                  THEN CarrierOf(e.ingress, r) ELSE 0
      /\ \A d \in DecisionIds :
             DeciderOf(i, d) = IF DeciderOf(e.ingress, d) <= n
                               THEN DeciderOf(e.ingress, d) ELSE 0
      /\ \A x \in 1 .. m : a[x] = e.attempts[x]
      /\ \A x \in 1 .. n : i[x] = e.ingress[x]
      /\ m # 0 => (i = <<>> <=> e.ingress = <<>>)
      /\ L.commands # 0 => (a = <<>> <=> e.attempts = <<>>)
      /\ Len(a) = m /\ Len(i) = n
  BY <1>1, TruncatedLookups
<1>6. /\ \A r \in Requests : AttemptOf(e.attempts, r) \in 0 .. Len(e.attempts)
      /\ \A r \in Requests : CarrierOf(e.ingress, r) \in 0 .. Len(e.ingress)
      /\ \A d \in DecisionIds : DeciderOf(e.ingress, d) \in 0 .. Len(e.ingress)
  BY <1>3, Lookups
<1>7. PICK f : f = Shorter(e, L)  OBVIOUS
<1>8. Truncate(e, L) = f /\ f \in EvidenceType  BY <1>7, TruncateShortens
<1>9. /\ f.commands = c /\ f.attempts = a /\ f.ingress = i
      /\ f.first = FirstLeft(e, L) /\ f.queued = QueuedLeft(e, L)
      /\ f.unqueued = UnqueuedLeft(e, L) /\ f.direct = DirectLeft(e, L)
      /\ f.cut = cut /\ f.outcomes = e.outcomes /\ f.receipts = e.receipts
      /\ f.decisions = e.decisions /\ f.nested = e.nested /\ f.retired = e.retired
      /\ f.legacy = e.legacy /\ f.tracked = e.tracked
      /\ f.unqueuedHistory = e.unqueuedHistory /\ f.pinned = e.pinned
  BY <1>1, <1>3, <1>7 DEF Shorter, EvidenceType
<1>10. JournalsOk(f.commands, f.attempts, f.ingress)  BY <1>1, <1>9, TruncatedJournals
<1>11. IndexOk(f)  BY <1>1, <1>9, IndexLeft DEF IndexOk
<1>12. CutOk(f)
  <2>1. Len(c) = L.commands
    <3>1. e.commands \in Seq(Nat)  BY <1>3 DEF JournalsOk
    <3>2. L.commands \in 0 .. Len(e.commands)  BY <1>4
    <3> QED  BY <3>1, <3>2, <1>1, CutSeq
  <2>2. Aligned(a, cut)
    <3>1. Aligned(e.attempts, cut)  BY <1>1, <1>3 DEF CutOk
    <3>2. DOMAIN a = 1 .. m /\ 1 .. m \subseteq DOMAIN e.attempts
      <4>1. e.attempts \in Seq(Attempt) /\ m \in 0 .. Len(e.attempts)
        BY <1>3, <1>4 DEF JournalsOk
      <4> QED  BY <4>1, <1>1, CutSeq
    <3> QED  BY <3>1, <3>2, <1>5 DEF Aligned
  <2>3. cut \in CutType /\ e.pinned \subseteq 1 .. cut.ingress  BY <1>1, <1>3 DEF CutOk
  <2> QED  BY <2>1, <2>2, <2>3, <1>4, <1>5, <1>9 DEF CutOk
<1>13. TablesOk(f, at)
  <2>1. /\ RetiredOk(e, at)
        /\ e.outcomes = OutcomesOf(e.attempts, cut, e.retired)
        /\ e.receipts = ReceiptsOf(e.ingress, cut, e.retired)
        /\ e.decisions = DecisionsOf(e.ingress, cut)
        /\ e.nested = NestedOf(e.ingress, cut)
        /\ e.legacy = LegacyOf(e.attempts, cut)
        /\ e.tracked = (cut.attempts > 0 \/ cut.ingress > 0)
        /\ e.unqueuedHistory = UnqueuedOf(e.attempts, e.ingress, cut)
    BY <1>1, <1>3 DEF TablesOk
  <2>2. \A r \in Requests :
            /\ AttemptOf(a, r) <= cut.attempts <=>
                   AttemptOf(e.attempts, r) <= cut.attempts \/ AttemptOf(a, r) = 0
            /\ AttemptOf(e.attempts, r) <= cut.attempts =>
                   AttemptOf(a, r) = AttemptOf(e.attempts, r)
            /\ ~(AttemptOf(e.attempts, r) <= cut.attempts) /\ AttemptOf(a, r) <= cut.attempts
                   => AttemptOf(a, r) = 0
    <3> SUFFICES ASSUME NEW r \in Requests
                 PROVE  LET N == AttemptOf(e.attempts, r)
                            D == AttemptOf(a, r)
                        IN /\ D <= cut.attempts <=> N <= cut.attempts \/ D = 0
                           /\ N <= cut.attempts => D = N
                           /\ ~(N <= cut.attempts) /\ D <= cut.attempts => D = 0
      OBVIOUS
    <3>1. PICK N, D : N = AttemptOf(e.attempts, r) /\ D = AttemptOf(a, r)  OBVIOUS
    <3>2. N \in Nat /\ D = IF N <= m THEN N ELSE 0  BY <3>1, <1>4, <1>5, <1>6
    <3>3. /\ D <= cut.attempts <=> N <= cut.attempts \/ D = 0
          /\ N <= cut.attempts => D = N
          /\ ~(N <= cut.attempts) /\ D <= cut.attempts => D = 0
      BY <3>2, <1>4
    <3> QED  BY <3>1, <3>3
  <2>3. OutcomesOf(a, cut, e.retired) = OutcomesOf(e.attempts, cut, e.retired)
    <3>1. ASSUME NEW r \in Requests
          PROVE  (IF r \notin e.retired /\ AttemptOf(a, r) <= cut.attempts
                  THEN AttemptOf(a, r) ELSE 0)
                     = IF r \notin e.retired /\ AttemptOf(e.attempts, r) <= cut.attempts
                       THEN AttemptOf(e.attempts, r) ELSE 0
      BY <2>2
    <3> QED  BY <3>1 DEF OutcomesOf
  <2>4. \A r \in Requests :
            /\ CarrierOf(i, r) \in 1 .. cut.ingress <=> CarrierOf(e.ingress, r) \in 1 .. cut.ingress
            /\ CarrierOf(e.ingress, r) \in 1 .. cut.ingress =>
                   /\ CarrierOf(i, r) = CarrierOf(e.ingress, r)
                   /\ i[CarrierOf(i, r)] = e.ingress[CarrierOf(e.ingress, r)]
    <3> SUFFICES ASSUME NEW r \in Requests
                 PROVE  LET C == CarrierOf(e.ingress, r)
                            B == CarrierOf(i, r)
                        IN /\ B \in 1 .. cut.ingress <=> C \in 1 .. cut.ingress
                           /\ C \in 1 .. cut.ingress => B = C /\ i[B] = e.ingress[C]
      OBVIOUS
    <3>1. PICK C, B : C = CarrierOf(e.ingress, r) /\ B = CarrierOf(i, r)  OBVIOUS
    <3>2. C \in Nat /\ B = IF C <= n THEN C ELSE 0  BY <3>1, <1>4, <1>5, <1>6
    <3>3. B \in 1 .. cut.ingress <=> C \in 1 .. cut.ingress  BY <3>2, <1>4
    <3>4. C \in 1 .. cut.ingress => B = C /\ C \in 1 .. n  BY <3>2, <1>4
    <3>5. C \in 1 .. n => i[C] = e.ingress[C]  BY <1>5
    <3> QED  BY <3>1, <3>3, <3>4, <3>5
  <2>5. ReceiptsOf(i, cut, e.retired) = ReceiptsOf(e.ingress, cut, e.retired)
    BY <2>4 DEF ReceiptsOf
  <2>6. NestedOf(i, cut) = NestedOf(e.ingress, cut)  BY <2>4 DEF NestedOf
  <2>7. DecisionsOf(i, cut) = DecisionsOf(e.ingress, cut)
    <3>1. ASSUME NEW d \in DecisionIds
          PROVE  (IF DeciderOf(i, d) <= cut.ingress THEN DeciderOf(i, d) ELSE 0)
                     = IF DeciderOf(e.ingress, d) <= cut.ingress
                       THEN DeciderOf(e.ingress, d) ELSE 0
      <4>1. PICK C, B : C = DeciderOf(e.ingress, d) /\ B = DeciderOf(i, d)  OBVIOUS
      <4>2. C \in Nat /\ B = IF C <= n THEN C ELSE 0  BY <4>1, <1>4, <1>5, <1>6
      <4>3. (IF B <= cut.ingress THEN B ELSE 0) = IF C <= cut.ingress THEN C ELSE 0
        BY <4>2, <1>4
      <4> QED  BY <4>1, <4>3
    <3> QED  BY <3>1 DEF DecisionsOf
  <2>8. LegacyOf(a, cut) = LegacyOf(e.attempts, cut)
    <3>1. cut.commands > 0 => L.commands # 0  BY <1>4
    <3> QED  BY <3>1, <1>5 DEF LegacyOf
  <2>9. UnqueuedOf(a, i, cut) = UnqueuedOf(e.attempts, e.ingress, cut)
    <3>1. cut.attempts > 0 => m # 0  BY <1>4
    <3> QED  BY <3>1, <2>8, <1>5 DEF UnqueuedOf
  <2>10. RetiredOk(f, at)
    <3>1. e.retired \subseteq Requests  BY <2>1 DEF RetiredOk
    <3>2. ASSUME NEW r \in e.retired
          PROVE  /\ AttemptOf(a, r) \in 1 .. cut.attempts
                 /\ a[AttemptOf(a, r)].at < KeptFrom(at)
                 /\ CarrierOf(i, r) <= cut.ingress
      <4>1. /\ AttemptOf(e.attempts, r) \in 1 .. cut.attempts
            /\ e.attempts[AttemptOf(e.attempts, r)].at < KeptFrom(at)
            /\ CarrierOf(e.ingress, r) <= cut.ingress
        BY <1>1, <2>1 DEF RetiredOk
      <4>2. r \in Requests  BY <3>1
      <4>3. PICK N, C : N = AttemptOf(e.attempts, r) /\ C = CarrierOf(e.ingress, r)  OBVIOUS
      <4>4. N <= m /\ N \in 1 .. m  BY <4>1, <4>3, <1>4
      <4>5. AttemptOf(a, r) = N  BY <4>2, <4>3, <4>4, <1>5
      <4>6. a[N] = e.attempts[N]  BY <4>4, <1>5
      <4>7. C \in Nat  BY <4>2, <4>3, <1>6
      <4>8. C <= n  BY <4>1, <4>3, <4>7, <1>4
      <4>9. CarrierOf(i, r) = C  BY <4>2, <4>3, <4>8, <1>5
      <4> QED  BY <4>1, <4>3, <4>5, <4>6, <4>9
    <3> QED  BY <3>1, <3>2, <1>9 DEF RetiredOk
  <2> QED  BY <2>1, <2>3, <2>5, <2>6, <2>7, <2>8, <2>9, <2>10, <1>9 DEF TablesOk
<1> QED  BY <1>1, <1>8, <1>9, <1>10, <1>11, <1>12, <1>13 DEF EvidenceOk

-----------------------------------------------------------------------------
(* Every step keeps the invariant.                                          *)

(* What is retired stays retired as time goes on.                           *)
LEMMA LaterInForm ==
    ASSUME NEW e, NEW at \in Int, EvidenceOk(e, at), NEW t \in Int, at <= t
    PROVE  EvidenceOk(e, t)
<1>1. TablesOk(e, at) /\ JournalsOk(e.commands, e.attempts, e.ingress) /\ CutOk(e)
  BY DEF EvidenceOk
<1>2. RetiredOk(e, at)  BY <1>1 DEF TablesOk
<1>3. e.retired \subseteq Requests  BY <1>2 DEF RetiredOk
<1>4. ASSUME NEW r \in e.retired
      PROVE  e.attempts[AttemptOf(e.attempts, r)].at < KeptFrom(t)
  <2>1. PICK n : n = AttemptOf(e.attempts, r)  OBVIOUS
  <2>2. n \in 1 .. e.cut.attempts /\ e.attempts[n].at < KeptFrom(at)
    BY <1>2, <2>1 DEF RetiredOk
  <2>3. n \in DOMAIN e.attempts
    <3>1. e.cut.attempts \in 0 .. Len(e.attempts) /\ Len(e.attempts) \in Nat
          /\ DOMAIN e.attempts = 1 .. Len(e.attempts)
      BY Fields
    <3> QED  BY <3>1, <2>2
  <2>4. e.attempts[n].at \in Nat
    <3>1. e.attempts \in Seq(Attempt)  BY Fields
    <3>2. e.attempts[n] \in Attempt  BY <3>1, <2>3
    <3> QED  BY <3>2 DEF Attempt
  <2>5. Retention \in Nat  BY AdmissionAssumption
  <2>6. e.attempts[n].at < KeptFrom(t)  BY <2>2, <2>4, <2>5 DEF KeptFrom
  <2> QED  BY <2>1, <2>6
<1>5. RetiredOk(e, t)  BY <1>2, <1>4 DEF RetiredOk
<1>6. TablesOk(e, t)  BY <1>1, <1>5 DEF TablesOk
<1> QED  BY <1>6 DEF EvidenceOk

(* Lengths may be rolled back to.                                           *)
LEMMA LengthsAligned ==
    ASSUME NEW e, NEW at, EvidenceOk(e, at)
    PROVE  /\ Lengths(e) \in LengthType /\ Aligned(e.attempts, Lengths(e))
           /\ Aligned(e.attempts, [commands |-> Len(e.commands), attempts |-> Len(e.attempts)])
           /\ e.ingress # <<>> =>
                  \A n \in DOMAIN e.attempts :
                      CarrierOf(e.ingress, e.attempts[n].request) \in 1 .. Len(e.ingress)
<1>1. /\ e.attempts \in Seq(Attempt) /\ Len(e.attempts) \in Nat /\ Len(e.ingress) \in Nat
      /\ Len(e.commands) \in Nat /\ DOMAIN e.attempts = 1 .. Len(e.attempts)
      /\ DOMAIN e.commands = 1 .. Len(e.commands)
      /\ DOMAIN e.ingress = 1 .. Len(e.ingress)
      /\ JournalsOk(e.commands, e.attempts, e.ingress)
  BY Fields
<1>2. Linked(e.commands, e.attempts) /\ Apart(e.commands, e.attempts, e.ingress)
  BY <1>1 DEF JournalsOk
<1>3. \A n \in DOMAIN e.attempts : e.attempts[n].command # 0 =>
          (n <= Len(e.attempts) <=> e.attempts[n].command <= Len(e.commands))
  <2>1. ASSUME NEW n \in DOMAIN e.attempts, e.attempts[n].command # 0
        PROVE  n <= Len(e.attempts) /\ e.attempts[n].command <= Len(e.commands)
    <3>1. e.attempts[n].command \in DOMAIN e.commands  BY <2>1, <1>2 DEF Linked
    <3> QED  BY <3>1, <1>1
  <2> QED  BY <2>1
<1>4. ASSUME e.ingress # <<>>, NEW n \in DOMAIN e.attempts
      PROVE  CarrierOf(e.ingress, e.attempts[n].request) \in 1 .. Len(e.ingress)
  <2>1. CarriersOf(e.ingress, e.attempts[n].request) # {}  BY <1>2, <1>4 DEF Apart
  <2>2. PICK r : r = e.attempts[n].request  OBVIOUS
  <2>3. r \in Requests
    <3>1. e.attempts[n] \in Attempt  BY <1>1, <1>4
    <3> QED  BY <3>1, <2>2 DEF Attempt
  <2>4. PICK x \in DOMAIN e.ingress : e.ingress[x].request = r
    BY <2>1, <2>2 DEF CarriersOf
  <2>5. CarrierOf(e.ingress, r) = x  BY <1>1, <2>3, <2>4, Lookups
  <2> QED  BY <1>1, <2>2, <2>4, <2>5
<1>5. Lengths(e) \in LengthType  BY <1>1 DEF Lengths, LengthType
<1> QED  BY <1>3, <1>4, <1>5 DEF Aligned, Lengths

(* The run starts in form.                                                  *)
LEMMA EmptyInForm == EvidenceOk(EmptyEvidence, 0)
<1>1. PICK e : e = EmptyEvidence  OBVIOUS
<1> DEFINE zero == [r \in Requests |-> 0]
           none == [d \in DecisionIds |-> 0]
<1>2. /\ e.commands = <<>> /\ e.attempts = <<>> /\ e.ingress = <<>>
      /\ e.cut = NoCut /\ e.outcomes = zero /\ e.receipts = zero
      /\ e.decisions = none /\ e.nested = {} /\ e.retired = {}
      /\ e.legacy = FALSE /\ e.tracked = FALSE /\ e.unqueuedHistory = FALSE
      /\ e.pinned = {} /\ e.queued = zero /\ e.first = zero
      /\ e.direct = 0 /\ e.unqueued = 0
  BY <1>1 DEF EmptyEvidence
<1>3. /\ NoCut \in CutType /\ NoCut.commands = 0 /\ NoCut.attempts = 0 /\ NoCut.ingress = 0
  BY DEF NoCut, CutType
<1>4. zero \in [Requests -> Nat] /\ none \in [DecisionIds -> Nat]  OBVIOUS
<1>5. e \in EvidenceType
  BY <1>1, <1>3, <1>4 DEF EmptyEvidence, EvidenceType
<1>6. /\ \A r : AttemptsOf(<<>>, r) = {} /\ CarriersOf(<<>>, r) = {}
      /\ \A d : DecidersOf(<<>>, d) = {}
  BY DEF AttemptsOf, CarriersOf, DecidersOf
<1>7. /\ \A r : AttemptOf(<<>>, r) = 0 /\ CarrierOf(<<>>, r) = 0
      /\ \A d : DeciderOf(<<>>, d) = 0
  BY <1>6, LeastNone DEF AttemptOf, CarrierOf, DeciderOf
<1>8. JournalsOk(<<>>, <<>>, <<>>)
  <2>1. Unique(<<>>, <<>>)  BY <1>6 DEF Unique, AtMostOne
  <2>2. Linked(<<>>, <<>>)  BY DEF Linked
  <2>3. Apart(<<>>, <<>>, <<>>)  BY DEF Apart
  <2> QED  BY <2>1, <2>2, <2>3 DEF JournalsOk
<1>9. CutOk(e)  BY <1>2, <1>3 DEF CutOk, Aligned
<1> HIDE DEF zero, none
<1>10. /\ OutcomesOf(<<>>, NoCut, {}) = zero /\ FirstOf(<<>>, NoCut) = zero
  BY <1>3, <1>7 DEF OutcomesOf, FirstOf, zero
<1>11. /\ ReceiptsOf(<<>>, NoCut, {}) = zero /\ QueuedOf(<<>>, NoCut) = zero
       /\ NestedOf(<<>>, NoCut) = {}
  <2>1. 0 \notin 1 .. NoCut.ingress /\ ~(0 > NoCut.ingress)  BY <1>3
  <2> QED  BY <2>1, <1>7 DEF ReceiptsOf, QueuedOf, NestedOf, zero
<1>12. DecisionsOf(<<>>, NoCut) = none  BY <1>7 DEF DecisionsOf, none
<1>13. /\ LegacyOf(<<>>, NoCut) = FALSE /\ UnqueuedOf(<<>>, <<>>, NoCut) = FALSE
       /\ DirectOf(<<>>, <<>>, NoCut) = 0 /\ UnqueuedAt(<<>>, <<>>, NoCut) = 0
  BY <1>3 DEF LegacyOf, UnqueuedOf, DirectOf, UnqueuedAt
<1>14. TablesOk(e, 0)
  <2>1. RetiredOk(e, 0)  BY <1>2 DEF RetiredOk
  <2>2. e.tracked = (e.cut.attempts > 0 \/ e.cut.ingress > 0)
    <3>1. e.cut.attempts = 0 /\ e.cut.ingress = 0  BY <1>2, <1>3
    <3>2. ~(e.cut.attempts > 0 \/ e.cut.ingress > 0)  BY <3>1
    <3> QED  BY <3>2, <1>2
  <2> QED  BY <2>1, <2>2, <1>2, <1>10, <1>11, <1>12, <1>13 DEF TablesOk
<1>15. IndexOk(e)  BY <1>2, <1>10, <1>11, <1>13 DEF IndexOk
<1> QED  BY <1>1, <1>2, <1>5, <1>8, <1>9, <1>14, <1>15 DEF EvidenceOk

(* The first state is in form.                                              *)
LEMMA AdmissionStarts ==
    ASSUME Init
    PROVE  AdmissionSound
<1>1. /\ now = 0 /\ evidence = EmptyEvidence
      /\ cursor = [commands |-> 0, attempts |-> 0] /\ boundaries = 0
      /\ pending = {} /\ taking = {} /\ saved = NoBoundary
  BY DEF Init
<1>2. /\ saved.open = FALSE /\ saved.now = 0 /\ saved \in SavedType
  BY <1>1 DEF NoBoundary, SavedType, LengthType
<1>3. EvidenceOk(evidence, CommittedNow)
  <2>1. CommittedNow = 0  BY <1>1, <1>2 DEF CommittedNow
  <2> QED  BY <2>1, <1>1, EmptyInForm
<1>4. /\ evidence.commands = <<>> /\ evidence.attempts = <<>> /\ evidence.ingress = <<>>
      /\ evidence.cut = NoCut
  BY <1>1 DEF EmptyEvidence
<1>5. 0 \in Times /\ 0 \in 0 .. MaxBoundaries  BY AdmissionAssumption DEF Times
<1>6. Carrying(evidence.ingress)  BY <1>4 DEF Carrying
<1>7. Aligned(evidence.attempts, cursor)  BY <1>4 DEF Aligned
<1>8. /\ cursor \in [commands : Nat, attempts : Nat]
      /\ evidence.cut.commands <= cursor.commands /\ evidence.cut.attempts <= cursor.attempts
      /\ cursor.commands <= Len(evidence.commands) /\ cursor.attempts <= Len(evidence.attempts)
  BY <1>1, <1>4 DEF NoCut
<1> QED  BY <1>1, <1>2, <1>3, <1>4, <1>5, <1>6, <1>7, <1>8 DEF AdmissionSound

\* A request was admitted: nothing that still waits carries it, and inside a
\* boundary a record from before the boundary does.
Admits(x) ==
    /\ Admissible(evidence.commands, evidence.attempts, evidence.ingress, x)
    /\ x.at = now
    /\ EvidenceOk(evidence', CommittedNow) /\ GrownBy(evidence', evidence, x)
    /\ \A i \in pending \cup taking' : evidence.ingress[i].request # x.request
    /\ saved.open /\ evidence.ingress # <<>> =>
           CarrierOf(evidence.ingress, x.request) \in 1 .. saved.lengths.ingress

(* Admission of a request keeps the invariant.                              *)
LEMMA GrownSound ==
    ASSUME AdmissionSound, NEW x, Admits(x),
           UNCHANGED <<now, cursor, boundaries, pending, saved>>,
           taking' \subseteq taking
    PROVE  AdmissionSound'
<1>1. PICK e, f, m : e = evidence /\ f = evidence' /\ m = Len(e.attempts)  OBVIOUS
<1>2. PICK s, r : s = f.attempts /\ r = x.request  OBVIOUS
<1>3. /\ EvidenceOk(e, CommittedNow) /\ now \in Int /\ EvidenceOk(f, CommittedNow)
      /\ Admissible(e.commands, e.attempts, e.ingress, x) /\ x.at = now
  BY <1>1, SoundTimes DEF Admits
<1>4. /\ f.commands = Grown(e.commands, e.attempts, x)
      /\ f.attempts = Append(e.attempts, x) /\ f.ingress = e.ingress
      /\ f.cut = e.cut /\ f.pinned = e.pinned /\ f.retired = e.retired
  BY <1>1 DEF Admits, GrownBy
<1>5. /\ e.attempts \in Seq(Attempt) /\ x \in Attempt /\ e.commands \in Seq(Nat)
      /\ m \in Nat /\ Len(e.commands) \in Nat /\ r \in Requests
      /\ DOMAIN e.attempts = 1 .. m /\ JournalsOk(e.commands, e.attempts, e.ingress)
  <2>1. x \in Attempt /\ JournalsOk(e.commands, e.attempts, e.ingress)
    BY <1>3 DEF Admissible
  <2>2. x.request \in Requests  BY <2>1 DEF Attempt
  <2>3. e.attempts \in Seq(Attempt) /\ e.commands \in Seq(Nat)  BY <2>1 DEF JournalsOk
  <2> QED  BY <2>1, <2>2, <2>3, <1>1, <1>2
<1>6. /\ Len(s) = m + 1 /\ DOMAIN s = 1 .. m + 1 /\ s[m + 1] = x
      /\ \A n \in 1 .. m : s[n] = e.attempts[n]
      /\ \A n \in 1 .. m + 1 : n = m + 1 \/ n \in 1 .. m
  BY <1>1, <1>2, <1>4, <1>5
<1>7. /\ Len(e.commands) <= Len(f.commands) /\ Len(e.attempts) <= Len(f.attempts)
      /\ Len(f.commands) \in Nat
  <2>1. Len(f.commands) = Len(e.commands) \/ Len(f.commands) = Len(e.commands) + 1
    <3>1. f.commands = e.commands \/ f.commands = Append(e.commands, m + 1)
      BY <1>1, <1>4 DEF Grown
    <3>2. m + 1 \in Nat  BY <1>5
    <3> QED  BY <3>1, <3>2, <1>5
  <2> QED  BY <2>1, <1>1, <1>2, <1>5, <1>6
<1>8. AttemptOf(s, r) = m + 1 /\ \A q : q # r => AttemptOf(s, q) = AttemptOf(e.attempts, q)
  <2>1. AttemptOf(e.attempts, r) = 0  BY <1>2, <1>3 DEF Admissible
  <2>2. \A n \in DOMAIN e.attempts : e.attempts[n].request # r
    BY <2>1, <1>5, Lookups
  <2>3. AttemptsOf(e.attempts, r) = {}  BY <2>2 DEF AttemptsOf
  <2> QED  BY <2>3, <1>1, <1>2, <1>4, <1>5, AttemptPushed
<1>9. Readable(f) = Readable(e)  BY <1>4 DEF Readable, RetainedIngress
<1>10. ASSUME NEW L, L.attempts \in Nat, L.commands \in Nat,
              L.attempts <= Len(e.attempts), L.commands <= Len(e.commands),
              Aligned(e.attempts, L)
       PROVE  Aligned(s, L)
  BY <1>2, <1>3, <1>4, <1>10, AlignedPushed
<1>11. Carrying(evidence'.ingress)  BY <1>1, <1>4 DEF AdmissionSound
<1>12. /\ cursor \in [commands : Nat, attempts : Nat]
       /\ f.cut.commands <= cursor.commands /\ f.cut.attempts <= cursor.attempts
       /\ cursor.commands <= Len(f.commands) /\ cursor.attempts <= Len(f.attempts)
       /\ Aligned(f.attempts, cursor)
  <2>1. /\ cursor \in [commands : Nat, attempts : Nat]
        /\ e.cut.commands <= cursor.commands /\ e.cut.attempts <= cursor.attempts
        /\ cursor.commands <= Len(e.commands) /\ cursor.attempts <= Len(e.attempts)
        /\ Aligned(e.attempts, cursor)
    BY <1>1 DEF AdmissionSound
  <2>2. cursor.commands \in Nat /\ cursor.attempts \in Nat  BY <2>1
  <2>3. cursor.commands <= Len(f.commands)  BY <2>1, <2>2, <1>5, <1>7
  <2>4. cursor.attempts <= Len(f.attempts)  BY <2>1, <2>2, <1>1, <1>2, <1>5, <1>6
  <2>5. PICK L : L = cursor  OBVIOUS
  <2>6. Aligned(s, L)  BY <2>1, <2>2, <2>5, <1>10
  <2> QED  BY <2>1, <2>3, <2>4, <2>5, <2>6, <1>2, <1>4
<1>13. \A n \in DOMAIN s : s[n].at <= now
  <2>1. \A n \in 1 .. m : e.attempts[n].at <= now  BY <1>1, <1>5 DEF AdmissionSound
  <2>2. x.at <= now  BY <1>3
  <2> QED  BY <2>1, <2>2, <1>6
<1>14. \A i \in pending \cup taking' : Waiting(i, f)
  <2>1. ASSUME NEW i \in pending \cup taking' PROVE Waiting(i, f)
    <3>1. Waiting(i, e)  BY <1>1 DEF AdmissionSound
    <3>2. e.ingress[i].request # r  BY <1>1, <1>2 DEF Admits
    <3>3. AttemptOf(s, e.ingress[i].request) = AttemptOf(e.attempts, e.ingress[i].request)
      BY <3>2, <1>8
    <3> QED  BY <3>1, <3>3, <1>2, <1>4, <1>9 DEF Waiting
  <2> QED  BY <2>1
<1>15. ASSUME saved.open PROVE SavedOk(evidence)'
  <2>1. SavedOk(e)  BY <1>1, <1>15 DEF AdmissionSound
  <2>2. PICK L : L = saved.lengths  OBVIOUS
  <2>3. /\ saved.now <= now /\ saved.pinned = e.pinned
        /\ L.commands <= Len(e.commands) /\ L.attempts <= m
        /\ L.ingress <= Len(e.ingress)
        /\ cursor.commands <= L.commands /\ cursor.attempts <= L.attempts
        /\ e.cut.ingress <= L.ingress
        /\ Aligned(e.attempts, L)
        /\ \A n \in 1 .. L.attempts : e.attempts[n].at <= saved.now
        /\ taking \subseteq 1 .. L.ingress /\ boundaries < MaxBoundaries
    BY <2>1, <2>2, <1>1 DEF SavedOk
  <2>4. e.ingress # <<>> =>
            \A n \in 1 .. m : CarrierOf(e.ingress, e.attempts[n].request) \in 1 .. L.ingress
    BY <2>1, <2>2, <1>5 DEF SavedOk
  <2>5. \A i \in saved.pending :
            /\ i \in 1 .. L.ingress /\ i \in Readable(e)
            /\ e.ingress[i].request # None =>
                   \/ AttemptOf(e.attempts, e.ingress[i].request) = 0
                   \/ AttemptOf(e.attempts, e.ingress[i].request) > L.attempts
    BY <2>1, <2>2 DEF SavedOk
  <2>6. L.commands \in Nat /\ L.attempts \in Nat
    <3>1. saved \in SavedType  BY DEF AdmissionSound
    <3>2. L \in LengthType  BY <3>1, <2>2 DEF SavedType
    <3> QED  BY <3>2 DEF LengthType
  <2>7. /\ L.commands <= Len(f.commands) /\ L.attempts <= Len(s)
        /\ L.ingress <= Len(f.ingress) /\ f.cut.ingress <= L.ingress
    BY <2>3, <2>6, <1>4, <1>5, <1>6, <1>7
  <2>8. Aligned(s, L)  BY <2>3, <2>6, <1>1, <1>10
  <2>9. \A n \in 1 .. L.attempts : s[n].at <= saved.now
    <3>1. 1 .. L.attempts \subseteq 1 .. m  BY <2>3, <2>6, <1>5
    <3> QED  BY <3>1, <2>3, <1>6
  <2>10. f.ingress # <<>> =>
             \A n \in DOMAIN s : CarrierOf(f.ingress, s[n].request) \in 1 .. L.ingress
    <3>1. e.ingress # <<>> => CarrierOf(e.ingress, x.request) \in 1 .. L.ingress
      BY <1>1, <1>15, <2>2 DEF Admits
    <3> QED  BY <3>1, <2>4, <1>4, <1>6
  <2>11. \A i \in saved.pending :
             /\ i \in 1 .. L.ingress /\ i \in Readable(f)
             /\ f.ingress[i].request # None =>
                    \/ AttemptOf(s, f.ingress[i].request) = 0
                    \/ AttemptOf(s, f.ingress[i].request) > L.attempts
    <3>1. ASSUME NEW i \in saved.pending, e.ingress[i].request # None
          PROVE  \/ AttemptOf(s, e.ingress[i].request) = 0
                 \/ AttemptOf(s, e.ingress[i].request) > L.attempts
      <4>1. CASE e.ingress[i].request = r
        <5>1. m + 1 > L.attempts  BY <2>3, <2>6, <1>5
        <5> QED  BY <4>1, <5>1, <1>8
      <4>2. CASE e.ingress[i].request # r
        <5>1. AttemptOf(s, e.ingress[i].request) = AttemptOf(e.attempts, e.ingress[i].request)
          BY <4>2, <1>8
        <5> QED  BY <5>1, <3>1, <2>5
      <4> QED  BY <4>1, <4>2
    <3> QED  BY <3>1, <2>5, <1>4, <1>9
  <2>12. taking' \subseteq 1 .. L.ingress  BY <2>3
  <2> QED
    BY <2>2, <2>3, <2>7, <2>8, <2>9, <2>10, <2>11, <2>12, <1>1, <1>2, <1>4 DEF SavedOk
<1>16. /\ CommittedNow' = CommittedNow
       /\ now' = now /\ boundaries' = boundaries /\ cursor' = cursor /\ pending' = pending
       /\ saved' = saved
  BY DEF CommittedNow
<1>17. /\ now \in Times /\ boundaries \in 0 .. MaxBoundaries
       /\ pending \cap taking = {} /\ saved \in SavedType /\ saved.now \in Times
       /\ ~saved.open => taking = {}
  BY DEF AdmissionSound
<1>18. pending' \cap taking' = {} /\ (~saved.open => taking' = {})  BY <1>16, <1>17
<1>19. \A n \in DOMAIN evidence'.attempts : evidence'.attempts[n].at <= now'
  BY <1>1, <1>2, <1>13, <1>16
<1>20. \A i \in pending' \cup taking' : Waiting(i, evidence)'
  BY <1>1, <1>14, <1>16 DEF Waiting, Readable, RetainedIngress
<1>21. EvidenceOk(evidence', CommittedNow')  BY <1>1, <1>3, <1>16
<1> QED
  BY <1>1, <1>2, <1>11, <1>12, <1>15, <1>16, <1>17, <1>18, <1>19, <1>20, <1>21
     DEF AdmissionSound

\* Attempts are only added.
AttemptsGrow ==
    \/ evidence'.attempts = evidence.attempts
    \/ \E x : evidence'.attempts = Append(evidence.attempts, x)

(* Taking a record without a trace keeps the invariant.                     *)
LEMMA TakenSound ==
    ASSUME AdmissionSound, UNCHANGED <<evidence, now, cursor, boundaries, pending, saved>>,
           taking' \subseteq taking
    PROVE  AdmissionSound' /\ AttemptsGrow
<1>1. /\ evidence' = evidence /\ now' = now /\ cursor' = cursor /\ boundaries' = boundaries
      /\ pending' = pending /\ saved' = saved /\ CommittedNow' = CommittedNow
  BY DEF CommittedNow
<1>2. pending' \cap taking' = {} /\ (~saved.open => taking' = {})
  BY <1>1 DEF AdmissionSound
<1>3. \A i \in pending' \cup taking' : Waiting(i, evidence)
  BY <1>1 DEF AdmissionSound
<1>4. \A i : Waiting(i, evidence)' <=> Waiting(i, evidence)
  BY <1>1 DEF Waiting, Readable, RetainedIngress
<1>5. saved.open => SavedOk(evidence)'
  <2>1. ASSUME saved.open PROVE SavedOk(evidence)'
    <3>1. SavedOk(evidence)  BY <2>1 DEF AdmissionSound
    <3>2. taking' \subseteq 1 .. saved.lengths.ingress  BY <3>1 DEF SavedOk
    <3> QED  BY <3>1, <3>2, <1>1 DEF SavedOk, Readable, RetainedIngress
  <2> QED  BY <2>1
<1> QED  BY <1>1, <1>2, <1>3, <1>4, <1>5 DEF AdmissionSound, AttemptsGrow

\* The request r is admitted from its ingress record or from the host.
Admitting(r, input) ==
    /\ r \in Requests /\ input \in Inputs
    /\ AdmitTracked(r, input)
    /\ \A i \in pending \cup taking' : evidence.ingress[i].request # r
    /\ evidence.ingress # <<>> => CarrierOf(evidence.ingress, r) # 0
    /\ saved.open /\ evidence.ingress # <<>> =>
           CarrierOf(evidence.ingress, r) \in 1 .. saved.lengths.ingress

(* Admission of a request, known or new, keeps the invariant.               *)
LEMMA TrackedSound ==
    ASSUME AdmissionSound, NEW r, NEW input, Admitting(r, input),
           UNCHANGED <<now, cursor, boundaries, pending, saved>>,
           taking' \subseteq taking
    PROVE  AdmissionSound' /\ AttemptsGrow
<1>1. PICK e, at : e = evidence /\ at = CommittedNow  OBVIOUS
<1>2. EvidenceOk(e, at) /\ at \in Int /\ now \in Int /\ at <= now  BY <1>1, SoundTimes
<1>3. now \in Nat  BY AdmissionAssumption DEF AdmissionSound, Times
<1>4. r \in Requests /\ input \in Inputs /\ ~HasDirect(e)
      /\ (e.ingress # <<>> => CarrierOf(e.ingress, r) # 0)
  BY <1>1 DEF Admitting, AdmitTracked
<1>5. CASE CommandAnswer(e, now, r, input) = New
  <2>1. PICK accepted \in BOOLEAN : evidence' = Admitted(e, r, input, accepted)
    BY <1>1, <1>5 DEF Admitting, AdmitTracked
  <2>2. CommandReply(e.attempts, now, r, input) = New  BY <1>2, <1>4, <1>5, CommandAnswered
  <2>3. AttemptOf(e.attempts, r) = 0
    <3>1. New # IsRetired /\ New # Conflict /\ \A n : New # Reply("outcome", n)
      BY DEF New, IsRetired, Conflict, Reply
    <3> QED  BY <2>2, <3>1 DEF CommandReply
  <2>4. CanAdmit(e, at, r, input, accepted)  BY <1>2, <1>3, <1>4, <2>3 DEF CanAdmit
  <2>5. PICK x : x = AttemptFor(e, r, input, accepted)  OBVIOUS
  <2>6. /\ Admissible(e.commands, e.attempts, e.ingress, x)
        /\ x.request = r /\ x.at = now
    BY <2>4, <2>5, AdmitAdmissible
  <2>7. EvidenceOk(evidence', at) /\ GrownBy(evidence', e, x)
    BY <2>1, <2>4, <2>5, AdmittedInForm
  <2>8. Admits(x)  BY <1>1, <2>6, <2>7 DEF Admits, Admitting
  <2>9. AttemptsGrow  BY <1>1, <2>7 DEF GrownBy, AttemptsGrow
  <2> QED  BY <2>8, <2>9, GrownSound
<1>6. CASE CommandAnswer(e, now, r, input) # New
  <2>1. UNCHANGED evidence  BY <1>1, <1>6 DEF Admitting, AdmitTracked
  <2> QED  BY <2>1, TakenSound
<1> QED  BY <1>5, <1>6

(* Where a taken record carries its request: inside the boundary, and no    *)
(* other waiting record carries it.                                         *)
LEMMA TakenCarries ==
    ASSUME AdmissionSound, NEW i \in taking, evidence.ingress[i].request # None
    PROVE  LET r == evidence.ingress[i].request IN
           /\ r \in Requests /\ evidence.ingress[i].input \in Inputs
           /\ CarrierOf(evidence.ingress, r) = i /\ i # 0
           /\ saved.open => i \in 1 .. saved.lengths.ingress
           /\ \A j \in (pending \cup taking) \ {i} : evidence.ingress[j].request # r
<1>1. PICK s, r : s = evidence.ingress /\ r = s[i].request  OBVIOUS
<1>2. EvidenceOk(evidence, CommittedNow)  BY SoundTimes
<1>3. /\ s \in Seq(IngressRecord) /\ DOMAIN s = 1 .. Len(s)
      /\ JournalsOk(evidence.commands, evidence.attempts, s)
  BY <1>1, <1>2, Fields
<1>4. \A j \in pending \cup taking : j \in DOMAIN s
  BY <1>1 DEF AdmissionSound, Waiting
<1>5. s[i] \in IngressRecord  BY <1>3, <1>4
<1>6. r \in Requests /\ s[i].input \in Inputs  BY <1>1, <1>5 DEF IngressRecord
<1>7. \A j \in DOMAIN s : s[j].request = r => CarrierOf(s, r) = j  BY <1>3, <1>6, Lookups
<1>8. CarrierOf(s, r) = i  BY <1>1, <1>4, <1>7
<1>9. i # 0  BY <1>3, <1>4
<1>10. saved.open => i \in 1 .. saved.lengths.ingress
  BY DEF AdmissionSound, SavedOk
<1>11. \A j \in (pending \cup taking) \ {i} : s[j].request # r
  BY <1>4, <1>7, <1>8
<1> QED  BY <1>1, <1>6, <1>8, <1>9, <1>10, <1>11

(* process_command keeps the invariant.                                     *)
LEMMA ProcessSound ==
    ASSUME AdmissionSound, NEW r \in Requests, NEW input \in Inputs, ProcessCommand(r, input)
    PROVE  AdmissionSound' /\ AttemptsGrow
<1>1. /\ ~saved.open /\ evidence.cut.ingress = 0 /\ RetainedIngress(evidence) = {}
      /\ AdmitTracked(r, input)
      /\ UNCHANGED <<now, cursor, boundaries, pending, taking, saved>>
  BY DEF ProcessCommand
<1>2. EvidenceOk(evidence, CommittedNow)  BY SoundTimes
<1>3. evidence.ingress = <<>> /\ DOMAIN evidence.ingress = {}
  <2>1. /\ evidence.ingress \in Seq(IngressRecord) /\ Len(evidence.ingress) \in Nat
        /\ DOMAIN evidence.ingress = 1 .. Len(evidence.ingress)
    BY <1>2, Fields
  <2>2. PICK m : m = Len(evidence.ingress)  OBVIOUS
  <2>3. 0 + 1 .. m = {}  BY <1>1, <2>2 DEF RetainedIngress
  <2>4. m = 0
    <3>1. ASSUME m # 0 PROVE FALSE
      <4>1. 1 \in 0 + 1 .. m  BY <3>1, <2>1, <2>2
      <4> QED  BY <4>1, <2>3
    <3> QED  BY <3>1
  <2>5. \A s \in Seq(IngressRecord) : Len(s) = 0 => s = <<>>  OBVIOUS
  <2>6. evidence.ingress = <<>>  BY <2>1, <2>2, <2>4, <2>5
  <2> QED  BY <2>6
<1>4. pending \cup taking = {}  BY <1>3 DEF AdmissionSound, Waiting
<1>5. Admitting(r, input)  BY <1>1, <1>3, <1>4 DEF Admitting
<1> QED  BY <1>1, <1>5, TrackedSound

(* A queued command that its boundary admits keeps the invariant.           *)
LEMMA AdmitCommandSound ==
    ASSUME AdmissionSound, NEW i \in taking, AdmitCommand(i)
    PROVE  AdmissionSound' /\ AttemptsGrow
<1>1. PICK r, input : r = evidence.ingress[i].request /\ input = evidence.ingress[i].input
  OBVIOUS
<1>2. /\ IsCommand(i) /\ AdmitTracked(r, input) /\ taking' = taking \ {i}
      /\ UNCHANGED <<now, cursor, boundaries, pending, saved>>
  BY <1>1 DEF AdmitCommand
<1>3. r # None
  <2>1. i \in DOMAIN evidence.ingress  BY DEF AdmissionSound, Waiting
  <2> QED  BY <2>1, <1>1, <1>2 DEF AdmissionSound, Carrying, IsCommand
<1>4. /\ r \in Requests /\ input \in Inputs
      /\ CarrierOf(evidence.ingress, r) = i /\ i # 0
      /\ saved.open => i \in 1 .. saved.lengths.ingress
      /\ \A j \in (pending \cup taking) \ {i} : evidence.ingress[j].request # r
  BY <1>1, <1>3, TakenCarries
<1>5. pending \cup taking' \subseteq (pending \cup taking) \ {i}
  BY <1>2 DEF AdmissionSound
<1>6. Admitting(r, input)  BY <1>2, <1>4, <1>5 DEF Admitting
<1> QED  BY <1>2, <1>6, TrackedSound

(* A decision that its boundary admits keeps the invariant.                 *)
LEMMA AdmitDecisionSound ==
    ASSUME AdmissionSound, NEW i \in taking, AdmitDecision(i)
    PROVE  AdmissionSound' /\ AttemptsGrow
<1>1. PICK r, input : r = evidence.ingress[i].request /\ input = evidence.ingress[i].input
  OBVIOUS
<1>2. /\ UNCHANGED evidence \/ (r # None /\ AdmitTracked(r, input))
      /\ taking' = taking \ {i}
      /\ UNCHANGED <<now, cursor, boundaries, pending, saved>>
  BY <1>1 DEF AdmitDecision
<1>3. CASE UNCHANGED evidence  BY <1>2, <1>3, TakenSound
<1>4. CASE r # None /\ AdmitTracked(r, input)
  <2>1. /\ r \in Requests /\ input \in Inputs
        /\ CarrierOf(evidence.ingress, r) = i /\ i # 0
        /\ saved.open => i \in 1 .. saved.lengths.ingress
        /\ \A j \in (pending \cup taking) \ {i} : evidence.ingress[j].request # r
    BY <1>1, <1>4, TakenCarries
  <2>2. pending \cup taking' \subseteq (pending \cup taking) \ {i}
    BY <1>2 DEF AdmissionSound
  <2>3. Admitting(r, input)  BY <1>4, <2>1, <2>2 DEF Admitting
  <2> QED  BY <1>2, <2>3, TrackedSound
<1> QED  BY <1>2, <1>3, <1>4

(* A new ingress record that is not used yet keeps the invariant.           *)
LEMMA QueueSound ==
    ASSUME AdmissionSound, NEW x, CanQueue(evidence, CommittedNow, x), Queue(x),
           x.decision = None => x.request # None,
           UNCHANGED <<now, cursor, boundaries, taking, saved>>
    PROVE  AdmissionSound' /\ AttemptsGrow
<1>1. PICK e, f, m, at : /\ e = evidence /\ f = evidence' /\ m = Len(e.ingress)
                         /\ at = CommittedNow
  OBVIOUS
<1>2. f = PushIngress(e, x) /\ pending' = pending \cup {m + 1}  BY <1>1 DEF Queue
<1>3. /\ EvidenceOk(f, at)
      /\ f.commands = e.commands /\ f.attempts = e.attempts
      /\ f.ingress = Append(e.ingress, x)
      /\ f.cut = e.cut /\ f.pinned = e.pinned /\ f.retired = e.retired
  <2>1. CanQueue(e, at, x)  BY <1>1
  <2> QED  BY <2>1, <1>2, QueuedInForm
<1>4. /\ EvidenceOk(e, at) /\ x \in IngressRecord
      /\ x.request # None =>
             AttemptOf(e.attempts, x.request) = 0 /\ CarrierOf(e.ingress, x.request) = 0
  BY <1>1 DEF CanQueue
<1>5. /\ e.ingress \in Seq(IngressRecord) /\ e.attempts \in Seq(Attempt) /\ m \in Nat
      /\ DOMAIN e.ingress = 1 .. m /\ DOMAIN e.attempts = 1 .. Len(e.attempts)
      /\ Len(e.attempts) \in Nat
      /\ e.cut.ingress \in 0 .. m
      /\ JournalsOk(e.commands, e.attempts, e.ingress)
  BY <1>1, <1>4, Fields
<1>6. PICK s, c : s = f.ingress /\ c = e.cut.ingress  OBVIOUS
<1>7. /\ s = Append(e.ingress, x) /\ Len(s) = m + 1 /\ DOMAIN s = 1 .. m + 1
      /\ s[m + 1] = x /\ \A i \in 1 .. m : s[i] = e.ingress[i] /\ i \in 1 .. m + 1
      /\ m + 1 \in 1 .. m + 1 /\ c \in Nat /\ c <= m
  BY <1>1, <1>3, <1>5, <1>6
<1>8. Readable(f) = e.pinned \cup (c + 1 .. m + 1) /\ Readable(e) = e.pinned \cup (c + 1 .. m)
  BY <1>1, <1>3, <1>6, <1>7 DEF Readable, RetainedIngress
<1>9. m + 1 \in Readable(f) /\ \A i \in Readable(e) : i \in Readable(f)
  BY <1>5, <1>7, <1>8
<1>10. \A n \in DOMAIN e.attempts :
           e.attempts[n].request \in Requests /\ e.attempts[n].request # x.request
  <2>1. ASSUME NEW n \in DOMAIN e.attempts
        PROVE  e.attempts[n].request \in Requests /\ e.attempts[n].request # x.request
    <3>1. e.attempts[n] \in Attempt  BY <1>5, <2>1
    <3>2. PICK q : q = e.attempts[n].request  OBVIOUS
    <3>3. q \in Requests /\ q # None  BY <3>1, <3>2, AdmissionAssumption DEF Attempt
    <3>4. AttemptOf(e.attempts, q) = n /\ n # 0  BY <1>5, <2>1, <3>2, <3>3, Lookups
    <3>5. q # x.request  BY <1>4, <3>3, <3>4
    <3> QED  BY <3>2, <3>3, <3>5
  <2> QED  BY <2>1
<1>11. \A n \in DOMAIN e.attempts :
           CarrierOf(s, e.attempts[n].request) = CarrierOf(e.ingress, e.attempts[n].request)
  BY <1>4, <1>5, <1>7, <1>10, CarrierPushed
<1>12. \A i \in pending \cup taking : Waiting(i, e) /\ i \in 1 .. m
  BY <1>1, <1>5 DEF AdmissionSound, Waiting
<1>13. m + 1 \notin taking
  <2>1. \A i \in 1 .. m : i # m + 1  BY <1>5
  <2> QED  BY <2>1, <1>12
<1>14. \A i \in pending \cup taking : Waiting(i, f)
  <2>1. ASSUME NEW i \in pending \cup taking PROVE Waiting(i, f)
    <3>1. Waiting(i, e) /\ i \in 1 .. m  BY <1>12
    <3>2. i \in DOMAIN s /\ s[i] = e.ingress[i]  BY <3>1, <1>7
    <3> QED  BY <3>1, <3>2, <1>3, <1>6, <1>9 DEF Waiting
  <2> QED  BY <2>1
<1>15. Waiting(m + 1, f)  BY <1>3, <1>4, <1>6, <1>7, <1>9 DEF Waiting
<1>16. Carrying(s)
  <2>1. ASSUME NEW i \in DOMAIN s, s[i].decision = None PROVE s[i].request # None
    <3>1. CASE i = m + 1  BY <2>1, <3>1, <1>7
    <3>2. CASE i # m + 1
      <4>1. i \in 1 .. m  BY <3>2, <2>1, <1>5, <1>7
      <4>2. Carrying(e.ingress)  BY <1>1 DEF AdmissionSound
      <4>3. e.ingress[i].decision = None => e.ingress[i].request # None
        BY <4>1, <4>2, <1>5 DEF Carrying
      <4> QED  BY <4>1, <4>3, <2>1, <1>7
    <3> QED  BY <3>1, <3>2
  <2> QED  BY <2>1 DEF Carrying
<1>17. ASSUME saved.open PROVE SavedOk(evidence)'
  <2>1. SavedOk(e)  BY <1>1, <1>17 DEF AdmissionSound
  <2>2. PICK L : L = saved.lengths  OBVIOUS
  <2>3. /\ saved.now <= now /\ saved.pinned = e.pinned
        /\ L.commands <= Len(e.commands) /\ L.attempts <= Len(e.attempts)
        /\ L.ingress <= m /\ cursor.commands <= L.commands /\ cursor.attempts <= L.attempts
        /\ e.cut.ingress <= L.ingress /\ Aligned(e.attempts, L)
        /\ \A n \in 1 .. L.attempts : e.attempts[n].at <= saved.now
        /\ taking \subseteq 1 .. L.ingress /\ boundaries < MaxBoundaries
    BY <2>1, <2>2, <1>1 DEF SavedOk
  <2>4. e.ingress # <<>> =>
            \A n \in DOMAIN e.attempts :
                CarrierOf(e.ingress, e.attempts[n].request) \in 1 .. L.ingress
    BY <2>1, <2>2 DEF SavedOk
  <2>5. \A i \in saved.pending :
            /\ i \in 1 .. L.ingress /\ i \in Readable(e)
            /\ e.ingress[i].request # None =>
                   \/ AttemptOf(e.attempts, e.ingress[i].request) = 0
                   \/ AttemptOf(e.attempts, e.ingress[i].request) > L.attempts
    BY <2>1, <2>2 DEF SavedOk
  <2>6. L.ingress \in Nat
    <3>1. saved \in SavedType  BY DEF AdmissionSound
    <3>2. L \in LengthType  BY <3>1, <2>2 DEF SavedType
    <3> QED  BY <3>2 DEF LengthType
  <2>7. L.ingress <= Len(s)
    <3>1. PICK k : k = L.ingress  OBVIOUS
    <3>2. k <= m + 1  BY <3>1, <2>3, <2>6, <1>5
    <3> QED  BY <3>1, <3>2, <1>7
  <2>8. \A n \in DOMAIN e.attempts : CarrierOf(s, e.attempts[n].request) \in 1 .. L.ingress
    <3>1. e.ingress = <<>> => e.attempts = <<>>  BY <1>1, QueueFresh
    <3>2. e.ingress = <<>> => DOMAIN e.attempts = {}  BY <3>1
    <3> QED  BY <3>2, <2>4, <1>11
  <2>9. \A i \in saved.pending :
            /\ i \in 1 .. L.ingress /\ i \in Readable(f)
            /\ s[i].request # None =>
                   \/ AttemptOf(e.attempts, s[i].request) = 0
                   \/ AttemptOf(e.attempts, s[i].request) > L.attempts
    <3>1. ASSUME NEW i \in 1 .. L.ingress PROVE s[i] = e.ingress[i]
      <4>1. PICK k : k = L.ingress  OBVIOUS
      <4>2. i \in 1 .. m  BY <4>1, <3>1, <2>3, <2>6, <1>5
      <4> QED  BY <4>2, <1>7
    <3> QED  BY <3>1, <2>5, <1>9
  <2> QED  BY <2>2, <2>3, <2>7, <2>8, <2>9, <1>1, <1>3, <1>6 DEF SavedOk
<1>18. /\ CommittedNow' = CommittedNow
       /\ now' = now /\ boundaries' = boundaries /\ cursor' = cursor /\ taking' = taking
       /\ saved' = saved
  BY DEF CommittedNow
<1>19. pending' \cap taking' = {}  BY <1>2, <1>13, <1>18 DEF AdmissionSound
<1>20. \A i \in pending' \cup taking' : Waiting(i, evidence)'
  <2>1. \A i \in pending' \cup taking' : Waiting(i, f)  BY <1>2, <1>14, <1>15, <1>18
  <2> QED  BY <2>1, <1>1 DEF Waiting, Readable, RetainedIngress
<1>21. Carrying(evidence'.ingress)  BY <1>1, <1>6, <1>16
<1>22. /\ f.cut.commands <= cursor.commands /\ f.cut.attempts <= cursor.attempts
       /\ cursor.commands <= Len(f.commands) /\ cursor.attempts <= Len(f.attempts)
       /\ Aligned(f.attempts, cursor)
       /\ \A n \in DOMAIN f.attempts : f.attempts[n].at <= now
  BY <1>1, <1>3 DEF AdmissionSound
<1>23. EvidenceOk(evidence', CommittedNow')  BY <1>1, <1>3, <1>18
<1>24. AttemptsGrow  BY <1>1, <1>3 DEF AttemptsGrow
<1> QED
  BY <1>1, <1>17, <1>18, <1>19, <1>20, <1>21, <1>22, <1>23, <1>24 DEF AdmissionSound

(* The contents the host and the systems queue.                             *)
LEMMA ContentKnown ==
    ASSUME NEW d \in DecisionIds \cup {None}, NEW r \in Requests \cup {None},
           NEW input \in Inputs, NEW due \in Times
    PROVE  LET x == Content(d, r, input, due) IN
           /\ x \in IngressRecord /\ x.decision = d /\ x.request = r
<1>1. due \in Nat  BY AdmissionAssumption DEF Times
<1> QED  BY <1>1 DEF Content, IngressRecord

(* A request that is not used by the journals.                              *)
LEMMA NotUsed ==
    ASSUME NEW attempts, NEW ingress, NEW r, ~Used(attempts, ingress, r)
    PROVE  AttemptOf(attempts, r) = 0 /\ CarrierOf(ingress, r) = 0
BY DEF Used

(* Answers other than New.                                                  *)
LEMMA NotNew ==
    /\ IsRetired # New /\ Conflict # New
    /\ \A ingress, i, content : RecordReply(ingress, i, content) # New
BY DEF IsRetired, Conflict, New, Reply, RecordReply

(* enqueue_command keeps the invariant.                                     *)
LEMMA EnqueueCommandSound ==
    ASSUME AdmissionSound, NEW r \in Requests, NEW input \in Inputs, NEW due \in Times,
           EnqueueCommand(r, input, due)
    PROVE  AdmissionSound' /\ AttemptsGrow
<1>1. PICK x, e : x = Content(None, r, input, due) /\ e = evidence  OBVIOUS
<1>2. /\ ~HasUnqueuedHistory(e) /\ EnqueueAnswer(e, now, x) = New /\ Queue(x)
      /\ UNCHANGED <<now, cursor, boundaries, taking, saved>>
  BY <1>1 DEF EnqueueCommand
<1>3. EvidenceOk(e, CommittedNow) /\ CommittedNow \in Int /\ now \in Int /\ CommittedNow <= now
  BY <1>1, SoundTimes
<1>4. x \in IngressRecord /\ x.decision = None /\ x.request = r /\ r # None
  <2>1. r # None  BY AdmissionAssumption
  <2> QED  BY <2>1, <1>1, ContentKnown
<1>5. EnqueueReply(e.attempts, e.ingress, now, x) = New
  BY <1>2, <1>3, <1>4, EnqueueAnswered
<1>6. AttemptOf(e.attempts, r) = 0 /\ CarrierOf(e.ingress, r) = 0
  <2>1. ~Used(e.attempts, e.ingress, r)  BY <1>4, <1>5, NotNew DEF EnqueueReply
  <2> QED  BY <2>1, NotUsed
<1>7. CanQueue(evidence, CommittedNow, x)  BY <1>1, <1>2, <1>3, <1>4, <1>6 DEF CanQueue
<1> QED  BY <1>2, <1>4, <1>7, QueueSound

(* enqueue_decision keeps the invariant.                                    *)
LEMMA EnqueueDecisionSound ==
    ASSUME AdmissionSound, NEW d \in DecisionIds, NEW r \in Requests \cup {None},
           NEW input \in Inputs, NEW due \in Times, EnqueueDecision(d, r, input, due)
    PROVE  AdmissionSound' /\ AttemptsGrow
<1>1. PICK x, e : x = Content(d, r, input, due) /\ e = evidence  OBVIOUS
<1>2. /\ ~HasUnqueuedHistory(e) /\ DecisionAnswer(e, now, x) = New /\ Queue(x)
      /\ UNCHANGED <<now, cursor, boundaries, taking, saved>>
  BY <1>1 DEF EnqueueDecision
<1>3. EvidenceOk(e, CommittedNow) /\ CommittedNow \in Int /\ now \in Int /\ CommittedNow <= now
  BY <1>1, SoundTimes
<1>4. x \in IngressRecord /\ x.decision = d /\ x.request = r /\ d # None
  <2>1. d # None  BY AdmissionAssumption
  <2> QED  BY <2>1, <1>1, ContentKnown
<1>5. DecisionReply(e.attempts, e.ingress, now, x) = New
  BY <1>2, <1>3, <1>4, DecisionAnswered
<1>6. DeciderOf(e.ingress, d) = 0  BY <1>4, <1>5, NotNew DEF DecisionReply
<1>7. NestedReply(e.attempts, e.ingress, now, r) = New  BY <1>4, <1>5, <1>6 DEF DecisionReply
<1>8. r # None => AttemptOf(e.attempts, r) = 0 /\ CarrierOf(e.ingress, r) = 0
  <2>1. r # None => ~Used(e.attempts, e.ingress, r)  BY <1>7, NotNew DEF NestedReply
  <2> QED  BY <2>1, NotUsed
<1>9. CanQueue(evidence, CommittedNow, x)
  BY <1>1, <1>2, <1>3, <1>4, <1>6, <1>8 DEF CanQueue
<1> QED  BY <1>2, <1>4, <1>9, QueueSound

(* append_boundary_decision_ingress keeps the invariant.                    *)
LEMMA SystemDecidesSound ==
    ASSUME AdmissionSound, NEW d \in DecisionIds, NEW r \in Requests \cup {None},
           NEW input \in Inputs, NEW due \in Times, SystemDecides(d, r, input, due)
    PROVE  AdmissionSound' /\ AttemptsGrow
<1>1. PICK x, e : x = Content(d, r, input, due) /\ e = evidence  OBVIOUS
<1>2. /\ ~HasUnqueuedHistory(e) /\ e.decisions[d] = 0
      /\ {j \in Readable(e) : e.ingress[j].decision = d} = {}
      /\ r # None => ~InUse(e, r)
      /\ Queue(x) /\ UNCHANGED <<now, cursor, boundaries, taking, saved>>
  BY <1>1 DEF SystemDecides
<1>3. EvidenceOk(e, CommittedNow)  BY <1>1, SoundTimes
<1>4. x \in IngressRecord /\ x.decision = d /\ x.request = r /\ d # None
  <2>1. d # None  BY AdmissionAssumption
  <2> QED  BY <2>1, <1>1, ContentKnown
<1>5. DeciderOf(e.ingress, d) = 0
  <2>1. PICK i : i = DeciderOf(e.ingress, d)  OBVIOUS
  <2>2. i # 0 => {j \in Readable(e) : e.ingress[j].decision = d} = {i}
    BY <2>1, <1>2, <1>3, DecisionKnown
  <2> QED  BY <2>1, <2>2, <1>2
<1>6. r # None => AttemptOf(e.attempts, r) = 0 /\ CarrierOf(e.ingress, r) = 0
  <2>1. r # None => ~Used(e.attempts, e.ingress, r)  BY <1>2, <1>3, InUseByJournals
  <2> QED  BY <2>1, NotUsed
<1>7. CanQueue(evidence, CommittedNow, x)  BY <1>1, <1>2, <1>3, <1>4, <1>5, <1>6 DEF CanQueue
<1> QED  BY <1>2, <1>4, <1>7, QueueSound

\* Between boundaries: the journals stay, but for a direct command, and what is
\* pending stays readable.
Rests ==
    /\ ~saved.open /\ now' \in Times /\ now <= now'
    /\ EvidenceOk(evidence', now')
    /\ evidence'.attempts = evidence.attempts /\ evidence'.ingress = evidence.ingress
    /\ Len(evidence.commands) <= Len(evidence'.commands)
    /\ evidence'.cut.commands <= cursor.commands
    /\ evidence'.cut.attempts <= cursor.attempts
    /\ \A i \in pending : i \in Readable(evidence')
    /\ UNCHANGED <<cursor, boundaries, pending, taking, saved>>

(* A step between boundaries keeps the invariant.                           *)
LEMMA RestSound ==
    ASSUME AdmissionSound, Rests
    PROVE  AdmissionSound' /\ AttemptsGrow
<1>1. PICK e, f : e = evidence /\ f = evidence'  OBVIOUS
<1>2. /\ ~saved.open /\ now' \in Times /\ now <= now'
      /\ EvidenceOk(f, now')
      /\ f.attempts = e.attempts /\ f.ingress = e.ingress
      /\ Len(e.commands) <= Len(f.commands)
      /\ f.cut.commands <= cursor.commands /\ f.cut.attempts <= cursor.attempts
      /\ \A i \in pending : i \in Readable(f)
      /\ cursor' = cursor /\ boundaries' = boundaries /\ pending' = pending
      /\ taking' = taking /\ saved' = saved
  BY <1>1 DEF Rests
<1>3. /\ EvidenceOk(e, CommittedNow) /\ now \in Int  BY <1>1, SoundTimes
<1>4. now' \in Int
  <2>1. Times \subseteq Int  BY AdmissionAssumption DEF Times
  <2> QED  BY <2>1, <1>2
<1>5. taking = {}  BY <1>2 DEF AdmissionSound
<1>6. ~saved'.open /\ CommittedNow' = now'  BY <1>2 DEF CommittedNow
<1>7. /\ cursor \in [commands : Nat, attempts : Nat]
      /\ cursor.commands <= Len(e.commands) /\ cursor.attempts <= Len(e.attempts)
      /\ Aligned(e.attempts, cursor)
      /\ \A n \in DOMAIN e.attempts : e.attempts[n].at <= now
      /\ Carrying(e.ingress)
  BY <1>1 DEF AdmissionSound
<1>8. cursor.commands <= Len(f.commands)
  <2>1. Len(e.commands) \in Nat /\ Len(f.commands) \in Nat  BY <1>2, <1>3, Fields
  <2>2. cursor.commands \in Nat  BY <1>7
  <2>3. PICK c, k, l : c = cursor.commands /\ k = Len(e.commands) /\ l = Len(f.commands)
    OBVIOUS
  <2> QED  BY <2>1, <2>2, <2>3, <1>2, <1>7
<1>9. \A n \in DOMAIN f.attempts : f.attempts[n].at <= now'
  <2>1. ASSUME NEW n \in DOMAIN e.attempts PROVE e.attempts[n].at <= now'
    <3>1. e.attempts \in Seq(Attempt)  BY <1>3, Fields
    <3>2. e.attempts[n] \in Attempt  BY <2>1, <3>1
    <3>3. PICK t : t = e.attempts[n].at  OBVIOUS
    <3>4. t \in Nat  BY <3>2, <3>3 DEF Attempt
    <3>5. t <= now  BY <2>1, <3>3, <1>7
    <3> QED  BY <3>3, <3>4, <3>5, <1>2, <1>3, <1>4
  <2> QED  BY <2>1, <1>2
<1>10. \A i \in pending : Waiting(i, f)
  <2>1. \A i \in pending : Waiting(i, e)  BY <1>1 DEF AdmissionSound
  <2> QED  BY <2>1, <1>2 DEF Waiting
<1>11. \A i \in pending' \cup taking' : Waiting(i, evidence)'
  <2>1. \A i \in pending' \cup taking' : Waiting(i, f)  BY <1>2, <1>5, <1>10
  <2> QED  BY <2>1, <1>1 DEF Waiting, Readable, RetainedIngress
<1>12. /\ boundaries \in 0 .. MaxBoundaries /\ saved \in SavedType /\ saved.now \in Times
       /\ pending \cap taking = {}
  BY DEF AdmissionSound
<1>13. EvidenceOk(evidence', CommittedNow') /\ Carrying(evidence'.ingress)
  BY <1>1, <1>2, <1>6, <1>7
<1>14. AttemptsGrow  BY <1>1, <1>2 DEF AttemptsGrow
<1> QED
  BY <1>1, <1>2, <1>5, <1>6, <1>7, <1>8, <1>9, <1>11, <1>12, <1>13, <1>14
     DEF AdmissionSound

(* The time, the cut and the queue of a run between boundaries.             *)
LEMMA RestFields ==
    ASSUME AdmissionSound, ~saved.open
    PROVE  /\ now \in Times /\ now \in Int /\ now <= now /\ EvidenceOk(evidence, now)
           /\ cursor.commands \in Nat /\ cursor.attempts \in Nat
           /\ evidence.cut.commands <= cursor.commands
           /\ evidence.cut.attempts <= cursor.attempts
           /\ \A i \in pending : i \in Readable(evidence) /\ i \in DOMAIN evidence.ingress
           /\ Len(evidence.commands) \in Nat
<1>1. EvidenceOk(evidence, now) /\ now \in Int  BY SoundTimes
<1>2. Len(evidence.commands) \in Nat  BY <1>1, Fields
<1>3. /\ now \in Times
      /\ cursor \in [commands : Nat, attempts : Nat]
      /\ evidence.cut.commands <= cursor.commands
      /\ evidence.cut.attempts <= cursor.attempts
      /\ \A i \in pending : Waiting(i, evidence)
  BY DEF AdmissionSound
<1> QED  BY <1>1, <1>2, <1>3 DEF Waiting

(* submit keeps the invariant.                                              *)
LEMMA SubmitSound ==
    ASSUME AdmissionSound, Submit
    PROVE  AdmissionSound' /\ AttemptsGrow
<1>1. /\ ~saved.open /\ ~HasTracked(evidence)
      /\ evidence' = PushCommand(evidence, Direct)
      /\ UNCHANGED <<now, cursor, boundaries, pending, taking, saved>>
  BY DEF Submit
<1>2. /\ now \in Times /\ now \in Int /\ now <= now /\ EvidenceOk(evidence, now)
      /\ evidence.cut.commands <= cursor.commands
      /\ evidence.cut.attempts <= cursor.attempts
      /\ \A i \in pending : i \in Readable(evidence)
      /\ Len(evidence.commands) \in Nat
  BY <1>1, RestFields
<1>3. PICK e, f : e = evidence /\ f = evidence'  OBVIOUS
<1>4. /\ EvidenceOk(f, now)
      /\ f.commands = Append(e.commands, 0) /\ f.attempts = e.attempts
      /\ f.ingress = e.ingress /\ f.cut = e.cut /\ f.pinned = e.pinned
  BY <1>1, <1>2, <1>3, SubmittedInForm
<1>5. Len(e.commands) <= Len(f.commands)
  <2>1. e.commands \in Seq(Nat)  BY <1>2, <1>3, Fields
  <2>2. Len(f.commands) = Len(e.commands) + 1  BY <2>1, <1>4
  <2> QED  BY <2>2, <1>2, <1>3
<1>6. Readable(f) = Readable(e)  BY <1>4 DEF Readable, RetainedIngress
<1>7. Rests  BY <1>1, <1>2, <1>3, <1>4, <1>5, <1>6 DEF Rests
<1> QED  BY <1>7, RestSound

(* advance keeps the invariant.                                             *)
LEMMA AdvanceSound ==
    ASSUME AdmissionSound, NEW target \in Times, Advance(target)
    PROVE  AdmissionSound' /\ AttemptsGrow
<1>1. /\ ~saved.open /\ target > now /\ now' = target
      /\ UNCHANGED <<evidence, cursor, boundaries, pending, taking, saved>>
  BY DEF Advance
<1>2. /\ now \in Int /\ EvidenceOk(evidence, now)
      /\ evidence.cut.commands <= cursor.commands
      /\ evidence.cut.attempts <= cursor.attempts
      /\ \A i \in pending : i \in Readable(evidence)
      /\ Len(evidence.commands) \in Nat
  BY <1>1, RestFields
<1>3. target \in Int  BY AdmissionAssumption DEF Times
<1>4. now <= target  BY <1>1, <1>2, <1>3
<1>5. EvidenceOk(evidence, target)  BY <1>2, <1>3, <1>4, LaterInForm
<1>6. Len(evidence.commands) <= Len(evidence.commands)  BY <1>2
<1>7. EvidenceOk(evidence', now') /\ now' \in Times /\ now <= now'  BY <1>1, <1>4, <1>5
<1>8. \A i \in pending : i \in Readable(evidence')
  BY <1>1, <1>2 DEF Readable, RetainedIngress
<1>9. Rests  BY <1>1, <1>2, <1>6, <1>7, <1>8 DEF Rests
<1> QED  BY <1>9, RestSound

(* A history cut where the settled boundaries end keeps the invariant.      *)
LEMMA CutSound ==
    ASSUME AdmissionSound, ~saved.open, NEW f, evidence' = f, EvidenceOk(f, now),
           f.commands = evidence.commands, f.attempts = evidence.attempts,
           f.ingress = evidence.ingress, f.cut = SettledCut, f.pinned = pending,
           UNCHANGED <<now, cursor, boundaries, pending, taking, saved>>
    PROVE  AdmissionSound' /\ AttemptsGrow
<1>1. /\ now \in Times /\ now <= now
      /\ cursor.commands \in Nat /\ cursor.attempts \in Nat
      /\ Len(evidence.commands) \in Nat
  BY RestFields
<1>2. f.cut.commands = cursor.commands /\ f.cut.attempts = cursor.attempts  BY DEF SettledCut
<1>3. f.cut.commands <= cursor.commands /\ f.cut.attempts <= cursor.attempts  BY <1>1, <1>2
<1>4. \A i \in pending : i \in Readable(f)  BY DEF Readable
<1>5. Len(evidence.commands) <= Len(evidence.commands)  BY <1>1
<1>6. Rests  BY <1>1, <1>3, <1>4, <1>5 DEF Rests
<1> QED  BY <1>6, RestSound

(* Seals and continuations keep the invariant.                              *)
LEMMA SealSound ==
    ASSUME AdmissionSound, Seal \/ Continue
    PROVE  AdmissionSound' /\ AttemptsGrow
<1>1. PICK e, f : e = evidence /\ f = evidence'  OBVIOUS
<1>2. /\ ~saved.open
      /\ f = SealedOf(e) \/ f = ContinuedOf(e)
      /\ UNCHANGED <<now, cursor, boundaries, pending, taking, saved>>
  BY <1>1 DEF Seal, Continue
<1>3. Sealable(e)  BY <1>1, <1>2, SoundSealable
<1>4. f = ContinuedOf(e)  BY <1>2, <1>3, SealsAlike
<1>5. /\ EvidenceOk(f, now)
      /\ f.commands = e.commands /\ f.attempts = e.attempts /\ f.ingress = e.ingress
      /\ f.cut = SettledCut /\ f.pinned = pending
  BY <1>3, <1>4, ContinuedInForm
<1>6. /\ f.commands = evidence.commands /\ f.attempts = evidence.attempts
      /\ f.ingress = evidence.ingress
  BY <1>1, <1>5
<1> QED  BY <1>1, <1>2, <1>5, <1>6, CutSound

(* A save with all its segments keeps the invariant.                        *)
LEMMA ReloadSound ==
    ASSUME AdmissionSound, Reload
    PROVE  AdmissionSound' /\ AttemptsGrow
<1>1. PICK e, f : e = evidence /\ f = evidence'  OBVIOUS
<1>2. /\ ~saved.open /\ f = Unsealed(e)
      /\ UNCHANGED <<now, cursor, boundaries, pending, taking, saved>>
  BY <1>1 DEF Reload
<1>3. /\ now \in Times /\ now <= now /\ EvidenceOk(e, now)
      /\ cursor.commands \in Nat /\ cursor.attempts \in Nat
      /\ \A i \in pending : i \in DOMAIN e.ingress
      /\ Len(e.commands) \in Nat
  BY <1>1, <1>2, RestFields
<1>4. /\ EvidenceOk(f, now)
      /\ f.commands = e.commands /\ f.attempts = e.attempts /\ f.ingress = e.ingress
      /\ f.cut = NoCut
  BY <1>2, <1>3, UnsealedInForm
<1>5. /\ f.cut.commands <= cursor.commands /\ f.cut.attempts <= cursor.attempts
      /\ f.cut.ingress = 0
  BY <1>3, <1>4 DEF NoCut
<1>6. \A i \in pending : i \in Readable(f)
  <2>1. DOMAIN f.ingress = 1 .. Len(f.ingress)  BY <1>4, Fields
  <2>2. RetainedIngress(f) = DOMAIN f.ingress
    <3>1. RetainedIngress(f) = 0 + 1 .. Len(f.ingress)  BY <1>5 DEF RetainedIngress
    <3> QED  BY <3>1, <2>1
  <2> QED  BY <2>2, <1>3, <1>4 DEF Readable
<1>7. Len(e.commands) <= Len(f.commands)  BY <1>3, <1>4
<1>8. Rests  BY <1>1, <1>2, <1>3, <1>4, <1>5, <1>6, <1>7 DEF Rests
<1> QED  BY <1>8, RestSound

(* settle_boundary begins: what it may go back to is the history now.       *)
LEMMA BeginSound ==
    ASSUME AdmissionSound, NEW at \in Times, BeginBoundary(at)
    PROVE  AdmissionSound'
<1>1. PICK e, L : e = evidence /\ L = Lengths(e)  OBVIOUS
<1>2. /\ ~saved.open /\ boundaries < MaxBoundaries /\ at >= now
      /\ saved' = [open |-> TRUE, now |-> now, pending |-> pending,
                   pinned |-> e.pinned, lengths |-> L]
      /\ now' = at /\ taking' \subseteq pending /\ pending' = pending \ taking'
      /\ evidence' = e /\ cursor' = cursor /\ boundaries' = boundaries
  BY <1>1 DEF BeginBoundary
<1>3. /\ saved'.open /\ saved'.now = now /\ saved'.pending = pending
      /\ saved'.pinned = e.pinned /\ saved'.lengths = L
  BY <1>2
<1>4. /\ now \in Times /\ now \in Int /\ EvidenceOk(e, now)
      /\ \A i \in pending : i \in Readable(e) /\ i \in DOMAIN e.ingress
  BY <1>1, <1>2, RestFields
<1>5. /\ e.attempts \in Seq(Attempt)
      /\ Len(e.commands) \in Nat /\ Len(e.attempts) \in Nat /\ Len(e.ingress) \in Nat
      /\ DOMAIN e.ingress = 1 .. Len(e.ingress)
      /\ DOMAIN e.attempts = 1 .. Len(e.attempts)
      /\ e.cut.ingress \in 0 .. Len(e.ingress)
      /\ e.pinned \in SUBSET (1 .. e.cut.ingress)
  BY <1>4, Fields
<1>6. at \in Int /\ now <= at
  <2>1. at \in Int  BY AdmissionAssumption DEF Times
  <2> QED  BY <2>1, <1>2, <1>4
<1>7. L.commands = Len(e.commands) /\ L.attempts = Len(e.attempts) /\ L.ingress = Len(e.ingress)
  BY <1>1 DEF Lengths
<1>8. /\ L \in LengthType /\ Aligned(e.attempts, L)
      /\ e.ingress # <<>> =>
             \A n \in DOMAIN e.attempts :
                 CarrierOf(e.ingress, e.attempts[n].request) \in 1 .. L.ingress
  BY <1>1, <1>4, <1>7, LengthsAligned
<1>9. /\ cursor \in [commands : Nat, attempts : Nat]
      /\ e.cut.commands <= cursor.commands /\ e.cut.attempts <= cursor.attempts
      /\ cursor.commands <= Len(e.commands) /\ cursor.attempts <= Len(e.attempts)
      /\ Aligned(e.attempts, cursor)
      /\ \A n \in DOMAIN e.attempts : e.attempts[n].at <= now
      /\ Carrying(e.ingress)
      /\ \A i \in pending : Waiting(i, e)
      /\ boundaries \in 0 .. MaxBoundaries
  BY <1>1 DEF AdmissionSound
<1>10. saved' \in SavedType
  <2>1. pending \subseteq Nat  BY <1>4, <1>5
  <2>2. e.pinned \subseteq Nat
    <3>1. e.cut.ingress \in Nat  BY <1>5
    <3> QED  BY <3>1, <1>5
  <2>3. now \in Nat  BY <1>4, AdmissionAssumption DEF Times
  <2> QED  BY <2>1, <2>2, <2>3, <1>2, <1>8 DEF SavedType
<1>11. \A n \in DOMAIN e.attempts : e.attempts[n].at <= at
  <2>1. ASSUME NEW n \in DOMAIN e.attempts PROVE e.attempts[n].at <= at
    <3>1. e.attempts[n] \in Attempt  BY <1>5, <2>1
    <3>2. PICK t : t = e.attempts[n].at  OBVIOUS
    <3>3. t \in Nat  BY <3>1, <3>2 DEF Attempt
    <3>4. t <= now  BY <2>1, <3>2, <1>9
    <3> QED  BY <3>2, <3>3, <3>4, <1>4, <1>6
  <2> QED  BY <2>1
<1>12. taking' \subseteq 1 .. L.ingress  BY <1>2, <1>4, <1>5, <1>7
<1>13. SavedOk(evidence)'
  <2>1. now <= at /\ L.commands <= Len(e.commands) /\ L.attempts <= Len(e.attempts)
        /\ L.ingress <= Len(e.ingress)
    BY <1>5, <1>6, <1>7
  <2>2. e.cut.ingress <= L.ingress  BY <1>5, <1>7
  <2>3. \A n \in 1 .. L.attempts : e.attempts[n].at <= now  BY <1>5, <1>7, <1>9
  <2>4. \A i \in pending :
           /\ i \in 1 .. L.ingress /\ i \in Readable(e)
           /\ e.ingress[i].request # None => AttemptOf(e.attempts, e.ingress[i].request) = 0
    BY <1>4, <1>5, <1>7, <1>9 DEF Waiting
  <2>5. cursor.commands <= L.commands /\ cursor.attempts <= L.attempts  BY <1>7, <1>9
  <2> QED
    BY <2>1, <2>2, <2>3, <2>4, <2>5, <1>2, <1>3, <1>8, <1>12
       DEF SavedOk, Readable, RetainedIngress
<1>14. CommittedNow' = now  BY <1>3 DEF CommittedNow
<1>15. \A i \in pending' \cup taking' : Waiting(i, evidence)'
  <2>1. \A i \in pending' \cup taking' : Waiting(i, e)  BY <1>2, <1>9
  <2> QED  BY <2>1, <1>2 DEF Waiting, Readable, RetainedIngress
<1>16. EvidenceOk(evidence', CommittedNow')  BY <1>2, <1>4, <1>14
<1>17. pending' \cap taking' = {}  BY <1>2
<1>18. at <= at  BY <1>6
<1> QED
  BY <1>2, <1>3, <1>4, <1>9, <1>10, <1>11, <1>13, <1>15, <1>16, <1>17 DEF AdmissionSound

(* A committed boundary settles all journals there are.                     *)
LEMMA CommitSound ==
    ASSUME AdmissionSound, Commit
    PROVE  AdmissionSound'
<1>1. PICK e : e = evidence  OBVIOUS
<1>2. /\ saved.open /\ taking = {}
      /\ cursor' = [commands |-> Len(e.commands), attempts |-> Len(e.attempts)]
      /\ boundaries' = boundaries + 1 /\ saved' = NoBoundary
      /\ now' = now /\ evidence' = e /\ pending' = pending /\ taking' = taking
  BY <1>1 DEF Commit
<1>3. /\ ~saved'.open /\ saved' \in SavedType /\ saved'.now = 0
  BY <1>2 DEF NoBoundary, SavedType, LengthType
<1>4. CommittedNow' = now  BY <1>2, <1>3 DEF CommittedNow
<1>5. /\ now \in Int /\ CommittedNow \in Int /\ CommittedNow <= now
      /\ EvidenceOk(e, CommittedNow)
  BY <1>1, SoundTimes
<1>6. EvidenceOk(e, now)  BY <1>5, LaterInForm
<1>7. /\ Len(e.commands) \in Nat /\ Len(e.attempts) \in Nat
      /\ e.cut.commands \in 0 .. Len(e.commands)
      /\ e.cut.attempts \in 0 .. Len(e.attempts)
  BY <1>6, Fields
<1>8. Aligned(e.attempts, cursor')  BY <1>2, <1>6, LengthsAligned
<1>9. boundaries' \in 0 .. MaxBoundaries
  <2>1. boundaries < MaxBoundaries /\ boundaries \in 0 .. MaxBoundaries
    BY <1>2 DEF AdmissionSound, SavedOk
  <2> QED  BY <2>1, <1>2, AdmissionAssumption
<1>10. /\ cursor' \in [commands : Nat, attempts : Nat]
       /\ cursor'.commands = Len(e.commands) /\ cursor'.attempts = Len(e.attempts)
  BY <1>2, <1>7
<1>11. /\ e.cut.commands <= cursor'.commands /\ e.cut.attempts <= cursor'.attempts
       /\ cursor'.commands <= Len(e.commands) /\ cursor'.attempts <= Len(e.attempts)
  BY <1>7, <1>10
<1>12. 0 \in Times  BY AdmissionAssumption DEF Times
<1>13. \A i \in pending' \cup taking' : Waiting(i, evidence)'
  <2>1. \A i \in pending' \cup taking' : Waiting(i, e)  BY <1>1, <1>2 DEF AdmissionSound
  <2> QED  BY <2>1, <1>2 DEF Waiting, Readable, RetainedIngress
<1>14. /\ now \in Times /\ Carrying(e.ingress) /\ pending \cap taking = {}
       /\ \A n \in DOMAIN e.attempts : e.attempts[n].at <= now
  BY <1>1 DEF AdmissionSound
<1> QED
  BY <1>2, <1>3, <1>4, <1>6, <1>8, <1>9, <1>10, <1>11, <1>12, <1>13, <1>14
     DEF AdmissionSound

(* An open boundary may be rolled back.                                     *)
LEMMA SoundTruncates ==
    ASSUME AdmissionSound, saved.open
    PROVE  CanTruncate(evidence, saved.lengths, saved.now) /\ saved.pinned = evidence.pinned
<1>1. PICK e, L, s : e = evidence /\ L = saved.lengths /\ s = saved  OBVIOUS
<1>2. EvidenceOk(e, s.now)  BY <1>1, SoundTimes DEF CommittedNow
<1>3. L \in LengthType
  <2>1. s \in SavedType  BY <1>1 DEF AdmissionSound
  <2> QED  BY <2>1, <1>1 DEF SavedType
<1>4. SavedOk(e)  BY <1>1 DEF AdmissionSound
<1>5. /\ s.pinned = e.pinned
      /\ L.commands <= Len(e.commands) /\ L.attempts <= Len(e.attempts)
      /\ L.ingress <= Len(e.ingress) /\ e.cut.ingress <= L.ingress
      /\ cursor.commands <= L.commands /\ cursor.attempts <= L.attempts
      /\ Aligned(e.attempts, L)
      /\ e.ingress # <<>> =>
             \A n \in DOMAIN e.attempts :
                 CarrierOf(e.ingress, e.attempts[n].request) \in 1 .. L.ingress
  BY <1>1, <1>4 DEF SavedOk
<1>6. /\ cursor.commands \in Nat /\ cursor.attempts \in Nat
      /\ e.cut.commands <= cursor.commands /\ e.cut.attempts <= cursor.attempts
  BY <1>1 DEF AdmissionSound
<1>7. L.commands \in Nat /\ L.attempts \in Nat  BY <1>3 DEF LengthType
<1>8. e.cut.commands \in Nat /\ e.cut.attempts \in Nat
  <2>1. e.cut \in CutType  BY <1>2, Fields
  <2> QED  BY <2>1 DEF CutType
<1>9. e.cut.commands <= L.commands /\ e.cut.attempts <= L.attempts
  <2>1. PICK a, b, c : a = e.cut.commands /\ b = cursor.commands /\ c = L.commands  OBVIOUS
  <2>2. PICK x, y, z : x = e.cut.attempts /\ y = cursor.attempts /\ z = L.attempts  OBVIOUS
  <2>3. a <= c  BY <2>1, <1>5, <1>6, <1>7, <1>8
  <2>4. x <= z  BY <2>2, <1>5, <1>6, <1>7, <1>8
  <2> QED  BY <2>1, <2>2, <2>3, <2>4
<1> QED  BY <1>1, <1>2, <1>3, <1>5, <1>9 DEF CanTruncate

(* What a failed boundary restores is the truncated history: what is pinned *)
(* was pinned when it began.                                                *)
LEMMA FailRestores ==
    ASSUME AdmissionSound, FailBoundary
    PROVE  evidence' = Truncate(evidence, saved.lengths)
<1>1. PICK f, s : f = Truncate(evidence, saved.lengths) /\ s = saved  OBVIOUS
<1>2. s.open /\ evidence' = [f EXCEPT !.pinned = s.pinned]  BY <1>1 DEF FailBoundary
<1>3. CanTruncate(evidence, saved.lengths, s.now) /\ s.pinned = evidence.pinned
  BY <1>1, <1>2, SoundTruncates
<1>4. EvidenceOk(f, s.now) /\ f.pinned = evidence.pinned  BY <1>1, <1>3, TruncatedInForm
<1>5. f \in EvidenceType  BY <1>4 DEF EvidenceOk
<1>6. [f EXCEPT !.pinned = f.pinned] = f  BY <1>5 DEF EvidenceType
<1> QED  BY <1>1, <1>2, <1>3, <1>4, <1>6

(* A failed boundary goes back to where it began.                           *)
LEMMA FailSound ==
    ASSUME AdmissionSound, FailBoundary
    PROVE  AdmissionSound'
<1>1. PICK e, L, s, f : /\ e = evidence /\ L = saved.lengths /\ s = saved
                        /\ f = Truncate(e, L)
  OBVIOUS
<1>2. /\ s.open /\ now' = s.now /\ pending' = s.pending
      /\ evidence' = [f EXCEPT !.pinned = s.pinned]
      /\ taking' = {} /\ saved' = NoBoundary /\ cursor' = cursor /\ boundaries' = boundaries
  BY <1>1 DEF FailBoundary
<1>3. CanTruncate(e, L, s.now) /\ s.pinned = e.pinned  BY <1>1, <1>2, SoundTruncates
<1>4. /\ EvidenceOk(f, s.now)
      /\ f.commands = Cut(e.commands, L.commands)
      /\ f.attempts = Cut(e.attempts, L.attempts)
      /\ f.ingress = Cut(e.ingress, L.ingress)
      /\ f.cut = e.cut /\ f.pinned = e.pinned
  BY <1>1, <1>3, TruncatedInForm
<1>5. evidence' = f  BY <1>1, FailRestores
<1>6. /\ L \in LengthType /\ EvidenceOk(e, s.now)
      /\ L.commands <= Len(e.commands) /\ L.attempts <= Len(e.attempts)
      /\ L.ingress <= Len(e.ingress) /\ e.cut.ingress <= L.ingress
  BY <1>3 DEF CanTruncate
<1>7. PICK c, k, m, n : c = e.cut.ingress /\ k = L.commands /\ m = L.attempts /\ n = L.ingress
  OBVIOUS
<1>8. k \in Nat /\ m \in Nat /\ n \in Nat  BY <1>6, <1>7 DEF LengthType
<1>9. /\ e.commands \in Seq(Nat) /\ e.attempts \in Seq(Attempt)
      /\ e.ingress \in Seq(IngressRecord)
      /\ Len(e.commands) \in Nat /\ Len(e.attempts) \in Nat /\ Len(e.ingress) \in Nat
  BY <1>6, Fields
<1>10. k \in 0 .. Len(e.commands) /\ m \in 0 .. Len(e.attempts) /\ n \in 0 .. Len(e.ingress)
  BY <1>6, <1>7, <1>8, <1>9
<1>11. /\ Len(f.commands) = k /\ Len(f.attempts) = m /\ Len(f.ingress) = n
       /\ DOMAIN f.attempts = 1 .. m /\ DOMAIN f.ingress = 1 .. n
       /\ \A j \in 1 .. m : f.attempts[j] = e.attempts[j]
       /\ \A j \in 1 .. n : f.ingress[j] = e.ingress[j]
       /\ 1 .. m \subseteq DOMAIN e.attempts /\ 1 .. n \subseteq DOMAIN e.ingress
  <2>1. Len(f.commands) = k  BY <1>4, <1>7, <1>9, <1>10, CutSeq
  <2>2. /\ Len(f.attempts) = m /\ DOMAIN f.attempts = 1 .. m
        /\ \A j \in 1 .. m : f.attempts[j] = e.attempts[j]
        /\ 1 .. m \subseteq DOMAIN e.attempts
    BY <1>4, <1>7, <1>9, <1>10, CutSeq
  <2>3. /\ Len(f.ingress) = n /\ DOMAIN f.ingress = 1 .. n
        /\ \A j \in 1 .. n : f.ingress[j] = e.ingress[j]
        /\ 1 .. n \subseteq DOMAIN e.ingress
    BY <1>4, <1>7, <1>9, <1>10, CutSeq
  <2> QED  BY <2>1, <2>2, <2>3
<1>12. SavedOk(e)  BY <1>1, <1>2 DEF AdmissionSound
<1>13. /\ cursor.commands <= k /\ cursor.attempts <= m
       /\ \A j \in 1 .. m : e.attempts[j].at <= s.now
       /\ \A i \in s.pending :
              /\ i \in 1 .. n /\ i \in Readable(e)
              /\ e.ingress[i].request # None =>
                     \/ AttemptOf(e.attempts, e.ingress[i].request) = 0
                     \/ AttemptOf(e.attempts, e.ingress[i].request) > m
  BY <1>1, <1>7, <1>12 DEF SavedOk
<1>14. /\ cursor \in [commands : Nat, attempts : Nat]
       /\ e.cut.commands <= cursor.commands /\ e.cut.attempts <= cursor.attempts
       /\ Aligned(e.attempts, cursor) /\ Carrying(e.ingress)
       /\ boundaries \in 0 .. MaxBoundaries /\ s \in SavedType /\ s.now \in Times
  BY <1>1 DEF AdmissionSound
<1>15. Aligned(f.attempts, cursor)  BY <1>11, <1>14 DEF Aligned
<1>16. Carrying(f.ingress)  BY <1>11, <1>14 DEF Carrying
<1>17. \A j \in DOMAIN f.attempts : f.attempts[j].at <= s.now  BY <1>11, <1>13
<1>18. \A i \in s.pending : Waiting(i, f)
  <2>1. ASSUME NEW i \in s.pending PROVE Waiting(i, f)
    <3>1. i \in 1 .. n /\ i \in Readable(e) /\ f.ingress[i] = e.ingress[i]
      BY <2>1, <1>11, <1>13
    <3>2. i \in Readable(f)
      <4>1. Readable(e) = e.pinned \cup (c + 1 .. Len(e.ingress))
        BY <1>7 DEF Readable, RetainedIngress
      <4>2. Readable(f) = e.pinned \cup (c + 1 .. n)
        BY <1>4, <1>7, <1>11 DEF Readable, RetainedIngress
      <4>3. i \in c + 1 .. Len(e.ingress) => i \in c + 1 .. n
        <5>1. c \in Nat
          <6>1. e.cut \in CutType  BY <1>6, Fields
          <6> QED  BY <6>1, <1>7 DEF CutType
        <5> QED  BY <5>1, <3>1, <1>8, <1>9
      <4> QED  BY <4>1, <4>2, <4>3, <3>1
    <3>3. ASSUME f.ingress[i].request # None
          PROVE  AttemptOf(f.attempts, f.ingress[i].request) = 0
      <4>1. PICK r : r = e.ingress[i].request  OBVIOUS
      <4>2. r \in Requests
        <5>1. e.ingress[i] \in IngressRecord  BY <3>1, <1>9, <1>11
        <5> QED  BY <5>1, <4>1, <3>1, <3>3 DEF IngressRecord
      <4>3. AttemptOf(f.attempts, r)
                = IF AttemptOf(e.attempts, r) <= m THEN AttemptOf(e.attempts, r) ELSE 0
        BY <1>3, <1>4, <1>7, <4>2, TruncatedLookups
      <4>4. AttemptOf(e.attempts, r) = 0 \/ AttemptOf(e.attempts, r) > m
        BY <2>1, <3>1, <3>3, <4>1, <1>13
      <4>5. AttemptOf(e.attempts, r) \in 0 .. Len(e.attempts)
        <5>1. JournalsOk(e.commands, e.attempts, e.ingress)  BY <1>6, Fields
        <5> QED  BY <5>1, <4>2, Lookups
      <4>6. PICK a : a = AttemptOf(e.attempts, r)  OBVIOUS
      <4>7. a \in Nat  BY <4>5, <4>6
      <4>8. (IF a <= m THEN a ELSE 0) = 0  BY <4>4, <4>6, <4>7, <1>8
      <4> QED  BY <4>1, <4>3, <4>6, <4>8, <3>1
    <3> QED  BY <3>1, <3>2, <3>3, <1>11 DEF Waiting
  <2> QED  BY <2>1
<1>19. /\ ~saved'.open /\ saved' \in SavedType /\ saved'.now = 0
  BY <1>2 DEF NoBoundary, SavedType, LengthType
<1>20. CommittedNow' = s.now  BY <1>2, <1>19 DEF CommittedNow
<1>21. \A i \in pending' \cup taking' : Waiting(i, evidence)'
  <2>1. \A i \in pending' \cup taking' : Waiting(i, f)  BY <1>2, <1>18
  <2> QED  BY <2>1, <1>5 DEF Waiting, Readable, RetainedIngress
<1>22. 0 \in Times  BY AdmissionAssumption DEF Times
<1>23. pending' \cap taking' = {}  BY <1>2
<1>24. EvidenceOk(evidence', CommittedNow')  BY <1>4, <1>5, <1>20
<1>25. /\ f.cut.commands <= cursor.commands /\ f.cut.attempts <= cursor.attempts
       /\ cursor.commands <= Len(f.commands) /\ cursor.attempts <= Len(f.attempts)
  BY <1>4, <1>11, <1>13, <1>14
<1> QED
  BY <1>2, <1>5, <1>14, <1>15, <1>16, <1>17, <1>19, <1>21, <1>22, <1>23, <1>24, <1>25
     DEF AdmissionSound

(* Every step keeps the invariant.                                          *)
LEMMA AdmissionStays ==
    ASSUME AdmissionSound, [Next]_vars
    PROVE  AdmissionSound'
<1>1. CASE UNCHANGED vars
  <2>1. UNCHANGED <<evidence, now, cursor, boundaries, pending, saved>> /\ taking' = taking
    BY <1>1 DEF vars
  <2> QED  BY <2>1, TakenSound
<1>2. CASE Submit  BY <1>2, SubmitSound
<1>3. ASSUME NEW r \in Requests, NEW input \in Inputs, ProcessCommand(r, input)
      PROVE  AdmissionSound'
  BY <1>3, ProcessSound
<1>4. CASE Enqueue
  <2>1. PICK input \in Inputs, due \in Times :
            \/ \E r \in Requests : EnqueueCommand(r, input, due)
            \/ \E d \in DecisionIds, r \in Requests \cup {None} :
                   EnqueueDecision(d, r, input, due)
    BY <1>4 DEF Enqueue
  <2>2. ASSUME NEW r \in Requests, EnqueueCommand(r, input, due) PROVE AdmissionSound'
    BY <2>2, EnqueueCommandSound
  <2>3. ASSUME NEW d \in DecisionIds, NEW r \in Requests \cup {None},
               EnqueueDecision(d, r, input, due)
        PROVE  AdmissionSound'
    BY <2>3, EnqueueDecisionSound
  <2> QED  BY <2>1, <2>2, <2>3
<1>5. ASSUME NEW target \in Times, Advance(target) PROVE AdmissionSound'
  BY <1>5, AdvanceSound
<1>6. CASE Seal \/ Continue  BY <1>6, SealSound
<1>7. CASE Reload  BY <1>7, ReloadSound
<1>8. CASE Boundary
  <2>1. ASSUME NEW at \in Times, BeginBoundary(at) PROVE AdmissionSound'
    BY <2>1, BeginSound
  <2>2. ASSUME NEW i \in taking, AdmitCommand(i) \/ AdmitDecision(i) PROVE AdmissionSound'
    BY <2>2, AdmitCommandSound, AdmitDecisionSound
  <2>3. ASSUME NEW d \in DecisionIds, NEW r \in Requests \cup {None}, NEW input \in Inputs,
               NEW due \in Times, SystemDecides(d, r, input, due)
        PROVE  AdmissionSound'
    BY <2>3, SystemDecidesSound
  <2>4. CASE Commit  BY <2>4, CommitSound
  <2>5. CASE FailBoundary  BY <2>5, FailSound
  <2> QED  BY <1>8, <2>1, <2>2, <2>3, <2>4, <2>5 DEF Boundary
<1> QED  BY <1>1, <1>2, <1>3, <1>4, <1>5, <1>6, <1>7, <1>8 DEF Next

(* The invariant holds in every state of every run.                         *)
LEMMA AlwaysSound == Spec => []AdmissionSound
<1>1. Init => AdmissionSound  BY AdmissionStarts
<1>2. AdmissionSound /\ [Next]_vars => AdmissionSound'  BY AdmissionStays
<1> QED  BY <1>1, <1>2, PTL DEF Spec

(* A reply given from some attempts stays when attempts are added and time  *)
(* goes on, or the request is retired.                                      *)
LEMMA ReplyStays ==
    ASSUME NEW c, NEW a, NEW i, JournalsOk(c, a, i), NEW d, NEW b, NEW j, JournalsOk(d, b, j),
           Len(a) <= Len(b), \A n \in 1 .. Len(a) : b[n] = a[n],
           NEW t \in Int, NEW u \in Int, t <= u, NEW r \in Requests, NEW input,
           CommandReply(a, t, r, input) # New
    PROVE  CommandReply(b, u, r, input) \in {CommandReply(a, t, r, input), IsRetired}
<1>1. PICK n : n = AttemptOf(a, r)  OBVIOUS
<1>2. n # 0  BY <1>1 DEF CommandReply
<1>3. a \in Seq(Attempt) /\ b \in Seq(Attempt)  BY DEF JournalsOk
<1>4. n \in DOMAIN a /\ a[n].request = r  BY <1>1, <1>2, Lookups
<1>5. n \in 1 .. Len(a) /\ n \in 1 .. Len(b)
  <2>1. PICK k, l : k = Len(a) /\ l = Len(b)  OBVIOUS
  <2>2. k \in Nat /\ l \in Nat /\ n \in 1 .. k  BY <2>1, <1>3, <1>4
  <2>3. n \in 1 .. l  BY <2>1, <2>2
  <2> QED  BY <2>1, <2>2, <2>3
<1>6. b[n] = a[n] /\ n \in DOMAIN b  BY <1>3, <1>5
<1>7. AttemptOf(b, r) = n  BY <1>4, <1>6, Lookups
<1>8. a[n] \in Attempt  BY <1>3, <1>4
<1>9. a[n].at < KeptFrom(t) => a[n].at < KeptFrom(u)
  <2>1. PICK x : x = a[n].at  OBVIOUS
  <2>2. x \in Nat  BY <2>1, <1>8 DEF Attempt
  <2>3. x < KeptFrom(t) => x < KeptFrom(u)  BY <2>2, AdmissionAssumption DEF KeptFrom
  <2> QED  BY <2>1, <2>3
<1>10. /\ CommandReply(a, t, r, input) =
              IF a[n].at < KeptFrom(t) THEN IsRetired
              ELSE IF a[n].input = input THEN Reply("outcome", n) ELSE Conflict
       /\ CommandReply(b, u, r, input) =
              IF a[n].at < KeptFrom(u) THEN IsRetired
              ELSE IF a[n].input = input THEN Reply("outcome", n) ELSE Conflict
  BY <1>1, <1>2, <1>6, <1>7 DEF CommandReply, Old
<1> QED  BY <1>9, <1>10

\* How many attempts a failed boundary would leave, and what the runtime answers
\* from them.
KeptCount == IF saved.open THEN saved.lengths.attempts ELSE Len(evidence.attempts)

CommittedSound ==
    /\ KeptCount \in Nat /\ KeptCount <= Len(evidence.attempts)
    /\ Len(Committed.attempts) = KeptCount
    /\ \A n \in 1 .. KeptCount : Committed.attempts[n] = evidence.attempts[n]
    /\ JournalsOk(Committed.commands, Committed.attempts, Committed.ingress)
    /\ CommittedNow \in Int
    /\ \A r \in Requests, input \in Inputs :
           CommandAnswer(Committed, CommittedNow, r, input)
               = CommandReply(Committed.attempts, CommittedNow, r, input)

(* What is committed is a history in form.                                  *)
LEMMA SoundCommitted == AdmissionSound => CommittedSound
<1> SUFFICES ASSUME AdmissionSound PROVE CommittedSound  OBVIOUS
<1>1. PICK e, f, at, k : /\ e = evidence /\ f = Committed /\ at = CommittedNow
                         /\ k = KeptCount
  OBVIOUS
<1>2. EvidenceOk(e, at) /\ at \in Int  BY <1>1, SoundTimes
<1>3. e.attempts \in Seq(Attempt) /\ Len(e.attempts) \in Nat  BY <1>2, Fields
<1>4. /\ EvidenceOk(f, at) /\ k \in Nat /\ k <= Len(e.attempts) /\ Len(f.attempts) = k
      /\ \A n \in 1 .. k : f.attempts[n] = e.attempts[n]
  <2>1. CASE ~saved.open  BY <2>1, <1>1, <1>2, <1>3 DEF Committed, KeptCount
  <2>2. CASE saved.open
    <3>1. PICK L : L = saved.lengths  OBVIOUS
    <3>2. CanTruncate(e, L, at)
      <4>1. at = saved.now  BY <2>2, <1>1 DEF CommittedNow
      <4> QED  BY <4>1, <2>2, <3>1, <1>1, SoundTruncates
    <3>3. f = Truncate(e, L) /\ k = L.attempts
      BY <2>2, <3>1, <1>1 DEF Committed, KeptCount
    <3>4. EvidenceOk(f, at) /\ f.attempts = Cut(e.attempts, k)
      BY <3>2, <3>3, TruncatedInForm
    <3>5. L \in LengthType /\ L.attempts <= Len(e.attempts)  BY <3>2 DEF CanTruncate
    <3>6. k \in Nat /\ k <= Len(e.attempts)  BY <3>3, <3>5 DEF LengthType
    <3>7. k \in 0 .. Len(e.attempts)  BY <3>6, <1>3
    <3>8. Len(f.attempts) = k /\ \A n \in 1 .. k : f.attempts[n] = e.attempts[n]
      BY <3>4, <3>7, <1>3, CutSeq
    <3> QED  BY <3>4, <3>6, <3>8
  <2> QED  BY <2>1, <2>2
<1>5. JournalsOk(f.commands, f.attempts, f.ingress)  BY <1>4, Fields
<1>6. \A r \in Requests, input \in Inputs :
          CommandAnswer(f, at, r, input) = CommandReply(f.attempts, at, r, input)
  <2>1. at <= at  BY <1>2
  <2> QED  BY <2>1, <1>2, <1>4, CommandAnswered
<1> QED  BY <1>1, <1>2, <1>4, <1>5, <1>6 DEF CommittedSound

\* What is committed is only added to.
CommittedGrows ==
    /\ KeptCount <= KeptCount' /\ CommittedNow <= CommittedNow'
    /\ \A n \in 1 .. KeptCount : evidence'.attempts[n] = evidence.attempts[n]

(* A step that leaves the boundary as it is adds to what is committed.      *)
LEMMA GrowsWithin ==
    ASSUME AdmissionSound, AttemptsGrow, saved' = saved, now' = now \/ (now' \in Int /\ now <= now')
    PROVE  CommittedGrows
<1>1. PICK a, b, k : a = evidence.attempts /\ b = evidence'.attempts /\ k = KeptCount
  OBVIOUS
<1>2. EvidenceOk(evidence, CommittedNow) /\ now \in Int /\ CommittedNow \in Int  BY SoundTimes
<1>3. a \in Seq(Attempt) /\ Len(a) \in Nat  BY <1>1, <1>2, Fields
<1>4. k \in Nat /\ k <= Len(a)  BY <1>1, SoundCommitted DEF CommittedSound
<1>5. Len(a) <= Len(b) /\ \A n \in 1 .. Len(a) : b[n] = a[n]
  <2>1. CASE b = a  BY <2>1, <1>3
  <2>2. ASSUME NEW x, b = Append(a, x) PROVE Len(a) <= Len(b) /\ \A n \in 1 .. Len(a) : b[n] = a[n]
    <3>1. Len(b) = Len(a) + 1  BY <2>2, <1>3
    <3>2. \A n \in 1 .. Len(a) : b[n] = a[n]  BY <2>2, <1>3
    <3> QED  BY <3>1, <3>2, <1>3
  <2> QED  BY <2>1, <2>2, <1>1 DEF AttemptsGrow
<1>6. 1 .. k \subseteq 1 .. Len(a)  BY <1>3, <1>4
<1>7. k <= KeptCount'
  <2>1. CASE saved.open  BY <2>1, <1>1, <1>4 DEF KeptCount
  <2>2. CASE ~saved.open  BY <2>2, <1>1, <1>5 DEF KeptCount
  <2> QED  BY <2>1, <2>2
<1>8. CommittedNow <= CommittedNow'  BY <1>2 DEF CommittedNow
<1> QED  BY <1>1, <1>5, <1>6, <1>7, <1>8 DEF CommittedGrows

(* Begin, commit and failure of a boundary add to what is committed.        *)
LEMMA GrowsAround ==
    ASSUME AdmissionSound, (\E at \in Times : BeginBoundary(at)) \/ Commit \/ FailBoundary
    PROVE  CommittedGrows
<1>1. /\ EvidenceOk(evidence, CommittedNow) /\ now \in Int /\ CommittedNow \in Int
      /\ CommittedNow <= now
  BY SoundTimes
<1>2. PICK a, k : a = evidence.attempts /\ k = KeptCount  OBVIOUS
<1>3. a \in Seq(Attempt) /\ Len(a) \in Nat  BY <1>1, <1>2, Fields
<1>4. k \in Nat /\ k <= Len(a)  BY <1>2, SoundCommitted DEF CommittedSound
<1>5. ASSUME NEW at \in Times, BeginBoundary(at) PROVE CommittedGrows
  <2>1. /\ ~saved.open /\ evidence' = evidence
        /\ saved' = [open |-> TRUE, now |-> now, pending |-> pending,
                     pinned |-> evidence.pinned, lengths |-> Lengths(evidence)]
    BY <1>5 DEF BeginBoundary
  <2>2. saved'.open /\ saved'.now = now /\ saved'.lengths.attempts = Len(a)
    BY <2>1, <1>2 DEF Lengths
  <2>3. k = Len(a) /\ KeptCount' = Len(a)  BY <2>1, <2>2, <1>2 DEF KeptCount
  <2>4. CommittedNow = now /\ CommittedNow' = now  BY <2>1, <2>2 DEF CommittedNow
  <2>5. KeptCount <= KeptCount' /\ CommittedNow <= CommittedNow'
    BY <2>3, <2>4, <1>1, <1>2, <1>3
  <2> QED  BY <2>1, <2>5 DEF CommittedGrows
<1>6. CASE Commit
  <2>1. evidence' = evidence /\ saved' = NoBoundary /\ now' = now  BY <1>6 DEF Commit
  <2>2. ~saved'.open  BY <2>1 DEF NoBoundary
  <2>3. KeptCount' = Len(a) /\ CommittedNow' = now
    BY <2>1, <2>2, <1>2 DEF KeptCount, CommittedNow
  <2>4. KeptCount <= KeptCount' /\ CommittedNow <= CommittedNow'
    BY <2>3, <1>1, <1>2, <1>4
  <2> QED  BY <2>1, <2>4 DEF CommittedGrows
<1>7. CASE FailBoundary
  <2>1. saved.open /\ saved' = NoBoundary /\ now' = saved.now  BY <1>7 DEF FailBoundary
  <2>2. ~saved'.open  BY <2>1 DEF NoBoundary
  <2>3. evidence' = Committed  BY <1>7, <2>1, FailRestores DEF Committed
  <2>4. Len(evidence'.attempts) = k /\ \A n \in 1 .. k : evidence'.attempts[n] = a[n]
    BY <2>3, <1>2, SoundCommitted DEF CommittedSound
  <2>5. KeptCount' = k /\ CommittedNow' = CommittedNow
    BY <2>1, <2>2, <2>4 DEF KeptCount, CommittedNow
  <2>6. KeptCount <= KeptCount' /\ CommittedNow <= CommittedNow'  BY <2>5, <1>1, <1>2, <1>4
  <2> QED  BY <2>4, <2>6, <1>2 DEF CommittedGrows
<1> QED  BY <1>5, <1>6, <1>7

(* Every step adds to what is committed.                                    *)
LEMMA StepGrows ==
    ASSUME AdmissionSound, [Next]_vars
    PROVE  CommittedGrows
<1>1. CASE UNCHANGED vars
  <2>1. evidence' = evidence /\ saved' = saved /\ now' = now  BY <1>1 DEF vars
  <2> QED  BY <2>1, GrowsWithin DEF AttemptsGrow
<1>2. CASE Submit
  <2>1. saved' = saved /\ now' = now  BY <1>2 DEF Submit
  <2> QED  BY <1>2, <2>1, SubmitSound, GrowsWithin
<1>3. ASSUME NEW r \in Requests, NEW input \in Inputs, ProcessCommand(r, input)
      PROVE  CommittedGrows
  <2>1. saved' = saved /\ now' = now  BY <1>3 DEF ProcessCommand
  <2> QED  BY <1>3, <2>1, ProcessSound, GrowsWithin
<1>4. CASE Enqueue
  <2>1. PICK input \in Inputs, due \in Times :
            \/ \E r \in Requests : EnqueueCommand(r, input, due)
            \/ \E d \in DecisionIds, r \in Requests \cup {None} :
                   EnqueueDecision(d, r, input, due)
    BY <1>4 DEF Enqueue
  <2>2. ASSUME NEW r \in Requests, EnqueueCommand(r, input, due) PROVE CommittedGrows
    <3>1. saved' = saved /\ now' = now  BY <2>2 DEF EnqueueCommand
    <3> QED  BY <2>2, <3>1, EnqueueCommandSound, GrowsWithin
  <2>3. ASSUME NEW d \in DecisionIds, NEW r \in Requests \cup {None},
               EnqueueDecision(d, r, input, due)
        PROVE  CommittedGrows
    <3>1. saved' = saved /\ now' = now  BY <2>3 DEF EnqueueDecision
    <3> QED  BY <2>3, <3>1, EnqueueDecisionSound, GrowsWithin
  <2> QED  BY <2>1, <2>2, <2>3
<1>5. ASSUME NEW target \in Times, Advance(target) PROVE CommittedGrows
  <2>1. saved' = saved /\ now' = target /\ target > now  BY <1>5 DEF Advance
  <2>2. target \in Int  BY AdmissionAssumption DEF Times
  <2>3. now \in Int  BY SoundTimes
  <2>4. now' \in Int /\ now <= now'  BY <2>1, <2>2, <2>3
  <2> QED  BY <1>5, <2>1, <2>4, AdvanceSound, GrowsWithin
<1>6. CASE Seal \/ Continue
  <2>1. saved' = saved /\ now' = now  BY <1>6 DEF Seal, Continue
  <2> QED  BY <1>6, <2>1, SealSound, GrowsWithin
<1>7. CASE Reload
  <2>1. saved' = saved /\ now' = now  BY <1>7 DEF Reload
  <2> QED  BY <1>7, <2>1, ReloadSound, GrowsWithin
<1>8. CASE Boundary
  <2>1. ASSUME NEW i \in taking, AdmitCommand(i) PROVE CommittedGrows
    <3>1. saved' = saved /\ now' = now  BY <2>1 DEF AdmitCommand
    <3> QED  BY <2>1, <3>1, AdmitCommandSound, GrowsWithin
  <2>2. ASSUME NEW i \in taking, AdmitDecision(i) PROVE CommittedGrows
    <3>1. saved' = saved /\ now' = now  BY <2>2 DEF AdmitDecision
    <3> QED  BY <2>2, <3>1, AdmitDecisionSound, GrowsWithin
  <2>3. ASSUME NEW d \in DecisionIds, NEW r \in Requests \cup {None}, NEW input \in Inputs,
               NEW due \in Times, SystemDecides(d, r, input, due)
        PROVE  CommittedGrows
    <3>1. saved' = saved /\ now' = now  BY <2>3 DEF SystemDecides
    <3> QED  BY <2>3, <3>1, SystemDecidesSound, GrowsWithin
  <2>4. CASE (\E at \in Times : BeginBoundary(at)) \/ Commit \/ FailBoundary
    BY <2>4, GrowsAround
  <2> QED  BY <1>8, <2>1, <2>2, <2>3, <2>4 DEF Boundary
<1> QED  BY <1>1, <1>2, <1>3, <1>4, <1>5, <1>6, <1>7, <1>8 DEF Next

(* What was answered from what is committed stays, or is retired.           *)
LEMMA AnswerStays ==
    ASSUME CommittedSound, CommittedSound', CommittedGrows
    PROVE  AnswerKept
<1>1. PICK f, g, t, u : /\ f = Committed /\ g = Committed' /\ t = CommittedNow
                        /\ u = CommittedNow'
  OBVIOUS
<1>2. PICK a, b, k, l : a = f.attempts /\ b = g.attempts /\ k = KeptCount /\ l = KeptCount'
  OBVIOUS
<1>3. /\ k \in Nat /\ Len(a) = k /\ \A n \in 1 .. k : a[n] = evidence.attempts[n]
      /\ JournalsOk(f.commands, a, f.ingress) /\ t \in Int
      /\ \A r \in Requests, input \in Inputs :
             CommandAnswer(f, t, r, input) = CommandReply(a, t, r, input)
  BY <1>1, <1>2 DEF CommittedSound
<1>4. /\ l \in Nat /\ Len(b) = l /\ \A n \in 1 .. l : b[n] = evidence'.attempts[n]
      /\ JournalsOk(g.commands, b, g.ingress) /\ u \in Int
      /\ \A r \in Requests, input \in Inputs :
             CommandAnswer(g, u, r, input) = CommandReply(b, u, r, input)
  BY <1>1, <1>2 DEF CommittedSound
<1>5. k <= l /\ t <= u /\ \A n \in 1 .. k : evidence'.attempts[n] = evidence.attempts[n]
  BY <1>1, <1>2 DEF CommittedGrows
<1>6. Len(a) <= Len(b) /\ \A n \in 1 .. Len(a) : b[n] = a[n]
  <2>1. 1 .. k \subseteq 1 .. l  BY <1>3, <1>4, <1>5
  <2> QED  BY <2>1, <1>3, <1>4, <1>5
<1>7. ASSUME NEW r \in Requests, NEW input \in Inputs, CommandAnswer(f, t, r, input) # New
      PROVE  CommandAnswer(g, u, r, input) \in {CommandAnswer(f, t, r, input), IsRetired}
  <2>1. /\ CommandAnswer(f, t, r, input) = CommandReply(a, t, r, input)
        /\ CommandAnswer(g, u, r, input) = CommandReply(b, u, r, input)
    BY <1>3, <1>4
  <2>2. CommandReply(b, u, r, input) \in {CommandReply(a, t, r, input), IsRetired}
    BY <2>1, <1>3, <1>4, <1>5, <1>6, <1>7, ReplyStays
  <2> QED  BY <2>1, <2>2
<1> QED  BY <1>1, <1>7 DEF AnswerKept

-----------------------------------------------------------------------------

(* After any seals, restores and failed boundaries the admission history    *)
(* answers from what it kept as from the whole run: the index is exact,     *)
(* nothing is used twice, what is queued is still fresh, and the sealed run *)
(* and the one restored from its checkpoint are the same.                   *)
THEOREM AnswersLikeWhole == Spec => []HistoryAnswers
<1>1. AdmissionSound => HistoryAnswers  BY AdmissionAnswers
<1> QED  BY <1>1, AlwaysSound, PTL

(* Once a request was answered from what is committed, every retry gets     *)
(* that answer until it is retired for good, whatever is sealed, restored   *)
(* or rolled back in between.                                               *)
THEOREM AnswersStay == Spec => AnswersStand
<1>1. AdmissionSound /\ [Next]_vars => CommittedGrows  BY StepGrows
<1>2. AdmissionSound => CommittedSound  BY SoundCommitted
<1>3. CommittedSound /\ CommittedSound' /\ CommittedGrows => AnswerKept  BY AnswerStays
<1> QED  BY <1>1, <1>2, <1>3, AlwaysSound, PTL DEF Spec, AnswersStand
=============================================================================
