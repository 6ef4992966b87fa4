------------------------ MODULE KnowledgePublication ------------------------
(***************************************************************************)
(* Knowledge published by the systems of a settling boundary (canwu-sim,   *)
(* runtime/knowledge.rs, settlement.rs, validation.rs): each proposal of   *)
(* phases 4 and 13 is validated at its cut against the committed ledgers   *)
(* and what earlier phases made visible, charged to a budget in which      *)
(* plugins may hold a share, given ids when its phase ends, and committed  *)
(* with the retention of its schema when the boundary does.  A load builds *)
(* the ledgers again from the journal.  One schema kind, and contents are  *)
(* the sets of subjects they carry.                                        *)
(***************************************************************************)
EXTENDS KnowledgeBook

CONSTANTS
    Systems,       \* the knowledge-writing systems, numbers in dispatch order
    PluginOf,      \* the plugin of each
    PhaseOf,       \* 4 or 13
    Subjects,
    Reserved,      \* KnowledgePublicationReservation: plugin -> [records, entries]
    Limit,         \* KnowledgeLimitsV1, per boundary: [records, entries]
    MaxRelations,  \* KnowledgeLimitsV1::relations_per_record
    Retiring,      \* whether the schema's retention is RetireWhenSuperseded
    MaxBoundaries, \* bound on the settled boundaries
    MaxDirectives  \* bound on the publications of one proposal

Plugins == Range(PluginOf)
LOCAL Dimensions == {"records", "entries"}
Drafts == (SUBSET Subjects) \ {{}}

(* Registration refuses shares that together exceed the limits              *)
ReservationsFit ==
    /\ DOMAIN Reserved \subseteq Plugins
    /\ \A d \in Dimensions : MapThenSumSet(LAMBDA p : Reserved[p][d], DOMAIN Reserved) <= Limit[d]

VARIABLES
    book,     \* RuntimeCurrentState::knowledge: the committed ledgers
    nextId,   \* RuntimeCounters::next_knowledge_record_id
    journal,  \* the knowledge changes of every settled boundary
    run       \* the boundary being settled, or Idle

vars == <<book, nextId, journal, run>>

Idle == [stage |-> "idle"]
Zero == [records |-> 0, entries |-> 0]
Plus(a, b) == [d \in Dimensions |-> a[d] + b[d]]
Minus(a, b) == [d \in Dimensions |-> IF a[d] > b[d] THEN a[d] - b[d] ELSE 0]
Within(a, b) == \A d \in Dimensions : a[d] <= b[d]

Init ==
    /\ book = EmptyBook
    /\ nextId = 1
    /\ journal = <<>>
    /\ run = Idle

----------------------------------------------------------------------------
(* KnowledgeBudgetLedger: what a boundary has spent, in all and by each     *)
(* plugin that holds a share in it                                          *)
Spent(budget, p) == IF p \in DOMAIN budget.by THEN budget.by[p] ELSE Zero
HeldFor(budget, p) == Minus(budget.reserved[p], Spent(budget, p))

(* Mutant: what others hold a share in is not withheld.                     *)
RemainingForAnyone(budget, plugin) == Minus(Limit, budget.used)

(* remaining_for *)
RemainingFor(budget, plugin) ==
    LET withheld == FoldSet(LAMBDA p, sum : Plus(sum, HeldFor(budget, p)), Zero,
                            DOMAIN budget.reserved \ {plugin})
    IN  Minus(Minus(Limit, budget.used), withheld)

(* charge, once accepted                                                    *)
Charged(budget, plugin, usage) ==
    [budget EXCEPT !.used = Plus(@, usage),
                   !.by = IF plugin \in DOMAIN budget.reserved
                          THEN Bind(@, plugin, Plus(Spent(budget, plugin), usage)) ELSE @]

(* knowledge_publication_reservations_due: the shares of the plugins with a *)
(* knowledge-writing system due                                             *)
BudgetOf(due) ==
    [used |-> Zero, by |-> Nothing,
     reserved |-> Restrict(Reserved, {p \in DOMAIN Reserved : \E s \in due : PluginOf[s] = p})]

----------------------------------------------------------------------------
(* A cut: the ledgers of earlier boundaries, and the entries that earlier   *)
(* phases of this one made visible, each [holder, id, subjects, supersedes] *)
VisibleTo(visible, h) == {v \in visible : v.holder = h}

(* validate_relation_targets *)
TargetsResolve(b, visible, h, targets) ==
    targets \subseteq Held(b, h) \cup {v.id : v \in VisibleTo(visible, h)}

(* current_heads_at_cut: visible entries first, then the committed current  *)
(* records, except what a visible entry supersedes                          *)
Heads(b, visible, h, subjects) ==
    LET staged == VisibleTo(visible, h)
        gone == UNION {v.supersedes : v \in staged}
        heads == {v.id : v \in {w \in staged : subjects \subseteq w.subjects}}
                    \cup {id \in Current(b, h) : subjects \subseteq b.body[id].subjects}
    IN  heads \ gone

(* The lists of a publication's entries, holder by holder                   *)
Lists(b, visible, directive) ==
    [h \in directive.holders |->
        IF directive.rule = "Explicit" THEN directive.supersedes
        ELSE Heads(b, visible, h, directive.subjects)]

(* validate_knowledge_publication *)
DirectiveValid(b, visible, directive) ==
    /\ directive.rule = "Explicit" =>
        /\ Cardinality(directive.holders) = 1
        /\ Cardinality(directive.supersedes) <= MaxRelations
        /\ \A h \in directive.holders : TargetsResolve(b, visible, h, directive.supersedes)
    /\ directive.rule = "CurrentOnSubjects" =>
        /\ directive.supersedes = {}
        /\ \A h \in directive.holders :
                Cardinality(Heads(b, visible, h, directive.subjects)) <= MaxRelations

Usage(directive) == [records |-> 1, entries |-> Cardinality(directive.holders)]

----------------------------------------------------------------------------
NextDue(due, phase, after) ==
    LET rest == {s \in due : PhaseOf[s] = phase /\ s > after}
    IN  IF rest = {} THEN 0 ELSE Min(rest)

(* settle_boundary_inner, with the systems that are due                     *)
Begin(due) ==
    /\ run = Idle /\ Len(journal) < MaxBoundaries
    /\ run' = [stage |-> "dispatch", phase |-> 4, turn |-> NextDue(due, 4, 0), due |-> due,
               budget |-> BudgetOf(due), staged |-> <<>>, visible |-> {},
               changes |-> <<>>, nextId |-> nextId, nextLocal |-> book.next]
    /\ UNCHANGED <<book, nextId, journal>>

(* One system's proposal: validated at its cut, charged as a whole          *)
Propose(directives) ==
    /\ run.stage = "dispatch" /\ run.turn # 0
    /\ run.nextId + Len(run.staged) + Len(directives) <= MaxId + 1
    /\ \A i \in DOMAIN directives : DirectiveValid(book, run.visible, directives[i])
    /\ \A i, j \in DOMAIN directives : i # j =>
            \/ directives[i].subjects # directives[j].subjects
            \/ directives[i].holders \cap directives[j].holders = {}
            \/ directives[i].supersedes # directives[j].supersedes
    /\ LET usage == FoldLeft(LAMBDA u, d : Plus(u, Usage(d)), Zero, directives)
           plugin == PluginOf[run.turn]
           publication(d) == [system |-> run.turn, phase |-> run.phase, rule |-> d.rule,
                              visibility |-> d.visibility, subjects |-> d.subjects,
                              lists |-> Lists(book, run.visible, d)]
       IN  IF Within(usage, RemainingFor(run.budget, plugin))
           THEN run' = [run EXCEPT
                    !.budget = Charged(@, plugin, usage),
                    !.staged = @ \o [i \in DOMAIN directives |-> publication(directives[i])],
                    !.turn = NextDue(run.due, run.phase, run.turn)]
           ELSE run' = Idle
    /\ UNCHANGED <<book, nextId, journal>>

(* stage_knowledge_publications, for one publication: its id and its        *)
(* entries' local ids                                                       *)
Stage(r, p) ==
    LET holders == SetToSortSeq(DOMAIN p.lists, <)
        gift(h) == [holder |-> h, id |-> r.nextId, local |-> r.nextLocal[h],
                    supersedes |-> p.lists[h], contradicts |-> {}]
        entries == {[holder |-> h, id |-> r.nextId, subjects |-> p.subjects,
                     supersedes |-> p.lists[h]] : h \in DOMAIN p.lists}
    IN  [r EXCEPT !.nextId = @ + 1,
                  !.nextLocal = [h \in Holders |-> @[h] + IF h \in DOMAIN p.lists THEN 1 ELSE 0],
                  !.visible = IF p.visibility = "SameBoundary" THEN @ \cup entries ELSE @,
                  !.changes = Append(@, [system |-> p.system, phase |-> p.phase,
                                         rule |-> p.rule, visibility |-> p.visibility,
                                         id |-> r.nextId, subjects |-> p.subjects,
                                         gifts |-> [i \in DOMAIN holders |-> gift(holders[i])]])]

(* A phase ends: its publications are staged, in dispatch order             *)
EndPhase ==
    /\ run.stage = "dispatch" /\ run.turn = 0
    /\ LET r == [FoldLeft(Stage, run, run.staged) EXCEPT !.staged = <<>>]
       IN  run' = IF run.phase = 4
                  THEN [r EXCEPT !.phase = 13, !.turn = NextDue(run.due, 13, 0)]
                  ELSE [r EXCEPT !.stage = "commit"]
    /\ UNCHANGED <<book, nextId, journal>>

----------------------------------------------------------------------------
Body(change) == Bind(Nothing, change.id, [kind |-> "report", subjects |-> change.subjects])

(* retire_superseded_by for every new entry that retires, in holder order   *)
(* and then id order                                                        *)
RetireAll(b, pairs) ==
    FoldLeft(LAMBDA bb, pair : Retired(bb, pair[1], pair[2]), b,
             SetToSortSeq(pairs, LAMBDA p, q : p[1] < q[1] \/ (p[1] = q[1] /\ p[2] < q[2])))

(* commit_knowledge_changes: whether every change is accepted in its turn,  *)
(* and the ledgers then                                                     *)
CommitChanges(b, changes) ==
    LET step(s, c) == [ok |-> s.ok /\ PublicationAccepted(s.book, Body(c), c.gifts),
                       book |-> Published(s.book, Body(c), c.gifts)]
        inserted == FoldLeft(step, [ok |-> TRUE, book |-> b], changes)
        retiring == {<<g.holder, g.id>> : g \in
                        {x \in UNION {Range(changes[i].gifts) : i \in DOMAIN changes} :
                            x.supersedes # {}}}
    IN  [ok |-> inserted.ok,
         book |-> IF Retiring THEN RetireAll(inserted.book, retiring) ELSE inserted.book]

(* commit_knowledge_publications *)
Commit ==
    /\ run.stage = "commit"
    /\ LET committed == CommitChanges(book, run.changes)
       IN  IF committed.ok
           THEN /\ book' = committed.book
                /\ nextId' = run.nextId
                /\ journal' = Append(journal, [due |-> run.due, changes |-> run.changes])
                /\ run' = Idle
           ELSE run' = [stage |-> "commit refused"] /\ UNCHANGED <<book, nextId, journal>>

(* A boundary that fails is restored: nothing of it is kept                 *)
Fail == run # Idle /\ run' = Idle /\ UNCHANGED <<book, nextId, journal>>

Directives ==
    [rule : {"CurrentOnSubjects"}, supersedes : {{}}, subjects : Drafts,
     holders : (SUBSET Holders) \ {{}}, visibility : {"SameBoundary", "NextBoundary"}]
    \cup [rule : {"Explicit"}, supersedes : SUBSET Ids, subjects : Drafts,
          holders : {{h} : h \in Holders}, visibility : {"SameBoundary", "NextBoundary"}]

Next ==
    \/ \E due \in SUBSET Systems : Begin(due)
    \/ run # Idle /\ \E n \in 0..MaxDirectives : \E ds \in [1..n -> Directives] : Propose(ds)
    \/ run # Idle /\ EndPhase
    \/ run # Idle /\ Commit
    \/ Fail

Spec == Init /\ [][Next]_vars

----------------------------------------------------------------------------
(* validate_boundary_knowledge_changes, for one change: its overlay takes a *)
(* phase's entries when a change of a later phase comes                     *)
Validate(v, c) ==
    LET visible == IF c.phase # v.phase THEN v.visible \cup v.staged ELSE v.visible
        staged == IF c.phase # v.phase THEN {} ELSE v.staged
        usage == [records |-> 1, entries |-> Len(c.gifts)]
        plugin == PluginOf[c.system]
        listOk(g) == IF c.rule = "Explicit"
                     THEN TargetsResolve(v.book, visible, g.holder, g.supersedes)
                     ELSE g.supersedes = Heads(v.book, visible, g.holder, c.subjects)
        local(i) == v.nextLocal[c.gifts[i].holder]
    IN  [v EXCEPT
            !.ok = /\ @ /\ c.id = v.nextId
                   /\ \A i \in DOMAIN c.gifts :
                        /\ c.gifts[i].local = local(i)
                        /\ Cardinality(c.gifts[i].supersedes) <= MaxRelations
                        /\ listOk(c.gifts[i])
                   /\ Within(usage, RemainingFor(v.budget, plugin)),
            !.phase = c.phase,
            !.visible = visible,
            !.staged = IF c.visibility = "SameBoundary"
                       THEN staged \cup {[holder |-> g.holder, id |-> g.id,
                                          subjects |-> c.subjects,
                                          supersedes |-> g.supersedes] : g \in Range(c.gifts)}
                       ELSE staged,
            !.nextId = @ + 1,
            !.nextLocal = [h \in Holders |->
                            @[h] + Cardinality({i \in DOMAIN c.gifts : c.gifts[i].holder = h})],
            !.budget = Charged(@, plugin, usage)]

(* ... for one boundary, which it then commits as settlement did            *)
ValidateBoundary(v, boundary) ==
    LET checked == FoldLeft(Validate,
                       [v EXCEPT !.phase = 0, !.visible = {}, !.staged = {},
                                 !.nextLocal = v.book.next, !.budget = BudgetOf(boundary.due)],
                       boundary.changes)
        committed == CommitChanges(v.book, boundary.changes)
    IN  [checked EXCEPT !.ok = @ /\ committed.ok, !.book = committed.book]

Loaded ==
    FoldLeft(ValidateBoundary,
             [ok |-> TRUE, book |-> EmptyBook, nextId |-> 1, phase |-> 0, visible |-> {},
              staged |-> {}, nextLocal |-> EmptyBook.next, budget |-> BudgetOf({})],
             journal)

----------------------------------------------------------------------------
(* The ledgers, the counters and the boundary have their types.             *)
TypeOK ==
    /\ DOMAIN book.body \subseteq 1..nextId-1
    /\ \A h \in Holders : Held(book, h) \subseteq DOMAIN book.body
    /\ nextId \in 1..MaxId+1
    /\ Len(journal) <= MaxBoundaries
    /\ run.stage \in {"idle", "dispatch", "commit", "commit refused"}

(* No plugin's publications take what another's share still guarantees:     *)
(* whoever was dispatched before, a plugin with a system due is left at     *)
(* least its unspent share, and no boundary spends more than its limits.    *)
(* (KnowledgeBudgetLedger)                                                  *)
SharesHeld ==
    run.stage = "dispatch" =>
        /\ Within(run.budget.used, Limit)
        /\ \A p \in DOMAIN run.budget.reserved :
                Within(HeldFor(run.budget, p), RemainingFor(run.budget, p))

(* Publications that were valid at their own cuts always commit together.   *)
(* (validate_knowledge_publication, insert_publication)                     *)
ValidatedCommits == run.stage # "commit refused"

(* Under RetireWhenSuperseded a holder holds exactly the entries it was     *)
(* ever given that no later entry of its superseded, however long the chain *)
(* a boundary adds, and what it holds supersedes nothing, which             *)
(* validate_snapshot_records takes for granted. (commit_knowledge_changes)  *)
RetiredInFull ==
    Retiring => \A h \in Holders :
        LET given == {g \in UNION {Range(c.gifts) : c \in UNION {Range(b.changes) : b \in Range(journal)}} :
                        g.holder = h}
        IN  /\ Held(book, h) = {g.id : g \in given} \ UNION {g.supersedes : g \in given}
            /\ \A id \in Held(book, h) : book.entry[h][id].supersedes = {}

(* A load of the journal accepts every boundary that was settled and builds *)
(* the same ledgers and counter: it rebuilds each publisher's cut and each  *)
(* budget from the evidence alone. (validate_boundary_knowledge_changes)    *)
LoadsAsSettled ==
    run = Idle => /\ Loaded.ok /\ Loaded.book = book /\ Loaded.nextId = nextId
=============================================================================
