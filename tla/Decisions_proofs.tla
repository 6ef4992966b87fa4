--------------------------- MODULE Decisions_proofs ---------------------------
(***************************************************************************)
(* The decision book stays sound: its types, its indexes, the lineage of   *)
(* its tickets and the people they wait for, for every value of the        *)
(* constants.  So does its history: every request is answered once, every  *)
(* version of a ticket changes once, every trace leads to its ticket, and  *)
(* no trace or attempt is hot and archived; hosts may use an archived ID   *)
(* again, and of the tickets opened so less is said.  To whoever sees the  *)
(* committed tickets only, the framework is a TicketBook.                  *)
(***************************************************************************)
EXTENDS Decisions, TLAPS

-----------------------------------------------------------------------------
(* Types.                                                                  *)

\* Maps from some keys of K to values of V.
Maps(K, V) == UNION {[D -> V] : D \in SUBSET K}

KeySets == [tickets : SUBSET Tickets, traces : SUBSET Versions, attempts : SUBSET Versions]

Books ==
    [controllers : SUBSET Controllers, tickets : Maps(Tickets, Ticket),
     opened : SUBSET Tickets, byDeadline : SUBSET (Nat \X Tickets),
     byMaker : SUBSET (Makers \X Tickets), byController : SUBSET (Controllers \X Tickets),
     traces : Maps(Versions, Trace), attempts : Maps(Versions, BOOLEAN),
     archived : KeySets]

Requests == [due : Nat, expected : Nat, mutation : Mutation]

Histories ==
    [tickets : Maps(Tickets, Ticket), traces : Maps(Versions, Trace),
     attempts : Maps(Versions, BOOLEAN)]

Commits == [due : Nat, keys : KeySets, source : Histories]

Checkpoints ==
    [now : Nat, revision : Nat, book : Books, away : SUBSET People, nextTrace : Versions,
     issued : Seq(Requests), queue : SUBSET Nat, archives : SUBSET Commits]

OpenTickets(b) == {t \in DOMAIN b.tickets : IsOpen(b.tickets[t])}

\* Two books that differ in tickets and indexes only.
SameRest(b, c) ==
    /\ c.controllers = b.controllers /\ c.opened = b.opened
    /\ c.traces = b.traces /\ c.attempts = b.attempts /\ c.archived = b.archived

\* A map is determined by its keys and values.
LEMMA MapsAre ==
  ASSUME NEW K, NEW V, NEW f
  PROVE  f \in Maps(K, V) <=> /\ f = [k \in DOMAIN f |-> f[k]] /\ DOMAIN f \subseteq K
                              /\ \A k \in DOMAIN f : f[k] \in V
BY DEF Maps

\* A map with one entry more.
LEMMA WithMaps ==
  ASSUME NEW K, NEW V, NEW f \in Maps(K, V), NEW k \in K, NEW v \in V
  PROVE  With(f, k, v) \in Maps(K, V)
<1>1. DOMAIN f \subseteq K /\ \A j \in DOMAIN f : f[j] \in V
  BY MapsAre
<1>2. /\ DOMAIN With(f, k, v) = DOMAIN f \cup {k} /\ With(f, k, v)[k] = v
      /\ \A j \in DOMAIN f : j # k => With(f, k, v)[j] = f[j]
      /\ With(f, k, v) = [j \in DOMAIN With(f, k, v) |-> With(f, k, v)[j]]
  BY DEF With
<1>3. DOMAIN With(f, k, v) \subseteq K /\ \A j \in DOMAIN With(f, k, v) : With(f, k, v)[j] \in V
  BY <1>1, <1>2
<1> QED
  BY <1>2, <1>3, MapsAre

\* A map without some keys.
LEMMA KeepMaps ==
  ASSUME NEW K, NEW V, NEW f \in Maps(K, V), NEW gone
  PROVE  /\ Keep(f, gone) \in Maps(K, V) /\ DOMAIN Keep(f, gone) = DOMAIN f \ gone
         /\ \A j \in DOMAIN f \ gone : Keep(f, gone)[j] = f[j]
<1>1. DOMAIN f \subseteq K /\ \A j \in DOMAIN f : f[j] \in V
  BY MapsAre
<1>2. /\ DOMAIN Keep(f, gone) = DOMAIN f \ gone
      /\ \A j \in DOMAIN f \ gone : Keep(f, gone)[j] = f[j]
      /\ Keep(f, gone) = [j \in DOMAIN Keep(f, gone) |-> Keep(f, gone)[j]]
  BY DEF Keep
<1>3. /\ DOMAIN Keep(f, gone) \subseteq K
      /\ \A j \in DOMAIN Keep(f, gone) : Keep(f, gone)[j] \in V
  BY <1>1, <1>2
<1> QED
  BY <1>2, <1>3, MapsAre

\* The fields of a book.
LEMMA BookFields ==
  ASSUME NEW b \in Books
  PROVE  /\ b.controllers \subseteq Controllers /\ b.opened \subseteq Tickets
         /\ b.tickets \in Maps(Tickets, Ticket)
         /\ DOMAIN b.tickets \subseteq Tickets /\ OpenTickets(b) \subseteq Tickets
         /\ \A t \in DOMAIN b.tickets : b.tickets[t] \in Ticket
         /\ b.byDeadline \subseteq Nat \X Tickets
         /\ b.byMaker \subseteq Makers \X Tickets
         /\ b.byController \subseteq Controllers \X Tickets
         /\ b.traces \in Maps(Versions, Trace) /\ DOMAIN b.traces \subseteq Versions
         /\ \A i \in DOMAIN b.traces : b.traces[i] \in Trace
         /\ b.attempts \in Maps(Versions, BOOLEAN) /\ DOMAIN b.attempts \subseteq Versions
         /\ \A i \in DOMAIN b.attempts : b.attempts[i] \in BOOLEAN
         /\ b.archived \in KeySets
<1>1. /\ b.tickets \in Maps(Tickets, Ticket) /\ b.traces \in Maps(Versions, Trace)
      /\ b.attempts \in Maps(Versions, BOOLEAN) /\ b.archived \in KeySets
      /\ b.controllers \subseteq Controllers /\ b.opened \subseteq Tickets
      /\ b.byDeadline \subseteq Nat \X Tickets /\ b.byMaker \subseteq Makers \X Tickets
      /\ b.byController \subseteq Controllers \X Tickets
  BY DEF Books
<1>2. DOMAIN b.tickets \subseteq Tickets /\ \A t \in DOMAIN b.tickets : b.tickets[t] \in Ticket
  BY <1>1, MapsAre
<1>3. DOMAIN b.traces \subseteq Versions /\ \A i \in DOMAIN b.traces : b.traces[i] \in Trace
  BY <1>1, MapsAre
<1>4. /\ DOMAIN b.attempts \subseteq Versions
      /\ \A i \in DOMAIN b.attempts : b.attempts[i] \in BOOLEAN
  BY <1>1, MapsAre
<1> QED
  BY <1>1, <1>2, <1>3, <1>4 DEF OpenTickets

\* A ticket's entry in the deadline index.
LEMMA EntryTyped ==
  ASSUME NEW id \in Tickets, NEW ticket \in Ticket
  PROVE  DeadlineEntry(id, ticket) \in SUBSET (Nat \X Tickets)
<1>1. ticket.deadline \in Nat \cup {None}
  BY DEF Ticket, Deadlines
<1> QED
  BY <1>1 DEF DeadlineEntry

\* The steps of a ticket's change: it leaves the indexes, is stored, and enters them.
LEMMA UnindexFields ==
  ASSUME NEW b \in Books, NEW id \in Tickets, NEW ticket \in Ticket
  PROVE  LET c == Unindex(b, id, ticket) IN
         /\ c \in Books /\ SameRest(b, c) /\ c.tickets = b.tickets
         /\ c.byDeadline = b.byDeadline \ DeadlineEntry(id, ticket)
         /\ c.byMaker = b.byMaker \ {<<ticket.maker, id>>}
         /\ c.byController = b.byController \ {<<ticket.controller, id>>}
BY EntryTyped DEF Unindex, Books, SameRest

\* A ticket entering the indexes adds its own entries and nothing else.
LEMMA IndexFields ==
  ASSUME NEW b \in Books, NEW id \in Tickets, NEW ticket \in Ticket
  PROVE  LET c == Index(b, id, ticket) IN
         /\ c \in Books /\ SameRest(b, c) /\ c.tickets = b.tickets
         /\ c.byDeadline = b.byDeadline \cup DeadlineEntry(id, ticket)
         /\ c.byMaker = b.byMaker \cup {<<ticket.maker, id>>}
         /\ c.byController = b.byController \cup {<<ticket.controller, id>>}
<1>1. DeadlineEntry(id, ticket) \in SUBSET (Nat \X Tickets)
  BY EntryTyped
<1>2. ticket.maker \in Makers /\ ticket.controller \in Controllers
  BY DEF Ticket
<1>3. /\ b.byDeadline \cup DeadlineEntry(id, ticket) \in SUBSET (Nat \X Tickets)
      /\ b.byMaker \cup {<<ticket.maker, id>>} \in SUBSET (Makers \X Tickets)
      /\ b.byController \cup {<<ticket.controller, id>>} \in SUBSET (Controllers \X Tickets)
  BY <1>1, <1>2, BookFields
<1> QED
  BY <1>3 DEF Index, Books, SameRest

\* Storing a ticket touches the tickets only.
LEMMA PutFields ==
  ASSUME NEW b \in Books, NEW id \in Tickets, NEW ticket \in Ticket
  PROVE  LET c == Put(b, id, ticket) IN
         /\ c \in Books /\ SameRest(b, c) /\ c.tickets = With(b.tickets, id, ticket)
         /\ c.byDeadline = b.byDeadline /\ c.byMaker = b.byMaker
         /\ c.byController = b.byController
<1>1. With(b.tickets, id, ticket) \in Maps(Tickets, Ticket)
  BY BookFields, WithMaps
<1> QED
  BY <1>1 DEF Put, Books, SameRest

-----------------------------------------------------------------------------
(* The indexes.                                                            *)

\* The indexes hold the open tickets by their fields.
Indexed(b) ==
    /\ \A d \in Nat, t \in Tickets :
          <<d, t>> \in b.byDeadline <=> t \in OpenTickets(b) /\ b.tickets[t].deadline = d
    /\ \A m \in Makers, t \in Tickets :
          <<m, t>> \in b.byMaker <=> t \in OpenTickets(b) /\ b.tickets[t].maker = m
    /\ \A c \in Controllers, t \in Tickets :
          <<c, t>> \in b.byController <=> t \in OpenTickets(b) /\ b.tickets[t].controller = c

\* The deadline index holds a ticket exactly under its deadline.
LEMMA EntryIs ==
  ASSUME NEW id, NEW ticket \in Ticket, NEW d \in Nat, NEW t
  PROVE  <<d, t>> \in DeadlineEntry(id, ticket) <=> t = id /\ ticket.deadline = d
<1>1. None \notin Nat
  BY DecisionsAssumption
<1>2. CASE ticket.deadline = None
  BY <1>1, <1>2 DEF DeadlineEntry
<1>3. CASE ticket.deadline # None
  BY <1>3 DEF DeadlineEntry
<1> QED
  BY <1>2, <1>3

\* A ticket that changes, open before, leaves the rest of the book alone.
LEMMA ChangeFields ==
  ASSUME NEW b \in Books, Indexed(b), NEW id \in OpenTickets(b), NEW ticket \in Ticket
  PROVE  LET c == Change(b, id, ticket) IN
         /\ c \in Books /\ SameRest(b, c) /\ c.tickets = With(b.tickets, id, ticket)
         /\ Indexed(c)
<1> DEFINE out == Unindex(b, id, b.tickets[id])
           put == Put(out, id, ticket)
           back == Index(put, id, ticket)
           old == b.tickets[id]
<1>1. id \in Tickets /\ old \in Ticket /\ id \in DOMAIN b.tickets /\ IsOpen(old)
  BY BookFields DEF OpenTickets
<1>2. /\ out \in Books /\ SameRest(b, out) /\ out.tickets = b.tickets
      /\ out.byDeadline = b.byDeadline \ DeadlineEntry(id, old)
      /\ out.byMaker = b.byMaker \ {<<old.maker, id>>}
      /\ out.byController = b.byController \ {<<old.controller, id>>}
  BY <1>1, UnindexFields
<1>3. /\ put \in Books /\ SameRest(out, put) /\ put.tickets = With(b.tickets, id, ticket)
      /\ put.byDeadline = out.byDeadline /\ put.byMaker = out.byMaker
      /\ put.byController = out.byController
  BY <1>1, <1>2, PutFields
<1>4. /\ back \in Books /\ SameRest(put, back) /\ back.tickets = put.tickets
      /\ back.byDeadline = put.byDeadline \cup DeadlineEntry(id, ticket)
      /\ back.byMaker = put.byMaker \cup {<<ticket.maker, id>>}
      /\ back.byController = put.byController \cup {<<ticket.controller, id>>}
  BY <1>1, <1>3, IndexFields
<1>5. Change(b, id, ticket) = IF IsOpen(ticket) THEN back ELSE put
  BY DEF Change
<1> HIDE DEF out, put, back
<1>6. /\ DOMAIN put.tickets = DOMAIN b.tickets /\ put.tickets[id] = ticket
      /\ \A t \in DOMAIN b.tickets : t # id => put.tickets[t] = b.tickets[t]
  BY <1>1, <1>3 DEF With
<1>7. \A t : t # id => (t \in OpenTickets(put) <=> t \in OpenTickets(b))
  BY <1>6 DEF OpenTickets
<1>8. id \in OpenTickets(put) <=> IsOpen(ticket)
  BY <1>1, <1>6 DEF OpenTickets
<1>9. CASE IsOpen(ticket)
  <2>1. OpenTickets(back) = OpenTickets(put)
    BY <1>4 DEF OpenTickets
  <2>2. ASSUME NEW d \in Nat, NEW t \in Tickets
        PROVE  <<d, t>> \in back.byDeadline
                 <=> t \in OpenTickets(back) /\ back.tickets[t].deadline = d
    <3>1. <<d, t>> \in back.byDeadline <=>
            \/ <<d, t>> \in b.byDeadline /\ ~(t = id /\ old.deadline = d)
            \/ t = id /\ ticket.deadline = d
      BY <1>1, <1>2, <1>3, <1>4, EntryIs
    <3>2. <<d, t>> \in b.byDeadline <=> t \in OpenTickets(b) /\ b.tickets[t].deadline = d
      BY DEF Indexed
    <3> QED
      BY <1>4, <1>6, <1>7, <1>8, <1>9, <2>1, <3>1, <3>2 DEF OpenTickets
  <2>3. ASSUME NEW m \in Makers, NEW t \in Tickets
        PROVE  <<m, t>> \in back.byMaker <=> t \in OpenTickets(back) /\ back.tickets[t].maker = m
    <3>1. <<m, t>> \in back.byMaker <=>
            \/ <<m, t>> \in b.byMaker /\ ~(t = id /\ old.maker = m)
            \/ t = id /\ ticket.maker = m
      BY <1>1, <1>2, <1>3, <1>4
    <3>2. <<m, t>> \in b.byMaker <=> t \in OpenTickets(b) /\ b.tickets[t].maker = m
      BY DEF Indexed
    <3> QED
      BY <1>4, <1>6, <1>7, <1>8, <1>9, <2>1, <3>1, <3>2 DEF OpenTickets
  <2>4. ASSUME NEW k \in Controllers, NEW t \in Tickets
        PROVE  <<k, t>> \in back.byController
                 <=> t \in OpenTickets(back) /\ back.tickets[t].controller = k
    <3>1. <<k, t>> \in back.byController <=>
            \/ <<k, t>> \in b.byController /\ ~(t = id /\ old.controller = k)
            \/ t = id /\ ticket.controller = k
      BY <1>1, <1>2, <1>3, <1>4
    <3>2. <<k, t>> \in b.byController <=> t \in OpenTickets(b) /\ b.tickets[t].controller = k
      BY DEF Indexed
    <3> QED
      BY <1>4, <1>6, <1>7, <1>8, <1>9, <2>1, <3>1, <3>2 DEF OpenTickets
  <2>5. Indexed(back)
    BY <2>2, <2>3, <2>4 DEF Indexed
  <2> QED
    BY <1>2, <1>3, <1>4, <1>5, <1>9, <2>5 DEF SameRest
<1>10. CASE ~IsOpen(ticket)
  <2>2. ASSUME NEW d \in Nat, NEW t \in Tickets
        PROVE  <<d, t>> \in put.byDeadline <=> t \in OpenTickets(put) /\ put.tickets[t].deadline = d
    <3>1. <<d, t>> \in put.byDeadline <=>
            <<d, t>> \in b.byDeadline /\ ~(t = id /\ old.deadline = d)
      BY <1>1, <1>2, <1>3, EntryIs
    <3>2. <<d, t>> \in b.byDeadline <=> t \in OpenTickets(b) /\ b.tickets[t].deadline = d
      BY DEF Indexed
    <3> QED
      BY <1>6, <1>7, <1>8, <1>10, <3>1, <3>2 DEF OpenTickets
  <2>3. ASSUME NEW m \in Makers, NEW t \in Tickets
        PROVE  <<m, t>> \in put.byMaker <=> t \in OpenTickets(put) /\ put.tickets[t].maker = m
    <3>1. <<m, t>> \in put.byMaker <=> <<m, t>> \in b.byMaker /\ ~(t = id /\ old.maker = m)
      BY <1>1, <1>2, <1>3
    <3>2. <<m, t>> \in b.byMaker <=> t \in OpenTickets(b) /\ b.tickets[t].maker = m
      BY DEF Indexed
    <3> QED
      BY <1>6, <1>7, <1>8, <1>10, <3>1, <3>2 DEF OpenTickets
  <2>4. ASSUME NEW k \in Controllers, NEW t \in Tickets
        PROVE  <<k, t>> \in put.byController
                 <=> t \in OpenTickets(put) /\ put.tickets[t].controller = k
    <3>1. <<k, t>> \in put.byController <=>
            <<k, t>> \in b.byController /\ ~(t = id /\ old.controller = k)
      BY <1>1, <1>2, <1>3
    <3>2. <<k, t>> \in b.byController <=> t \in OpenTickets(b) /\ b.tickets[t].controller = k
      BY DEF Indexed
    <3> QED
      BY <1>6, <1>7, <1>8, <1>10, <3>1, <3>2 DEF OpenTickets
  <2>5. Indexed(put)
    BY <2>2, <2>3, <2>4 DEF Indexed
  <2> QED
    BY <1>2, <1>3, <1>5, <1>10, <2>5 DEF SameRest
<1> QED
  BY <1>9, <1>10

\* Tickets that are closed together leave the indexes.
LEMMA Closing ==
  ASSUME NEW b \in Books, NEW c \in Books, Indexed(b), NEW S \in SUBSET OpenTickets(b),
         DOMAIN c.tickets = DOMAIN b.tickets,
         \A t \in S : ~IsOpen(c.tickets[t]),
         \A t \in DOMAIN b.tickets \ S : c.tickets[t] = b.tickets[t],
         \A d \in Nat, t \in Tickets :
            <<d, t>> \in c.byDeadline <=> <<d, t>> \in b.byDeadline /\ t \notin S,
         \A m \in Makers, t \in Tickets :
            <<m, t>> \in c.byMaker <=> <<m, t>> \in b.byMaker /\ t \notin S,
         \A k \in Controllers, t \in Tickets :
            <<k, t>> \in c.byController <=> <<k, t>> \in b.byController /\ t \notin S
  PROVE  Indexed(c)
<1>1. OpenTickets(c) = OpenTickets(b) \ S
  BY DEF OpenTickets
<1>2. \A t \in OpenTickets(c) : c.tickets[t] = b.tickets[t]
  BY <1>1 DEF OpenTickets
<1>3. ASSUME NEW d \in Nat, NEW t \in Tickets
      PROVE  <<d, t>> \in c.byDeadline <=> t \in OpenTickets(c) /\ c.tickets[t].deadline = d
  <2>1. <<d, t>> \in b.byDeadline <=> t \in OpenTickets(b) /\ b.tickets[t].deadline = d
    BY DEF Indexed
  <2>2. <<d, t>> \in c.byDeadline <=> <<d, t>> \in b.byDeadline /\ t \notin S
    OBVIOUS
  <2> QED
    BY <1>1, <1>2, <2>1, <2>2
<1>4. ASSUME NEW m \in Makers, NEW t \in Tickets
      PROVE  <<m, t>> \in c.byMaker <=> t \in OpenTickets(c) /\ c.tickets[t].maker = m
  <2>1. <<m, t>> \in b.byMaker <=> t \in OpenTickets(b) /\ b.tickets[t].maker = m
    BY DEF Indexed
  <2>2. <<m, t>> \in c.byMaker <=> <<m, t>> \in b.byMaker /\ t \notin S
    OBVIOUS
  <2> QED
    BY <1>1, <1>2, <2>1, <2>2
<1>5. ASSUME NEW k \in Controllers, NEW t \in Tickets
      PROVE  <<k, t>> \in c.byController <=> t \in OpenTickets(c) /\ c.tickets[t].controller = k
  <2>1. <<k, t>> \in b.byController <=> t \in OpenTickets(b) /\ b.tickets[t].controller = k
    BY DEF Indexed
  <2>2. <<k, t>> \in c.byController <=> <<k, t>> \in b.byController /\ t \notin S
    OBVIOUS
  <2> QED
    BY <1>1, <1>2, <2>1, <2>2
<1> QED
  BY <1>3, <1>4, <1>5 DEF Indexed

\* A changed ticket is a ticket.
LEMMA BumpedTyped ==
  ASSUME NEW b \in Books, NEW id \in DOMAIN b.tickets, NEW at \in Nat,
         NEW old, old = b.tickets[id], NEW new, new = Bumped(b, id, at)
  PROVE  /\ old \in Ticket /\ new \in Ticket /\ new.updated = at
         /\ new.version = old.version + 1 /\ new.state = old.state
         /\ new.maker = old.maker /\ new.controller = old.controller
         /\ new.deadline = old.deadline /\ new.parent = old.parent
         /\ new.opened = old.opened /\ new.trace = old.trace
<1>1. old \in Ticket
  BY BookFields
<1>2. new = [old EXCEPT !.version = @ + 1, !.updated = at]
  BY DEF Bumped
<1>3. old.version \in Versions /\ old.version + 1 \in Versions
  BY <1>1 DEF Ticket, Versions
<1>4. new \in Ticket
  BY <1>1, <1>2, <1>3 DEF Ticket
<1>5. /\ new.version = old.version + 1 /\ new.updated = at /\ new.state = old.state
      /\ new.maker = old.maker /\ new.controller = old.controller
      /\ new.deadline = old.deadline /\ new.parent = old.parent
      /\ new.opened = old.opened /\ new.trace = old.trace
  BY <1>1, <1>2 DEF Ticket
<1> QED
  BY <1>1, <1>2, <1>4, <1>5

\* The open tickets whose deadline is over, and what becomes of one.
Late(b, at) == {t \in OpenTickets(b) : Past(b.tickets[t].deadline, at)}
Expired(b, t, at) == [Bumped(b, t, at) EXCEPT !.state = "expired"]
Cancelled(b, t, at) == [Bumped(b, t, at) EXCEPT !.state = "cancelled"]

\* A ticket that expires or is cancelled is still a ticket.
LEMMA ClosedTyped ==
  ASSUME NEW b \in Books, NEW t \in DOMAIN b.tickets, NEW at \in Nat
  PROVE  /\ Expired(b, t, at) \in Ticket /\ Expired(b, t, at).state = "expired"
         /\ Cancelled(b, t, at) \in Ticket /\ Cancelled(b, t, at).state = "cancelled"
<1>1. Bumped(b, t, at) \in Ticket
  BY BumpedTyped
<1> QED
  BY <1>1 DEF Expired, Cancelled, Ticket

\* Those the deadline index gives are those.
LEMMA LateIs ==
  ASSUME NEW b \in Books, Indexed(b), NEW at \in Nat
  PROVE  /\ {e[2] : e \in {d \in Over(b, at) : IsOpen(b.tickets[d[2]])}} = Late(b, at)
         /\ \A d \in Nat, t \in Tickets :
               <<d, t>> \in Over(b, at) <=> <<d, t>> \in b.byDeadline /\ t \in Late(b, at)
<1>1. /\ b.byDeadline \subseteq Nat \X Tickets /\ OpenTickets(b) \subseteq Tickets
      /\ None \notin Nat /\ \A t \in DOMAIN b.tickets : b.tickets[t] \in Ticket
  BY BookFields, DecisionsAssumption
<1>2. ASSUME NEW d \in Nat, NEW t \in Tickets
      PROVE  <<d, t>> \in Over(b, at) <=> <<d, t>> \in b.byDeadline /\ t \in Late(b, at)
  <2>1. <<d, t>> \in Over(b, at) <=> <<d, t>> \in b.byDeadline /\ d < at
    BY DEF Over
  <2>2. <<d, t>> \in b.byDeadline => t \in OpenTickets(b) /\ b.tickets[t].deadline = d
    BY DEF Indexed
  <2> QED
    BY <1>1, <2>1, <2>2 DEF Late, Past
<1>3. \A t \in Late(b, at) :
         /\ <<b.tickets[t].deadline, t>> \in Over(b, at) /\ IsOpen(b.tickets[t])
         /\ b.tickets[t].deadline \in Nat /\ t \in Tickets
  <2> SUFFICES ASSUME NEW t \in Late(b, at)
               PROVE  /\ <<b.tickets[t].deadline, t>> \in Over(b, at) /\ IsOpen(b.tickets[t])
                      /\ b.tickets[t].deadline \in Nat /\ t \in Tickets
    OBVIOUS
  <2>1. t \in OpenTickets(b) /\ t \in Tickets /\ IsOpen(b.tickets[t])
    BY <1>1 DEF Late, OpenTickets
  <2>2. b.tickets[t].deadline \in Nat
    BY <1>1, <2>1 DEF Late, Past, OpenTickets, Ticket, Deadlines
  <2>3. <<b.tickets[t].deadline, t>> \in b.byDeadline
    BY <2>1, <2>2 DEF Indexed
  <2> QED
    BY <1>2, <2>1, <2>2, <2>3
<1>4. \A e \in Over(b, at) : e = <<e[1], e[2]>> /\ e[1] \in Nat /\ e[2] \in Tickets
  BY <1>1 DEF Over
<1>5. ASSUME NEW t PROVE t \in {e[2] : e \in {d \in Over(b, at) : IsOpen(b.tickets[d[2]])}}
                           <=> t \in Late(b, at)
  <2>1. ASSUME NEW e \in Over(b, at), t = e[2] PROVE t \in Late(b, at)
    BY <1>2, <1>4, <2>1
  <2>2. ASSUME t \in Late(b, at)
        PROVE  \E e \in Over(b, at) : IsOpen(b.tickets[e[2]]) /\ t = e[2]
    <3>1. /\ <<b.tickets[t].deadline, t>> \in Over(b, at) /\ IsOpen(b.tickets[t])
      BY <1>3, <2>2
    <3>2. <<b.tickets[t].deadline, t>>[2] = t
      OBVIOUS
    <3> QED
      BY <3>1, <3>2
  <2> QED
    BY <2>1, <2>2
<1> QED
  BY <1>2, <1>5

\* When time advances the late tickets expire, and nothing else changes.
LEMMA AdvanceFields ==
  ASSUME NEW b \in Books, Indexed(b), NEW at \in Nat
  PROVE  LET c == AdvanceTime(b, at) IN
         /\ c \in Books /\ SameRest(b, c) /\ Indexed(c)
         /\ DOMAIN c.tickets = DOMAIN b.tickets
         /\ \A t \in Late(b, at) : c.tickets[t] = Expired(b, t, at)
         /\ \A t \in DOMAIN b.tickets \ Late(b, at) : c.tickets[t] = b.tickets[t]
<1> DEFINE late == Late(b, at)
           over == Over(b, at)
           c == AdvanceTime(b, at)
           changed == [t \in DOMAIN b.tickets |->
                         IF t \in late THEN Expired(b, t, at) ELSE b.tickets[t]]
<1>1. {e[2] : e \in {d \in Over(b, at) : IsOpen(b.tickets[d[2]])}} = late
  BY LateIs
<1>2. c = [b EXCEPT !.byDeadline = @ \ over,
                    !.byMaker = {e \in @ : e[2] \notin late},
                    !.byController = {e \in @ : e[2] \notin late},
                    !.tickets = changed]
  BY <1>1 DEF AdvanceTime, Expired
<1>3. changed \in Maps(Tickets, Ticket)
  <2>1. DOMAIN changed = DOMAIN b.tickets /\ changed = [t \in DOMAIN changed |-> changed[t]]
    OBVIOUS
  <2>2. DOMAIN changed \subseteq Tickets
    BY <2>1, BookFields
  <2>3. \A t \in DOMAIN b.tickets : b.tickets[t] \in Ticket /\ Expired(b, t, at) \in Ticket
    <3>1. \A t \in DOMAIN b.tickets : b.tickets[t] \in Ticket
      BY BookFields
    <3>2. ASSUME NEW t \in DOMAIN b.tickets PROVE Expired(b, t, at) \in Ticket
      BY ClosedTyped
    <3> QED
      BY <3>1, <3>2
  <2>4. \A t \in DOMAIN changed : changed[t] \in Ticket
    BY <2>3
  <2> HIDE DEF changed
  <2> QED
    BY <2>1, <2>2, <2>4, MapsAre
<1>4. /\ DOMAIN changed = DOMAIN b.tickets
      /\ \A t \in late : t \in DOMAIN b.tickets /\ changed[t] = Expired(b, t, at)
      /\ \A t \in DOMAIN b.tickets \ late : changed[t] = b.tickets[t]
  BY DEF Late, OpenTickets
<1> HIDE DEF late, over, c, changed
<1>5. /\ c.byDeadline = b.byDeadline \ over
      /\ c.byMaker = {e \in b.byMaker : e[2] \notin late}
      /\ c.byController = {e \in b.byController : e[2] \notin late}
      /\ c.tickets = changed /\ SameRest(b, c)
  BY <1>2 DEF Books, SameRest
<1>6. c \in Books
  BY <1>2, <1>3 DEF Books
<1>7. late \in SUBSET OpenTickets(b)
  BY DEF late, Late
<1>8. \A t \in late : ~IsOpen(c.tickets[t])
  <2>1. \A t \in late : Expired(b, t, at).state = "expired"
    BY <1>4, ClosedTyped
  <2> QED
    BY <1>4, <1>5, <2>1 DEF IsOpen
<1>9. \A d \in Nat, t \in Tickets :
         <<d, t>> \in c.byDeadline <=> <<d, t>> \in b.byDeadline /\ t \notin late
  BY <1>5, LateIs DEF over, late
<1>10. /\ \A m \in Makers, t \in Tickets :
             <<m, t>> \in c.byMaker <=> <<m, t>> \in b.byMaker /\ t \notin late
       /\ \A k \in Controllers, t \in Tickets :
             <<k, t>> \in c.byController <=> <<k, t>> \in b.byController /\ t \notin late
  BY <1>5
<1>11. Indexed(c)
  BY <1>4, <1>5, <1>6, <1>7, <1>8, <1>9, <1>10, Closing
<1> QED
  BY <1>4, <1>5, <1>6, <1>11 DEF c, late

\* The open tickets of people who became unavailable, which a sweep cancels.
Missed(b, gone) ==
    {t \in OpenTickets(b) :
        {b.tickets[t].maker, Authority[b.tickets[t].controller]} \cap gone # {}}

\* A sweep cancels the tickets of the people gone and leaves the indexes right.
LEMMA SweptFields ==
  ASSUME NEW b \in Books, Indexed(b), NEW gone, now \in Nat
  PROVE  LET c == Swept(b, gone) IN
         /\ c \in Books /\ SameRest(b, c) /\ Indexed(c)
         /\ DOMAIN c.tickets = DOMAIN b.tickets
         /\ \A t \in Missed(b, gone) : c.tickets[t] = Cancelled(b, t, now)
         /\ \A t \in DOMAIN b.tickets \ Missed(b, gone) : c.tickets[t] = b.tickets[t]
<1> DEFINE swept == Missed(b, gone)
           c == Swept(b, gone)
           changed == [t \in DOMAIN b.tickets |->
                         IF t \in swept THEN Cancelled(b, t, now) ELSE b.tickets[t]]
<1>1. {t \in DOMAIN b.tickets :
         /\ IsOpen(b.tickets[t])
         /\ {b.tickets[t].maker, Authority[b.tickets[t].controller]} \cap gone # {}} = swept
  BY DEF Missed, OpenTickets
<1>2. c = [b EXCEPT !.tickets = changed,
                    !.byDeadline = {e \in @ : e[2] \notin swept},
                    !.byMaker = {e \in @ : e[2] \notin swept},
                    !.byController = {e \in @ : e[2] \notin swept}]
  BY <1>1 DEF Swept, Cancelled
<1>3. changed \in Maps(Tickets, Ticket)
  <2>1. DOMAIN changed = DOMAIN b.tickets /\ changed = [t \in DOMAIN changed |-> changed[t]]
    OBVIOUS
  <2>2. DOMAIN changed \subseteq Tickets
    BY <2>1, BookFields
  <2>3. \A t \in DOMAIN b.tickets : b.tickets[t] \in Ticket /\ Cancelled(b, t, now) \in Ticket
    <3>1. \A t \in DOMAIN b.tickets : b.tickets[t] \in Ticket
      BY BookFields
    <3>2. ASSUME NEW t \in DOMAIN b.tickets PROVE Cancelled(b, t, now) \in Ticket
      BY ClosedTyped
    <3> QED
      BY <3>1, <3>2
  <2>4. \A t \in DOMAIN changed : changed[t] \in Ticket
    BY <2>3
  <2> HIDE DEF changed
  <2> QED
    BY <2>1, <2>2, <2>4, MapsAre
<1>4. /\ DOMAIN changed = DOMAIN b.tickets
      /\ \A t \in swept : t \in DOMAIN b.tickets /\ changed[t] = Cancelled(b, t, now)
      /\ \A t \in DOMAIN b.tickets \ swept : changed[t] = b.tickets[t]
  BY DEF Missed, OpenTickets
<1> HIDE DEF swept, c, changed
<1>5. /\ c.byDeadline = {e \in b.byDeadline : e[2] \notin swept}
      /\ c.byMaker = {e \in b.byMaker : e[2] \notin swept}
      /\ c.byController = {e \in b.byController : e[2] \notin swept}
      /\ c.tickets = changed /\ SameRest(b, c)
  BY <1>2 DEF Books, SameRest
<1>6. c \in Books
  BY <1>2, <1>3 DEF Books
<1>7. swept \in SUBSET OpenTickets(b)
  BY DEF swept, Missed
<1>8. \A t \in swept : ~IsOpen(c.tickets[t])
  <2>1. \A t \in swept : Cancelled(b, t, now).state = "cancelled"
    BY <1>4, ClosedTyped
  <2> QED
    BY <1>4, <1>5, <2>1 DEF IsOpen
<1>9. /\ \A d \in Nat, t \in Tickets :
            <<d, t>> \in c.byDeadline <=> <<d, t>> \in b.byDeadline /\ t \notin swept
      /\ \A m \in Makers, t \in Tickets :
            <<m, t>> \in c.byMaker <=> <<m, t>> \in b.byMaker /\ t \notin swept
      /\ \A k \in Controllers, t \in Tickets :
            <<k, t>> \in c.byController <=> <<k, t>> \in b.byController /\ t \notin swept
  BY <1>5
<1>10. Indexed(c)
  BY <1>4, <1>5, <1>6, <1>7, <1>8, <1>9, Closing
<1> QED
  BY <1>4, <1>5, <1>6, <1>10 DEF c, swept

\* A ticket that opens enters the book.
NewTicket(m, at) ==
    [maker |-> m.maker, controller |-> m.controller, deadline |-> m.deadline,
     parent |-> m.parent, version |-> 1, state |-> "open", trace |-> 0, opened |-> at,
     updated |-> at]

\* What a request to open a ticket carries.
LEMMA OpeningTyped ==
  ASSUME NEW m \in Mutation, m.kind = "open"
  PROVE  /\ m.ticket \in Tickets /\ m.maker \in Makers /\ m.controller \in Controllers
         /\ m.deadline \in Deadlines /\ m.parent \in Tickets \cup {None}
BY DEF Mutation

\* Opening a ticket adds it to the book, its indexes and the batch.
LEMMA OpenFields ==
  ASSUME book \in Books, Indexed(book), NEW m \in Mutation, m.kind = "open",
         NEW at \in Nat, m.ticket \notin DOMAIN book.tickets
  PROVE  LET c == Open(m, at) IN
         /\ c \in Books /\ Indexed(c) /\ NewTicket(m, at) \in Ticket
         /\ c.tickets = With(book.tickets, m.ticket, NewTicket(m, at))
         /\ c.controllers = book.controllers /\ c.opened = book.opened \cup {m.ticket}
         /\ c.traces = book.traces /\ c.attempts = book.attempts
         /\ c.archived = book.archived
<1> DEFINE id == m.ticket
           ticket == NewTicket(m, at)
           listed == [book EXCEPT !.opened = @ \cup {id}]
           put == Put(listed, id, ticket)
           back == Index(put, id, ticket)
<1>1. /\ id \in Tickets /\ m.maker \in Makers /\ m.controller \in Controllers
      /\ m.deadline \in Deadlines /\ m.parent \in Tickets \cup {None}
  BY OpeningTyped
<1>2. ticket \in Ticket
  BY <1>1 DEF NewTicket, Ticket, Versions
<1>3. Open(m, at) = back
  BY DEF Open, NewTicket
<1>4. /\ listed \in Books /\ listed.tickets = book.tickets
      /\ listed.byDeadline = book.byDeadline /\ listed.byMaker = book.byMaker
      /\ listed.byController = book.byController
      /\ listed.controllers = book.controllers /\ listed.opened = book.opened \cup {id}
      /\ listed.traces = book.traces /\ listed.attempts = book.attempts
      /\ listed.archived = book.archived
  <2>1. book.opened \cup {id} \in SUBSET Tickets
    BY <1>1, BookFields
  <2> QED
    BY <2>1 DEF Books
<1>5. ticket.state = "open" /\ ticket.maker = m.maker /\ ticket.controller = m.controller
  BY DEF NewTicket
<1> HIDE DEF listed, put, back, ticket, id
<1>6. /\ put \in Books /\ SameRest(listed, put)
      /\ put.tickets = With(book.tickets, id, ticket)
      /\ put.byDeadline = listed.byDeadline /\ put.byMaker = listed.byMaker
      /\ put.byController = listed.byController
  BY <1>1, <1>2, <1>4, PutFields DEF put
<1>7. /\ back \in Books /\ SameRest(put, back) /\ back.tickets = put.tickets
      /\ back.byDeadline = put.byDeadline \cup DeadlineEntry(id, ticket)
      /\ back.byMaker = put.byMaker \cup {<<ticket.maker, id>>}
      /\ back.byController = put.byController \cup {<<ticket.controller, id>>}
  BY <1>1, <1>2, <1>6, IndexFields DEF back
<1>8. /\ DOMAIN back.tickets = DOMAIN book.tickets \cup {id} /\ back.tickets[id] = ticket
      /\ \A t \in DOMAIN book.tickets : t # id /\ back.tickets[t] = book.tickets[t]
  BY <1>6, <1>7 DEF With, id
<1>9. OpenTickets(back) = OpenTickets(book) \cup {id} /\ id \notin OpenTickets(book)
  BY <1>5, <1>8 DEF OpenTickets, IsOpen
<1>10. \A t \in OpenTickets(book) : back.tickets[t] = book.tickets[t]
  BY <1>8 DEF OpenTickets
<1>11. ASSUME NEW d \in Nat, NEW t \in Tickets
       PROVE  <<d, t>> \in back.byDeadline
                <=> t \in OpenTickets(back) /\ back.tickets[t].deadline = d
  <2>1. <<d, t>> \in back.byDeadline <=>
          <<d, t>> \in book.byDeadline \/ (t = id /\ ticket.deadline = d)
    BY <1>2, <1>4, <1>6, <1>7, EntryIs
  <2>2. <<d, t>> \in book.byDeadline <=> t \in OpenTickets(book) /\ book.tickets[t].deadline = d
    BY DEF Indexed
  <2> QED
    BY <1>8, <1>9, <1>10, <2>1, <2>2
<1>12. ASSUME NEW k \in Makers, NEW t \in Tickets
       PROVE  <<k, t>> \in back.byMaker <=> t \in OpenTickets(back) /\ back.tickets[t].maker = k
  <2>1. <<k, t>> \in back.byMaker <=>
          <<k, t>> \in book.byMaker \/ (t = id /\ ticket.maker = k)
    BY <1>4, <1>6, <1>7
  <2>2. <<k, t>> \in book.byMaker <=> t \in OpenTickets(book) /\ book.tickets[t].maker = k
    BY DEF Indexed
  <2> QED
    BY <1>8, <1>9, <1>10, <2>1, <2>2
<1>13. ASSUME NEW k \in Controllers, NEW t \in Tickets
       PROVE  <<k, t>> \in back.byController
                <=> t \in OpenTickets(back) /\ back.tickets[t].controller = k
  <2>1. <<k, t>> \in back.byController <=>
          <<k, t>> \in book.byController \/ (t = id /\ ticket.controller = k)
    BY <1>4, <1>6, <1>7
  <2>2. <<k, t>> \in book.byController
          <=> t \in OpenTickets(book) /\ book.tickets[t].controller = k
    BY DEF Indexed
  <2> QED
    BY <1>8, <1>9, <1>10, <2>1, <2>2
<1>14. Indexed(back)
  BY <1>11, <1>12, <1>13 DEF Indexed
<1> QED
  BY <1>2, <1>3, <1>4, <1>6, <1>7, <1>14 DEF SameRest, id, ticket

\* Closed tickets that are archived, with traces and attempts, leave the book.
LEMMA ArchivedFields ==
  ASSUME book \in Books, Indexed(book), NEW keys \in KeySets,
         keys.tickets \cap OpenTickets(book) = {}
  PROVE  LET c == Archived(keys) IN
         /\ c \in Books /\ Indexed(c) /\ c.controllers = book.controllers
         /\ c.tickets = Keep(book.tickets, keys.tickets)
         /\ c.traces = Keep(book.traces, keys.traces)
         /\ c.attempts = Keep(book.attempts, keys.attempts)
         /\ c.opened = book.opened \ keys.tickets
         /\ c.archived.tickets = book.archived.tickets \cup keys.tickets
         /\ c.archived.traces = book.archived.traces \cup keys.traces
         /\ c.archived.attempts = book.archived.attempts \cup keys.attempts
<1> DEFINE c == Archived(keys)
           old == book.archived
           new == [f \in DOMAIN old |-> old[f] \cup keys[f]]
<1>1. old \in KeySets
  BY BookFields
<1>2. /\ new \in KeySets /\ new.tickets = old.tickets \cup keys.tickets
      /\ new.traces = old.traces \cup keys.traces
      /\ new.attempts = old.attempts \cup keys.attempts
  BY <1>1 DEF KeySets
<1>3. /\ Keep(book.tickets, keys.tickets) \in Maps(Tickets, Ticket)
      /\ Keep(book.traces, keys.traces) \in Maps(Versions, Trace)
      /\ Keep(book.attempts, keys.attempts) \in Maps(Versions, BOOLEAN)
  BY BookFields, KeepMaps
<1>4. c = [book EXCEPT !.tickets = Keep(@, keys.tickets),
                       !.traces = Keep(@, keys.traces),
                       !.attempts = Keep(@, keys.attempts),
                       !.opened = @ \ keys.tickets,
                       !.archived = new]
  BY DEF Archived
<1> HIDE DEF c, new
<1>5. /\ c.controllers = book.controllers /\ c.archived = new
      /\ c.tickets = Keep(book.tickets, keys.tickets)
      /\ c.traces = Keep(book.traces, keys.traces)
      /\ c.attempts = Keep(book.attempts, keys.attempts)
      /\ c.opened = book.opened \ keys.tickets
      /\ c.byDeadline = book.byDeadline /\ c.byMaker = book.byMaker
      /\ c.byController = book.byController
  BY <1>4 DEF Books
<1>6. c \in Books
  BY <1>2, <1>3, <1>4 DEF Books
<1>7. /\ OpenTickets(c) = OpenTickets(book)
      /\ \A t \in OpenTickets(c) : c.tickets[t] = book.tickets[t]
  BY <1>5 DEF OpenTickets, Keep
<1>8. Indexed(c)
  BY <1>5, <1>7 DEF Indexed
<1> QED
  BY <1>2, <1>5, <1>6, <1>8 DEF c

-----------------------------------------------------------------------------
(* What an accepted request does to the book.                              *)

\* Requests that change an open ticket.
Versioned == {"replace", "cancel", "resolve", "extend", "reassign"}

\* What a mutation carries, by its kind.
LEMMA MutationKinds ==
  ASSUME NEW m \in Mutation
  PROVE  /\ m.kind \in {"register", "open"} \cup Versioned
         /\ m.kind \in Versioned => m.ticket \in Tickets /\ m.version \in Versions
         /\ m.kind \in {"register", "resolve", "reassign"} => m.controller \in Controllers
         /\ m.kind = "resolve" => m.selects \in BOOLEAN /\ m.acts \in BOOLEAN
         /\ m.kind = "extend" => m.deadline \in Nat
         /\ m.kind \in Versioned <=> "version" \in DOMAIN m
<1>1. CASE m \in [kind : {"register"}, controller : Controllers]
  BY <1>1 DEF Versioned
<1>2. CASE m \in [kind : {"open"}, ticket : Tickets, maker : Makers, controller : Controllers,
                  deadline : Deadlines, parent : Tickets \cup {None}]
  BY <1>2 DEF Versioned
<1>3. CASE m \in [kind : {"replace", "cancel"}, ticket : Tickets, version : Versions]
  BY <1>3 DEF Versioned
<1>4. CASE m \in [kind : {"resolve"}, ticket : Tickets, version : Versions,
                  controller : Controllers, selects : BOOLEAN, acts : BOOLEAN]
  BY <1>4 DEF Versioned
<1>5. CASE m \in [kind : {"extend"}, ticket : Tickets, version : Versions, deadline : Nat]
  BY <1>5 DEF Versioned
<1>6. CASE m \in [kind : {"reassign"}, ticket : Tickets, version : Versions,
                  controller : Controllers]
  BY <1>6 DEF Versioned
<1> QED
  BY <1>1, <1>2, <1>3, <1>4, <1>5, <1>6 DEF Mutation

\* What a request makes of its ticket.
Moved(m, at, y) ==
    LET x == book.tickets[m.ticket] IN
    /\ y \in Ticket
    /\ y.maker = x.maker /\ y.parent = x.parent /\ y.opened = x.opened
    /\ y.version = x.version + 1 /\ y.updated = at
    /\ m.kind # "reassign" => y.controller = x.controller
    /\ m.kind = "reassign" =>
          /\ y.controller = m.controller
          /\ x.parent \in DOMAIN book.tickets
               => Linked(book.tickets[x.parent], x.maker, y.controller)
    /\ y.state \in {"open", "resolved", "cancelled"}
    /\ y.state = "resolved" <=> m.kind = "resolve" /\ m.selects
    /\ y.state = "resolved" => y.trace = nextTrace
    /\ ~Past(y.deadline, at)

\* The book before time advances over it: a controller more, a ticket more, or a
\* ticket that changed, with a trace of its resolution.
Registers(m, c) ==
    /\ m.kind = "register" /\ c.tickets = book.tickets /\ c.opened = book.opened
    /\ c.traces = book.traces /\ c.attempts = book.attempts /\ c.archived = book.archived

Opens(m, at, c) ==
    /\ m.kind = "open" /\ CanOpen(m, at)
    /\ NewTicket(m, at) \in Ticket
    /\ c.tickets = With(book.tickets, m.ticket, NewTicket(m, at))
    /\ c.opened = book.opened \cup {m.ticket}
    /\ c.traces = book.traces /\ c.attempts = book.attempts /\ c.archived = book.archived

Moves(m, at, c) ==
    /\ m.kind \in Versioned /\ OpenAtVersion(m.ticket, m.version, at)
    /\ \E y : Moved(m, at, y) /\ c.tickets = With(book.tickets, m.ticket, y)
    /\ c.opened = book.opened /\ c.attempts = book.attempts /\ c.archived = book.archived
    /\ c.traces = IF m.kind = "resolve" THEN With(book.traces, nextTrace, TraceOf(m))
                                        ELSE book.traces

\* Changing a ticket that is open moves it.
LEMMA ChangeMoves ==
  ASSUME book \in Books, Indexed(book), NEW m \in Mutation, m.kind \in Versioned,
         m.kind # "resolve", NEW at, OpenAtVersion(m.ticket, m.version, at),
         NEW y, Moved(m, at, y), NEW c, c = Change(book, m.ticket, y)
  PROVE  c \in Books /\ Indexed(c) /\ Moves(m, at, c)
<1>1. m.ticket \in OpenTickets(book) /\ y \in Ticket
  BY DEF OpenAtVersion, OpenTickets, Moved
<1>2. /\ c \in Books /\ SameRest(book, c) /\ Indexed(c)
      /\ c.tickets = With(book.tickets, m.ticket, y)
  BY <1>1, ChangeFields
<1> QED
  BY <1>2 DEF Moves, SameRest

\* So does resolving it.
LEMMA ResolveMoves ==
  ASSUME book \in Books, Indexed(book), nextTrace \in Versions, NEW m \in Mutation,
         m.kind = "resolve", NEW at \in Nat, OpenAtVersion(m.ticket, m.version, at)
  PROVE  LET c == Resolve(m, at) IN c \in Books /\ Indexed(c) /\ Moves(m, at, c)
<1> DEFINE id == m.ticket
           x == book.tickets[id]
           moved == Bumped(book, id, at)
           y == IF m.selects THEN [moved EXCEPT !.state = "resolved", !.trace = nextTrace]
                             ELSE moved
           put == Change(book, id, y)
           c == Resolve(m, at)
<1>1. id \in OpenTickets(book) /\ id \in DOMAIN book.tickets /\ IsOpen(x)
      /\ ~Past(x.deadline, at) /\ id \in Tickets
  BY MutationKinds DEF OpenAtVersion, OpenTickets, Versioned
<1>2. /\ x \in Ticket /\ moved \in Ticket
      /\ moved.version = x.version + 1 /\ moved.updated = at /\ moved.state = x.state
      /\ moved.maker = x.maker /\ moved.controller = x.controller
      /\ moved.deadline = x.deadline /\ moved.parent = x.parent /\ moved.opened = x.opened
  BY <1>1, BumpedTyped
<1>3. m.selects \in BOOLEAN
  BY MutationKinds
<1> HIDE DEF moved
<1>4. Moved(m, at, y)
  <2>1. CASE m.selects
    <3>1. y = [moved EXCEPT !.state = "resolved", !.trace = nextTrace]
      BY <2>1
    <3> HIDE DEF y
    <3>2. /\ y \in Ticket /\ y.maker = moved.maker /\ y.parent = moved.parent
          /\ y.opened = moved.opened /\ y.version = moved.version
          /\ y.updated = moved.updated /\ y.controller = moved.controller
          /\ y.state = "resolved" /\ y.trace = nextTrace /\ y.deadline = moved.deadline
      BY <1>2, <3>1 DEF Ticket, Versions
    <3> QED
      BY <1>1, <1>2, <2>1, <3>2 DEF Moved
  <2>2. CASE ~m.selects
    BY <1>1, <1>2, <2>2 DEF Moved, IsOpen
  <2> QED
    BY <2>1, <2>2
<1>5. c = [put EXCEPT !.traces = With(@, nextTrace, TraceOf(m))]
  BY DEF Resolve, moved
<1>6. y \in Ticket
  BY <1>4 DEF Moved
<1> HIDE DEF y, c
<1>7. /\ put \in Books /\ SameRest(book, put) /\ put.tickets = With(book.tickets, id, y)
      /\ Indexed(put)
  BY <1>1, <1>6, ChangeFields
<1> HIDE DEF put
<1>8. TraceOf(m) \in Trace
  BY <1>1, <1>2, <1>3 DEF TraceOf, Trace, Ticket
<1>9. With(book.traces, nextTrace, TraceOf(m)) \in Maps(Versions, Trace)
  BY <1>8, BookFields, WithMaps
<1>10. put.traces = book.traces
  BY <1>7 DEF SameRest
<1>11. /\ c \in Books /\ c.tickets = put.tickets /\ c.opened = put.opened
       /\ c.attempts = put.attempts /\ c.archived = put.archived
       /\ c.traces = With(book.traces, nextTrace, TraceOf(m))
       /\ c.byDeadline = put.byDeadline /\ c.byMaker = put.byMaker
       /\ c.byController = put.byController
  BY <1>5, <1>7, <1>9, <1>10 DEF Books
<1>12. Indexed(c)
  BY <1>7, <1>11 DEF Indexed, OpenTickets
<1>13. Moves(m, at, c)
  BY <1>4, <1>7, <1>11 DEF Moves, SameRest, Versioned
<1> QED
  BY <1>11, <1>12, <1>13 DEF c

\* An accepted request registers, opens or moves, and time then advances.
LEMMA AppliedIs ==
  ASSUME book \in Books, Indexed(book), nextTrace \in Versions, NEW m \in Mutation,
         NEW at \in Nat, CanApply(m, at)
  PROVE  \E c \in Books : /\ Applied(m, at) = AdvanceTime(c, at) /\ Indexed(c)
                          /\ Registers(m, c) \/ Opens(m, at, c) \/ Moves(m, at, c)
<1> DEFINE Good(c) == /\ c \in Books /\ Indexed(c)
                      /\ Registers(m, c) \/ Opens(m, at, c) \/ Moves(m, at, c)
           x == book.tickets[m.ticket]
<1>1. CASE m.kind = "register"
  <2> DEFINE c == Register(m)
  <2>1. m.controller \in Controllers
    BY <1>1, MutationKinds
  <2>2. c = [book EXCEPT !.controllers = @ \cup {m.controller}]
    BY DEF Register
  <2>3. book.controllers \cup {m.controller} \in SUBSET Controllers
    BY <2>1, BookFields
  <2> HIDE DEF c
  <2>4. /\ c \in Books /\ c.tickets = book.tickets /\ c.opened = book.opened
        /\ c.traces = book.traces /\ c.attempts = book.attempts /\ c.archived = book.archived
        /\ c.byDeadline = book.byDeadline /\ c.byMaker = book.byMaker
        /\ c.byController = book.byController
    BY <2>2, <2>3 DEF Books
  <2>5. Indexed(c)
    BY <2>4 DEF Indexed, OpenTickets
  <2>6. Good(c)
    BY <1>1, <2>4, <2>5 DEF Registers
  <2>7. Applied(m, at) = AdvanceTime(c, at)
    BY <1>1 DEF Applied, c
  <2> QED
    BY <2>6, <2>7
<1>2. CASE m.kind = "open"
  <2>1. CanOpen(m, at) /\ m.ticket \notin DOMAIN book.tickets
    BY <1>2 DEF CanApply, CanOpen
  <2>2. Good(Open(m, at))
    BY <1>2, <2>1, OpenFields DEF Opens
  <2>3. Applied(m, at) = AdvanceTime(Open(m, at), at)
    BY <1>2 DEF Applied
  <2> QED
    BY <2>2, <2>3
<1>3. CASE m.kind = "resolve"
  <2>1. OpenAtVersion(m.ticket, m.version, at)
    BY <1>3 DEF CanApply, CanResolve
  <2>2. Good(Resolve(m, at))
    BY <1>3, <2>1, ResolveMoves
  <2>3. Applied(m, at) = AdvanceTime(Resolve(m, at), at)
    BY <1>3 DEF Applied
  <2> QED
    BY <2>2, <2>3
<1>4. CASE m.kind \in {"replace", "cancel", "extend", "reassign"}
  <2> DEFINE moved == Bumped(book, m.ticket, at)
  <2>1. OpenAtVersion(m.ticket, m.version, at)
    BY <1>4 DEF CanApply, CanExtend, CanReassign
  <2>2. m.kind \in Versioned /\ m.ticket \in DOMAIN book.tickets /\ IsOpen(x)
        /\ ~Past(x.deadline, at)
    BY <1>4, <2>1 DEF Versioned, OpenAtVersion
  <2>3. /\ x \in Ticket /\ moved \in Ticket
        /\ moved.version = x.version + 1 /\ moved.updated = at /\ moved.state = x.state
        /\ moved.maker = x.maker /\ moved.controller = x.controller
        /\ moved.deadline = x.deadline /\ moved.parent = x.parent /\ moved.opened = x.opened
    BY <2>2, BumpedTyped
  <2> HIDE DEF moved
  <2>4. CASE m.kind = "replace"
    <3>1. Moved(m, at, moved)
      BY <2>2, <2>3, <2>4 DEF Moved, IsOpen
    <3>2. Good(Replace(m, at))
      BY <2>1, <2>2, <2>4, <3>1, ChangeMoves DEF Replace, moved
    <3>3. Applied(m, at) = AdvanceTime(Replace(m, at), at)
      BY <2>4 DEF Applied
    <3> QED
      BY <3>2, <3>3
  <2>5. CASE m.kind = "cancel"
    <3> DEFINE y == [moved EXCEPT !.state = "cancelled"]
    <3>1. Moved(m, at, y)
      <4>1. /\ y \in Ticket /\ y.maker = moved.maker /\ y.parent = moved.parent
            /\ y.opened = moved.opened /\ y.version = moved.version
            /\ y.updated = moved.updated /\ y.controller = moved.controller
            /\ y.state = "cancelled" /\ y.deadline = moved.deadline
        BY <2>3 DEF Ticket
      <4> HIDE DEF y
      <4> QED
        BY <2>2, <2>3, <2>5, <4>1 DEF Moved
    <3>2. Good(Cancel(book, m.ticket, at))
      BY <2>1, <2>2, <2>5, <3>1, ChangeMoves DEF Cancel, moved
    <3>3. Applied(m, at) = AdvanceTime(Cancel(book, m.ticket, at), at)
      BY <2>5 DEF Applied
    <3> QED
      BY <3>2, <3>3
  <2>6. CASE m.kind = "extend"
    <3> DEFINE y == [moved EXCEPT !.deadline = m.deadline]
    <3>1. /\ m.deadline \in Nat /\ x.deadline # None /\ m.deadline > x.deadline
      BY <2>6, MutationKinds DEF CanApply, CanExtend
    <3>2. ~Past(m.deadline, at)
      BY <2>2, <2>3, <3>1, DecisionsAssumption DEF Past, Ticket, Deadlines
    <3>3. Moved(m, at, y)
      <4>1. /\ y \in Ticket /\ y.maker = moved.maker /\ y.parent = moved.parent
            /\ y.opened = moved.opened /\ y.version = moved.version
            /\ y.updated = moved.updated /\ y.controller = moved.controller
            /\ y.state = moved.state /\ y.deadline = m.deadline
        BY <2>3, <3>1 DEF Ticket, Deadlines
      <4> HIDE DEF y
      <4> QED
        BY <2>2, <2>3, <2>6, <3>2, <4>1 DEF Moved, IsOpen
    <3>4. Good(Extend(m, at))
      BY <2>1, <2>2, <2>6, <3>3, ChangeMoves DEF Extend, moved
    <3>5. Applied(m, at) = AdvanceTime(Extend(m, at), at)
      BY <2>6 DEF Applied
    <3> QED
      BY <3>4, <3>5
  <2>7. CASE m.kind = "reassign"
    <3> DEFINE y == [moved EXCEPT !.controller = m.controller]
    <3>1. /\ m.controller \in Controllers
          /\ x.parent \in DOMAIN book.tickets
               => Linked(book.tickets[x.parent], x.maker, m.controller)
      BY <2>7, MutationKinds DEF CanApply, CanReassign
    <3>2. Moved(m, at, y)
      <4>1. /\ y \in Ticket /\ y.maker = moved.maker /\ y.parent = moved.parent
            /\ y.opened = moved.opened /\ y.version = moved.version
            /\ y.updated = moved.updated /\ y.controller = m.controller
            /\ y.state = moved.state /\ y.deadline = moved.deadline
        BY <2>3, <3>1 DEF Ticket
      <4> HIDE DEF y
      <4> QED
        BY <2>2, <2>3, <2>7, <3>1, <4>1 DEF Moved, IsOpen
    <3>3. Good(Reassign(m, at))
      BY <2>1, <2>2, <2>7, <3>2, ChangeMoves DEF Reassign, moved
    <3>4. Applied(m, at) = AdvanceTime(Reassign(m, at), at)
      BY <2>7 DEF Applied
    <3> QED
      BY <3>3, <3>4
  <2> QED
    BY <1>4, <2>4, <2>5, <2>6, <2>7
<1> QED
  BY <1>1, <1>2, <1>3, <1>4, MutationKinds DEF Versioned

-----------------------------------------------------------------------------
(* Lineages, dates and people.                                             *)

\* The book's part of Lineage, NoneForTheAway and IndexesAgree, at a time and with
\* some people away.
Follows(b, t) ==
    LET ticket == b.tickets[t]
        parent == b.tickets[ticket.parent]
    IN  /\ ticket.parent \in DOMAIN b.tickets
        /\ ~IsOpen(parent) /\ parent.updated <= ticket.opened
        /\ Linked(parent, ticket.maker, ticket.controller)

Lineal(b) ==
    \A t \in DOMAIN b.tickets :
        b.tickets[t].parent \in b.archived.tickets \cup {None} \/ Follows(b, t)

\* No ticket changed after the book's time.
Dated(b, at) == \A t \in DOMAIN b.tickets : b.tickets[t].updated <= at

\* No open ticket waits for somebody away, in a boundary neither.
Present(b, gone) ==
    \A t \in OpenTickets(b) :
        b.tickets[t].maker \notin gone /\ Authority[b.tickets[t].controller] \notin gone

BookInv(b, at, gone) ==
    b \in Books /\ Indexed(b) /\ Lineal(b) /\ Dated(b, at) /\ Present(b, gone)

\* How an open ticket may evolve.
Evolves(b, t, y, at, gone) ==
    LET x == b.tickets[t] IN
    /\ IsOpen(x) /\ y.maker = x.maker /\ y.parent = x.parent /\ y.opened = x.opened
    /\ y.updated = at
    /\ \/ y.controller = x.controller
       \/ /\ x.parent \in DOMAIN b.tickets
                => Linked(b.tickets[x.parent], x.maker, y.controller)
          /\ Authority[y.controller] \notin gone

\* Closed tickets stand, so lineages do when open ones evolve.
LEMMA Evolution ==
  ASSUME NEW b \in Books, NEW c \in Books, NEW at \in Nat, NEW gone,
         DOMAIN c.tickets = DOMAIN b.tickets, c.archived = b.archived,
         \A t \in DOMAIN b.tickets :
            c.tickets[t] = b.tickets[t] \/ Evolves(b, t, c.tickets[t], at, gone),
         Lineal(b), Dated(b, at), Present(b, gone)
  PROVE  Lineal(c) /\ Dated(c, at) /\ Present(c, gone)
<1>1. \A t \in DOMAIN b.tickets : ~IsOpen(b.tickets[t]) => c.tickets[t] = b.tickets[t]
  BY DEF Evolves
<1>2. ASSUME NEW t \in DOMAIN c.tickets
      PROVE  c.tickets[t].parent \in c.archived.tickets \cup {None} \/ Follows(c, t)
  <2> DEFINE p == b.tickets[t].parent
  <2>1. /\ c.tickets[t].parent = p /\ c.tickets[t].maker = b.tickets[t].maker
        /\ c.tickets[t].opened = b.tickets[t].opened
    BY DEF Evolves
  <2>2. CASE p \in b.archived.tickets \cup {None}
    BY <2>1, <2>2
  <2>3. CASE Follows(b, t)
    <3>1. /\ p \in DOMAIN b.tickets /\ c.tickets[p] = b.tickets[p]
          /\ ~IsOpen(c.tickets[p]) /\ c.tickets[p].updated <= c.tickets[t].opened
      BY <1>1, <2>1, <2>3 DEF Follows
    <3>2. Linked(b.tickets[p], b.tickets[t].maker, c.tickets[t].controller)
      BY <2>3, <3>1 DEF Follows, Evolves
    <3> QED
      BY <2>1, <3>1, <3>2 DEF Follows
  <2> QED
    BY <2>2, <2>3 DEF Lineal
<1>3. Dated(c, at)
  BY DEF Dated, Evolves
<1>4. ASSUME NEW t \in OpenTickets(c)
      PROVE  /\ c.tickets[t].maker \notin gone
             /\ Authority[c.tickets[t].controller] \notin gone
  <2>1. t \in DOMAIN b.tickets /\ t \in OpenTickets(b)
    BY DEF OpenTickets, Evolves
  <2> QED
    BY <2>1 DEF Present, Evolves
<1> QED
  BY <1>2, <1>3, <1>4 DEF Lineal, Present

\* Time advances over a sound book.
LEMMA AdvanceSound ==
  ASSUME NEW b, NEW at \in Nat, NEW gone, BookInv(b, at, gone)
  PROVE  BookInv(AdvanceTime(b, at), at, gone)
<1> DEFINE c == AdvanceTime(b, at)
<1>1. /\ b \in Books /\ Indexed(b) /\ Lineal(b) /\ Dated(b, at) /\ Present(b, gone)
  BY DEF BookInv
<1>2. /\ c \in Books /\ SameRest(b, c) /\ Indexed(c)
      /\ DOMAIN c.tickets = DOMAIN b.tickets
      /\ \A t \in Late(b, at) : c.tickets[t] = Expired(b, t, at)
      /\ \A t \in DOMAIN b.tickets \ Late(b, at) : c.tickets[t] = b.tickets[t]
  BY <1>1, AdvanceFields
<1> HIDE DEF c
<1>3. \A t \in Late(b, at) : Evolves(b, t, c.tickets[t], at, gone)
  <2> SUFFICES ASSUME NEW t \in Late(b, at) PROVE Evolves(b, t, c.tickets[t], at, gone)
    OBVIOUS
  <2>1. t \in DOMAIN b.tickets /\ IsOpen(b.tickets[t])
    BY DEF Late, OpenTickets
  <2> DEFINE x == b.tickets[t]
             moved == Bumped(b, t, at)
  <2>2. /\ moved \in Ticket /\ moved.updated = at /\ moved.maker = x.maker
        /\ moved.controller = x.controller /\ moved.parent = x.parent
        /\ moved.opened = x.opened
    BY <1>1, <2>1, BumpedTyped
  <2>3. c.tickets[t] = [moved EXCEPT !.state = "expired"]
    BY <1>2 DEF Expired
  <2> HIDE DEF moved
  <2> QED
    BY <2>1, <2>2, <2>3 DEF Evolves, Ticket
<1>4. \A t \in DOMAIN b.tickets :
         c.tickets[t] = b.tickets[t] \/ Evolves(b, t, c.tickets[t], at, gone)
  BY <1>2, <1>3
<1>5. c.archived = b.archived
  BY <1>2 DEF SameRest
<1>6. Lineal(c) /\ Dated(c, at) /\ Present(c, gone)
  BY <1>1, <1>2, <1>4, <1>5, Evolution
<1> QED
  BY <1>2, <1>6 DEF BookInv, c

\* A sweep leaves nothing that waits for those who went.
LEMMA SweepSound ==
  ASSUME NEW b, now \in Nat, NEW gone, NEW more, NEW back, BookInv(b, now, gone)
  PROVE  BookInv(Swept(b, more), now, (gone \cup more) \ back)
<1> DEFINE c == Swept(b, more)
<1>1. /\ b \in Books /\ Indexed(b) /\ Lineal(b) /\ Dated(b, now) /\ Present(b, gone)
  BY DEF BookInv
<1>2. /\ c \in Books /\ SameRest(b, c) /\ Indexed(c)
      /\ DOMAIN c.tickets = DOMAIN b.tickets
      /\ \A t \in Missed(b, more) : c.tickets[t] = Cancelled(b, t, now)
      /\ \A t \in DOMAIN b.tickets \ Missed(b, more) : c.tickets[t] = b.tickets[t]
  BY <1>1, SweptFields
<1> HIDE DEF c
<1>3. \A t \in Missed(b, more) :
         Evolves(b, t, c.tickets[t], now, gone) /\ ~IsOpen(c.tickets[t])
  <2> SUFFICES ASSUME NEW t \in Missed(b, more)
               PROVE  Evolves(b, t, c.tickets[t], now, gone) /\ ~IsOpen(c.tickets[t])
    OBVIOUS
  <2>1. t \in DOMAIN b.tickets /\ IsOpen(b.tickets[t])
    BY DEF Missed, OpenTickets
  <2> DEFINE x == b.tickets[t]
             moved == Bumped(b, t, now)
  <2>2. /\ moved \in Ticket /\ moved.updated = now /\ moved.maker = x.maker
        /\ moved.controller = x.controller /\ moved.parent = x.parent
        /\ moved.opened = x.opened
    BY <1>1, <2>1, BumpedTyped
  <2>3. c.tickets[t] = [moved EXCEPT !.state = "cancelled"]
    BY <1>2 DEF Cancelled
  <2> HIDE DEF moved
  <2> QED
    BY <2>1, <2>2, <2>3 DEF Evolves, Ticket, IsOpen
<1>4. \A t \in DOMAIN b.tickets :
         c.tickets[t] = b.tickets[t] \/ Evolves(b, t, c.tickets[t], now, gone)
  BY <1>2, <1>3
<1>5. c.archived = b.archived
  BY <1>2 DEF SameRest
<1>6. Lineal(c) /\ Dated(c, now) /\ Present(c, gone)
  BY <1>1, <1>2, <1>4, <1>5, Evolution
<1>7. ASSUME NEW t \in OpenTickets(c)
      PROVE  /\ c.tickets[t].maker \notin (gone \cup more) \ back
             /\ Authority[c.tickets[t].controller] \notin (gone \cup more) \ back
  <2>1. t \in DOMAIN b.tickets /\ IsOpen(c.tickets[t]) /\ t \notin Missed(b, more)
    BY <1>2, <1>3 DEF OpenTickets
  <2>2. c.tickets[t] = b.tickets[t] /\ t \in OpenTickets(b)
    BY <1>2, <2>1 DEF OpenTickets
  <2>3. b.tickets[t].maker \notin more /\ Authority[b.tickets[t].controller] \notin more
    BY <2>1, <2>2 DEF Missed
  <2> QED
    BY <1>6, <2>2, <2>3 DEF Present
<1>8. Present(c, (gone \cup more) \ back)
  BY <1>7 DEF Present
<1> QED
  BY <1>2, <1>6, <1>8 DEF BookInv, c

\* A request that is accepted keeps the book sound.
LEMMA AppliedSound ==
  ASSUME nextTrace \in Versions, NEW m \in Mutation, NEW at \in Nat, CanApply(m, at),
         Needs(m) \cap away = {}, BookInv(book, at, away)
  PROVE  BookInv(Applied(m, at), at, away)
<1>1. /\ book \in Books /\ Indexed(book) /\ Lineal(book) /\ Dated(book, at)
      /\ Present(book, away)
  BY DEF BookInv
<1>2. PICK c \in Books : /\ Applied(m, at) = AdvanceTime(c, at) /\ Indexed(c)
                         /\ Registers(m, c) \/ Opens(m, at, c) \/ Moves(m, at, c)
  BY <1>1, AppliedIs
<1>3. ASSUME Registers(m, c) PROVE Lineal(c) /\ Dated(c, at) /\ Present(c, away)
  BY <1>1, <1>3 DEF Registers, Lineal, Follows, Dated, Present, OpenTickets
<1>4. ASSUME Opens(m, at, c) PROVE Lineal(c) /\ Dated(c, at) /\ Present(c, away)
  <2> DEFINE id == m.ticket
             new == NewTicket(m, at)
  <2>1. /\ DOMAIN c.tickets = DOMAIN book.tickets \cup {id} /\ c.tickets[id] = new
        /\ id \notin DOMAIN book.tickets
        /\ \A t \in DOMAIN book.tickets : c.tickets[t] = book.tickets[t]
        /\ c.archived = book.archived
    BY <1>4 DEF Opens, CanOpen, With
  <2>2. /\ new.maker = m.maker /\ new.controller = m.controller /\ new.parent = m.parent
        /\ new.opened = at /\ new.updated = at /\ IsOpen(new)
    BY DEF NewTicket, IsOpen
  <2> HIDE DEF new, id
  <2>3. ASSUME NEW t \in DOMAIN book.tickets
        PROVE  c.tickets[t].parent \in c.archived.tickets \cup {None} \/ Follows(c, t)
    BY <1>1, <2>1 DEF Lineal, Follows
  <2>4. c.tickets[id].parent \in c.archived.tickets \cup {None} \/ Follows(c, id)
    <3>1. ParentAdmits(m.parent, m.maker, m.controller)
      BY <1>4 DEF Opens, CanOpen
    <3> QED
      BY <1>1, <2>1, <2>2, <3>1 DEF ParentAdmits, Follows, Dated
  <2>5. Lineal(c)
    BY <2>1, <2>3, <2>4 DEF Lineal
  <2>6. Dated(c, at)
    BY <1>1, <2>1, <2>2 DEF Dated
  <2>7. m.maker \notin away /\ Authority[m.controller] \notin away
    BY <1>4 DEF Opens, Needs
  <2>8. Present(c, away)
    BY <1>1, <2>1, <2>2, <2>7 DEF Present, OpenTickets
  <2> QED
    BY <2>5, <2>6, <2>8
<1>5. ASSUME Moves(m, at, c) PROVE Lineal(c) /\ Dated(c, at) /\ Present(c, away)
  <2>1. PICK y : Moved(m, at, y) /\ c.tickets = With(book.tickets, m.ticket, y)
    BY <1>5 DEF Moves
  <2>2. m.ticket \in DOMAIN book.tickets /\ IsOpen(book.tickets[m.ticket])
    BY <1>5 DEF Moves, OpenAtVersion
  <2>3. /\ DOMAIN c.tickets = DOMAIN book.tickets /\ c.tickets[m.ticket] = y
        /\ \A t \in DOMAIN book.tickets : t # m.ticket => c.tickets[t] = book.tickets[t]
    BY <2>1, <2>2 DEF With
  <2>4. m.kind = "reassign" => Authority[m.controller] \notin away
    BY DEF Needs
  <2>5. Evolves(book, m.ticket, y, at, away)
    BY <2>1, <2>2, <2>4 DEF Moved, Evolves
  <2>6. \A t \in DOMAIN book.tickets :
           c.tickets[t] = book.tickets[t] \/ Evolves(book, t, c.tickets[t], at, away)
    BY <2>3, <2>5
  <2>7. c.archived = book.archived
    BY <1>5 DEF Moves
  <2> QED
    BY <1>1, <2>3, <2>6, <2>7, Evolution
<1>6. BookInv(c, at, away)
  BY <1>2, <1>3, <1>4, <1>5 DEF BookInv
<1> QED
  BY <1>2, <1>6, AdvanceSound

\* Attempts and traces are no part of it.
LEMMA AttemptedFields ==
  ASSUME NEW b \in Books, NEW i \in Versions, NEW accepted \in BOOLEAN
  PROVE  LET c == Attempted(b, i, accepted) IN
         /\ c \in Books /\ c.tickets = b.tickets /\ c.controllers = b.controllers
         /\ c.opened = b.opened /\ c.traces = b.traces /\ c.archived = b.archived
         /\ c.byDeadline = b.byDeadline /\ c.byMaker = b.byMaker
         /\ c.byController = b.byController
         /\ c.attempts = With(b.attempts, i, accepted)
<1>1. With(b.attempts, i, accepted) \in Maps(Versions, BOOLEAN)
  BY BookFields, WithMaps
<1> QED
  BY <1>1 DEF Attempted, Books

\* Books with the same tickets and indexes are sound together.
LEMMA SameSound ==
  ASSUME NEW b, NEW c \in Books, NEW at, NEW gone, BookInv(b, at, gone),
         c.tickets = b.tickets, c.archived = b.archived,
         c.byDeadline = b.byDeadline, c.byMaker = b.byMaker, c.byController = b.byController
  PROVE  BookInv(c, at, gone)
BY DEF BookInv, Indexed, Lineal, Follows, Dated, Present, OpenTickets

\* A book stays sound as time passes.
LEMMA LaterSound ==
  ASSUME NEW b, NEW at \in Nat, NEW later \in Nat, at <= later, NEW gone,
         BookInv(b, at, gone)
  PROVE  BookInv(b, later, gone)
<1>1. b \in Books
  BY DEF BookInv
<1>2. \A t \in DOMAIN b.tickets : b.tickets[t].updated \in Nat
  BY <1>1, BookFields DEF Ticket
<1> QED
  BY <1>2 DEF BookInv, Dated

-----------------------------------------------------------------------------
(* The inductive invariant of BookSound: the book is sound, and the one to *)
(* which a failing boundary goes back.                                     *)

\* A commit archives closed tickets of the history it was prepared from.
CommitsOf(S) ==
    \A a \in S :
        /\ \A t \in a.keys.tickets :
              t \in DOMAIN a.source.tickets /\ ~IsOpen(a.source.tickets[t])
        /\ a.keys.traces \subseteq DOMAIN a.source.traces
        /\ a.keys.attempts \subseteq DOMAIN a.source.attempts

\* A state a boundary may go back to.
Sound(s) ==
    /\ s \in Checkpoints /\ s.queue \subseteq DOMAIN s.issued /\ CommitsOf(s.archives)
    /\ BookInv(s.book, s.now, s.away)

\* The same of the current state.
Current ==
    /\ now \in Nat /\ revision \in Nat /\ nextTrace \in Versions /\ away \subseteq People
    /\ issued \in Seq(Requests) /\ queue \subseteq DOMAIN issued
    /\ archives \subseteq Commits /\ CommitsOf(archives)
    /\ BookInv(book, now, away)

SoundInv ==
    /\ Current
    /\ pc # "idle" => Sound(saved)
    /\ pc \in {"idle", "admit", "systems"} /\ failures \in Nat

\* A checkpoint of a sound state is one that may be restored.
LEMMA CurrentSound ==
  ASSUME Current
  PROVE  Sound(Checkpoint)
<1>1. book \in Books
  BY DEF Current, BookInv
<1>2. queue \subseteq Nat
  <2>1. DOMAIN issued = 1 .. Len(issued) /\ Len(issued) \in Nat
    BY DEF Current
  <2> QED
    BY <2>1 DEF Current
<1>3. Checkpoint \in Checkpoints
  BY <1>1, <1>2 DEF Current, Checkpoint, Checkpoints
<1>4. /\ Checkpoint.queue = queue /\ Checkpoint.issued = issued
      /\ Checkpoint.archives = archives /\ Checkpoint.book = book
      /\ Checkpoint.now = now /\ Checkpoint.away = away
  BY DEF Checkpoint
<1> QED
  BY <1>3, <1>4 DEF Current, Sound

\* What a boundary goes back to is sound.
LEMMA RestoreSound ==
  ASSUME Sound(saved), RestoreBoundary
  PROVE  Current'
<1>1. /\ saved.now \in Nat /\ saved.revision \in Nat /\ saved.nextTrace \in Versions
      /\ saved.away \subseteq People /\ saved.issued \in Seq(Requests)
      /\ saved.archives \subseteq Commits
  BY DEF Sound, Checkpoints
<1>3. CommitsOf(archives)'
  BY DEF Sound, RestoreBoundary
<1>4. BookInv(book, now, away)'
  BY DEF Sound, RestoreBoundary
<1> QED
  BY <1>1, <1>3, <1>4 DEF Sound, RestoreBoundary, Current

\* The steps.
HostSteps ==
    \/ \E at \in Nat : Advance(at)
    \/ \E at \in Nat, m \in Mutations : EnqueueDecision(at, m)
    \/ \E at \in Nat, keys \in Keys : EnqueueArchive(at, keys)
    \/ \E at \in Nat, commands \in 0 .. 1 : BeginBoundary(at, commands)

\* The times a host asks for are natural numbers.
LEMMA Steps ==
  ASSUME now \in Nat, [Next]_vars
  PROVE  \/ HostSteps \/ Boundary \/ UNCHANGED vars
<1>1. MaxTime \in Nat
  BY DecisionsAssumption
<1>2. Times \subseteq Nat
  BY <1>1 DEF Times
<1> QED
  BY <1>2 DEF Next, Host, HostSteps

\* Where requests are issued.
LEMMA IssueKeeps ==
  ASSUME issued \in Seq(Requests), queue \subseteq DOMAIN issued, NEW r \in Requests, Issue(r)
  PROVE  /\ issued' \in Seq(Requests) /\ queue' \subseteq DOMAIN issued'
         /\ DOMAIN issued' = DOMAIN issued \cup {Len(issued) + 1}
         /\ Len(issued) + 1 \notin DOMAIN issued
         /\ issued'[Len(issued) + 1] = r
         /\ \A i \in DOMAIN issued : issued'[i] = issued[i]
<1>1. issued' = Append(issued, r) /\ queue' = queue \cup {Len(issued) + 1}
  BY DEF Issue
<1>2. DOMAIN issued = 1 .. Len(issued) /\ Len(issued) \in Nat
  OBVIOUS
<1>3. /\ issued' \in Seq(Requests) /\ DOMAIN issued' = 1 .. Len(issued) + 1
      /\ issued'[Len(issued) + 1] = r
      /\ \A i \in 1 .. Len(issued) : issued'[i] = issued[i]
  BY <1>1, <1>2
<1>4. 1 .. Len(issued) + 1 = 1 .. Len(issued) \cup {Len(issued) + 1}
  BY <1>2
<1> QED
  BY <1>1, <1>2, <1>3, <1>4

\* Advance: no ticket is touched, and none is dated later than the new time.
LEMMA AdvanceStep ==
  ASSUME SoundInv, NEW at \in Nat, Advance(at)
  PROVE  SoundInv'
<1>1. /\ now' = at /\ now <= at
      /\ UNCHANGED <<revision, book, away, nextTrace, issued, queue, archives, pc, saved,
                     failures>>
  BY DEF Advance, decided, journal, control
<1>2. BookInv(book, at, away)
  BY <1>1, LaterSound DEF SoundInv, Current
<1>3. Current'
  BY <1>1, <1>2 DEF SoundInv, Current
<1> QED
  BY <1>1, <1>3 DEF SoundInv

\* A step that leaves the book, the clock and the people as they are.
LEMMA Aside ==
  ASSUME BookInv(book, now, away), UNCHANGED <<now, book, away>>
  PROVE  BookInv(book, now, away)'
OBVIOUS

\* EnqueueDecision: what is issued is a request.
LEMMA EnqueueDecisionStep ==
  ASSUME SoundInv, NEW at \in Nat, NEW m \in Mutations, EnqueueDecision(at, m)
  PROVE  SoundInv'
<1> DEFINE r == [due |-> at, expected |-> revision, mutation |-> m]
<1>1. /\ Issue(r) /\ UNCHANGED <<now, revision, book, away, nextTrace, pc, saved, failures>>
      /\ UNCHANGED archives
  BY DEF EnqueueDecision, Issue, clock, decided, control
<1>2. r \in Requests
  BY DecisionsAssumption DEF Requests, SoundInv, Current
<1> HIDE DEF r
<1>3. issued' \in Seq(Requests) /\ queue' \subseteq DOMAIN issued'
  BY <1>1, <1>2, IssueKeeps DEF SoundInv, Current
<1>4. BookInv(book, now, away)'
  BY <1>1, Aside DEF SoundInv, Current
<1>5. CommitsOf(archives)'
  BY <1>1 DEF SoundInv, Current, CommitsOf
<1> QED
  BY <1>1, <1>3, <1>4, <1>5 DEF SoundInv, Current

\* EnqueueArchive: a prepared commit names closed tickets of its source.
LEMMA EnqueueArchiveStep ==
  ASSUME SoundInv, NEW at \in Nat, NEW keys \in Keys, EnqueueArchive(at, keys)
  PROVE  SoundInv'
<1> DEFINE commit == [due |-> at, keys |-> keys, source |-> Hot]
<1>1. /\ archives' = archives \cup {commit} /\ Eligible(keys)
      /\ UNCHANGED <<now, revision, book, away, nextTrace, issued, queue, pc, saved, failures>>
  BY DEF EnqueueArchive, clock, decided, control
<1>2. /\ keys \in KeySets /\ Hot \in Histories
  <2>1. book \in Books
    BY DEF SoundInv, Current, BookInv
  <2>2. /\ DOMAIN book.tickets \subseteq Tickets /\ DOMAIN book.traces \subseteq Versions
        /\ DOMAIN book.attempts \subseteq Versions
    BY <2>1, BookFields
  <2>3. keys \in KeySets
    BY <2>2 DEF Keys, KeySets
  <2>4. Hot \in Histories
    BY <2>1, BookFields DEF Hot, Histories
  <2> QED
    BY <2>3, <2>4
<1>3. commit \in Commits
  BY <1>2 DEF Commits
<1>4. CommitsOf({commit})
  <2>1. /\ \A t \in keys.tickets : t \in DOMAIN book.tickets /\ ~IsOpen(book.tickets[t])
        /\ keys.traces \subseteq DOMAIN book.traces
        /\ keys.attempts \subseteq DOMAIN book.attempts
    BY <1>1 DEF Eligible
  <2>2. commit.keys = keys /\ commit.source.tickets = book.tickets
        /\ commit.source.traces = book.traces /\ commit.source.attempts = book.attempts
    BY DEF Hot
  <2> HIDE DEF commit
  <2> QED
    BY <2>1, <2>2 DEF CommitsOf
<1> HIDE DEF commit
<1>5. CommitsOf(archives)' /\ archives' \subseteq Commits
  BY <1>1, <1>3, <1>4 DEF SoundInv, Current, CommitsOf
<1>6. BookInv(book, now, away)'
  BY <1>1, Aside DEF SoundInv, Current
<1> QED
  BY <1>1, <1>5, <1>6 DEF SoundInv, Current

\* BeginBoundary: its checkpoint is sound.
LEMMA BeginStep ==
  ASSUME SoundInv, NEW at \in Nat, NEW commands \in 0 .. 1, BeginBoundary(at, commands)
  PROVE  SoundInv'
<1>1. /\ saved' = Checkpoint /\ pc' = "admit" /\ now' = at /\ now <= at
      /\ revision' = revision + commands /\ book' = [book EXCEPT !.opened = {}]
      /\ UNCHANGED <<away, nextTrace, issued, queue, archives, failures>>
  BY DEF BeginBoundary, journal
<1>2. Sound(saved)'
  BY <1>1, CurrentSound DEF SoundInv
<1>3. BookInv(book, at, away)
  BY <1>1, LaterSound DEF SoundInv, Current
<1>4. /\ book' \in Books /\ book'.tickets = book.tickets /\ book'.archived = book.archived
      /\ book'.byDeadline = book.byDeadline /\ book'.byMaker = book.byMaker
      /\ book'.byController = book.byController
  BY <1>1, <1>3 DEF BookInv, Books
<1>5. PICK b : b = book'
  OBVIOUS
<1>6. BookInv(b, at, away)
  BY <1>3, <1>4, <1>5, SameSound
<1>7. BookInv(book, now, away)'
  BY <1>1, <1>5, <1>6
<1>8. revision' \in Nat
  BY <1>1 DEF SoundInv, Current
<1>9. CommitsOf(archives)'
  BY <1>1 DEF SoundInv, Current, CommitsOf
<1> QED
  BY <1>1, <1>2, <1>7, <1>8, <1>9 DEF SoundInv, Current

\* What a step makes of the book.
LEMMA Becomes ==
  ASSUME NEW b, NEW at, NEW gone, BookInv(b, at, gone), b = book', at = now', gone = away'
  PROVE  BookInv(book, now, away)'
OBVIOUS

\* A request taken is a request of the journal.
LEMMA TakenTyped ==
  ASSUME SoundInv, NEW i \in Taken
  PROVE  i \in DOMAIN issued /\ i \in Versions /\ issued[i] \in Requests
         /\ issued[i].mutation \in Mutation /\ issued[i].expected \in Nat
<1>1. DOMAIN issued = 1 .. Len(issued) /\ Len(issued) \in Nat
  BY DEF SoundInv, Current
<1>2. i \in DOMAIN issued /\ i \in Versions
  BY <1>1 DEF SoundInv, Current, Taken, Versions
<1>3. issued[i] \in Requests
  BY <1>2 DEF SoundInv, Current
<1> QED
  BY <1>2, <1>3 DEF Requests

\* RejectDecision: only the attempts grow.
LEMMA RejectStep ==
  ASSUME SoundInv, NEW i \in Taken, RejectDecision(i)
  PROVE  SoundInv'
<1>1. /\ book' = Attempted(book, i, FALSE) /\ queue' = queue \ {i}
      /\ UNCHANGED <<now, revision, away, nextTrace, issued, archives, pc, saved, failures>>
  BY DEF RejectDecision, clock, control
<1>2. i \in Versions /\ book \in Books /\ BookInv(book, now, away)
  BY TakenTyped DEF SoundInv, Current, BookInv
<1>3. PICK b : b = Attempted(book, i, FALSE)
  OBVIOUS
<1>4. /\ b \in Books /\ b.tickets = book.tickets /\ b.archived = book.archived
      /\ b.byDeadline = book.byDeadline /\ b.byMaker = book.byMaker
      /\ b.byController = book.byController
  BY <1>2, <1>3, AttemptedFields
<1>5. BookInv(b, now, away)
  BY <1>2, <1>4, SameSound
<1>6. BookInv(book, now, away)'
  BY <1>1, <1>3, <1>5, Becomes
<1>7. CommitsOf(archives)'
  BY <1>1 DEF SoundInv, Current, CommitsOf
<1> QED
  BY <1>1, <1>6, <1>7 DEF SoundInv, Current

\* AcceptDecision: what the request makes of the book is sound.
LEMMA AcceptStep ==
  ASSUME SoundInv, NEW i \in Taken, AcceptDecision(i)
  PROVE  SoundInv'
<1> DEFINE m == issued[i].mutation
<1>1. /\ book' = Attempted(Applied(m, now), i, TRUE) /\ queue' = queue \ {i}
      /\ Needs(m) \cap away = {} /\ CanApply(m, now)
      /\ nextTrace' \in {nextTrace, nextTrace + 1} /\ revision' \in {revision, revision + 1}
      /\ UNCHANGED <<now, away, issued, archives, pc, saved, failures>>
  BY DEF AcceptDecision, control
<1>2. /\ i \in Versions /\ BookInv(book, now, away) /\ m \in Mutation /\ now \in Nat
      /\ nextTrace \in Versions
  BY TakenTyped DEF SoundInv, Current
<1> HIDE DEF m
<1>3. PICK c : c = Applied(m, now)
  OBVIOUS
<1>4. BookInv(c, now, away) /\ c \in Books
  BY <1>1, <1>2, <1>3, AppliedSound DEF BookInv
<1>5. PICK b : b = Attempted(c, i, TRUE)
  OBVIOUS
<1>6. /\ b \in Books /\ b.tickets = c.tickets /\ b.archived = c.archived
      /\ b.byDeadline = c.byDeadline /\ b.byMaker = c.byMaker
      /\ b.byController = c.byController
  BY <1>2, <1>4, <1>5, AttemptedFields
<1>7. BookInv(b, now, away)
  BY <1>4, <1>6, SameSound
<1>8. BookInv(book, now, away)'
  BY <1>1, <1>3, <1>5, <1>7, Becomes
<1>9. CommitsOf(archives)'
  BY <1>1 DEF SoundInv, Current, CommitsOf
<1>10. nextTrace' \in Versions /\ revision' \in Nat
  BY <1>1 DEF SoundInv, Current, Versions
<1> QED
  BY <1>1, <1>8, <1>9, <1>10 DEF SoundInv, Current

\* A commit that is current archives tickets that are closed.
LEMMA CurrentCommit ==
  ASSUME SoundInv, NEW commit \in archives, commit.source = Hot
  PROVE  /\ commit.keys \in KeySets /\ commit.keys.tickets \subseteq DOMAIN book.tickets
         /\ commit.keys.tickets \cap OpenTickets(book) = {}
         /\ commit.keys.traces \subseteq DOMAIN book.traces
         /\ commit.keys.attempts \subseteq DOMAIN book.attempts
<1>1. commit \in Commits /\ CommitsOf(archives)
  BY DEF SoundInv, Current
<1>2. /\ commit.source.tickets = book.tickets /\ commit.source.traces = book.traces
      /\ commit.source.attempts = book.attempts
  BY DEF Hot
<1> QED
  BY <1>1, <1>2 DEF CommitsOf, Commits, OpenTickets

\* Lineages survive archival.
LEMMA ArchivedSound ==
  ASSUME BookInv(book, now, away), NEW keys \in KeySets,
         keys.tickets \cap OpenTickets(book) = {}
  PROVE  BookInv(Archived(keys), now, away)
<1> DEFINE c == Archived(keys)
<1>1. book \in Books /\ Indexed(book) /\ Lineal(book) /\ Dated(book, now) /\ Present(book, away)
  BY DEF BookInv
<1>2. /\ c \in Books /\ Indexed(c) /\ c.tickets = Keep(book.tickets, keys.tickets)
      /\ c.archived.tickets = book.archived.tickets \cup keys.tickets
  BY <1>1, ArchivedFields
<1> HIDE DEF c
<1>3. /\ DOMAIN c.tickets = DOMAIN book.tickets \ keys.tickets
      /\ \A t \in DOMAIN c.tickets : c.tickets[t] = book.tickets[t]
  BY <1>2 DEF Keep
<1>4. ASSUME NEW t \in DOMAIN c.tickets
      PROVE  c.tickets[t].parent \in c.archived.tickets \cup {None} \/ Follows(c, t)
  BY <1>1, <1>2, <1>3 DEF Lineal, Follows
<1>5. Dated(c, now) /\ Present(c, away)
  BY <1>1, <1>3 DEF Dated, Present, OpenTickets
<1> QED
  BY <1>2, <1>4, <1>5 DEF BookInv, Lineal, c

\* ApplyArchive: a current commit takes closed tickets, a stale one nothing.
LEMMA ArchiveStep ==
  ASSUME SoundInv, NEW commit \in TakenArchives, ApplyArchive(commit)
  PROVE  SoundInv'
<1>1. /\ book' = (IF commit.source = Hot THEN Archived(commit.keys) ELSE book)
      /\ archives' = archives \ {commit} /\ commit \in archives
      /\ UNCHANGED <<now, revision, away, nextTrace, issued, queue, pc, saved, failures>>
  BY DEF ApplyArchive, TakenArchives, clock, control
<1>2. BookInv(book, now, away)
  BY DEF SoundInv, Current
<1>3. CASE commit.source = Hot
  <2>1. commit.keys \in KeySets /\ commit.keys.tickets \cap OpenTickets(book) = {}
    BY <1>1, <1>3, CurrentCommit
  <2>2. PICK b : b = Archived(commit.keys)
    OBVIOUS
  <2>3. BookInv(b, now, away)
    BY <1>2, <2>1, <2>2, ArchivedSound
  <2> QED
    BY <1>1, <1>3, <2>2, <2>3, Becomes DEF SoundInv, Current, CommitsOf
<1>4. CASE commit.source # Hot
  <2>1. BookInv(book, now, away)'
    BY <1>1, <1>2, <1>4, Aside
  <2> QED
    BY <1>1, <2>1 DEF SoundInv, Current, CommitsOf
<1> QED
  BY <1>3, <1>4

\* EndAdmission: expiry keeps the book sound.
LEMMA EndStep ==
  ASSUME SoundInv, EndAdmission
  PROVE  SoundInv'
<1>1. /\ book' = AdvanceTime(book, now) /\ pc' = "systems" /\ pc = "admit"
      /\ UNCHANGED <<now, revision, away, nextTrace, issued, queue, archives, saved, failures>>
  BY DEF EndAdmission, clock, journal
<1>2. PICK b : b = AdvanceTime(book, now)
  OBVIOUS
<1>3. BookInv(b, now, away)
  BY <1>2, AdvanceSound DEF SoundInv, Current
<1>4. BookInv(book, now, away)'
  BY <1>1, <1>2, <1>3, Becomes
<1>5. CommitsOf(archives)' /\ Sound(saved)'
  BY <1>1 DEF SoundInv, Current
<1> QED
  BY <1>1, <1>4, <1>5 DEF SoundInv, Current

\* ResolveAtRandom.
LEMMA RandomStep ==
  ASSUME SoundInv, NEW id \in DOMAIN book.tickets, NEW acts \in BOOLEAN,
         ResolveAtRandom(id, acts)
  PROVE  SoundInv'
<1> DEFINE ticket == book.tickets[id]
           m == [kind |-> "resolve", ticket |-> id, version |-> ticket.version,
                 controller |-> ticket.controller, selects |-> TRUE, acts |-> acts]
           r == [due |-> now, expected |-> revision + 1, mutation |-> m]
<1>1. /\ Issue(r) /\ UNCHANGED <<now, revision, book, away, nextTrace, pc, saved, failures>>
      /\ UNCHANGED archives
  BY DEF ResolveAtRandom, Issue, clock, decided, control
<1>2. m \in Mutation
  <2>1. id \in Tickets /\ ticket \in Ticket
    BY BookFields DEF SoundInv, Current, BookInv
  <2>2. ticket.version \in Versions /\ ticket.controller \in Controllers
    BY <2>1 DEF Ticket
  <2>3. m \in [kind : {"resolve"}, ticket : Tickets, version : Versions,
               controller : Controllers, selects : BOOLEAN, acts : BOOLEAN]
    BY <2>1, <2>2
  <2> HIDE DEF m
  <2> QED
    BY <2>3 DEF Mutation
<1> HIDE DEF m
<1>3. r \in Requests
  BY <1>2 DEF Requests, SoundInv, Current
<1> HIDE DEF r
<1>4. issued' \in Seq(Requests) /\ queue' \subseteq DOMAIN issued'
  BY <1>1, <1>3, IssueKeeps DEF SoundInv, Current
<1>5. BookInv(book, now, away)'
  BY <1>1, Aside DEF SoundInv, Current
<1>6. CommitsOf(archives)'
  BY <1>1 DEF SoundInv, Current, CommitsOf
<1> QED
  BY <1>1, <1>4, <1>5, <1>6 DEF SoundInv, Current

\* Commit: the sweep leaves nobody waiting for those who left.
LEMMA CommitStep ==
  ASSUME SoundInv, NEW gone \in SUBSET People, NEW back \in SUBSET People, Commit(gone, back)
  PROVE  SoundInv'
<1>1. /\ away' = (away \cup gone) \ back /\ book' = Swept(book, gone)
      /\ revision' = revision + 1 /\ pc' = "idle"
      /\ UNCHANGED <<now, nextTrace, issued, queue, archives, failures>>
  BY DEF Commit, journal
<1>2. PICK b : b = Swept(book, gone)
  OBVIOUS
<1>3. BookInv(b, now, (away \cup gone) \ back)
  BY <1>2, SweepSound DEF SoundInv, Current
<1>4. BookInv(book, now, away)'
  BY <1>1, <1>2, <1>3, Becomes
<1>5. CommitsOf(archives)'
  BY <1>1 DEF SoundInv, Current, CommitsOf
<1>6. revision' \in Nat
  BY <1>1 DEF SoundInv, Current
<1> QED
  BY <1>1, <1>4, <1>5, <1>6 DEF SoundInv, Current

\* FailBoundary: the checkpoint is sound.
LEMMA FailStep ==
  ASSUME SoundInv, FailBoundary
  PROVE  SoundInv'
<1>1. RestoreBoundary /\ pc' = "idle" /\ failures' = failures + 1 /\ pc # "idle"
  BY DEF FailBoundary
<1>2. Current'
  BY <1>1, RestoreSound DEF SoundInv
<1> QED
  BY <1>1, <1>2 DEF SoundInv

\* Together.
LEMMA SoundStep ==
  ASSUME SoundInv, [Next]_vars
  PROVE  SoundInv'
<1>1. now \in Nat
  BY DEF SoundInv, Current
<1>2. CASE HostSteps
  BY <1>2, AdvanceStep, EnqueueDecisionStep, EnqueueArchiveStep, BeginStep DEF HostSteps
<1>3. CASE Boundary
  BY <1>3, RejectStep, AcceptStep, ArchiveStep, EndStep, RandomStep, CommitStep, FailStep
     DEF Boundary
<1>4. CASE UNCHANGED vars
  <2>1. BookInv(book, now, away)'
    BY <1>4, Aside DEF SoundInv, Current, vars
  <2>2. CommitsOf(archives)' /\ (pc # "idle" => Sound(saved))'
    BY <1>4 DEF vars, SoundInv, Current
  <2> QED
    BY <1>4, <2>1, <2>2 DEF vars, SoundInv, Current
<1> QED
  BY <1>1, <1>2, <1>3, <1>4, Steps

\* The empty book is sound.
LEMMA SoundInit ==
  ASSUME Init
  PROVE  SoundInv
<1>1. /\ now = 0 /\ revision = 0 /\ book = EmptyBook /\ away = {} /\ nextTrace = 1
      /\ issued = <<>> /\ queue = {} /\ archives = {} /\ pc = "idle" /\ failures = 0
  BY DEF Init
<1>2. DOMAIN Nothing = {} /\ \A K, V : Nothing \in Maps(K, V)
  <2>1. DOMAIN Nothing = {} /\ Nothing = [k \in DOMAIN Nothing |-> Nothing[k]]
    BY DEF Nothing
  <2> QED
    BY <2>1, MapsAre
<1>3. /\ book \in Books /\ book.tickets = Nothing /\ book.byDeadline = {}
      /\ book.byMaker = {} /\ book.byController = {}
  BY <1>1, <1>2, DecisionsAssumption DEF EmptyBook, NoKeys, Books, KeySets
<1>4. BookInv(book, now, away)
  BY <1>2, <1>3 DEF BookInv, Indexed, Lineal, Dated, Present, OpenTickets
<1>5. <<>> \in Seq(Requests) /\ DOMAIN <<>> = {}
  OBVIOUS
<1> QED
  BY <1>1, <1>4, <1>5 DEF SoundInv, Current, CommitsOf, Versions

\* The indexes are determined by what they hold.
LEMMA IndexesAre ==
  ASSUME book \in Books, Indexed(book)
  PROVE  IndexesAgree
<1> DEFINE open == {t \in DOMAIN book.tickets : IsOpen(book.tickets[t])}
<1>1. /\ open = OpenTickets(book) /\ open \subseteq Tickets
      /\ \A t \in open : book.tickets[t] \in Ticket
      /\ book.byDeadline \subseteq Nat \X Tickets
      /\ book.byMaker \subseteq Makers \X Tickets
      /\ book.byController \subseteq Controllers \X Tickets
  BY BookFields DEF OpenTickets
<1>2. \A t \in open : /\ book.tickets[t].maker \in Makers
                      /\ book.tickets[t].controller \in Controllers
                      /\ book.tickets[t].deadline \in Nat \cup {None}
  BY <1>1 DEF Ticket, Deadlines
<1>3. /\ \A d \in Nat, t \in Tickets :
            <<d, t>> \in book.byDeadline <=> t \in open /\ book.tickets[t].deadline = d
      /\ \A m \in Makers, t \in Tickets :
            <<m, t>> \in book.byMaker <=> t \in open /\ book.tickets[t].maker = m
      /\ \A c \in Controllers, t \in Tickets :
            <<c, t>> \in book.byController <=> t \in open /\ book.tickets[t].controller = c
  BY <1>1 DEF Indexed
<1>4. None \notin Nat
  BY DecisionsAssumption
<1> HIDE DEF open
<1>5. book.byDeadline = UNION {DeadlineEntry(t, book.tickets[t]) : t \in open}
  <2>1. \A e \in book.byDeadline : /\ e = <<e[1], e[2]>> /\ e[1] \in Nat /\ e[2] \in Tickets
    BY <1>1
  <2>2. ASSUME NEW e \in book.byDeadline
        PROVE  e \in UNION {DeadlineEntry(t, book.tickets[t]) : t \in open}
    <3>1. e[2] \in open /\ book.tickets[e[2]].deadline = e[1]
      BY <1>3, <2>1
    <3>2. e \in DeadlineEntry(e[2], book.tickets[e[2]])
      BY <1>4, <2>1, <3>1 DEF DeadlineEntry
    <3> QED
      BY <3>1, <3>2
  <2>3. ASSUME NEW t \in open, NEW e \in DeadlineEntry(t, book.tickets[t])
        PROVE  e \in book.byDeadline
    <3>1. /\ book.tickets[t].deadline \in Nat /\ e = <<book.tickets[t].deadline, t>>
          /\ t \in Tickets
      BY <1>1, <1>2 DEF DeadlineEntry
    <3> QED
      BY <1>3, <3>1
  <2> QED
    BY <2>2, <2>3
<1>6. book.byMaker = {<<book.tickets[t].maker, t>> : t \in open}
  BY <1>1, <1>2, <1>3
<1>7. book.byController = {<<book.tickets[t].controller, t>> : t \in open}
  BY <1>1, <1>2, <1>3
<1> QED
  BY <1>5, <1>6, <1>7 DEF IndexesAgree, open

\* A sound state has all that BookSound asks for.
LEMMA SoundGives ==
  ASSUME SoundInv
  PROVE  BookSound
<1>1. /\ Current /\ book \in Books /\ Indexed(book) /\ Lineal(book) /\ Present(book, away)
  BY DEF SoundInv, Current, BookInv
<1>2. TypeOK
  <2>1. BookOK(book)
    <3>1. /\ book.controllers \subseteq Controllers /\ book.opened \subseteq Tickets
          /\ DOMAIN book.tickets \subseteq Tickets
          /\ \A t \in DOMAIN book.tickets : book.tickets[t] \in Ticket
          /\ book.byDeadline \subseteq Nat \X Tickets
          /\ book.byMaker \subseteq Makers \X Tickets
          /\ book.byController \subseteq Controllers \X Tickets
      BY <1>1, BookFields
    <3>2. /\ DOMAIN book.traces \subseteq Versions
          /\ \A i \in DOMAIN book.traces : book.traces[i] \in Trace
          /\ DOMAIN book.attempts \subseteq Versions
          /\ \A i \in DOMAIN book.attempts : book.attempts[i] \in BOOLEAN
          /\ book.archived \in KeySets
      BY <1>1, BookFields
    <3> QED
      BY <3>1, <3>2 DEF BookOK, KeySets
  <2>2. \A i \in DOMAIN issued : /\ issued[i].due \in Nat /\ issued[i].expected \in Nat
                                 /\ issued[i].mutation \in Mutation
    <3>1. \A i \in DOMAIN issued : issued[i] \in Requests
      BY <1>1 DEF Current
    <3> QED
      BY <3>1 DEF Requests
  <2> QED
    BY <2>1, <2>2 DEF TypeOK, SoundInv, Current
<1>3. IndexesAgree
  BY <1>1, IndexesAre
<1>4. Lineage
  BY <1>1 DEF Lineal, Lineage, Follows
<1>5. NoneForTheAway
  <2>1. \A t \in DOMAIN book.tickets : IsOpen(book.tickets[t]) =>
           /\ book.tickets[t].maker \notin away
           /\ Authority[book.tickets[t].controller] \notin away
    BY <1>1 DEF Present, OpenTickets
  <2> QED
    BY <2>1 DEF NoneForTheAway
<1> QED
  BY <1>2, <1>3, <1>4, <1>5 DEF BookSound

\* In every state a boundary or a failure leaves, and in every state within one, the
\* decision book can be searched: its indexes hold exactly the open tickets, each ticket
\* follows a closed one of its maker or seat, and nobody away is waited for.
THEOREM BookKept == Spec => []BookSound
<1>1. Spec => []SoundInv
  BY SoundInit, SoundStep, PTL DEF Spec
<1>2. SoundInv => BookSound
  BY SoundGives
<1> QED
  BY <1>1, <1>2, PTL

-----------------------------------------------------------------------------
(* The inductive invariant, of a state s: the current one, or the one a    *)
(* boundary may go back to.                                                *)

AcceptedIn(b, i) == i \in DOMAIN b.attempts /\ b.attempts[i]

\* AnsweredOnce and HotOrArchived.
Answered(s) ==
    LET answered == DOMAIN s.book.attempts \cup s.book.archived.attempts IN
    s.queue \cap answered = {} /\ s.queue \cup answered = DOMAIN s.issued

Apart(b) ==
    /\ DOMAIN b.traces \cap b.archived.traces = {}
    /\ DOMAIN b.attempts \cap b.archived.attempts = {}

\* A resolved ticket is explained by the trace it names.
Explained(b, t) ==
    LET x == b.tickets[t] IN
    \/ x.trace \in b.archived.traces
    \/ /\ x.trace \in DOMAIN b.traces
       /\ b.traces[x.trace] = [ticket |-> t, version |-> x.version - 1, selects |-> TRUE]

\* Tickets hot and archived at once: they were opened again.
Again(b) == DOMAIN b.tickets \cap b.archived.tickets

\* A trace is of a ticket in history, and one that selects is the one it names, unless
\* the ticket was opened again.
Accounts(b, i) ==
    LET t == b.traces[i].ticket IN
    /\ t \in DOMAIN b.tickets \cup b.archived.tickets
    /\ t \in DOMAIN b.tickets \ Again(b) /\ b.traces[i].selects
          => b.tickets[t].state = "resolved" /\ b.tickets[t].trace = i

\* TracesResolve
Traced(b, next) ==
    /\ DOMAIN b.traces \cup b.archived.traces = 1 .. next - 1
    /\ \A t \in DOMAIN b.tickets : b.tickets[t].state = "resolved" => Explained(b, t)
    /\ \A i \in DOMAIN b.traces : Accounts(b, i)

\* The version an accepted request changed is past, and so is the revision one that
\* acts was prepared at.
Overtaken(s, i) ==
    LET m == s.issued[i].mutation IN
    /\ m.kind \in Versioned =>
          \/ m.ticket \in s.book.archived.tickets
          \/ /\ m.ticket \in DOMAIN s.book.tickets
             /\ s.book.tickets[m.ticket].version > m.version
    /\ m.kind = "resolve" /\ m.acts => s.issued[i].expected < s.revision

\* Two requests that cannot both be accepted in book b.
Exclude(b, r, q) ==
    \/ /\ r.mutation.kind \in Versioned /\ q.mutation.kind \in Versioned
       /\ r.mutation.ticket = q.mutation.ticket /\ r.mutation.version = q.mutation.version
       /\ r.mutation.ticket \notin Again(b)
    \/ /\ r.mutation.kind = "resolve" /\ q.mutation.kind = "resolve"
       /\ r.mutation.acts /\ q.mutation.acts /\ r.expected = q.expected

\* OneChangePerVersion
ChangesOnce(s) ==
    \A i, j \in DOMAIN s.issued :
        i # j /\ AcceptedIn(s.book, i) /\ AcceptedIn(s.book, j)
            => ~Exclude(s.book, s.issued[i], s.issued[j])

\* The tickets a commit was prepared from are in history, at that version or later.
Known(s) ==
    \A a \in s.archives : \A t \in DOMAIN a.source.tickets :
        \/ t \in s.book.archived.tickets
        \/ /\ t \in DOMAIN s.book.tickets
           /\ a.source.tickets[t].version <= s.book.tickets[t].version

\* The requests a commit's source answered are answered.
Answers(s) == \A a \in s.archives : DOMAIN a.source.attempts \subseteq DOMAIN s.issued \ s.queue

HistoryInv(s) ==
    /\ Answered(s) /\ Apart(s.book) /\ Traced(s.book, s.nextTrace)
    /\ \A i \in DOMAIN s.issued : AcceptedIn(s.book, i) => Overtaken(s, i)
    /\ ChangesOnce(s) /\ Known(s) /\ Answers(s)

\* Once the boundary opened a ticket, hot history has an answer that was in no commit's
\* source.
BatchInv ==
    book.opened # {} =>
        \E i \in DOMAIN book.attempts : \A a \in archives : i \notin DOMAIN a.source.attempts

HistInv ==
    /\ HistoryInv(Checkpoint)
    /\ pc = "admit" => BatchInv
    /\ pc # "idle" => HistoryInv(saved)

-----------------------------------------------------------------------------
(* Tickets that age: time expires them, or a sweep cancels them.           *)

Ages(x, y) == y = x \/ (IsOpen(x) /\ y.version > x.version /\ y.state # "resolved")

\* A ticket that expires or is cancelled ages.
LEMMA ClosedAges ==
  ASSUME NEW b \in Books, NEW t \in OpenTickets(b), NEW at \in Nat
  PROVE  Ages(b.tickets[t], Expired(b, t, at)) /\ Ages(b.tickets[t], Cancelled(b, t, at))
<1> DEFINE x == b.tickets[t]
           y == Bumped(b, t, at)
<1>1. t \in DOMAIN b.tickets /\ IsOpen(x)
  BY DEF OpenTickets
<1>2. x \in Ticket /\ y \in Ticket /\ y.version = x.version + 1
  BY <1>1, BumpedTyped
<1>3. x.version \in Nat
  BY <1>2 DEF Ticket, Versions
<1> HIDE DEF y
<1> QED
  BY <1>1, <1>2, <1>3 DEF Ages, Expired, Cancelled, Ticket, y

\* So do those time advances over.
LEMMA AdvanceAges ==
  ASSUME NEW b \in Books, Indexed(b), NEW at \in Nat, NEW c, c = AdvanceTime(b, at)
  PROVE  /\ SameRest(b, c) /\ DOMAIN c.tickets = DOMAIN b.tickets
         /\ \A t \in DOMAIN b.tickets : Ages(b.tickets[t], c.tickets[t])
<1>1. /\ SameRest(b, c) /\ DOMAIN c.tickets = DOMAIN b.tickets
      /\ \A t \in Late(b, at) : c.tickets[t] = Expired(b, t, at)
      /\ \A t \in DOMAIN b.tickets \ Late(b, at) : c.tickets[t] = b.tickets[t]
  BY AdvanceFields
<1>2. \A t \in Late(b, at) : Ages(b.tickets[t], Expired(b, t, at))
  BY ClosedAges DEF Late
<1> QED
  BY <1>1, <1>2 DEF Ages

\* And those a sweep cancels.
LEMMA SweptAges ==
  ASSUME NEW b \in Books, Indexed(b), now \in Nat, NEW gone, NEW c, c = Swept(b, gone)
  PROVE  /\ SameRest(b, c) /\ DOMAIN c.tickets = DOMAIN b.tickets
         /\ \A t \in DOMAIN b.tickets : Ages(b.tickets[t], c.tickets[t])
<1>1. /\ SameRest(b, c) /\ DOMAIN c.tickets = DOMAIN b.tickets
      /\ \A t \in Missed(b, gone) : c.tickets[t] = Cancelled(b, t, now)
      /\ \A t \in DOMAIN b.tickets \ Missed(b, gone) : c.tickets[t] = b.tickets[t]
  BY SweptFields
<1>2. \A t \in Missed(b, gone) : Ages(b.tickets[t], Cancelled(b, t, now))
  BY ClosedAges DEF Missed
<1> QED
  BY <1>1, <1>2 DEF Ages

\* History that ages stays history.
LEMMA AgesKeep ==
  ASSUME NEW s, NEW z, HistoryInv(s),
         s.book \in Books, z.book \in Books, s.issued \in Seq(Requests),
         s.archives \subseteq Commits,
         s.revision \in Nat, z.revision \in Nat, s.revision <= z.revision,
         z.issued = s.issued, z.queue = s.queue, z.archives = s.archives,
         z.nextTrace = s.nextTrace, z.book.traces = s.book.traces,
         z.book.attempts = s.book.attempts, z.book.archived = s.book.archived,
         DOMAIN z.book.tickets = DOMAIN s.book.tickets,
         \A t \in DOMAIN s.book.tickets : Ages(s.book.tickets[t], z.book.tickets[t])
  PROVE  HistoryInv(z)
<1>1. /\ Answered(s) /\ Apart(s.book) /\ Traced(s.book, s.nextTrace) /\ ChangesOnce(s)
      /\ Known(s) /\ Answers(s)
      /\ \A i \in DOMAIN s.issued : AcceptedIn(s.book, i) => Overtaken(s, i)
  BY DEF HistoryInv
<1>2. Answered(z) /\ Apart(z.book) /\ Answers(z) /\ Again(z.book) = Again(s.book)
  BY <1>1 DEF Answered, Apart, Answers, Again
<1>3. \A t \in DOMAIN s.book.tickets :
         /\ s.book.tickets[t].version \in Nat /\ z.book.tickets[t].version \in Nat
         /\ s.book.tickets[t].version <= z.book.tickets[t].version
  <2>1. \A t \in DOMAIN s.book.tickets :
           s.book.tickets[t] \in Ticket /\ z.book.tickets[t] \in Ticket
    BY BookFields
  <2>2. \A t \in DOMAIN s.book.tickets :
           s.book.tickets[t].version \in Nat /\ z.book.tickets[t].version \in Nat
    BY <2>1 DEF Ticket, Versions
  <2> QED
    BY <2>2 DEF Ages
<1>4. Traced(z.book, z.nextTrace)
  <2>1. ASSUME NEW t \in DOMAIN z.book.tickets, z.book.tickets[t].state = "resolved"
        PROVE  Explained(z.book, t)
    <3>1. z.book.tickets[t] = s.book.tickets[t]
      BY <2>1 DEF Ages
    <3> QED
      BY <1>1, <2>1, <3>1 DEF Traced, Explained
  <2>2. ASSUME NEW i \in DOMAIN z.book.traces PROVE Accounts(z.book, i)
    <3>1. Accounts(s.book, i)
      BY <1>1 DEF Traced
    <3> QED
      BY <1>2, <3>1 DEF Accounts, Ages, IsOpen
  <2> QED
    BY <1>1, <2>1, <2>2 DEF Traced
<1>5. ASSUME NEW i \in DOMAIN z.issued, AcceptedIn(z.book, i) PROVE Overtaken(z, i)
  <2> DEFINE m == s.issued[i].mutation
  <2>1. Overtaken(s, i)
    BY <1>1, <1>5 DEF AcceptedIn
  <2>2. s.issued[i] \in Requests
    OBVIOUS
  <2>3. m \in Mutation /\ s.issued[i].expected \in Nat
    BY <2>2 DEF Requests
  <2>4. m.kind \in Versioned => m.version \in Nat
    BY <2>3, MutationKinds DEF Versions
  <2>5. /\ m.kind \in Versioned =>
              \/ m.ticket \in s.book.archived.tickets
              \/ /\ m.ticket \in DOMAIN s.book.tickets
                 /\ s.book.tickets[m.ticket].version > m.version
        /\ m.kind = "resolve" /\ m.acts => s.issued[i].expected < s.revision
    BY <2>1 DEF Overtaken
  <2> HIDE DEF m
  <2>6. m.kind \in Versioned =>
           \/ m.ticket \in s.book.archived.tickets
           \/ /\ m.ticket \in DOMAIN z.book.tickets
              /\ z.book.tickets[m.ticket].version > m.version
    BY <1>3, <2>4, <2>5
  <2>7. m.kind = "resolve" /\ m.acts => s.issued[i].expected < z.revision
    BY <2>3, <2>5
  <2> QED
    BY <2>6, <2>7 DEF Overtaken, m
<1>6. ChangesOnce(z)
  BY <1>1, <1>2 DEF ChangesOnce, AcceptedIn, Exclude
<1>7. Known(z)
  <2> SUFFICES ASSUME NEW a \in z.archives, NEW t \in DOMAIN a.source.tickets,
                      t \notin z.book.archived.tickets
               PROVE  /\ t \in DOMAIN z.book.tickets
                      /\ a.source.tickets[t].version <= z.book.tickets[t].version
    BY DEF Known
  <2>1. /\ t \in DOMAIN s.book.tickets
        /\ a.source.tickets[t].version <= s.book.tickets[t].version
    BY <1>1 DEF Known
  <2>2. a.source.tickets \in Maps(Tickets, Ticket)
    BY DEF Commits, Histories
  <2>3. a.source.tickets[t] \in Ticket
    BY <2>2, MapsAre
  <2>4. a.source.tickets[t].version \in Nat
    BY <2>3 DEF Ticket, Versions
  <2> QED
    BY <1>3, <2>1, <2>4
<1> QED
  BY <1>2, <1>4, <1>5, <1>6, <1>7 DEF HistoryInv

-----------------------------------------------------------------------------
(* A request that is accepted.                                             *)

LEMMA CheckpointParts ==
  /\ Checkpoint.book = book /\ Checkpoint.issued = issued /\ Checkpoint.queue = queue
  /\ Checkpoint.archives = archives /\ Checkpoint.now = now
  /\ Checkpoint.revision = revision /\ Checkpoint.nextTrace = nextTrace
BY DEF Checkpoint

\* The state in which request i was accepted and led to book c, before time advances.
Took(i, c, z) ==
    LET m == issued[i].mutation
        resolves == m.kind = "resolve"
    IN
    /\ z.book \in Books /\ z.book.tickets = c.tickets /\ z.book.traces = c.traces
    /\ z.book.archived = c.archived /\ z.book.attempts = With(c.attempts, i, TRUE)
    /\ z.issued = issued /\ z.queue = queue \ {i} /\ z.archives = archives /\ z.now = now
    /\ z.nextTrace = (IF resolves THEN nextTrace + 1 ELSE nextTrace)
    /\ z.revision = (IF resolves /\ m.acts THEN revision + 1 ELSE revision)

\* What can be said of it whatever the request was.
LEMMA TookRest ==
  ASSUME SoundInv, HistoryInv(Checkpoint), NEW i \in Taken, UpToDate(i),
         CanApply(issued[i].mutation, now), NEW c \in Books, NEW z, Took(i, c, z),
         c.attempts = book.attempts, c.archived = book.archived,
         \A t \in DOMAIN book.tickets :
            t \in DOMAIN c.tickets /\ book.tickets[t].version <= c.tickets[t].version,
         Overtaken(z, i)
  PROVE  /\ Answered(z) /\ Known(z) /\ ChangesOnce(z) /\ Answers(z)
         /\ DOMAIN z.book.attempts \cap z.book.archived.attempts = {}
         /\ \A j \in DOMAIN z.issued : AcceptedIn(z.book, j) => Overtaken(z, j)
<1>1. /\ Answered(Checkpoint) /\ Apart(book) /\ ChangesOnce(Checkpoint) /\ Known(Checkpoint)
      /\ Answers(Checkpoint)
      /\ \A j \in DOMAIN issued : AcceptedIn(book, j) => Overtaken(Checkpoint, j)
  BY CheckpointParts DEF HistoryInv
<1>2. /\ book \in Books /\ issued \in Seq(Requests) /\ archives \subseteq Commits
      /\ revision \in Nat /\ i \in DOMAIN issued /\ i \in queue
      /\ issued[i].mutation \in Mutation /\ issued[i].expected = revision
  BY TakenTyped DEF SoundInv, Current, BookInv, Taken, UpToDate
<1>3. /\ z.book \in Books /\ z.book.tickets = c.tickets /\ z.book.archived = book.archived
      /\ z.book.attempts = With(book.attempts, i, TRUE)
      /\ z.issued = issued /\ z.queue = queue \ {i} /\ z.archives = archives
      /\ z.revision \in {revision, revision + 1}
  BY DEF Took
<1>4. /\ DOMAIN z.book.attempts = DOMAIN book.attempts \cup {i}
      /\ \A j : AcceptedIn(z.book, j) <=> j = i \/ AcceptedIn(book, j)
  <2>1. \A j \in DOMAIN book.attempts : j # i => z.book.attempts[j] = book.attempts[j]
    BY <1>3 DEF With
  <2>2. DOMAIN z.book.attempts = DOMAIN book.attempts \cup {i} /\ z.book.attempts[i] = TRUE
    BY <1>3 DEF With
  <2> QED
    BY <2>1, <2>2 DEF AcceptedIn
<1>5. Answered(z) /\ DOMAIN z.book.attempts \cap z.book.archived.attempts = {}
  <2> DEFINE answered == DOMAIN book.attempts \cup book.archived.attempts
  <2>1. queue \cap answered = {} /\ queue \cup answered = DOMAIN issued
    BY <1>1, CheckpointParts DEF Answered
  <2>2. DOMAIN book.attempts \cap book.archived.attempts = {}
    BY <1>1 DEF Apart
  <2>3. /\ DOMAIN z.book.attempts \cup z.book.archived.attempts = answered \cup {i}
        /\ z.queue = queue \ {i} /\ z.issued = issued
    BY <1>3, <1>4
  <2>4. Answered(z)
    BY <1>2, <2>1, <2>3 DEF Answered
  <2> QED
    BY <1>2, <1>3, <1>4, <2>1, <2>2, <2>4
<1>6. \A t \in DOMAIN book.tickets :
         book.tickets[t].version \in Nat /\ c.tickets[t].version \in Nat
  <2>1. \A t \in DOMAIN book.tickets : book.tickets[t] \in Ticket /\ c.tickets[t] \in Ticket
    BY <1>2, BookFields
  <2> QED
    BY <2>1 DEF Ticket, Versions
<1>7. Known(z)
  <2> SUFFICES ASSUME NEW a \in z.archives, NEW t \in DOMAIN a.source.tickets,
                      t \notin z.book.archived.tickets
               PROVE  /\ t \in DOMAIN z.book.tickets
                      /\ a.source.tickets[t].version <= z.book.tickets[t].version
    BY DEF Known
  <2>1. /\ t \in DOMAIN book.tickets
        /\ a.source.tickets[t].version <= book.tickets[t].version
    BY <1>1, <1>3, CheckpointParts DEF Known
  <2>2. a.source.tickets \in Maps(Tickets, Ticket)
    BY <1>2, <1>3 DEF Commits, Histories
  <2>3. a.source.tickets[t] \in Ticket
    BY <2>2, MapsAre
  <2>4. a.source.tickets[t].version \in Nat
    BY <2>3 DEF Ticket, Versions
  <2> QED
    BY <1>3, <1>6, <2>1, <2>4
<1>8. ASSUME NEW j \in DOMAIN issued, AcceptedIn(book, j)
      PROVE  /\ Overtaken(z, j)
             /\ LET n == issued[j].mutation IN
                /\ n.kind \in Versioned =>
                      \/ n.ticket \in book.archived.tickets
                      \/ /\ n.ticket \in DOMAIN book.tickets
                         /\ book.tickets[n.ticket].version > n.version
                /\ n.kind = "resolve" /\ n.acts => issued[j].expected < revision
  <2> DEFINE n == issued[j].mutation
  <2>1. issued[j] \in Requests
    BY <1>2
  <2>2. n \in Mutation /\ issued[j].expected \in Nat
    BY <2>1 DEF Requests
  <2>3. n.kind \in Versioned => n.version \in Nat
    BY <2>2, MutationKinds DEF Versions
  <2>4. Overtaken(Checkpoint, j)
    BY <1>1, <1>8
  <2>5. /\ n.kind \in Versioned =>
              \/ n.ticket \in book.archived.tickets
              \/ /\ n.ticket \in DOMAIN book.tickets
                 /\ book.tickets[n.ticket].version > n.version
        /\ n.kind = "resolve" /\ n.acts => issued[j].expected < revision
    BY <2>4, CheckpointParts DEF Overtaken
  <2> HIDE DEF n
  <2>6. n.kind \in Versioned =>
           \/ n.ticket \in book.archived.tickets
           \/ /\ n.ticket \in DOMAIN c.tickets
              /\ c.tickets[n.ticket].version > n.version
    BY <1>6, <2>3, <2>5
  <2>7. n.kind = "resolve" /\ n.acts => issued[j].expected < z.revision
    BY <1>2, <1>3, <2>2, <2>5
  <2>8. Overtaken(z, j)
    BY <1>3, <2>6, <2>7 DEF Overtaken, n
  <2> QED
    BY <2>5, <2>8 DEF n
<1>9. ASSUME NEW j \in DOMAIN issued, AcceptedIn(book, j)
      PROVE  ~Exclude(z.book, issued[i], issued[j]) /\ ~Exclude(z.book, issued[j], issued[i])
  <2> DEFINE m == issued[i].mutation
             n == issued[j].mutation
  <2>1. m.kind \in Versioned => /\ m.ticket \in DOMAIN book.tickets
                                /\ book.tickets[m.ticket].version = m.version
    BY DEF CanApply, CanExtend, CanReassign, CanResolve, OpenAtVersion, Versioned
  <2>2. /\ n.kind \in Versioned =>
              \/ n.ticket \in book.archived.tickets
              \/ /\ n.ticket \in DOMAIN book.tickets
                 /\ book.tickets[n.ticket].version > n.version
        /\ n.kind = "resolve" /\ n.acts => issued[j].expected < revision
    BY <1>8, <1>9
  <2>3. n \in Mutation
    <3>1. issued[j] \in Requests
      BY <1>2
    <3> QED
      BY <3>1 DEF Requests
  <2>4. n.kind \in Versioned => n.version \in Nat
    BY <2>3, MutationKinds DEF Versions
  <2>5. m.kind \in Versioned /\ m.ticket \in book.archived.tickets => m.ticket \in Again(z.book)
    BY <1>3, <2>1 DEF Again
  <2> HIDE DEF m, n
  <2>6. ~(/\ m.kind \in Versioned /\ n.kind \in Versioned
          /\ m.ticket = n.ticket /\ m.version = n.version /\ m.ticket \notin Again(z.book))
    BY <1>6, <2>1, <2>2, <2>4, <2>5
  <2>7. ~(n.kind = "resolve" /\ n.acts /\ issued[j].expected = issued[i].expected)
    BY <1>2, <2>2
  <2> QED
    BY <2>6, <2>7 DEF Exclude, m, n
<1>10. ChangesOnce(z)
  <2> SUFFICES ASSUME NEW j \in DOMAIN issued, NEW k \in DOMAIN issued, j # k,
                      AcceptedIn(z.book, j), AcceptedIn(z.book, k)
               PROVE  ~Exclude(z.book, issued[j], issued[k])
    BY <1>3 DEF ChangesOnce
  <2>1. CASE j = i
    BY <1>4, <1>9, <2>1
  <2>2. CASE k = i
    BY <1>4, <1>9, <2>2
  <2>3. CASE j # i /\ k # i
    <3>1. ~Exclude(book, issued[j], issued[k])
      BY <1>1, <1>4, <2>3, CheckpointParts DEF ChangesOnce
    <3>2. Again(book) \subseteq Again(z.book)
      BY <1>3 DEF Again
    <3> QED
      BY <3>1, <3>2 DEF Exclude
  <2> QED
    BY <2>1, <2>2, <2>3
<1>11. \A j \in DOMAIN z.issued : AcceptedIn(z.book, j) => Overtaken(z, j)
  BY <1>3, <1>4, <1>8
<1>12. Answers(z)
  BY <1>1, <1>3, CheckpointParts DEF Answers
<1> QED
  BY <1>5, <1>7, <1>10, <1>11, <1>12

\* A registration changes no ticket.
LEMMA TookRegisters ==
  ASSUME SoundInv, HistoryInv(Checkpoint), NEW i \in Taken, UpToDate(i),
         CanApply(issued[i].mutation, now), NEW c \in Books,
         Registers(issued[i].mutation, c), NEW z, Took(i, c, z)
  PROVE  HistoryInv(z)
<1> DEFINE m == issued[i].mutation
<1>1. /\ Apart(book) /\ Traced(book, nextTrace)
  BY CheckpointParts DEF HistoryInv
<1>2. /\ m.kind = "register" /\ c.tickets = book.tickets /\ c.traces = book.traces
      /\ c.attempts = book.attempts /\ c.archived = book.archived
  BY DEF Registers
<1>3. /\ z.book.tickets = book.tickets /\ z.book.traces = book.traces
      /\ z.book.archived = book.archived /\ z.issued = issued /\ z.queue = queue \ {i}
      /\ z.now = now /\ z.nextTrace = nextTrace
  BY <1>2 DEF Took
<1>4. Overtaken(z, i)
  BY <1>2, <1>3 DEF Overtaken, Versioned
<1>5. \A t \in DOMAIN book.tickets :
         t \in DOMAIN c.tickets /\ book.tickets[t].version <= c.tickets[t].version
  <2>1. \A t \in DOMAIN book.tickets : book.tickets[t] \in Ticket
    BY BookFields DEF SoundInv, Current, BookInv
  <2>2. \A t \in DOMAIN book.tickets : book.tickets[t].version \in Nat
    BY <2>1 DEF Ticket, Versions
  <2> QED
    BY <1>2, <2>2
<1>6. /\ Answered(z) /\ Known(z) /\ ChangesOnce(z) /\ Answers(z)
      /\ DOMAIN z.book.attempts \cap z.book.archived.attempts = {}
      /\ \A j \in DOMAIN z.issued : AcceptedIn(z.book, j) => Overtaken(z, j)
  BY <1>2, <1>4, <1>5, TookRest
<1>7. Apart(z.book)
  BY <1>1, <1>3, <1>6 DEF Apart
<1>8. Traced(z.book, z.nextTrace)
  BY <1>1, <1>3 DEF Traced, Explained, Accounts, Again
<1> QED
  BY <1>6, <1>7, <1>8 DEF HistoryInv

\* An opened ticket is new to hot history; traces of its ID are those of an archived one.
LEMMA TookOpens ==
  ASSUME SoundInv, HistoryInv(Checkpoint), NEW i \in Taken, UpToDate(i),
         CanApply(issued[i].mutation, now), NEW c \in Books,
         Opens(issued[i].mutation, now, c), NEW z, Took(i, c, z)
  PROVE  HistoryInv(z)
<1> DEFINE m == issued[i].mutation
           id == m.ticket
           new == NewTicket(m, now)
<1>1. /\ Apart(book) /\ Traced(book, nextTrace)
  BY CheckpointParts DEF HistoryInv
<1>2. /\ m.kind = "open" /\ id \notin DOMAIN book.tickets
      /\ c.tickets = With(book.tickets, id, new) /\ c.traces = book.traces
      /\ c.attempts = book.attempts /\ c.archived = book.archived
  BY DEF Opens, CanOpen
<1>3. /\ i \in queue /\ issued[i].due = now /\ m \in Mutation /\ i \in DOMAIN issued
      /\ book \in Books
  BY TakenTyped DEF Taken, SoundInv, Current, BookInv
<1>6. /\ DOMAIN c.tickets = DOMAIN book.tickets \cup {id} /\ c.tickets[id] = new
      /\ \A t \in DOMAIN book.tickets : t # id /\ c.tickets[t] = book.tickets[t]
  BY <1>2 DEF With
<1>7. new.state = "open"
  BY DEF NewTicket
<1> HIDE DEF new, m, id
<1>8. /\ z.book.tickets = c.tickets /\ z.book.traces = book.traces
      /\ z.book.archived = book.archived /\ z.issued = issued /\ z.queue = queue \ {i}
      /\ z.now = now /\ z.nextTrace = nextTrace
  BY <1>2 DEF Took, m
<1>9. Overtaken(z, i)
  BY <1>2, <1>8 DEF Overtaken, Versioned, m
<1>10. \A t \in DOMAIN book.tickets :
          t \in DOMAIN c.tickets /\ book.tickets[t].version <= c.tickets[t].version
  <2>1. \A t \in DOMAIN book.tickets : book.tickets[t] \in Ticket
    BY <1>3, BookFields
  <2>2. \A t \in DOMAIN book.tickets : book.tickets[t].version \in Nat
    BY <2>1 DEF Ticket, Versions
  <2> QED
    BY <1>6, <2>2
<1>11. /\ Answered(z) /\ Known(z) /\ ChangesOnce(z) /\ Answers(z)
       /\ DOMAIN z.book.attempts \cap z.book.archived.attempts = {}
       /\ \A j \in DOMAIN z.issued : AcceptedIn(z.book, j) => Overtaken(z, j)
  BY <1>2, <1>9, <1>10, TookRest
<1>12. Apart(z.book)
  BY <1>1, <1>8, <1>11 DEF Apart
<1>13. Traced(z.book, z.nextTrace)
  <2>1. ASSUME NEW t \in DOMAIN z.book.tickets, z.book.tickets[t].state = "resolved"
        PROVE  Explained(z.book, t)
    BY <1>1, <1>6, <1>7, <1>8, <2>1 DEF Traced, Explained
  <2>2. ASSUME NEW j \in DOMAIN z.book.traces PROVE Accounts(z.book, j)
    <3>1. Accounts(book, j)
      BY <1>1, <1>8 DEF Traced
    <3>2. book.traces[j].ticket = id => id \in Again(z.book)
      BY <1>2, <1>6, <1>8, <3>1 DEF Accounts, Again
    <3> QED
      BY <1>6, <1>8, <3>1, <3>2 DEF Accounts, Again
  <2> QED
    BY <1>1, <1>8, <2>1, <2>2 DEF Traced
<1> QED
  BY <1>11, <1>12, <1>13 DEF HistoryInv

\* An open ticket moves, and a trace is made of its resolution.
LEMMA TookMoves ==
  ASSUME SoundInv, HistoryInv(Checkpoint), NEW i \in Taken, UpToDate(i),
         CanApply(issued[i].mutation, now), NEW c \in Books,
         Moves(issued[i].mutation, now, c), NEW z, Took(i, c, z)
  PROVE  HistoryInv(z)
<1> DEFINE m == issued[i].mutation
           id == m.ticket
           x == book.tickets[id]
<1>1. /\ Apart(book) /\ Traced(book, nextTrace)
  BY CheckpointParts DEF HistoryInv
<1>2. /\ m.kind \in Versioned /\ id \in DOMAIN book.tickets /\ IsOpen(x)
      /\ x.version = m.version /\ c.attempts = book.attempts /\ c.archived = book.archived
      /\ c.traces = IF m.kind = "resolve" THEN With(book.traces, nextTrace, TraceOf(m))
                                          ELSE book.traces
  BY DEF Moves, OpenAtVersion
<1>3. PICK y : Moved(m, now, y) /\ c.tickets = With(book.tickets, id, y)
  BY DEF Moves
<1>4. /\ m \in Mutation /\ book \in Books /\ nextTrace \in Versions /\ revision \in Nat
      /\ issued[i].expected = revision
  BY TakenTyped DEF SoundInv, Current, BookInv, UpToDate
<1>5. /\ DOMAIN c.tickets = DOMAIN book.tickets /\ c.tickets[id] = y
      /\ \A t \in DOMAIN book.tickets : t # id => c.tickets[t] = book.tickets[t]
  BY <1>2, <1>3 DEF With
<1>6. /\ y.version = x.version + 1
      /\ y.state = "resolved" <=> m.kind = "resolve" /\ m.selects
      /\ y.state = "resolved" => y.trace = nextTrace
  BY <1>3 DEF Moved
<1>7. \A t \in DOMAIN book.tickets : book.tickets[t].version \in Nat
  <2>1. \A t \in DOMAIN book.tickets : book.tickets[t] \in Ticket
    BY <1>4, BookFields
  <2> QED
    BY <2>1 DEF Ticket, Versions
<1>8. m.kind = "resolve" => m.selects \in BOOLEAN
  BY <1>4, MutationKinds
<1>9. TraceOf(m) = [ticket |-> id, version |-> x.version, selects |-> m.selects]
  BY DEF TraceOf
<1>10. /\ z.book.tickets = c.tickets /\ z.book.traces = c.traces
       /\ z.book.archived = book.archived /\ z.issued = issued /\ z.queue = queue \ {i}
       /\ z.now = now /\ z.nextTrace = IF m.kind = "resolve" THEN nextTrace + 1 ELSE nextTrace
       /\ z.revision = IF m.kind = "resolve" /\ m.acts THEN revision + 1 ELSE revision
  BY <1>2 DEF Took
<1> HIDE DEF m, id, x
<1>11. Overtaken(z, i)
  <2>1. id \in DOMAIN z.book.tickets /\ z.book.tickets[id].version > m.version
    BY <1>2, <1>5, <1>6, <1>7, <1>10 DEF x
  <2>2. m.kind = "resolve" /\ m.acts => issued[i].expected < z.revision
    BY <1>4, <1>10
  <2> QED
    BY <1>10, <2>1, <2>2 DEF Overtaken, m, id
<1>12. \A t \in DOMAIN book.tickets :
          t \in DOMAIN c.tickets /\ book.tickets[t].version <= c.tickets[t].version
  BY <1>5, <1>6, <1>7 DEF x
<1>13. /\ Answered(z) /\ Known(z) /\ ChangesOnce(z) /\ Answers(z)
       /\ DOMAIN z.book.attempts \cap z.book.archived.attempts = {}
       /\ \A j \in DOMAIN z.issued : AcceptedIn(z.book, j) => Overtaken(z, j)
  BY <1>2, <1>11, <1>12, TookRest
<1>14. DOMAIN book.traces \cup book.archived.traces = 1 .. nextTrace - 1
  BY <1>1 DEF Traced
<1>15. /\ nextTrace \notin DOMAIN book.traces /\ nextTrace \notin book.archived.traces
       /\ 1 .. nextTrace = 1 .. nextTrace - 1 \cup {nextTrace}
       /\ nextTrace + 1 - 1 = nextTrace
  BY <1>4, <1>14 DEF Versions
<1>16. /\ m.kind = "resolve" =>
             /\ DOMAIN c.traces = DOMAIN book.traces \cup {nextTrace}
             /\ c.traces[nextTrace] = TraceOf(m)
       /\ m.kind # "resolve" => DOMAIN c.traces = DOMAIN book.traces
       /\ \A j \in DOMAIN book.traces : c.traces[j] = book.traces[j]
  BY <1>2, <1>15 DEF With
<1>17. Apart(z.book)
  BY <1>1, <1>5, <1>10, <1>13, <1>15, <1>16 DEF Apart
<1>18. ASSUME NEW t \in DOMAIN z.book.tickets, z.book.tickets[t].state = "resolved"
       PROVE  Explained(z.book, t)
  <2>1. CASE t = id
    <3>1. /\ z.book.tickets[t] = y /\ m.kind = "resolve" /\ m.selects = TRUE
          /\ y.trace = nextTrace /\ y.version - 1 = x.version
      <4>1. z.book.tickets[t] = y /\ y.state = "resolved"
        BY <1>5, <1>10, <1>18, <2>1
      <4>2. m.kind = "resolve" /\ m.selects = TRUE /\ y.trace = nextTrace
        BY <1>6, <1>8, <4>1
      <4>3. y.version - 1 = x.version
        BY <1>2, <1>6, <1>7 DEF x
      <4> QED
        BY <4>1, <4>2, <4>3
    <3> QED
      BY <1>9, <1>10, <1>16, <2>1, <3>1 DEF Explained
  <2>2. CASE t # id
    <3>1. z.book.tickets[t] = book.tickets[t] /\ t \in DOMAIN book.tickets
      BY <1>5, <1>10, <2>2
    <3>2. Explained(book, t)
      BY <1>1, <1>18, <3>1 DEF Traced
    <3> QED
      BY <1>10, <1>16, <3>1, <3>2 DEF Explained
  <2> QED
    BY <2>1, <2>2
<1>19. ASSUME NEW j \in DOMAIN book.traces PROVE Accounts(z.book, j)
  <2>1. Accounts(book, j)
    BY <1>1 DEF Traced
  <2>2. z.book.traces[j] = book.traces[j]
    BY <1>10, <1>16
  <2>3. CASE book.traces[j].ticket = id
    BY <1>2, <1>5, <1>10, <2>1, <2>2, <2>3 DEF Accounts, Again, IsOpen, x
  <2>4. CASE book.traces[j].ticket # id
    BY <1>5, <1>10, <2>1, <2>2, <2>4 DEF Accounts, Again
  <2> QED
    BY <2>3, <2>4
<1>20. m.kind = "resolve" => Accounts(z.book, nextTrace)
  BY <1>2, <1>5, <1>6, <1>9, <1>10, <1>16 DEF Accounts
<1>21. Traced(z.book, z.nextTrace)
  <2>1. \A j \in DOMAIN z.book.traces : Accounts(z.book, j)
    BY <1>10, <1>16, <1>19, <1>20
  <2>2. DOMAIN z.book.traces \cup z.book.archived.traces = 1 .. z.nextTrace - 1
    BY <1>10, <1>14, <1>15, <1>16
  <2> QED
    BY <1>18, <2>1, <2>2 DEF Traced
<1> QED
  BY <1>13, <1>17, <1>21 DEF HistoryInv

\* Whatever it was, history stays history, and so it does when time advances.
LEMMA TookHistory ==
  ASSUME SoundInv, HistoryInv(Checkpoint), NEW i \in Taken,
         AcceptDecision(i), NEW z, z = Checkpoint', z.book \in Books
  PROVE  /\ HistoryInv(z)
         /\ i \in DOMAIN z.book.attempts
         /\ \A a \in z.archives : i \notin DOMAIN a.source.attempts
<1> DEFINE m == issued[i].mutation
<1>1. /\ z.book = book' /\ z.issued = issued' /\ z.queue = queue'
      /\ z.archives = archives' /\ z.now = now' /\ z.revision = revision'
      /\ z.nextTrace = nextTrace'
  BY DEF Checkpoint
<1>2. /\ UpToDate(i) /\ CanApply(m, now) /\ z.book = Attempted(Applied(m, now), i, TRUE)
      /\ z.nextTrace = (IF m.kind = "resolve" THEN nextTrace + 1 ELSE nextTrace)
      /\ z.revision = (IF m.kind = "resolve" /\ m.acts THEN revision + 1 ELSE revision)
      /\ z.queue = queue \ {i} /\ z.now = now /\ z.issued = issued /\ z.archives = archives
  BY <1>1 DEF AcceptDecision
<1>3. /\ book \in Books /\ Indexed(book) /\ nextTrace \in Versions /\ m \in Mutation
      /\ now \in Nat /\ i \in Versions /\ issued \in Seq(Requests) /\ revision \in Nat
      /\ archives \subseteq Commits
  BY TakenTyped DEF SoundInv, Current, BookInv
<1>4. PICK c \in Books : /\ Applied(m, now) = AdvanceTime(c, now) /\ Indexed(c)
                         /\ Registers(m, c) \/ Opens(m, now, c) \/ Moves(m, now, c)
  BY <1>2, <1>3, AppliedIs
<1> HIDE DEF m
<1>5. PICK late : late = AdvanceTime(c, now)
  OBVIOUS
<1>6. /\ late \in Books /\ SameRest(c, late) /\ DOMAIN late.tickets = DOMAIN c.tickets
      /\ \A t \in DOMAIN c.tickets : Ages(c.tickets[t], late.tickets[t])
  BY <1>3, <1>4, <1>5, AdvanceFields, AdvanceAges
<1>7. /\ z.book.tickets = late.tickets /\ z.book.opened = late.opened
      /\ z.book.traces = late.traces /\ z.book.archived = late.archived
      /\ z.book.attempts = With(late.attempts, i, TRUE)
  <2>1. PICK b : b = Attempted(late, i, TRUE)
    OBVIOUS
  <2>2. /\ b.tickets = late.tickets /\ b.opened = late.opened /\ b.traces = late.traces
        /\ b.archived = late.archived /\ b.attempts = With(late.attempts, i, TRUE)
    BY <1>3, <1>6, <2>1, AttemptedFields
  <2> QED
    BY <1>2, <1>4, <1>5, <2>1, <2>2
<1>8. PICK mid : mid = Attempted(c, i, TRUE)
  OBVIOUS
<1>9. /\ mid \in Books /\ mid.tickets = c.tickets /\ mid.traces = c.traces
      /\ mid.archived = c.archived /\ mid.attempts = With(c.attempts, i, TRUE)
  BY <1>3, <1>4, <1>8, AttemptedFields
<1>10. PICK s : s = [book |-> mid, issued |-> issued, queue |-> z.queue,
                     archives |-> archives, now |-> now, nextTrace |-> z.nextTrace,
                     revision |-> z.revision]
  OBVIOUS
<1>11. /\ s.book = mid /\ s.issued = issued /\ s.queue = z.queue /\ s.archives = archives
       /\ s.now = now /\ s.nextTrace = z.nextTrace /\ s.revision = z.revision
  BY <1>10
<1>12. Took(i, c, s)
  BY <1>2, <1>9, <1>11 DEF Took, m
<1>13. HistoryInv(s)
  <2>1. CASE Registers(m, c)
    BY <1>2, <1>4, <1>12, <2>1, TookRegisters DEF m, Registers
  <2>2. CASE Opens(m, now, c)
    BY <1>2, <1>4, <1>12, <2>2, TookOpens DEF m
  <2>3. CASE Moves(m, now, c)
    BY <1>2, <1>4, <1>12, <2>3, TookMoves DEF m, Moves, Versioned
  <2> QED
    BY <1>4, <2>1, <2>2, <2>3
<1>15. HistoryInv(z)
  <2>1. /\ s.book \in Books /\ s.issued \in Seq(Requests) /\ s.archives \subseteq Commits
        /\ s.revision \in Nat /\ z.revision \in Nat /\ s.revision <= z.revision
    BY <1>2, <1>3, <1>9, <1>11
  <2>2. /\ z.issued = s.issued /\ z.queue = s.queue /\ z.archives = s.archives
        /\ z.nextTrace = s.nextTrace
    BY <1>2, <1>11
  <2>3. /\ z.book.traces = s.book.traces /\ z.book.attempts = s.book.attempts
        /\ z.book.archived = s.book.archived
        /\ DOMAIN z.book.tickets = DOMAIN s.book.tickets
        /\ \A t \in DOMAIN s.book.tickets : Ages(s.book.tickets[t], z.book.tickets[t])
    BY <1>6, <1>7, <1>9, <1>11 DEF SameRest
  <2> QED
    BY <1>13, <2>1, <2>2, <2>3, AgesKeep
<1>16. i \in DOMAIN z.book.attempts
  BY <1>7 DEF With
<1>17. ASSUME NEW a \in z.archives PROVE i \notin DOMAIN a.source.attempts
  <2>1. a \in archives /\ i \in queue
    BY <1>2 DEF Taken
  <2> QED
    BY <2>1, CheckpointParts DEF HistoryInv, Answers
<1> QED
  BY <1>15, <1>16, <1>17

-----------------------------------------------------------------------------
(* The other steps.                                                        *)

\* Traces are of tickets, hot or archived, and of nothing else.
LEMMA SameTraced ==
  ASSUME NEW b, NEW c, NEW next, Traced(b, next), c.tickets = b.tickets,
         c.traces = b.traces, c.archived = b.archived
  PROVE  Traced(c, next)
BY DEF Traced, Explained, Accounts, Again

\* A request that is refused is answered.
LEMMA RejectHistory ==
  ASSUME SoundInv, HistoryInv(Checkpoint), NEW i \in Taken,
         RejectDecision(i), NEW z, z = Checkpoint'
  PROVE  /\ HistoryInv(z)
         /\ i \in DOMAIN z.book.attempts
         /\ \A a \in z.archives : i \notin DOMAIN a.source.attempts
<1>1. /\ z.book = book' /\ z.issued = issued' /\ z.queue = queue'
      /\ z.archives = archives' /\ z.now = now' /\ z.revision = revision'
      /\ z.nextTrace = nextTrace'
  BY DEF Checkpoint
<1>2. /\ z.book = Attempted(book, i, FALSE) /\ z.queue = queue \ {i} /\ z.issued = issued
      /\ z.archives = archives /\ z.now = now /\ z.revision = revision
      /\ z.nextTrace = nextTrace
  BY <1>1 DEF RejectDecision, clock
<1>3. /\ i \in Versions /\ i \in queue /\ i \in DOMAIN issued /\ book \in Books
  BY TakenTyped DEF SoundInv, Current, BookInv, Taken
<1>4. /\ Answered(Checkpoint) /\ Apart(book) /\ Traced(book, nextTrace)
      /\ ChangesOnce(Checkpoint) /\ Known(Checkpoint) /\ Answers(Checkpoint)
      /\ \A j \in DOMAIN issued : AcceptedIn(book, j) => Overtaken(Checkpoint, j)
  BY CheckpointParts DEF HistoryInv
<1>5. /\ z.book.tickets = book.tickets /\ z.book.opened = book.opened
      /\ z.book.traces = book.traces /\ z.book.archived = book.archived
      /\ z.book.attempts = With(book.attempts, i, FALSE)
  <2>1. PICK b : b = Attempted(book, i, FALSE)
    OBVIOUS
  <2>2. /\ b.tickets = book.tickets /\ b.opened = book.opened /\ b.traces = book.traces
        /\ b.archived = book.archived /\ b.attempts = With(book.attempts, i, FALSE)
    BY <1>3, <2>1, AttemptedFields
  <2> QED
    BY <1>2, <2>1, <2>2
<1>6. /\ DOMAIN z.book.attempts = DOMAIN book.attempts \cup {i} /\ z.book.attempts[i] = FALSE
      /\ \A j \in DOMAIN book.attempts : j # i => z.book.attempts[j] = book.attempts[j]
  BY <1>5 DEF With
<1>7. \A j : AcceptedIn(z.book, j) => AcceptedIn(book, j)
  BY <1>6 DEF AcceptedIn
<1>8. Answered(z) /\ Apart(z.book)
  <2> DEFINE answered == DOMAIN book.attempts \cup book.archived.attempts
  <2>1. queue \cap answered = {} /\ queue \cup answered = DOMAIN issued
    BY <1>4, CheckpointParts DEF Answered
  <2>2. DOMAIN z.book.attempts \cup z.book.archived.attempts = answered \cup {i}
    BY <1>5, <1>6
  <2>3. Answered(z)
    <3>1. z.queue \cup answered \cup {i} = DOMAIN issued
      BY <1>2, <1>3, <2>1
    <3>2. z.queue \cap (answered \cup {i}) = {}
      BY <1>2, <2>1
    <3> QED
      BY <1>2, <2>2, <3>1, <3>2 DEF Answered
  <2>4. DOMAIN z.book.attempts \cap z.book.archived.attempts = {}
    BY <1>3, <1>4, <1>5, <1>6, <2>1 DEF Apart
  <2>5. Apart(z.book)
    BY <1>4, <1>5, <2>4 DEF Apart
  <2> QED
    BY <2>3, <2>5
<1>9. Traced(z.book, z.nextTrace)
  BY <1>2, <1>4, <1>5, SameTraced
<1>10. \A j \in DOMAIN z.issued : AcceptedIn(z.book, j) => Overtaken(z, j)
  <2> SUFFICES ASSUME NEW j \in DOMAIN issued, AcceptedIn(book, j) PROVE Overtaken(z, j)
    BY <1>2, <1>7
  <2>1. Overtaken(Checkpoint, j)
    BY <1>4
  <2> QED
    BY <1>2, <1>5, <2>1, CheckpointParts DEF Overtaken
<1>11. ChangesOnce(z)
  <2>1. Again(z.book) = Again(book)
    BY <1>5 DEF Again
  <2>2. \A j, k \in DOMAIN issued : j # k /\ AcceptedIn(z.book, j) /\ AcceptedIn(z.book, k) =>
           ~Exclude(book, issued[j], issued[k])
    BY <1>4, <1>7, CheckpointParts DEF ChangesOnce
  <2> QED
    <3>1. \A r, q : Exclude(z.book, r, q) <=> Exclude(book, r, q)
      BY <2>1 DEF Exclude
    <3> QED
      BY <1>2, <2>2, <3>1 DEF ChangesOnce
<1>12. Known(z)
  BY <1>2, <1>4, <1>5, CheckpointParts DEF Known
<1>13. Answers(z)
  BY <1>2, <1>4, CheckpointParts DEF Answers
<1>14. i \in DOMAIN z.book.attempts /\ \A a \in z.archives : i \notin DOMAIN a.source.attempts
  BY <1>2, <1>3, <1>4, <1>6, CheckpointParts DEF Answers
<1> QED
  BY <1>8, <1>9, <1>10, <1>11, <1>12, <1>13, <1>14 DEF HistoryInv

\* A request that is issued is queued, and answered by nothing yet.
LEMMA IssuedHistory ==
  ASSUME SoundInv, HistoryInv(Checkpoint), NEW r \in Requests, Issue(r),
         UNCHANGED <<now, revision, book, nextTrace>>, NEW z, z = Checkpoint'
  PROVE  HistoryInv(z)
<1> DEFINE n == Len(issued) + 1
<1>1. /\ z.book = book /\ z.issued = issued' /\ z.queue = queue \cup {n}
      /\ z.archives = archives /\ z.now = now /\ z.revision = revision
      /\ z.nextTrace = nextTrace
  BY DEF Checkpoint, Issue
<1>2. /\ DOMAIN issued' = DOMAIN issued \cup {n} /\ n \notin DOMAIN issued
      /\ issued'[n] = r /\ \A i \in DOMAIN issued : issued'[i] = issued[i]
      /\ queue \subseteq DOMAIN issued
  BY IssueKeeps DEF SoundInv, Current
<1> HIDE DEF n
<1>3. /\ Answered(Checkpoint) /\ Apart(book) /\ Traced(book, nextTrace)
      /\ ChangesOnce(Checkpoint) /\ Known(Checkpoint) /\ Answers(Checkpoint)
      /\ \A j \in DOMAIN issued : AcceptedIn(book, j) => Overtaken(Checkpoint, j)
  BY CheckpointParts DEF HistoryInv
<1>4. /\ queue \cap (DOMAIN book.attempts \cup book.archived.attempts) = {}
      /\ queue \cup (DOMAIN book.attempts \cup book.archived.attempts) = DOMAIN issued
  BY <1>3, CheckpointParts DEF Answered
<1>5. Answered(z)
  BY <1>1, <1>2, <1>4 DEF Answered
<1>6. \A j \in DOMAIN z.issued : AcceptedIn(z.book, j) => j \in DOMAIN issued
  BY <1>1, <1>4 DEF AcceptedIn
<1>7. \A j \in DOMAIN z.issued : AcceptedIn(z.book, j) => Overtaken(z, j)
  <2> SUFFICES ASSUME NEW j \in DOMAIN issued, AcceptedIn(book, j) PROVE Overtaken(z, j)
    BY <1>1, <1>6
  <2>1. Overtaken(Checkpoint, j) /\ z.issued[j] = issued[j]
    BY <1>1, <1>2, <1>3
  <2> QED
    BY <1>1, <2>1, CheckpointParts DEF Overtaken
<1>8. ChangesOnce(z)
  BY <1>1, <1>2, <1>3, <1>6, CheckpointParts DEF ChangesOnce
<1>9. Known(z)
  BY <1>1, <1>3, CheckpointParts DEF Known
<1>10. Answers(z)
  BY <1>1, <1>2, <1>3, CheckpointParts DEF Answers
<1> QED
  BY <1>1, <1>3, <1>5, <1>7, <1>8, <1>9, <1>10 DEF HistoryInv

\* A commit that may be applied names nothing that is archived.
LEMMA EligibleApart ==
  ASSUME book \in Books, NEW keys \in KeySets, Eligible(keys)
  PROVE  /\ keys.tickets \cap book.archived.tickets = {}
         /\ keys.traces \cap book.archived.traces = {}
         /\ keys.attempts \cap book.archived.attempts = {}
<1>1. \A f \in DOMAIN keys : keys[f] \cap book.archived[f] = {}
  BY DEF Eligible
<1>2. DOMAIN keys = {"tickets", "traces", "attempts"}
  BY DEF KeySets
<1> QED
  BY <1>1, <1>2

\* Archived records leave hot history for good.
LEMMA ArchivedHistory ==
  ASSUME SoundInv, HistoryInv(Checkpoint), BatchInv, NEW commit \in TakenArchives,
         ApplyArchive(commit), NEW z, z = Checkpoint'
  PROVE  HistoryInv(z) /\ z.book.opened = book.opened
<1> DEFINE keys == commit.keys
<1>1. /\ z.book = book' /\ z.issued = issued' /\ z.queue = queue'
      /\ z.archives = archives' /\ z.now = now' /\ z.revision = revision'
      /\ z.nextTrace = nextTrace'
  BY DEF Checkpoint
<1>2. /\ z.book = (IF commit.source = Hot THEN Archived(keys) ELSE book)
      /\ z.queue = queue /\ z.issued = issued /\ z.archives = archives \ {commit}
      /\ z.now = now /\ z.revision = revision /\ z.nextTrace = nextTrace
      /\ commit \in archives /\ (commit.source = Hot => Eligible(keys))
  BY <1>1 DEF ApplyArchive, TakenArchives, clock
<1>3. /\ book \in Books /\ Indexed(book)
  BY DEF SoundInv, Current, BookInv
<1>4. /\ Answered(Checkpoint) /\ Apart(book) /\ Traced(book, nextTrace)
      /\ ChangesOnce(Checkpoint) /\ Known(Checkpoint) /\ Answers(Checkpoint)
      /\ \A j \in DOMAIN issued : AcceptedIn(book, j) => Overtaken(Checkpoint, j)
  BY CheckpointParts DEF HistoryInv
<1>6. CASE commit.source = Hot
  <2>1. /\ keys \in KeySets /\ keys.tickets \subseteq DOMAIN book.tickets
        /\ keys.tickets \cap OpenTickets(book) = {}
        /\ keys.traces \subseteq DOMAIN book.traces
        /\ keys.attempts \subseteq DOMAIN book.attempts
        /\ keys.tickets \cap book.archived.tickets = {}
        /\ keys.traces \cap book.archived.traces = {}
        /\ keys.attempts \cap book.archived.attempts = {}
    BY <1>2, <1>3, <1>6, CurrentCommit, EligibleApart
  <2>2. PICK c : c = Archived(keys)
    OBVIOUS
  <2>3. /\ c.tickets = Keep(book.tickets, keys.tickets)
        /\ c.traces = Keep(book.traces, keys.traces)
        /\ c.attempts = Keep(book.attempts, keys.attempts)
        /\ c.opened = book.opened \ keys.tickets
        /\ c.archived.tickets = book.archived.tickets \cup keys.tickets
        /\ c.archived.traces = book.archived.traces \cup keys.traces
        /\ c.archived.attempts = book.archived.attempts \cup keys.attempts
    BY <1>3, <2>1, <2>2, ArchivedFields
  <2>4. z.book = c
    BY <1>2, <1>6, <2>2
  <2>5. book.opened = {}
    <3>1. commit \in archives /\ commit.source.attempts = book.attempts
      BY <1>2, <1>6 DEF Hot
    <3> QED
      BY <3>1 DEF BatchInv
  <2> HIDE DEF keys
  <2>6. /\ DOMAIN c.tickets = DOMAIN book.tickets \ keys.tickets
        /\ DOMAIN c.traces = DOMAIN book.traces \ keys.traces
        /\ DOMAIN c.attempts = DOMAIN book.attempts \ keys.attempts
        /\ \A t \in DOMAIN c.tickets : c.tickets[t] = book.tickets[t]
        /\ \A i \in DOMAIN c.traces : c.traces[i] = book.traces[i]
        /\ \A i \in DOMAIN c.attempts : c.attempts[i] = book.attempts[i]
    BY <2>3 DEF Keep
  <2>7. \A j : AcceptedIn(c, j) => AcceptedIn(book, j)
    BY <2>6 DEF AcceptedIn
  <2> Again(c) = Again(book)
    BY <2>1, <2>3, <2>6 DEF Again
  <2>8. Answered(z)
    <3>1. /\ queue \cap (DOMAIN book.attempts \cup book.archived.attempts) = {}
          /\ queue \cup (DOMAIN book.attempts \cup book.archived.attempts) = DOMAIN issued
      BY <1>4, CheckpointParts DEF Answered
    <3>2. DOMAIN c.attempts \cup c.archived.attempts
             = DOMAIN book.attempts \cup book.archived.attempts
      BY <2>1, <2>3, <2>6
    <3> QED
      BY <1>2, <2>4, <3>1, <3>2 DEF Answered
  <2>9. Apart(c)
    BY <1>4, <2>3, <2>6 DEF Apart
  <2>10. Traced(c, nextTrace)
    <3>1. ASSUME NEW t \in DOMAIN c.tickets, c.tickets[t].state = "resolved"
          PROVE  Explained(c, t)
      <4>1. Explained(book, t) /\ c.tickets[t] = book.tickets[t]
        BY <1>4, <2>6, <3>1 DEF Traced
      <4> QED
        BY <2>3, <2>6, <4>1 DEF Explained
    <3>2. ASSUME NEW i \in DOMAIN c.traces PROVE Accounts(c, i)
      <4>1. Accounts(book, i) /\ c.traces[i] = book.traces[i]
        BY <1>4, <2>6 DEF Traced
      <4> QED
        BY <2>1, <2>3, <2>6, <4>1 DEF Accounts
    <3>3. DOMAIN c.traces \cup c.archived.traces = DOMAIN book.traces \cup book.archived.traces
      BY <2>1, <2>3, <2>6
    <3> QED
      BY <1>4, <3>1, <3>2, <3>3 DEF Traced
  <2>11. ASSUME NEW j \in DOMAIN issued, AcceptedIn(c, j) PROVE Overtaken(z, j)
    <3>1. Overtaken(Checkpoint, j)
      BY <1>4, <2>7, <2>11
    <3> QED
      BY <1>2, <2>3, <2>4, <2>6, <3>1, CheckpointParts DEF Overtaken
  <2>12. ChangesOnce(z)
    BY <1>2, <1>4, <2>4, <2>7, CheckpointParts DEF ChangesOnce, Exclude
  <2>13. Known(z)
    BY <1>2, <1>4, <2>3, <2>4, <2>6, CheckpointParts DEF Known
  <2>14. Answers(z)
    BY <1>2, <1>4, CheckpointParts DEF Answers
  <2>15. c.opened = book.opened
    BY <2>3, <2>5
  <2> QED
    BY <1>2, <2>4, <2>8, <2>9, <2>10, <2>11, <2>12, <2>13, <2>14, <2>15 DEF HistoryInv
<1>7. CASE commit.source # Hot
  <2>1. z.book = book
    BY <1>2, <1>7
  <2>2. Answered(z) /\ Known(z) /\ ChangesOnce(z)
    <3>1. Answered(z) /\ Known(z)
      BY <1>2, <1>4, <2>1, CheckpointParts DEF Answered, Known
    <3>2. ChangesOnce(z)
      BY <1>2, <1>4, <2>1, CheckpointParts DEF ChangesOnce
    <3> QED
      BY <3>1, <3>2
  <2>3. ASSUME NEW j \in DOMAIN issued, AcceptedIn(book, j) PROVE Overtaken(z, j)
    BY <1>2, <1>4, <2>1, <2>3, CheckpointParts DEF Overtaken
  <2>4. Answers(z)
    BY <1>2, <1>4, CheckpointParts DEF Answers
  <2> QED
    BY <1>2, <1>4, <2>1, <2>2, <2>3, <2>4 DEF HistoryInv
<1> QED
  BY <1>6, <1>7

\* Time that passes, a boundary that begins, one that has admitted all, one that
\* commits: the history ages.
LEMMA AgedHistory ==
  ASSUME SoundInv, SoundInv', HistoryInv(Checkpoint),
         UNCHANGED <<nextTrace, issued, queue, archives>>, revision <= revision',
         NEW c, c = book', c.traces = book.traces, c.attempts = book.attempts,
         c.archived = book.archived, DOMAIN c.tickets = DOMAIN book.tickets,
         \A t \in DOMAIN book.tickets : Ages(book.tickets[t], c.tickets[t]),
         NEW z, z = Checkpoint'
  PROVE  HistoryInv(z)
<1>1. /\ z.book = c /\ z.issued = issued /\ z.queue = queue /\ z.archives = archives
      /\ z.revision = revision' /\ z.nextTrace = nextTrace
  BY DEF Checkpoint
<1>2. /\ book \in Books /\ issued \in Seq(Requests) /\ archives \subseteq Commits
      /\ revision \in Nat
  BY DEF SoundInv, Current, BookInv
<1>3. c \in Books /\ revision' \in Nat
  BY DEF SoundInv, Current, BookInv
<1>4. PICK s : s = Checkpoint
  OBVIOUS
<1>5. /\ s.book = book /\ s.issued = issued /\ s.queue = queue /\ s.archives = archives
      /\ s.revision = revision /\ s.nextTrace = nextTrace /\ HistoryInv(s)
  BY <1>4, CheckpointParts
<1> QED
  BY <1>1, <1>2, <1>3, <1>5, AgesKeep

\* Initially there is no history.
LEMMA HistInit ==
  ASSUME Init
  PROVE  HistInv
<1>1. /\ book = EmptyBook /\ issued = <<>> /\ queue = {} /\ archives = {} /\ nextTrace = 1
      /\ pc = "idle"
  BY DEF Init
<1>2. /\ DOMAIN Nothing = {} /\ book.tickets = Nothing /\ book.traces = Nothing
      /\ book.attempts = Nothing /\ book.archived.tickets = {} /\ book.archived.traces = {}
      /\ book.archived.attempts = {}
  BY <1>1 DEF EmptyBook, Nothing, NoKeys
<1>3. DOMAIN issued = {}
  BY <1>1
<1>4. Traced(book, nextTrace)
  BY <1>1, <1>2 DEF Traced
<1>5. /\ Answered(Checkpoint) /\ Apart(book) /\ ChangesOnce(Checkpoint)
      /\ Known(Checkpoint) /\ Answers(Checkpoint)
  BY <1>1, <1>2, <1>3, CheckpointParts DEF Answered, Apart, ChangesOnce, Known, Answers
<1>6. HistoryInv(Checkpoint)
  BY <1>3, <1>4, <1>5, CheckpointParts DEF HistoryInv
<1> QED
  BY <1>1, <1>6 DEF HistInv

\* While no boundary admits requests.
LEMMA Steady ==
  ASSUME SoundInv, SoundInv', HistInv, pc # "admit", pc' = pc, UNCHANGED saved,
         UNCHANGED <<nextTrace, issued, queue, archives, book, revision>>
  PROVE  HistInv'
<1>1. PICK z : z = Checkpoint'
  OBVIOUS
<1>2. /\ z.book = book /\ z.issued = issued /\ z.queue = queue
  BY <1>1 DEF Checkpoint
<1>3. HistoryInv(Checkpoint)
  BY DEF HistInv
<1>5. PICK c : c = book'
  OBVIOUS
<1>6. /\ c.traces = book.traces /\ c.attempts = book.attempts /\ c.archived = book.archived
      /\ DOMAIN c.tickets = DOMAIN book.tickets /\ revision <= revision'
      /\ \A t \in DOMAIN book.tickets : Ages(book.tickets[t], c.tickets[t])
  BY <1>5 DEF Ages, SoundInv, Current
<1>7. HistoryInv(z)
  BY <1>1, <1>3, <1>5, <1>6, AgedHistory
<1> QED
  BY <1>1, <1>7 DEF HistInv

\* EnqueueDecision.
LEMMA EnqueueDecisionHistory ==
  ASSUME SoundInv, HistInv, NEW at \in Nat, NEW m \in Mutations,
         EnqueueDecision(at, m)
  PROVE  HistInv'
<1> DEFINE r == [due |-> at, expected |-> revision, mutation |-> m]
<1>1. /\ Issue(r) /\ UNCHANGED <<now, revision, book, nextTrace>> /\ pc = "idle"
      /\ UNCHANGED <<pc, saved>>
  BY DEF EnqueueDecision, clock, decided, control
<1>2. r \in Requests
  BY DecisionsAssumption DEF Requests, SoundInv, Current
<1> HIDE DEF r
<1>5. PICK z : z = Checkpoint'
  OBVIOUS
<1>6. HistoryInv(z)
  BY <1>1, <1>2, <1>5, IssuedHistory DEF HistInv
<1> QED
  BY <1>1, <1>5, <1>6 DEF HistInv

\* ResolveAtRandom: what a boundary issues opens nothing.
LEMMA RandomHistory ==
  ASSUME SoundInv, HistInv, NEW id \in DOMAIN book.tickets, NEW acts \in BOOLEAN,
         ResolveAtRandom(id, acts)
  PROVE  HistInv'
<1> DEFINE ticket == book.tickets[id]
           m == [kind |-> "resolve", ticket |-> id, version |-> ticket.version,
                 controller |-> ticket.controller, selects |-> TRUE, acts |-> acts]
           r == [due |-> now, expected |-> revision + 1, mutation |-> m]
<1>1. /\ Issue(r) /\ UNCHANGED <<now, revision, book, nextTrace>> /\ pc = "systems"
      /\ UNCHANGED <<pc, saved>>
  BY DEF ResolveAtRandom, clock, decided, control
<1>2. r \in Requests
  <2>1. id \in Tickets /\ ticket \in Ticket
    BY BookFields DEF SoundInv, Current, BookInv
  <2>2. ticket.version \in Versions /\ ticket.controller \in Controllers
    BY <2>1 DEF Ticket
  <2>3. m \in Mutation
    <3>1. m \in [kind : {"resolve"}, ticket : Tickets, version : Versions,
                 controller : Controllers, selects : BOOLEAN, acts : BOOLEAN]
      BY <2>1, <2>2
    <3> HIDE DEF m
    <3> QED
      BY <3>1 DEF Mutation
  <2> HIDE DEF m
  <2> QED
    BY <2>3 DEF Requests, SoundInv, Current
<1> HIDE DEF r, m
<1>4. PICK z : z = Checkpoint'
  OBVIOUS
<1>5. HistoryInv(z)
  BY <1>1, <1>2, <1>4, IssuedHistory DEF HistInv
<1> QED
  BY <1>1, <1>4, <1>5 DEF HistInv

\* EnqueueArchive: its source is the history there is.
LEMMA EnqueueArchiveHistory ==
  ASSUME SoundInv, HistInv, NEW at \in Nat, NEW keys \in Keys, EnqueueArchive(at, keys)
  PROVE  HistInv'
<1> DEFINE commit == [due |-> at, keys |-> keys, source |-> Hot]
<1>1. PICK z : z = Checkpoint'
  OBVIOUS
<1>2. /\ z.book = book /\ z.issued = issued /\ z.queue = queue
      /\ z.archives = archives \cup {commit} /\ z.now = now /\ z.revision = revision
      /\ z.nextTrace = nextTrace
  BY <1>1 DEF Checkpoint, EnqueueArchive, clock, decided
<1>3. pc = "idle" /\ UNCHANGED <<pc, saved>> /\ HistoryInv(Checkpoint)
  BY DEF EnqueueArchive, control, HistInv
<1>4. commit.source.tickets = book.tickets /\ commit.source.attempts = book.attempts
  BY DEF Hot
<1> HIDE DEF commit
<1>5. /\ Answered(Checkpoint) /\ Apart(book) /\ Traced(book, nextTrace)
      /\ ChangesOnce(Checkpoint) /\ Known(Checkpoint) /\ Answers(Checkpoint)
      /\ \A j \in DOMAIN issued : AcceptedIn(book, j) => Overtaken(Checkpoint, j)
  BY <1>3, CheckpointParts DEF HistoryInv
<1>6. Known(z)
  <2>1. \A t \in DOMAIN book.tickets : book.tickets[t] \in Ticket
    BY BookFields DEF SoundInv, Current, BookInv
  <2>2. \A t \in DOMAIN book.tickets : book.tickets[t].version <= book.tickets[t].version
    BY <2>1 DEF Ticket, Versions
  <2> QED
    BY <1>2, <1>4, <1>5, <2>2, CheckpointParts DEF Known
<1>7. Answered(z) /\ ChangesOnce(z)
  BY <1>2, <1>5, CheckpointParts DEF Answered, ChangesOnce
<1>8. ASSUME NEW j \in DOMAIN issued, AcceptedIn(book, j) PROVE Overtaken(z, j)
  BY <1>2, <1>5, <1>8, CheckpointParts DEF Overtaken
<1>9. Answers(z)
  <2>1. DOMAIN book.attempts \subseteq DOMAIN issued \ queue
    BY <1>5, CheckpointParts DEF Answered
  <2> QED
    BY <1>2, <1>4, <1>5, <2>1, CheckpointParts DEF Answers
<1>10. HistoryInv(z)
  BY <1>2, <1>5, <1>6, <1>7, <1>8, <1>9 DEF HistoryInv
<1> QED
  BY <1>1, <1>3, <1>10 DEF HistInv

\* BeginBoundary: nothing is opened yet.
LEMMA BeginHistory ==
  ASSUME SoundInv, SoundInv', HistInv, NEW at \in Nat, NEW commands \in 0 .. 1,
         BeginBoundary(at, commands)
  PROVE  HistInv'
<1>1. /\ saved' = Checkpoint /\ pc' = "admit" /\ pc = "idle"
      /\ revision' = revision + commands /\ book' = [book EXCEPT !.opened = {}]
      /\ UNCHANGED <<nextTrace, issued, queue, archives>>
  BY DEF BeginBoundary, journal
<1>2. PICK z : z = Checkpoint'
  OBVIOUS
<1>3. PICK c : c = book'
  OBVIOUS
<1>4. /\ c.traces = book.traces /\ c.attempts = book.attempts /\ c.archived = book.archived
      /\ c.tickets = book.tickets /\ c.opened = {}
  BY <1>1, <1>3 DEF SoundInv, Current, BookInv, Books
<1>5. z.book = c /\ z.issued = issued /\ z.queue = queue
  BY <1>1, <1>2, <1>3 DEF Checkpoint
<1>6. HistoryInv(Checkpoint)
  BY <1>1 DEF HistInv
<1>8. revision <= revision' /\ \A t \in DOMAIN book.tickets : Ages(book.tickets[t], c.tickets[t])
  BY <1>1, <1>4 DEF Ages, SoundInv, Current
<1>9. HistoryInv(z)
  BY <1>1, <1>2, <1>3, <1>4, <1>6, <1>8, AgedHistory
<1>10. BatchInv'
  BY <1>1, <1>3, <1>4 DEF BatchInv
<1> QED
  BY <1>1, <1>2, <1>6, <1>9, <1>10 DEF HistInv

\* EndAdmission: late tickets age.
LEMMA EndHistory ==
  ASSUME SoundInv, SoundInv', HistInv, EndAdmission
  PROVE  HistInv'
<1>1. /\ book' = AdvanceTime(book, now) /\ pc' = "systems" /\ pc = "admit" /\ Taken = {}
      /\ UNCHANGED <<now, revision, nextTrace, issued, queue, archives, saved>>
  BY DEF EndAdmission, clock, journal
<1>2. PICK z : z = Checkpoint'
  OBVIOUS
<1>3. PICK c : c = book' /\ c = AdvanceTime(book, now)
  BY <1>1
<1>4. /\ c.traces = book.traces /\ c.attempts = book.attempts /\ c.archived = book.archived
      /\ DOMAIN c.tickets = DOMAIN book.tickets
      /\ \A t \in DOMAIN book.tickets : Ages(book.tickets[t], c.tickets[t])
  BY <1>3, AdvanceAges DEF SoundInv, Current, BookInv, SameRest
<1>5. z.book = c /\ z.issued = issued /\ z.queue = queue
  BY <1>1, <1>2, <1>3 DEF Checkpoint
<1>6. HistoryInv(Checkpoint) /\ HistoryInv(saved)
  BY <1>1 DEF HistInv
<1>9. revision <= revision'
  BY <1>1 DEF SoundInv, Current
<1>10. HistoryInv(z)
  BY <1>1, <1>2, <1>3, <1>4, <1>6, <1>9, AgedHistory
<1> QED
  BY <1>1, <1>2, <1>6, <1>10 DEF HistInv

\* Commit: swept tickets age.
LEMMA CommitHistory ==
  ASSUME SoundInv, SoundInv', HistInv, NEW gone \in SUBSET People,
         NEW back \in SUBSET People, Commit(gone, back)
  PROVE  HistInv'
<1>1. /\ book' = Swept(book, gone) /\ pc' = "idle" /\ pc = "systems"
      /\ revision' = revision + 1
      /\ UNCHANGED <<now, nextTrace, issued, queue, archives>>
  BY DEF Commit, journal
<1>2. PICK z : z = Checkpoint'
  OBVIOUS
<1>3. PICK c : c = book' /\ c = Swept(book, gone)
  BY <1>1
<1>4. /\ c.traces = book.traces /\ c.attempts = book.attempts /\ c.archived = book.archived
      /\ DOMAIN c.tickets = DOMAIN book.tickets
      /\ \A t \in DOMAIN book.tickets : Ages(book.tickets[t], c.tickets[t])
  BY <1>3, SweptAges DEF SoundInv, Current, BookInv, SameRest
<1>5. z.book = c /\ z.issued = issued /\ z.queue = queue
  BY <1>1, <1>2, <1>3 DEF Checkpoint
<1>6. HistoryInv(Checkpoint)
  BY <1>1 DEF HistInv
<1>8. revision <= revision'
  BY <1>1 DEF SoundInv, Current
<1>9. HistoryInv(z)
  BY <1>1, <1>2, <1>3, <1>4, <1>6, <1>8, AgedHistory
<1> QED
  BY <1>1, <1>2, <1>9 DEF HistInv

\* A failing boundary goes back to the history it began with.
LEMMA FailHistory ==
  ASSUME SoundInv, HistInv, FailBoundary
  PROVE  HistInv'
<1>1. RestoreBoundary /\ pc' = "idle" /\ pc # "idle"
  BY DEF FailBoundary
<1>2. Sound(saved) /\ HistoryInv(saved)
  BY <1>1 DEF SoundInv, HistInv
<1>3. PICK z : z = Checkpoint'
  OBVIOUS
<1>4. /\ z.book = saved.book /\ z.issued = saved.issued /\ z.queue = saved.queue
      /\ z.archives = saved.archives /\ z.now = saved.now /\ z.revision = saved.revision
      /\ z.nextTrace = saved.nextTrace
  BY <1>1, <1>3 DEF Checkpoint, RestoreBoundary
<1>5. PICK s : s = saved
  OBVIOUS
<1>6. /\ s.book \in Books /\ s.issued \in Seq(Requests) /\ s.archives \subseteq Commits
      /\ s.revision \in Nat /\ s.revision <= s.revision /\ HistoryInv(s)
  <2>1. s \in Checkpoints /\ HistoryInv(s)
    BY <1>2, <1>5 DEF Sound
  <2>2. /\ s.book \in Books /\ s.issued \in Seq(Requests) /\ s.archives \subseteq Commits
        /\ s.revision \in Nat
    BY <2>1 DEF Checkpoints
  <2>3. s.revision <= s.revision
    BY <2>2
  <2> QED
    BY <2>1, <2>2, <2>3
<1>7. \A t \in DOMAIN s.book.tickets : Ages(s.book.tickets[t], s.book.tickets[t])
  BY DEF Ages
<1>9. HistoryInv(z)
  BY <1>4, <1>5, <1>6, <1>7, AgesKeep
<1> QED
  BY <1>1, <1>3, <1>9 DEF HistInv

\* Requests that are answered, commits that are applied.
LEMMA AdmitHistory ==
  ASSUME SoundInv, SoundInv', HistInv,
         \/ \E i \in Taken : RejectDecision(i) \/ AcceptDecision(i)
         \/ \E commit \in TakenArchives : ApplyArchive(commit)
  PROVE  HistInv'
<1>1. PICK z : z = Checkpoint'
  OBVIOUS
<1>2. pc = "admit" /\ UNCHANGED <<pc, saved>>
  BY DEF RejectDecision, AcceptDecision, ApplyArchive, control
<1>3. HistoryInv(Checkpoint) /\ BatchInv /\ HistoryInv(saved)
  BY <1>2 DEF HistInv
<1>4. z.book = book' /\ z.archives = archives' /\ z.book \in Books
  BY <1>1 DEF Checkpoint, SoundInv, Current, BookInv
<1>5. CASE \E i \in Taken : RejectDecision(i) \/ AcceptDecision(i)
  <2>1. PICK i \in Taken : RejectDecision(i) \/ AcceptDecision(i)
    BY <1>5
  <2>2. /\ HistoryInv(z) /\ i \in DOMAIN z.book.attempts
        /\ \A a \in z.archives : i \notin DOMAIN a.source.attempts
    BY <1>1, <1>3, <1>4, <2>1, RejectHistory, TookHistory
  <2>3. BatchInv'
    BY <1>4, <2>2 DEF BatchInv
  <2> QED
    BY <1>1, <1>2, <1>3, <2>2, <2>3 DEF HistInv
<1>6. CASE \E commit \in TakenArchives : ApplyArchive(commit)
  <2>1. PICK commit \in TakenArchives : ApplyArchive(commit)
    BY <1>6
  <2>2. HistoryInv(z) /\ z.book.opened = book.opened
    BY <1>1, <1>3, <2>1, ArchivedHistory
  <2>3. BatchInv'
    <3>1. CASE book.opened = {}
      BY <1>4, <2>2, <3>1 DEF BatchInv
    <3>2. CASE book.opened # {}
      <4>1. book' = book /\ archives' \subseteq archives
        <5>1. commit.source # Hot
          BY <1>3, <3>2 DEF BatchInv, TakenArchives, Hot
        <5> QED
          BY <2>1, <5>1 DEF ApplyArchive
      <4> QED
        BY <1>3, <3>2, <4>1 DEF BatchInv
    <3> QED
      BY <3>1, <3>2
  <2> QED
    BY <1>1, <1>2, <1>3, <2>2, <2>3 DEF HistInv
<1> QED
  BY <1>5, <1>6

\* Time that passes.
LEMMA AdvanceHistory ==
  ASSUME SoundInv, SoundInv', HistInv, NEW at \in Nat, Advance(at)
  PROVE  HistInv'
BY Steady DEF Advance, decided, journal, control

\* Together.
LEMMA HistStep ==
  ASSUME SoundInv, SoundInv', HistInv, [Next]_vars
  PROVE  HistInv'
<1>1. now \in Nat
  BY DEF SoundInv, Current
<1>2. CASE HostSteps
  BY <1>2, AdvanceHistory, EnqueueDecisionHistory, EnqueueArchiveHistory, BeginHistory
     DEF HostSteps
<1>3. CASE Boundary
  BY <1>3, AdmitHistory, EndHistory, RandomHistory, CommitHistory, FailHistory DEF Boundary
<1>4. CASE UNCHANGED vars
  <2>1. Checkpoint' = Checkpoint
    BY <1>4 DEF vars, Checkpoint
  <2> QED
    BY <1>4, <2>1 DEF vars, HistInv, BatchInv
<1> QED
  BY <1>1, <1>2, <1>3, <1>4, Steps

\* The parts of HistorySound are those of the invariant.
LEMMA HistGives ==
  ASSUME SoundInv, HistInv
  PROVE  HistorySound
<1>1. /\ Answered(Checkpoint) /\ Apart(book) /\ Traced(book, nextTrace)
      /\ ChangesOnce(Checkpoint) /\ Again(book) = Reopened
  BY CheckpointParts DEF HistInv, HistoryInv, Again, Reopened
<1>2. AnsweredOnce
  BY <1>1, CheckpointParts DEF Answered, AnsweredOnce
<1>3. HotOrArchived
  BY <1>1 DEF Apart, HotOrArchived
<1>4. TracesResolve
  BY <1>1 DEF Traced, Explained, Accounts, TracesResolve
<1>5. ASSUME NEW i \in DOMAIN issued, NEW j \in DOMAIN issued, i # j, Accepted(i), Accepted(j)
      PROVE  LET m == issued[i].mutation
                 n == issued[j].mutation
             IN
             /\ "version" \in DOMAIN m /\ "version" \in DOMAIN n
                   => m.ticket # n.ticket \/ m.version # n.version \/ m.ticket \in Reopened
             /\ m.kind = "resolve" /\ n.kind = "resolve" /\ m.acts /\ n.acts
                   => issued[i].expected # issued[j].expected
  <2>1. \A k \in DOMAIN issued : issued[k] \in Requests
    BY DEF SoundInv, Current
  <2>2. issued[i].mutation \in Mutation /\ issued[j].mutation \in Mutation
    BY <2>1 DEF Requests
  <2>3. /\ "version" \in DOMAIN issued[i].mutation => issued[i].mutation.kind \in Versioned
        /\ "version" \in DOMAIN issued[j].mutation => issued[j].mutation.kind \in Versioned
    BY <2>2, MutationKinds
  <2>4. ~Exclude(book, issued[i], issued[j])
    BY <1>1, <1>5, CheckpointParts DEF ChangesOnce, AcceptedIn, Accepted
  <2> QED
    BY <1>1, <2>3, <2>4 DEF Exclude
<1>6. OneChangePerVersion
  BY <1>5 DEF OneChangePerVersion
<1> QED
  BY <1>2, <1>3, <1>4, <1>6 DEF HistorySound

\* An accepted request archives nothing.
LEMMA AcceptArchives ==
  ASSUME SoundInv, NEW i \in Taken, AcceptDecision(i)
  PROVE  book'.archived = book.archived
<1> DEFINE m == issued[i].mutation
<1>1. /\ book \in Books /\ Indexed(book) /\ nextTrace \in Versions /\ m \in Mutation
      /\ now \in Nat /\ i \in Versions /\ CanApply(m, now)
      /\ book' = Attempted(Applied(m, now), i, TRUE)
  BY TakenTyped DEF SoundInv, Current, BookInv, AcceptDecision
<1> HIDE DEF m
<1>2. PICK c \in Books : /\ Applied(m, now) = AdvanceTime(c, now) /\ Indexed(c)
                         /\ Registers(m, c) \/ Opens(m, now, c) \/ Moves(m, now, c)
  BY <1>1, AppliedIs
<1>3. PICK late : late = AdvanceTime(c, now)
  OBVIOUS
<1>4. late \in Books /\ late.archived = book.archived
  BY <1>1, <1>2, <1>3, AdvanceFields DEF SameRest, Registers, Opens, Moves
<1>5. PICK b : b = Attempted(late, i, TRUE)
  OBVIOUS
<1>6. b.archived = late.archived
  BY <1>1, <1>4, <1>5, AttemptedFields
<1> QED
  BY <1>1, <1>2, <1>3, <1>4, <1>5, <1>6

\* What a boundary opened, its archival leaves.
LEMMA BatchStep ==
  ASSUME SoundInv, SoundInv', HistInv, [Next]_vars, pc' = "admit",
         book'.archived # book.archived
  PROVE  book'.opened = book.opened
<1>1. now \in Nat /\ book \in Books
  BY DEF SoundInv, Current, BookInv
<1>2. CASE HostSteps
  <2>1. book'.archived = book.archived
    BY <1>1, <1>2 DEF HostSteps, Advance, EnqueueDecision, EnqueueArchive, BeginBoundary,
                      decided, Books
  <2> QED
    BY <2>1
<1>3. CASE Boundary
  <2>1. CASE \E i \in Taken : RejectDecision(i)
    <3>1. PICK i \in Taken : RejectDecision(i)
      BY <2>1
    <3>2. book' = Attempted(book, i, FALSE) /\ i \in Versions
      BY <3>1, TakenTyped DEF RejectDecision
    <3>3. book'.archived = book.archived
      BY <1>1, <3>2, AttemptedFields
    <3> QED
      BY <3>3
  <2>2. CASE \E i \in Taken : AcceptDecision(i)
    BY <2>2, AcceptArchives
  <2>3. CASE \E commit \in TakenArchives : ApplyArchive(commit)
    <3>1. PICK commit \in TakenArchives : ApplyArchive(commit)
      BY <2>3
    <3>2. HistoryInv(Checkpoint) /\ BatchInv
      BY <3>1 DEF ApplyArchive, HistInv
    <3>3. PICK z : z = Checkpoint'
      OBVIOUS
    <3>4. z.book.opened = book.opened /\ z.book = book'
      BY <3>1, <3>2, <3>3, ArchivedHistory DEF Checkpoint
    <3> QED
      BY <3>4
  <2>4. CASE \/ EndAdmission \/ FailBoundary
             \/ \E gone \in SUBSET People : \E back \in SUBSET People : Commit(gone, back)
    BY <2>4 DEF EndAdmission, FailBoundary, Commit
  <2>5. CASE \E id \in DOMAIN book.tickets, acts \in BOOLEAN : ResolveAtRandom(id, acts)
    BY <2>5 DEF ResolveAtRandom, decided
  <2> QED
    BY <1>3, <2>1, <2>2, <2>3, <2>4, <2>5 DEF Boundary
<1>4. CASE UNCHANGED vars
  BY <1>4 DEF vars
<1> QED
  BY <1>1, <1>2, <1>3, <1>4, Steps

-----------------------------------------------------------------------------
(* The theorems.                                                           *)

\* The two inductive invariants hold in every reachable state.
LEMMA Invariants == Spec => [](SoundInv /\ HistInv)
<1>1. Init => SoundInv /\ HistInv
  BY SoundInit, HistInit
<1>2. SoundInv /\ HistInv /\ [Next]_vars => (SoundInv /\ HistInv)'
  BY SoundStep, HistStep
<1> QED
  BY <1>1, <1>2, PTL DEF Spec

\* Nothing of a decision is lost or told twice, whatever IDs hosts use: every request gets
\* one answer, every version of a ticket changes once, every trace leads to its ticket, and
\* an archived trace or attempt is nowhere hot, through failures and archivals.  Tickets
\* opened again under an archived ID are the only ones of which less is said.
THEOREM HistoryKept == Spec => []HistorySound
<1>1. SoundInv /\ HistInv => HistorySound
  BY HistGives
<1> QED
  BY <1>1, Invariants, PTL

\* And archiving inside a boundary drops none of the tickets it opened: a commit was
\* prepared before they were, and is stale as soon as the request that opened one of them
\* has its answer in hot history.
THEOREM BatchKept == Spec => ArchiveKeepsBatch
<1>1. /\ SoundInv /\ SoundInv' /\ HistInv /\ [Next]_vars =>
         [pc' = "admit" /\ book'.archived # book.archived => book'.opened = book.opened]_vars
  BY BatchStep
<1> QED
  BY <1>1, Invariants, PTL DEF Spec, ArchiveKeepsBatch

-----------------------------------------------------------------------------
(* How a ticket may stand within a boundary at time `at`, by how it stood  *)
(* when the boundary began.                                                *)

Progress(old, new, at) ==
    \/ new = old
    \/ Promise!Opens(old, new, at) \/ Promise!Changes(old, new, at)
    \/ Promise!Expires(old, new, at) \/ Promise!Archives(old, new)

\* And once none is overdue.
Settled(old, new, at) ==
    \/ Promise!Opens(old, new, at) \/ Promise!Changes(old, new, at)
    \/ Promise!Expires(old, new, at) \/ Promise!Keeps(old, new, at)
    \/ Promise!Archives(old, new)

\* The boundary's own invariant.  It archives after its last request only.
ProgressInv ==
    pc # "idle" =>
        /\ saved.now <= now /\ archives \subseteq saved.archives
        /\ pc = "admit" =>
              /\ saved.book.archived.tickets \subseteq book.archived.tickets
              /\ Taken # {} => book.archived.tickets \subseteq saved.book.archived.tickets
        /\ \A t \in Tickets : Progress(Life(saved.book, t), Life(book, t), now)
        /\ pc = "systems" =>
              \A t \in Tickets : Settled(Life(saved.book, t), Life(book, t), now)

\* A settled ticket has made progress, if only by staying.
LEMMA SettledIs ==
  ASSUME NEW old, NEW new, NEW at, Settled(old, new, at)
  PROVE  Progress(old, new, at)
BY DEF Settled, Progress, Promise!Keeps

\* What is seen of an archived ticket.
LEMMA ArchivedIs ==
  Promise!Archived = [phase |-> "archived", version |-> 0, deadline |-> None, again |-> FALSE]
<1>1. Promise!Archived = [Promise!Absent EXCEPT !.phase = "archived"]
  BY Zenon DEF Promise!Archived
<1>2. PICK a : a = Promise!Absent
  OBVIOUS
<1>3. a = [phase |-> "absent", version |-> 0, deadline |-> None, again |-> FALSE]
  BY <1>2 DEF Promise!Absent
<1>4. PICK e : e = [a EXCEPT !.phase = "archived"]
  OBVIOUS
<1>5. PICK r : r = [phase |-> "archived", version |-> 0, deadline |-> None, again |-> FALSE]
  OBVIOUS
<1>6. a \in Promise!Entry /\ r \in Promise!Entry
  BY <1>3, <1>5 DEF Promise!Entry
<1>7. /\ e \in Promise!Entry /\ e.phase = "archived" /\ e.version = a.version
      /\ e.deadline = a.deadline /\ e.again = a.again
  BY <1>4, <1>6 DEF Promise!Entry
<1>8. /\ r.phase = "archived" /\ r.version = a.version /\ r.deadline = a.deadline
      /\ r.again = a.again
  BY <1>3, <1>5
<1>9. e = r
  BY <1>6, <1>7, <1>8 DEF Promise!Entry
<1> QED
  BY <1>1, <1>2, <1>4, <1>5, <1>9

\* What is seen of a ticket.
LEMMA LifeIs ==
  ASSUME NEW b \in Books, NEW t \in Tickets
  PROVE  /\ Life(b, t) \in Promise!Entry
         /\ t \in DOMAIN b.tickets =>
               /\ Life(b, t) = [phase |-> b.tickets[t].state, version |-> b.tickets[t].version,
                                deadline |-> b.tickets[t].deadline,
                                again |-> t \in b.archived.tickets]
               /\ b.tickets[t].state \in {"open", "resolved", "cancelled", "expired"}
               /\ b.tickets[t].version \in Nat
         /\ t \notin DOMAIN b.tickets /\ t \in b.archived.tickets =>
               Life(b, t) = Promise!Archived
         /\ t \notin DOMAIN b.tickets /\ t \notin b.archived.tickets =>
               Life(b, t) = Promise!Absent
<1>1. ASSUME t \in DOMAIN b.tickets
      PROVE  /\ b.tickets[t].state \in {"open", "resolved", "cancelled", "expired"}
             /\ b.tickets[t].version \in Nat /\ b.tickets[t].deadline \in Nat \cup {None}
  <2>1. b.tickets[t] \in Ticket
    BY <1>1, BookFields
  <2> QED
    BY <2>1 DEF Ticket, Versions, Deadlines
<1>2. CASE t \in DOMAIN b.tickets
  BY <1>1, <1>2 DEF Life, Promise!Entry, Promise!Terminal
<1>3. CASE t \notin DOMAIN b.tickets /\ t \in b.archived.tickets
  BY <1>3, ArchivedIs DEF Life, Promise!Entry
<1>4. CASE t \notin DOMAIN b.tickets /\ t \notin b.archived.tickets
  BY <1>4 DEF Life, Promise!Entry, Promise!Absent
<1> QED
  BY <1>1, <1>2, <1>3, <1>4

\* An expiry, field by field.
LEMMA ExpiresIs ==
  ASSUME NEW old \in Promise!Entry, NEW new \in Promise!Entry, NEW at,
         old.phase = "open", Promise!Past(old, at), new.phase = "expired",
         new.version = old.version + 1, new.deadline = old.deadline, new.again = old.again
  PROVE  Promise!Expires(old, new, at)
<1>1. PICK e : e = [old EXCEPT !.phase = "expired", !.version = @ + 1]
  OBVIOUS
<1>2. /\ e.phase = "expired" /\ e.version = old.version + 1 /\ e.deadline = old.deadline
      /\ e.again = old.again
  BY <1>1 DEF Promise!Entry
<1>3. e \in Promise!Entry
  BY <1>1 DEF Promise!Entry, Promise!Terminal
<1>4. new = e
  BY <1>2, <1>3 DEF Promise!Entry
<1> QED
  BY <1>1, <1>4 DEF Promise!Expires

\* Tickets a step leaves alone.
LEMMA SameLife ==
  ASSUME NEW b, NEW c, c.tickets = b.tickets, c.archived = b.archived, NEW t
  PROVE  Life(c, t) = Life(b, t)
BY DEF Life

\* While nothing was archived, no ticket was.
LEMMA SameArchived ==
  ASSUME NEW b \in Books, NEW c \in Books, NEW t \in Tickets,
         c.archived.tickets \subseteq b.archived.tickets
  PROVE  ~Promise!Archives(Life(b, t), Life(c, t))
<1> SUFFICES ASSUME Promise!Archives(Life(b, t), Life(c, t)) PROVE FALSE
  OBVIOUS
<1>1. Life(b, t).phase \in Promise!Terminal /\ ~Life(b, t).again /\ Life(c, t).phase = "archived"
  BY DEF Promise!Archives, Promise!Archived, Promise!Absent
<1>2. t \in DOMAIN b.tickets /\ t \notin b.archived.tickets
  BY <1>1 DEF Life, Promise!Terminal
<1>3. t \in c.archived.tickets
  BY <1>1, LifeIs DEF Promise!Absent
<1> QED
  BY <1>2, <1>3

\* When time advances, late tickets have expired.
LEMMA AdvanceProgress ==
  ASSUME NEW b \in Books, Indexed(b), NEW at \in Nat, NEW c, c = AdvanceTime(b, at),
         NEW t \in Tickets, NEW old \in Promise!Entry, Progress(old, Life(b, t), at)
  PROVE  Settled(old, Life(c, t), at)
<1>1. /\ c \in Books /\ SameRest(b, c) /\ DOMAIN c.tickets = DOMAIN b.tickets
      /\ \A u \in Late(b, at) : c.tickets[u] = Expired(b, u, at)
      /\ \A u \in DOMAIN b.tickets \ Late(b, at) : c.tickets[u] = b.tickets[u]
  BY AdvanceFields
<1>2. CASE t \in Late(b, at)
  <2> DEFINE x == b.tickets[t]
             y == Bumped(b, t, at)
             new == Life(b, t)
  <2>1. t \in DOMAIN b.tickets /\ x.state = "open" /\ x.deadline # None /\ x.deadline < at
    BY <1>2 DEF Late, OpenTickets, IsOpen, Past
  <2>2. y \in Ticket /\ y.version = x.version + 1 /\ y.deadline = x.deadline
    BY <2>1, BumpedTyped
  <2>3. c.tickets[t] = [y EXCEPT !.state = "expired"]
    BY <1>1, <1>2 DEF Expired
  <2> HIDE DEF y
  <2>4. /\ c.tickets[t].state = "expired" /\ c.tickets[t].version = x.version + 1
        /\ c.tickets[t].deadline = x.deadline
    BY <2>2, <2>3 DEF Ticket
  <2>5. /\ new = [phase |-> "open", version |-> x.version, deadline |-> x.deadline,
                  again |-> t \in b.archived.tickets]
        /\ Life(c, t) = [phase |-> "expired", version |-> x.version + 1,
                         deadline |-> x.deadline, again |-> t \in b.archived.tickets]
    BY <1>1, <2>1, <2>4 DEF Life, SameRest
  <2> HIDE DEF x, new
  <2>6. new = old
    <3>1. Promise!Past(new, at) /\ new.phase = "open"
      BY <2>1, <2>5 DEF Promise!Past
    <3>2. ~Promise!Opens(old, new, at) /\ ~Promise!Changes(old, new, at)
      BY <3>1 DEF Promise!Opens, Promise!Changes
    <3>3. ~Promise!Expires(old, new, at)
      BY <3>1 DEF Promise!Expires, Promise!Entry
    <3>4. ~Promise!Archives(old, new)
      BY <3>1 DEF Promise!Archives, Promise!Archived, Promise!Absent
    <3> QED
      BY <3>2, <3>3, <3>4 DEF Progress, new
  <2>7. Promise!Expires(old, Life(c, t), at)
    <3>1. old.phase = "open" /\ Promise!Past(old, at)
      BY <2>1, <2>5, <2>6 DEF Promise!Past
    <3>2. Life(c, t) \in Promise!Entry
      BY <1>1, LifeIs
    <3> QED
      BY <2>5, <2>6, <3>1, <3>2, ExpiresIs
  <2> QED
    BY <2>7 DEF Settled
<1>3. CASE t \notin Late(b, at)
  <2>1. Life(c, t) = Life(b, t)
    BY <1>1, <1>3 DEF Life, SameRest
  <2>2. ASSUME Life(b, t) = old PROVE Promise!Keeps(old, Life(c, t), at)
    <3>1. CASE t \in DOMAIN b.tickets
      BY <1>3, <2>1, <2>2, <3>1
         DEF Life, Promise!Keeps, Promise!Past, Late, OpenTickets, IsOpen, Past
    <3>2. CASE t \notin DOMAIN b.tickets
      BY <2>1, <2>2, <3>2 DEF Life, Promise!Keeps
    <3> QED
      BY <3>1, <3>2
  <2> QED
    BY <2>1, <2>2 DEF Progress, Settled
<1> QED
  BY <1>2, <1>3

\* A sweep at the boundary's end cancels what is open.
LEMMA SweptSettled ==
  ASSUME NEW b \in Books, Indexed(b), now \in Nat, NEW gone, NEW c, c = Swept(b, gone),
         NEW t \in Tickets, NEW old \in Promise!Entry, Settled(old, Life(b, t), now)
  PROVE  Settled(old, Life(c, t), now)
<1>1. /\ c \in Books /\ SameRest(b, c) /\ DOMAIN c.tickets = DOMAIN b.tickets
      /\ \A u \in Missed(b, gone) : c.tickets[u] = Cancelled(b, u, now)
      /\ \A u \in DOMAIN b.tickets \ Missed(b, gone) : c.tickets[u] = b.tickets[u]
  BY SweptFields
<1>2. CASE t \in Missed(b, gone)
  <2> DEFINE x == b.tickets[t]
             y == Bumped(b, t, now)
             mid == Life(b, t)
             new == Life(c, t)
  <2>1. t \in DOMAIN b.tickets /\ x.state = "open"
    BY <1>2 DEF Missed, OpenTickets, IsOpen
  <2>2. y \in Ticket /\ y.version = x.version + 1 /\ y.deadline = x.deadline
    BY <2>1, BumpedTyped
  <2>3. c.tickets[t] = [y EXCEPT !.state = "cancelled"]
    BY <1>1, <1>2 DEF Cancelled
  <2> HIDE DEF y
  <2>4. /\ c.tickets[t].state = "cancelled" /\ c.tickets[t].version = x.version + 1
        /\ c.tickets[t].deadline = x.deadline
    BY <2>2, <2>3 DEF Ticket
  <2>5. /\ mid.phase = "open" /\ mid.version = x.version /\ mid.deadline = x.deadline
        /\ new.phase = "cancelled" /\ new.version = x.version + 1
        /\ new.deadline = x.deadline /\ mid.version \in Nat /\ new.again = mid.again
    BY <1>1, <2>1, <2>4, LifeIs DEF Life, SameRest
  <2> HIDE DEF x, mid, new
  <2>6. /\ new.version = mid.version + 1 /\ new.deadline = mid.deadline
        /\ new.again = mid.again /\ old.version \in Nat
    BY <2>5 DEF Promise!Entry
  <2>7. CASE Promise!Opens(old, mid, now)
    <3>1. Promise!Opens(old, new, now)
      BY <2>5, <2>6, <2>7 DEF Promise!Opens, Promise!Past
    <3> QED
      BY <3>1 DEF Settled, new
  <2>8. CASE Promise!Changes(old, mid, now)
    <3>1. Promise!Changes(old, new, now)
      BY <2>5, <2>6, <2>8 DEF Promise!Changes, Promise!Past
    <3> QED
      BY <3>1 DEF Settled, new
  <2>9. CASE Promise!Keeps(old, mid, now)
    <3>1. Promise!Changes(old, new, now)
      BY <2>5, <2>6, <2>9 DEF Promise!Keeps, Promise!Changes, Promise!Past
    <3> QED
      BY <3>1 DEF Settled, new
  <2>10. CASE Promise!Expires(old, mid, now) \/ Promise!Archives(old, mid)
    BY <2>5, <2>10 DEF Promise!Expires, Promise!Archives, Promise!Archived, Promise!Absent,
                       Promise!Entry
  <2> QED
    BY <2>7, <2>8, <2>9, <2>10 DEF Settled, mid
<1>3. CASE t \notin Missed(b, gone)
  <2>1. Life(c, t) = Life(b, t)
    BY <1>1, <1>3 DEF Life, SameRest
  <2> QED
    BY <2>1
<1> QED
  BY <1>2, <1>3

-----------------------------------------------------------------------------
(* How the steps of a boundary move its tickets.                           *)

\* A ticket that opens was absent when the boundary began, or archived before it did.
LEMMA OpenedProgress ==
  ASSUME NEW old \in Promise!Entry, NEW mid, NEW new, NEW at,
         mid \in {Promise!Absent, Promise!Archived}, ~Promise!Archives(old, mid),
         Progress(old, mid, at), new.phase = "open", new.version = 1, ~Promise!Past(new, at),
         new.again = (mid = Promise!Archived)
  PROVE  Progress(old, new, at)
<1>1. mid.phase \in {"absent", "archived"}
  BY DEF Promise!Absent, Promise!Archived
<1>2. ~Promise!Expires(old, mid, at)
  <2>1. [old EXCEPT !.phase = "expired", !.version = @ + 1].phase = "expired"
    BY DEF Promise!Entry
  <2> QED
    BY <1>1, <2>1 DEF Promise!Expires
<1>3. old = mid
  BY <1>1, <1>2 DEF Progress, Promise!Opens, Promise!Changes
<1>4. Promise!Opens(old, new, at)
  BY <1>3 DEF Promise!Opens
<1> QED
  BY <1>4 DEF Progress

\* One that changes was open, and is now at a later version.
LEMMA ChangedProgress ==
  ASSUME NEW old \in Promise!Entry, NEW mid \in Promise!Entry, NEW new \in Promise!Entry,
         NEW at, Progress(old, mid, at), mid.phase = "open", ~Promise!Past(mid, at),
         new.phase \in {"open", "resolved", "cancelled"}, new.version > mid.version,
         new.again = mid.again, ~Promise!Past(new, at)
  PROVE  Progress(old, new, at)
<1>1. old.version \in Nat /\ mid.version \in Nat /\ new.version \in Nat
  BY DEF Promise!Entry
<1>2. CASE mid = old
  <2>1. Promise!Changes(old, new, at)
    BY <1>2 DEF Promise!Changes
  <2> QED
    BY <2>1 DEF Progress
<1>3. CASE Promise!Opens(old, mid, at)
  <2>1. Promise!Opens(old, new, at)
    BY <1>1, <1>3 DEF Promise!Opens
  <2> QED
    BY <2>1 DEF Progress
<1>4. CASE Promise!Changes(old, mid, at)
  <2>1. Promise!Changes(old, new, at)
    BY <1>1, <1>4 DEF Promise!Changes
  <2> QED
    BY <2>1 DEF Progress
<1>5. ~Promise!Expires(old, mid, at)
  <2>1. [old EXCEPT !.phase = "expired", !.version = @ + 1].phase = "expired"
    BY DEF Promise!Entry
  <2> QED
    BY <2>1 DEF Promise!Expires
<1>6. ~Promise!Archives(old, mid)
  BY DEF Promise!Archives, Promise!Archived, Promise!Absent
<1> QED
  BY <1>2, <1>3, <1>4, <1>5, <1>6 DEF Progress

\* One that is archived closed before the boundary began, if it was at that version then.
LEMMA ArchivedProgress ==
  ASSUME NEW old \in Promise!Entry, NEW mid \in Promise!Entry, NEW at,
         Progress(old, mid, at), mid.phase \in Promise!Terminal,
         old.phase \in {"open"} \cup Promise!Terminal, mid.version <= old.version,
         ~mid.again
  PROVE  Progress(old, Promise!Archived, at)
<1>1. old.version \in Nat /\ mid.version \in Nat
  BY DEF Promise!Entry
<1>2. ~Promise!Opens(old, mid, at)
  BY ArchivedIs DEF Promise!Opens, Promise!Absent, Promise!Terminal
<1>3. ~Promise!Changes(old, mid, at)
  BY <1>1 DEF Promise!Changes
<1>4. ~Promise!Expires(old, mid, at)
  <2>1. [old EXCEPT !.phase = "expired", !.version = @ + 1].version = old.version + 1
    BY DEF Promise!Entry
  <2>2. mid.version # old.version + 1
    BY <1>1
  <2> QED
    BY <2>1, <2>2 DEF Promise!Expires
<1>5. ~Promise!Archives(old, mid)
  BY DEF Promise!Archives, Promise!Archived, Promise!Absent, Promise!Terminal
<1>6. Promise!Archives(old, Promise!Archived)
  BY <1>2, <1>3, <1>4, <1>5 DEF Progress, Promise!Archives
<1> QED
  BY <1>6 DEF Progress

\* An accepted request, before time advances over the book it leads to.
LEMMA TakenProgress ==
  ASSUME SoundInv, HistoryInv(Checkpoint), NEW i \in Taken,
         CanApply(issued[i].mutation, now), NEW c \in Books,
         LET m == issued[i].mutation IN Registers(m, c) \/ Opens(m, now, c) \/ Moves(m, now, c),
         NEW t \in Tickets, NEW old \in Promise!Entry, Progress(old, Life(book, t), now),
         ~Promise!Archives(old, Life(book, t))
  PROVE  Progress(old, Life(c, t), now)
<1> DEFINE m == issued[i].mutation
           id == m.ticket
<1>1. book \in Books /\ m \in Mutation /\ now \in Nat /\ i \in queue
  BY TakenTyped DEF SoundInv, Current, BookInv, Taken
<1> HIDE DEF m
<1>3. ASSUME c.archived = book.archived, NEW y, c.tickets = With(book.tickets, id, y), t # id
      PROVE  Life(c, t) = Life(book, t)
  BY <1>3 DEF Life, With
<1>4. ASSUME NEW y, c.tickets = With(book.tickets, id, y)
      PROVE  id \in DOMAIN c.tickets /\ c.tickets[id] = y
  BY <1>4 DEF With
<1>5. CASE Registers(m, c)
  BY <1>5, SameLife DEF Registers
<1>6. CASE Opens(m, now, c)
  <2> DEFINE y == NewTicket(m, now)
  <2>1. /\ m.kind = "open" /\ c.tickets = With(book.tickets, id, y)
        /\ c.archived = book.archived /\ id \notin DOMAIN book.tickets
        /\ ~Past(m.deadline, now)
    BY <1>6 DEF Opens, CanOpen
  <2>2. y.state = "open" /\ y.version = 1 /\ y.deadline = m.deadline
    BY DEF NewTicket
  <2> HIDE DEF y
  <2>3. CASE t # id
    BY <1>3, <2>1, <2>3
  <2>4. CASE t = id
    <3>1. /\ Life(book, t) \in {Promise!Absent, Promise!Archived}
          /\ (Life(book, t) = Promise!Archived) = (t \in book.archived.tickets)
      <4>1. Promise!Absent # Promise!Archived
        BY DEF Promise!Absent, Promise!Archived
      <4> QED
        BY <1>1, <2>1, <2>4, <4>1, LifeIs
    <3>2. Life(c, t) = [phase |-> "open", version |-> 1, deadline |-> m.deadline,
                        again |-> t \in book.archived.tickets]
      BY <1>4, <2>1, <2>2, <2>4 DEF Life
    <3>3. ~Promise!Past(Life(c, t), now)
      BY <2>1, <3>2 DEF Past, Promise!Past
    <3> QED
      BY <3>1, <3>2, <3>3, OpenedProgress
  <2> QED
    BY <2>3, <2>4
<1>7. CASE Moves(m, now, c)
  <2> DEFINE x == book.tickets[id]
  <2>1. /\ id \in DOMAIN book.tickets /\ IsOpen(x) /\ ~Past(x.deadline, now)
        /\ c.archived = book.archived
    BY <1>7 DEF Moves, OpenAtVersion
  <2>2. PICK y : Moved(m, now, y) /\ c.tickets = With(book.tickets, id, y)
    BY <1>7 DEF Moves
  <2>3. /\ y \in Ticket /\ y.version = x.version + 1 /\ ~Past(y.deadline, now)
        /\ y.state \in {"open", "resolved", "cancelled"}
    BY <2>2 DEF Moved
  <2>4. CASE t # id
    BY <1>3, <2>1, <2>2, <2>4
  <2>5. CASE t = id
    <3>1. /\ Life(book, t).phase = "open" /\ Life(book, t).version = x.version
          /\ Life(book, t).deadline = x.deadline /\ x.version \in Nat
          /\ Life(book, t).again = (t \in book.archived.tickets)
      BY <1>1, <2>1, <2>5, LifeIs DEF IsOpen
    <3>2. /\ Life(c, t).phase = y.state /\ Life(c, t).version = y.version
          /\ Life(c, t).deadline = y.deadline
          /\ Life(c, t).again = (t \in book.archived.tickets)
      BY <1>4, <2>1, <2>2, <2>5 DEF Life
    <3>3. Life(book, t) \in Promise!Entry /\ Life(c, t) \in Promise!Entry
      BY <1>1, LifeIs
    <3>4. ~Promise!Past(Life(book, t), now) /\ ~Promise!Past(Life(c, t), now)
      BY <2>1, <2>3, <3>1, <3>2 DEF Past, Promise!Past
    <3>5. Life(c, t).version > Life(book, t).version
      BY <2>3, <3>1, <3>2
    <3> QED
      BY <2>3, <3>1, <3>2, <3>3, <3>4, <3>5, ChangedProgress
  <2> QED
    BY <2>4, <2>5
<1> QED
  BY <1>5, <1>6, <1>7 DEF m

\* An accepted request, time advancing over its book.
LEMMA AcceptProgress ==
  ASSUME SoundInv, HistoryInv(Checkpoint), NEW i \in Taken, AcceptDecision(i),
         NEW t \in Tickets, NEW old \in Promise!Entry, Progress(old, Life(book, t), now),
         ~Promise!Archives(old, Life(book, t))
  PROVE  Progress(old, Life(book', t), now)
<1> DEFINE m == issued[i].mutation
<1>1. /\ book \in Books /\ Indexed(book) /\ nextTrace \in Versions /\ m \in Mutation
      /\ now \in Nat /\ i \in Versions /\ CanApply(m, now)
      /\ book' = Attempted(Applied(m, now), i, TRUE)
  BY TakenTyped DEF SoundInv, Current, BookInv, AcceptDecision
<1> HIDE DEF m
<1>2. PICK c \in Books : /\ Applied(m, now) = AdvanceTime(c, now) /\ Indexed(c)
                         /\ Registers(m, c) \/ Opens(m, now, c) \/ Moves(m, now, c)
  BY <1>1, AppliedIs
<1>3. Progress(old, Life(c, t), now)
  BY <1>1, <1>2, TakenProgress DEF m
<1>4. PICK late : late = AdvanceTime(c, now)
  OBVIOUS
<1>5. late \in Books /\ Progress(old, Life(late, t), now)
  BY <1>1, <1>2, <1>3, <1>4, AdvanceFields, AdvanceProgress, SettledIs
<1>6. PICK b : b = Attempted(late, i, TRUE)
  OBVIOUS
<1>7. b.tickets = late.tickets /\ b.archived = late.archived
  BY <1>1, <1>5, <1>6, AttemptedFields
<1>8. Life(b, t) = Life(late, t)
  BY <1>7, SameLife
<1> QED
  BY <1>1, <1>2, <1>4, <1>5, <1>6, <1>8

\* A commit archives what closed before the boundary: it was prepared from the book the
\* boundary began with, or an earlier one, and names no ticket that was opened again.
LEMMA ArchiveProgress ==
  ASSUME SoundInv, HistoryInv(saved), saved.book \in Books,
         saved.book.archived.tickets \subseteq book.archived.tickets,
         archives \subseteq saved.archives, NEW commit \in TakenArchives,
         ApplyArchive(commit), NEW t \in Tickets,
         Progress(Life(saved.book, t), Life(book, t), now)
  PROVE  Progress(Life(saved.book, t), Life(book', t), now)
<1> DEFINE keys == commit.keys
           old == Life(saved.book, t)
           mid == Life(book, t)
<1>1. /\ commit \in archives /\ book \in Books /\ Indexed(book)
      /\ (commit.source = Hot => Eligible(keys))
      /\ book' = IF commit.source = Hot THEN Archived(keys) ELSE book
  BY DEF TakenArchives, ApplyArchive, SoundInv, Current, BookInv
<1>2. CASE commit.source # Hot
  BY <1>1, <1>2
<1>3. CASE commit.source = Hot
  <2>1. /\ keys \in KeySets /\ keys.tickets \subseteq DOMAIN book.tickets
        /\ keys.tickets \cap OpenTickets(book) = {}
        /\ keys.tickets \cap book.archived.tickets = {}
    BY <1>1, <1>3, CurrentCommit, EligibleApart
  <2>2. PICK c : c = Archived(keys)
    OBVIOUS
  <2>3. /\ c.tickets = Keep(book.tickets, keys.tickets)
        /\ c.archived.tickets = book.archived.tickets \cup keys.tickets
    BY <1>1, <2>1, <2>2, ArchivedFields
  <2>4. DOMAIN c.tickets = DOMAIN book.tickets \ keys.tickets
        /\ \A u \in DOMAIN c.tickets : c.tickets[u] = book.tickets[u]
    BY <2>3 DEF Keep
  <2> HIDE DEF keys
  <2>5. CASE t \notin keys.tickets
    <3>1. Life(c, t) = Life(book, t)
      <4>1. /\ (t \in c.archived.tickets) = (t \in book.archived.tickets)
            /\ t \in DOMAIN c.tickets <=> t \in DOMAIN book.tickets
        BY <2>3, <2>4, <2>5
      <4> QED
        BY <2>4, <4>1 DEF Life
    <3> QED
      BY <1>1, <1>3, <2>2, <3>1
  <2>6. CASE t \in keys.tickets
    <3>1. /\ t \in DOMAIN book.tickets /\ ~IsOpen(book.tickets[t])
          /\ commit.source.tickets = book.tickets /\ t \notin book.archived.tickets
      BY <1>3, <2>1, <2>6 DEF OpenTickets, Hot
    <3>2. /\ mid \in Promise!Entry /\ old \in Promise!Entry /\ ~mid.again
          /\ mid.phase \in Promise!Terminal /\ mid.version = book.tickets[t].version
      <4>1. /\ mid = [phase |-> book.tickets[t].state, version |-> book.tickets[t].version,
                      deadline |-> book.tickets[t].deadline,
                      again |-> t \in book.archived.tickets]
            /\ mid \in Promise!Entry /\ old \in Promise!Entry
            /\ book.tickets[t].state \in {"open", "resolved", "cancelled", "expired"}
        BY <1>1, <3>1, LifeIs
      <4> HIDE DEF mid
      <4> QED
        BY <3>1, <4>1 DEF IsOpen, Promise!Terminal
    <3>3. /\ t \in DOMAIN saved.book.tickets
          /\ book.tickets[t].version <= saved.book.tickets[t].version
      BY <1>1, <3>1 DEF HistoryInv, Known
    <3>4. /\ old.phase \in {"open"} \cup Promise!Terminal
          /\ mid.version <= old.version
      BY <3>2, <3>3, LifeIs DEF Promise!Terminal
    <3>5. Progress(old, Promise!Archived, now)
      BY <3>2, <3>4, ArchivedProgress
    <3>6. Life(c, t) = Promise!Archived
      BY <2>3, <2>4, <2>6, ArchivedIs DEF Life
    <3> QED
      BY <1>1, <1>3, <2>2, <3>5, <3>6
  <2> QED
    BY <2>5, <2>6
<1> QED
  BY <1>2, <1>3

-----------------------------------------------------------------------------
(* The boundary's invariant, step by step.                                 *)

LEMMA BeginProgress ==
  ASSUME SoundInv, NEW at \in Nat, NEW commands \in 0 .. 1, BeginBoundary(at, commands)
  PROVE  ProgressInv'
<1>1. /\ saved' = Checkpoint /\ pc' = "admit" /\ now' = at /\ now <= at
      /\ book' = [book EXCEPT !.opened = {}] /\ UNCHANGED archives
  BY DEF BeginBoundary, journal
<1>2. saved'.now = now /\ saved'.book = book /\ saved'.archives = archives
  BY <1>1, CheckpointParts
<1>3. book \in Books /\ now \in Nat
  BY DEF SoundInv, Current, BookInv
<1>4. book'.tickets = book.tickets /\ book'.archived = book.archived
  BY <1>1, <1>3 DEF Books
<1>5. \A t \in Tickets : Life(book', t) = Life(saved'.book, t)
  BY <1>2, <1>4, SameLife
<1>6. \A t \in Tickets : Progress(Life(saved'.book, t), Life(book', t), now')
  BY <1>5 DEF Progress
<1> QED
  BY <1>1, <1>2, <1>3, <1>4, <1>6 DEF ProgressInv

\* While the boundary admits, each ticket makes progress.
LEMMA AdmitProgress ==
  ASSUME SoundInv, HistInv, ProgressInv,
         \/ \E i \in Taken : RejectDecision(i) \/ AcceptDecision(i)
         \/ \E commit \in TakenArchives : ApplyArchive(commit)
  PROVE  ProgressInv'
<1>1. /\ pc = "admit" /\ UNCHANGED <<pc, saved, now, issued>> /\ archives' \subseteq archives
      /\ queue' \subseteq queue
  BY DEF RejectDecision, AcceptDecision, ApplyArchive, clock, control
<1>2. /\ HistoryInv(Checkpoint) /\ HistoryInv(saved) /\ saved.book \in Books
      /\ saved.now <= now /\ archives \subseteq saved.archives /\ book \in Books
      /\ saved.book.archived.tickets \subseteq book.archived.tickets
      /\ Taken # {} => book.archived.tickets \subseteq saved.book.archived.tickets
      /\ \A t \in Tickets : Progress(Life(saved.book, t), Life(book, t), now)
  BY <1>1 DEF HistInv, SoundInv, Sound, Current, BookInv, ProgressInv
<1>3. Taken' \subseteq Taken
  BY <1>1 DEF Taken
<1>4. ASSUME NEW i \in Taken, RejectDecision(i)
      PROVE  book'.tickets = book.tickets /\ book'.archived = book.archived
  <2>1. PICK b : b = Attempted(book, i, FALSE)
    OBVIOUS
  <2>2. b.tickets = book.tickets /\ b.archived = book.archived
    BY <1>2, <1>4, <2>1, TakenTyped, AttemptedFields
  <2> QED
    BY <1>4, <2>1, <2>2 DEF RejectDecision
<1>5. CASE \E i \in Taken : RejectDecision(i) \/ AcceptDecision(i)
  <2>1. PICK i \in Taken : RejectDecision(i) \/ AcceptDecision(i)
    BY <1>5
  <2>2. book'.archived = book.archived
    BY <1>4, <2>1, AcceptArchives
  <2>3. ASSUME NEW t \in Tickets PROVE Progress(Life(saved.book, t), Life(book', t), now)
    <3>1. Life(saved.book, t) \in Promise!Entry
      BY <1>2, LifeIs
    <3>2. ~Promise!Archives(Life(saved.book, t), Life(book, t))
      BY <1>2, SameArchived
    <3>3. RejectDecision(i) => Life(book', t) = Life(book, t)
      BY <1>4, SameLife
    <3> QED
      BY <1>2, <2>1, <3>1, <3>2, <3>3, AcceptProgress
  <2> QED
    BY <1>1, <1>2, <1>3, <2>2, <2>3 DEF ProgressInv
<1>6. CASE \E commit \in TakenArchives : ApplyArchive(commit)
  <2>1. PICK commit \in TakenArchives : ApplyArchive(commit)
    BY <1>6
  <2>2. Taken = {} /\ book.archived.tickets \subseteq book'.archived.tickets
    <3>1. CASE commit.source = Hot
      <4>1. /\ commit.keys \in KeySets /\ commit.keys.tickets \cap OpenTickets(book) = {}
            /\ Indexed(book)
        BY <2>1, <3>1, CurrentCommit DEF ApplyArchive, TakenArchives, SoundInv, Current, BookInv
      <4>2. PICK c : c = Archived(commit.keys)
        OBVIOUS
      <4>3. c.archived.tickets = book.archived.tickets \cup commit.keys.tickets
        BY <1>2, <4>1, <4>2, ArchivedFields
      <4> QED
        BY <2>1, <3>1, <4>2, <4>3 DEF ApplyArchive
    <3>2. CASE commit.source # Hot
      BY <2>1, <3>2 DEF ApplyArchive
    <3> QED
      BY <3>1, <3>2
  <2>3. \A t \in Tickets : Progress(Life(saved.book, t), Life(book', t), now)
    BY <1>2, <2>1, ArchiveProgress
  <2> QED
    BY <1>1, <1>2, <1>3, <2>2, <2>3 DEF ProgressInv
<1> QED
  BY <1>5, <1>6

\* EndAdmission: what was overdue has expired.
LEMMA EndProgress ==
  ASSUME SoundInv, ProgressInv, EndAdmission
  PROVE  ProgressInv'
<1>1. /\ book' = AdvanceTime(book, now) /\ pc = "admit" /\ pc' = "systems"
      /\ UNCHANGED <<now, archives, saved>>
  BY DEF EndAdmission, clock, journal
<1>2. /\ book \in Books /\ Indexed(book) /\ now \in Nat /\ saved.book \in Books
      /\ saved.now <= now /\ archives \subseteq saved.archives
      /\ \A t \in Tickets : Progress(Life(saved.book, t), Life(book, t), now)
  BY <1>1 DEF SoundInv, Sound, Current, BookInv, ProgressInv
<1>3. PICK c : c = AdvanceTime(book, now)
  OBVIOUS
<1>4. ASSUME NEW t \in Tickets
      PROVE  /\ Settled(Life(saved.book, t), Life(c, t), now)
             /\ Progress(Life(saved.book, t), Life(c, t), now)
  BY <1>2, <1>3, LifeIs, AdvanceProgress, SettledIs
<1> QED
  BY <1>1, <1>2, <1>3, <1>4 DEF ProgressInv

\* Together.
LEMMA ProgressStep ==
  ASSUME SoundInv, HistInv, ProgressInv, [Next]_vars
  PROVE  ProgressInv'
<1>1. now \in Nat
  BY DEF SoundInv, Current
<1>2. CASE \E at \in Nat, commands \in 0 .. 1 : BeginBoundary(at, commands)
  BY <1>2, BeginProgress
<1>3. CASE \/ \E at \in Nat : Advance(at)
           \/ \E at \in Nat, m \in Mutations : EnqueueDecision(at, m)
           \/ \E at \in Nat, keys \in Keys : EnqueueArchive(at, keys)
  BY <1>3 DEF Advance, EnqueueDecision, EnqueueArchive, control, ProgressInv
<1>4. CASE \/ \E i \in Taken : RejectDecision(i) \/ AcceptDecision(i)
           \/ \E commit \in TakenArchives : ApplyArchive(commit)
  BY <1>4, AdmitProgress
<1>5. CASE EndAdmission
  BY <1>5, EndProgress
<1>6. CASE \E id \in DOMAIN book.tickets, acts \in BOOLEAN : ResolveAtRandom(id, acts)
  BY <1>6 DEF ResolveAtRandom, Issue, clock, decided, control, ProgressInv
<1>7. CASE FailBoundary \/ \E gone \in SUBSET People, back \in SUBSET People : Commit(gone, back)
  BY <1>7 DEF FailBoundary, Commit, ProgressInv
<1>8. CASE UNCHANGED vars
  BY <1>8 DEF vars, ProgressInv, Taken
<1> QED
  BY <1>1, <1>2, <1>3, <1>4, <1>5, <1>6, <1>7, <1>8, Steps DEF HostSteps, Boundary

-----------------------------------------------------------------------------
(* The steps TicketBook sees.                                              *)

\* What is seen is set by the committed time and book.
CommittedTime == IF pc = "idle" THEN now ELSE saved.now

\* Where neither changes, nothing is seen.
LEMMA Unseen ==
  ASSUME CommittedTime' = CommittedTime, CommittedBook' = CommittedBook
  PROVE  UNCHANGED Promise!book
BY DEF Promise!book, CommittedTime

\* Advance is a tick, or nothing if the time is the same.
LEMMA AdvanceSeen ==
  ASSUME SoundInv, NEW at \in Nat, Advance(at)
  PROVE  [Promise!Tick \/ Promise!Settle]_(Promise!book)
<1>1. pc = "idle" /\ pc' = pc /\ now' = at /\ now <= at /\ book' = book /\ now \in Nat
  BY DEF Advance, decided, control, SoundInv, Current
<1>2. CommittedTime = now /\ CommittedTime' = at /\ CommittedBook' = CommittedBook
  BY <1>1 DEF CommittedTime, CommittedBook
<1>3. CASE at = now
  BY <1>2, <1>3, Unseen
<1>4. CASE at > now
  <2>1. Promise!Tick
    BY <1>2, <1>4 DEF Promise!Tick, CommittedTime
  <2> QED
    BY <2>1
<1> QED
  BY <1>1, <1>3, <1>4

\* Commit settles all tickets together.
LEMMA CommitSeen ==
  ASSUME SoundInv, SoundInv', ProgressInv, NEW gone \in SUBSET People,
         NEW back \in SUBSET People, Commit(gone, back)
  PROVE  Promise!Settle
<1>1. pc = "systems" /\ pc' = "idle" /\ book' = Swept(book, gone) /\ now' = now
  BY DEF Commit
<1>2. /\ book \in Books /\ Indexed(book) /\ now \in Nat /\ saved.book \in Books
      /\ saved.now <= now /\ book' \in Books
      /\ \A t \in Tickets : Settled(Life(saved.book, t), Life(book, t), now)
  BY <1>1 DEF SoundInv, Sound, Current, BookInv, ProgressInv
<1>3. PICK c : c = Swept(book, gone)
  OBVIOUS
<1>4. \A t \in Tickets : Settled(Life(saved.book, t), Life(c, t), now)
  BY <1>2, <1>3, LifeIs, SweptSettled
<1>5. \A t \in Tickets : Life(c, t) \in Promise!Entry
  BY <1>1, <1>2, <1>3, LifeIs
<1>6. /\ CommittedTime = saved.now /\ CommittedTime' = now
      /\ CommittedBook = saved.book /\ CommittedBook' = c
  BY <1>1, <1>3 DEF CommittedTime, CommittedBook
<1> QED
  BY <1>2, <1>4, <1>5, <1>6 DEF Promise!Settle, Settled, CommittedTime

\* Everything else is unseen: a boundary that fails goes back to what is shown.
LEMMA OtherSeen ==
  ASSUME SoundInv, HistInv,
         \/ \E at \in Nat, m \in Mutations : EnqueueDecision(at, m)
         \/ \E at \in Nat, keys \in Keys : EnqueueArchive(at, keys)
         \/ \E at \in Nat, commands \in 0 .. 1 : BeginBoundary(at, commands)
         \/ \E i \in Taken : RejectDecision(i) \/ AcceptDecision(i)
         \/ \E commit \in TakenArchives : ApplyArchive(commit)
         \/ EndAdmission
         \/ \E id \in DOMAIN book.tickets, acts \in BOOLEAN : ResolveAtRandom(id, acts)
         \/ FailBoundary
         \/ UNCHANGED vars
  PROVE  UNCHANGED Promise!book
<1>1. CASE \/ \E at \in Nat, m \in Mutations : EnqueueDecision(at, m)
           \/ \E at \in Nat, keys \in Keys : EnqueueArchive(at, keys)
  <2>1. UNCHANGED <<pc, saved, now, book>>
    BY <1>1 DEF EnqueueDecision, EnqueueArchive, clock, decided, control
  <2> QED
    BY <2>1, Unseen DEF CommittedTime, CommittedBook
<1>2. CASE \E at \in Nat, commands \in 0 .. 1 : BeginBoundary(at, commands)
  <2>1. pc = "idle" /\ pc' = "admit" /\ saved' = Checkpoint
    BY <1>2 DEF BeginBoundary
  <2>2. saved'.now = now /\ saved'.book = book
    BY <2>1, CheckpointParts
  <2> QED
    BY <2>1, <2>2, Unseen DEF CommittedTime, CommittedBook
<1>3. CASE \/ \E i \in Taken : RejectDecision(i) \/ AcceptDecision(i)
           \/ \E commit \in TakenArchives : ApplyArchive(commit)
           \/ EndAdmission
           \/ \E id \in DOMAIN book.tickets, acts \in BOOLEAN : ResolveAtRandom(id, acts)
  <2>1. pc # "idle" /\ pc' # "idle" /\ saved' = saved
    BY <1>3 DEF RejectDecision, AcceptDecision, ApplyArchive, EndAdmission,
                ResolveAtRandom, control
  <2> QED
    BY <2>1, Unseen DEF CommittedTime, CommittedBook
<1>4. CASE FailBoundary
  <2>1. pc # "idle" /\ pc' = "idle" /\ now' = saved.now /\ book' = saved.book
    BY <1>4 DEF FailBoundary, RestoreBoundary
  <2> QED
    BY <2>1, Unseen DEF CommittedTime, CommittedBook
<1>5. CASE UNCHANGED vars
  BY <1>5, Unseen DEF vars, CommittedTime, CommittedBook
<1> QED
  BY <1>1, <1>2, <1>3, <1>4, <1>5

\* Every step is one of TicketBook, or nothing it shows.
LEMMA BookStep ==
  ASSUME SoundInv, SoundInv', HistInv, ProgressInv, [Next]_vars
  PROVE  [Promise!Tick \/ Promise!Settle]_(Promise!book)
<1>1. now \in Nat
  BY DEF SoundInv, Current
<1>2. CASE \E at \in Nat : Advance(at)
  BY <1>2, AdvanceSeen
<1>3. CASE \E gone \in SUBSET People, back \in SUBSET People : Commit(gone, back)
  BY <1>3, CommitSeen
<1>4. CASE ~ \/ \E at \in Nat : Advance(at)
             \/ \E gone \in SUBSET People, back \in SUBSET People : Commit(gone, back)
  <2>1. UNCHANGED Promise!book
    BY <1>1, <1>4, Steps, OtherSeen DEF HostSteps, Boundary
  <2> QED
    BY <2>1
<1> QED
  BY <1>2, <1>3, <1>4

\* Initially no ticket was opened.
LEMMA BookBegins == Init => Promise!BookInit
<1> SUFFICES ASSUME Init PROVE Promise!BookInit
  OBVIOUS
<1>1. pc = "idle" /\ now = 0 /\ book = EmptyBook
  BY DEF Init
<1>2. DOMAIN book.tickets = {} /\ book.archived.tickets = {}
  BY <1>1 DEF EmptyBook, Nothing, NoKeys
<1>3. \A t \in Tickets : Life(book, t) = Promise!Absent
  BY <1>2 DEF Life, Promise!Absent
<1> QED
  BY <1>1, <1>3 DEF Promise!BookInit, CommittedBook

\* The committed tickets live as TicketBook has it, also those opened again under an ID
\* that was archived: each opens and closes, by a resolution or a change in time, an expiry after
\* its deadline, or a cancellation, all of a boundary's tickets at once; nothing is seen
\* of a boundary that fails, and archival takes only what was closed before.
THEOREM BookImplemented == Spec => ImplementsBook
<1>1. Init => ProgressInv
  BY DEF Init, ProgressInv
<1>2. SoundInv /\ HistInv /\ ProgressInv /\ [Next]_vars => ProgressInv'
  BY ProgressStep
<1>3. SoundInv /\ SoundInv' /\ HistInv /\ ProgressInv /\ [Next]_vars
        => [Promise!Tick \/ Promise!Settle]_(Promise!book)
  BY BookStep
<1> QED
  BY <1>1, <1>2, <1>3, Invariants, BookBegins, PTL
     DEF Spec, ImplementsBook, Promise!BookSpec

=============================================================================
