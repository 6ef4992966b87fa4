----------------------------- MODULE TicketBook -----------------------------
(***************************************************************************)
(* What the decision framework promises about tickets: every ticket opens  *)
(* once and closes once, for good, by a resolution no later than its       *)
(* deadline, by expiry after it, or by a cancellation; boundaries settle   *)
(* all tickets together and leave none open past its deadline.  The ID of  *)
(* an archived ticket may be used again, once: that ticket is not archived.*)
(***************************************************************************)
EXTENDS Integers

CONSTANTS Tickets, None

VARIABLES
    clock,   \* committed simulation time
    life     \* what has become of each ticket

book == <<clock, life>>

Terminal == {"resolved", "cancelled", "expired"}

Entry == [phase : {"absent", "open", "archived"} \cup Terminal,
          version : Nat, deadline : Nat \cup {None}, again : BOOLEAN]

Absent == [phase |-> "absent", version |-> 0, deadline |-> None, again |-> FALSE]
Archived == [Absent EXCEPT !.phase = "archived"]

Past(entry, t) == entry.deadline # None /\ entry.deadline < t

BookInit == clock = 0 /\ life = [t \in Tickets |-> Absent]

\* Time passes without a boundary: no ticket changes, not even one that is overdue.
Tick == clock' > clock /\ UNCHANGED life

\* How a ticket may leave a boundary at time t, by how it entered it.
Opens(old, new, t) ==
    /\ old \in {Absent, Archived} /\ new.phase \in {"open", "resolved", "cancelled"}
    /\ new.version >= 1 /\ ~Past(new, t) /\ new.again = (old = Archived)

Changes(old, new, t) ==
    /\ old.phase = "open" /\ new.phase \in {"open", "resolved", "cancelled"}
    /\ new.version > old.version /\ new.again = old.again
    /\ ~Past(old, t) /\ ~Past(new, t)

Expires(old, new, t) ==
    /\ old.phase = "open" /\ Past(old, t)
    /\ new = [old EXCEPT !.phase = "expired", !.version = @ + 1]

Keeps(old, new, t) == new = old /\ (old.phase = "open" => ~Past(old, t))

Archives(old, new) == old.phase \in Terminal /\ ~old.again /\ new = Archived

Settle ==
    /\ clock' >= clock /\ life' \in [Tickets -> Entry]
    /\ \A t \in Tickets :
          LET old == life[t]
              new == life'[t]
          IN  \/ Opens(old, new, clock') \/ Changes(old, new, clock')
              \/ Expires(old, new, clock') \/ Keeps(old, new, clock')
              \/ Archives(old, new)

BookSpec == BookInit /\ [][Tick \/ Settle]_book
=============================================================================
