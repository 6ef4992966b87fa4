--------------------------- MODULE IngressLedger ---------------------------
(***************************************************************************)
(* What the ingress kernel promises its host: an append-only journal in    *)
(* which every record settles in the one boundary of its due time or is    *)
(* withdrawn before it, on a clock that never goes back.  A boundary is a  *)
(* single step: of one that fails, nothing is seen.                        *)
(***************************************************************************)
EXTENDS Integers, Sequences

VARIABLES
    clock,      \* committed simulation time
    issued,     \* the journal: a due time, the record it withdraws, 0 if none,
                \* and whether a reactor issued it, which no clock waits for
    settled,    \* the set of records each boundary admitted
    withdrawn,  \* the records withdrawn
    intact      \* no refused call left a packet behind

ledger == <<clock, issued, settled, withdrawn, intact>>

\* The records that wait for their boundary.
Open ==
    {i \in DOMAIN issued :
        /\ issued[i].target = 0
        /\ i \notin withdrawn
        /\ \A b \in DOMAIN settled : i \notin settled[b]}

LedgerInit ==
    clock = 0 /\ issued = <<>> /\ settled = <<>> /\ withdrawn = {} /\ intact = TRUE

Appended ==
    Len(issued') >= Len(issued) /\ SubSeq(issued', 1, Len(issued)) = issued

\* The journal grows, by records due from t on and by withdrawals of records
\* that are due later than t and not settled.
Grows(t, gone) ==
    /\ Appended
    /\ \A i \in Len(issued) + 1 .. Len(issued') :
          IF issued'[i].target = 0 THEN issued'[i].due >= t \/ issued'[i].loose
          ELSE /\ issued'[i].target \in 1 .. i - 1 \ (withdrawn \cup gone)
               /\ issued'[issued'[i].target].due > t
    /\ withdrawn' = withdrawn \cup
          ({issued'[i].target : i \in Len(issued) + 1 .. Len(issued')} \ {0})

\* The host issues or withdraws ingress.
Submit ==
    /\ Grows(clock, {}) /\ Len(issued') = Len(issued) + 1
    /\ UNCHANGED <<clock, settled>>

\* Time passes over no open record.
Tick ==
    /\ clock' > clock
    /\ \A i \in Open : issued[i].due > clock' \/ issued[i].loose
    /\ UNCHANGED <<issued, settled, withdrawn>>

\* A boundary admits every open record due at its time, which is the earliest
\* any open record is due, and may issue and withdraw others.  Of what its own
\* reactors issue it also admits what is due by then and was there to take.
Settle ==
    LET batch == {i \in Open : issued[i].due = clock'}
        own == {i \in DOMAIN issued' \ DOMAIN issued :
                   issued'[i].loose /\ issued'[i].due <= clock'} IN
    /\ clock' >= clock
    /\ \A i \in Open : issued[i].due >= clock'
    /\ \E soon \in SUBSET own :
          /\ settled' = Append(settled, batch \cup soon)
          /\ Grows(clock', batch \cup soon)

Promised == intact /\ intact' /\ (Submit \/ Tick \/ Settle)

\* From the refusal that left a packet behind on, the host is only promised that
\* nothing it was told is taken back.
Broken ==
    /\ ~intact'
    /\ clock' >= clock /\ Appended /\ withdrawn \subseteq withdrawn'
    /\ Len(settled') >= Len(settled) /\ SubSeq(settled', 1, Len(settled)) = settled

LedgerSpec == LedgerInit /\ [][Promised \/ Broken]_ledger
=============================================================================
