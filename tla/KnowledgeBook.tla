---------------------------- MODULE KnowledgeBook ----------------------------
(***************************************************************************)
(* The content of the knowledge ledgers (canwu-knowledge, ledger.rs):      *)
(* bodies stored once under a global id, and for each holder the entries   *)
(* that hold them, with local ids that never restart and relations that    *)
(* name other entries of the holder.  The indexes, counts and commitments  *)
(* derived from it are in HolderLedgers; its use by a settling boundary is *)
(* in KnowledgePublication.                                                *)
(***************************************************************************)
EXTENDS Integers, Sequences, FiniteSets, FiniteSetsExt, SequencesExt

CONSTANTS
    Holders,
    MaxId      \* bound on the global ids

Ids == 1..MaxId
Nothing == <<>>

EmptyBook == [body |-> Nothing, entry |-> [h \in Holders |-> Nothing],
              next |-> [h \in Holders |-> 1]]

(* f with x bound to y, and f without the keys of S                         *)
Bind(f, x, y) == [k \in DOMAIN f \cup {x} |-> IF k = x THEN y ELSE f[k]]
Without(f, S) == [k \in DOMAIN f \ S |-> f[k]]

Held(b, h) == DOMAIN b.entry[h]
HoldersOf(b, id) == {h \in Holders : id \in Held(b, h)}
Relations(e) == e.supersedes \cup e.contradicts

(* A record is current for a holder that holds it and has no entry that     *)
(* supersedes it.                                                           *)
Current(b, h) ==
    {id \in Held(b, h) : \A e \in Held(b, h) : id \notin b.entry[h][e].supersedes}

(* The current records of a kind that carry all of `subjects`               *)
CurrentOn(b, h, kind, subjects) ==
    {id \in Current(b, h) : b.body[id].kind = kind /\ subjects \subseteq b.body[id].subjects}

----------------------------------------------------------------------------
(* A publication gives bodies to holders: bodies maps global ids to what    *)
(* they say, and gifts is a sequence of a holder and one entry for it.      *)
WithGift(b, gift) ==
    [b EXCEPT !.entry[gift.holder] =
                  Bind(@, gift.id, [local |-> gift.local, supersedes |-> gift.supersedes,
                                    contradicts |-> gift.contradicts]),
              !.next[gift.holder] = gift.local + 1]

(* The checks that insert_publication makes of one entry, in its turn       *)
GiftAccepted(b, bodies, gift) ==
    /\ gift.id \in DOMAIN b.body \cup DOMAIN bodies
    /\ gift.local >= b.next[gift.holder]
    /\ Relations(gift) \subseteq Held(b, gift.holder)
    /\ gift.id \notin Held(b, gift.holder)

(* insert_publication checks everything before it changes anything          *)
PublicationAccepted(b, bodies, gifts) ==
    LET given[i \in 0..Len(gifts)] ==
            IF i = 0 THEN b ELSE WithGift(given[i-1], gifts[i])
    IN  /\ DOMAIN bodies \cap DOMAIN b.body = {}
        /\ \A i \in DOMAIN gifts : GiftAccepted(given[i-1], bodies, gifts[i])
        /\ DOMAIN bodies \subseteq {gifts[i].id : i \in DOMAIN gifts}

Published(b, bodies, gifts) ==
    FoldLeft(WithGift,
             [b EXCEPT !.body = [id \in DOMAIN @ \cup DOMAIN bodies |->
                                    IF id \in DOMAIN bodies THEN bodies[id] ELSE @[id]]],
             gifts)

(* remove_entry: the holder's other entries stop naming what leaves, and a  *)
(* body without a holder leaves too.                                        *)
WithoutEntry(b, h, id) ==
    LET left == [b EXCEPT !.entry[h] =
                    [e \in DOMAIN @ \ {id} |->
                        [@[e] EXCEPT !.supersedes = @ \ {id}, !.contradicts = @ \ {id}]]]
    IN  IF HoldersOf(left, id) = {} THEN [left EXCEPT !.body = Without(@, {id})] ELSE left

(* retire_superseded_by                                                     *)
Retired(b, h, id) ==
    IF id \in Held(b, h)
    THEN FoldLeft(LAMBDA bb, t : WithoutEntry(bb, h, t), b,
                  SetToSortSeq(b.entry[h][id].supersedes \cap Held(b, h), <))
    ELSE b
=============================================================================
