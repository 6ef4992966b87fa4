---------------------------- MODULE HolderLedgers ----------------------------
(***************************************************************************)
(* The holder ledgers with what they derive from their content             *)
(* (canwu-knowledge, ledger.rs): how many holders a body has, the index of *)
(* a holder's current records by digest keys that may collide, and the     *)
(* commitment, a root per chunk of local ids, per holder and over all,     *)
(* recomputed only where a change left it stale.  Hashes are the hashed    *)
(* content itself.  Each derived part is updated by its own code on every  *)
(* insertion and removal, and derived again when the ledgers are decoded.  *)
(***************************************************************************)
EXTENDS KnowledgeBook

CONSTANTS
    Contents,    \* the bodies' contents: [kind, subjects]
    KindKey,     \* encoding::kind_key, a digest that may collide
    SubjectKey,  \* encoding::subject_key, likewise; subjects are numbers
    ChunkEntries, \* KNOWLEDGE_COMMITMENT_CHUNK_ENTRIES
    MaxLocal,    \* bound on the local ids of a holder
    Authoring,   \* whether tools file records by insert
    MaxGap,      \* how many local ids a publication may leave out
    MaxContradicts \* bound on the records an entry contradicts

Kinds == DOMAIN KindKey
Subjects == DOMAIN SubjectKey

LedgerAssumption ==
    /\ ChunkEntries \in Nat \ {0}
    /\ \A c \in Contents : c.kind \in Kinds /\ c.subjects \subseteq Subjects

VARIABLES
    book,       \* the content
    count,      \* BodySlot::holders
    index,      \* per holder: superseded, naming, heads, subject_heads, key_collision
    commit,     \* per holder: leaves by local id, chunk roots, stale chunks, root
    listed,     \* the holders that have a ledger
    stale       \* HolderLedgers::stale

vars == <<book, count, index, commit, listed, stale>>

EmptyIndex == [superseded |-> Nothing, naming |-> Nothing, heads |-> Nothing,
               subjectHeads |-> Nothing, collision |-> FALSE]
RootOf(next, chunks) == <<next, chunks>>
EmptyCommit == [leaf |-> Nothing, chunk |-> Nothing, staleChunks |-> {},
                root |-> RootOf(1, Nothing)]

Init ==
    /\ book = EmptyBook
    /\ count = Nothing
    /\ index = [h \in Holders |-> EmptyIndex]
    /\ commit = [h \in Holders |-> EmptyCommit]
    /\ listed = {} /\ stale = {}

State == [book |-> book, count |-> count, index |-> index, commit |-> commit,
          listed |-> listed, stale |-> stale]

Become(s) ==
    /\ book' = s.book /\ count' = s.count /\ index' = s.index
    /\ commit' = s.commit /\ listed' = s.listed /\ stale' = s.stale

At(f, x, default) == IF x \in DOMAIN f THEN f[x] ELSE default
Sorted(S) == SetToSortSeq(S, <)

----------------------------------------------------------------------------
(* The index of current records: buckets of ids under a key, each with the  *)
(* exact value first filed under it                                         *)
Filed(buckets, key, value, id) ==
    Bind(buckets, key,
         IF key \in DOMAIN buckets THEN [buckets[key] EXCEPT !.ids = @ \cup {id}]
         ELSE [exact |-> value, ids |-> {id}])
Collides(buckets, key, value) == key \in DOMAIN buckets /\ buckets[key].exact # value

Unfiled(buckets, key, id) ==
    IF key \notin DOMAIN buckets THEN buckets
    ELSE LET rest == buckets[key].ids \ {id}
         IN  IF rest = {} THEN Without(buckets, {key})
             ELSE [buckets EXCEPT ![key].ids = rest]

(* Mutant: a key that holds another subject is not noticed.                 *)
IndexUnnoticed(x, id, content) ==
    LET kind == KindKey[content.kind]
        fileSubject(y, subject) ==
            [y EXCEPT !.subjectHeads =
                Bind(@, kind, Filed(At(y.subjectHeads, kind, Nothing),
                                    SubjectKey[subject], subject, id))]
    IN  FoldLeft(fileSubject,
                 [x EXCEPT !.heads = Filed(@, kind, content.kind, id),
                           !.collision = @ \/ Collides(x.heads, kind, content.kind)],
                 Sorted(content.subjects))

(* HolderLedger::index *)
Index(x, id, content) ==
    LET kind == KindKey[content.kind]
        fileSubject(y, subject) ==
            LET under == At(y.subjectHeads, kind, Nothing)
            IN  [y EXCEPT !.subjectHeads =
                              Bind(@, kind, Filed(under, SubjectKey[subject], subject, id)),
                          !.collision = @ \/ Collides(under, SubjectKey[subject], subject)]
    IN  FoldLeft(fileSubject,
                 [x EXCEPT !.heads = Filed(@, kind, content.kind, id),
                           !.collision = @ \/ Collides(x.heads, kind, content.kind)],
                 Sorted(content.subjects))

(* HolderLedger::unindex *)
Unindex(x, id, content) ==
    LET kind == KindKey[content.kind]
        under == FoldLeft(LAMBDA b, subject : Unfiled(b, SubjectKey[subject], id),
                          At(x.subjectHeads, kind, Nothing), Sorted(content.subjects))
    IN  [x EXCEPT !.heads = Unfiled(@, kind, id),
                  !.subjectHeads =
                      IF kind \notin DOMAIN @ THEN @
                      ELSE IF under = Nothing THEN Without(@, {kind})
                      ELSE [@ EXCEPT ![kind] = under]]

----------------------------------------------------------------------------
ChunkOf(local) == local \div ChunkEntries

(* leaf_hash: the entry and the body's digest                               *)
Leaf(entry, content) == <<entry, content>>

(* insert_entry: the targets it supersedes leave the index, and the new     *)
(* record joins it unless an entry already names it                         *)
Superseding(x, b, h, targets) ==
    FoldLeft(LAMBDA y, t :
                LET y1 == [y EXCEPT !.superseded = Bind(@, t, At(@, t, 0) + 1)]
                IN  IF y1.superseded[t] = 1 /\ t \in Held(b, h)
                    THEN Unindex(y1, t, b.body[t]) ELSE y1,
             x, Sorted(targets))

Naming(x, id, targets) ==
    [x EXCEPT !.naming = [t \in DOMAIN @ \cup targets |->
        IF t \in targets THEN At(@, t, {}) \cup {id} ELSE @[t]]]

InsertEntry(s, gift) ==
    LET h == gift.holder
        named == Naming(Superseding(s.index[h], s.book, h, gift.supersedes),
                        gift.id, Relations(gift))
        content == s.book.body[gift.id]
        book2 == WithGift(s.book, gift)
    IN  [s EXCEPT !.book = book2,
                  !.index[h] = IF gift.id \in DOMAIN named.superseded THEN named
                               ELSE Index(named, gift.id, content),
                  !.commit[h].leaf = Bind(@, gift.local,
                      [record |-> gift.id,
                       leaf |-> Leaf(book2.entry[h][gift.id], content)]),
                  !.commit[h].staleChunks = @ \cup {ChunkOf(gift.local)}]

(* insert_publication, once everything is checked                           *)
GiveAll(s, bodies, gifts) ==
    LET withBodies == [s EXCEPT !.book.body = [id \in DOMAIN @ \cup DOMAIN bodies |->
                            IF id \in DOMAIN bodies THEN bodies[id] ELSE @[id]]]
        given(id) == Cardinality({i \in DOMAIN gifts : gifts[i].id = id})
        to == {gifts[i].holder : i \in DOMAIN gifts}
        done == FoldLeft(InsertEntry, withBodies, gifts)
    IN  [done EXCEPT !.count = [id \in DOMAIN @ \cup DOMAIN bodies |->
                                    At(@, id, 0) + given(id)],
                     !.listed = @ \cup to,
                     !.stale = @ \cup to]

(* remove_entry of HolderLedger: what it superseded may be current again    *)
Unsuperseding(x, b, h, targets) ==
    FoldLeft(LAMBDA y, t :
                IF t \notin DOMAIN y.superseded THEN y
                ELSE IF y.superseded[t] > 1 THEN [y EXCEPT !.superseded[t] = @ - 1]
                ELSE LET y1 == [y EXCEPT !.superseded = Without(@, {t})]
                     IN  IF t \in Held(b, h) THEN Index(y1, t, b.body[t]) ELSE y1,
             x, Sorted(targets))

Unnaming(x, id, targets) ==
    LET left == [t \in DOMAIN x.naming |->
                    IF t \in targets THEN x.naming[t] \ {id} ELSE x.naming[t]]
    IN  [x EXCEPT !.naming = [t \in {u \in DOMAIN left : left[u] # {}} |-> left[t]]]

(* ... and the entries that named it drop the name                          *)
RemoveEntry(s, h, id) ==
    LET entry == s.book.entry[h][id]
        content == s.book.body[id]
        x == s.index[h]
        rest == [s.book EXCEPT !.entry[h] = Without(@, {id})]
        x1 == IF id \in DOMAIN x.superseded THEN x ELSE Unindex(x, id, content)
        x2 == Unnaming(Unsuperseding(x1, rest, h, entry.supersedes), id, Relations(entry))
        namers == At(x2.naming, id, {}) \cap Held(rest, h)
        book2 == WithoutEntry(s.book, h, id)
        locals == {rest.entry[h][n].local : n \in namers}
        relabelled(local) == LET n == CHOOSE n \in namers : rest.entry[h][n].local = local
                             IN  [record |-> n,
                                  leaf |-> Leaf(book2.entry[h][n], s.book.body[n])]
    IN  [s EXCEPT !.book = book2,
                  !.index[h] = [x2 EXCEPT !.superseded = Without(@, {id}),
                                          !.naming = Without(@, {id})],
                  !.count = IF @[id] = 1 THEN Without(@, {id}) ELSE [@ EXCEPT ![id] = @ - 1],
                  !.commit[h].leaf = [l \in DOMAIN @ \ {entry.local} |->
                                          IF l \in locals THEN relabelled(l) ELSE @[l]],
                  !.commit[h].staleChunks =
                      @ \cup {ChunkOf(entry.local)} \cup {ChunkOf(l) : l \in locals},
                  !.stale = @ \cup {h}]

(* remove_body: the entry of every holder                                   *)
RemoveBody(s, id) ==
    FoldLeft(LAMBDA t, h : RemoveEntry(t, h, id), s, SetToSeq(HoldersOf(s.book, id)))

(* retire_superseded_by                                                     *)
RetireSupersededBy(s, h, id) ==
    FoldLeft(LAMBDA t, target :
                IF target \in Held(t.book, h) THEN RemoveEntry(t, h, target) ELSE t,
             s, Sorted(s.book.entry[h][id].supersedes))

(* chunk_root: the leaves of a chunk, or none                               *)
ChunkRoot(leaves, chunk) ==
    LET of == {l \in DOMAIN leaves : ChunkOf(l) = chunk}
    IN  [l \in of |-> leaves[l].leaf]

FreshChunks(c) ==
    LET roots == [k \in DOMAIN c.chunk \cup c.staleChunks |->
                    IF k \in c.staleChunks THEN ChunkRoot(c.leaf, k) ELSE c.chunk[k]]
    IN  [k \in {j \in DOMAIN roots : roots[j] # Nothing} |-> roots[k]]

(* refresh_commitment                                                       *)
Refreshed(s) ==
    [s EXCEPT !.commit = [h \in Holders |->
                  IF h \notin s.stale THEN @[h]
                  ELSE LET chunks == FreshChunks(@[h])
                       IN  [@[h] EXCEPT !.chunk = chunks, !.staleChunks = {},
                                        !.root = RootOf(s.book.next[h], chunks)]],
              !.stale = {}]

(* commitment_root: cached roots, and fresh ones where a holder is stale    *)
CommitmentRoot(s) ==
    [h \in s.listed |-> IF h \in s.stale
                        THEN RootOf(s.book.next[h], FreshChunks(s.commit[h]))
                        ELSE s.commit[h].root]

(* Deserialize: bodies, then each holder's entries in local order           *)
Decoded(b) ==
    LET byLocal(h) == SetToSortSeq(Held(b, h),
                            LAMBDA i, j : b.entry[h][i].local < b.entry[h][j].local)
        gift(h, id) == [holder |-> h, id |-> id, local |-> b.entry[h][id].local,
                        supersedes |-> b.entry[h][id].supersedes,
                        contradicts |-> b.entry[h][id].contradicts]
        start == [book |-> [EmptyBook EXCEPT !.body = b.body], count |-> Nothing,
                  index |-> [h \in Holders |-> EmptyIndex],
                  commit |-> [h \in Holders |-> EmptyCommit], listed |-> {}, stale |-> {}]
        used == {h \in Holders : b.next[h] > 1}
        filled == FoldLeft(LAMBDA s, h :
                        [FoldLeft(InsertEntry, s, [i \in DOMAIN byLocal(h) |-> gift(h, byLocal(h)[i])])
                            EXCEPT !.book.next[h] = b.next[h]],
                     start, SetToSeq(used))
    IN  Refreshed([filled EXCEPT
            !.count = [id \in DOMAIN b.body |-> Cardinality(HoldersOf(b, id))],
            !.listed = used, !.stale = used])

DecodeAccepted(b) ==
    /\ \A h \in Holders, id \in Ids : id \in Held(b, h) =>
            /\ id \in DOMAIN b.body
            /\ b.entry[h][id].local < b.next[h]
            /\ Relations(b.entry[h][id]) \subseteq Held(b, h)
    /\ \A id \in DOMAIN b.body : HoldersOf(b, id) # {}

----------------------------------------------------------------------------
(* current_records: the narrowest bucket of the query, and what a candidate *)
(* from it must still show                                                  *)
CurrentRecords(x, b, kind, subjects) ==
    LET key == KindKey[kind]
        under == At(x.subjectHeads, key, Nothing)
        keys == {SubjectKey[s] : s \in subjects}
        buckets == {under[k].ids : k \in keys}
        narrowest == CHOOSE n \in buckets :
                        \A m \in buckets : Cardinality(n) <= Cardinality(m)
        exactly(id) == b.body[id].kind = kind /\ subjects \subseteq b.body[id].subjects
        byKeys(id) == keys \subseteq {SubjectKey[s] : s \in b.body[id].subjects}
        admits(id) == IF x.collision THEN exactly(id)
                      ELSE Cardinality(subjects) > 1 => byKeys(id)
    IN  IF \/ key \notin DOMAIN x.heads
           \/ ~x.collision /\ x.heads[key].exact # kind
           \/ ~keys \subseteq DOMAIN under
           \/ ~x.collision /\ \E s \in subjects : under[SubjectKey[s]].exact # s
        THEN {}
        ELSE {id \in IF subjects = {} THEN x.heads[key].ids ELSE narrowest : admits(id)}

----------------------------------------------------------------------------
RelationSets(b, h, id) ==
    {r \in (SUBSET Held(b, h)) \X (SUBSET Held(b, h)) :
        r[1] \cap r[2] = {} /\ Cardinality(r[2]) <= MaxContradicts}

Gift(h, id, local, r) ==
    [holder |-> h, id |-> id, local |-> local, supersedes |-> r[1], contradicts |-> r[2]]

(* insert_publication of one body, new or stored, to some holders, or of    *)
(* two new bodies to one holder, the second perhaps about the first         *)
Publish(id, content, gifts) ==
    LET bodies == IF id \in DOMAIN book.body THEN Nothing ELSE Bind(Nothing, id, content)
    IN  /\ id \in DOMAIN book.body => content = book.body[id]
        /\ PublicationAccepted(book, bodies, gifts)
        /\ Become(GiveAll(State, bodies, gifts))

PublishOne(id, content) ==
    \/ \E h \in Holders : \E r \in RelationSets(book, h, id) :
            \E local \in book.next[h]..book.next[h] + MaxGap :
                local <= MaxLocal /\ Publish(id, content, <<Gift(h, id, local, r)>>)
    \/ /\ Cardinality(Holders) > 1
       /\ \A h \in Holders : book.next[h] <= MaxLocal
       /\ LET to == SetToSeq(Holders)
          IN  \E r \in RelationSets(book, to[1], id), q \in RelationSets(book, to[2], id) :
                Publish(id, content, <<Gift(to[1], id, book.next[to[1]], r),
                                       Gift(to[2], id, book.next[to[2]], q)>>)

PublishTwo(first, second, c1, c2, h) ==
    LET bodies == Bind(Bind(Nothing, first, c1), second, c2)
        next == book.next[h]
    IN  \E r \in {<<{}, {}>>, <<{first}, {}>>, <<{}, {first}>>} :
            LET gifts == <<Gift(h, first, next, <<{}, {}>>), Gift(h, second, next + 1, r)>>
            IN  /\ first < second /\ next + 1 <= MaxLocal
                /\ PublicationAccepted(book, bodies, gifts)
                /\ Become(GiveAll(State, bodies, gifts))

(* insert, the authoring path: a stored body of that id goes first, and     *)
(* relations need not resolve                                               *)
Author(h, id, content, supersedes) ==
    LET cleared == IF id \in DOMAIN book.body THEN RemoveBody(State, id) ELSE State
        gift == Gift(h, id, cleared.book.next[h], <<supersedes, {}>>)
    IN  /\ Authoring /\ gift.local <= MaxLocal
        /\ Become(GiveAll(cleared, Bind(Nothing, id, content), <<gift>>))

RemoveOne(h, id) == id \in Held(book, h) /\ Become(RemoveEntry(State, h, id))
Retire(h, id) ==
    /\ id \in Held(book, h) /\ book.entry[h][id].supersedes # {}
    /\ Become(RetireSupersededBy(State, h, id))
Refresh == stale # {} /\ Become(Refreshed(State))

Next ==
    \/ \E id \in Ids, c \in Contents : PublishOne(id, c)
    \/ \E i, j \in Ids, c, d \in Contents, h \in Holders : PublishTwo(i, j, c, d, h)
    \/ \E h \in Holders, id \in Ids, c \in Contents, t \in {{}} \cup {{i} : i \in Ids} : Author(h, id, c, t)
    \/ \E h \in Holders, id \in Ids : RemoveOne(h, id) \/ Retire(h, id)
    \/ Refresh

Spec == Init /\ [][Next]_vars

----------------------------------------------------------------------------
(* The content, the counts and the indexes have their types.                *)
TypeOK ==
    /\ DOMAIN book.body \subseteq Ids
    /\ \A id \in DOMAIN book.body : book.body[id] \in Contents
    /\ \A h \in Holders :
        /\ Held(book, h) \subseteq DOMAIN book.body
        /\ book.next[h] \in 1..MaxLocal+1
        /\ \A id \in Held(book, h) : book.entry[h][id].local \in 1..book.next[h]-1
        /\ h \in listed <=> book.next[h] > 1
    /\ stale \subseteq listed

(* A lookup through the index finds exactly the current records of the kind *)
(* that carry the subjects, whatever was published, superseded or removed   *)
(* before, and whichever kinds and subjects share a digest key.             *)
(* (current_records)                                                        *)
LookupExact ==
    \A h \in Holders, k \in Kinds, s \in SUBSET Subjects :
        CurrentRecords(index[h], book, k, s) = CurrentOn(book, h, k, s)

(* The commitment is that of the content, however many chunks and holders   *)
(* are stale: it is the root of the ledgers decoded from the same content.  *)
(* (commitment_root, refresh_commitment)                                    *)
CommitmentExact ==
    LET full(h) == LET leaf(l) == LET id == CHOOSE i \in Held(book, h) :
                                              book.entry[h][i].local = l
                                  IN  Leaf(book.entry[h][id], book.body[id])
                       locals == {book.entry[h][i].local : i \in Held(book, h)}
                       chunks == {ChunkOf(l) : l \in locals}
                   IN  RootOf(book.next[h],
                              [k \in chunks |-> [l \in {m \in locals : ChunkOf(m) = k} |-> leaf(l)]])
    IN  CommitmentRoot(State) = [h \in listed |-> full(h)]

(* A body is stored as long as, and only as long as, some holder holds it.  *)
(* (add_body, remove_entry)                                                 *)
BodiesHeld ==
    /\ DOMAIN count = DOMAIN book.body
    /\ \A id \in DOMAIN count :
            count[id] = Cardinality(HoldersOf(book, id)) /\ count[id] > 0

(* Ledgers built by publications and removals can always be encoded and     *)
(* decoded: no relation is left without its target. The decoded ledgers     *)
(* commit to the same root and answer every lookup alike.                   *)
(* (Deserialize for HolderLedgers)                                          *)
RoundTrip ==
    ~Authoring =>
        /\ DecodeAccepted(book)
        /\ LET d == Decoded(book)
           IN  /\ d.book = book /\ d.count = count /\ d.listed = listed
               /\ CommitmentRoot(d) = CommitmentRoot(State)
               /\ \A h \in Holders, k \in Kinds, s \in SUBSET Subjects :
                      CurrentRecords(d.index[h], d.book, k, s)
                          = CurrentRecords(index[h], book, k, s)
=============================================================================
