------------------------------ MODULE TdbStore ------------------------------
(***************************************************************************)
(* The storage of the trivial database (lib/ext2fs/tdb.c), which e2fsck    *)
(* keeps inode counts and directory info in: records on hash chains, space *)
(* on a free list whose neighbours are merged through record tailers, and  *)
(* a traversal whose current record is locked against deletion.            *)
(*                                                                         *)
(* Offsets and lengths are in words of 4 bytes.  A record is a header,     *)
(* rec_len words for key and data, the last of which is the tailer holding *)
(* the record's total size.  A header that a merge swallows is dropped     *)
(* from the model: reading it again would be an error.  One process.       *)
(***************************************************************************)
EXTENDS Integers, Sequences, FiniteSets, FiniteSetsExt, SequencesExt, TLC

CONSTANTS
  KeyBucket,     \* the hash chain of each key
  PieceWords,    \* the pieces of data a caller stores, and their words
  MaxPieces,     \* bound: pieces appended under one key
  PageWords,     \* the file grows in multiples of a page
  MaxSeqnum,     \* bound: calls that change the database
  DeadLimits     \* values of max_dead_records

ASSUME TdbStoreConstants ==
  /\ PageWords \in Nat \ {0} /\ MaxSeqnum \in Nat
  /\ DeadLimits \subseteq Nat

VARIABLES
  tdb,           \* the file and max_dead_records
  travlock,      \* the traversal: record, chain and key it stands on
  stored         \* what the callers have stored
storeVars == <<tdb, travlock, stored>>

KeySet == DOMAIN KeyBucket
Buckets == {KeyBucket[k] : k \in KeySet}
LastBucket == Max(Buckets)
HDR == 6                       \* sizeof(struct list_struct)
MIN_REC_SIZE == 2 * HDR + 1
DataStart == 8                 \* the first record follows the hash table
Words(data) == FoldLeft(LAMBDA n, p : n + PieceWords[p], 0, data)
NoKey == "no key"
NotStored == <<"not stored">>

Rec(magic, next, len, key, data) ==
  [magic |-> magic, next |-> next, rec_len |-> len, key |-> key, data |-> data]
tdb_increment_seqnum(db) == [db EXCEPT !.seqnum = @ + 1]
PutRec(db, off, r) == [db EXCEPT !.rec = (off :> r) @@ @]

\* tdb_ofs_write of a next pointer: in the free list, or in a hash chain.
SetFreeNext(db, from, to) ==
  IF from = 0 THEN [db EXCEPT !.top = to] ELSE [db EXCEPT !.rec[from].next = to]
SetHashNext(db, b, from, to) ==
  IF from = 0 THEN [db EXCEPT !.heads[b] = to] ELSE [db EXCEPT !.rec[from].next = to]

\* The records from off on along next pointers.
RECURSIVE Chain(_, _)
Chain(db, off) == IF off = 0 THEN <<>> ELSE <<off>> \o Chain(db, db.rec[off].next)

\* The pointer to off in a chain: the record before it, 0 for the chain's top.
Before(chain, off) ==
  LET i == CHOOSE i \in DOMAIN chain : chain[i] = off
  IN  IF i = 1 THEN 0 ELSE chain[i - 1]

(*************************************************************************)
(* The free list.                                                        *)
(*************************************************************************)
remove_from_freelist(db, off, next) ==
  LET cut == SetFreeNext(db, Before(Chain(db, db.top), off), next)
  IN  [cut EXCEPT !.rec = Restrict(@, DOMAIN @ \ {off})]

\* The words inside the record are no tailers any more.
update_tailer(db, off, len) ==
  LET end == off + HDR + len - 1
  IN  [db EXCEPT !.tailer = (end :> HDR + len)
         @@ Restrict(@, {w \in DOMAIN @ : w < off \/ w > end})]

IsFree(db, off) == off \in DOMAIN db.rec /\ db.rec[off].magic = "free"

\* The record of len words at offset goes to the head of the list.
AddFree(db, offset, len) ==
  [PutRec(update_tailer(db, offset, len), offset, Rec("free", db.top, len, NoKey, <<>>))
     EXCEPT !.top = offset]

\* The free record to the right joins this one.
JoinRight(db, offset, len) ==
  LET right == offset + HDR + len
  IN  IF right + HDR <= db.map_size /\ IsFree(db, right)
        THEN [db |-> remove_from_freelist(db, right, db.rec[right].next),
              len |-> len + HDR + db.rec[right].rec_len]
        ELSE [db |-> db, len |-> len]

\* This record joins the free one to the left, which the word before it finds.
JoinLeft(db, offset, len) ==
  LET leftsize == IF offset - 1 > DataStart - 1 THEN db.tailer[offset - 1] ELSE 0
      left == offset - leftsize
      less == [db EXCEPT !.rec = Restrict(@, DOMAIN @ \ {offset})]
  IN  IF leftsize # 0 /\ IsFree(db, left)
        THEN AddFree(remove_from_freelist(less, left, db.rec[left].next),
                     left, len + leftsize)
        ELSE AddFree(less, offset, len)

\* MUTANT: the right neighbour is taken without its header, the left one left alone.
tdb_free_header(db, offset, len) ==
  LET right == offset + HDR + len
      tailed == update_tailer(db, offset, len)
  IN  IF right + HDR <= db.map_size /\ IsFree(tailed, right)
        THEN AddFree(remove_from_freelist(tailed, right, tailed.rec[right].next),
                     offset, len + tailed.rec[right].rec_len)
        ELSE AddFree(tailed, offset, len)

\* tdb_free: merge with the free record to the right, then with the one to
\* the left; prepend the result.
tdb_free(db, offset, len) ==
  LET joined(one) == JoinLeft(one.db, offset, one.len)
  IN  joined(JoinRight(update_tailer(db, offset, len), offset, len))

tdb_expand(db, size) ==
  LET map == ((db.map_size + size * 10 + PageWords - 1) \div PageWords) * PageWords
  IN  tdb_free([db EXCEPT !.map_size = map], db.map_size,
               map - db.map_size - HDR)

\* tdb_allocate_ofs: take the record, giving back what is left of it.
tdb_allocate_ofs(db, length, off) ==
  LET r == db.rec[off]
      split == r.rec_len > length + MIN_REC_SIZE
      taken == PutRec(SetFreeNext(db, Before(Chain(db, db.top), off), r.next),
                      off, [r EXCEPT !.magic = "used",
                                     !.rec_len = IF split THEN length ELSE @])
  IN  IF split
        THEN tdb_free(update_tailer(taken, off, length), off + HDR + length,
                      r.rec_len - HDR - length)
        ELSE taken

\* The walk of tdb_allocate: the best fit, or the first that wastes less than
\* half of the space among those better than all before.
BestFit(db, length) ==
  LET list == Chain(db, db.top)
      fits(i) == db.rec[list[i]].rec_len
      ok == {i \in DOMAIN list : fits(i) >= length}
      better == {i \in ok : \A j \in ok : j < i => fits(i) < fits(j)}
      good == {i \in better : fits(i) < 2 * length}
  IN  IF ok = {} THEN 0
      ELSE list[IF good # {} THEN Min(good) ELSE Max(better)]

tdb_allocate(db, size) ==
  LET length == size + 1
      take(d, off) == [db |-> tdb_allocate_ofs(d, length, off), off |-> off]
      fit(d) == take(d, BestFit(d, length))
  IN  fit(IF BestFit(db, length) # 0 THEN db ELSE tdb_expand(db, length + HDR))

(*************************************************************************)
(* The records of a key.                                                 *)
(*************************************************************************)
tdb_find(db, key) ==
  LET chain == Chain(db, db.heads[KeyBucket[key]])
      hits == {i \in DOMAIN chain : /\ db.rec[chain[i]].magic # "dead"
                                    /\ db.rec[chain[i]].key = key}
  IN  IF hits = {} THEN 0 ELSE chain[Min(hits)]

tdb_fetch(db, key) ==
  LET off == tdb_find(db, key) IN IF off = 0 THEN NotStored ELSE db.rec[off].data

Dead(db, off) == [db EXCEPT !.rec[off].magic = "dead"]

\* MUTANT: the record under the traversal is freed like any other.
tdb_do_delete_unlocked(db, off, b, standing) ==
  LET chain == Chain(db, db.heads[b])
      out == SetHashNext(db, b, Before(chain, off), db.rec[off].next)
  IN  tdb_free(out, off, db.rec[off].rec_len)

\* tdb_do_delete: a record somebody traversing stands on is only marked.
tdb_do_delete(db, off, b, standing) ==
  IF standing = off THEN Dead(db, off)
  ELSE LET chain == Chain(db, db.heads[b])
           out == SetHashNext(db, b, Before(chain, off), db.rec[off].next)
       IN  tdb_free(out, off, db.rec[off].rec_len)

DeadOn(db, b) == SelectSeq(Chain(db, db.heads[b]),
                           LAMBDA off : db.rec[off].magic = "dead")

tdb_purge_dead(db, b, standing) ==
  FoldLeft(LAMBDA d, off : tdb_do_delete(d, off, b, standing), db, DeadOn(db, b))

tdb_delete_hash(db, key, standing) ==
  LET b == KeyBucket[key]
      out(d, off) == IF off = 0 THEN d
                     ELSE tdb_increment_seqnum(
                            IF db.max_dead # 0 THEN Dead(d, off)
                            ELSE tdb_do_delete(d, off, b, standing))
      from(d) == out(d, tdb_find(d, key))
  IN  from(IF db.max_dead # 0 /\ Len(DeadOn(db, b)) >= db.max_dead
             THEN tdb_purge_dead(db, b, standing) ELSE db)

tdb_find_dead(db, b, length) ==
  SelectSeq(DeadOn(db, b), LAMBDA off : db.rec[off].rec_len >= length)

\* The part of tdb_store that needs a new record: key, data and tailer.
StoreNew(db, key, data, standing) ==
  LET b == KeyBucket[key]
      dead == IF db.max_dead # 0 THEN tdb_find_dead(db, b, Words(data) + 2) ELSE <<>>
      purged == IF db.max_dead # 0 THEN tdb_purge_dead(db, b, standing) ELSE db
      put(space) ==
        [PutRec(space.db, space.off,
                Rec("used", space.db.heads[b], space.db.rec[space.off].rec_len, key, data))
           EXCEPT !.heads[b] = space.off]
  IN  IF dead # <<>>
        THEN [db EXCEPT !.rec[dead[1]] = [@ EXCEPT !.magic = "used", !.key = key,
                                                   !.data = data]]
        ELSE put(tdb_allocate(purged, 1 + Words(data)))

\* tdb_store: an insert of a key that exists and a modify of one that does not
\* fail; a record with room is written in place; else delete and store anew.
tdb_store(db, key, data, flag, standing) ==
  LET off == tdb_find(db, key)
      room == off # 0 /\ db.rec[off].rec_len >= Words(data) + 2
  IN  IF (flag = "insert" /\ off # 0) \/ (flag = "modify" /\ off = 0)
        THEN [db |-> db, ok |-> FALSE, anew |-> FALSE]
      ELSE IF flag # "insert" /\ room
        THEN [db |-> [db EXCEPT !.rec[off].data = data], ok |-> TRUE, anew |-> FALSE]
      ELSE LET gone == IF flag = "insert" THEN db
                       ELSE tdb_delete_hash(db, key, standing)
           IN  [db |-> StoreNew(gone, key, data, standing), ok |-> TRUE,
                anew |-> TRUE]

\* tdb_next_lock: the first live record from off on in chain b, or in a later
\* chain; dead records passed on the way are freed.
RECURSIVE NextFrom(_, _, _)
NextFrom(db, off, b) ==
  IF off # 0 /\ db.rec[off].magic # "dead" THEN [db |-> db, off |-> off, hash |-> b]
  ELSE IF off # 0
    THEN LET next == db.rec[off].next
         IN  NextFrom(tdb_do_delete(db, off, b, next), next, b)
  ELSE IF b < LastBucket THEN NextFrom(db, db.heads[b + 1], b + 1)
  ELSE [db |-> db, off |-> 0, hash |-> LastBucket + 1]

(*************************************************************************)
(* The calls.                                                            *)
(*************************************************************************)
Stored == {k \in KeySet : stored[k] # NotStored}
NoTraverse == [off |-> 0, hash |-> 0, key |-> NoKey, seen |-> {}, whole |-> {},
               ended |-> FALSE]

StoreInit ==
  /\ tdb \in {[map_size |-> DataStart, top |-> 0, heads |-> [b \in Buckets |-> 0],
               rec |-> <<>>, tailer |-> <<>>, max_dead |-> d,
               seqnum |-> 0] : d \in DeadLimits}
  /\ travlock = NoTraverse
  /\ stored = [k \in KeySet |-> NotStored]

\* A key stored in a new record is at another place of its chain.
Moves(key, r) ==
  travlock' = [travlock EXCEPT !.whole = IF r.anew THEN @ \ {key} ELSE @]

Store(key, data, flag) ==
  /\ tdb.seqnum < MaxSeqnum
  /\ \E r \in {tdb_store(tdb, key, data, flag, travlock.off)} :
       /\ tdb' = IF r.ok THEN tdb_increment_seqnum(r.db) ELSE r.db
       /\ stored' = IF r.ok THEN [stored EXCEPT ![key] = data] ELSE stored
       /\ Moves(key, r)

tdb_append(key, data) ==
  LET old == tdb_fetch(tdb, key)
      new == (IF old = NotStored THEN <<>> ELSE old) \o data
  IN  /\ tdb.seqnum < MaxSeqnum /\ Len(new) <= MaxPieces
      /\ \E r \in {tdb_store(tdb, key, new, "replace", travlock.off)} :
           tdb' = tdb_increment_seqnum(r.db) /\ Moves(key, r)
      /\ stored' = [stored EXCEPT ![key] = (IF @ = NotStored THEN <<>> ELSE @) \o data]

tdb_delete(key) ==
  /\ tdb.seqnum < MaxSeqnum
  /\ tdb' = tdb_delete_hash(tdb, key, travlock.off)
  /\ stored' = [stored EXCEPT ![key] = NotStored]
  /\ travlock' = [travlock EXCEPT !.whole = @ \ {key}]

\* The traversal comes to the record r, or to its end.
Arrive(r, seen, whole) ==
  /\ tdb' = r.db
  /\ travlock' = IF r.off = 0
       THEN [NoTraverse EXCEPT !.hash = r.hash, !.seen = seen, !.whole = whole,
                          !.ended = TRUE]
       ELSE [off |-> r.off, hash |-> r.hash, key |-> r.db.rec[r.off].key,
             seen |-> seen \cup {r.db.rec[r.off].key}, whole |-> whole,
             ended |-> FALSE]
  /\ UNCHANGED stored

tdb_firstkey == Arrive(NextFrom(tdb, tdb.heads[0], 0), {}, Stored)

\* The caller gives back the key it was given.  The locked record may have been
\* taken by another key: then the key is looked up again, and when it is gone
\* the walk is over.
tdb_nextkey ==
  /\ travlock.key # NoKey
  /\ LET same == /\ travlock.off \in DOMAIN tdb.rec
                 /\ tdb.rec[travlock.off].magic # "free"
                 /\ tdb.rec[travlock.off].key = travlock.key
         off == IF same THEN travlock.off ELSE tdb_find(tdb, travlock.key)
     IN  IF off = 0
           THEN /\ travlock' = [travlock EXCEPT !.off = 0, !.key = NoKey, !.ended = TRUE]
                /\ UNCHANGED <<tdb, stored>>
           ELSE Arrive(NextFrom(tdb, tdb.rec[off].next, KeyBucket[travlock.key]),
                       travlock.seen, travlock.whole)

StoreNext ==
  \/ \E k \in KeySet, p \in DOMAIN PieceWords, f \in {"insert", "replace", "modify"} :
       Store(k, <<p>>, f)
  \/ \E k \in KeySet, p \in DOMAIN PieceWords : tdb_append(k, <<p>>)
  \/ \E k \in KeySet : tdb_delete(k)
  \/ tdb_firstkey
  \/ tdb_nextkey

StoreSpec == StoreInit /\ [][StoreNext]_storeVars

(*************************************************************************)
(* Properties.                                                           *)
(*************************************************************************)
Size(off) == HDR + tdb.rec[off].rec_len
OnChain(b) == ToSet(Chain(tdb, tdb.heads[b]))

\* Whatever is stored, appended and deleted, also under a traversal, the records
\* of tdb.c tile the file without gap or overlap and each tailer gives its
\* record's size; every record is on exactly one list, the free list when it is
\* free and the chain of its key otherwise; and a fetch of any key returns what
\* was last stored under it.
TdbIsExact ==
  /\ \A off \in DOMAIN tdb.rec :
       /\ off + Size(off) \in DOMAIN tdb.rec \cup {tdb.map_size}
       /\ tdb.tailer[off + Size(off) - 1] = Size(off)
  /\ DataStart + MapThenSumSet(Size, DOMAIN tdb.rec) = tdb.map_size
  /\ ToSet(Chain(tdb, tdb.top)) = {off \in DOMAIN tdb.rec : tdb.rec[off].magic = "free"}
  /\ \A b \in Buckets :
       OnChain(b) = {off \in DOMAIN tdb.rec : /\ tdb.rec[off].magic # "free"
                                              /\ KeyBucket[tdb.rec[off].key] = b}
  /\ \A k \in KeySet : tdb_fetch(tdb, k) = stored[k]

\* When a tdb_firstkey / tdb_nextkey walk is at its end it has returned every key
\* that kept its record all the while, whatever was stored or deleted under it
\* (a key that outgrows its record moves to the head of its chain), provided dead
\* records are not kept for reuse (max_dead_records is 0).
TraverseIsComplete ==
  tdb.max_dead = 0 /\ travlock.ended => travlock.whole \subseteq travlock.seen
=============================================================================
