---------------------------- MODULE UnixIOCoherence ----------------------------
(***************************************************************************)
(* The cache of unix_io.c is transparent: proofs that no block is cached   *)
(* twice, that a read returns what was last written, and that a flush      *)
(* makes all of it durable, for every size of the device and of the cache. *)
(***************************************************************************)
EXTENDS UnixIOProofs

-----------------------------------------------------------------------------
(* No block is cached twice *)

Unique(c) ==
    \A s, t \in Slots :
      c[s].in_use /\ c[t].in_use /\ c[s].block = c[t].block => s = t

\* An entry may replace any slot when no other slot has its block.
LEMMA UniqueReplace ==
    ASSUME NEW c \in [Slots -> Entries], Unique(c), NEW s \in Slots, NEW e \in Entries,
           \A t \in Slots : t # s => ~(c[t].in_use /\ c[t].block = e.block)
    PROVE Unique([c EXCEPT ![s] = e])
  BY DEF Unique

\* Giving up slots, and changes to their other fields, keep the blocks distinct.
LEMMA UniqueKeep ==
    ASSUME NEW c, NEW d, Unique(c),
           \A s \in Slots : d[s].in_use => c[s].in_use /\ d[s].block = c[s].block
    PROVE Unique(d)
  BY DEF Unique

\* Touching a slot changes its time only.
LEMMA TouchFields ==
    ASSUME NEW c \in [Slots -> Entries], NEW s \in Slots, NEW t \in Times, NEW x \in Slots
    PROVE LET d == [c EXCEPT ![s].time = t]
          IN /\ d[x].in_use = c[x].in_use /\ d[x].block = c[x].block
             /\ d[x].dirty = c[x].dirty /\ d[x].data = c[x].data
  BY DEF Entries

\* A miss means that no slot has the block.
LEMMA MissNoSlot ==
    ASSUME NEW c, NEW b, Hits(c, b) = {}, NEW s \in Slots
    PROVE ~(c[s].in_use /\ c[s].block = b)
  BY DEF Hits

\* A lookup that hits leaves no other slot with the block.
LEMMA HitOneSlot ==
    ASSUME NEW c, NEW b, Unique(c), Hits(c, b) # {}, NEW s \in Slots, s # Found(c, b)
    PROVE ~(c[s].in_use /\ c[s].block = b)
  BY FoundSlot DEF Unique

\* The slots that reads and writes fill get a block no other slot has.
LEMMA FillUnique ==
    ASSUME TypeInv, OneEntryPerBlock, ReadHit \/ ReadMissOne \/ ReadMissRun \/ WriteBlock
    PROVE OneEntryPerBlock'
<1>1. cache \in [Slots -> Entries] /\ Unique(cache) /\ access_time \in Times
  BY DEF TypeInv, TypeOK, OneEntryPerBlock, Unique
<1>2. cache' \in [Slots -> Entries]
  BY ReadHitTypes, ReadMissOneTypes, ReadMissRunTypes, WriteBlockTypes DEF TypeInv, TypeOK
<1> SUFFICES Unique(cache')
  BY DEF OneEntryPerBlock, Unique
<1>3. CASE ReadHit
  <2> DEFINE s == Found(cache, call.block)
             now == Advance(access_time, 1)
  <2>1. s \in Slots /\ now \in Times /\ cache' = [cache EXCEPT ![s].time = now]
    BY <1>1, <1>3, FoundSlot, AdvanceType DEF ReadHit
  <2> HIDE DEF s, now
  <2>2. \A x \in Slots : cache'[x].in_use => cache[x].in_use /\ cache'[x].block = cache[x].block
    BY <1>1, <2>1, TouchFields
  <2> QED BY <1>1, <2>2, UniqueKeep
<1>4. CASE ReadMissOne
  <2> DEFINE s == Eldest(cache)
             e == Entry(call.block, disk[call.block], FALSE, Advance(access_time, 1))
  <2>1. /\ s \in Slots /\ Hits(cache, call.block) = {}
        /\ \/ cache' = [cache EXCEPT ![s] = e]
           \/ cache' = [cache EXCEPT ![s] = Empty]
    BY <1>1, <1>4, EldestSlot DEF ReadMissOne
  <2>2. e.block = call.block /\ Empty.in_use = FALSE
    BY DEF Entry, Empty
  <2>3. e \in Entries
    <3>1. call.block \in Blocks /\ disk[call.block] \in Data
      BY <1>4, CallBlocks DEF ReadMissOne, TypeInv, TypeOK
    <3>2. Advance(access_time, 1) \in Times
      BY <1>1, AdvanceType
    <3> QED BY <3>1, <3>2, EntryType
  <2> HIDE DEF s, e
  <2>4. CASE cache' = [cache EXCEPT ![s] = e]
    <3>1. \A x \in Slots : ~(cache[x].in_use /\ cache[x].block = e.block)
      BY <2>1, <2>2, MissNoSlot
    <3> QED BY <1>1, <2>1, <2>3, <2>4, <3>1, UniqueReplace
  <2>5. CASE cache' = [cache EXCEPT ![s] = Empty]
    <3>1. \A x \in Slots : cache'[x].in_use => cache[x].in_use /\ cache'[x].block = cache[x].block
      BY <1>1, <2>1, <2>2, <2>5
    <3> QED BY <1>1, <3>1, UniqueKeep
  <2> QED BY <2>1, <2>4, <2>5
<1>5. CASE ReadMissRun
  <2> DEFINE k == RunLength
             s == Eldest(cache)
             hit == k < call.count
             t0 == IF hit THEN Advance(access_time, 1) ELSE access_time
             found == Found(cache, call.block + k)
             touched == IF hit THEN [cache EXCEPT ![found].time = t0] ELSE cache
             last == call.block + k - 1
             e == Entry(last, disk[last], FALSE, Advance(t0, k))
  <2>1. /\ call.count > 1 /\ Hits(cache, call.block) = {}
        /\ \/ cache' = [touched EXCEPT ![s] = e]
           \/ cache' = touched
    BY <1>5 DEF ReadMissRun
  <2>2. /\ k \in 1 .. call.count /\ (hit => Hits(cache, call.block + k) # {})
        /\ \A b \in Range(call.block, k) : Hits(cache, b) = {}
    BY <2>1, RunLengthProp
  <2>3. s \in Slots /\ (hit => found \in Slots)
    BY <1>1, <2>2, EldestSlot, FoundSlot
  <2> HIDE DEF k, s, found
  <2>4. t0 \in Times
    BY <1>1, AdvanceType
  <2>5. last \in Range(call.block, k) /\ last \in Blocks /\ disk[last] \in Data
    BY <2>2, CallBlocks DEF Range, TypeInv, TypeOK
  <2> HIDE DEF last
  <2>6. e \in Entries /\ e.block = last
    <3>1. Advance(t0, k) \in Times
      BY <2>2, <2>4, AdvanceType, CallBlocks
    <3>2. e \in Entries
      BY <2>5, <3>1, EntryType
    <3> QED BY <3>2 DEF Entry
  <2> HIDE DEF t0, hit, e
  <2>7. /\ touched \in [Slots -> Entries]
        /\ \A x \in Slots : touched[x].in_use = cache[x].in_use
                         /\ touched[x].block = cache[x].block
    BY <1>1, <2>3, <2>4, TouchType, TouchFields
  <2> HIDE DEF touched
  <2>8. Unique(touched)
    BY <1>1, <2>7, UniqueKeep
  <2>9. Hits(cache, last) = {}
    BY <2>2, <2>5
  <2>10. \A x \in Slots : ~(touched[x].in_use /\ touched[x].block = e.block)
    BY <2>6, <2>7, <2>9, MissNoSlot
  <2>11. Unique([touched EXCEPT ![s] = e])
    BY <2>3, <2>6, <2>7, <2>8, <2>10, UniqueReplace
  <2> QED BY <2>1, <2>8, <2>11
<1>6. CASE WriteBlock
  <2> DEFINE b == call.block
             miss == Hits(cache, b) = {}
             s == IF miss THEN Eldest(cache) ELSE Found(cache, b)
             e == Entry(b, call.buf[b], ~call.writethrough, Advance(access_time, 1))
  <2>1. cache' = [cache EXCEPT ![s] = e]
    BY <1>6 DEF WriteBlock
  <2>2. s \in Slots
    BY <1>1, EldestSlot, FoundSlot
  <2>3. \A x \in Slots : x # s => ~(cache[x].in_use /\ cache[x].block = b)
    BY <1>1, MissNoSlot, HitOneSlot
  <2>4. e.block = b /\ cache'[s] = e
    BY <1>1, <2>1, <2>2 DEF Entry
  <2> HIDE DEF s, e
  <2>5. e \in Entries
    BY <1>2, <2>2, <2>4
  <2> QED BY <1>1, <2>1, <2>2, <2>3, <2>4, <2>5, UniqueReplace
<1> QED BY <1>3, <1>4, <1>5, <1>6

\* The flush loop only gives slots up.
LEMMA FlushSlotUnique ==
    ASSUME TypeInv, OneEntryPerBlock, FlushSlot
    PROVE OneEntryPerBlock'
<1> DEFINE e == cache[call.i]
<1>1. cache \in [Slots -> Entries] /\ Unique(cache) /\ call.i \in Slots
  BY DEF TypeInv, TypeOK, OneEntryPerBlock, Unique, FlushSlot
<1>2. PICK d \in BOOLEAN :
        cache' = [cache EXCEPT ![call.i] = IF Invalidate THEN Empty ELSE [e EXCEPT !.dirty = d]]
  BY <1>1 DEF FlushSlot, Entries
<1>3. /\ [e EXCEPT !.dirty = d].in_use = e.in_use /\ [e EXCEPT !.dirty = d].block = e.block
      /\ Empty.in_use = FALSE
  BY <1>1 DEF Entries, Empty
<1>4. \A x \in Slots : cache'[x].in_use => cache[x].in_use /\ cache'[x].block = cache[x].block
  BY <1>1, <1>2, <1>3
<1>5. Unique(cache')
  BY <1>1, <1>4, UniqueKeep
<1> QED BY <1>5 DEF OneEntryPerBlock, Unique

\* An empty cache holds no block twice.
LEMMA EmptyUnique ==
    ASSUME NEW c, c = [s \in Slots |-> Empty]
    PROVE Unique(c)
  BY DEF Unique, Empty

\* OneEntryPerBlock is inductive relative to the types.
LEMMA OneEntryStep == TypeInv /\ OneEntryPerBlock /\ [Next]_vars => OneEntryPerBlock'
<1> SUFFICES ASSUME TypeInv, OneEntryPerBlock, [Next]_vars PROVE OneEntryPerBlock'
  OBVIOUS
<1>1. CASE UNCHANGED cache
  BY <1>1 DEF OneEntryPerBlock
<1>2. CASE FreeCache \/ Crash
  <2>1. Unique(cache')
    BY <1>2, EmptyUnique DEF FreeCache, Crash
  <2> QED BY <2>1 DEF OneEntryPerBlock, Unique
<1>3. CASE Next
  BY <1>1, <1>2, <1>3, FillUnique, FlushSlotUnique
     DEF Next, Serve, unix_read_blk64, unix_write_blk64, unix_write_byte, unix_flush,
         unix_set_blksize, unix_close, WriteThroughFirst, FlushFailed, DirectRead,
         DirectWrite, Fsync, Finish
<1> QED BY <1>1, <1>3 DEF vars

\* No block is ever in two slots of the cache, so find_cached_block has only one to
\* find: whatever fails, and whichever mode the channel is in.
THEOREM OneEntryPerBlockHolds == Spec => []OneEntryPerBlock
<1>1. Init => OneEntryPerBlock
  <2> SUFFICES ASSUME Init PROVE Unique(cache)
    BY DEF OneEntryPerBlock, Unique
  <2> QED BY EmptyUnique DEF Init
<1> QED BY <1>1, TypeInit, TypeStep, OneEntryStep, PTL DEF Spec

-----------------------------------------------------------------------------
(* The cache and the device together hold what was last written *)

\* The blocks the present write call has still to store.
Pending == IF call.then = "write" THEN Range(call.block, call.count) ELSE {}

\* Cache c over device d, for the blocks that are not in P: what is cached is what
\* was last written (w), and what no dirty slot holds is on the device.
Dirty(c, s, b) == c[s].in_use /\ c[s].dirty /\ c[s].block = b
Coherent(c, d, w, P) ==
    /\ \A s \in Slots : c[s].in_use /\ c[s].block \notin P => c[s].data = w[c[s].block]
    /\ \A b \in Blocks \ P : (\A s \in Slots : ~Dirty(c, s, b)) => d[b] = w[b]

\* A channel is in write-through mode or it is not: slots are dirty only in the
\* other mode.
ModeOK ==
    /\ call.op = "write" => call.writethrough \in Modes
    /\ call.op = "raw" => call.writethrough /\ TRUE \in Modes
    /\ \A s \in Slots : cache[s].in_use /\ cache[s].dirty => FALSE \in Modes

\* The inductive strengthening of ReadsLastWrite and FlushMakesDurable.
Good ==
    /\ Coherent(cache, disk, written, Pending)
    /\ \A b \in Pending : call.buf[b] = written[b]
    /\ call.op = "write" /\ call.writethrough => \A b \in Pending : disk[b] = written[b]
    /\ call.op = "flush" =>
         \A s \in Slots : s < call.i =>
           ~cache[s].in_use \/ (~cache[s].dirty /\ call.then # "write")
    /\ call.then = "read" => \A b \in DOMAIN call.buf : call.buf[b] = written[b]
    /\ call.op = "return" /\ call.then = "sync" => \A b \in Blocks : volatile[b] = {written[b]}

CacheInv == TypeInv /\ OneEntryPerBlock /\ ModeOK /\ (~Failed => Good)

\* Where nothing is dirty, the device holds everything.
LEMMA CleanDisk ==
    ASSUME NEW c, NEW d, NEW w, Coherent(c, d, w, {}),
           \A s \in Slots : ~c[s].in_use \/ ~c[s].dirty
    PROVE \A b \in Blocks : d[b] = w[b]
  BY DEF Coherent, Dirty

\* A block that is not cached is on the device.
LEMMA MissDisk ==
    ASSUME NEW c, NEW d, NEW w, Coherent(c, d, w, {}), NEW b \in Blocks, Hits(c, b) = {}
    PROVE d[b] = w[b]
  BY MissNoSlot DEF Coherent, Dirty

\* An empty cache over a device that holds everything.
LEMMA EmptyCoherent ==
    ASSUME NEW c, c = [s \in Slots |-> Empty], NEW d, NEW w, \A b \in Blocks : d[b] = w[b]
    PROVE Coherent(c, d, w, {})
  BY DEF Coherent, Empty

\* Times do not matter.
LEMMA CoherentSame ==
    ASSUME NEW c, NEW c2, NEW d, NEW w, NEW P, Coherent(c, d, w, P),
           \A s \in Slots : /\ c2[s].in_use = c[s].in_use /\ c2[s].block = c[s].block
                            /\ c2[s].dirty = c[s].dirty /\ c2[s].data = c[s].data
    PROVE Coherent(c2, d, w, P)
  BY DEF Coherent, Dirty

\* New data for the blocks of P.
LEMMA CoherentRequest ==
    ASSUME NEW c \in [Slots -> Entries], NEW d, NEW w, NEW w2, NEW P,
           Coherent(c, d, w, {}), \A b \in Blocks \ P : w2[b] = w[b]
    PROVE Coherent(c, d, w2, P)
<1>1. \A s \in Slots : c[s].block \in Blocks
  BY DEF Entries
<1> QED BY <1>1 DEF Coherent

\* The device takes the blocks of P.
LEMMA CoherentRaw ==
    ASSUME NEW c, NEW d, NEW d2, NEW w, NEW P, Coherent(c, d, w, P),
           \A b \in Blocks \ P : d2[b] = d[b]
    PROVE Coherent(c, d2, w, P)
  BY DEF Coherent

\* The device after reuse_cache or flush_cached_blocks wrote slot s.
Flushed1(c, d, s) == [b \in Blocks |-> IF Dirty(c, s, b) THEN c[s].data ELSE d[b]]

\* Slot s is written out, and left clean or given up.
LEMMA CoherentClean ==
    ASSUME NEW c \in [Slots -> Entries], NEW c2, NEW d, NEW w, NEW P, NEW s \in Slots,
           Coherent(c, d, w, P),
           \A t \in Slots : t # s => c2[t] = c[t],
           c2[s].in_use => /\ c[s].in_use /\ ~c2[s].dirty
                           /\ c2[s].block = c[s].block /\ c2[s].data = c[s].data
    PROVE Coherent(c2, Flushed1(c, d, s), w, P)
<1>1. ASSUME NEW t \in Slots, c2[t].in_use, c2[t].block \notin P
      PROVE c2[t].data = w[c2[t].block]
  BY <1>1 DEF Coherent
<1>2. ASSUME NEW b \in Blocks \ P, \A t \in Slots : ~Dirty(c2, t, b)
      PROVE Flushed1(c, d, s)[b] = w[b]
  <2>1. CASE Dirty(c, s, b)
    BY <2>1 DEF Coherent, Dirty, Flushed1
  <2>2. CASE ~Dirty(c, s, b)
    <3>1. \A t \in Slots : ~Dirty(c, t, b)
      BY <1>2, <2>2 DEF Dirty
    <3> QED BY <2>2, <3>1 DEF Coherent, Flushed1
  <2> QED BY <2>1, <2>2
<1> QED BY <1>1, <1>2 DEF Coherent

\* A current entry e is stored in slot s, and no other slot has its block.
LEMMA CoherentStore ==
    ASSUME NEW c \in [Slots -> Entries], NEW d, NEW d2, NEW w, NEW P, NEW s \in Slots,
           NEW e \in Entries, Coherent(c, d, w, P),
           \A t \in Slots : t # s => ~(c[t].in_use /\ c[t].block = e.block),
           \A b \in Blocks \ {e.block} : d2[b] = Flushed1(c, d, s)[b],
           e.in_use, e.data = w[e.block], e.dirty \/ d2[e.block] = w[e.block]
    PROVE Coherent([c EXCEPT ![s] = e], d2, w, P \ {e.block})
<1> DEFINE c2 == [c EXCEPT ![s] = e]
<1>0. c2[s] = e /\ \A t \in Slots : t # s => c2[t] = c[t]
  OBVIOUS
<1> HIDE DEF c2
<1>1. ASSUME NEW t \in Slots, c2[t].in_use, c2[t].block \notin P \ {e.block}
      PROVE c2[t].data = w[c2[t].block]
  BY <1>0, <1>1 DEF Coherent
<1>2. ASSUME NEW b \in Blocks \ (P \ {e.block}), \A t \in Slots : ~Dirty(c2, t, b)
      PROVE d2[b] = w[b]
  <2>1. CASE b = e.block
    BY <1>0, <1>2, <2>1 DEF Dirty
  <2>2. CASE b # e.block
    <3>1. d2[b] = IF Dirty(c, s, b) THEN c[s].data ELSE d[b]
      BY <2>2 DEF Flushed1
    <3>2. CASE Dirty(c, s, b)
      BY <1>2, <2>2, <3>1, <3>2 DEF Coherent, Dirty
    <3>3. CASE ~Dirty(c, s, b)
      <4>1. \A t \in Slots : ~Dirty(c, t, b)
        BY <1>0, <1>2, <3>3 DEF Dirty
      <4> QED BY <1>2, <2>2, <3>1, <3>3, <4>1 DEF Coherent
    <3> QED BY <3>2, <3>3
  <2> QED BY <2>1, <2>2
<1>3. Coherent(c2, d2, w, P \ {e.block})
  BY <1>1, <1>2 DEF Coherent
<1> QED BY <1>3 DEF c2

\* An eviction writes the victim out if it is dirty.
LEMMA EvictEffect ==
    ASSUME TypeInv, ~EvictionMayFail, NEW s \in Slots, Evict(s)
    PROVE disk' = Flushed1(cache, disk, s)
<1>1. disk \in [Blocks -> Data] /\ cache[s] \in Entries
  BY DEF TypeInv, TypeOK
<1>2. IF cache[s].dirty /\ cache[s].in_use
      THEN RawWrite([b \in {cache[s].block} |-> cache[s].data], {cache[s].block})
      ELSE NoRawWrite
  BY DEF Evict, EvictOk
<1>3. CASE cache[s].dirty /\ cache[s].in_use
  BY <1>2, <1>3 DEF RawWrite, Flushed1, Dirty
<1>4. CASE ~(cache[s].dirty /\ cache[s].in_use)
  BY <1>1, <1>2, <1>4 DEF NoRawWrite, Flushed1, Dirty
<1> QED BY <1>3, <1>4

\* A call that is about to return.
LEMMA ReturnFields ==
    ASSUME TypeInv, NEW err, Return(err)
    PROVE /\ call'.op = "return" /\ call'.then = call.then /\ call'.count = 0
          /\ call'.block = call.block /\ call'.buf = call.buf /\ call'.err = err
<1>1. call \in Calls
  BY DEF TypeInv, TypeOK
<1> QED BY <1>1 DEF Return, Calls

-----------------------------------------------------------------------------
(* Each action keeps ModeOK *)

\* Entering and leaving a call.
LEMMA ModeCall ==
    ASSUME ModeOK, UNCHANGED cache,
           \/ call'.op \in {"idle", "return", "flush", "read"}
           \/ call'.op = "raw" /\ call'.writethrough /\ TRUE \in Modes
           \/ call'.op = "write" /\ call'.writethrough \in Modes
    PROVE ModeOK'
  BY DEF ModeOK

\* A slot that is given a clean entry, or one that was there before.
LEMMA ModeSlots ==
    ASSUME ModeOK, call'.op \in {"read", "return", "flush"},
           \A s \in Slots : cache'[s].in_use /\ cache'[s].dirty =>
                              cache[s].in_use /\ cache[s].dirty
    PROVE ModeOK'
  BY DEF ModeOK

\* Dirty slots come from writes that are not written through.
LEMMA ModeStep == TypeInv /\ ModeOK /\ [Next]_vars => ModeOK'
<1> SUFFICES ASSUME TypeInv, ModeOK, [Next]_vars PROVE ModeOK'
  OBVIOUS
<1>1. call \in Calls /\ cache \in [Slots -> Entries] /\ access_time \in Times
  BY DEF TypeInv, TypeOK
<1>2. ASSUME NEW b \in Blocks, NEW n \in Counts, NEW odd \in BOOLEAN, unix_read_blk64(b, n, odd)
      PROVE ModeOK'
  BY <1>2, ModeCall DEF unix_read_blk64, Start, Idle
<1>3. ASSUME NEW b \in Blocks, NEW n \in Counts, NEW odd \in BOOLEAN, unix_write_blk64(b, n, odd)
      PROVE ModeOK'
  <2>1. PICK buf \in Bufs(b, n) :
          \/ Start("flush", "write", b, n, buf)
          \/ \E m \in Modes : Start(IF m THEN "raw" ELSE "write", "write", b, n, buf)
    BY <1>3 DEF unix_write_blk64
  <2>2. UNCHANGED cache
    BY <1>3 DEF unix_write_blk64
  <2>3. CASE Start("flush", "write", b, n, buf)
    BY <2>2, <2>3, ModeCall DEF Start, Idle
  <2>4. ASSUME NEW m \in Modes, Start(IF m THEN "raw" ELSE "write", "write", b, n, buf)
        PROVE ModeOK'
    <3>1. m \in BOOLEAN
      BY UnixIOConstants
    <3>2. CASE m = TRUE
      BY <2>2, <2>4, <3>2, ModeCall DEF Start, Idle
    <3>3. CASE m = FALSE
      <4>1. call'.op = "write" /\ call'.writethrough = FALSE
        BY <2>4, <3>3 DEF Start, Idle
      <4> QED BY <2>2, <2>4, <3>3, <4>1, ModeCall
    <3> QED BY <3>1, <3>2, <3>3
  <2> QED BY <2>1, <2>3, <2>4
<1>4. CASE \/ \E b \in Blocks, n \in Counts : unix_write_byte(b, n)
           \/ unix_flush \/ unix_set_blksize \/ unix_close
  BY <1>4, ModeCall DEF unix_write_byte, unix_flush, unix_set_blksize, unix_close, Start, Idle
<1>5. CASE ReadHit
  <2> DEFINE s == Found(cache, call.block)
             now == Advance(access_time, 1)
  <2>1. s \in Slots /\ now \in Times /\ cache' = [cache EXCEPT ![s].time = now]
    BY <1>1, <1>5, FoundSlot, AdvanceType DEF ReadHit
  <2>2. call'.op = "read"
    BY <1>1, <1>5 DEF ReadHit, Calls
  <2> HIDE DEF s, now
  <2> QED BY <1>1, <2>1, <2>2, TouchFields, ModeSlots
<1>6. CASE ReadMissOne
  <2> DEFINE s == Eldest(cache)
             e == Entry(call.block, disk[call.block], FALSE, Advance(access_time, 1))
  <2>1. /\ s \in Slots
        /\ \/ cache' = [cache EXCEPT ![s] = e]
           \/ cache' = [cache EXCEPT ![s] = Empty]
    BY <1>1, <1>6, EldestSlot DEF ReadMissOne
  <2>2. e.dirty = FALSE /\ Empty.dirty = FALSE
    BY DEF Entry, Empty
  <2>3. call'.op = "return"
    BY <1>1, <1>6 DEF ReadMissOne, Return, Calls
  <2> HIDE DEF s, e
  <2> QED BY <1>1, <2>1, <2>2, <2>3, ModeSlots
<1>7. CASE ReadMissRun
  <2> DEFINE k == RunLength
             s == Eldest(cache)
             hit == k < call.count
             t0 == IF hit THEN Advance(access_time, 1) ELSE access_time
             found == Found(cache, call.block + k)
             touched == IF hit THEN [cache EXCEPT ![found].time = t0] ELSE cache
             last == call.block + k - 1
             e == Entry(last, disk[last], FALSE, Advance(t0, k))
  <2>1. /\ call.count > 1 /\ Hits(cache, call.block) = {}
        /\ \/ cache' = [touched EXCEPT ![s] = e]
           \/ cache' = touched
    BY <1>7 DEF ReadMissRun
  <2>2. hit => Hits(cache, call.block + k) # {}
    BY <2>1, RunLengthProp
  <2>3. s \in Slots /\ (hit => found \in Slots)
    BY <1>1, <2>2, EldestSlot, FoundSlot
  <2> HIDE DEF k, s, found
  <2>4. t0 \in Times
    BY <1>1, AdvanceType
  <2>5. e.dirty = FALSE
    BY DEF Entry
  <2>6. call'.op \in {"read", "return"}
    BY <1>1, <1>7 DEF ReadMissRun, Return, Calls
  <2> HIDE DEF t0, hit, e
  <2>7. /\ touched \in [Slots -> Entries]
        /\ \A x \in Slots : touched[x].in_use = cache[x].in_use
                         /\ touched[x].dirty = cache[x].dirty
    BY <1>1, <2>3, <2>4, TouchType, TouchFields
  <2> HIDE DEF touched
  <2> QED BY <2>1, <2>3, <2>5, <2>6, <2>7, ModeSlots
<1>8. CASE WriteThroughFirst
  <2>1. call'.op = "write" /\ call'.writethrough = call.writethrough
    BY <1>1, <1>8 DEF WriteThroughFirst, Calls
  <2>2. call.writethrough = TRUE /\ TRUE \in Modes
    BY <1>1, <1>8 DEF WriteThroughFirst, ModeOK, Calls
  <2> QED BY <1>8, <2>1, <2>2, ModeCall DEF WriteThroughFirst
<1>9. CASE WriteBlock
  <2> DEFINE b == call.block
             miss == Hits(cache, b) = {}
             s == IF miss THEN Eldest(cache) ELSE Found(cache, b)
             e == Entry(b, call.buf[b], ~call.writethrough, Advance(access_time, 1))
  <2>1. cache' = [cache EXCEPT ![s] = e] /\ s \in Slots
    BY <1>1, <1>9, EldestSlot, FoundSlot DEF WriteBlock
  <2>2. call'.op = "write" /\ call'.writethrough = call.writethrough
    BY <1>1, <1>9 DEF WriteBlock, Calls
  <2>3. call.writethrough \in Modes /\ call.writethrough \in BOOLEAN
    BY <1>1, <1>9 DEF WriteBlock, ModeOK, Calls
  <2>4. e.dirty => FALSE \in Modes
    BY <2>3 DEF Entry
  <2> HIDE DEF s, e
  <2> QED BY <1>1, <2>1, <2>2, <2>3, <2>4 DEF ModeOK
<1>10. CASE FlushSlot
  <2> DEFINE e == cache[call.i]
  <2>1. call.i \in Slots /\ call'.op = "flush"
    BY <1>1, <1>10 DEF FlushSlot, Calls
  <2>2. PICK d \in BOOLEAN :
          /\ cache' = [cache EXCEPT ![call.i] = IF Invalidate THEN Empty ELSE [e EXCEPT !.dirty = d]]
          /\ d => e.dirty
    BY <1>1, <1>10, <2>1 DEF FlushSlot, Entries
  <2>3. /\ [e EXCEPT !.dirty = d].in_use = e.in_use /\ [e EXCEPT !.dirty = d].dirty = d
        /\ Empty.in_use = FALSE
    BY <1>1, <2>1 DEF Entries, Empty
  <2>4. \A x \in Slots : cache'[x].in_use /\ cache'[x].dirty => cache[x].in_use /\ cache[x].dirty
    BY <1>1, <2>1, <2>2, <2>3
  <2> QED BY <2>1, <2>4, ModeSlots
<1>11. CASE FlushFailed \/ DirectRead \/ DirectWrite \/ Fsync \/ Finish
  <2>1. call'.op \in {"return", "idle"}
    <3>1. CASE DirectRead
      BY <1>1, <3>1, ReturnFields DEF DirectRead, Calls
    <3>2. CASE Finish
      BY <3>2 DEF Finish, Idle
    <3> QED BY <1>11, <3>1, <3>2, ReturnFields DEF FlushFailed, DirectWrite, Fsync
  <2> QED BY <1>11, <2>1, ModeCall DEF FlushFailed, DirectRead, DirectWrite, Fsync, Finish
<1>12. CASE FreeCache \/ Crash
  <2>1. call'.op \in {"return", "idle"}
    BY <1>12, ReturnFields DEF FreeCache, Crash, Idle
  <2>2. \A s \in Slots : ~cache'[s].in_use
    BY <1>12 DEF FreeCache, Crash, Empty
  <2> QED BY <2>1, <2>2 DEF ModeOK
<1>13. CASE UNCHANGED vars
  BY <1>13 DEF vars, ModeOK
<1> QED BY <1>2, <1>3, <1>4, <1>5, <1>6, <1>7, <1>8, <1>9, <1>10, <1>11, <1>12, <1>13
        DEF Next, Serve

-----------------------------------------------------------------------------
(* Each action keeps Good, until an error has been returned *)

\* The setting of the theorems below: the writes of reuse_cache succeed, and the
\* channel stays in one mode.
Setting == ~EvictionMayFail /\ (TRUE \in Modes => FALSE \notin Modes)

\* A call that has nothing left to store, outside the flush loop.
LEMMA GoodPlain ==
    ASSUME call'.then = "write" => call'.count = 0, call'.block \in Nat,
           Coherent(cache', disk', written', {}),
           call'.op # "flush",
           call'.then = "read" => \A b \in DOMAIN call'.buf : call'.buf[b] = written'[b],
           ~(call'.op = "return" /\ call'.then = "sync")
    PROVE Good'
<1>1. Pending' = {}
  BY DEF Pending, Range
<1> QED BY <1>1 DEF Good

\* A call is entered.
LEMMA GoodStart ==
    ASSUME CacheInv, NEW op \in {"read", "raw", "write", "flush"}, NEW then,
           NEW b \in Nat, NEW n \in Nat, NEW buf, Start(op, then, b, n, buf),
           UNCHANGED <<disk, volatile, cache, access_time, reported>>,
           IF then = "write"
             THEN /\ \A x \in Range(b, n) : buf[x] = written'[x]
                  /\ \A x \in Blocks \ Range(b, n) : written'[x] = written[x]
             ELSE written' = written /\ buf = NoBuf,
           ~Failed'
    PROVE Good'
<1>1. call' = [op |-> op, then |-> then, block |-> b, count |-> n, buf |-> buf,
               i |-> 0, writethrough |-> (op = "raw"), err |-> "none"]
  BY DEF Start, Idle
<1>2. call.then = "none" /\ call.err = "none" /\ ~Failed
  BY DEF Start, NoCall, CacheInv, TypeInv, CallOK, Failed
<1>3. Pending = {} /\ Coherent(cache, disk, written, {})
  BY <1>2 DEF CacheInv, Good, Pending
<1>4. Pending' = IF then = "write" THEN Range(b, n) ELSE {}
  BY <1>1 DEF Pending
<1>5. cache \in [Slots -> Entries]
  BY DEF CacheInv, TypeInv, TypeOK
<1>6. Coherent(cache, disk, written', Pending')
  BY <1>3, <1>4, <1>5, CoherentRequest
<1>7. \A x \in Pending' : call'.buf[x] = written'[x]
  BY <1>1, <1>4
<1>8. call'.op = "flush" => \A s \in Slots : ~(s < call'.i)
  BY <1>1, UnixIOConstants DEF Slots
<1>9. then = "read" => DOMAIN call'.buf = {}
  BY <1>1, NoBufType
<1>10. ~(call'.op = "write" /\ call'.writethrough) /\ call'.op # "return" /\ call'.then = then
  BY <1>1
<1> QED BY <1>6, <1>7, <1>8, <1>9, <1>10 DEF Good

\* Overwrite changes what was last written to what the buffer holds.
LEMMA OverwriteProp ==
    ASSUME NEW b \in Blocks, NEW n \in Counts, Fits(b, n), NEW buf \in Bufs(b, n),
           written' = Overwrite(written, buf), TypeInv
    PROVE /\ \A x \in Range(b, n) : buf[x] = written'[x]
          /\ \A x \in Blocks \ Range(b, n) : written'[x] = written[x]
<1>1. DOMAIN buf = Range(b, n)
  BY WrittenType
<1>2. Range(b, n) \in SUBSET Blocks
  BY RangeOnDevice, UnixIOConstants DEF Blocks, Counts, Fits
<1> QED BY <1>1, <1>2 DEF Overwrite

\* All the calls.
LEMMA GoodCalls ==
    ASSUME CacheInv, ~Failed',
           \/ \E b \in Blocks, n \in Counts, odd \in BOOLEAN :
                unix_read_blk64(b, n, odd) \/ unix_write_blk64(b, n, odd)
           \/ \E b \in Blocks, n \in Counts : unix_write_byte(b, n)
           \/ unix_flush \/ unix_set_blksize \/ unix_close
    PROVE Good'
<1>1. TypeInv
  BY DEF CacheInv
<1>2. \A b \in Blocks, n \in Counts : b \in Nat /\ n \in Nat
  BY UnixIOConstants DEF Blocks, Counts
<1>3. ASSUME NEW b \in Blocks, NEW n \in Counts, NEW odd \in BOOLEAN, unix_read_blk64(b, n, odd)
      PROVE Good'
  <2>1. PICK op \in {"read", "flush"} : Start(op, "read", b, n, NoBuf)
    BY <1>3 DEF unix_read_blk64
  <2>2. UNCHANGED <<disk, volatile, cache, access_time, written, reported>>
    BY <1>3 DEF unix_read_blk64
  <2> QED BY <1>2, <2>1, <2>2, GoodStart
<1>4. ASSUME NEW b \in Blocks, NEW n \in Counts,
             \/ \E odd \in BOOLEAN : unix_write_blk64(b, n, odd)
             \/ unix_write_byte(b, n)
      PROVE Good'
  <2>1. /\ Fits(b, n) /\ UNCHANGED <<disk, volatile, cache, access_time, reported>>
        /\ \E buf \in Bufs(b, n) :
             /\ written' = Overwrite(written, buf)
             /\ \E op \in {"raw", "write", "flush"} : Start(op, "write", b, n, buf)
    BY <1>4 DEF unix_write_blk64, unix_write_byte
  <2>2. PICK buf \in Bufs(b, n), op \in {"raw", "write", "flush"} :
          written' = Overwrite(written, buf) /\ Start(op, "write", b, n, buf)
    BY <2>1
  <2>3. /\ \A x \in Range(b, n) : buf[x] = written'[x]
        /\ \A x \in Blocks \ Range(b, n) : written'[x] = written[x]
    BY <1>1, <2>1, <2>2, OverwriteProp
  <2> QED BY <1>2, <2>1, <2>2, <2>3, GoodStart
<1>5. CASE unix_flush \/ unix_set_blksize \/ unix_close
  <2>1. PICK then \in {"sync", "blksize", "close"} : Start("flush", then, 0, 0, NoBuf)
    BY <1>5 DEF unix_flush, unix_set_blksize, unix_close
  <2>2. UNCHANGED <<disk, volatile, cache, access_time, written, reported>>
    BY <1>5 DEF unix_flush, unix_set_blksize, unix_close
  <2>3. then # "write"
    BY <2>1
  <2> QED BY <2>1, <2>2, <2>3, GoodStart
<1> QED BY <1>3, <1>4, <1>5

\* What a read has delivered is current when what it adds is.
LEMMA DeliverCurrent ==
    ASSUME NEW f, NEW S, \A b \in DOMAIN call.buf : call.buf[b] = written[b],
           \A b \in S : f[b] = written[b]
    PROVE \A b \in DOMAIN Deliver(f, S) : Deliver(f, S)[b] = written[b]
  BY DEF Deliver

\* What a read finds while no write error has been returned.
LEMMA ReadState ==
    ASSUME CacheInv, call.then = "read", ~Failed
    PROVE /\ Coherent(cache, disk, written, {}) /\ TypeInv /\ call.block \in Nat
          /\ \A b \in DOMAIN call.buf : call.buf[b] = written[b]
          /\ cache \in [Slots -> Entries] /\ access_time \in Times /\ call \in Calls
<1>1. Pending = {} /\ Good /\ TypeInv
  BY DEF Pending, CacheInv
<1>2. call.block \in Nat
  BY <1>1, CallBlocks
<1> QED BY <1>1, <1>2 DEF Good, TypeInv, TypeOK

\* A read that hits.
LEMMA GoodReadHit ==
    ASSUME CacheInv, ReadHit, ~Failed'
    PROVE Good'
<1> DEFINE s == Found(cache, call.block)
           now == Advance(access_time, 1)
           f == [b \in {call.block} |-> cache[s].data]
<1>1. /\ call.op = "read" /\ call.then = "read" /\ Hits(cache, call.block) # {}
      /\ call \in Calls
  BY DEF ReadHit, CacheInv, TypeInv, CallOK, TypeOK
<1>2. /\ call'.op = "read" /\ call'.then = "read" /\ call'.err = call.err
      /\ call'.block = call.block + 1 /\ call'.buf = Deliver(f, {call.block})
  BY <1>1 DEF ReadHit, Calls
<1>3. ~Failed
  BY <1>2 DEF Failed, ReadHit
<1>4. /\ Coherent(cache, disk, written, {}) /\ call.block \in Nat
      /\ \A b \in DOMAIN call.buf : call.buf[b] = written[b]
      /\ cache \in [Slots -> Entries] /\ access_time \in Times
  BY <1>1, <1>3, ReadState
<1>5. s \in Slots /\ cache[s].in_use /\ cache[s].block = call.block
  BY <1>1, FoundSlot
<1>6. cache[s].data = written[call.block]
  BY <1>4, <1>5 DEF Coherent
<1>7. \A b \in {call.block} : f[b] = written[b]
  BY <1>6
<1> HIDE DEF f
<1>8. \A b \in DOMAIN call'.buf : call'.buf[b] = written[b]
  BY <1>2, <1>4, <1>7, DeliverCurrent
<1>9. now \in Times /\ cache' = [cache EXCEPT ![s].time = now]
  BY <1>4, AdvanceType DEF ReadHit
<1> HIDE DEF s, now
<1>10. \A x \in Slots : /\ cache'[x].in_use = cache[x].in_use /\ cache'[x].block = cache[x].block
                        /\ cache'[x].dirty = cache[x].dirty /\ cache'[x].data = cache[x].data
  BY <1>4, <1>5, <1>9, TouchFields
<1>11. Coherent(cache', disk, written, {})
  BY <1>4, <1>10, CoherentSame
<1>12. disk' = disk /\ written' = written
  BY DEF ReadHit, NoRawWrite
<1>13. call'.block \in Nat
  BY <1>2, <1>4
<1> QED BY <1>2, <1>8, <1>11, <1>12, <1>13, GoodPlain

\* A read that misses its last block.
LEMMA GoodReadMissOne ==
    ASSUME CacheInv, Setting, ReadMissOne, ~Failed'
    PROVE Good'
<1> DEFINE s == Eldest(cache)
           now == Advance(access_time, 1)
           b == call.block
           e == Entry(b, disk[b], FALSE, now)
<1>1. /\ call.op = "read" /\ call.then = "read" /\ call.count = 1 /\ Hits(cache, b) = {}
      /\ call.err = "none"
  BY DEF ReadMissOne, CacheInv, TypeInv, CallOK
<1>2. ~Failed /\ TypeInv
  BY <1>1 DEF Failed, ReadMissOne, CacheInv
<1>3. /\ Coherent(cache, disk, written, {}) /\ b \in Nat /\ call \in Calls
      /\ \A x \in DOMAIN call.buf : call.buf[x] = written[x]
      /\ cache \in [Slots -> Entries] /\ access_time \in Times
  BY <1>1, <1>2, ReadState
<1>4. b \in Blocks
  BY <1>1, <1>2, CallBlocks
<1>5. disk[b] = written[b]
  BY <1>1, <1>3, <1>4, MissDisk
<1>6. s \in Slots /\ Evict(s) /\ written' = written
  BY <1>3, EldestSlot DEF ReadMissOne
<1>7. PICK ok \in BOOLEAN :
        /\ cache' = [cache EXCEPT ![s] = IF ok THEN e ELSE Empty]
        /\ IF ok THEN call' = [call EXCEPT !.op = "return", !.count = 0,
                                 !.buf = Deliver(disk, {b})]
                 ELSE Return("read")
  BY DEF ReadMissOne, ReadOk
<1>8. disk' = Flushed1(cache, disk, s)
  BY <1>2, <1>6, EvictEffect DEF Setting
<1>9. Coherent(cache', disk', written, {})
  <2>1. now \in Times /\ disk[b] \in Data
    BY <1>2, <1>3, <1>4, AdvanceType DEF TypeInv, TypeOK
  <2>2. e \in Entries
    BY <1>4, <2>1, EntryType
  <2>3. e.in_use /\ e.block = b /\ e.data = disk[b] /\ Empty.in_use = FALSE
    BY DEF Entry, Empty
  <2>4. \A t \in Slots : ~(cache[t].in_use /\ cache[t].block = b)
    BY <1>1, MissNoSlot
  <2>5. disk'[b] = written[b]
    BY <1>4, <1>5, <1>6, <1>8, <2>4 DEF Flushed1, Dirty
  <2> HIDE DEF s, e, b
  <2>6. CASE ok
    <3>1. Coherent([cache EXCEPT ![s] = e], disk', written, {} \ {e.block})
      BY <1>3, <1>5, <1>6, <1>8, <2>2, <2>3, <2>4, <2>5, CoherentStore
    <3> QED BY <1>7, <2>6, <3>1
  <2>7. CASE ~ok
    <3>1. /\ \A t \in Slots : t # s => cache'[t] = cache[t]
          /\ ~cache'[s].in_use
      BY <1>3, <1>6, <1>7, <2>3, <2>7
    <3> QED BY <1>3, <1>6, <1>8, <3>1, CoherentClean
  <2> QED BY <2>6, <2>7
<1>10. /\ call'.op = "return" /\ call'.then = "read" /\ call'.block \in Nat
       /\ \A x \in DOMAIN call'.buf : call'.buf[x] = written[x]
  <2>1. CASE ok
    <3>1. call'.op = "return" /\ call'.then = "read" /\ call'.block = b
          /\ call'.buf = Deliver(disk, {b})
      BY <1>1, <1>3, <1>7, <2>1 DEF Calls
    <3>2. \A x \in {b} : disk[x] = written[x]
      BY <1>5
    <3> QED BY <1>3, <3>1, <3>2, DeliverCurrent
  <2>2. CASE ~ok
    BY <1>1, <1>2, <1>3, <1>7, <2>2, ReturnFields
  <2> QED BY <2>1, <2>2
<1> QED BY <1>6, <1>9, <1>10, GoodPlain

\* A read that misses a run of blocks.
LEMMA GoodReadMissRun ==
    ASSUME CacheInv, Setting, ReadMissRun, ~Failed'
    PROVE Good'
<1> DEFINE k == RunLength
           s == Eldest(cache)
           hit == k < call.count
           t0 == IF hit THEN Advance(access_time, 1) ELSE access_time
           found == Found(cache, call.block + k)
           touched == IF hit THEN [cache EXCEPT ![found].time = t0] ELSE cache
           last == call.block + k - 1
           e == Entry(last, disk[last], FALSE, Advance(t0, k))
           run == Range(call.block, k)
<1>1. /\ call.op = "read" /\ call.then = "read" /\ call.count > 1
      /\ Hits(cache, call.block) = {} /\ call.err = "none"
  BY DEF ReadMissRun, CacheInv, TypeInv, CallOK
<1>2. ~Failed /\ TypeInv
  BY <1>1 DEF Failed, ReadMissRun, CacheInv
<1>3. /\ Coherent(cache, disk, written, {}) /\ call.block \in Nat /\ call \in Calls
      /\ \A x \in DOMAIN call.buf : call.buf[x] = written[x]
      /\ cache \in [Slots -> Entries] /\ access_time \in Times
  BY <1>1, <1>2, ReadState
<1>4. \/ /\ Evict(s) /\ cache' = [touched EXCEPT ![s] = e]
         /\ call' = [call EXCEPT !.block = call.block + k, !.count = call.count - k,
                                 !.buf = Deliver(disk, run)]
      \/ /\ NoRawWrite /\ cache' = touched
         /\ Return("read")
  BY DEF ReadMissRun
<1>5. written' = written
  BY DEF ReadMissRun
<1>6. /\ k \in 1 .. call.count /\ (hit => Hits(cache, call.block + k) # {})
      /\ \A b \in run : Hits(cache, b) = {}
  BY <1>1, <1>2, RunLengthProp
<1>7. s \in Slots /\ (hit => found \in Slots)
  BY <1>3, <1>6, EldestSlot, FoundSlot
<1> HIDE DEF k, s, found
<1>8. t0 \in Times
  BY <1>3, AdvanceType
<1>9. run \in SUBSET Blocks /\ last \in run /\ k \in Nat
  BY <1>2, <1>6, CallBlocks DEF Range
<1> HIDE DEF last, run
<1>10. \A b \in run : disk[b] = written[b]
  BY <1>3, <1>6, <1>9, MissDisk
<1>11. e \in Entries /\ e.block = last /\ e.data = disk[last] /\ e.in_use
  <2>1. Advance(t0, k) \in Times
    BY <1>8, <1>9, AdvanceType
  <2>2. last \in Blocks /\ disk[last] \in Data
    BY <1>2, <1>9 DEF TypeInv, TypeOK
  <2>3. e \in Entries
    BY <2>1, <2>2, EntryType
  <2> QED BY <2>3 DEF Entry
<1> HIDE DEF t0, hit, e
<1>12. /\ touched \in [Slots -> Entries]
       /\ \A x \in Slots :
            /\ touched[x].in_use = cache[x].in_use /\ touched[x].block = cache[x].block
            /\ touched[x].dirty = cache[x].dirty /\ touched[x].data = cache[x].data
  BY <1>3, <1>7, <1>8, TouchType, TouchFields
<1> HIDE DEF touched
<1>13. Coherent(touched, disk, written, {})
  BY <1>3, <1>12, CoherentSame
<1>14. CASE /\ Evict(s) /\ cache' = [touched EXCEPT ![s] = e]
            /\ call' = [call EXCEPT !.block = call.block + k, !.count = call.count - k,
                                    !.buf = Deliver(disk, run)]
  <2>1. disk' = Flushed1(cache, disk, s)
    BY <1>2, <1>7, <1>14, EvictEffect DEF Setting
  <2>2. Flushed1(cache, disk, s) = Flushed1(touched, disk, s)
    BY <1>7, <1>12 DEF Flushed1, Dirty
  <2>3. \A t \in Slots : ~(cache[t].in_use /\ cache[t].block = last)
    BY <1>6, <1>9, MissNoSlot
  <2>4. \A t \in Slots : ~(touched[t].in_use /\ touched[t].block = e.block)
    BY <1>11, <1>12, <2>3
  <2>5. disk'[last] = written[last]
    BY <1>7, <1>9, <1>10, <2>1, <2>3 DEF Flushed1, Dirty
  <2>6. Coherent([touched EXCEPT ![s] = e], disk', written, {} \ {e.block})
    <3>1. disk' = Flushed1(touched, disk, s)
      BY <2>1, <2>2
    <3>2. e.data = written[e.block] /\ disk'[e.block] = written[e.block]
      BY <1>9, <1>10, <1>11, <2>5
    <3> QED BY <1>7, <1>11, <1>12, <1>13, <2>4, <3>1, <3>2, CoherentStore
  <2>7. Coherent(cache', disk', written, {})
    BY <1>14, <2>6
  <2>8. /\ call'.op = "read" /\ call'.then = "read" /\ call'.block = call.block + k
        /\ call'.buf = Deliver(disk, run)
    BY <1>1, <1>3, <1>14 DEF Calls
  <2>9. \A x \in DOMAIN call'.buf : call'.buf[x] = written[x]
    BY <1>3, <1>10, <2>8, DeliverCurrent
  <2>10. call'.block \in Nat
    BY <1>3, <1>9, <2>8
  <2> QED BY <1>5, <2>7, <2>8, <2>9, <2>10, GoodPlain
<1>15. CASE NoRawWrite /\ cache' = touched /\ Return("read")
  <2>1. /\ call'.op = "return" /\ call'.then = "read" /\ call'.block \in Nat
        /\ \A x \in DOMAIN call'.buf : call'.buf[x] = written[x]
    BY <1>1, <1>2, <1>3, <1>15, ReturnFields
  <2>2. disk' = disk
    BY <1>15 DEF NoRawWrite
  <2> QED BY <1>5, <1>13, <1>15, <2>1, <2>2, GoodPlain
<1> QED BY <1>4, <1>14, <1>15

\* What a write finds while no write error has been returned.
LEMMA WriteState ==
    ASSUME CacheInv, call.then = "write", ~Failed
    PROVE /\ Pending = Range(call.block, call.count) /\ Pending \in SUBSET Blocks
          /\ Coherent(cache, disk, written, Pending) /\ TypeInv /\ Good
          /\ \A b \in Pending : call.buf[b] = written[b]
          /\ cache \in [Slots -> Entries] /\ access_time \in Times /\ call \in Calls
          /\ call.block \in Nat /\ call.count \in Nat
<1>1. Pending = Range(call.block, call.count) /\ Good /\ TypeInv
  BY DEF Pending, CacheInv
<1>2. call.block \in Nat /\ call.count \in Nat /\ Pending \in SUBSET Blocks
  BY <1>1, CallBlocks
<1> QED BY <1>1, <1>2 DEF Good, TypeInv, TypeOK

\* Write-through mode has the device take the blocks first.
LEMMA GoodWriteThroughFirst ==
    ASSUME CacheInv, WriteThroughFirst, ~Failed'
    PROVE Good'
<1>1. /\ call.op = "raw" /\ call.then = "write" /\ call.err = "none" /\ call \in Calls
  BY DEF WriteThroughFirst, CacheInv, TypeInv, CallOK, TypeOK
<1>2. ~Failed
  BY <1>1 DEF Failed, WriteThroughFirst
<1>3. /\ Pending = Range(call.block, call.count) /\ Pending \in SUBSET Blocks
      /\ Coherent(cache, disk, written, Pending)
      /\ \A b \in Pending : call.buf[b] = written[b]
  BY <1>1, <1>2, WriteState
<1>4. PICK ok \in BOOLEAN :
        /\ RawWriteAll(ok)
        /\ call' = [call EXCEPT !.op = "write", !.err = IF ok THEN "none" ELSE "write"]
  BY DEF WriteThroughFirst, WriteOk
<1>5. /\ call'.op = "write" /\ call'.then = "write" /\ call'.block = call.block
      /\ call'.count = call.count /\ call'.buf = call.buf
      /\ call'.err = IF ok THEN "none" ELSE "write"
  BY <1>1, <1>4 DEF Calls
<1>6. ok
  BY <1>5 DEF Failed
<1>7. RawWrite(call.buf, Pending)
  BY <1>3, <1>4, <1>6 DEF RawWriteAll
<1>8. /\ \A b \in Blocks \ Pending : disk'[b] = disk[b]
      /\ \A b \in Pending : disk'[b] = written[b]
  BY <1>3, <1>7 DEF RawWrite
<1>9. Coherent(cache, disk', written, Pending)
  BY <1>3, <1>8, CoherentRaw
<1>10. Pending' = Pending /\ cache' = cache /\ written' = written
  BY <1>3, <1>5 DEF Pending, WriteThroughFirst
<1> QED BY <1>3, <1>5, <1>8, <1>9, <1>10 DEF Good

\* A block of a write goes to the cache.
LEMMA GoodWriteBlock ==
    ASSUME CacheInv, Setting, WriteBlock, ~Failed'
    PROVE Good'
<1> DEFINE b == call.block
           miss == Hits(cache, b) = {}
           s == IF miss THEN Eldest(cache) ELSE Found(cache, b)
           now == Advance(access_time, 1)
           e == Entry(b, call.buf[b], ~call.writethrough, now)
<1>1. call.op = "write" /\ call.then = "write" /\ call.count > 0 /\ call \in Calls
  BY DEF WriteBlock, CacheInv, TypeInv, CallOK, TypeOK
<1>2. /\ call'.op = "write" /\ call'.then = "write" /\ call'.block = call.block + 1
      /\ call'.count = call.count - 1 /\ call'.buf = call.buf /\ call'.err = call.err
      /\ call'.writethrough = call.writethrough
  BY <1>1 DEF WriteBlock, Calls
<1>3. ~Failed
  BY <1>2 DEF Failed, WriteBlock
<1>4. /\ Pending = Range(call.block, call.count) /\ Pending \in SUBSET Blocks
      /\ Coherent(cache, disk, written, Pending) /\ TypeInv /\ Good
      /\ \A x \in Pending : call.buf[x] = written[x]
      /\ cache \in [Slots -> Entries] /\ access_time \in Times
      /\ call.block \in Nat /\ call.count \in Nat
  BY <1>1, <1>3, WriteState
<1>5. b \in Pending /\ Pending' = Pending \ {b}
  BY <1>1, <1>2, <1>4 DEF Pending, Range
<1>6. /\ IF miss THEN Evict(s) ELSE NoRawWrite
      /\ cache' = [cache EXCEPT ![s] = e] /\ written' = written
  BY DEF WriteBlock
<1>7. s \in Slots /\ (~miss => cache[s].block = b)
  BY <1>4, EldestSlot, FoundSlot
<1>8. \A x \in Slots : x # s => ~(cache[x].in_use /\ cache[x].block = b)
  <2>1. Unique(cache)
    BY DEF CacheInv, OneEntryPerBlock, Unique
  <2> QED BY <2>1, MissNoSlot, HitOneSlot
<1>9. /\ e \in Entries /\ e.block = b /\ e.in_use /\ e.data = written[b]
      /\ e.dirty = ~call.writethrough
  <2>1. now \in Times
    BY <1>4, AdvanceType
  <2>2. call.buf[b] \in Data
    BY <1>1, <1>4, <1>5, WriteData
  <2>3. e \in Entries
    BY <1>1, <1>4, <1>5, <2>1, <2>2, EntryType DEF Calls
  <2> QED BY <1>4, <1>5, <2>3 DEF Entry
<1>10. \A x \in Blocks \ {b} : disk'[x] = Flushed1(cache, disk, s)[x]
  <2>1. CASE miss
    BY <1>4, <1>6, <1>7, <2>1, EvictEffect DEF Setting
  <2>2. CASE ~miss
    BY <1>6, <1>7, <2>2 DEF NoRawWrite, Flushed1, Dirty
  <2> QED BY <2>1, <2>2
<1> HIDE DEF s, e
<1>11. call.writethrough => disk' = disk
  <2> SUFFICES ASSUME call.writethrough PROVE disk' = disk
    OBVIOUS
  <2>1. TRUE \in Modes
    BY <1>1 DEF CacheInv, ModeOK, Calls
  <2>2. FALSE \notin Modes
    BY <2>1 DEF Setting
  <2>3. \A x \in Slots : ~(cache[x].in_use /\ cache[x].dirty)
    BY <2>2 DEF CacheInv, ModeOK
  <2>4. Flushed1(cache, disk, s) = disk
    BY <1>4, <1>7, <2>3 DEF Flushed1, Dirty, TypeInv, TypeOK
  <2> QED BY <1>4, <1>6, <1>7, <2>4, EvictEffect DEF Setting, NoRawWrite
<1>12. call.writethrough => \A x \in Pending : disk'[x] = written[x]
  BY <1>1, <1>4, <1>11 DEF Good
<1>13. e.dirty \/ disk'[e.block] = written[e.block]
  BY <1>1, <1>5, <1>9, <1>12 DEF Calls
<1>14. Coherent([cache EXCEPT ![s] = e], disk', written, Pending \ {e.block})
  <2>1. e.data = written[e.block] /\ \A x \in Blocks \ {e.block} : disk'[x] = Flushed1(cache, disk, s)[x]
    BY <1>9, <1>10
  <2>2. \A x \in Slots : x # s => ~(cache[x].in_use /\ cache[x].block = e.block)
    BY <1>8, <1>9
  <2>3. /\ cache \in [Slots -> Entries] /\ Coherent(cache, disk, written, Pending)
        /\ s \in Slots /\ e \in Entries /\ e.in_use
    BY <1>4, <1>7, <1>9
  <2> QED BY <1>13, <2>1, <2>2, <2>3, CoherentStore, Zenon
<1>15. Coherent(cache', disk', written', Pending')
  BY <1>5, <1>6, <1>9, <1>14
<1>16. \A x \in Pending' : call'.buf[x] = written'[x]
  BY <1>2, <1>4, <1>5, <1>6
<1>17. call'.writethrough => \A x \in Pending' : disk'[x] = written'[x]
  BY <1>2, <1>5, <1>6, <1>12
<1> QED BY <1>2, <1>15, <1>16, <1>17 DEF Good

\* One slot of flush_cached_blocks.
LEMMA GoodFlushSlot ==
    ASSUME CacheInv, FlushSlot, ~Failed'
    PROVE Good'
<1> DEFINE i == call.i
           e == cache[i]
           w == e.in_use /\ e.dirty
           f == [b \in {e.block} |-> e.data]
<1>1. /\ call.op = "flush" /\ i \in Slots /\ call \in Calls /\ TypeInv
      /\ cache \in [Slots -> Entries] /\ disk \in [Blocks -> Data]
  BY DEF FlushSlot, CacheInv, TypeInv, TypeOK
<1>2. PICK ok \in BOOLEAN :
        /\ IF w /\ ok THEN RawWrite(f, {e.block}) ELSE NoRawWrite
        /\ cache' = [cache EXCEPT ![i] =
               IF Invalidate THEN Empty ELSE [e EXCEPT !.dirty = @ /\ ~(w /\ ok)]]
        /\ call' = [call EXCEPT !.i = i + 1, !.err = IF w /\ ~ok THEN "write" ELSE call.err]
  BY DEF FlushSlot, WriteOk
<1>3. /\ call'.op = "flush" /\ call'.then = call.then /\ call'.block = call.block
      /\ call'.count = call.count /\ call'.buf = call.buf /\ call'.i = i + 1
      /\ call'.err = IF w /\ ~ok THEN "write" ELSE call.err
  BY <1>1, <1>2 DEF Calls
<1>4. w => ok
  BY <1>3 DEF Failed
<1>5. ~Failed
  BY <1>3, <1>4 DEF Failed, FlushSlot
<1>6. Good
  BY <1>5 DEF CacheInv
<1>7. disk' = Flushed1(cache, disk, i)
  <2>1. CASE w
    BY <1>2, <1>4, <2>1 DEF RawWrite, Flushed1, Dirty
  <2>2. CASE ~w
    BY <1>1, <1>2, <2>2 DEF NoRawWrite, Flushed1, Dirty
  <2> QED BY <2>1, <2>2
<1>8. \A t \in Slots : t # i => cache'[t] = cache[t]
  BY <1>1, <1>2
<1>9. /\ cache'[i].in_use => /\ e.in_use /\ ~cache'[i].dirty /\ call.then # "write"
                             /\ cache'[i].block = e.block /\ cache'[i].data = e.data
  <2>1. CASE Invalidate
    BY <1>1, <1>2, <2>1 DEF Empty
  <2>2. CASE ~Invalidate
    <3> DEFINE d == e.dirty /\ ~(w /\ ok)
               left == [e EXCEPT !.dirty = d]
    <3>1. cache'[i] = left
      BY <1>1, <1>2, <2>2
    <3>2. /\ left.in_use = e.in_use /\ left.block = e.block /\ left.data = e.data
          /\ left.dirty = d
      BY <1>1 DEF Entries
    <3>3. e.in_use => ~d
      BY <1>4
    <3> QED BY <2>2, <3>1, <3>2, <3>3 DEF Invalidate
  <2> QED BY <2>1, <2>2
<1>10. written' = written /\ Pending' = Pending
  BY <1>3 DEF Pending, FlushSlot
<1>11. Coherent(cache', disk', written', Pending')
  <2>1. Coherent(cache, disk, written, Pending)
    BY <1>6 DEF Good
  <2> HIDE DEF i
  <2>2. Coherent(cache', Flushed1(cache, disk, i), written, Pending)
    BY <1>1, <1>8, <1>9, <2>1, CoherentClean
  <2> QED BY <1>7, <1>10, <2>2
<1>12. \A s \in Slots : s < call'.i =>
          ~cache'[s].in_use \/ (~cache'[s].dirty /\ call'.then # "write")
  <2> SUFFICES ASSUME NEW s \in Slots, s < i + 1
               PROVE ~cache'[s].in_use \/ (~cache'[s].dirty /\ call.then # "write")
    BY <1>3
  <2>1. CASE s = i
    BY <1>9, <2>1
  <2>2. CASE s # i
    <3>1. s < i
      BY <1>1, <2>2, UnixIOConstants DEF Slots
    <3> QED BY <1>1, <1>6, <1>8, <2>2, <3>1 DEF Good
  <2> QED BY <2>1, <2>2
<1>13. \A b \in Pending' : call'.buf[b] = written'[b]
  BY <1>3, <1>6, <1>10 DEF Good
<1>14. call'.then = "read" => \A b \in DOMAIN call'.buf : call'.buf[b] = written'[b]
  BY <1>3, <1>6, <1>10 DEF Good
<1> QED BY <1>3, <1>11, <1>12, <1>13, <1>14 DEF Good

\* At the end of the flush loop nothing is dirty, and the cache is empty when a
\* direct write follows.
LEMMA AllFlushed ==
    ASSUME CacheInv, ~Failed, call.op = "flush", call.i = CacheSize
    PROVE /\ Good /\ TypeInv
          /\ \A s \in Slots : ~cache[s].in_use \/ ~cache[s].dirty
          /\ call.then = "write" => \A s \in Slots : ~cache[s].in_use
          /\ call.then # "write" => \A b \in Blocks : disk[b] = written[b]
<1>1. Good /\ TypeInv
  BY DEF CacheInv
<1>2. \A s \in Slots : s < call.i
  BY UnixIOConstants DEF Slots
<1>3. \A s \in Slots : ~cache[s].in_use \/ (~cache[s].dirty /\ call.then # "write")
  BY <1>1, <1>2 DEF Good
<1>4. ASSUME call.then # "write" PROVE \A b \in Blocks : disk[b] = written[b]
  <2>1. Coherent(cache, disk, written, {})
    BY <1>1, <1>4 DEF Good, Pending
  <2> QED BY <1>3, <2>1, CleanDisk
<1> QED BY <1>1, <1>3, <1>4

\* What follows the flush loop.
LEMMA GoodAfterFlush ==
    ASSUME CacheInv, FlushFailed \/ DirectRead \/ DirectWrite \/ Fsync \/ FreeCache, ~Failed'
    PROVE Good'
<1>1. call \in Calls /\ TypeInv /\ call.op = "flush" /\ call.i = CacheSize
  BY DEF CacheInv, TypeInv, TypeOK, FlushFailed, DirectRead, DirectWrite, Fsync, FreeCache, Flushed
<1>2. call.err \in {"none", "write"} /\ call.block \in Nat /\ call.count \in Nat
  BY <1>1, CallBlocks DEF TypeInv, CallOK, Calls
<1>3. reported' = reported
  BY DEF FlushFailed, DirectRead, DirectWrite, Fsync, FreeCache
<1>4. CASE FlushFailed
  <2>1. call'.err = "write"
    BY <1>1, <1>2, <1>4, ReturnFields DEF FlushFailed
  <2> QED BY <2>1 DEF Failed
<1>5. CASE DirectRead
  <2>1. call.then = "read" /\ call.err = "none"
    BY <1>5 DEF DirectRead, Flushed
  <2>2. ~Failed
    BY <1>3, <2>1 DEF Failed
  <2>3. Good /\ \A b \in Blocks : disk[b] = written[b]
    BY <1>1, <2>1, <2>2, AllFlushed
  <2>4. /\ Coherent(cache, disk, written, {})
        /\ \A b \in DOMAIN call.buf : call.buf[b] = written[b]
    BY <2>1, <2>3 DEF Good, Pending
  <2>5. UNCHANGED <<cache, disk, written>>
    BY <1>5 DEF DirectRead
  <2>6. /\ call'.op = "return" /\ call'.then = "read" /\ call'.block = call.block
        /\ call'.buf \in {call.buf, Deliver(disk, Range(call.block, call.count))}
    BY <1>1, <1>5, <2>1, ReturnFields DEF DirectRead, Calls
  <2>7. Range(call.block, call.count) \in SUBSET Blocks
    BY <1>1, CallBlocks
  <2>8. \A b \in DOMAIN call'.buf : call'.buf[b] = written[b]
    BY <2>3, <2>4, <2>6, <2>7, DeliverCurrent
  <2> QED BY <1>2, <2>4, <2>5, <2>6, <2>8, GoodPlain
<1>6. CASE DirectWrite
  <2>1. call.then = "write" /\ call.err = "none"
    BY <1>6 DEF DirectWrite, Flushed
  <2>2. ~Failed
    BY <1>3, <2>1 DEF Failed
  <2>3. \A s \in Slots : ~cache[s].in_use
    BY <1>1, <2>1, <2>2, AllFlushed
  <2>4. /\ Pending = Range(call.block, call.count) /\ Pending \in SUBSET Blocks
        /\ Coherent(cache, disk, written, Pending)
        /\ \A b \in Pending : call.buf[b] = written[b]
    BY <2>1, <2>2, WriteState
  <2>5. PICK ok \in BOOLEAN : RawWriteAll(ok) /\ Return(IF ok THEN "none" ELSE "write")
    BY <1>6 DEF DirectWrite, WriteOk
  <2>6. /\ call'.op = "return" /\ call'.then = "write" /\ call'.count = 0
        /\ call'.block = call.block /\ call'.err = IF ok THEN "none" ELSE "write"
    BY <1>1, <2>1, <2>5, ReturnFields
  <2>7. RawWrite(call.buf, Pending)
    BY <2>4, <2>5, <2>6 DEF RawWriteAll, Failed
  <2>8. \A b \in Blocks \ Pending : disk[b] = written[b]
    BY <2>3, <2>4 DEF Coherent, Dirty
  <2>9. \A b \in Blocks : disk'[b] = written[b]
    BY <2>4, <2>7, <2>8 DEF RawWrite
  <2>10. Coherent(cache, disk', written, {})
    BY <2>3, <2>9 DEF Coherent
  <2>11. UNCHANGED <<cache, written>>
    BY <1>6 DEF DirectWrite
  <2> QED BY <1>2, <2>6, <2>10, <2>11, GoodPlain
<1>7. CASE Fsync
  <2>1. call.then = "sync" /\ call.err = "none"
    BY <1>7 DEF Fsync, Flushed
  <2>2. ~Failed
    BY <1>3, <2>1 DEF Failed
  <2>3. Good /\ \A b \in Blocks : disk[b] = written[b]
    BY <1>1, <2>1, <2>2, AllFlushed
  <2>4. PICK ok \in BOOLEAN :
          /\ volatile' = IF ok THEN [b \in Blocks |-> {disk[b]}] ELSE volatile
          /\ Return(IF ok THEN "none" ELSE "write")
    BY <1>7 DEF Fsync, WriteOk
  <2>5. /\ call'.op = "return" /\ call'.then = "sync"
        /\ call'.err = IF ok THEN "none" ELSE "write"
    BY <1>1, <2>1, <2>4, ReturnFields
  <2>6. ok
    BY <2>5 DEF Failed
  <2>7. UNCHANGED <<cache, disk, written>>
    BY <1>7 DEF Fsync
  <2>8. \A b \in Blocks : volatile'[b] = {written'[b]}
    BY <2>3, <2>4, <2>6, <2>7
  <2>9. Pending' = {} /\ Coherent(cache', disk', written', {})
    BY <2>1, <2>3, <2>5, <2>7 DEF Pending, Good
  <2> QED BY <2>5, <2>8, <2>9 DEF Good
<1>8. CASE FreeCache
  <2>1. call.then \in {"blksize", "close"} /\ Return(call.err)
    BY <1>8 DEF FreeCache, Flushed
  <2>2. /\ call'.op = "return" /\ call'.then = call.then /\ call'.err = call.err
        /\ call'.block = call.block
    BY <1>1, <2>1, ReturnFields
  <2>3. ~Failed
    BY <1>3, <2>2 DEF Failed
  <2>4. \A b \in Blocks : disk[b] = written[b]
    BY <1>1, <2>1, <2>3, AllFlushed
  <2>5. Coherent(cache', disk, written, {})
    BY <1>8, <2>4, EmptyCoherent DEF FreeCache
  <2>6. UNCHANGED <<disk, written>>
    BY <1>8 DEF FreeCache
  <2> QED BY <1>2, <2>1, <2>2, <2>5, <2>6, GoodPlain
<1> QED BY <1>4, <1>5, <1>6, <1>7, <1>8

\* A call returns, or the machine crashes.
LEMMA GoodEnd ==
    ASSUME CacheInv, Finish \/ Crash, ~Failed'
    PROVE Good'
<1>1. call' = Idle
  BY DEF Finish, Crash
<1>2. call'.then = "none" /\ call'.block \in Nat /\ call'.op = "idle"
  BY <1>1 DEF Idle
<1>3. Coherent(cache', disk', written', {})
  <2>1. CASE Finish
    <3>1. ~Failed
      BY <2>1 DEF Finish, Failed
    <3>2. Good /\ call \in Calls /\ CallOK
      BY <3>1 DEF CacheInv, TypeInv, TypeOK
    <3>3. call.count = 0 /\ call.block \in Nat
      BY <2>1, <3>2, UnixIOConstants DEF Finish, CallOK, Calls
    <3>4. Pending = {}
      BY <3>3 DEF Pending, Range
    <3> QED BY <2>1, <3>2, <3>4 DEF Good, Finish
  <2>2. CASE Crash
    BY <2>2, EmptyCoherent DEF Crash
  <2> QED BY <2>1, <2>2
<1> QED BY <1>2, <1>3, GoodPlain

\* Every step keeps the invariant.
LEMMA CacheInvStep == Setting /\ CacheInv /\ [Next]_vars => CacheInv'
<1> SUFFICES ASSUME Setting, CacheInv, [Next]_vars PROVE CacheInv'
  OBVIOUS
<1>1. TypeInv' /\ OneEntryPerBlock' /\ ModeOK'
  BY TypeStep, OneEntryStep, ModeStep DEF CacheInv
<1>2. ASSUME ~Failed' PROVE Good'
  <2>1. CASE Serve
    BY <1>2, <2>1, GoodReadHit, GoodReadMissOne, GoodReadMissRun, GoodWriteThroughFirst,
       GoodWriteBlock, GoodFlushSlot, GoodAfterFlush, GoodEnd DEF Serve
  <2>2. CASE Crash
    BY <1>2, <2>2, GoodEnd
  <2>3. CASE UNCHANGED vars
    <3>1. Good
      BY <1>2, <2>3 DEF CacheInv, Failed, vars
    <3> QED BY <2>3, <3>1 DEF Good, Pending, vars
  <2> QED BY <1>2, <2>1, <2>2, <2>3, GoodCalls DEF Next
<1> QED BY <1>1, <1>2 DEF CacheInv

\* It holds initially.
LEMMA CacheInvInit == Init => CacheInv
<1> SUFFICES ASSUME Init PROVE CacheInv
  OBVIOUS
<1>1. TypeInv
  BY TypeInit
<1>2. Unique(cache)
  BY EmptyUnique DEF Init
<1>3. call.op = "idle" /\ call.then = "none"
  BY DEF Init, Idle
<1>4. ModeOK
  BY <1>3 DEF Init, ModeOK, Empty
<1>5. Coherent(cache, disk, written, {}) /\ Pending = {}
  BY <1>3, EmptyCoherent DEF Init, Pending
<1>6. Good
  BY <1>3, <1>5 DEF Good
<1> QED BY <1>1, <1>2, <1>4, <1>6 DEF CacheInv, OneEntryPerBlock, Unique

\* As long as no write error has been returned, a read returns for every block
\* what was last written to it, whether the block is cached, is read from the
\* device, or is evicted by this very read (unix_read_blk64).
THEOREM ReadsLastWriteHolds == ASSUME Setting PROVE Spec => []ReadsLastWrite
<1>1. CacheInv => ReadsLastWrite
  BY DEF CacheInv, Good, ReadsLastWrite
<1>2. CacheInv /\ [Next]_vars => CacheInv'
  BY CacheInvStep
<1> QED BY <1>1, <1>2, CacheInvInit, PTL DEF Spec

\* As long as no write error has been returned, whatever was written when
\* unix_flush returns survives a crash.
THEOREM FlushMakesDurableHolds == ASSUME Setting PROVE Spec => []FlushMakesDurable
<1>1. CacheInv => FlushMakesDurable
  BY DEF CacheInv, Good, FlushMakesDurable
<1>2. CacheInv /\ [Next]_vars => CacheInv'
  BY CacheInvStep
<1> QED BY <1>1, <1>2, CacheInvInit, PTL DEF Spec
================================================================================
