-------------------------------- MODULE UnixIO --------------------------------
(**************************************************************************)
(* The Unix I/O manager of libext2fs (lib/ext2fs/unix_io.c): a write-back *)
(* cache of CACHE_SIZE blocks between the library and the device.         *)
(*                                                                        *)
(* One call is served at a time.  Its loops are steps, each with at most  *)
(* one write to the device, so that a crash can fall between any two.  A  *)
(* write reaches the device at once (disk) but is only certain to survive *)
(* a crash after fsync; volatile holds the values a crash may leave.      *)
(**************************************************************************)
EXTENDS Integers

CONSTANTS NBlocks,          \* blocks of the device
          Data,             \* the values a block can hold
          Zero,             \* the all-zeroes block
          CacheSize,        \* CACHE_SIZE
          DirectSize,       \* WRITE_DIRECT_SIZE = READ_DIRECT_SIZE
          TimeMod,          \* 2^w, w the width of the access_time counter
          Modes,            \* the values CHANNEL_FLAGS_WRITETHROUGH takes
          ReadMayFail,      \* a device read may fail
          WriteMayFail,     \* a device write or fsync that is reported may fail
          EvictionMayFail   \* the device write of reuse_cache may fail

Blocks == 0 .. NBlocks - 1
Slots == 0 .. CacheSize - 1
Counts == 1 .. NBlocks

ASSUME UnixIOConstants ==
    /\ NBlocks \in Nat \ {0}
    /\ CacheSize \in Nat \ {0}
    /\ DirectSize \in Nat
    /\ TimeMod \in Nat \ {0}
    /\ Zero \in Data
    /\ Modes \in (SUBSET BOOLEAN) \ {{}}
    /\ {ReadMayFail, WriteMayFail, EvictionMayFail} \subseteq BOOLEAN

VARIABLES disk,         \* block -> what the device returns for it
          volatile,     \* block -> the values a crash may leave in it
          cache,        \* data->cache: slot -> struct unix_cache
          access_time,  \* data->access_time
          call,         \* the call being served
          written,      \* history: block -> the value its last writer gave it
          reported      \* history: a write error has been returned

vars == <<disk, volatile, cache, access_time, call, written, reported>>

\* A call: the loop it is in, what follows the flush loop, its arguments (buf
\* holds the blocks to write, or the blocks read so far), the flush loop's
\* index, the write-through flag it read and the error to return.
NoBuf == [b \in {} |-> Zero]
Idle == [op |-> "idle", then |-> "none", block |-> 0, count |-> 0,
         buf |-> NoBuf, i |-> 0, writethrough |-> FALSE, err |-> "none"]
NoCall == call.op = "idle"

\* A slot that is not in use: none of its other fields is read before
\* reuse_cache has set them, so they are all reset.
Empty == [block |-> 0, data |-> Zero, dirty |-> FALSE, in_use |-> FALSE,
          time |-> 0]

Init == /\ disk \in [Blocks -> Data]
        /\ volatile = [b \in Blocks |-> {disk[b]}]
        /\ cache = [s \in Slots |-> Empty]
        /\ access_time = 0
        /\ call = Idle
        /\ written = disk
        /\ reported = FALSE

-----------------------------------------------------------------------------
(* find_cached_block, reuse_cache *)

\* Faulty variant: the counter does not wrap.
AdvanceUnbounded(t, k) == t + k

\* ++data->access_time, k times: a signed counter that wraps around.
Advance(t, k) ==
    LET half == TimeMod \div 2 IN ((t + k + half) % TimeMod) - half

Hits(c, b) == {s \in Slots : c[s].in_use /\ c[s].block = b}
Lowest(S) == CHOOSE s \in S : \A t \in S : s =< t
Found(c, b) == Lowest(Hits(c, b))

Unused(c) == {s \in Slots : ~c[s].in_use}
Oldest(c) == {s \in Slots : \A t \in Slots : c[s].time =< c[t].time}
Eldest(c) == Lowest(IF Unused(c) # {} THEN Unused(c) ELSE Oldest(c))

\* The device takes the blocks of buf that are in S.
RawWrite(buf, S) ==
    /\ disk' = [b \in Blocks |-> IF b \in S THEN buf[b] ELSE disk[b]]
    /\ volatile' = [b \in Blocks |-> IF b \in S THEN volatile[b] \cup {buf[b]}
                                                ELSE volatile[b]]
NoRawWrite == UNCHANGED <<disk, volatile>>

\* reuse_cache writes a dirty victim out and ignores the outcome.
EvictOk == IF EvictionMayFail THEN BOOLEAN ELSE {TRUE}
Evict(s) ==
    \E ok \in EvictOk :
      IF cache[s].dirty /\ cache[s].in_use /\ ok
        THEN RawWrite([b \in {cache[s].block} |-> cache[s].data], {cache[s].block})
        ELSE NoRawWrite

\* Faulty variant: the entry is not marked dirty.
EntryNeverDirty(b, v, d, t) ==
    [block |-> b, data |-> v, dirty |-> FALSE, in_use |-> TRUE, time |-> t]

Entry(b, v, d, t) ==
    [block |-> b, data |-> v, dirty |-> d, in_use |-> TRUE, time |-> t]

-----------------------------------------------------------------------------
(* unix_read_blk64 *)

Range(b, n) == b .. b + n - 1
Fits(b, n) == b + n =< NBlocks
Start(op, then, b, n, buf) ==
    /\ NoCall
    /\ call' = [Idle EXCEPT !.op = op, !.then = then, !.block = b, !.count = n,
                            !.buf = buf, !.writethrough = (op = "raw")]
Return(err) == call' = [call EXCEPT !.op = "return", !.count = 0, !.err = err]

\* Faulty variant: a read that bypasses the cache does not flush it first.
unix_read_blk64_no_flush(b, n, odd) ==
    /\ Fits(b, n)
    /\ NoCall
    /\ call' = [Idle EXCEPT !.op = IF odd \/ n > DirectSize THEN "flush" ELSE "read",
                            !.then = "read", !.block = b, !.count = n, !.i = CacheSize]
    /\ UNCHANGED <<disk, volatile, cache, access_time, written, reported>>

\* odd: count < 0, a size in bytes.
unix_read_blk64(b, n, odd) ==
    /\ Fits(b, n)
    /\ IF odd \/ n > DirectSize THEN Start("flush", "read", b, n, NoBuf)
                                ELSE Start("read", "read", b, n, NoBuf)
    /\ UNCHANGED <<disk, volatile, cache, access_time, written, reported>>

\* The blocks of S are copied to the caller's buffer, from f.
Deliver(f, S) ==
    [b \in DOMAIN call.buf \cup S |-> IF b \in S THEN f[b] ELSE call.buf[b]]

ReadHit ==
    /\ call.op = "read" /\ call.count > 0
    /\ Hits(cache, call.block) # {}
    /\ LET s == Found(cache, call.block)
           now == Advance(access_time, 1)
       IN /\ cache' = [cache EXCEPT ![s].time = now]
          /\ access_time' = now
          /\ call' = [call EXCEPT !.block = @ + 1, !.count = @ - 1,
                        !.buf = Deliver([b \in {call.block} |-> cache[s].data],
                                        {call.block})]
    /\ NoRawWrite
    /\ UNCHANGED <<written, reported>>

ReadOk == IF ReadMayFail THEN BOOLEAN ELSE {TRUE}

\* The last block: the slot is reused first, and read into.
ReadMissOne ==
    /\ call.op = "read" /\ call.count = 1
    /\ Hits(cache, call.block) = {}
    /\ \E ok \in ReadOk :
         LET s == Eldest(cache)
             now == Advance(access_time, 1)
         IN /\ Evict(s)
            /\ cache' = [cache EXCEPT ![s] =
                  IF ok THEN Entry(call.block, disk[call.block], FALSE, now)
                        ELSE Empty]
            /\ access_time' = now
            /\ IF ok THEN call' = [call EXCEPT !.op = "return", !.count = 0,
                                     !.buf = Deliver(disk, {call.block})]
                     ELSE Return("read")
    /\ UNCHANGED <<written, reported>>

\* How many blocks from call.block on are not cached.
RunLength == CHOOSE k \in 1 .. call.count :
                /\ \A b \in Range(call.block, k) : Hits(cache, b) = {}
                /\ k < call.count => Hits(cache, call.block + k) # {}

\* Several blocks: one device read for the whole run, then the blocks go to
\* the cache.  No lookup of the run changes the cache, so all of them chose
\* the same slot: it ends up holding the last block of the run.  The lookup
\* that ended the run touches the block it found.
ReadMissRun ==
    /\ call.op = "read" /\ call.count > 1
    /\ Hits(cache, call.block) = {}
    /\ \E ok \in ReadOk :
         LET k == RunLength
             s == Eldest(cache)
             hit == k < call.count
             t0 == IF hit THEN Advance(access_time, 1) ELSE access_time
             touched == IF hit THEN [cache EXCEPT
                                       ![Found(cache, call.block + k)].time = t0]
                               ELSE cache
             last == call.block + k - 1
         IN IF ok
            THEN /\ Evict(s)
                 /\ access_time' = Advance(t0, k)
                 /\ cache' = [touched EXCEPT ![s] =
                                Entry(last, disk[last], FALSE, Advance(t0, k))]
                 /\ call' = [call EXCEPT !.block = @ + k, !.count = @ - k,
                              !.buf = Deliver(disk, Range(call.block, k))]
            ELSE /\ NoRawWrite
                 /\ access_time' = t0
                 /\ cache' = touched
                 /\ Return("read")
    /\ UNCHANGED <<written, reported>>

-----------------------------------------------------------------------------
(* unix_write_blk64, unix_write_byte *)

Bufs(b, n) == [Range(b, n) -> Data]
Overwrite(f, g) == [b \in Blocks |-> IF b \in DOMAIN g THEN g[b] ELSE f[b]]
WriteOk == IF WriteMayFail THEN BOOLEAN ELSE {TRUE}

unix_write_blk64(b, n, odd) ==
    /\ Fits(b, n)
    /\ \E buf \in Bufs(b, n) :
         /\ written' = Overwrite(written, buf)
         /\ IF odd \/ n > DirectSize
              THEN Start("flush", "write", b, n, buf)
              ELSE \E writethrough \in Modes :
                     Start(IF writethrough THEN "raw" ELSE "write", "write", b, n, buf)
    /\ UNCHANGED <<disk, volatile, cache, access_time, reported>>

\* The blocks a byte range touches, as they read once it is written.
unix_write_byte(b, n) ==
    /\ Fits(b, n)
    /\ \E buf \in Bufs(b, n) :
         /\ written' = Overwrite(written, buf)
         /\ Start("flush", "write", b, n, buf)
    /\ UNCHANGED <<disk, volatile, cache, access_time, reported>>

\* raw_write_blk of the whole buffer; a failure leaves a prefix of it written.
RawWriteAll(ok) ==
    \E k \in (IF ok THEN {call.count} ELSE 0 .. call.count - 1) :
      RawWrite(call.buf, Range(call.block, k))

\* Write-through mode writes first; the blocks go to the cache even when that
\* fails, and the error is returned after.
WriteThroughFirst ==
    /\ call.op = "raw"
    /\ \E ok \in WriteOk :
         /\ RawWriteAll(ok)
         /\ call' = [call EXCEPT !.op = "write",
                                 !.err = IF ok THEN "none" ELSE "write"]
    /\ UNCHANGED <<cache, access_time, written, reported>>

\* Faulty variant: a block is entered without looking for it first.
WriteBlockNoLookup ==
    /\ call.op = "write" /\ call.count > 0
    /\ LET s == Eldest(cache)
           now == Advance(access_time, 1)
       IN /\ Evict(s)
          /\ cache' = [cache EXCEPT ![s] = Entry(call.block, call.buf[call.block],
                                                ~call.writethrough, now)]
          /\ access_time' = now
          /\ call' = [call EXCEPT !.block = @ + 1, !.count = @ - 1]
    /\ UNCHANGED <<written, reported>>

WriteBlock ==
    /\ call.op = "write" /\ call.count > 0
    /\ LET b == call.block
           miss == Hits(cache, b) = {}
           s == IF miss THEN Eldest(cache) ELSE Found(cache, b)
           now == Advance(access_time, 1)
       IN /\ IF miss THEN Evict(s) ELSE NoRawWrite
          /\ cache' = [cache EXCEPT ![s] =
                         Entry(b, call.buf[b], ~call.writethrough, now)]
          /\ access_time' = now
          /\ call' = [call EXCEPT !.block = @ + 1, !.count = @ - 1]
    /\ UNCHANGED <<written, reported>>

-----------------------------------------------------------------------------
(* flush_cached_blocks, and the calls that start with it *)

unix_flush == /\ Start("flush", "sync", 0, 0, NoBuf)
              /\ UNCHANGED <<disk, volatile, cache, access_time, written, reported>>

unix_set_blksize == /\ Start("flush", "blksize", 0, 0, NoBuf)
                    /\ UNCHANGED <<disk, volatile, cache, access_time, written, reported>>

unix_close == /\ Start("flush", "close", 0, 0, NoBuf)
              /\ UNCHANGED <<disk, volatile, cache, access_time, written, reported>>

\* The flush of a direct write also empties the cache: a slot is given up
\* before its block is written, and stays given up when the write fails.
Invalidate == call.then = "write"

\* Faulty variant: the flush loop does not move on past an unused slot.
FlushSlotStays ==
    /\ call.op = "flush" /\ call.i \in Slots
    /\ LET e == cache[call.i]
           w == e.in_use /\ e.dirty
       IN \E ok \in WriteOk :
            /\ IF w /\ ok THEN RawWrite([b \in {e.block} |-> e.data], {e.block})
                          ELSE NoRawWrite
            /\ cache' = [cache EXCEPT ![call.i] =
                  IF Invalidate THEN Empty ELSE [e EXCEPT !.dirty = @ /\ ~(w /\ ok)]]
            /\ call' = [call EXCEPT !.i = IF e.in_use THEN @ + 1 ELSE @,
                          !.err = IF w /\ ~ok THEN "write" ELSE @]
    /\ UNCHANGED <<access_time, written, reported>>

FlushSlot ==
    /\ call.op = "flush" /\ call.i \in Slots
    /\ LET e == cache[call.i]
           w == e.in_use /\ e.dirty
       IN \E ok \in WriteOk :
            /\ IF w /\ ok THEN RawWrite([b \in {e.block} |-> e.data], {e.block})
                          ELSE NoRawWrite
            /\ cache' = [cache EXCEPT ![call.i] =
                  IF Invalidate THEN Empty ELSE [e EXCEPT !.dirty = @ /\ ~(w /\ ok)]]
            /\ call' = [call EXCEPT !.i = @ + 1,
                          !.err = IF w /\ ~ok THEN "write" ELSE @]
    /\ UNCHANGED <<access_time, written, reported>>

Flushed(then) == /\ call.op = "flush" /\ call.i = CacheSize
                 /\ call.then = then
FlushFailed == /\ call.op = "flush" /\ call.i = CacheSize
               /\ call.then # "close" /\ call.err # "none"
               /\ Return(call.err)
               /\ UNCHANGED <<disk, volatile, cache, access_time, written, reported>>

\* The calls below go on after a flush without error.
DirectRead == /\ Flushed("read") /\ call.err = "none"
              /\ \E ok \in ReadOk :
                   IF ok THEN call' = [call EXCEPT !.op = "return", !.count = 0,
                                !.buf = Deliver(disk, Range(call.block, call.count))]
                         ELSE Return("read")
              /\ UNCHANGED <<disk, volatile, cache, access_time, written, reported>>

DirectWrite == /\ Flushed("write") /\ call.err = "none"
               /\ \E ok \in WriteOk :
                    /\ RawWriteAll(ok)
                    /\ Return(IF ok THEN "none" ELSE "write")
               /\ UNCHANGED <<cache, access_time, written, reported>>

\* Faulty variant: the flush returns without fsync.
FsyncForgotten == /\ Flushed("sync") /\ call.err = "none"
                  /\ Return("none")
                  /\ UNCHANGED <<disk, volatile, cache, access_time, written, reported>>

Fsync == /\ Flushed("sync") /\ call.err = "none"
         /\ \E ok \in WriteOk :
              /\ volatile' = IF ok THEN [b \in Blocks |-> {disk[b]}] ELSE volatile
              /\ Return(IF ok THEN "none" ELSE "write")
         /\ UNCHANGED <<disk, cache, access_time, written, reported>>

\* free_cache and alloc_cache; unix_close frees the cache whatever the flush
\* returned.
FreeCache == /\ \/ Flushed("blksize") /\ call.err = "none"
                \/ Flushed("close")
             /\ cache' = [s \in Slots |-> Empty]
             /\ access_time' = 0
             /\ Return(call.err)
             /\ UNCHANGED <<disk, volatile, written, reported>>

\* The call returns call.err.
Finish == /\ \/ call.op \in {"read", "write"} /\ call.count = 0
             \/ call.op = "return"
          /\ call' = Idle
          /\ reported' = (reported \/ call.err = "write")
          /\ UNCHANGED <<disk, volatile, cache, access_time, written>>

-----------------------------------------------------------------------------
\* The process dies, or power fails, at any point; a new process opens the
\* device with an empty cache.
Crash == /\ disk' \in [Blocks -> Data]
         /\ \A b \in Blocks : disk'[b] \in volatile[b]
         /\ volatile' = [b \in Blocks |-> {disk'[b]}]
         /\ cache' = [s \in Slots |-> Empty]
         /\ access_time' = 0
         /\ call' = Idle
         /\ written' = disk'
         /\ reported' = FALSE

Serve == \/ ReadHit \/ ReadMissOne \/ ReadMissRun
         \/ WriteThroughFirst \/ WriteBlock
         \/ FlushSlot \/ FlushFailed \/ DirectRead \/ DirectWrite \/ Fsync
         \/ FreeCache \/ Finish

Next == \/ \E b \in Blocks, n \in Counts, odd \in BOOLEAN :
             unix_read_blk64(b, n, odd) \/ unix_write_blk64(b, n, odd)
        \/ \E b \in Blocks, n \in Counts : unix_write_byte(b, n)
        \/ unix_flush \/ unix_set_blksize \/ unix_close
        \/ Serve
        \/ Crash

Spec == Init /\ [][Next]_vars

\* A call that has been entered runs to its end: the process is not stopped
\* between two of its steps, a crash apart.
FairSpec == Spec /\ WF_vars(Serve)

-----------------------------------------------------------------------------
(* unix_zeroout acts on the device alone: the cache is neither flushed nor   *)
(* invalidated.                                                              *)

\* fallocate(FALLOC_FL_ZERO_RANGE) or PUNCH_HOLE: the range reads as zeroes.
unix_zeroout(b, n) ==
    /\ NoCall /\ Fits(b, n)
    /\ RawWrite([x \in Range(b, n) |-> Zero], Range(b, n))
    /\ written' = Overwrite(written, [x \in Range(b, n) |-> Zero])
    /\ UNCHANGED <<cache, access_time, call, reported>>

NextZeroout == \/ Next
               \/ \E b \in Blocks, n \in Counts : unix_zeroout(b, n)
SpecZeroout == Init /\ [][NextZeroout]_vars

-----------------------------------------------------------------------------
(* Properties *)

Times == -(TimeMod \div 2) .. TimeMod - (TimeMod \div 2) - 1
Buffers == UNION {[S -> Data] : S \in SUBSET Blocks}
Entries == [block : Blocks, data : Data, dirty : BOOLEAN, in_use : BOOLEAN, time : Times]
Calls == [op : {"idle", "read", "raw", "write", "flush", "return"},
          then : {"none", "read", "write", "sync", "blksize", "close"},
          block : 0 .. NBlocks, count : 0 .. NBlocks, buf : Buffers,
          i : 0 .. CacheSize, writethrough : BOOLEAN, err : {"none", "read", "write"}]

\* Every variable stays within its type; the access_time counter within its
\* width.
TypeOK == /\ disk \in [Blocks -> Data]
          /\ volatile \in [Blocks -> SUBSET Data]
          /\ cache \in [Slots -> Entries]
          /\ access_time \in Times
          /\ call \in Calls
          /\ written \in [Blocks -> Data]
          /\ reported \in BOOLEAN

\* Two cache entries never hold the same block: find_cached_block returns the
\* first, so a second one would be a second, diverging version.
OneEntryPerBlock ==
    \A s, t \in Slots :
      cache[s].in_use /\ cache[t].in_use /\ cache[s].block = cache[t].block
        => s = t

\* A write error has been returned, or will be when the present call returns.
Failed == reported \/ call.err = "write"

\* A read returns, for every block, the value its last writer gave it, wherever
\* that value is: in the cache, on the device, written out by an eviction of
\* this very read.
ReadsLastWrite ==
    ~Failed /\ call.then = "read" =>
      \A b \in DOMAIN call.buf : call.buf[b] = written[b]

\* A block that was last zeroed reads as zeroes ("libext2fs requires that reads
\* after ZERO_RANGE return zeroes", above __unix_zeroout).
ZeroedReadsAsZeroes ==
    ~Failed /\ call.then = "read" =>
      \A b \in DOMAIN call.buf : written[b] = Zero => call.buf[b] = Zero

\* When io_channel_flush returns success, every block the caller wrote survives
\* a crash ("Flush data buffers to disk.").
FlushMakesDurable ==
    ~Failed /\ call.op = "return" /\ call.then = "sync" =>
      \A b \in Blocks : volatile[b] = {written[b]}

\* Every call returns.
CallReturns == [](call.op # "idle" => <>(call.op = "idle"))

\* The cache and the device together behave as one block device.
Content == [b \in Blocks |-> IF Hits(cache, b) # {} THEN cache[Found(cache, b)].data
                                                   ELSE disk[b]]
Request == IF call.then = "write" /\ call.op # "idle" THEN call.buf ELSE NoBuf
Device == INSTANCE BlockDevice WITH
            content <- Content,
            survives <- [b \in Blocks |-> volatile[b] \cup {Content[b]}],
            req <- Request,
            failed <- Failed

\* unix_io implements the block device of BlockDevice.tla: a block changes only
\* when a write call asks for it, and to what it asks; a write call succeeds when
\* all its blocks are stored; what a crash loses is bounded by the last flush.
IsBlockDevice == Device!Spec
================================================================================
