------------------------------ MODULE UnixIOProofs ------------------------------
(*************************************************************************)
(* Proofs about UnixIO for every size of the device, of the cache and of *)
(* the access_time counter.                                              *)
(*************************************************************************)
EXTENDS UnixIO, WellFoundedInduction, TLAPS

-----------------------------------------------------------------------------
(* Least elements, and what find_cached_block returns *)

\* A non-empty set of natural numbers has a least element.
LEMMA LeastNatural ==
    ASSUME NEW S \in SUBSET Nat, S # {}
    PROVE \E x \in S : \A y \in S : x =< y
<1>1. \E x \in S : \A y \in S : ~(<<y, x>> \in OpToRel(<, Nat))
  BY NatLessThanWellFounded, WFMin, Zenon
<1>2. \A x, y \in Nat : <<y, x>> \in OpToRel(<, Nat) <=> y < x
  BY DEF OpToRel
<1>3. PICK x \in S : \A y \in S : ~(<<y, x>> \in OpToRel(<, Nat))
  BY <1>1
<1>4. \A y \in S : ~(y < x)
  BY <1>2, <1>3
<1>5. S \subseteq Nat
  OBVIOUS
<1> QED BY <1>4, <1>5

\* Lowest picks the least slot of a non-empty set of slots.
LEMMA LowestSlot ==
    ASSUME NEW S \in SUBSET Slots, S # {}
    PROVE Lowest(S) \in S
<1>1. S \subseteq Nat
  BY UnixIOConstants DEF Slots
<1>2. \E x \in S : \A y \in S : x =< y
  BY <1>1, LeastNatural
<1> QED BY <1>2 DEF Lowest

\* A lookup that hits returns a slot in use, with the block.
LEMMA FoundSlot ==
    ASSUME NEW c, NEW b, Hits(c, b) # {}
    PROVE /\ Found(c, b) \in Slots
          /\ c[Found(c, b)].in_use
          /\ c[Found(c, b)].block = b
<1>1. Hits(c, b) \in SUBSET Slots
  BY DEF Hits
<1>2. Found(c, b) \in Hits(c, b)
  BY <1>1, LowestSlot DEF Found
<1> QED BY <1>2 DEF Hits

\* A lookup that misses offers a slot for reuse: an unused one, or the oldest.
LEMMA EldestSlot ==
    ASSUME NEW c \in [Slots -> Entries]
    PROVE Eldest(c) \in Slots
<1>1. CASE Unused(c) # {}
  <2>1. Unused(c) \in SUBSET Slots
    BY DEF Unused
  <2> QED BY <1>1, <2>1, LowestSlot DEF Eldest
<1>2. CASE Unused(c) = {}
  <2> DEFINE shift == TimeMod \div 2
             T == {c[s].time + shift : s \in Slots}
  <2>1. /\ shift \in Int
        /\ \A s \in Slots : c[s].time \in Int /\ c[s].time + shift >= 0
    BY UnixIOConstants DEF Entries, Times
  <2>2. T \in SUBSET Nat
    BY <2>1
  <2>3. 0 \in Slots
    BY UnixIOConstants DEF Slots
  <2>4. T # {}
    BY <2>3
  <2> HIDE DEF T
  <2>5. PICK x \in T : \A y \in T : x =< y
    BY <2>2, <2>4, LeastNatural
  <2>6. PICK s \in Slots : x = c[s].time + shift
    BY <2>5 DEF T
  <2> HIDE DEF shift
  <2>7. \A t \in Slots : c[s].time + shift =< c[t].time + shift
    BY <2>5, <2>6 DEF T
  <2>8. \A t \in Slots : c[s].time =< c[t].time
    BY <2>1, <2>6, <2>7
  <2>9. Oldest(c) \in SUBSET Slots /\ Oldest(c) # {}
    BY <2>6, <2>8 DEF Oldest
  <2> QED BY <1>2, <2>9, LowestSlot DEF Eldest
<1> QED BY <1>1, <1>2

-----------------------------------------------------------------------------
(* Types *)

\* The access_time counter stays within its width.
LEMMA AdvanceType ==
    ASSUME NEW t \in Times, NEW k \in Nat
    PROVE Advance(t, k) \in Times
<1> DEFINE half == TimeMod \div 2
           x == t + k + half
<1>1. TimeMod \in Nat \ {0} /\ half \in Int
  BY UnixIOConstants
<1>2. t \in Int
  BY <1>1 DEF Times
<1>3. x \in Int
  BY <1>1, <1>2
<1> HIDE DEF x
<1>4. x % TimeMod \in 0 .. TimeMod - 1
  BY <1>1, <1>3
<1> HIDE DEF half
<1>5. (x % TimeMod) - half \in -half .. TimeMod - half - 1
  BY <1>1, <1>4
<1> QED BY <1>5 DEF Advance, Times, x, half

\* The counter starts at 0.
LEMMA ZeroTime == 0 \in Times
  BY UnixIOConstants DEF Times

\* A slot that is not in use is a slot.
LEMMA EmptyType == Empty \in Entries
  BY UnixIOConstants, ZeroTime DEF Empty, Entries, Blocks

\* What reuse_cache and the copy into the cache leave in a slot.
LEMMA EntryType ==
    ASSUME NEW b \in Blocks, NEW v \in Data, NEW d \in BOOLEAN, NEW t \in Times
    PROVE Entry(b, v, d, t) \in Entries
  BY DEF Entry, Entries

\* The caller's buffers.
LEMMA BufferType ==
    ASSUME NEW S \in SUBSET Blocks, NEW f \in [S -> Data]
    PROVE f \in Buffers /\ DOMAIN f = S
  BY DEF Buffers

\* A buffer holds data for some of the blocks.
LEMMA BufferUse ==
    ASSUME NEW f \in Buffers
    PROVE DOMAIN f \in SUBSET Blocks /\ f \in [DOMAIN f -> Data]
<1>1. PICK S \in SUBSET Blocks : f \in [S -> Data]
  BY DEF Buffers
<1> QED BY <1>1

\* The buffer of a call that has none.
LEMMA NoBufType == NoBuf \in Buffers /\ DOMAIN NoBuf = {}
<1>1. NoBuf \in [{} -> Data]
  BY DEF NoBuf
<1> QED BY <1>1, BufferType

\* No call is being served.
LEMMA IdleType == Idle \in Calls
  BY UnixIOConstants, NoBufType DEF Idle, Calls

\* Copying blocks to the caller's buffer.
LEMMA DeliverType ==
    ASSUME call.buf \in Buffers, NEW S \in SUBSET Blocks, NEW f,
           \A b \in S : f[b] \in Data
    PROVE Deliver(f, S) \in Buffers /\ DOMAIN Deliver(f, S) = DOMAIN call.buf \cup S
<1>1. DOMAIN call.buf \in SUBSET Blocks /\ call.buf \in [DOMAIN call.buf -> Data]
  BY BufferUse
<1>2. Deliver(f, S) \in [DOMAIN call.buf \cup S -> Data]
  BY <1>1 DEF Deliver
<1>3. DOMAIN call.buf \cup S \in SUBSET Blocks
  BY <1>1
<1> QED BY <1>2, <1>3, BufferType

\* raw_write_blk keeps the types.
LEMMA RawWriteType ==
    ASSUME TypeOK, NEW buf, NEW S \in SUBSET Blocks, \A b \in S : buf[b] \in Data,
           RawWrite(buf, S)
    PROVE disk' \in [Blocks -> Data] /\ volatile' \in [Blocks -> SUBSET Data]
  BY DEF TypeOK, RawWrite

\* reuse_cache keeps the types of the device.
LEMMA EvictType ==
    ASSUME TypeOK, NEW s \in Slots, Evict(s)
    PROVE disk' \in [Blocks -> Data] /\ volatile' \in [Blocks -> SUBSET Data]
<1> DEFINE e == cache[s]
           f == [b \in {e.block} |-> e.data]
<1>1. e.block \in Blocks /\ e.data \in Data
  BY DEF TypeOK, Entries
<1>2. {e.block} \in SUBSET Blocks /\ \A b \in {e.block} : f[b] \in Data
  BY <1>1
<1>3. RawWrite(f, {e.block}) \/ NoRawWrite
  BY DEF Evict
<1>4. CASE RawWrite(f, {e.block})
  <2> HIDE DEF f, e
  <2> QED BY <1>2, <1>4, RawWriteType
<1>5. CASE NoRawWrite
  BY <1>5 DEF NoRawWrite, TypeOK
<1> QED BY <1>3, <1>4, <1>5

-----------------------------------------------------------------------------
(* The call being served stays on the device, and a write has the data of the *)
(* blocks it still has to write.                                              *)

CallOK ==
    /\ call.block + call.count =< NBlocks
    /\ call.op \in {"raw", "write"} => call.then = "write"
    /\ call.op = "read" => call.then = "read"
    /\ call.then = "write" => Range(call.block, call.count) \subseteq DOMAIN call.buf
    /\ call.op \in {"read", "raw"} => call.err = "none"
    /\ call.op = "flush" => call.err # "read"
    /\ call.op = "idle" => call.then = "none" /\ call.err = "none"
    /\ call.op = "return" => call.count = 0

TypeInv == TypeOK /\ CallOK

\* The blocks of a request lie on the device.
LEMMA RangeOnDevice ==
    ASSUME NEW b \in Nat, NEW n \in Nat, b + n =< NBlocks
    PROVE Range(b, n) \in SUBSET Blocks
  BY UnixIOConstants DEF Range, Blocks

\* Entering a call keeps the types.
LEMMA StartType ==
    ASSUME NEW op \in {"read", "raw", "write", "flush"},
           NEW then \in {"none", "read", "write", "sync", "blksize", "close"},
           NEW b \in 0 .. NBlocks, NEW n \in 0 .. NBlocks, b + n =< NBlocks,
           NEW buf \in Buffers, Start(op, then, b, n, buf),
           op \in {"raw", "write"} => then = "write",
           op = "read" => then = "read",
           then = "write" => Range(b, n) \subseteq DOMAIN buf
    PROVE call' \in Calls /\ CallOK'
<1>1. call' = [Idle EXCEPT !.op = op, !.then = then, !.block = b, !.count = n,
                           !.buf = buf, !.writethrough = (op = "raw")]
  BY DEF Start
<1>2. call' = [op |-> op, then |-> then, block |-> b, count |-> n, buf |-> buf,
               i |-> 0, writethrough |-> (op = "raw"), err |-> "none"]
  BY <1>1 DEF Idle
<1>3. 0 \in 0 .. CacheSize
  BY UnixIOConstants
<1>4. (op = "raw") \in BOOLEAN
  OBVIOUS
<1>5. call' \in Calls
  BY <1>2, <1>3, <1>4 DEF Calls
<1>6. CallOK'
  BY <1>2 DEF CallOK, Range
<1> QED BY <1>5, <1>6

\* Leaving the loops of a call keeps the types.
LEMMA ReturnType ==
    ASSUME TypeInv, NEW err \in {"none", "read", "write"}, Return(err)
    PROVE call' \in Calls /\ CallOK'
<1>1. call \in Calls
  BY DEF TypeInv, TypeOK
<1>2. call' = [call EXCEPT !.op = "return", !.count = 0, !.err = err]
  BY DEF Return
<1>3. call' = [op |-> "return", then |-> call.then, block |-> call.block, count |-> 0,
               buf |-> call.buf, i |-> call.i, writethrough |-> call.writethrough,
               err |-> err]
  BY <1>1, <1>2 DEF Calls
<1>4. call' \in Calls
  BY <1>1, <1>3, UnixIOConstants DEF Calls
<1>5. call.block \in Int /\ call.block =< NBlocks
  BY <1>1, UnixIOConstants DEF Calls
<1>6. CallOK'
  BY <1>3, <1>5 DEF CallOK, Range
<1> QED BY <1>4, <1>6

\* The blocks a call still has to serve lie on the device.
LEMMA CallBlocks ==
    ASSUME TypeInv
    PROVE /\ call.block \in Nat /\ call.count \in Nat /\ call.buf \in Buffers
          /\ call.count > 0 => call.block \in Blocks
          /\ Range(call.block, call.count) \in SUBSET Blocks
          /\ \A k \in 0 .. call.count : /\ Range(call.block, k) \in SUBSET Blocks
                                        /\ call.block + k \in 0 .. NBlocks
                                        /\ call.count - k \in 0 .. NBlocks
<1>1. /\ call.block \in 0 .. NBlocks /\ call.count \in 0 .. NBlocks
      /\ call.buf \in Buffers /\ call.block + call.count =< NBlocks
  BY DEF TypeInv, TypeOK, Calls, CallOK
<1> QED BY <1>1, UnixIOConstants DEF Range, Blocks

\* Moving on to the next k blocks of a call keeps the types.
LEMMA MoveOnType ==
    ASSUME TypeInv, call.op \in {"read", "write"}, NEW k \in 0 .. call.count,
           NEW buf \in Buffers, DOMAIN call.buf \subseteq DOMAIN buf,
           call' = [call EXCEPT !.block = call.block + k, !.count = call.count - k,
                                !.buf = buf]
    PROVE call' \in Calls /\ CallOK'
<1>1. call \in Calls /\ CallOK
  BY DEF TypeInv, TypeOK
<1>2. call' = [op |-> call.op, then |-> call.then, block |-> call.block + k,
               count |-> call.count - k, buf |-> buf, i |-> call.i,
               writethrough |-> call.writethrough, err |-> call.err]
  BY <1>1 DEF Calls
<1>3. call.block + k \in 0 .. NBlocks /\ call.count - k \in 0 .. NBlocks
  BY CallBlocks
<1>4. call' \in Calls
  BY <1>1, <1>2, <1>3 DEF Calls
<1>5. call.block \in Nat /\ call.count \in Nat
  BY CallBlocks
<1>6. Range(call.block + k, call.count - k) \subseteq Range(call.block, call.count)
  BY <1>5 DEF Range
<1>7. call.block + k + (call.count - k) =< NBlocks
  BY <1>1, <1>5 DEF CallOK
<1>8. CallOK'
  BY <1>1, <1>2, <1>6, <1>7 DEF CallOK
<1> QED BY <1>4, <1>8

\* A read that ends with its last blocks delivered keeps the types.
LEMMA ReadReturnType ==
    ASSUME TypeInv, NEW buf \in Buffers, call.then = "read",
           call' = [call EXCEPT !.op = "return", !.count = 0, !.buf = buf]
    PROVE call' \in Calls /\ CallOK'
<1>1. call \in Calls /\ CallOK
  BY DEF TypeInv, TypeOK
<1>2. call' = [op |-> "return", then |-> call.then, block |-> call.block,
               count |-> 0, buf |-> buf, i |-> call.i,
               writethrough |-> call.writethrough, err |-> call.err]
  BY <1>1 DEF Calls
<1>3. call.block \in 0 .. NBlocks /\ 0 \in 0 .. NBlocks /\ call.block + 0 =< NBlocks
  BY <1>1, UnixIOConstants DEF Calls
<1>4. call' \in Calls
  BY <1>1, <1>2, <1>3 DEF Calls
<1>5. CallOK'
  BY <1>1, <1>2, <1>3 DEF CallOK
<1> QED BY <1>4, <1>5

\* The run of a multi-block read: uncached blocks, up to the end or to a hit.
LEMMA RunLengthProp ==
    ASSUME TypeInv, call.count > 1, Hits(cache, call.block) = {}
    PROVE /\ RunLength \in 1 .. call.count
          /\ \A b \in Range(call.block, RunLength) : Hits(cache, b) = {}
          /\ RunLength < call.count => Hits(cache, call.block + RunLength) # {}
<1> DEFINE T == {k \in 1 .. call.count : k = call.count \/ Hits(cache, call.block + k) # {}}
<1>1. call.block \in Nat /\ call.count \in Nat
  BY CallBlocks
<1>2. T \in SUBSET Nat /\ call.count \in T
  BY <1>1
<1> HIDE DEF T
<1>3. PICK k \in T : \A j \in T : k =< j
  BY <1>2, LeastNatural
<1>4. k \in 1 .. call.count /\ (k < call.count => Hits(cache, call.block + k) # {})
  BY <1>1, <1>3 DEF T
<1>5. \A b \in Range(call.block, k) : Hits(cache, b) = {}
  <2> SUFFICES ASSUME NEW b \in Range(call.block, k), b # call.block
               PROVE Hits(cache, b) = {}
    OBVIOUS
  <2>1. /\ b - call.block \in 1 .. call.count /\ b - call.block < k
        /\ b - call.block # call.count /\ call.block + (b - call.block) = b
    BY <1>1, <1>4 DEF Range
  <2>2. b - call.block \notin T
    BY <1>1, <1>3, <1>4, <2>1
  <2> QED BY <2>1, <2>2 DEF T
<1> QED BY <1>4, <1>5 DEF RunLength

-----------------------------------------------------------------------------
(* Each action keeps TypeInv *)

\* unix_read_blk64 keeps the types.
LEMMA ReadCallTypes ==
    ASSUME TypeInv, NEW b \in Blocks, NEW n \in Counts, NEW odd \in BOOLEAN,
           unix_read_blk64(b, n, odd)
    PROVE TypeInv'
<1>1. b \in 0 .. NBlocks /\ n \in 0 .. NBlocks /\ b + n =< NBlocks
  BY UnixIOConstants DEF unix_read_blk64, Blocks, Counts, Fits
<1>2. \/ Start("flush", "read", b, n, NoBuf)
      \/ Start("read", "read", b, n, NoBuf)
  BY DEF unix_read_blk64
<1>3. call' \in Calls /\ CallOK'
  BY <1>1, <1>2, NoBufType, StartType
<1>4. UNCHANGED <<disk, volatile, cache, access_time, written, reported>>
  BY DEF unix_read_blk64
<1> QED BY <1>3, <1>4 DEF TypeInv, TypeOK

\* A write call changes written within its type.
LEMMA WrittenType ==
    ASSUME TypeInv, NEW b \in Blocks, NEW n \in Counts, Fits(b, n), NEW buf \in Bufs(b, n)
    PROVE /\ buf \in Buffers /\ DOMAIN buf = Range(b, n)
          /\ Overwrite(written, buf) \in [Blocks -> Data]
          /\ b \in 0 .. NBlocks /\ n \in 0 .. NBlocks /\ b + n =< NBlocks
<1>1. b \in 0 .. NBlocks /\ n \in 0 .. NBlocks /\ b + n =< NBlocks
  BY UnixIOConstants DEF Blocks, Counts, Fits
<1>2. Range(b, n) \in SUBSET Blocks
  BY <1>1, RangeOnDevice
<1>3. buf \in [Range(b, n) -> Data]
  BY DEF Bufs
<1>4. buf \in Buffers /\ DOMAIN buf = Range(b, n)
  BY <1>2, <1>3, BufferType
<1>5. Overwrite(written, buf) \in [Blocks -> Data]
  BY <1>3 DEF Overwrite, TypeInv, TypeOK
<1> QED BY <1>1, <1>4, <1>5

\* unix_write_blk64 keeps the types.
LEMMA WriteCallTypes ==
    ASSUME TypeInv, NEW b \in Blocks, NEW n \in Counts, NEW odd \in BOOLEAN,
           unix_write_blk64(b, n, odd)
    PROVE TypeInv'
<1>1. Fits(b, n)
  BY DEF unix_write_blk64
<1>2. PICK buf \in Bufs(b, n) :
        /\ written' = Overwrite(written, buf)
        /\ \E op \in {"flush", "raw", "write"} : Start(op, "write", b, n, buf)
  BY DEF unix_write_blk64
<1>3. PICK op \in {"flush", "raw", "write"} : Start(op, "write", b, n, buf)
  BY <1>2
<1>4. /\ buf \in Buffers /\ DOMAIN buf = Range(b, n)
      /\ Overwrite(written, buf) \in [Blocks -> Data]
      /\ b \in 0 .. NBlocks /\ n \in 0 .. NBlocks /\ b + n =< NBlocks
  BY <1>1, <1>2, WrittenType
<1>5. call' \in Calls /\ CallOK'
  BY <1>3, <1>4, StartType
<1>6. UNCHANGED <<disk, volatile, cache, access_time, reported>>
  BY DEF unix_write_blk64
<1> QED BY <1>2, <1>4, <1>5, <1>6 DEF TypeInv, TypeOK

\* unix_write_byte keeps the types.
LEMMA WriteByteTypes ==
    ASSUME TypeInv, NEW b \in Blocks, NEW n \in Counts, unix_write_byte(b, n)
    PROVE TypeInv'
<1>1. Fits(b, n)
  BY DEF unix_write_byte
<1>2. PICK buf \in Bufs(b, n) : /\ written' = Overwrite(written, buf)
                                /\ Start("flush", "write", b, n, buf)
  BY DEF unix_write_byte
<1>3. /\ buf \in Buffers /\ DOMAIN buf = Range(b, n)
      /\ Overwrite(written, buf) \in [Blocks -> Data]
      /\ b \in 0 .. NBlocks /\ n \in 0 .. NBlocks /\ b + n =< NBlocks
  BY <1>1, <1>2, WrittenType
<1>4. call' \in Calls /\ CallOK'
  BY <1>2, <1>3, StartType
<1>5. UNCHANGED <<disk, volatile, cache, access_time, reported>>
  BY DEF unix_write_byte
<1> QED BY <1>2, <1>3, <1>4, <1>5 DEF TypeInv, TypeOK

\* unix_flush, unix_set_blksize and unix_close keep the types.
LEMMA FlushCallTypes ==
    ASSUME TypeInv, unix_flush \/ unix_set_blksize \/ unix_close
    PROVE TypeInv'
<1>1. PICK then \in {"sync", "blksize", "close"} : Start("flush", then, 0, 0, NoBuf)
  BY DEF unix_flush, unix_set_blksize, unix_close
<1>2. 0 \in 0 .. NBlocks /\ 0 + 0 =< NBlocks
  BY UnixIOConstants
<1>3. call' \in Calls /\ CallOK'
  BY <1>1, <1>2, NoBufType, StartType
<1>4. UNCHANGED <<disk, volatile, cache, access_time, written, reported>>
  BY DEF unix_flush, unix_set_blksize, unix_close
<1> QED BY <1>3, <1>4 DEF TypeInv, TypeOK

\* Storing an entry in a slot keeps the type of the cache.
LEMMA SlotUpdate ==
    ASSUME NEW c \in [Slots -> Entries], NEW s \in Slots, NEW e \in Entries
    PROVE [c EXCEPT ![s] = e] \in [Slots -> Entries]
  OBVIOUS

\* A lookup that hits touches the slot it finds.
LEMMA TouchType ==
    ASSUME NEW c \in [Slots -> Entries], NEW s \in Slots, NEW t \in Times
    PROVE [c EXCEPT ![s].time = t] \in [Slots -> Entries]
  BY DEF Entries

\* A block found in the cache is delivered.
LEMMA ReadHitTypes ==
    ASSUME TypeInv, ReadHit
    PROVE TypeInv'
<1> DEFINE s == Found(cache, call.block)
           now == Advance(access_time, 1)
           f == [b \in {call.block} |-> cache[s].data]
<1>1. s \in Slots
  BY FoundSlot DEF ReadHit
<1>2. now \in Times
  BY AdvanceType DEF TypeInv, TypeOK
<1>3. call.block \in Blocks /\ call.buf \in Buffers /\ 1 \in 0 .. call.count
  BY CallBlocks DEF ReadHit
<1>4. \A b \in {call.block} : f[b] \in Data
  BY <1>1 DEF TypeInv, TypeOK, Entries
<1>5. /\ Deliver(f, {call.block}) \in Buffers
      /\ DOMAIN call.buf \subseteq DOMAIN Deliver(f, {call.block})
  <2> HIDE DEF f
  <2> QED BY <1>3, <1>4, DeliverType
<1>6. call' = [call EXCEPT !.block = call.block + 1, !.count = call.count - 1,
                           !.buf = Deliver(f, {call.block})]
  BY DEF ReadHit
<1>7. call' \in Calls /\ CallOK'
  <2> HIDE DEF f
  <2> QED BY <1>3, <1>5, <1>6, MoveOnType DEF ReadHit
<1>8. cache' = [cache EXCEPT ![s].time = now] /\ access_time' = now
  BY DEF ReadHit
<1>9. cache' \in [Slots -> Entries] /\ access_time' \in Times
  <2> HIDE DEF s, now
  <2> QED BY <1>1, <1>2, <1>8, TouchType DEF TypeInv, TypeOK
<1>10. UNCHANGED <<disk, volatile, written, reported>>
  BY DEF ReadHit, NoRawWrite
<1> QED BY <1>7, <1>9, <1>10 DEF TypeInv, TypeOK

\* The last block of a read is read into the slot that was reused.
LEMMA ReadMissOneTypes ==
    ASSUME TypeInv, ReadMissOne
    PROVE TypeInv'
<1> DEFINE s == Eldest(cache)
           now == Advance(access_time, 1)
<1>1. s \in Slots
  BY EldestSlot DEF TypeInv, TypeOK
<1>2. now \in Times
  BY AdvanceType DEF TypeInv, TypeOK
<1>3. call.block \in Blocks /\ call.buf \in Buffers
  BY CallBlocks DEF ReadMissOne
<1>4. disk \in [Blocks -> Data]
  BY DEF TypeInv, TypeOK
<1>5. Deliver(disk, {call.block}) \in Buffers
  BY <1>3, <1>4, DeliverType
<1>6. PICK ok \in BOOLEAN :
        /\ cache' = [cache EXCEPT ![s] =
              IF ok THEN Entry(call.block, disk[call.block], FALSE, now) ELSE Empty]
        /\ IF ok THEN call' = [call EXCEPT !.op = "return", !.count = 0,
                                 !.buf = Deliver(disk, {call.block})]
                 ELSE Return("read")
  BY DEF ReadMissOne, ReadOk
<1>7. call' \in Calls /\ CallOK'
  <2>1. call.then = "read"
    BY DEF ReadMissOne, TypeInv, CallOK
  <2> QED BY <1>5, <1>6, <2>1, ReadReturnType, ReturnType
<1>8. Entry(call.block, disk[call.block], FALSE, now) \in Entries
  BY <1>2, <1>3, <1>4, EntryType
<1>9. cache' \in [Slots -> Entries]
  <2> HIDE DEF s, now
  <2> QED BY <1>1, <1>6, <1>8, EmptyType, SlotUpdate DEF TypeInv, TypeOK
<1>10. disk' \in [Blocks -> Data] /\ volatile' \in [Blocks -> SUBSET Data]
  <2>1. Evict(s)
    BY DEF ReadMissOne
  <2> HIDE DEF s
  <2> QED BY <1>1, <2>1, EvictType DEF TypeInv
<1>11. access_time' = now /\ UNCHANGED <<written, reported>>
  BY DEF ReadMissOne
<1> QED BY <1>2, <1>7, <1>9, <1>10, <1>11 DEF TypeInv, TypeOK

\* A run of blocks is read from the device; the cache keeps the last of them.
LEMMA ReadMissRunTypes ==
    ASSUME TypeInv, ReadMissRun
    PROVE TypeInv'
<1> DEFINE k == RunLength
           s == Eldest(cache)
           hit == k < call.count
           t0 == IF hit THEN Advance(access_time, 1) ELSE access_time
           found == Found(cache, call.block + k)
           touched == IF hit THEN [cache EXCEPT ![found].time = t0] ELSE cache
           last == call.block + k - 1
           now == Advance(t0, k)
           entry == Entry(last, disk[last], FALSE, now)
           buf == Deliver(disk, Range(call.block, k))
<1>1. /\ call.op = "read" /\ call.count > 1 /\ Hits(cache, call.block) = {}
      /\ call.block \in Nat /\ call.count \in Nat /\ call.buf \in Buffers
      /\ disk \in [Blocks -> Data] /\ cache \in [Slots -> Entries] /\ access_time \in Times
  BY CallBlocks DEF ReadMissRun, TypeInv, TypeOK
<1>2. k \in 1 .. call.count /\ (hit => Hits(cache, call.block + k) # {})
  BY <1>1, RunLengthProp
<1>3. s \in Slots /\ (hit => found \in Slots)
  BY <1>1, <1>2, EldestSlot, FoundSlot
<1>4. \/ /\ Evict(s) /\ access_time' = now /\ cache' = [touched EXCEPT ![s] = entry]
         /\ call' = [call EXCEPT !.block = call.block + k, !.count = call.count - k,
                                 !.buf = buf]
      \/ /\ NoRawWrite /\ access_time' = t0 /\ cache' = touched
         /\ Return("read")
  BY DEF ReadMissRun
<1>5. UNCHANGED <<written, reported>>
  BY DEF ReadMissRun
<1> HIDE DEF k, s, found
<1>6. t0 \in Times
  BY <1>1, AdvanceType
<1>7. touched \in [Slots -> Entries]
  BY <1>1, <1>3, <1>6, TouchType
<1> HIDE DEF t0, hit, touched
<1>8. now \in Times
  BY <1>1, <1>2, <1>6, AdvanceType
<1>9. Range(call.block, k) \in SUBSET Blocks /\ last \in Range(call.block, k)
  BY <1>1, <1>2, CallBlocks DEF Range
<1> HIDE DEF now, last
<1>10. entry \in Entries
  BY <1>1, <1>8, <1>9, EntryType
<1>11. buf \in Buffers /\ DOMAIN call.buf \subseteq DOMAIN buf
  BY <1>1, <1>9, DeliverType
<1> HIDE DEF entry, buf
<1>12. CASE /\ Evict(s) /\ access_time' = now /\ cache' = [touched EXCEPT ![s] = entry]
            /\ call' = [call EXCEPT !.block = call.block + k, !.count = call.count - k,
                                    !.buf = buf]
  <2>1. call' \in Calls /\ CallOK'
    <3>1. k \in 0 .. call.count
      BY <1>1, <1>2
    <3>2. call.op \in {"read", "write"}
      BY <1>1
    <3> QED BY <1>11, <1>12, <3>1, <3>2, MoveOnType, Zenon
  <2>2. cache' \in [Slots -> Entries]
    BY <1>3, <1>7, <1>10, <1>12, SlotUpdate
  <2>3. disk' \in [Blocks -> Data] /\ volatile' \in [Blocks -> SUBSET Data]
    BY <1>3, <1>12, EvictType DEF TypeInv
  <2> QED BY <1>5, <1>8, <1>12, <2>1, <2>2, <2>3 DEF TypeInv, TypeOK
<1>13. CASE /\ NoRawWrite /\ access_time' = t0 /\ cache' = touched
            /\ Return("read")
  <2>1. call' \in Calls /\ CallOK'
    BY <1>13, ReturnType
  <2> QED BY <1>5, <1>6, <1>7, <1>13, <2>1 DEF TypeInv, TypeOK, NoRawWrite
<1> QED BY <1>4, <1>12, <1>13

\* The data of the blocks a write still has to write.
LEMMA WriteData ==
    ASSUME TypeInv, call.then = "write"
    PROVE \A b \in Range(call.block, call.count) : call.buf[b] \in Data
<1>1. call.buf \in Buffers /\ Range(call.block, call.count) \subseteq DOMAIN call.buf
  BY CallBlocks DEF TypeInv, CallOK
<1> QED BY <1>1, BufferUse

\* raw_write_blk of the caller's buffer, or of a prefix of it, keeps the types.
LEMMA RawWriteAllType ==
    ASSUME TypeInv, call.then = "write", NEW ok \in BOOLEAN, RawWriteAll(ok)
    PROVE disk' \in [Blocks -> Data] /\ volatile' \in [Blocks -> SUBSET Data]
<1>1. call.block \in Nat /\ call.count \in Nat
  BY CallBlocks
<1>2. PICK k \in 0 .. call.count : RawWrite(call.buf, Range(call.block, k))
  BY <1>1 DEF RawWriteAll
<1>3. /\ Range(call.block, k) \in SUBSET Blocks
      /\ Range(call.block, k) \subseteq Range(call.block, call.count)
  BY <1>1, CallBlocks DEF Range
<1>4. \A b \in Range(call.block, k) : call.buf[b] \in Data
  BY <1>3, WriteData
<1> QED BY <1>2, <1>3, <1>4, RawWriteType DEF TypeInv

\* Write-through mode: the device is written first.
LEMMA WriteThroughFirstTypes ==
    ASSUME TypeInv, WriteThroughFirst
    PROVE TypeInv'
<1>1. PICK ok \in BOOLEAN :
        /\ RawWriteAll(ok)
        /\ call' = [call EXCEPT !.op = "write", !.err = IF ok THEN "none" ELSE "write"]
  BY DEF WriteThroughFirst, WriteOk
<1>2. call \in Calls /\ CallOK /\ call.then = "write"
  BY DEF WriteThroughFirst, TypeInv, TypeOK, CallOK
<1>3. disk' \in [Blocks -> Data] /\ volatile' \in [Blocks -> SUBSET Data]
  BY <1>1, <1>2, RawWriteAllType
<1>4. call' = [op |-> "write", then |-> call.then, block |-> call.block,
               count |-> call.count, buf |-> call.buf, i |-> call.i,
               writethrough |-> call.writethrough,
               err |-> IF ok THEN "none" ELSE "write"]
  BY <1>1, <1>2 DEF Calls
<1>5. call' \in Calls /\ CallOK'
  BY <1>2, <1>4 DEF Calls, CallOK
<1>6. UNCHANGED <<cache, access_time, written, reported>>
  BY DEF WriteThroughFirst
<1> QED BY <1>3, <1>5, <1>6 DEF TypeInv, TypeOK

\* A block of a write goes to the cache.
LEMMA WriteBlockTypes ==
    ASSUME TypeInv, WriteBlock
    PROVE TypeInv'
<1> DEFINE b == call.block
           miss == Hits(cache, b) = {}
           s == IF miss THEN Eldest(cache) ELSE Found(cache, b)
           now == Advance(access_time, 1)
           entry == Entry(b, call.buf[b], ~call.writethrough, now)
<1>1. /\ call.op = "write" /\ call.count > 0 /\ call \in Calls /\ call.then = "write"
      /\ cache \in [Slots -> Entries] /\ access_time \in Times
  BY DEF WriteBlock, TypeInv, TypeOK, CallOK
<1>2. s \in Slots
  BY <1>1, EldestSlot, FoundSlot
<1>3. now \in Times
  BY <1>1, AdvanceType
<1>4. /\ b \in Blocks /\ 1 \in 0 .. call.count /\ call.buf \in Buffers
      /\ b \in Range(call.block, call.count)
  BY <1>1, CallBlocks DEF Range
<1>5. call.buf[b] \in Data
  BY <1>1, <1>4, WriteData
<1>6. entry \in Entries
  BY <1>1, <1>3, <1>4, <1>5, EntryType DEF Calls
<1>7. /\ Evict(s) \/ NoRawWrite
      /\ cache' = [cache EXCEPT ![s] = entry] /\ access_time' = now
      /\ call' = [call EXCEPT !.block = call.block + 1, !.count = call.count - 1]
      /\ UNCHANGED <<written, reported>>
  BY DEF WriteBlock
<1>8. call' = [call EXCEPT !.block = call.block + 1, !.count = call.count - 1,
                           !.buf = call.buf]
  BY <1>1, <1>7 DEF Calls
<1>9. call' \in Calls /\ CallOK'
  BY <1>1, <1>4, <1>8, MoveOnType
<1> HIDE DEF s, now, entry
<1>10. cache' \in [Slots -> Entries]
  BY <1>1, <1>2, <1>6, <1>7, SlotUpdate
<1>11. disk' \in [Blocks -> Data] /\ volatile' \in [Blocks -> SUBSET Data]
  BY <1>2, <1>7, EvictType DEF TypeInv, TypeOK, NoRawWrite
<1> QED BY <1>3, <1>7, <1>9, <1>10, <1>11 DEF TypeInv, TypeOK

\* One slot of flush_cached_blocks.
LEMMA FlushSlotTypes ==
    ASSUME TypeInv, FlushSlot
    PROVE TypeInv'
<1> DEFINE e == cache[call.i]
           f == [b \in {e.block} |-> e.data]
<1>1. /\ call.op = "flush" /\ call.i \in Slots /\ call \in Calls /\ CallOK
      /\ cache \in [Slots -> Entries]
  BY DEF FlushSlot, TypeInv, TypeOK
<1>2. e \in Entries
  BY <1>1
<1>3. PICK err \in {call.err, "write"}, left \in {Empty, [e EXCEPT !.dirty = FALSE], e} :
        /\ RawWrite(f, {e.block}) \/ NoRawWrite
        /\ cache' = [cache EXCEPT ![call.i] = left]
        /\ call' = [call EXCEPT !.i = call.i + 1, !.err = err]
  <2>1. PICK ok \in BOOLEAN :
          LET w == e.in_use /\ e.dirty
          IN /\ IF w /\ ok THEN RawWrite(f, {e.block}) ELSE NoRawWrite
             /\ cache' = [cache EXCEPT ![call.i] =
                    IF Invalidate THEN Empty ELSE [e EXCEPT !.dirty = @ /\ ~(w /\ ok)]]
             /\ call' = [call EXCEPT !.i = call.i + 1,
                            !.err = IF w /\ ~ok THEN "write" ELSE call.err]
    BY DEF FlushSlot, WriteOk
  <2> DEFINE w == e.in_use /\ e.dirty
             d == e.dirty /\ ~(w /\ ok)
             left == IF Invalidate THEN Empty ELSE [e EXCEPT !.dirty = d]
  <2>2. d = FALSE \/ d = e.dirty
    BY <1>2 DEF Entries
  <2>3. [e EXCEPT !.dirty = e.dirty] = e
    BY <1>2 DEF Entries
  <2>4. left \in {Empty, [e EXCEPT !.dirty = FALSE], e}
    <3> HIDE DEF d, e
    <3> QED BY <2>2, <2>3
  <2>5. cache' = [cache EXCEPT ![call.i] = left]
    BY <2>1
  <2>6. (IF w /\ ~ok THEN "write" ELSE call.err) \in {call.err, "write"}
    OBVIOUS
  <2>7. call' = [call EXCEPT !.i = call.i + 1,
                             !.err = IF w /\ ~ok THEN "write" ELSE call.err]
    BY <2>1
  <2>8. RawWrite(f, {e.block}) \/ NoRawWrite
    BY <2>1
  <2> HIDE DEF left, w, e, f
  <2> QED BY <2>4, <2>5, <2>6, <2>7, <2>8
<1> HIDE DEF f
<1>4. disk' \in [Blocks -> Data] /\ volatile' \in [Blocks -> SUBSET Data]
  <2>1. {e.block} \in SUBSET Blocks /\ \A b \in {e.block} : f[b] \in Data
    BY <1>2 DEF Entries, f
  <2> HIDE DEF e
  <2> QED BY <1>3, <2>1, RawWriteType DEF TypeInv, TypeOK, NoRawWrite
<1>5. left \in Entries
  <2>1. [e EXCEPT !.dirty = FALSE] \in Entries
    BY <1>2 DEF Entries
  <2> HIDE DEF e
  <2> QED BY <1>2, <1>3, <2>1, EmptyType
<1>6. cache' \in [Slots -> Entries]
  BY <1>1, <1>3, <1>5, SlotUpdate
<1>7. call' = [op |-> "flush", then |-> call.then, block |-> call.block,
               count |-> call.count, buf |-> call.buf, i |-> call.i + 1,
               writethrough |-> call.writethrough, err |-> err]
  BY <1>1, <1>3 DEF Calls
<1>8. call.i + 1 \in 0 .. CacheSize
  BY <1>1, UnixIOConstants DEF Slots
<1>9. err \in {"none", "write"}
  BY <1>1, <1>3 DEF Calls, CallOK
<1>10. call' \in Calls /\ CallOK'
  BY <1>1, <1>7, <1>8, <1>9 DEF Calls, CallOK
<1>11. UNCHANGED <<access_time, written, reported>>
  BY DEF FlushSlot
<1> QED BY <1>4, <1>6, <1>10, <1>11 DEF TypeInv, TypeOK

\* What follows the flush loop.
LEMMA AfterFlushTypes ==
    ASSUME TypeInv, FlushFailed \/ DirectRead \/ DirectWrite \/ Fsync \/ FreeCache
    PROVE TypeInv'
<1>1. call \in Calls /\ disk \in [Blocks -> Data]
  BY DEF TypeInv, TypeOK
<1>2. CASE FlushFailed
  <2>1. call' \in Calls /\ CallOK'
    BY <1>1, <1>2, ReturnType DEF FlushFailed, Calls
  <2> QED BY <1>2, <2>1 DEF FlushFailed, TypeInv, TypeOK
<1>3. CASE DirectRead
  <2> DEFINE buf == Deliver(disk, Range(call.block, call.count))
  <2>1. buf \in Buffers
    BY <1>1, CallBlocks, DeliverType
  <2>2. \/ call' = [call EXCEPT !.op = "return", !.count = 0, !.buf = buf]
        \/ Return("read")
    BY <1>3 DEF DirectRead
  <2>3. call.then = "read"
    BY <1>3 DEF DirectRead, Flushed
  <2> HIDE DEF buf
  <2>4. call' \in Calls /\ CallOK'
    BY <2>1, <2>2, <2>3, ReadReturnType, ReturnType
  <2> QED BY <1>3, <2>4 DEF DirectRead, TypeInv, TypeOK
<1>4. CASE DirectWrite
  <2>1. PICK ok \in BOOLEAN : /\ RawWriteAll(ok)
                              /\ Return(IF ok THEN "none" ELSE "write")
    BY <1>4 DEF DirectWrite, WriteOk
  <2>2. disk' \in [Blocks -> Data] /\ volatile' \in [Blocks -> SUBSET Data]
    BY <1>4, <2>1, RawWriteAllType DEF DirectWrite, Flushed
  <2>3. call' \in Calls /\ CallOK'
    BY <2>1, ReturnType
  <2> QED BY <1>4, <2>2, <2>3 DEF DirectWrite, TypeInv, TypeOK
<1>5. CASE Fsync
  <2>1. PICK ok \in BOOLEAN :
          /\ volatile' = IF ok THEN [b \in Blocks |-> {disk[b]}] ELSE volatile
          /\ Return(IF ok THEN "none" ELSE "write")
    BY <1>5 DEF Fsync, WriteOk
  <2>2. volatile' \in [Blocks -> SUBSET Data]
    BY <1>1, <2>1 DEF TypeInv, TypeOK
  <2>3. call' \in Calls /\ CallOK'
    BY <2>1, ReturnType
  <2> QED BY <1>5, <2>2, <2>3 DEF Fsync, TypeInv, TypeOK
<1>6. CASE FreeCache
  <2>1. call' \in Calls /\ CallOK'
    BY <1>1, <1>6, ReturnType DEF FreeCache, Calls
  <2>2. cache' \in [Slots -> Entries] /\ access_time' \in Times
    BY <1>6, EmptyType, ZeroTime DEF FreeCache
  <2> QED BY <1>6, <2>1, <2>2 DEF FreeCache, TypeInv, TypeOK
<1> QED BY <1>2, <1>3, <1>4, <1>5, <1>6

\* The fields of Idle are those of a call that is on the device.
LEMMA IdleOK == ASSUME call' = Idle PROVE call' \in Calls /\ CallOK'
<1>1. 0 + 0 =< NBlocks
  BY UnixIOConstants
<1> QED BY <1>1, IdleType DEF CallOK, Idle

\* A call returns, or the process dies.
LEMMA EndTypes ==
    ASSUME TypeInv, Finish \/ Crash
    PROVE TypeInv'
<1>1. call' \in Calls /\ CallOK'
  BY IdleOK DEF Finish, Crash
<1>2. CASE Finish
  BY <1>1, <1>2 DEF Finish, TypeInv, TypeOK
<1>3. CASE Crash
  <2>1. cache' \in [Slots -> Entries] /\ access_time' \in Times
    BY <1>3, EmptyType, ZeroTime DEF Crash
  <2> QED BY <1>1, <1>3, <2>1 DEF Crash, TypeInv, TypeOK
<1> QED BY <1>2, <1>3

\* The type invariant is inductive.
LEMMA TypeStep == TypeInv /\ [Next]_vars => TypeInv'
<1> SUFFICES ASSUME TypeInv, [Next]_vars PROVE TypeInv'
  OBVIOUS
<1>1. CASE Serve
  BY <1>1, ReadHitTypes, ReadMissOneTypes, ReadMissRunTypes, WriteThroughFirstTypes,
     WriteBlockTypes, FlushSlotTypes, AfterFlushTypes, EndTypes DEF Serve
<1>2. CASE UNCHANGED vars
  BY <1>2 DEF vars, TypeInv, TypeOK, CallOK
<1> QED BY <1>1, <1>2, ReadCallTypes, WriteCallTypes, WriteByteTypes, FlushCallTypes,
           EndTypes DEF Next

\* It holds initially.
LEMMA TypeInit == Init => TypeInv
<1> SUFFICES ASSUME Init PROVE TypeInv
  OBVIOUS
<1>1. call \in Calls /\ CallOK
  <2>1. 0 + 0 =< NBlocks
    BY UnixIOConstants
  <2> QED BY <2>1, IdleType DEF Init, CallOK, Idle
<1>2. cache \in [Slots -> Entries] /\ access_time \in Times
  BY EmptyType, ZeroTime DEF Init
<1> QED BY <1>1, <1>2 DEF Init, TypeInv, TypeOK

\* Every variable keeps its type, whatever the sizes of the device, the cache and
\* the access_time counter, and whichever reads and writes fail.
THEOREM TypeCorrect == Spec => []TypeOK
<1>1. TypeInv => TypeOK
  BY DEF TypeInv
<1> QED BY <1>1, TypeInit, TypeStep, PTL DEF Spec
=================================================================================
