--------------------------- MODULE TdbTransaction ---------------------------
(***************************************************************************)
(* Transactions of the trivial database (lib/ext2fs/tdb.c): the elements   *)
(* that collect a transaction's writes, the commit that saves the old data *)
(* in a recovery area before it overwrites anything, and the recovery that *)
(* runs when the database is opened after a crash.                         *)
(*                                                                         *)
(* The file is a size and cells.  Cell 0 is the recovery head of the       *)
(* header, cells from 1 hold data; a recovery area is a header cell and    *)
(* one cell for each element saved.  A write reaches the page cache at     *)
(* once; until the next fsync a crash keeps, for every cell and for the    *)
(* size, either the durable value or any one written since.  One process   *)
(* is modelled, without mmap: the transaction lock and the global lock     *)
(* exclude the others.                                                     *)
(***************************************************************************)
EXTENDS Integers, Sequences, FiniteSets, FiniteSetsExt, SequencesExt, TLC

CONSTANTS
  TdbData,        \* values a transaction may write to a cell
  HashCells,      \* cells of the hash table, primed into every transaction
  FirstSize,      \* cells of the database before the first transaction
  PageCells,      \* the recovery area is rounded up to this many cells
  MaxCells,       \* bound: cells of the file
  MaxTdbWrites,   \* bound: writes of one transaction
  MaxCommits,     \* bound: transactions started
  MaxCrashes      \* bound: crashes

ASSUME TdbTransactionConstants ==
  /\ HashCells \in 1 .. FirstSize /\ FirstSize < MaxCells
  /\ PageCells \in Nat \ {0}

VARIABLES
  file,           \* what reads see: size and cell
  disk,           \* the sizes and cell contents a crash may leave
  tx,             \* the open transaction
  step,           \* where the process is
  committed,      \* the contents the callers have been promised
  promise,        \* contents a commit cut short by a crash may have left
  mine            \* what the open transaction has written
tdbVars == <<file, disk, tx, step, committed, promise, mine>>

Hole == <<>>
Pad == <<-1>>
Header(magic, max, eof, len) == <<0, magic, max, eof, len>>
Saved(offset, data) == <<offset, data>>
FreeRecord == <<-2>>
Cells == 0 .. MaxCells

(**************************************************************************)
(* The file.  tdb_write, ftruncate and fsync, on a pair of file and disk. *)
(**************************************************************************)
Io == [file |-> file, disk |-> disk]

tdb_write(io, at, data) ==
  LET cells == at .. at + Len(data) - 1
      size == Max({io.file.size, at + Len(data) - 1})
  IN
  [io EXCEPT
    !.file.size = size,
    !.disk.size = @ \cup {size},
    !.file.cell = [c \in Cells |->
       IF c \in cells THEN data[c - at + 1] ELSE io.file.cell[c]],
    !.disk.cell = [c \in Cells |->
       IF c \in cells THEN io.disk.cell[c] \cup {data[c - at + 1]}
       ELSE io.disk.cell[c]]]

ftruncate(io, size) ==
  [io EXCEPT
    !.file.size = size,
    !.disk.size = @ \cup {size},
    !.file.cell = [c \in Cells |-> IF c > size THEN Hole ELSE io.file.cell[c]]]

\* tdb_expand_file extends the file and fills the addition.
tdb_expand_file(io, size, addition) ==
  tdb_write(ftruncate(io, size + addition), size + 1,
            [i \in 1 .. addition |-> Pad])

transaction_sync(io) ==
  [io EXCEPT !.disk = [size |-> {io.file.size},
                       cell |-> [c \in Cells |-> {io.file.cell[c]}]]]

Does(io) == file' = io.file /\ disk' = io.disk

(*************************************************************************)
(* The elements of a transaction: writes at an offset, none overlapping. *)
(*************************************************************************)
El(offset, data) == [offset |-> offset, data |-> data]
End(el) == el.offset + Len(el.data)

\* transaction_read of one cell: the last element that holds it, or the file.
transaction_read(c) ==
  LET over == {i \in DOMAIN tx.elements :
                 tx.elements[i].offset <= c /\ c < End(tx.elements[i])}
  IN  IF over = {} THEN file.cell[c]
      ELSE LET el == tx.elements[Max(over)] IN el.data[c - el.offset + 1]

(***************************************************************************)
(* transaction_write.  The last element that overlaps is overwritten, what *)
(* sticks out on either side is written by the same rules; otherwise the   *)
(* data joins the element it follows, unless that would cross the old end  *)
(* of the file, or becomes a new element.                                  *)
(***************************************************************************)
RECURSIVE transaction_write(_, _, _, _)
transaction_write(els, old_map_size, off, data) ==
  LET end == off + Len(data)
      over == {i \in DOMAIN els : off < End(els[i]) /\ els[i].offset < end}
      follows == {i \in DOMAIN els : End(els[i]) = off}
  IN
  IF data = <<>> THEN els
  ELSE IF over # {} THEN
    LET i == Max(over)
        from == Max({off, els[i].offset})
        upto == Min({end, End(els[i])})
        left == transaction_write(els, old_map_size, off,
                                  SubSeq(data, 1, from - off))
        here == [left EXCEPT ![i].data = [k \in DOMAIN left[i].data |->
                   LET c == left[i].offset + k - 1 IN
                   IF c \in from .. upto - 1 THEN data[c - off + 1]
                   ELSE left[i].data[k]]]
    IN  transaction_write(here, old_map_size, upto,
                          SubSeq(data, upto - off + 1, Len(data)))
  ELSE IF /\ follows # {}
          /\ end - 1 < old_map_size \/ off - 1 > old_map_size
    THEN [els EXCEPT ![Max(follows)].data = @ \o data]
  ELSE Append(els, El(off, data))

(***************************************************************************)
(* Using a transaction: start (nested calls are counted), write, expand,   *)
(* cancel.  tdb_transaction_start primes the elements with the hash table. *)
(***************************************************************************)
NoTx(map_size, started, crashes) ==
  [open |-> FALSE, elements |-> <<>>, error |-> FALSE, nesting |-> 0,
   old_map_size |-> map_size, map_size |-> map_size, writes |-> 0,
   area |-> 0, started |-> started, crashes |-> crashes]
Closed(map_size) == NoTx(map_size, tx.started, tx.crashes)

tdb_transaction_start ==
  /\ step = "idle" /\ tx.nesting = 0
  /\ IF tx.open
       THEN tx' = [tx EXCEPT !.nesting = @ + 1] /\ UNCHANGED mine
       ELSE /\ tx.started < MaxCommits
            /\ tx' = [Closed(Max({tx.map_size, file.size})) EXCEPT
                  !.open = TRUE, !.started = @ + 1,
                  !.elements = <<El(1, SubSeq([i \in 1 .. HashCells |->
                                    file.cell[i]], 1, HashCells))>>]
            /\ mine' = <<>>
  /\ UNCHANGED <<file, disk, step, committed, promise>>

\* Callers write records of the database and space they have added to it.
Writable == DOMAIN committed \cup DOMAIN mine

Write(off, data) ==
  tx' = [tx EXCEPT !.elements = transaction_write(@, tx.old_map_size, off, data),
                   !.map_size = Max({@, off + Len(data) - 1}),
                   !.writes = @ + 1]

tdb_store_in_tx ==
  /\ step = "idle" /\ tx.open /\ tx.writes < MaxTdbWrites
  /\ \E off \in Writable, n \in {1, 2}, v \in TdbData :
       /\ off .. off + n - 1 \subseteq Writable
       /\ Write(off, [i \in 1 .. n |-> <<v>>])
       /\ mine' = [c \in off .. off + n - 1 |-> <<v>>] @@ mine
  /\ UNCHANGED <<file, disk, step, committed, promise>>

transaction_expand_file ==
  /\ step = "idle" /\ tx.open /\ tx.writes < MaxTdbWrites
  /\ tx.map_size = tx.old_map_size
  /\ Write(tx.map_size + 1, <<Pad>>)
  /\ mine' = (tx.map_size + 1 :> Pad) @@ mine
  /\ UNCHANGED <<file, disk, step, committed, promise>>

\* tdb_transaction_cancel: a nested one only condemns the transaction.
Cancelled ==
  IF tx.nesting # 0 THEN [tx EXCEPT !.error = TRUE, !.nesting = @ - 1]
  ELSE Closed(tx.old_map_size)

tdb_transaction_cancel ==
  /\ step = "idle" /\ tx.open
  /\ tx' = Cancelled
  /\ mine' = IF tx.nesting # 0 THEN mine ELSE <<>>
  /\ UNCHANGED <<file, disk, step, committed, promise>>

(*************************************************************************)
(* tdb_transaction_commit, from fsync to fsync.                          *)
(*************************************************************************)
tdb_transaction_commit ==
  /\ step = "idle" /\ tx.open
  /\ \/ /\ tx.error
        /\ tx' = Cancelled /\ UNCHANGED step
     \/ /\ ~tx.error /\ tx.nesting # 0
        /\ tx' = [tx EXCEPT !.nesting = @ - 1] /\ UNCHANGED step
     \/ /\ ~tx.error /\ tx.nesting = 0
        /\ step' = "recovery data" /\ UNCHANGED tx
  /\ mine' = IF tx'.open THEN mine ELSE <<>>
  /\ UNCHANGED <<file, disk, committed, promise>>

\* The elements below the old end of the file, whose old data is saved.
ToSave(els, old_map_size) ==
  SelectSeq(els, LAMBDA el : el.offset <= old_map_size)

tdb_recovery_size(els) == Len(ToSave(els, tx.old_map_size))

\* The length in the record header at the recovery head, whatever is there:
\* the fill byte of tdb_expand_file reads as a very large number.
Huge == 2 * MaxCells
RecLen(h) == IF Len(h) = 5 THEN h[3] ELSE IF h = Pad THEN Huge ELSE 0

\* tdb_recovery_allocate: the area, the elements and the file it leaves.
tdb_recovery_allocate ==
  LET head == file.cell[0][1]
      max == IF head = 0 THEN 0 ELSE RecLen(file.cell[head])
      els == IF head = 0 THEN tx.elements
             ELSE transaction_write(tx.elements, tx.old_map_size, head,
                                    <<FreeRecord>>)
      need == tdb_recovery_size(els)
      room == ((need + PageCells) \div PageCells) * PageCells - 1
      grown == tdb_expand_file(Io, tx.old_map_size,
                 tx.map_size - tx.old_map_size + 1 + room)
  IN  IF head # 0 /\ tdb_recovery_size(tx.elements) <= max
        THEN [io |-> Io, els |-> tx.elements, at |-> head, max |-> max,
              map |-> tx.map_size, old |-> tx.old_map_size]
        ELSE [io |-> tdb_write(grown, 0, <<(<<tx.map_size + 1>>)>>),
              els |-> els, at |-> tx.map_size + 1, max |-> room,
              map |-> tx.map_size + 1 + room, old |-> tx.map_size + 1 + room]

\* The area before its magic is set: a header and the old data of elements.
RecoveryData(magic, a) ==
  LET save == ToSave(a.els, tx.old_map_size) IN
  <<Header(magic, a.max, tx.old_map_size, Len(save))>> \o
  [i \in DOMAIN save |->
     Saved(save[i].offset, [k \in DOMAIN save[i].data |->
                              file.cell[save[i].offset + k - 1]])]

\* transaction_setup_recovery up to the first fsync.
WriteRecoveryData ==
  /\ step = "recovery data"
  /\ LET a == tdb_recovery_allocate IN
     /\ a.map <= MaxCells
     /\ IF a.at + Len(ToSave(a.els, tx.old_map_size)) > a.map
          THEN /\ tx' = Cancelled /\ mine' = <<>> /\ step' = "idle"
               /\ UNCHANGED <<file, disk>>
          ELSE /\ Does(tdb_write(a.io, a.at, RecoveryData(0, a)))
               /\ tx' = [tx EXCEPT !.elements = a.els, !.area = a.at,
                                   !.map_size = a.map, !.old_map_size = a.old]
               /\ step' = "magic" /\ UNCHANGED mine
  /\ UNCHANGED <<committed, promise>>


\* The recovery data is durable before the magic says that it is there.
WriteMagic ==
  /\ step = "magic"
  /\ Does(tdb_write(transaction_sync(Io), tx.area,
                    <<[file.cell[tx.area] EXCEPT ![2] = 1]>>))
  /\ step' = "writes"
  /\ UNCHANGED <<tx, committed, promise, mine>>

\* With the magic durable the file is expanded and every element written.
\* The n-th write may fail; then the recovery runs and the commit fails.
Apply(n) ==
  LET grown == IF tx.map_size = tx.old_map_size THEN transaction_sync(Io)
               ELSE tdb_expand_file(transaction_sync(Io), tx.old_map_size,
                                    tx.map_size - tx.old_map_size)
  IN  FoldLeft(LAMBDA io, el : tdb_write(io, el.offset, el.data),
               grown, SubSeq(tx.elements, 1, n))

WriteElements ==
  /\ step = "writes"
  /\ Does(Apply(Len(tx.elements)))
  /\ step' = "unmark"
  /\ UNCHANGED <<tx, committed, promise, mine>>

\* What the transaction leaves once its elements are written.
Overlay ==
  LET written == UNION {el.offset .. End(el) - 1 : el \in ToSet(tx.elements)}
  IN  [c \in DOMAIN committed \cup written |->
         IF c \in written THEN transaction_read(c) ELSE committed[c]]

WriteFails ==
  /\ step = "writes"
  /\ \E n \in 0 .. Len(tx.elements) - 1 : Does(Apply(n))
  /\ step' = "recover" /\ tx' = Cancelled /\ mine' = <<>>
  /\ UNCHANGED <<committed, promise>>

\* The new data is durable before the magic is removed.
RemoveMagic ==
  /\ step = "unmark"
  /\ Does(tdb_write(transaction_sync(Io), tx.area,
                    <<[file.cell[tx.area] EXCEPT ![2] = 0]>>))
  /\ step' = "end"
  /\ UNCHANGED <<tx, committed, promise, mine>>

CommitEnds ==
  /\ step = "end"
  /\ Does(transaction_sync(Io))
  /\ committed' = Overlay /\ promise' = Overlay
  /\ tx' = Closed(file.size) /\ mine' = <<>> /\ step' = "idle"

(***************************************************************************)
(* A crash, and tdb_transaction_recover when the database is opened again. *)
(***************************************************************************)
\* The files a crash may leave.
Outcomes(size) ==
  LET open == {c \in Cells : c <= size /\ Cardinality(disk.cell[c]) > 1}
      picks == FoldSet(LAMBDA c, fs :
                 {(c :> v) @@ f : v \in disk.cell[c], f \in fs}, {<<>>}, open)
  IN  {[size |-> size, cell |-> [c \in Cells |->
          IF c > size THEN Hole
          ELSE IF c \in open THEN pick[c] ELSE CHOOSE v \in disk.cell[c] : TRUE]] : pick \in picks}

Crash ==
  /\ tx.crashes < MaxCrashes /\ step # "broken"
  /\ file' \in UNION {Outcomes(size) : size \in disk.size}
  /\ disk' = [size |-> {file'.size}, cell |-> [c \in Cells |-> {file'.cell[c]}]]
  /\ promise' = IF step \in {"writes", "unmark", "end"} THEN Overlay ELSE promise
  /\ tx' = NoTx(file'.size, tx.started, tx.crashes + 1)
  /\ mine' = <<>> /\ step' = "recover" /\ UNCHANGED committed

Holds(f, contents) == \A c \in DOMAIN contents : f.cell[c] = contents[c]

\* What the callers find is what they are promised from now on.
Opened ==
  /\ step' = "idle"
  /\ committed' = IF Holds(file, promise) THEN promise ELSE committed
  /\ promise' = committed'
  /\ UNCHANGED <<tx, mine>>

RecoveryHead == file.cell[0][1]
AreaHeader == file.cell[RecoveryHead]
SavedCells == [i \in 1 .. AreaHeader[5] |-> file.cell[RecoveryHead + i]]

NothingToRecover ==
  /\ step = "recover"
  /\ \/ RecoveryHead = 0
     \/ /\ RecoveryHead <= file.size
        /\ Len(AreaHeader) = 5 => AreaHeader[2] = 0
  /\ Opened /\ UNCHANGED <<file, disk>>

\* The recovery record or an element of it cannot be read.
RecoverFails ==
  /\ step = "recover" /\ RecoveryHead # 0
  /\ \/ RecoveryHead > file.size
     \/ /\ Len(AreaHeader) = 5 /\ AreaHeader[2] = 1
        /\ \E s \in ToSet(SavedCells) : Len(s) # 2
  /\ step' = "broken" /\ UNCHANGED <<file, disk, tx, committed, promise, mine>>

RecoverData ==
  /\ step = "recover" /\ RecoveryHead \in 1 .. file.size
  /\ Len(AreaHeader) = 5 /\ AreaHeader[2] = 1
  /\ \A s \in ToSet(SavedCells) : Len(s) = 2
  /\ Does(FoldLeft(LAMBDA io, s : tdb_write(io, s[1], s[2]), Io, SavedCells))
  /\ step' = "recovered" /\ UNCHANGED <<tx, committed, promise, mine>>

\* The old data is durable before the head and the magic are removed and the
\* file is cut back.
RemoveArea ==
  /\ step = "recovered"
  /\ LET head == RecoveryHead
         eof == AreaHeader[4]
         unhead == IF eof < head THEN tdb_write(transaction_sync(Io), 0, <<(<<0>>)>>)
                   ELSE transaction_sync(Io)
         unmark == tdb_write(unhead, head, <<[AreaHeader EXCEPT ![2] = 0]>>)
     IN  Does(ftruncate(unmark, eof))
  /\ step' = "truncated" /\ UNCHANGED <<tx, committed, promise, mine>>

RecoverEnds ==
  /\ step = "truncated"
  /\ Does(transaction_sync(Io)) /\ Opened

TdbInit ==
  /\ file = [size |-> FirstSize, cell |-> [c \in Cells |->
                IF c = 0 THEN <<0>> ELSE IF c <= FirstSize THEN <<c>> ELSE Hole]]
  /\ disk = [size |-> {FirstSize}, cell |-> [c \in Cells |-> {file.cell[c]}]]
  /\ tx = NoTx(FirstSize, 0, 0) /\ step = "idle" /\ mine = <<>>
  /\ committed = [c \in 1 .. FirstSize |-> <<c>>] /\ promise = committed

TdbNext ==
  \/ tdb_transaction_start \/ tdb_store_in_tx \/ transaction_expand_file
  \/ tdb_transaction_cancel \/ tdb_transaction_commit
  \/ WriteRecoveryData \/ WriteMagic \/ WriteElements \/ WriteFails
  \/ RemoveMagic \/ CommitEnds \/ Crash
  \/ NothingToRecover \/ RecoverFails \/ RecoverData \/ RemoveArea \/ RecoverEnds

TdbSpec == TdbInit /\ [][TdbNext]_tdbVars

-----------------------------------------------------------------------------
=============================================================================
