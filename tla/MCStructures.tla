----------------------------- MODULE MCStructures -----------------------------
(**************************************************************************)
(* The structures of the library and of the tools, model-checked in one   *)
(* run: a behaviour picks one part and takes steps of it only, while the  *)
(* others stay in one initial state.  The parts share nothing, so the run *)
(* is as many runs as there are parts.                                    *)
(**************************************************************************)
EXTENDS RbBitmap, ExtentTree, Lists, Directory, FileIO, TdbStore, DupBlocks, Quota, Dict

VARIABLE part

MCTaken == {0, 1}
MCNames == [f |-> 1, g |-> 1, h |-> 2]
MCRanges == {<<0, 1000>>, <<2, 1000>>, <<4, 1000>>}
MCKeys == [k |-> 0, l |-> 0, m |-> 1]
MCPieces == [x |-> 1, y |-> 50]

\* A file with a data block, an indirect block and a block behind it; and one with two data
\* blocks.
Place(blockcnt, parent) == [cnt |-> blockcnt, in |-> parent]
MCShapes == 11 :> <<Place(0, 0), Place(-1, 0), Place(12, 2)>> @@ 12 :> <<Place(0, 0), Place(1, 0)>>

Parts == {"bitmap", "tree", "lists", "directory", "file", "tdb", "dup", "quota", "rbtree", "dict"}
Rests(p, at) == part # p => at

Init ==
  /\ part \in Parts
  /\ RbInit /\ TreeInit /\ FileInit /\ QuotaInit /\ RbTreeInit /\ DictInit
  /\ ListInit /\ Rests("lists", container = "region")
  /\ DirInit /\ Rests("directory", ~fs.itable[RootIno].index)
  /\ StoreInit /\ Rests("tdb", tdb.max_dead = 0)
  /\ DupInit /\ Rests("dup", /\ before.acl = [ino \in Claimants |-> 0]
                             /\ before.map[11] = <<2, 2, 2>> /\ before.map[12] = <<2, 2>>)

Bitmap    == part = "bitmap" /\ RbNext
Tree      == part = "tree" /\ TreeNext
AList     == part = "lists" /\ ListNext
ADir      == part = "directory" /\ DirNext
File      == part = "file" /\ FileNext
Tdb       == part = "tdb" /\ StoreNext
Pass1D    == part = "dup" /\ DupNext
QuotaFile == part = "quota" /\ QuotaNext
ARbTree   == part = "rbtree" /\ RbTreeNext
ADict     == part = "dict" /\ DictNext

Next ==
  \/ Bitmap /\ UNCHANGED <<part, treeVars, listVars, dirVars, fileVars, storeVars, dupVars, quotaVars, rbtreeVars, dictVars>>
  \/ Tree /\ UNCHANGED <<part, rbVars, listVars, dirVars, fileVars, storeVars, dupVars, quotaVars, rbtreeVars, dictVars>>
  \/ AList /\ UNCHANGED <<part, rbVars, treeVars, dirVars, fileVars, storeVars, dupVars, quotaVars, rbtreeVars, dictVars>>
  \/ ADir /\ UNCHANGED <<part, rbVars, treeVars, listVars, fileVars, storeVars, dupVars, quotaVars, rbtreeVars, dictVars>>
  \/ File /\ UNCHANGED <<part, rbVars, treeVars, listVars, dirVars, storeVars, dupVars, quotaVars, rbtreeVars, dictVars>>
  \/ Tdb /\ UNCHANGED <<part, rbVars, treeVars, listVars, dirVars, fileVars, dupVars, quotaVars, rbtreeVars, dictVars>>
  \/ Pass1D /\ UNCHANGED <<part, rbVars, treeVars, listVars, dirVars, fileVars, storeVars, quotaVars, rbtreeVars, dictVars>>
  \/ QuotaFile /\ UNCHANGED <<part, rbVars, treeVars, listVars, dirVars, fileVars, storeVars, dupVars, rbtreeVars, dictVars>>
  \/ ARbTree /\ UNCHANGED <<part, rbVars, treeVars, listVars, dirVars, fileVars, storeVars, dupVars, quotaVars, dictVars>>
  \/ ADict /\ UNCHANGED <<part, rbVars, treeVars, listVars, dirVars, fileVars, storeVars, dupVars, quotaVars, rbtreeVars>>

vars == <<part, rbVars, treeVars, listVars, dirVars, fileVars, storeVars, dupVars, quotaVars, rbtreeVars, dictVars>>
Spec == Init /\ [][Next]_vars

\* The costly properties are looked at in the states of their own part only.
\* CallsAreExact of RbBitmap: a call changes a bitmap as it would a plain set.
BitmapCallsAreExact == part = "bitmap" => CallsAreExact
\* CountsAreExact and SetsAreExact of Lists: the arrays and lists hold what a set or a table
\* of counts would after the same calls.
ListsAreExact == CountsAreExact /\ SetsAreExact
\* NamespaceIsExact of Directory: the directories hold the names the commands have made.
DirectoryIsExact == part = "directory" => NamespaceIsExact
\* FileIsExact of FileIO: a file holds what was written to it.
FileContentIsExact == part = "file" => FileIsExact
\* TdbIsExact of TdbStore: the chains and the free list hold what was stored.
TdbFileIsExact == part = "tdb" => TdbIsExact
\* TraverseIsComplete of TdbStore: a traversal meets every key that stays.
TdbTraverseIsComplete == part = "tdb" => TraverseIsComplete
\* QuotaFileIsExact of Quota: the tree of a quota file holds the dquots written to it.
QuotaTreeIsExact == part = "quota" => QuotaFileIsExact
\* RbTreeIsSound of RbTree: a red-black tree holds the nodes linked to it, in order, balanced.
RedBlackTreeIsSound == part = "rbtree" => RbTreeIsSound
==============================================================================
