------------------------------- MODULE MCJournal -------------------------------
(* Instances of JournalRecovery and JournalWriter for TLC. *)
EXTENDS JournalWriter

Tx(writes, revokes) == [writes |-> writes, revokes |-> revokes]

\* Two blocks one of which starts with the magic number, the superblock, and
\* revocations of the plain block with and without data.
MCShapes == {Tx(<<"m", "d">>, {}), Tx(<<"sb">>, {}), Tx(<<"m">>, {"d"}), Tx(<<>>, {"d"})}
MCFsBlocks == {"d", "m", "sb"}
MCMagicBlocks == {"m"}

\* A log that starts at its first block, and one that wraps around with its
\* transaction numbers.
MCPlaces == {[start |-> j_first, tid |-> 1], [start |-> j_last - 2, tid |-> TidMod - 2]}

Feature(csum, async) == [csum |-> csum, async |-> async]
MCFeatures == {Feature("none", FALSE), Feature("v1", FALSE), Feature("v1", TRUE),
               Feature("v3", FALSE)}

\* A block with the magic number and a plain one, or a revocation of the plain one.
MCWriterShapes == {Tx(<<"m", "d">>, {}), Tx(<<>>, {"d"})}
MCEnabledCsums == {"v3"}
================================================================================
