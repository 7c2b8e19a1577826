--------------------------- MODULE MCSnapshotRunner ---------------------------
(* SnapshotRunner for TLC; the constants get their values in the cfg files.  *)
EXTENDS SnapshotRunner, TLC

\* Snapshot rows are interchangeable, and so are workloads (safety runs only).
RowSymmetry == Permutations(Slots) \cup Permutations(Workloads)
=============================================================================
