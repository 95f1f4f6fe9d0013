---------------------------- MODULE MCSnapshotStore ----------------------------
(* Instances of SnapshotStore for TLC: two producers, as live_scanner has with
   its loop and a manual scan, and two threads on one cache. *)
EXTENDS SnapshotStore, TLC

CONSTANTS loop, manual, r1, r2

MCWriters == {loop, manual}
MCReaders == {r1, r2}

MCSymmetry == Permutations(Writers) \cup Permutations(Readers)
=============================================================================
