----------------------------- MODULE MCLiveScanner -----------------------------
(* Instances of LiveScanner for TLC: three symbols in two batches, the second
   one not full, and a manual scan of a symbol of each. *)
EXTENDS LiveScanner

MCNoOutside == {}
MCFoCounts == {1, 3}
MCManualLists == {{1, 3}}
=============================================================================
