------------------------- MODULE MCEntryLifecycle -------------------------
(* Instances of EntryLifecycle for TLC: the bounds are in the cfg files.   *)
EXTENDS EntryLifecycle
=============================================================================
