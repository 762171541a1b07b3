------------------------------ MODULE MCGCHeap ------------------------------
(* Instance of GCHeap for TLC: the threshold of gc_init, which never fires. *)
EXTENDS GCHeap

ThresholdOff == -1
=============================================================================
