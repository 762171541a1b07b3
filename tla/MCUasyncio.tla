----------------------------- MODULE MCUasyncio -----------------------------
(* Uasyncio on its own, with streams that are read and written. *)
EXTENDS Uasyncio

BothWays == Streams \X {1, 2}
=============================================================================
