------------------------------- MODULE KeySet -------------------------------
(***************************************************************************)
(* What a map or a set promises of its keys: they are added, taken out and *)
(* cleared, and nothing else happens to them.                              *)
(***************************************************************************)
CONSTANT Values

VARIABLE keys

Init == keys = {}

Add(v) == v \notin keys /\ keys' = keys \cup {v}

Take(v) == v \in keys /\ keys' = keys \ {v}

Clear == keys' = {}

Next == (\E v \in Values : Add(v) \/ Take(v)) \/ Clear

Spec == Init /\ [][Next]_keys
=============================================================================
