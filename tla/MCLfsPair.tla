----------------------------- MODULE MCLfsPair ------------------------------
(* LfsPair on its own, for a file that stays open after a commit has failed. *)
EXTENDS LfsPair, TLC

Old == {g \in Block : g.val = 1 /\ g.size \in {0, 1} /\ ~g.erased}
Symmetric == Permutations(Blocks)
=============================================================================
