----------------------------- MODULE MCStorage ------------------------------
(***************************************************************************)
(* littlefs in one run: a metadata pair (LfsPair) and the directory tree   *)
(* (Littlefs). They share no state: a behaviour is one of one of them, and *)
(* the variables of the other are idle.                                    *)
(***************************************************************************)
EXTENDS LfsPair, TLC

CONSTANTS
  FsBlocks, Names, MaxDepth, MaxOps, MaxCompactions, MaxRelocations, MaxTroubles,
  AnyFailure, Wear, LateWear, MixedRepairs

VARIABLES
  component,
  disk, shown, gstate, gdisk, gdelta, given, fs_pc, op, cwd, fs_dir, frames, fs_goal, spent

tree ==
  <<disk, shown, gstate, gdisk, gdelta, given, fs_pc, op, cwd, fs_dir, frames, fs_goal, spent>>

Fs == INSTANCE Littlefs WITH Blocks <- FsBlocks, pc <- fs_pc, dir <- fs_dir, goal <- fs_goal
-----------------------------------------------------------------------------
\* What a block may hold: one commit of an earlier use, or none.
Old == {g \in Block : g.val = 1 /\ g.size \in {0, 1} /\ ~g.erased}
AnyOld == CHOOSE g \in Old : TRUE

Symmetric == Permutations(Blocks)

NoFs ==
  /\ disk = "off" /\ shown = {} /\ gstate = "off" /\ gdisk = "off" /\ gdelta = "off"
  /\ given = "off" /\ fs_pc = "off" /\ op = "off" /\ cwd = "off" /\ fs_dir = "off"
  /\ frames = "off" /\ fs_goal = {} /\ spent = "off"

MCInit ==
  /\ component \in {"pair", "tree"}
  /\ IF component = "tree" THEN Fs!Init ELSE NoFs
  /\ Init
  /\ component = "pair" \/ (goal = 1 /\ \A b \in Blocks \ {parent[1]} : flash[b] = AnyOld)

MCNext ==
  /\ UNCHANGED component
  /\ \/ component = "pair" /\ Next /\ UNCHANGED tree
     \/ component = "tree" /\ Fs!Next /\ UNCHANGED vars

MCSpec == MCInit /\ [][MCNext]_<<component, vars, tree>>
-----------------------------------------------------------------------------
\* No two directories of littlefs share a block, and after the repair of orphans
\* none has a block that the allocator may give out.
Disjoint == component = "tree" => Fs!Disjoint

\* The list of all directories of littlefs comes to an end.
ListEnds == component = "tree" => Fs!ListEnds

\* Where the tree and the list of directories disagree, the global state says
\* so, and the mdirs in use are what is on the disk.
Flagged == component = "tree" => Fs!Flagged /\ Fs!FreshMdir

\* An operation on the directory tree happens as a whole or not at all.
TreeAtomic == Fs!Atomic
=============================================================================
