------------------------------- MODULE LfsPair ------------------------------
(***************************************************************************)
(* A metadata pair of littlefs (lib/littlefs/lfs2.c): two blocks of flash  *)
(* that hold one directory.  A commit is appended to the log in the newer  *)
(* block, or the directory is compacted into the other one, or into a      *)
(* fresh block when that one is bad or worn; the parent is then told of    *)
(* the new pair.  Power may be lost between any two operations of the      *)
(* flash, and an operation may fail.                                       *)
(*                                                                         *)
(* A commit is a value: all that a reader finds once it is in the log.     *)
(* Its tags and its checksum are programmed in this order, so what a loss  *)
(* of power leaves of it has no valid checksum.  Of a log we keep how many *)
(* commits it has and the value of the last.                               *)
(***************************************************************************)
EXTENDS Integers

CONSTANTS
  None,
  Blocks,     \* the blocks this pair may come to use
  Values,     \* what a directory may hold
  Revs,       \* number of revision counts: 2^32, the counts wrap around
  Room,       \* how many commits fit in a block
  Cycles,     \* (block_cycles + 1) | 1, or 0 without wear levelling
  Garbage,    \* what a block may hold before it is used
  Superblock, \* the pair is {0, 1}
  Crowded,    \* the directory has 0xff or more entries
  StaysOpen   \* the mdir is one of an open file: it outlives a failed commit

Block == [rev : 0 .. Revs - 1, size : 0 .. Room, val : Values, erased : BOOLEAN]
Mdir == [pair : Blocks \X Blocks, rev : 0 .. Revs - 1, erased : BOOLEAN]

ASSUME RevsAssumption == Revs \in Nat /\ Revs > 5
ASSUME RoomAssumption == Room \in Nat \ {0} /\ Cycles \in Nat
ASSUME FlagsAssumption ==
  Superblock \in BOOLEAN /\ Crowded \in BOOLEAN /\ StaysOpen \in BOOLEAN
ASSUME BlocksAssumption == Garbage \subseteq Block /\ None \notin Mdir \cup Blocks

VARIABLES
  flash,      \* for each block its log, and whether the rest of it is erased
  parent,     \* the pair as the parent directory knows it
  dir,        \* lfs2_mdir_t of the caller, None when there is none
  pc,         \* the step of lfs2_dir_commit that comes next
  target,     \* the block that lfs2_dir_compact writes
  relocated,  \* whether it is not the one that was in the pair
  goal        \* what the commit in progress is to store

vars == <<flash, parent, dir, pc, target, relocated, goal>>

\* lfs2_scmp(a, b) > 0: the difference, wrapped around, is positive.
Newer(a, b) == \E d \in 1 .. (Revs - 1) \div 2 : a = b + d \/ a = b + d - Revs

Bump(rev) == IF rev = Revs - 1 THEN 0 ELSE rev + 1

\* The block that lfs2_dir_fetch settles on: the newer one, or the other one
\* if it holds no complete commit.
Fetched(p) ==
  LET newer == IF Newer(flash[p[2]].rev, flash[p[1]].rev) THEN p[2] ELSE p[1]
      other == IF newer = p[1] THEN p[2] ELSE p[1]
  IN IF flash[newer].size > 0 THEN newer ELSE other

Other(p, b) == IF p[1] = b THEN p[2] ELSE p[1]

\* What a reader finds after a mount.
Stored == flash[Fetched(parent)].val

\* The state that lfs2_dir_alloc and the first commit leave: the other block
\* still holds what it was used for before, and the revision count is the next
\* odd one.
Init ==
  \E b, c \in Blocks, v \in Values :
    /\ b # c
    /\ \E f \in [Blocks -> Garbage] :
         LET r == f[c].rev
         IN flash = [f EXCEPT ![b] = [rev |-> IF r % 2 = 0 THEN Bump(r) ELSE Bump(Bump(r)),
                                      size |-> 1, val |-> v, erased |-> TRUE]]
    /\ parent = <<b, c>>
    /\ goal = v
  /\ dir = None
  /\ pc = "idle"
  /\ target = None
  /\ relocated = FALSE
-----------------------------------------------------------------------------
\* Mutant: the rest of the block is taken to be erased.
lfs2_dir_fetch_Erased ==
  /\ pc = "idle"
  /\ dir = None
  /\ LET b == Fetched(parent)
     IN dir' = [pair |-> <<b, Other(parent, b)>>, rev |-> flash[b].rev, erased |-> TRUE]
  /\ UNCHANGED <<flash, parent, pc, target, relocated, goal>>

\* Whether the rest is erased shows in the valid bit of the next tag, the first
\* thing that a commit programs: the flash is assumed to program a unit as a
\* whole, so that a commit that was begun has that bit set.
lfs2_dir_fetch ==
  /\ pc = "idle"
  /\ dir = None
  /\ LET b == Fetched(parent)
     IN dir' = [pair |-> <<b, Other(parent, b)>>, rev |-> flash[b].rev,
                erased |-> flash[b].erased]
  /\ UNCHANGED <<flash, parent, pc, target, relocated, goal>>

lfs2_dir_commit(v) ==
  /\ pc = "idle"
  /\ dir # None
  /\ goal' = v
  /\ pc' = IF dir.erased \/ Crowded THEN "append" ELSE "compact"
  /\ UNCHANGED <<flash, parent, dir, target, relocated>>

\* The end of lfs2_dir_commit.
Return ==
  /\ pc' = "idle"
  /\ target' = None
  /\ relocated' = FALSE

\* The tags of the commit are programmed behind the log, unless they do not
\* fit, which may show after some of them were programmed.
AppendTags ==
  /\ pc = "append"
  /\ \/ /\ flash[dir.pair[1]].size < Room
        /\ flash' = [flash EXCEPT ![dir.pair[1]].erased = FALSE]
        /\ pc' \in {"crc", "compact"}
     \/ /\ flash[dir.pair[1]].size = Room
        /\ flash' \in {flash, [flash EXCEPT ![dir.pair[1]].erased = FALSE]}
        /\ pc' = "compact"
  /\ UNCHANGED <<parent, dir, target, relocated, goal>>

\* The checksum is programmed and read back: lfs2_dir_commitcrc.
AppendCrc ==
  /\ pc = "crc"
  /\ flash' = [flash EXCEPT ![dir.pair[1]].size = @ + 1,
                            ![dir.pair[1]].val = goal,
                            ![dir.pair[1]].erased = TRUE]
  /\ Return
  /\ UNCHANGED <<parent, dir, goal>>

AppendFails ==
  /\ pc = "crc"
  /\ pc' = "compact"
  /\ UNCHANGED <<flash, parent, dir, target, relocated, goal>>

\* Mutant: a compacted directory keeps its revision count.
Rev_Kept == dir.rev

\* The revision count of the compacted directory.
Rev == Bump(dir.rev)

\* Every so many compactions a block is worn.
StartCompact ==
  /\ pc = "compact"
  /\ pc' = IF Cycles # 0 /\ Rev % Cycles = 0 /\ ~Superblock THEN "tired" ELSE "erase"
  /\ target' = dir.pair[2]
  /\ UNCHANGED <<flash, parent, dir, relocated, goal>>

\* Mutant: the block that holds the directory is erased.
Erased_Current ==
  [flash EXCEPT ![dir.pair[1]].rev = Revs - 1, ![dir.pair[1]].size = 0,
                ![dir.pair[1]].erased = TRUE]

Erased ==
  [flash EXCEPT ![target].rev = Revs - 1, ![target].size = 0, ![target].erased = TRUE]

\* An erase leaves nothing, or what was there: when it is interrupted at once,
\* or on a device that does not need erasing.
CompactErase ==
  /\ pc = "erase"
  /\ flash' \in {flash, Erased}
  /\ pc' \in {"prog", "relocate"}
  /\ UNCHANGED <<parent, dir, target, relocated, goal>>

\* The revision count is the first thing that is programmed.
CompactTags ==
  /\ pc = "prog"
  /\ flash' = [flash EXCEPT ![target] = [rev |-> Rev, size |-> 0, val |-> goal,
                                         erased |-> FALSE]]
  /\ pc' \in {"compactcrc", "relocate"}
  /\ UNCHANGED <<parent, dir, target, relocated, goal>>

\* The mdir once the directory is in the new block.
Moved == [pair |-> <<target, dir.pair[1]>>, rev |-> Rev, erased |-> dir.erased]

CompactCrc ==
  /\ pc = "compactcrc"
  /\ flash' = [flash EXCEPT ![target] = [rev |-> Rev, size |-> 1, val |-> goal,
                                         erased |-> TRUE]]
  /\ \/ relocated /\ pc' = "parent" /\ UNCHANGED <<dir, target, relocated>>
     \/ ~relocated /\ Return /\ dir' = Moved
  /\ UNCHANGED <<parent, goal>>

CompactFails ==
  /\ pc = "compactcrc"
  /\ pc' = "relocate"
  /\ UNCHANGED <<flash, parent, dir, target, relocated, goal>>

\* Another block is allocated in place of the bad or worn one.  A worn block is
\* used once more when there is none.
Relocate ==
  /\ pc \in {"relocate", "tired"}
  /\ ~Superblock
  /\ relocated' = TRUE
  /\ \/ target' \in Blocks \ {dir.pair[1], parent[1], parent[2], target}
     \/ pc = "tired" /\ target' = target
  /\ pc' = "erase"
  /\ UNCHANGED <<flash, parent, dir, goal>>

\* lfs2_fs_relocate: the entry in the parent is replaced, then the tail of the
\* predecessor, which no reader of this directory depends on.
UpdateParent ==
  /\ pc = "parent"
  /\ parent' = Moved.pair
  /\ pc' = "pred"
  /\ UNCHANGED <<flash, dir, target, relocated, goal>>

UpdatePred ==
  /\ pc = "pred"
  /\ dir' = Moved
  /\ Return
  /\ UNCHANGED <<flash, parent, goal>>

\* An error of the flash, no block left, a superblock that cannot be relocated,
\* a parent or a predecessor that cannot be written: the mdir is put back, and
\* the caller gets an error.  A file that stays open is then LFS2_F_ERRED: its
\* sync does nothing before a write, so that its next commit has a new value.
Fail ==
  /\ pc # "idle"
  /\ Return
  /\ dir' = IF StaysOpen THEN dir ELSE None
  /\ goal' = Stored
  /\ UNCHANGED <<flash, parent>>

\* The mdir of one operation is dropped at its end.
Forget ==
  /\ pc = "idle"
  /\ dir # None
  /\ dir' = None
  /\ UNCHANGED <<flash, parent, pc, target, relocated, goal>>

PowerLoss ==
  /\ Return
  /\ dir' = None
  /\ goal' = Stored
  /\ UNCHANGED <<flash, parent>>

Commit ==
  \/ \E v \in Values : lfs2_dir_commit(v)
  \/ AppendTags \/ AppendCrc \/ AppendFails
  \/ StartCompact \/ CompactErase \/ CompactTags \/ CompactCrc \/ CompactFails
  \/ Relocate \/ UpdateParent \/ UpdatePred \/ Fail

Next == lfs2_dir_fetch \/ Commit \/ Forget \/ PowerLoss

Spec == Init /\ [][Next]_vars
-----------------------------------------------------------------------------
TypeOK ==
  /\ flash \in [Blocks -> Block]
  /\ parent \in Blocks \X Blocks
  /\ dir \in Mdir \cup {None}
  /\ pc \in {"idle", "append", "crc", "compact", "erase", "prog", "compactcrc",
             "relocate", "tired", "parent", "pred"}
  /\ target \in Blocks \cup {None}
  /\ relocated \in BOOLEAN
  /\ goal \in Values

\* Whenever the power is lost, the pair that the parent names holds a complete
\* commit: lfs2_dir_fetch never reports a corrupted directory.
Readable == flash[Fetched(parent)].size > 0

\* A program only goes where the flash is erased, "The block must have
\* previously been erased", unless the directory is crowded.
ProgsErased ==
  /\ pc = "append" /\ ~Crowded => flash[dir.pair[1]].erased
  /\ pc = "idle" /\ dir # None /\ dir.erased => flash[dir.pair[1]].erased

\* "Any pending writes are written out to storage": once a commit has returned
\* a reader finds what it stored.
Durable == pc = "idle" /\ dir # None => Stored = goal

\* A commit is atomic and durable: a reader finds what was stored before it or
\* what it stores, and the latter once it has returned.
Store == INSTANCE AtomicStore WITH value <- Stored
Atomic == Store!Spec
=============================================================================
