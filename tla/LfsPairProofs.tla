--------------------------- MODULE LfsPairProofs ----------------------------
(***************************************************************************)
(* A metadata pair is an atomic store, whatever the blocks, the width of   *)
(* the revision counts, the size of a block and the wear levelling: the    *)
(* specification of LfsPair implements AtomicStore, as long as no mdir     *)
(* outlives a failed commit.                                               *)
(*                                                                         *)
(* The invariant says which of the two blocks holds the directory at each  *)
(* step of a commit, in a form that does not depend on the order of the    *)
(* pair: the holder has a complete commit, and the other block has none or *)
(* has an older revision count.                                            *)
(***************************************************************************)
EXTENDS LfsPair, TLAPS

\* b, and not o, is the block of its pair that a fetch settles on.
Holds(b, o) ==
  /\ flash[b].size > 0
  /\ flash[o].size = 0 \/ Newer(flash[b].rev, flash[o].rev)

Writing == pc \in {"tired", "relocate", "erase", "prog", "compactcrc", "parent"}

\* The steps of a commit, and what they find.
CommitInv ==
  /\ dir # None =>
       /\ dir.pair[1] # dir.pair[2]
       /\ dir.rev = flash[dir.pair[1]].rev
       /\ flash[dir.pair[1]].size > 0
       /\ pc # "pred" => \/ parent = dir.pair
                         \/ parent = <<dir.pair[2], dir.pair[1]>>
       /\ pc \notin {"parent", "pred"} => Holds(dir.pair[1], dir.pair[2])
       /\ dir.erased /\ pc \in {"idle", "append"} => flash[dir.pair[1]].erased
  /\ dir = None => pc = "idle"
  /\ pc = "append" => dir.erased \/ Crowded
  /\ pc = "crc" => flash[dir.pair[1]].size < Room
  /\ Writing =>
       /\ target \in Blocks
       /\ target # dir.pair[1]
       /\ target = dir.pair[2] \/ target \notin {parent[1], parent[2]}
  /\ pc \in {"erase", "prog", "compactcrc"} /\ ~relocated => target = dir.pair[2]
  /\ pc = "compactcrc" => flash[target].rev = Rev /\ flash[target].size = 0
  /\ pc = "parent" => /\ flash[target].rev = Rev
                      /\ flash[target].size = 1
                      /\ flash[target].val = goal
                      /\ target # dir.pair[2] => Holds(dir.pair[1], dir.pair[2])
  /\ pc = "pred" => /\ target \in Blocks
                    /\ target # dir.pair[1]
                    /\ parent = <<target, dir.pair[1]>>
                    /\ flash[target].rev = Rev
                    /\ flash[target].size = 1
                    /\ flash[target].erased
                    /\ flash[target].val = goal
  /\ pc = "parent" => flash[target].erased

PairInv ==
  /\ TypeOK
  /\ parent[1] # parent[2]
  /\ Holds(parent[1], parent[2]) \/ Holds(parent[2], parent[1])
  /\ CommitInv

IInv ==
  /\ PairInv
  /\ pc = "idle" => goal = Stored
-----------------------------------------------------------------------------
\* The next revision count is newer, and so is the one after it; of two counts
\* at most one is newer than the other.
LEMMA BumpNewer ==
  ASSUME NEW r \in 0 .. Revs - 1
  PROVE  /\ Bump(r) \in 0 .. Revs - 1
         /\ Newer(Bump(r), r)
         /\ Newer(Bump(Bump(r)), r)
<1>1. 1 \in 1 .. (Revs - 1) \div 2 /\ 2 \in 1 .. (Revs - 1) \div 2
  BY RevsAssumption
<1>2. Bump(r) = r + 1 \/ Bump(r) = r + 1 - Revs
  BY RevsAssumption DEF Bump
<1>3. Bump(Bump(r)) = r + 2 \/ Bump(Bump(r)) = r + 2 - Revs
  BY RevsAssumption DEF Bump
<1>4. Bump(r) \in 0 .. Revs - 1
  BY RevsAssumption DEF Bump
<1> QED BY <1>1, <1>2, <1>3, <1>4 DEF Newer

\* A block to which one more commit is appended.
LEMMA AppendedBlock ==
  ASSUME NEW g \in Block, NEW v \in Values, g.size + 1 \in 0 .. Room
  PROVE  LET new == [g EXCEPT !.size = @ + 1, !.val = v, !.erased = TRUE]
         IN /\ new \in Block /\ new.rev = g.rev /\ new.size = g.size + 1
            /\ new.erased
BY Zenon DEF Block

LEMMA NewerAsymmetric ==
  ASSUME NEW a \in 0 .. Revs - 1, NEW b \in 0 .. Revs - 1, Newer(a, b)
  PROVE  ~Newer(b, a)
<1> SUFFICES ASSUME NEW d \in 1 .. (Revs - 1) \div 2, NEW e \in 1 .. (Revs - 1) \div 2,
                    a = b + d \/ a = b + d - Revs, b = a + e \/ b = a + e - Revs
             PROVE  FALSE
  BY DEF Newer
<1>1. d + e < Revs /\ d + e > 0
  BY RevsAssumption
<1> QED BY <1>1, RevsAssumption

\* The holder is what lfs2_dir_fetch finds, whatever the order of the pair.
LEMMA FetchedHolds ==
  ASSUME TypeOK, parent[1] # parent[2]
  PROVE  /\ Holds(parent[1], parent[2]) => Fetched(parent) = parent[1]
         /\ Holds(parent[2], parent[1]) => Fetched(parent) = parent[2]
<1>1. /\ flash[parent[1]].rev \in 0 .. Revs - 1
      /\ flash[parent[2]].rev \in 0 .. Revs - 1
      /\ flash[parent[1]].size \in Nat
      /\ flash[parent[2]].size \in Nat
  BY RoomAssumption DEF TypeOK, Block
<1>2. ASSUME Holds(parent[1], parent[2])
      PROVE  Fetched(parent) = parent[1]
  BY <1>1, <1>2, NewerAsymmetric DEF Holds, Fetched
<1>3. ASSUME Holds(parent[2], parent[1])
      PROVE  Fetched(parent) = parent[2]
  BY <1>1, <1>3 DEF Holds, Fetched
<1> QED BY <1>2, <1>3
-----------------------------------------------------------------------------
\* The invariant holds once a directory has been created.
LEMMA InitInv == Init => IInv
<1> SUFFICES ASSUME Init PROVE IInv
  OBVIOUS
<1>1. PICK b \in Blocks, c \in Blocks, v \in Values, f \in [Blocks -> Garbage] :
        /\ b # c
        /\ flash = [f EXCEPT ![b] =
                     [rev |-> IF f[c].rev % 2 = 0 THEN Bump(f[c].rev) ELSE Bump(Bump(f[c].rev)),
                      size |-> 1, val |-> v, erased |-> TRUE]]
        /\ parent = <<b, c>>
        /\ goal = v
  BY Zenon DEF Init
<1>2. f \in [Blocks -> Block] /\ f[c] \in Block /\ f[c].rev \in 0 .. Revs - 1
  BY BlocksAssumption DEF Block
<1>3. /\ flash[b].rev \in 0 .. Revs - 1
      /\ Newer(flash[b].rev, flash[c].rev)
  BY <1>1, <1>2, BumpNewer
<1>4. /\ flash[b].size = 1 /\ flash[b].val = v /\ flash[b] \in Block
      /\ flash \in [Blocks -> Block]
  BY <1>1, <1>2, <1>3, RoomAssumption DEF Block
<1>5. TypeOK
  BY <1>1, <1>4, Zenon DEF Init, TypeOK
<1>6. Holds(parent[1], parent[2]) /\ parent[1] # parent[2]
  BY <1>1, <1>3, <1>4 DEF Holds
<1>7. Fetched(parent) = parent[1]
  BY <1>5, <1>6, FetchedHolds
<1>8. CommitInv
  BY DEF Init, CommitInv, Writing
<1> QED BY <1>1, <1>4, <1>5, <1>6, <1>7, <1>8 DEF IInv, PairInv, Stored, Init
-----------------------------------------------------------------------------
\* What a reader finds, at each step of a commit.
LEMMA StoredIs ==
  PairInv =>
    /\ Fetched(parent) \in {parent[1], parent[2]}
    /\ Holds(Fetched(parent), Other(parent, Fetched(parent)))
    /\ dir # None /\ pc \notin {"parent", "pred"} => Stored = flash[dir.pair[1]].val
    /\ pc = "parent" => Stored = IF target = dir.pair[2] THEN goal ELSE flash[dir.pair[1]].val
    /\ pc = "pred" => Stored = goal
<1> SUFFICES ASSUME PairInv
             PROVE  /\ Fetched(parent) \in {parent[1], parent[2]}
                    /\ Holds(Fetched(parent), Other(parent, Fetched(parent)))
                    /\ dir # None /\ pc \notin {"parent", "pred"} =>
                         Stored = flash[dir.pair[1]].val
                    /\ pc = "parent" =>
                         Stored = IF target = dir.pair[2] THEN goal ELSE flash[dir.pair[1]].val
                    /\ pc = "pred" => Stored = goal
  OBVIOUS
<1>1. TypeOK /\ parent[1] # parent[2]
  BY DEF PairInv
<1>2. /\ Holds(parent[1], parent[2]) => Fetched(parent) = parent[1]
      /\ Holds(parent[2], parent[1]) => Fetched(parent) = parent[2]
  BY <1>1, FetchedHolds
<1>3. /\ Fetched(parent) \in {parent[1], parent[2]}
      /\ Holds(Fetched(parent), Other(parent, Fetched(parent)))
  BY <1>1, <1>2 DEF PairInv, Other
<1>4. ASSUME dir # None, pc \notin {"parent", "pred"}
      PROVE  Stored = flash[dir.pair[1]].val
  BY <1>2, <1>4 DEF PairInv, CommitInv, Stored
<1>5. dir # None => dir.rev \in 0 .. Revs - 1 /\ Newer(Rev, dir.rev)
  BY <1>1, BumpNewer DEF TypeOK, Mdir, Rev
<1>6. ASSUME pc = "parent"
      PROVE  Stored = IF target = dir.pair[2] THEN goal ELSE flash[dir.pair[1]].val
  <2>1. dir # None
    BY <1>6 DEF PairInv, CommitInv
  <2>2. target = dir.pair[2] => Holds(target, dir.pair[1])
    BY <1>5, <1>6, <2>1 DEF PairInv, CommitInv, Holds
  <2> QED BY <1>2, <1>6, <2>1, <2>2 DEF PairInv, CommitInv, Stored
<1>7. ASSUME pc = "pred"
      PROVE  Stored = goal
  <2>1. dir # None
    BY <1>7 DEF PairInv, CommitInv
  <2>2. Holds(target, dir.pair[1])
    BY <1>5, <1>7, <2>1 DEF PairInv, CommitInv, Holds
  <2> QED BY <1>2, <1>7, <2>1, <2>2 DEF PairInv, CommitInv, Stored
<1> QED BY <1>3, <1>4, <1>6, <1>7

\* Every step of lfs2_dir_commit leaves a block that holds the directory.
LEMMA PairInvNext ==
  ASSUME PairInv, [Next]_vars, ~StaysOpen
  PROVE  PairInv'
<1> USE RevsAssumption, RoomAssumption, FlagsAssumption, BlocksAssumption
<1>0. TypeOK /\ CommitInv
  BY DEF PairInv
<1>1. ASSUME dir # None
      PROVE  /\ dir \in Mdir
             /\ dir.pair[1] \in Blocks /\ dir.pair[2] \in Blocks
             /\ dir.rev \in 0 .. Revs - 1 /\ Rev \in 0 .. Revs - 1
             /\ Newer(Rev, dir.rev)
  BY <1>0, <1>1, BumpNewer DEF TypeOK, Mdir, Rev
<1>a. CASE lfs2_dir_fetch
  <2>1. PICK b \in {parent[1], parent[2]} : b = Fetched(parent) /\ Holds(b, Other(parent, b))
    BY StoredIs
  <2>2. dir' = [pair |-> <<b, Other(parent, b)>>, rev |-> flash[b].rev, erased |-> flash[b].erased]
    BY <1>a, <2>1 DEF lfs2_dir_fetch
  <2>3. b \in Blocks /\ Other(parent, b) \in Blocks /\ flash[b] \in Block
    BY <1>0, <2>1 DEF TypeOK, Other
  <2>4. dir' \in Mdir
    BY <2>2, <2>3 DEF Mdir, Block
  <2>5. TypeOK'
    BY <1>0, <1>a, <2>4 DEF TypeOK, lfs2_dir_fetch
  <2>6. /\ dir'.pair[1] = b /\ dir'.pair[2] = Other(parent, b)
        /\ dir'.rev = flash[b].rev /\ dir'.erased = flash[b].erased
    BY <2>2
  <2>7. Holds(b, Other(parent, b))'
    BY <1>a, <2>1, Zenon DEF lfs2_dir_fetch, Holds, Other
  <2>8. CommitInv'
    BY <1>0, <1>a, <2>1, <2>4, <2>6, <2>7 DEF CommitInv, Holds, Writing, lfs2_dir_fetch, Other,
      PairInv, TypeOK
  <2> QED BY <1>a, <2>5, <2>8 DEF PairInv, lfs2_dir_fetch, Holds
<1>b. ASSUME NEW v \in Values, lfs2_dir_commit(v)
      PROVE  PairInv'
  BY <1>0, <1>b DEF PairInv, TypeOK, CommitInv, Holds, Writing, lfs2_dir_commit
<1>c. CASE AppendTags
  <2>1. dir # None /\ pc = "append"
    BY <1>0, <1>c DEF CommitInv, AppendTags
  <2>2. /\ flash' \in [Blocks -> Block]
        /\ \A x \in Blocks : /\ flash'[x].rev = flash[x].rev
                              /\ flash'[x].size = flash[x].size
    <3>1. \/ flash' = flash
          \/ flash' = [flash EXCEPT ![dir.pair[1]].erased = FALSE]
      BY <1>c DEF AppendTags
    <3>2. dir.pair[1] \in Blocks /\ flash \in [Blocks -> Block]
      BY <1>0, <1>1, <2>1 DEF TypeOK
    <3>3. CASE flash' = flash
      BY <3>2, <3>3
    <3>4. CASE flash' = [flash EXCEPT ![dir.pair[1]].erased = FALSE]
      <4>1. [flash[dir.pair[1]] EXCEPT !.erased = FALSE] \in Block
        BY <3>2, ZenonT(30) DEF Block
      <4> QED BY <3>2, <3>4, <4>1 DEF Block
    <3> QED BY <3>1, <3>3, <3>4
  <2>3. TypeOK' /\ pc' \in {"crc", "compact"} /\ UNCHANGED <<parent, dir, target, relocated>>
    BY <1>0, <1>c, <2>2 DEF AppendTags, TypeOK
  <2>4. CommitInv'
    <3>1. pc' = "crc" => flash[dir.pair[1]].size < Room
      BY <1>c DEF AppendTags
    <3> QED BY <1>0, <1>1, <2>1, <2>2, <2>3, <3>1 DEF CommitInv, Holds, Writing
  <2> QED BY <1>0, <2>2, <2>3, <2>4 DEF PairInv, TypeOK, Holds
<1>d. CASE AppendCrc
  <2>1. dir # None /\ pc = "crc"
    BY <1>0, <1>d DEF CommitInv, AppendCrc
  <2>2. flash[dir.pair[1]].size + 1 \in 0 .. Room /\ goal \in Values
    BY <1>0, <1>1, <2>1 DEF CommitInv, TypeOK, Block
  <2>3. /\ flash' \in [Blocks -> Block]
        /\ \A x \in Blocks : flash'[x].rev = flash[x].rev
        /\ \A x \in Blocks : x # dir.pair[1] => flash'[x] = flash[x]
        /\ flash'[dir.pair[1]].size = flash[dir.pair[1]].size + 1
        /\ flash'[dir.pair[1]].erased
    <3> DEFINE b == dir.pair[1]
               new == [flash[b] EXCEPT !.size = @ + 1, !.val = goal, !.erased = TRUE]
    <3>1. b \in Blocks /\ flash \in [Blocks -> Block]
      BY <1>0, <1>1, <2>1 DEF TypeOK
    <3>2. /\ new \in Block /\ new.rev = flash[b].rev /\ new.size = flash[b].size + 1
          /\ new.erased
      BY <2>2, <3>1, AppendedBlock, Zenon
    <3>3. flash' = [flash EXCEPT ![b] = new]
      BY <1>d, <3>1, ZenonT(30) DEF AppendCrc
    <3> HIDE DEF new
    <3> QED BY <3>1, <3>2, <3>3
  <2>4. TypeOK' /\ pc' = "idle" /\ UNCHANGED <<parent, dir>>
    BY <1>0, <1>d, <2>3, Zenon DEF AppendCrc, TypeOK, Return
  <2>5. CommitInv' /\ Holds(dir.pair[1], dir.pair[2])'
    BY <1>0, <1>1, <2>1, <2>2, <2>3, <2>4 DEF CommitInv, Holds, Writing, TypeOK, Block
  <2>6. /\ dir.pair[1] # dir.pair[2]
        /\ parent = dir.pair \/ parent = <<dir.pair[2], dir.pair[1]>>
    BY <1>0, <2>1, Zenon DEF CommitInv
  <2> QED BY <2>4, <2>5, <2>6 DEF PairInv
<1>e. CASE AppendFails
  BY <1>0, <1>1, <1>e, Zenon DEF PairInv, TypeOK, CommitInv, Holds, Writing, AppendFails
<1>f. CASE StartCompact
  BY <1>0, <1>1, <1>f, Zenon DEF PairInv, TypeOK, CommitInv, Holds, Writing, StartCompact
<1>g. CASE CompactErase
  BY <1>0, <1>1, <1>g DEF PairInv, TypeOK, CommitInv, Holds, Writing, CompactErase, Block, Erased
<1>h. CASE CompactTags
  <2>1. dir # None /\ pc = "prog" /\ target \in Blocks /\ target # dir.pair[1]
    BY <1>0, <1>h DEF CommitInv, CompactTags, Writing
  <2>2. /\ flash' \in [Blocks -> Block]
        /\ \A x \in Blocks : x # target => flash'[x] = flash[x]
        /\ flash'[target].size = 0 /\ flash'[target].rev = Rev
    BY <1>0, <1>1, <1>h, <2>1 DEF CompactTags, TypeOK, Block
  <2>3. TypeOK' /\ pc' \in {"compactcrc", "relocate"}
        /\ UNCHANGED <<parent, dir, target, relocated>>
    BY <1>0, <1>h, <2>2, Zenon DEF CompactTags, TypeOK
  <2>4. CommitInv' /\ Holds(dir.pair[1], dir.pair[2])'
    BY <1>0, <1>1, <2>1, <2>2, <2>3 DEF CommitInv, Holds, Writing, Rev
  <2> QED BY <1>0, <2>1, <2>3, <2>4 DEF PairInv, CommitInv
<1>i. CASE CompactCrc
  <2>1. /\ dir # None /\ pc = "compactcrc" /\ target \in Blocks /\ target # dir.pair[1]
        /\ flash[target].rev = Rev /\ Holds(dir.pair[1], dir.pair[2])
    BY <1>0, <1>i, Zenon DEF CommitInv, CompactCrc, Writing
  <2>2. /\ flash' \in [Blocks -> Block]
        /\ \A x \in Blocks : x # target => flash'[x] = flash[x]
        /\ flash'[target].size = 1 /\ flash'[target].rev = Rev /\ flash'[target].val = goal
        /\ flash'[target].erased
    BY <1>0, <1>1, <1>i, <2>1 DEF CompactCrc, TypeOK, Block
  <2>3. CASE relocated
    <3>1. TypeOK' /\ pc' = "parent" /\ UNCHANGED <<parent, dir, target, relocated, goal>>
      BY <1>0, <1>i, <2>2, <2>3, Zenon DEF CompactCrc, TypeOK
    <3>2. CommitInv'
      BY <1>0, <1>1, <2>1, <2>2, <3>1, Zenon DEF CommitInv, Holds, Writing, Rev
    <3>3. IF target = dir.pair[2] THEN Holds(dir.pair[2], dir.pair[1])'
                                  ELSE Holds(dir.pair[1], dir.pair[2])'
      BY <1>0, <1>1, <2>1, <2>2, <3>1 DEF CommitInv, Holds
    <3>4. /\ dir.pair[1] # dir.pair[2]
          /\ parent = dir.pair \/ parent = <<dir.pair[2], dir.pair[1]>>
      BY <1>0, <2>1, Zenon DEF CommitInv
    <3> QED BY <3>1, <3>2, <3>3, <3>4 DEF PairInv
  <2>4. CASE ~relocated
    <3>1. target = dir.pair[2] /\ dir' = Moved /\ UNCHANGED <<parent, goal>>
      BY <1>0, <1>i, <2>1, <2>4 DEF CommitInv, CompactCrc
    <3>2. /\ dir'.pair = <<target, dir.pair[1]>> /\ dir'.rev = Rev /\ dir' \in Mdir
          /\ dir' # None
      BY <1>1, <2>1, <3>1 DEF Moved, Mdir
    <3>3. TypeOK' /\ pc' = "idle"
      BY <1>0, <1>i, <2>2, <2>4, <3>1, <3>2, ZenonT(30) DEF CompactCrc, TypeOK, Return
    <3>4. Holds(dir.pair[1], dir.pair[2])'
      BY <1>0, <1>1, <2>1, <2>2, <3>2 DEF CommitInv, Holds
    <3>5. dir.pair = <<dir.pair[1], dir.pair[2]>>
      BY <1>1, <2>1 DEF Mdir
    <3>6. parent' = dir'.pair \/ parent' = <<dir'.pair[2], dir'.pair[1]>>
      BY <1>0, <2>1, <3>1, <3>2, <3>5 DEF CommitInv
    <3>7. CommitInv'
      BY <1>1, <2>1, <2>2, <3>1, <3>2, <3>3, <3>4, <3>6 DEF CommitInv, Writing
    <3>8. dir'.pair[1] # dir'.pair[2]
      BY <2>1, <3>2
    <3> QED BY <3>3, <3>4, <3>6, <3>7, <3>8 DEF PairInv
  <2> QED BY <1>0, <2>3, <2>4 DEF TypeOK
<1>j. CASE CompactFails
  BY <1>0, <1>1, <1>j, Zenon DEF PairInv, TypeOK, CommitInv, Holds, Writing, CompactFails
<1>k. CASE Relocate
  BY <1>0, <1>1, <1>k, Zenon DEF PairInv, TypeOK, CommitInv, Holds, Writing, Relocate
<1>l. CASE UpdateParent
  <2>1. /\ dir # None /\ pc = "parent" /\ pc' = "pred" /\ target \in Blocks
        /\ target # dir.pair[1] /\ UNCHANGED <<flash, dir, target, relocated, goal>>
    BY <1>0, <1>l DEF CommitInv, Writing, UpdateParent
  <2>2. parent' = <<target, dir.pair[1]>>
    BY <1>l DEF UpdateParent, Moved
  <2>3. TypeOK'
    BY <1>0, <1>1, <2>1, <2>2, Zenon DEF TypeOK
  <2>4. CommitInv'
    BY <1>0, <2>1, <2>2, Zenon DEF CommitInv, Holds, Writing, Rev
  <2>5. Holds(target, dir.pair[1])'
    BY <1>0, <1>1, <2>1 DEF CommitInv, Holds
  <2> QED BY <2>1, <2>2, <2>3, <2>4, <2>5 DEF PairInv
<1>m. CASE UpdatePred
  <2>1. /\ dir # None /\ pc = "pred" /\ target \in Blocks /\ dir' = Moved
        /\ parent = <<target, dir.pair[1]>> /\ UNCHANGED <<flash, parent, goal>>
    BY <1>0, <1>m DEF CommitInv, UpdatePred
  <2>2. /\ dir'.pair = <<target, dir.pair[1]>> /\ dir'.rev = Rev /\ dir' \in Mdir
        /\ dir' # None
    BY <1>1, <2>1 DEF Moved, Mdir
  <2>3. TypeOK' /\ pc' = "idle"
    BY <1>0, <1>m, <2>1, <2>2, Zenon DEF UpdatePred, TypeOK, Return
  <2>4. Holds(dir.pair[1], dir.pair[2])'
    BY <1>0, <1>1, <2>1, <2>2 DEF CommitInv, Holds
  <2>5. CommitInv'
    BY <1>0, <1>1, <2>1, <2>2, <2>3, <2>4 DEF CommitInv, Writing
  <2> QED BY <1>0, <2>1, <2>2, <2>3, <2>4, <2>5 DEF PairInv, CommitInv
<1>n. CASE Fail \/ PowerLoss
  <2>1. dir' = None /\ pc' = "idle" /\ target' = None /\ relocated' = FALSE
        /\ UNCHANGED <<flash, parent>> /\ goal' = Stored
    BY <1>n DEF Fail, PowerLoss, Return
  <2>2. goal' \in Values
    BY <1>0, <2>1, StoredIs DEF TypeOK, Stored, Block
  <2> QED BY <1>0, <2>1, <2>2, Zenon DEF PairInv, TypeOK, CommitInv, Holds, Writing
<1>o. CASE Forget
  BY <1>0, <1>o DEF PairInv, TypeOK, CommitInv, Holds, Writing, Forget
<1>p. CASE UNCHANGED vars
  <2>1. /\ flash' = flash /\ parent' = parent /\ dir' = dir /\ pc' = pc /\ target' = target
        /\ relocated' = relocated /\ goal' = goal
    BY <1>p DEF vars
  <2>2. TypeOK'
    BY <1>0, <2>1, Zenon DEF TypeOK
  <2>3. CommitInv'
    <3>1. Rev' = Rev /\ Writing' = Writing
      BY <2>1 DEF Rev, Writing
    <3>2. \A b, o : Holds(b, o)' <=> Holds(b, o)
      BY <2>1 DEF Holds
    <3> QED BY <1>0, <2>1, <3>1, <3>2, SMTT(20) DEF CommitInv
  <2> QED BY <1>0, <2>1, <2>2, <2>3 DEF PairInv, Holds
<1> QED BY <1>a, <1>b, <1>c, <1>d, <1>e, <1>f, <1>g, <1>h, <1>i, <1>j, <1>k, <1>l, <1>m, <1>n,
           <1>o, <1>p DEF Next, Commit
-----------------------------------------------------------------------------
\* Every step begins an update of the store, makes it happen, gives it up or
\* is not seen.
LEMMA StepRefines ==
  ASSUME IInv, PairInv', [Next]_vars, ~StaysOpen
  PROVE  /\ pc' = "idle" => goal' = Stored'
         /\ [Store!Next]_(Store!vars)
<1> USE DEF Store!Next, Store!vars, Store!Begin, Store!Happen, Store!GiveUp
<1>0. PairInv /\ TypeOK /\ CommitInv /\ (pc = "idle" => goal = Stored)
  BY DEF IInv, PairInv
<1>1. /\ dir # None /\ pc \notin {"parent", "pred"} => Stored = flash[dir.pair[1]].val
      /\ pc = "parent" => Stored = IF target = dir.pair[2] THEN goal ELSE flash[dir.pair[1]].val
      /\ pc = "pred" => Stored = goal
  BY <1>0, StoredIs
<1>2. (/\ dir # None /\ pc \notin {"parent", "pred"} => Stored = flash[dir.pair[1]].val
       /\ pc = "parent" => Stored = IF target = dir.pair[2] THEN goal ELSE flash[dir.pair[1]].val
       /\ pc = "pred" => Stored = goal)'
  BY StoredIs, PTL
<1>3. UNCHANGED <<flash, parent>> => UNCHANGED Stored
  BY DEF Stored, Fetched, Newer
<1>4. dir # None => /\ dir.pair[1] \in Blocks /\ dir.pair[2] \in Blocks
                    /\ dir.pair[1] # dir.pair[2]
  BY <1>0 DEF TypeOK, CommitInv, Mdir
<1>5. /\ flash \in [Blocks -> Block]
      /\ pc # "idle" => dir # None
      /\ Writing => target # dir.pair[1] /\ target \in Blocks
  BY <1>0 DEF TypeOK, CommitInv
<1>a. CASE lfs2_dir_fetch \/ Forget \/ AppendFails \/ StartCompact \/ CompactFails \/ Relocate
  <2>1. UNCHANGED <<flash, parent, goal>>
    BY <1>a DEF lfs2_dir_fetch, Forget, AppendFails, StartCompact, CompactFails, Relocate
  <2>2. pc' = "idle" => pc = "idle"
    BY <1>a DEF lfs2_dir_fetch, Forget, AppendFails, StartCompact, CompactFails, Relocate
  <2> QED BY <1>0, <1>3, <2>1, <2>2
<1>b. ASSUME NEW v \in Values, lfs2_dir_commit(v)
      PROVE  /\ pc' = "idle" => goal' = Stored'
             /\ [Store!Next]_(Store!vars)
  BY <1>0, <1>3, <1>b DEF lfs2_dir_commit
<1>c. CASE AppendTags \/ CompactErase \/ CompactTags
  <2>1. /\ dir # None /\ dir' # None /\ dir' = dir /\ UNCHANGED goal
        /\ pc \notin {"idle", "parent", "pred"} /\ pc' \notin {"idle", "parent", "pred"}
    BY <1>c, <1>5 DEF AppendTags, CompactErase, CompactTags
  <2>2. flash'[dir.pair[1]].val = flash[dir.pair[1]].val
    <3>1. CASE AppendTags
      BY <3>1, <2>1, <1>4, <1>5 DEF AppendTags, Block
    <3>2. CASE CompactErase \/ CompactTags
      <4>1. target # dir.pair[1] /\ target \in Blocks
        BY <1>5, <3>2 DEF Writing, CompactErase, CompactTags
      <4> QED BY <1>4, <1>5, <2>1, <3>2, <4>1 DEF CompactErase, CompactTags, Erased
    <3> QED BY <1>c, <3>1, <3>2
  <2> QED BY <1>1, <1>2, <2>1, <2>2
<1>d. CASE AppendCrc
  <2>1. dir # None /\ dir' = dir /\ UNCHANGED goal /\ pc' = "idle"
    BY <1>d, <1>5, Zenon DEF AppendCrc, Return
  <2>2. flash'[dir.pair[1]].val = goal
    BY <1>d, <1>4, <1>5, <2>1 DEF AppendCrc, Block
  <2> QED BY <1>2, <2>1, <2>2
<1>e. CASE CompactCrc
  <2>1. dir # None /\ UNCHANGED goal /\ target # dir.pair[1] /\ target \in Blocks
        /\ pc = "compactcrc"
    BY <1>e, <1>5 DEF CompactCrc, Writing
  <2>2. flash'[dir.pair[1]] = flash[dir.pair[1]] /\ flash'[target].val = goal
    BY <1>e, <1>4, <1>5, <2>1 DEF CompactCrc
  <2>3. CASE relocated
    <3>1. dir' = dir /\ target' = target /\ pc' = "parent"
      BY <1>e, <2>3 DEF CompactCrc
    <3> QED BY <1>1, <1>2, <2>1, <2>2, <3>1
  <2>4. CASE ~relocated
    <3>1. dir' = Moved /\ pc' = "idle" /\ Moved.pair[1] = target
      BY <1>e, <2>4 DEF CompactCrc, Return, Moved
    <3>2. dir' # None
      BY <1>0, <1>4, <2>1, <3>1, BlocksAssumption, BumpNewer DEF Moved, Mdir, TypeOK, Rev
    <3> QED BY <1>2, <2>1, <2>2, <3>1, <3>2
  <2> QED BY <1>0, <2>3, <2>4 DEF TypeOK
<1>f. CASE UpdateParent
  <2>1. pc' = "pred" /\ UNCHANGED goal
    BY <1>f DEF UpdateParent
  <2> QED BY <1>2, <2>1
<1>g. CASE UpdatePred
  <2>1. pc = "pred" /\ UNCHANGED <<goal, flash, parent>>
    BY <1>g DEF UpdatePred
  <2> QED BY <1>1, <1>3, <2>1
<1>h. CASE Fail \/ PowerLoss
  BY <1>3, <1>h DEF Fail, PowerLoss
<1>i. CASE UNCHANGED vars
  BY <1>0, <1>3, <1>i DEF vars
<1> QED BY <1>a, <1>b, <1>c, <1>d, <1>e, <1>f, <1>g, <1>h, <1>i DEF Next, Commit

\* The invariant holds in every reachable state.
THEOREM Invariance == ASSUME ~StaysOpen PROVE Spec => []IInv
<1>1. IInv /\ [Next]_vars => IInv'
  <2> SUFFICES ASSUME IInv, [Next]_vars PROVE IInv'
    OBVIOUS
  <2>1. PairInv'
    BY PairInvNext DEF IInv
  <2> QED BY <2>1, StepRefines DEF IInv
<1> QED BY <1>1, InitInv, PTL DEF Spec

\* A commit is atomic and durable: lfs2_dir_commit implements AtomicStore,
\* whatever fails and whenever the power is lost.
THEOREM CommitIsAtomic == ASSUME ~StaysOpen PROVE Spec => Atomic
<1>1. Init => Store!Init
  <2> SUFFICES ASSUME Init PROVE Store!Init
    OBVIOUS
  <2>1. goal = Stored /\ goal \in Values
    BY InitInv, Zenon DEF IInv, PairInv, TypeOK, Init
  <2> QED BY <2>1 DEF Store!Init
<1>2. IInv /\ IInv' /\ [Next]_vars => [Store!Next]_(Store!vars)
  BY StepRefines DEF IInv
<1> QED BY <1>1, <1>2, Invariance, PTL DEF Spec, Atomic, Store!Spec

\* lfs2_dir_fetch always finds a complete commit.
THEOREM AlwaysReadable == ASSUME ~StaysOpen PROVE Spec => []Readable
<1>1. IInv => Readable
  BY StoredIs DEF IInv, Holds, Readable
<1> QED BY <1>1, Invariance, PTL

\* Only erased flash is programmed by an append.
THEOREM AppendsToErased == ASSUME ~StaysOpen PROVE Spec => []ProgsErased
<1>1. IInv => ProgsErased
  <2> SUFFICES ASSUME IInv PROVE ProgsErased
    OBVIOUS
  <2>1. CommitInv
    BY DEF IInv, PairInv
  <2>2. pc = "append" => dir # None
    BY <2>1 DEF CommitInv
  <2> QED BY <2>1, <2>2 DEF CommitInv, ProgsErased
<1> QED BY <1>1, Invariance, PTL
=============================================================================
