----------------------------- MODULE GCHeapInv ------------------------------
(***************************************************************************)
(* The inductive invariant of GCHeap, and what the proofs of its steps     *)
(* share: lemmas on reachability, on chains in the tables, on the scan for *)
(* free blocks and on the free hint.                                       *)
(***************************************************************************)
EXTENDS GCHeap, TLAPS, WellFoundedInduction

(***************************************************************************)
(* Chains and reachability as functions of the tables, so that what is     *)
(* proved of them can be used before and after a step.                     *)
(***************************************************************************)
ChainIn(t, b) == {c \in Blocks : c >= b /\ \A d \in b + 1 .. c : t[d] = AT_TAIL}
TargetsIn(p, q) == ({q[r] : r \in Roots} \cup {p[c] : c \in Blocks}) \ {Nil}
ClosedIn(S, t, p, q) ==
  /\ \A r \in Roots : q[r] # Nil => q[r] \in S
  /\ \A b \in S : \A c \in ChainIn(t, b) : p[c] # Nil => p[c] \in S
\* The pointers of b below word w lead to no unmarked head.
ScannedIn(t, p, b, w) ==
  \A c \in ChainIn(t, b) : c < w /\ p[c] # Nil => t[p[c]] # AT_HEAD
ReachIn(t, p, q) ==
  {b \in TargetsIn(p, q) : \A S \in SUBSET TargetsIn(p, q) : ClosedIn(S, t, p, q) => b \in S}

-----------------------------------------------------------------------------
(***************************************************************************)
(* The inductive invariant.                                                *)
(***************************************************************************)
Allocated(b) == atb[b] \in {AT_HEAD, AT_MARK}

\* In tables t and g, the head h is followed by the tails it was given, and by
\* no other.
ChainAt(t, g, h) ==
  /\ g[h] >= 1 /\ h + g[h] <= NBlocks
  /\ \A d \in Blocks : h < d /\ d < h + g[h] => t[d] = AT_TAIL
  /\ \A d \in Blocks : d = h + g[h] => t[d] # AT_TAIL

ChainGiven == \A h \in Blocks : Allocated(h) => ChainAt(atb, given, h)

LiveAllocated == \A b \in Reachable : Allocated(b)

\* The roots are being scanned for the first time.
FirstPass == phase = "roots" \/ (phase = "mark" /\ mark.from = "roots")
SecondPass == phase = "rescan" \/ (phase = "mark" /\ mark.from = "rescan")
Marking == FirstPass \/ SecondPass

\* Where the loops are, and who holds the lock.
Control ==
  /\ phase = "mutator" => req = NoRequest /\ gc_lock_depth <= MaxLock
  /\ phase = "retry" => req # NoRequest /\ gc_lock_depth = 0
  /\ phase \notin {"mutator", "retry"} => gc_lock_depth >= 1
  /\ FirstPass => cursor \in 1 .. NRoots + 1
  /\ SecondPass \/ phase = "sweep" => cursor \in 0 .. NBlocks
  /\ phase # "mark" => gc_stack = <<>>
  /\ phase = "mark" => mark.word >= mark.block
  /\ phase \in {"mutator", "retry"} => \A b \in Blocks : atb[b] # AT_MARK

\* A request that waits for a collection was made without the lock; the memory
\* it is to move is still there and still owned by the root that asked.
ReqOwner ==
  /\ req # NoRequest /\ phase # "retry" => gc_lock_depth = 1
  /\ req.op = "realloc" => SoleOwner(req.r) /\ req.n > given[root[req.r]]

\* Roots behind the cursor, and marked blocks that are neither waiting on the
\* stack, nor in the hands of gc_mark_subtree, nor still ahead of the rescan,
\* lead to no unmarked head, unless the overflow flag tells that some may.
TriColour ==
  Marking =>
    /\ \A r \in Roots : (FirstPass => r < cursor) /\ root[r] # Nil
                        => atb[root[r]] # AT_HEAD
    /\ \A b \in Blocks : atb[b] = AT_MARK =>
         \/ gc_stack_overflow
         \/ ScannedIn(atb, pool, b, NBlocks)
         \/ \E i \in 1 .. Len(gc_stack) : gc_stack[i] = b
         \/ phase = "mark" /\ b = mark.block /\ ScannedIn(atb, pool, b, mark.word)
         \/ SecondPass /\ b >= cursor

\* While sweeping, what is reachable is marked ahead of the cursor and a head
\* behind it, and tails are freed only behind a freed block.
SweepOK ==
  phase = "sweep" =>
    /\ \A b \in Reachable : atb[b] = IF b < cursor THEN AT_HEAD ELSE AT_MARK
    /\ \A b \in Blocks : b < cursor => atb[b] # AT_MARK
    /\ free_tail => cursor > 0 /\ atb[cursor - 1] = AT_FREE

HeapInv == ChainGiven /\ NoOrphanTail /\ FlagsOnHeads /\ LiveAllocated

IInv == TypeOK /\ HeapInv /\ HintSound /\ Control /\ ReqOwner /\ TriColour /\ SweepOK
-----------------------------------------------------------------------------
\* A set of numbers that is not empty has a least element.
LEMMA LeastNat ==
  ASSUME NEW T, T \subseteq Nat, T # {}
  PROVE  \E x \in T : \A y \in T : x <= y
<1> DEFINE R == OpToRel(<, Nat)
<1>1. IsWellFoundedOn(R, Nat)  BY NatLessThanWellFounded, Zenon
<1>2. \A x, y \in Nat : y < x => <<y, x>> \in R  BY DEF OpToRel
<1> HIDE DEF R
<1>3. PICK x \in T : \A y \in T : ~ (<<y, x>> \in R)  BY <1>1, WFMin, Zenon
<1>4. ASSUME NEW y \in T PROVE x <= y
  <2>1. x \in Nat /\ y \in Nat  OBVIOUS
  <2>2. ~ (y < x)  BY <1>2, <1>3, <2>1, Zenon
  <2> QED  BY <2>1, <2>2
<1> QED  BY <1>4

\* Whole division does not exceed: the byte of the table that holds a block.
LEMMA DivBound ==
  ASSUME NEW x \in Nat, NEW d \in Nat \ {0}
  PROVE  /\ x \div d \in Nat /\ (x \div d) * d <= x /\ x < (x \div d) * d + d
OBVIOUS

\* Products keep the order: the first block of a byte of the table.
LEMMA TimesMono ==
  ASSUME NEW a \in Int, NEW b \in Int, a <= b, NEW d \in Nat \ {0}
  PROVE  a * d <= b * d
OBVIOUS
\* The pool has at least one block (gc_init).
LEMMA NBlocksType == NBlocks \in Nat \ {0}
<1>1. AtbLen \in Nat \ {0} /\ BLOCKS_PER_ATB \in Nat \ {0}  BY GCConstants
<1> QED  BY <1>1 DEF NBlocks

\* The operators of GCHeap are those of this module at the present state.
LEMMA Unfold ==
  /\ Reachable = ReachIn(atb, pool, root)
  /\ Reachable' = ReachIn(atb', pool', root')
  /\ \A b : Chain(b) = ChainIn(atb, b)
  /\ \A b : Chain(b)' = ChainIn(atb', b)
BY DEF Reachable, ReachIn, Targets, TargetsIn, Closed, ClosedIn, Chain, ChainIn

\* Reachable is the least closed set: every closed set contains it.
LEMMA ReachLeast ==
  ASSUME NEW t, NEW p, NEW q, NEW S, ClosedIn(S, t, p, q)
  PROVE  ReachIn(t, p, q) \subseteq S
<1> DEFINE S0 == S \cap TargetsIn(p, q)
<1>1. ClosedIn(S0, t, p, q)
  BY DEF ClosedIn, TargetsIn, ChainIn
<1> QED  BY <1>1 DEF ReachIn

\* And it is closed itself.
LEMMA ReachClosed ==
  ASSUME NEW t, NEW p, NEW q
  PROVE  ClosedIn(ReachIn(t, p, q), t, p, q)
<1>1. \A r \in Roots : q[r] # Nil => q[r] \in ReachIn(t, p, q)
  BY DEF ClosedIn, TargetsIn, ReachIn
<1>2. ASSUME NEW b \in ReachIn(t, p, q), NEW c \in ChainIn(t, b), p[c] # Nil
      PROVE  p[c] \in ReachIn(t, p, q)
  <2>1. c \in Blocks  BY <1>2 DEF ChainIn
  <2>2. p[c] \in TargetsIn(p, q)  BY <1>2, <2>1 DEF TargetsIn
  <2>3. ASSUME NEW S \in SUBSET TargetsIn(p, q), ClosedIn(S, t, p, q)
        PROVE  p[c] \in S
    <3>1. b \in S  BY <1>2, <2>3 DEF ReachIn
    <3> QED  BY <1>2, <2>3, <3>1 DEF ClosedIn
  <2> QED  BY <2>2, <2>3 DEF ReachIn
<1> QED  BY <1>1, <1>2 DEF ClosedIn

\* What the program reaches is a set of blocks.
LEMMA ReachBlocks ==
  ASSUME NEW t, NEW p \in [Blocks -> Words], NEW q \in [Roots -> Words]
  PROVE  ReachIn(t, p, q) \subseteq Blocks
BY DEF ReachIn, TargetsIn, Words

\* Fewer tails, fewer pointers: what is reachable can only become less.
LEMMA ReachShrinks ==
  ASSUME NEW t, NEW p \in [Blocks -> Words], NEW q \in [Roots -> Words],
         NEW t1, NEW p1, NEW q1,
         \A b \in Blocks : t1[b] = AT_TAIL => t[b] = AT_TAIL,
         \A b \in Blocks : p1[b] \in {p[b], Nil},
         \A r \in Roots : q1[r] \in {q[r], Nil}
  PROVE  ReachIn(t1, p1, q1) \subseteq ReachIn(t, p, q)
<1>1. ASSUME NEW b \in Blocks PROVE ChainIn(t1, b) \subseteq ChainIn(t, b)
  BY NBlocksType DEF ChainIn, Blocks
<1>2. ClosedIn(ReachIn(t, p, q), t1, p1, q1)
  <2>1. ClosedIn(ReachIn(t, p, q), t, p, q)  BY ReachClosed
  <2>2. ReachIn(t, p, q) \subseteq Blocks  BY ReachBlocks
  <2>3. \A b \in Blocks : \A c \in ChainIn(t1, b) : c \in Blocks  BY DEF ChainIn
  <2> QED  BY <1>1, <2>1, <2>2, <2>3 DEF ClosedIn
<1> QED  BY <1>2, ReachLeast

\* The chain of a head is what it was given.
LEMMA ChainMember ==
  ASSUME NEW t, NEW d \in Blocks, NEW c \in ChainIn(t, d)
  PROVE  c \in Blocks /\ (c = d \/ t[c] = AT_TAIL)
<1>1. c \in Blocks /\ c >= d /\ \A x \in d + 1 .. c : t[x] = AT_TAIL  BY DEF ChainIn
<1>2. c = d \/ c \in d + 1 .. c  BY <1>1, NBlocksType DEF Blocks
<1> QED  BY <1>1, <1>2

\* The chain that starts at a head has the blocks it was given.
LEMMA ChainOfHead ==
  ASSUME NEW t, NEW g \in [Blocks -> Nat], NEW h \in Blocks, ChainAt(t, g, h)
  PROVE  ChainIn(t, h) = h .. h + g[h] - 1
<1> USE NBlocksType
<1> PICK n \in Nat : n = g[h]  OBVIOUS
<1>0. n >= 1 /\ h + n <= NBlocks  BY DEF ChainAt
<1>1. ASSUME NEW c \in ChainIn(t, h) PROVE c <= h + n - 1
  <2>1. c \in Blocks /\ c >= h /\ \A d \in h + 1 .. c : t[d] = AT_TAIL
    BY <1>1 DEF ChainIn
  <2>2. ASSUME c >= h + n PROVE FALSE
    <3>1. PICK d \in Blocks : d = h + n  BY <2>1, <2>2 DEF Blocks
    <3>2. d \in h + 1 .. c  BY <1>0, <2>1, <2>2, <3>1 DEF Blocks
    <3> QED  BY <2>1, <3>1, <3>2 DEF ChainAt
  <2> QED  BY <2>1, <2>2 DEF Blocks
<1>2. ASSUME NEW c \in h .. h + n - 1 PROVE c \in ChainIn(t, h)
  <2>1. c \in Blocks /\ c >= h  BY <1>0, <1>2 DEF Blocks
  <2>2. ASSUME NEW d \in h + 1 .. c PROVE t[d] = AT_TAIL
    BY <1>0, <1>2, <2>2 DEF Blocks, ChainAt
  <2> QED  BY <2>1, <2>2 DEF ChainIn
<1> QED  BY <1>1, <1>2 DEF ChainIn, Blocks

\* The same of Chain and ChainLen, the operators of GCHeap.
LEMMA HeadChain ==
  ASSUME TypeOK, ChainGiven, NEW h \in Blocks, Allocated(h)
  PROVE  /\ given \in [Blocks -> Nat] /\ given[h] \in Nat \ {0} /\ h + given[h] <= NBlocks
         /\ Chain(h) = h .. h + given[h] - 1
<1>1. given \in [Blocks -> Nat]  BY GCConstants DEF TypeOK
<1>2. ChainAt(atb, given, h)  BY DEF ChainGiven
<1>3. ChainIn(atb, h) = h .. h + given[h] - 1  BY <1>1, <1>2, ChainOfHead
<1> QED  BY <1>1, <1>2, <1>3, Unfold DEF ChainAt

\* To show that the program only reaches allocated blocks after a step, give a
\* closed set of such blocks.
LEMMA LiveByClosedSet ==
  ASSUME NEW S, ClosedIn(S, atb', pool', root'), \A b \in S : Allocated(b)'
  PROVE  LiveAllocated'
BY Unfold, ReachLeast DEF LiveAllocated

\* gc_init establishes the invariant.
LEMMA InitIInv == Init => IInv
<1> SUFFICES ASSUME Init PROVE IInv  OBVIOUS
<1> USE NBlocksType, GCConstants
<1>1. TypeOK
  <2>1. ftb \in [Blocks -> BOOLEAN] /\ gc_auto_collect_enabled \in BOOLEAN
        /\ gc_stack_overflow \in BOOLEAN /\ free_tail \in BOOLEAN
    BY Zenon DEF Init
  <2>2. mark \in [block : Blocks, word : Nat, from : {"roots", "rescan"}]
    BY DEF Init, NoMark, Blocks
  <2>3. req \in Requests  BY DEF Init, Requests
  <2> QED  BY <2>1, <2>2, <2>3 DEF Init, TypeOK, Words, Kinds
<1>2. Reachable = {}
  <2>1. ClosedIn({}, atb, pool, root)  BY DEF ClosedIn, Init
  <2> QED  BY <2>1, Unfold, ReachLeast
<1>3. HeapInv
  BY <1>2 DEF HeapInv, Init, ChainGiven, NoOrphanTail, FlagsOnHeads, LiveAllocated, Allocated,
              AT_FREE, AT_HEAD, AT_TAIL, AT_MARK
<1>4. HintSound  BY DEF HintSound, Init, Blocks
<1>5. Control /\ ReqOwner /\ TriColour /\ SweepOK
  BY DEF Control, ReqOwner, TriColour, SweepOK, Init, NoRequest, Marking, FirstPass,
         SecondPass, AT_FREE, AT_MARK
<1> QED  BY <1>1, <1>3, <1>4, <1>5 DEF IInv
-----------------------------------------------------------------------------
(***************************************************************************)
(* Steps of the program.  After one that starts no collection, only the    *)
(* heap's part of the invariant says anything.                             *)
(***************************************************************************)
LEMMA MutatorIInv ==
  ASSUME TypeOK', HeapInv', HintSound', phase' = "mutator", req' = NoRequest,
         gc_stack' = <<>>, gc_lock_depth' <= MaxLock,
         \A b \in Blocks : atb'[b] # AT_MARK
  PROVE  IInv'
<1>1. (Control /\ ReqOwner /\ TriColour /\ SweepOK)'
  BY DEF Control, ReqOwner, TriColour, SweepOK, NoRequest, Marking, FirstPass, SecondPass
<1> QED  BY <1>1 DEF IInv

\* A step that leaves the tables alone.
LEMMA TablesUnchanged ==
  ASSUME IInv, phase = "mutator",
         UNCHANGED <<atb, ftb, given, gc_last_free_atb_index, gc_alloc_amount, collectorVars>>,
         pool' \in [Blocks -> Words], root' \in [Roots -> Words],
         gc_lock_depth' \in 0 .. MaxLock, gc_auto_collect_enabled' \in BOOLEAN,
         LiveAllocated'
  PROVE  IInv'
<1> USE NBlocksType, GCConstants
<1>1. TypeOK'
  <2>1. (ftb \in [Blocks -> BOOLEAN])' /\ (gc_stack_overflow \in BOOLEAN)'
        /\ (free_tail \in BOOLEAN)'
    BY DEF IInv, TypeOK, collectorVars
  <2>2. gc_auto_collect_enabled' \in BOOLEAN  OBVIOUS
  <2> QED  BY <2>1, <2>2 DEF IInv, TypeOK, collectorVars
<1>2. HeapInv'
  BY DEF IInv, HeapInv, ChainGiven, NoOrphanTail, FlagsOnHeads, Allocated, collectorVars
<1>3. HintSound'  BY DEF IInv, HintSound, collectorVars
<1>4. phase' = "mutator" /\ req' = NoRequest /\ gc_stack' = <<>>
      /\ gc_lock_depth' <= MaxLock /\ \A b \in Blocks : atb'[b] # AT_MARK
  BY DEF IInv, Control, collectorVars
<1> QED  BY <1>1, <1>2, <1>3, <1>4, MutatorIInv

\* The program moves pointers between roots and blocks it reaches.
LEMMA PointerIInv ==
  ASSUME IInv, NEW r \in Roots, NEW s \in Roots, NEW c,
         Load(r, s, c) \/ Store(r, s, c) \/ Drop(r)
  PROVE  IInv'
<1> USE NBlocksType, GCConstants
<1> PICK R : R = Reachable  OBVIOUS
<1>1. ClosedIn(R, atb, pool, root)  BY Unfold, ReachClosed
<1>2. R \subseteq Blocks  BY Unfold, ReachBlocks, Zenon DEF IInv, TypeOK
<1>3. /\ atb' = atb
      /\ UNCHANGED <<ftb, given, gc_last_free_atb_index, gc_alloc_amount, collectorVars>>
      /\ phase = "mutator" /\ gc_lock_depth' = gc_lock_depth
      /\ gc_auto_collect_enabled' = gc_auto_collect_enabled
  BY DEF Load, Store, Drop, mutatorVars
<1>4. /\ pool' \in [Blocks -> Words] /\ root' \in [Roots -> Words]
      /\ ClosedIn(R, atb, pool', root')
  <2>0. pool \in [Blocks -> Words] /\ root \in [Roots -> Words]  BY DEF IInv, TypeOK
  <2>1. CASE Load(r, s, c)
    <3>1. root' = [root EXCEPT ![r] = pool[c]] /\ pool' = pool
          /\ root[s] # Nil /\ c \in ChainIn(atb, root[s])
      BY <2>1, Unfold DEF Load
    <3>2. c \in Blocks  BY <3>1 DEF ChainIn
    <3> QED  BY <1>1, <2>0, <3>1, <3>2 DEF ClosedIn
  <2>2. CASE Store(r, s, c)
    <3>1. pool' = [pool EXCEPT ![c] = root[r]] /\ root' = root
          /\ root[s] # Nil /\ c \in ChainIn(atb, root[s])
      BY <2>2, Unfold DEF Store, mutatorVars
    <3>2. \A b, d : d \in ChainIn(atb, b) => d \in Blocks  BY DEF ChainIn
    <3> QED  BY <1>1, <2>0, <3>1, <3>2 DEF ClosedIn
  <2>3. CASE Drop(r)
    BY <1>1, <2>0, <2>3 DEF ClosedIn, Drop, Words
  <2> QED  BY <2>1, <2>2, <2>3
<1>5. LiveAllocated'
  <2>1. \A b \in R : Allocated(b)'
    BY <1>3 DEF IInv, HeapInv, LiveAllocated, Allocated
  <2> QED  BY <1>3, <1>4, <2>1, LiveByClosedSet
<1>6. gc_lock_depth' \in 0 .. MaxLock /\ gc_auto_collect_enabled' \in BOOLEAN
  BY <1>3 DEF IInv, TypeOK, Control
<1> QED  BY <1>3, <1>4, <1>5, <1>6, TablesUnchanged

\* gc_lock, gc_unlock and gc.enable keep the invariant.
LEMMA LockIInv ==
  ASSUME IInv, gc_lock \/ gc_unlock \/ \E on \in AutoCollect : gc_enable(on)
  PROVE  IInv'
<1> USE NBlocksType, GCConstants
<1>1. /\ UNCHANGED <<atb, ftb, pool, root, given, gc_last_free_atb_index, gc_alloc_amount, collectorVars>>
      /\ phase = "mutator"
  BY DEF gc_lock, gc_unlock, gc_enable
<1>2. gc_lock_depth' \in 0 .. MaxLock
  BY DEF gc_lock, gc_unlock, gc_enable, IInv, TypeOK, Control
<1>3. gc_auto_collect_enabled' \in BOOLEAN
  BY DEF gc_lock, gc_unlock, gc_enable, IInv, TypeOK
<1>4. LiveAllocated'
  BY <1>1, Unfold DEF IInv, HeapInv, LiveAllocated, Allocated
<1> QED  BY <1>1, <1>2, <1>3, <1>4, TablesUnchanged DEF IInv, TypeOK
-----------------------------------------------------------------------------
(***************************************************************************)
(* The tables outside a sweep: chains as they were given, no tail without  *)
(* its chain.  Placing, extending and cutting a chain keeps them so.       *)
(***************************************************************************)
WellFormed(t, g) ==
  /\ \A h \in Blocks : t[h] \in {AT_HEAD, AT_MARK} => ChainAt(t, g, h)
  /\ \A b \in Blocks : t[b] = AT_TAIL => b > 0
  /\ \A b, c \in Blocks : t[b] = AT_TAIL /\ c = b - 1 => t[c] # AT_FREE

\* The last block of a chain is not free.
LEMMA LastBlock ==
  ASSUME NEW t, NEW g \in [Blocks -> Nat], NEW h \in Blocks,
         t[h] \in {AT_HEAD, AT_MARK}, ChainAt(t, g, h)
  PROVE  \E l \in Blocks : l = h + g[h] - 1 /\ t[l] # AT_FREE
<1> USE NBlocksType DEF Blocks, ChainAt, AT_FREE, AT_HEAD, AT_TAIL, AT_MARK
<1>1. PICK l \in Blocks : l = h + g[h] - 1  OBVIOUS
<1>2. l = h \/ (h < l /\ l < h + g[h])  BY <1>1
<1> QED  BY <1>1, <1>2, Zenon

\* The chains of two heads do not meet.
LEMMA ChainsDisjoint ==
  ASSUME NEW t, NEW g \in [Blocks -> Nat], NEW h \in Blocks, NEW b \in Blocks, h # b,
         t[h] \in {AT_HEAD, AT_MARK}, ChainAt(t, g, h),
         t[b] \in {AT_HEAD, AT_MARK}, ChainAt(t, g, b)
  PROVE  h + g[h] <= b \/ b + g[b] <= h
BY NBlocksType DEF Blocks, ChainAt, AT_HEAD, AT_TAIL, AT_MARK

\* The block before one of a run, without its first, is of the run.
LEMMA BlockBefore ==
  ASSUME NEW s \in Nat, NEW n \in Nat, NEW d \in Nat, d \in s + 1 .. s + n - 1, NEW l, l = d - 1
  PROVE  l \in s .. s + n - 1
OBVIOUS

\* A chain placed in a run of free blocks leaves the table well-formed.
LEMMA PlaceRun ==
  ASSUME NEW t \in [Blocks -> Kinds], NEW g \in [Blocks -> Nat], WellFormed(t, g),
         NEW s \in Blocks, NEW n \in Nat \ {0}, s + n <= NBlocks,
         \A j \in s .. s + n - 1 : t[j] = AT_FREE,
         NEW t1, t1 = [b \in Blocks |-> IF b = s THEN AT_HEAD
                         ELSE IF b \in s + 1 .. s + n - 1 THEN AT_TAIL ELSE t[b]],
         NEW g1, g1 = [g EXCEPT ![s] = n]
  PROVE  WellFormed(t1, g1)
<1> USE NBlocksType DEF Blocks, AT_FREE, AT_HEAD, AT_TAIL, AT_MARK
<1>0. \A d \in Blocks : s + n = d => t[d] # AT_TAIL
  <2>1. PICK l \in Blocks : l = s + n - 1  OBVIOUS
  <2>2. t[l] = AT_FREE  BY <2>1
  <2> QED  BY <2>1, <2>2 DEF WellFormed
<1>1. ASSUME NEW h \in Blocks, t1[h] \in {AT_HEAD, AT_MARK} PROVE ChainAt(t1, g1, h)
  <2>1. CASE h = s
    BY <1>0, <1>1, <2>1 DEF ChainAt
  <2>2. CASE h # s
    <3>1. t[h] \in {AT_HEAD, AT_MARK} /\ g1[h] = g[h] /\ g[h] \in Nat  BY <1>1, <2>2
    <3>2. ChainAt(t, g, h)  BY <3>1 DEF WellFormed
    <3>3. PICK l \in Blocks : l = h + g[h] - 1 /\ t[l] # AT_FREE  BY <3>1, <3>2, LastBlock, Zenon
    <3>4. \A d \in Blocks : h < d /\ d < h + g[h] => t1[d] = AT_TAIL
      BY <3>1, <3>2 DEF ChainAt
    <3>5. \A d \in Blocks : d = h + g[h] => t1[d] # AT_TAIL
      <4> SUFFICES ASSUME NEW d \in Blocks, d = h + g[h], t1[d] = AT_TAIL PROVE FALSE
        BY <3>1
      <4>1. t[d] # AT_TAIL  BY <3>2 DEF ChainAt
      <4>2. d \in s + 1 .. s + n - 1
        <5>1. d # s  OBVIOUS
        <5>2. t1[d] # t[d]  BY <4>1
        <5> QED  BY <5>1, <5>2
      <4>3. l \in s .. s + n - 1
        <5>1. l = d - 1  BY <3>1, <3>3
        <5>2. d \in Nat /\ s \in Nat /\ n \in Nat  OBVIOUS
        <5> QED  BY <4>2, <5>1, <5>2, BlockBefore, Zenon
      <4> QED  BY <3>3, <4>3
    <3> QED  BY <3>1, <3>2, <3>4, <3>5 DEF ChainAt
  <2> QED  BY <2>1, <2>2
<1>2. ASSUME NEW b \in Blocks, t1[b] = AT_TAIL
      PROVE  b > 0 /\ \A c \in Blocks : c = b - 1 => t1[c] # AT_FREE
  BY <1>2 DEF WellFormed
<1> QED  BY <1>1, <1>2, Zenon DEF WellFormed

\* Two chains that do not meet do not end at the same block.
LEMMA EndsApart ==
  ASSUME NEW h \in Int, NEW b \in Int, NEW i \in Nat \ {0}, NEW k \in Nat \ {0},
         h + i <= b \/ b + k <= h
  PROVE  h + i # b + k
OBVIOUS

\* So does a chain that grows into the free blocks behind it.
LEMMA ExtendRun ==
  ASSUME NEW t \in [Blocks -> Kinds], NEW g \in [Blocks -> Nat], WellFormed(t, g),
         NEW b \in Blocks, t[b] \in {AT_HEAD, AT_MARK}, NEW n \in Nat, n > g[b], b + n <= NBlocks,
         \A j \in b + g[b] .. b + n - 1 : t[j] = AT_FREE,
         NEW t1, t1 = [c \in Blocks |-> IF c \in b + g[b] .. b + n - 1 THEN AT_TAIL ELSE t[c]],
         NEW g1, g1 = [g EXCEPT ![b] = n]
  PROVE  WellFormed(t1, g1)
<1> USE NBlocksType DEF Blocks, AT_FREE, AT_HEAD, AT_TAIL, AT_MARK
<1> PICK k \in Nat : k = g[b]  OBVIOUS
<1>0. ChainAt(t, g, b)  BY DEF WellFormed
<1>1. ASSUME NEW h \in Blocks, t1[h] \in {AT_HEAD, AT_MARK} PROVE ChainAt(t1, g1, h)
  <2>1. CASE h = b
    <3>1. PICK l \in Blocks : l = b + n - 1  OBVIOUS
    <3>2. t[l] = AT_FREE  BY <1>0, <3>1 DEF ChainAt
    <3>3. \A d \in Blocks : d = b + n => t1[d] # AT_TAIL  BY <3>1, <3>2 DEF WellFormed
    <3> QED  BY <1>0, <2>1, <3>3 DEF ChainAt
  <2>2. CASE h # b
    <3>1. t[h] \in {AT_HEAD, AT_MARK} /\ g1[h] = g[h] /\ g[h] \in Nat  BY <1>1, <2>2
    <3>2. ChainAt(t, g, h)  BY <3>1 DEF WellFormed
    <3>3. PICK l \in Blocks : l = h + g[h] - 1 /\ t[l] # AT_FREE  BY <3>1, <3>2, LastBlock, ZenonT(30)
    <3>4. \A d \in Blocks : h < d /\ d < h + g[h] => t1[d] = AT_TAIL
      BY <3>1, <3>2 DEF ChainAt
    <3>5. h + g[h] <= b \/ b + k <= h  BY <1>0, <2>2, <3>1, <3>2, ChainsDisjoint, Zenon
    <3>6. ASSUME NEW d \in Blocks, d = h + g[h], t1[d] = AT_TAIL PROVE FALSE
      <4>1. t[d] # AT_TAIL  BY <3>2, <3>6 DEF ChainAt
      <4>2. d \in b + k .. b + n - 1  BY <3>6, <4>1
      <4>3. PICK i \in Nat \ {0} : i = g[h]  BY <3>1, <3>2 DEF ChainAt
      <4>4. k \in Nat \ {0} /\ (h + i <= b \/ b + k <= h)
        BY <1>0, <3>5, <4>3 DEF ChainAt
      <4>5. d = h + i  BY <3>6, <4>3
      <4>6. d # b + k  BY <4>4, <4>5, EndsApart
      <4>7. l = d - 1  BY <3>3, <4>3, <4>5
      <4>8. l \in b + k .. b + n - 1  BY <4>2, <4>6, <4>7
      <4> QED  BY <3>3, <4>8
    <3> QED  BY <3>1, <3>2, <3>4, <3>6 DEF ChainAt
  <2> QED  BY <2>1, <2>2
<1>2. ASSUME NEW c \in Blocks, t1[c] = AT_TAIL
      PROVE  c > 0 /\ \A d \in Blocks : d = c - 1 => t1[d] # AT_FREE
  <2>1. PICK l \in Blocks : l = b + k - 1 /\ t[l] # AT_FREE  BY <1>0, LastBlock, ZenonT(60)
  <2>2. CASE t[c] = AT_TAIL  BY <2>2 DEF WellFormed
  <2>3. CASE c \in b + k .. b + n - 1
    <3>1. c > 0  BY <1>0, <2>3 DEF ChainAt
    <3>2. ASSUME NEW d \in Blocks, d = c - 1 PROVE t1[d] # AT_FREE
      <4>1. CASE c = b + k  BY <2>1, <3>2, <4>1
      <4>2. CASE c # b + k
        <5>1. d \in b + k .. b + n - 1  BY <2>3, <3>2, <4>2
        <5> QED  BY <5>1
      <4> QED  BY <4>1, <4>2
    <3> QED  BY <3>1, <3>2
  <2> QED  BY <1>2, <2>2, <2>3
<1> QED  BY <1>1, <1>2, Zenon DEF WellFormed

\* The chain of b is cut to its first m blocks; gc_free cuts it to none.
LEMMA CutRun ==
  ASSUME NEW t \in [Blocks -> Kinds], NEW g \in [Blocks -> Nat], WellFormed(t, g),
         NEW b \in Blocks, t[b] \in {AT_HEAD, AT_MARK}, NEW m \in Nat, m <= g[b],
         NEW t1, t1 = [c \in Blocks |-> IF c \in b + m .. b + g[b] - 1 THEN AT_FREE ELSE t[c]],
         NEW g1, g1 = [g EXCEPT ![b] = m]
  PROVE  WellFormed(t1, g1)
<1> USE NBlocksType DEF Blocks, AT_FREE, AT_HEAD, AT_TAIL, AT_MARK
<1>0. ChainAt(t, g, b)  BY DEF WellFormed
<1>1. ASSUME NEW h \in Blocks, t1[h] \in {AT_HEAD, AT_MARK} PROVE ChainAt(t1, g1, h)
  <2>1. CASE h = b
    <3>1. m >= 1  BY <1>0, <1>1, <2>1 DEF ChainAt
    <3>2. g1[h] = m  BY <2>1
    <3>3. ASSUME NEW d \in Blocks, h < d, d < h + m PROVE t1[d] = AT_TAIL
      BY <1>0, <2>1, <3>3 DEF ChainAt
    <3>4. ASSUME NEW d \in Blocks, d = h + m PROVE t1[d] # AT_TAIL
      <4>1. CASE m = g[b]  BY <1>0, <2>1, <3>4, <4>1 DEF ChainAt
      <4>2. CASE m # g[b]
        <5>1. d \in b + m .. b + g[b] - 1  BY <2>1, <3>4, <4>2
        <5> QED  BY <5>1
      <4> QED  BY <4>1, <4>2
    <3> QED  BY <1>0, <2>1, <3>1, <3>2, <3>3, <3>4 DEF ChainAt
  <2>2. CASE h # b
    <3>1. t[h] \in {AT_HEAD, AT_MARK} /\ g1[h] = g[h] /\ g[h] \in Nat  BY <1>1, <2>2
    <3>2. ChainAt(t, g, h)  BY <3>1 DEF WellFormed
    <3>3. h + g[h] <= b \/ b + g[b] <= h  BY <1>0, <2>2, <3>1, <3>2, ChainsDisjoint, Zenon
    <3>4. ASSUME NEW d \in Blocks, h < d, d < h + g[h] PROVE t1[d] = AT_TAIL
      <4>1. t[d] = AT_TAIL  BY <3>2, <3>4 DEF ChainAt
      <4>2. d \notin b + m .. b + g[b] - 1  BY <3>3, <3>4
      <4> QED  BY <4>1, <4>2
    <3>5. ASSUME NEW d \in Blocks, d = h + g[h] PROVE t1[d] # AT_TAIL
      BY <3>2, <3>5 DEF ChainAt
    <3> QED  BY <3>1, <3>2, <3>4, <3>5, Zenon DEF ChainAt
  <2> QED  BY <2>1, <2>2
<1>2. ASSUME NEW c \in Blocks, t1[c] = AT_TAIL
      PROVE  c > 0 /\ \A d \in Blocks : d = c - 1 => t1[d] # AT_FREE
  <2>1. t[c] = AT_TAIL /\ c \notin b + m .. b + g[b] - 1  BY <1>2
  <2>2. c > 0  BY <2>1 DEF WellFormed
  <2>3. ASSUME NEW d \in Blocks, d = c - 1 PROVE t1[d] # AT_FREE
    <3>1. t[d] # AT_FREE  BY <2>1, <2>3 DEF WellFormed
    <3>2. ASSUME d \in b + m .. b + g[b] - 1 PROVE FALSE
      <4>1. c = b + g[b]  BY <2>1, <2>3, <3>2
      <4> QED  BY <1>0, <2>1, <4>1, Zenon DEF ChainAt
    <3> QED  BY <3>1, <3>2
  <2> QED  BY <2>2, <2>3
<1> QED  BY <1>1, <1>2, Zenon DEF WellFormed

\* The invariant gives well-formed tables outside a sweep, and is given by them.
LEMMA TablesBefore ==
  ASSUME IInv, phase # "sweep"
  PROVE  /\ WellFormed(atb, given)
         /\ atb \in [Blocks -> Kinds] /\ given \in [Blocks -> Nat]
         /\ pool \in [Blocks -> Words] /\ root \in [Roots -> Words]
<1>1. ASSUME NEW b \in Blocks, NEW c \in Blocks, atb[b] = AT_TAIL, c = b - 1
      PROVE  atb[c] # AT_FREE
  BY <1>1 DEF IInv, HeapInv, NoOrphanTail
<1>2. atb \in [Blocks -> Kinds] /\ given \in [Blocks -> Nat]
      /\ pool \in [Blocks -> Words] /\ root \in [Roots -> Words]
  BY GCConstants DEF IInv, TypeOK
<1> QED  BY <1>1, <1>2 DEF IInv, HeapInv, ChainGiven, NoOrphanTail, Allocated, WellFormed

\* A well-formed table is what HeapInv asks of the next state.
LEMMA TablesAfter ==
  ASSUME WellFormed(atb', given')
  PROVE  ChainGiven' /\ NoOrphanTail'
<1>1. ASSUME NEW b \in Blocks, atb'[b] = AT_TAIL PROVE b > 0 /\ atb'[b - 1] # AT_FREE
  <2>1. b > 0  BY <1>1 DEF WellFormed
  <2>2. PICK c \in Blocks : c = b - 1  BY <2>1, NBlocksType DEF Blocks
  <2> QED  BY <1>1, <2>1, <2>2 DEF WellFormed
<1> QED  BY <1>1 DEF WellFormed, ChainGiven, NoOrphanTail, Allocated

\* gc_alloc takes the first of the runs that are long enough.
LEMMA FirstRunType ==
  ASSUME TypeOK, NEW n \in Nat \ {0}, RunEnds(n) # {}
  PROVE  /\ FirstRun(n) \in RunEnds(n)
         /\ \A j \in RunEnds(n) : FirstRun(n) <= j
<1>1. RunEnds(n) \subseteq Nat  BY NBlocksType DEF RunEnds, Blocks
<1>2. \E x \in RunEnds(n) : \A y \in RunEnds(n) : x <= y  BY <1>1, LeastNat
<1> QED  BY <1>2 DEF FirstRun

\* The free hint is a natural number, and so is the first block it stands for.
LEMMA HintType ==
  ASSUME TypeOK
  PROVE  /\ gc_last_free_atb_index \in Nat
         /\ gc_last_free_atb_index * BLOCKS_PER_ATB \in Nat
<1>1. gc_last_free_atb_index \in Nat /\ BLOCKS_PER_ATB \in Nat  BY GCConstants DEF TypeOK
<1> QED  BY <1>1

\* The run that is taken: n free blocks from s on, and for a single block, no
\* free block between the hint and it.
LEMMA RunTaken ==
  ASSUME TypeOK, NEW n \in Nat \ {0}, RunEnds(n) # {}, NEW s, s = FirstRun(n) - n + 1
  PROVE  /\ s \in Blocks /\ s + n <= NBlocks
         /\ FirstRun(n) \in Blocks /\ FirstRun(n) = s + n - 1
         /\ \A j \in s .. s + n - 1 : atb[j] = AT_FREE
         /\ n = 1 => \A j \in Blocks : gc_last_free_atb_index * BLOCKS_PER_ATB <= j /\ j < s
                                       => atb[j] # AT_FREE
<1> USE NBlocksType
<1>0. PICK lo \in Nat : lo = gc_last_free_atb_index * BLOCKS_PER_ATB  BY HintType
<1>1. PICK e : e = FirstRun(n)  OBVIOUS
<1>2. e \in RunEnds(n) /\ \A j \in RunEnds(n) : e <= j  BY <1>1, FirstRunType
<1>3. e \in Blocks /\ e - n + 1 >= lo /\ \A j \in e - n + 1 .. e : atb[j] = AT_FREE
  BY <1>0, <1>2 DEF RunEnds
<1>4. s \in Blocks /\ s + n <= NBlocks /\ e = s + n - 1  BY <1>1, <1>3 DEF Blocks
<1>5. \A j \in s .. s + n - 1 : atb[j] = AT_FREE  BY <1>3, <1>4 DEF Blocks
<1>6. ASSUME n = 1, NEW j \in Blocks, lo <= j, j < s, atb[j] = AT_FREE PROVE FALSE
  <2>1. j - n + 1 = j  BY <1>6 DEF Blocks
  <2>2. j \in RunEnds(n)  BY <1>0, <1>6, <2>1 DEF RunEnds, Blocks
  <2> QED  BY <1>2, <1>4, <1>6, <2>2 DEF Blocks
<1> QED  BY <1>0, <1>1, <1>3, <1>4, <1>5, <1>6, Zenon

\* The hint after an allocation is sound.
LEMMA HintAlloc ==
  ASSUME TypeOK, NEW n \in Nat \ {0}, RunEnds(n) # {}, NEW s, s = FirstRun(n) - n + 1,
         \A b \in Blocks : b < gc_last_free_atb_index * BLOCKS_PER_ATB => atb[b] # AT_FREE,
         NEW h, h = HintAfterAlloc(n, FirstRun(n))
  PROVE  /\ h \in 0 .. AtbLen
         /\ \A b \in Blocks : b < h * BLOCKS_PER_ATB /\ b # s => atb[b] # AT_FREE
<1> USE NBlocksType
<1>1. CASE n # 1
  BY <1>1 DEF HintAfterAlloc, TypeOK
<1>2. CASE n = 1
  <2>1. s \in Blocks /\ FirstRun(n) = s  BY <1>2, RunTaken DEF Blocks
  <2>2. PICK lo \in Nat : lo = gc_last_free_atb_index * BLOCKS_PER_ATB  BY HintType
  <2>3. PICK x \in Nat : x = s + 1  BY <2>1 DEF Blocks
  <2>4. h = x \div BLOCKS_PER_ATB  BY <1>2, <2>1, <2>3 DEF HintAfterAlloc
  <2>5. BLOCKS_PER_ATB \in Nat \ {0} /\ AtbLen \in Nat \ {0}  BY GCConstants
  <2>6. h \in Nat /\ h * BLOCKS_PER_ATB <= x  BY <2>4, <2>5, DivBound
  <2>7. x <= AtbLen * BLOCKS_PER_ATB  BY <2>1, <2>3 DEF Blocks, NBlocks
  <2>8. h <= AtbLen
    <3>1. ASSUME AtbLen < h PROVE FALSE
      <4>1. (AtbLen + 1) * BLOCKS_PER_ATB <= h * BLOCKS_PER_ATB
        BY <2>5, <2>6, <3>1, TimesMono
      <4>2. (AtbLen + 1) * BLOCKS_PER_ATB = AtbLen * BLOCKS_PER_ATB + BLOCKS_PER_ATB
        BY <2>5
      <4> QED  BY <2>5, <2>6, <2>7, <4>1, <4>2
    <3> QED  BY <2>5, <2>6, <3>1
  <2>9. PICK top \in Nat : top = h * BLOCKS_PER_ATB /\ top <= x  BY <2>5, <2>6
  <2>10. ASSUME NEW b \in Blocks, b < top, b # s PROVE atb[b] # AT_FREE
    <3>1. top <= x  BY <2>9
    <3>2. b < s  BY <2>1, <2>3, <2>10, <3>1 DEF Blocks
    <3>3. n = 1 => \A j \in Blocks : lo <= j /\ j < s => atb[j] # AT_FREE
      BY <2>2, RunTaken
    <3> QED  BY <1>2, <2>2, <3>2, <3>3 DEF Blocks
  <2> QED  BY <2>6, <2>8, <2>9, <2>10, <2>5
<1> QED  BY <1>1, <1>2, Zenon
=============================================================================
