------------------------------- MODULE GCHeap -------------------------------
(***************************************************************************)
(* The memory manager of the runtime (py/gc.c): a pool of blocks, the      *)
(* allocation table (ATB) with two bits per block, the finaliser table     *)
(* (FTB) with one, first-fit allocation with a free-block hint, in-place   *)
(* and moving reallocation, and the mark and sweep collector with a mark   *)
(* stack of fixed size.                                                    *)
(*                                                                         *)
(* The program using the heap (the mutator) holds pointers in "root" (the  *)
(* roots of mp_state_ctx, the registers and the C stack) and in the blocks *)
(* it allocated, of which one pointer per block is modelled.  It holds     *)
(* pointers to heads only, and frees, or reallocates, memory to which it   *)
(* holds the only pointer.  The collector runs one pointer at a time.      *)
(***************************************************************************)
EXTENDS Integers, Sequences, FiniteSets

CONSTANTS AtbLen,         \* gc_alloc_table_byte_len
          BLOCKS_PER_ATB,
          StackSize,      \* MICROPY_ALLOC_GC_STACK_SIZE
          NRoots,         \* number of root pointers
          MaxRequest,     \* bound on the blocks of one request
          Resizes,        \* the sizes the program asks of gc_realloc
          MaxLock,        \* bound on the nesting of gc_lock
          Threshold,      \* gc_alloc_threshold, in blocks; -1 turns it off
          Finalisers,     \* the values of has_finaliser the program asks for
          AutoCollect,    \* what it sets gc_auto_collect_enabled to
          Stores          \* the blocks it stores pointers in

ASSUME GCConstants ==
  /\ AtbLen \in Nat \ {0} /\ BLOCKS_PER_ATB \in Nat \ {0}
  /\ StackSize \in Nat /\ NRoots \in Nat /\ MaxRequest \in Nat
  /\ MaxLock \in Nat /\ Threshold \in Nat \cup {-1}
  /\ Finalisers \subseteq BOOLEAN /\ AutoCollect \subseteq BOOLEAN
  /\ Stores \subseteq Nat /\ Resizes \subseteq 1 .. MaxRequest

VARIABLES atb,                      \* kind of every block
          ftb,                      \* finaliser flag of every block
          pool,                     \* the pointer stored in every block
          root,                     \* the root pointers
          gc_last_free_atb_index,   \* no free block below this ATB
          gc_lock_depth,
          gc_auto_collect_enabled,
          gc_alloc_amount,          \* blocks since the last collection
          phase,                    \* what is executing
          cursor,                   \* loop variable of the phase
          mark,                     \* gc_mark_subtree: block, word, caller
          gc_stack,
          gc_stack_overflow,
          free_tail,                \* gc_sweep
          req,                      \* allocation that waits for a collection
          given                     \* blocks promised to the holder of a head

mutatorVars == <<root, gc_lock_depth, gc_auto_collect_enabled, gc_alloc_amount>>
collectorVars == <<phase, cursor, mark, gc_stack, gc_stack_overflow, free_tail, req>>
vars == <<atb, ftb, pool, gc_last_free_atb_index, given, mutatorVars,
          collectorVars>>

NBlocks == AtbLen * BLOCKS_PER_ATB
Blocks == 0 .. NBlocks - 1
Nil == -1                      \* any word that VERIFY_PTR rejects
Words == Blocks \cup {Nil}
Roots == 1 .. NRoots

AT_FREE == "free"
AT_HEAD == "head"
AT_TAIL == "tail"
AT_MARK == "mark"
Kinds == {AT_FREE, AT_HEAD, AT_TAIL, AT_MARK}

(***************************************************************************)
(* The FTB lies directly behind the ATB, and reading the kind of a block   *)
(* behind the pool reads two finaliser flags: kind b is their bits 2k and  *)
(* 2k + 1 for b = NBlocks + k, and AT_TAIL is 0b10.  (Reads behind the FTB *)
(* as well are taken not to yield AT_TAIL.)                                *)
(***************************************************************************)
ATB_GET_KIND(b) ==
  IF b \in Blocks THEN atb[b]
  ELSE LET k == 2 * (b - NBlocks) IN
       IF k + 1 \in Blocks /\ ftb[k + 1] /\ ~ftb[k] THEN AT_TAIL ELSE AT_FREE

\* The blocks of the chain at b that lie in the pool.
Chain(b) == {c \in Blocks : c >= b /\ \A d \in b + 1 .. c : atb[d] = AT_TAIL}

NoMark == [block |-> 0, word |-> 0, from |-> "roots"]
NoRequest == [op |-> "none", n |-> 0, fin |-> FALSE, r |-> 0]
Requests == [op : {"alloc", "realloc"}, n : 1 .. MaxRequest, fin : BOOLEAN, r : Roots]
            \cup {NoRequest}

Init ==
  /\ atb = [b \in Blocks |-> AT_FREE]
  /\ ftb = [b \in Blocks |-> FALSE]
  /\ pool = [b \in Blocks |-> Nil]
  /\ root = [r \in Roots |-> Nil]
  /\ gc_last_free_atb_index = 0
  /\ gc_lock_depth = 0
  /\ gc_auto_collect_enabled = TRUE
  /\ gc_alloc_amount = 0
  /\ phase = "mutator" /\ cursor = 0 /\ mark = NoMark
  /\ gc_stack = <<>> /\ gc_stack_overflow = FALSE /\ free_tail = FALSE
  /\ req = NoRequest
  /\ given = [b \in Blocks |-> 0]
-----------------------------------------------------------------------------
\* The blocks something points to.
Targets == ({root[r] : r \in Roots} \cup {pool[c] : c \in Blocks}) \ {Nil}

\* A set that holds the roots and, with a head, what its chain points to.
Closed(S) ==
  /\ \A r \in Roots : root[r] # Nil => root[r] \in S
  /\ \A b \in S : \A c \in Chain(b) : pool[c] # Nil => pool[c] \in S

\* The heads the mutator can still get at: the least closed set.
Reachable == {b \in Targets : \A S \in SUBSET Targets : Closed(S) => b \in S}

\* Root r holds the only pointer to its block.
SoleOwner(r) ==
  /\ root[r] # Nil
  /\ \A q \in Roots \ {r} : root[q] # root[r]
  /\ \A b \in Reachable : \A c \in Chain(b) : pool[c] # root[r]
-----------------------------------------------------------------------------
(***************************************************************************)
(* The mutator moves pointers between roots and the blocks it reaches.     *)
(***************************************************************************)
Load(r, s, c) ==
  /\ phase = "mutator"
  /\ root[s] # Nil /\ c \in Chain(root[s])
  /\ root' = [root EXCEPT ![r] = pool[c]]
  /\ UNCHANGED <<atb, ftb, pool, gc_last_free_atb_index, given, gc_lock_depth,
                 gc_auto_collect_enabled, gc_alloc_amount, collectorVars>>

Store(r, s, c) ==
  /\ phase = "mutator"
  /\ root[s] # Nil /\ c \in Chain(root[s])
  /\ pool' = [pool EXCEPT ![c] = root[r]]
  /\ UNCHANGED <<atb, ftb, gc_last_free_atb_index, given, mutatorVars,
                 collectorVars>>

Drop(r) ==
  /\ phase = "mutator"
  /\ root' = [root EXCEPT ![r] = Nil]
  /\ UNCHANGED <<atb, ftb, pool, gc_last_free_atb_index, given, gc_lock_depth,
                 gc_auto_collect_enabled, gc_alloc_amount, collectorVars>>

gc_lock ==
  /\ phase = "mutator" /\ gc_lock_depth < MaxLock
  /\ gc_lock_depth' = gc_lock_depth + 1
  /\ UNCHANGED <<atb, ftb, pool, gc_last_free_atb_index, given, root,
                 gc_auto_collect_enabled, gc_alloc_amount, collectorVars>>

gc_unlock ==
  /\ phase = "mutator" /\ gc_lock_depth > 0
  /\ gc_lock_depth' = gc_lock_depth - 1
  /\ UNCHANGED <<atb, ftb, pool, gc_last_free_atb_index, given, root,
                 gc_auto_collect_enabled, gc_alloc_amount, collectorVars>>

gc_enable(on) ==
  /\ phase = "mutator"
  /\ gc_auto_collect_enabled' = on
  /\ UNCHANGED <<atb, ftb, pool, gc_last_free_atb_index, given, root,
                 gc_lock_depth, gc_alloc_amount, collectorVars>>
-----------------------------------------------------------------------------
(***************************************************************************)
(* gc_alloc.  The scan starts at the hint and takes the first n free       *)
(* blocks in a row, given by their last one.                               *)
(***************************************************************************)
RunEnds(n) ==
  {i \in Blocks :
     /\ i - n + 1 >= gc_last_free_atb_index * BLOCKS_PER_ATB
     /\ \A j \in i - n + 1 .. i : atb[j] = AT_FREE}

FirstRun(n) == CHOOSE i \in RunEnds(n) : \A j \in RunEnds(n) : i <= j

\* Mutant: the hint moves after an allocation of any size.
HintAfterAlloc_AnyRun(n, i) == (i + 1) \div BLOCKS_PER_ATB

\* The hint after an allocation of n blocks that ends at block i.
HintAfterAlloc(n, i) ==
  IF n = 1 THEN (i + 1) \div BLOCKS_PER_ATB ELSE gc_last_free_atb_index

\* The hint after the blocks from b on were freed.
HintAfterFree(b) ==
  IF b \div BLOCKS_PER_ATB < gc_last_free_atb_index
  THEN b \div BLOCKS_PER_ATB ELSE gc_last_free_atb_index

\* The count of allocated blocks matters up to the threshold only.
Amount(n) ==
  CASE Threshold = -1 -> 0
    [] gc_alloc_amount + n < Threshold -> gc_alloc_amount + n
    [] OTHER -> Threshold

\* The ATB with a chain of n blocks put at s.
WithChain(s, n) ==
  [b \in Blocks |-> IF b = s THEN AT_HEAD
                    ELSE IF b \in s + 1 .. s + n - 1 THEN AT_TAIL ELSE atb[b]]

\* Blocks are cleared when they are allocated, so what a free block holds is
\* never read: the model forgets it when the block becomes free.
Zeroed(B) == [b \in Blocks |-> IF b \in B THEN Nil ELSE pool[b]]

\* Label "found": n blocks are taken, cleared and handed to root r.
TakeRun(n, fin, r) ==
  LET e == FirstRun(n)
      s == e - n + 1
  IN /\ atb' = WithChain(s, n)
     /\ pool' = Zeroed(s .. e)
     /\ ftb' = IF fin THEN [ftb EXCEPT ![s] = TRUE] ELSE ftb
     /\ gc_last_free_atb_index' = HintAfterAlloc(n, e)
     /\ gc_alloc_amount' = Amount(n)
     /\ root' = [root EXCEPT ![r] = s]
     /\ given' = [given EXCEPT ![s] = n]
     /\ UNCHANGED <<gc_lock_depth, gc_auto_collect_enabled>>

\* gc_collect_start, for a request that waits or for gc.collect().
gc_collect_start(rq) ==
  /\ gc_lock_depth' = gc_lock_depth + 1
  /\ gc_alloc_amount' = 0
  /\ gc_stack_overflow' = FALSE
  /\ phase' = "roots" /\ cursor' = 1
  /\ req' = rq
  /\ UNCHANGED <<atb, ftb, pool, gc_last_free_atb_index, given, root,
                 gc_auto_collect_enabled, mark, gc_stack, free_tail>>

ThresholdReached ==
  gc_auto_collect_enabled /\ Threshold # -1 /\ gc_alloc_amount >= Threshold

\* A request that is served at once, and one that first needs a collection.
\* When neither applies gc_alloc returns NULL and changes nothing.
ServeNow(n) == gc_lock_depth = 0 /\ ~ThresholdReached /\ RunEnds(n) # {}
ServeLater(n) ==
  /\ gc_lock_depth = 0
  /\ gc_auto_collect_enabled
  /\ ThresholdReached \/ RunEnds(n) = {}

gc_alloc(n, fin, r) ==
  /\ phase = "mutator" /\ root[r] = Nil
  /\ \/ /\ ServeNow(n)
        /\ TakeRun(n, fin, r)
        /\ UNCHANGED collectorVars
     \/ /\ ServeLater(n)
        /\ gc_collect_start([op |-> "alloc", n |-> n, fin |-> fin, r |-> r])
-----------------------------------------------------------------------------
(***************************************************************************)
(* gc_free.  The loop over the tails does not stop at the end of the pool: *)
(* behind it, it takes finaliser flags for blocks and clears them.         *)
(***************************************************************************)
FlagsTakenForTail(f, k) == 2 * k + 1 \in Blocks /\ f[2 * k + 1] /\ ~f[2 * k]

\* Mutant: gc_free leaves the finaliser flag of the freed block set.
FtbAfterFree_Kept(f, b) == f

FtbAfterFree(f, b) ==
  LET g == [f EXCEPT ![b] = FALSE]
  IN [j \in Blocks |->
        /\ g[j]
        /\ ~ /\ NBlocks - 1 \in Chain(b)
             /\ \A k \in 0 .. j \div 2 : FlagsTakenForTail(g, k)]

\* Mutant: only the first of the blocks is freed.
AtbAfterFree_First(t, B) ==
  [b \in Blocks |-> IF b \in B /\ b - 1 \notin B THEN AT_FREE ELSE t[b]]

\* The table t with the blocks of B set free.
AtbAfterFree(t, B) == [b \in Blocks |-> IF b \in B THEN AT_FREE ELSE t[b]]

gc_free(r) ==
  /\ phase = "mutator" /\ gc_lock_depth = 0
  /\ SoleOwner(r)
  /\ ftb' = FtbAfterFree(ftb, root[r])
  /\ gc_last_free_atb_index' = HintAfterFree(root[r])
  /\ atb' = AtbAfterFree(atb, Chain(root[r]))
  /\ given' = [given EXCEPT ![root[r]] = 0]
  /\ root' = [root EXCEPT ![r] = Nil]
  /\ pool' = Zeroed(Chain(root[r]))
  /\ UNCHANGED <<gc_lock_depth, gc_auto_collect_enabled, gc_alloc_amount,
                 collectorVars>>
-----------------------------------------------------------------------------
(***************************************************************************)
(* gc_realloc of the chain held by root r to n blocks.  The loop that      *)
(* measures the chain counts every tail it meets, also after free blocks;  *)
(* no tail follows a free block (NoOrphanTail), so that is the chain.      *)
(***************************************************************************)
ChainEnd(b) == CHOOSE e \in Chain(b) : e + 1 \notin Chain(b)
ChainLen(b) == ChainEnd(b) - b + 1

Shrink(r, n) ==
  LET b == root[r]
      cut == b + n .. ChainEnd(b)
  IN /\ phase = "mutator" /\ gc_lock_depth = 0
     /\ b # Nil /\ n < ChainLen(b)
     /\ atb' = AtbAfterFree(atb, cut)
     /\ gc_last_free_atb_index' = HintAfterFree(b + n)
     /\ pool' = Zeroed(cut)
     /\ given' = [given EXCEPT ![b] = n]
     /\ UNCHANGED <<ftb, mutatorVars, collectorVars>>

\* The blocks that an expansion in place adds.
Added(b, n) == ChainEnd(b) + 1 .. b + n - 1

\* They are there, and free.
FitsInPlace(b, n) == Added(b, n) \subseteq {c \in Blocks : atb[c] = AT_FREE}

Expand(r, n) ==
  LET b == root[r]
  IN /\ phase = "mutator" /\ gc_lock_depth = 0
     /\ b # Nil /\ n > ChainLen(b) /\ FitsInPlace(b, n)
     /\ atb' = [c \in Blocks |-> IF c \in Added(b, n) THEN AT_TAIL ELSE atb[c]]
     /\ pool' = Zeroed(Added(b, n))
     /\ given' = [given EXCEPT ![b] = n]
     /\ UNCHANGED <<ftb, gc_last_free_atb_index, mutatorVars, collectorVars>>

\* gc_alloc of the new chain, memcpy, gc_free of the old one.
MoveTo(n, fin, r) ==
  LET b == root[r]
      e == FirstRun(n)
      s == e - n + 1
      f == IF fin THEN [ftb EXCEPT ![s] = TRUE] ELSE ftb
  IN /\ atb' = AtbAfterFree(WithChain(s, n), Chain(b))
     /\ pool' = [c \in Blocks |->
                   IF c \in s .. s + ChainLen(b) - 1 THEN pool[b + (c - s)]
                   ELSE IF c \in s .. e \/ c \in Chain(b) THEN Nil
                   ELSE pool[c]]
     /\ ftb' = FtbAfterFree(f, b)
     /\ gc_last_free_atb_index' = HintAfterFree(b)
     /\ gc_alloc_amount' = Amount(n)
     /\ root' = [root EXCEPT ![r] = s]
     /\ given' = [given EXCEPT ![s] = n, ![b] = 0]
     /\ UNCHANGED <<gc_lock_depth, gc_auto_collect_enabled>>

Move(r, n) ==
  LET b == root[r]
  IN /\ phase = "mutator" /\ gc_lock_depth = 0
     /\ b # Nil /\ n > ChainLen(b) /\ ~FitsInPlace(b, n)
     /\ SoleOwner(r)
     /\ \/ /\ ServeNow(n)
           /\ MoveTo(n, ftb[b], r)
           /\ UNCHANGED collectorVars
        \/ /\ ServeLater(n)
           /\ gc_collect_start([op |-> "realloc", n |-> n, fin |-> ftb[b], r |-> r])

\* gc_alloc after gc_collect: one more scan, then the block or NULL.
Retry ==
  /\ phase = "retry"
  /\ IF RunEnds(req.n) = {}
     THEN UNCHANGED <<atb, ftb, pool, gc_last_free_atb_index, given, mutatorVars>>
     ELSE IF req.op = "alloc" THEN TakeRun(req.n, req.fin, req.r)
     ELSE MoveTo(req.n, req.fin, req.r)
  /\ phase' = "mutator" /\ req' = NoRequest
  /\ UNCHANGED <<cursor, mark, gc_stack, gc_stack_overflow, free_tail>>
-----------------------------------------------------------------------------
(***************************************************************************)
(* The collector.                                                          *)
(***************************************************************************)
heapOutsideAtb == <<ftb, pool, gc_last_free_atb_index, given, mutatorVars>>

gc_collect == phase = "mutator" /\ gc_collect_start(NoRequest)

\* gc_mark_subtree(b), called from the root scan or from the rescan.
gc_mark_subtree(b) ==
  /\ phase' = "mark"
  /\ mark' = [block |-> b, word |-> b, from |-> phase]

\* One iteration of gc_collect_root, over all the roots there are.
gc_collect_root ==
  /\ phase = "roots" /\ cursor <= NRoots
  /\ cursor' = cursor + 1
  /\ IF root[cursor] # Nil /\ atb[root[cursor]] = AT_HEAD
     THEN /\ atb' = [atb EXCEPT ![root[cursor]] = AT_MARK]
          /\ gc_mark_subtree(root[cursor])
     ELSE UNCHANGED <<atb, phase, mark>>
  /\ UNCHANGED <<heapOutsideAtb, gc_stack, gc_stack_overflow, free_tail, req>>

InChain == mark.word = mark.block \/ ATB_GET_KIND(mark.word) = AT_TAIL

\* Mutants: the stack is taken to have one entry more, or a child that does
\* not fit is not noted.
MarkChild_OneMore(c) ==
  /\ atb' = [atb EXCEPT ![c] = AT_MARK]
  /\ IF Len(gc_stack) <= StackSize
     THEN gc_stack' = Append(gc_stack, c) /\ UNCHANGED gc_stack_overflow
     ELSE gc_stack_overflow' = TRUE /\ UNCHANGED gc_stack
MarkChild_NotNoted(c) ==
  /\ atb' = [atb EXCEPT ![c] = AT_MARK]
  /\ gc_stack' = IF Len(gc_stack) < StackSize THEN Append(gc_stack, c) ELSE gc_stack
  /\ UNCHANGED gc_stack_overflow

\* Push: a child that finds the stack full is marked and only noted.
MarkChild(c) ==
  /\ atb' = [atb EXCEPT ![c] = AT_MARK]
  /\ IF Len(gc_stack) < StackSize
     THEN gc_stack' = Append(gc_stack, c) /\ UNCHANGED gc_stack_overflow
     ELSE gc_stack_overflow' = TRUE /\ UNCHANGED gc_stack

\* One word of the chain.  A word behind the pool holds anything.
ScanWord ==
  /\ phase = "mark" /\ InChain
  /\ mark' = [block |-> mark.block, word |-> mark.word + 1, from |-> mark.from]
  /\ \E w \in IF mark.word \in Blocks THEN {pool[mark.word]} ELSE Words :
       IF w # Nil /\ atb[w] = AT_HEAD THEN MarkChild(w)
       ELSE UNCHANGED <<atb, gc_stack, gc_stack_overflow>>
  /\ UNCHANGED <<heapOutsideAtb, phase, cursor, free_tail, req>>

\* The chain is done: the next block comes from the stack, if there is one.
PopBlock ==
  /\ phase = "mark" /\ ~InChain
  /\ IF gc_stack = <<>>
     THEN phase' = mark.from /\ mark' = NoMark /\ UNCHANGED gc_stack
     ELSE LET b == gc_stack[Len(gc_stack)] IN
          /\ mark' = [block |-> b, word |-> b, from |-> mark.from]
          /\ gc_stack' = SubSeq(gc_stack, 1, Len(gc_stack) - 1)
          /\ UNCHANGED phase
  /\ UNCHANGED <<atb, heapOutsideAtb, cursor, gc_stack_overflow, free_tail, req>>

\* Mutant: the overflow flag is not cleared before the rescan.
StartRescanOrSweep_Sticky ==
  /\ \/ phase = "roots" /\ cursor > NRoots
     \/ phase = "rescan" /\ cursor = NBlocks
  /\ cursor' = 0
  /\ phase' = IF gc_stack_overflow THEN "rescan" ELSE "sweep"
  /\ free_tail' = FALSE
  /\ UNCHANGED <<atb, heapOutsideAtb, gc_stack_overflow, mark, gc_stack, req>>

\* gc_deal_with_stack_overflow: rescan the heap for as long as marking it
\* overflowed the stack, then begin gc_sweep.
StartRescanOrSweep ==
  /\ \/ phase = "roots" /\ cursor > NRoots
     \/ phase = "rescan" /\ cursor = NBlocks
  /\ cursor' = 0
  /\ phase' = IF gc_stack_overflow THEN "rescan" ELSE "sweep"
  /\ gc_stack_overflow' = FALSE
  /\ free_tail' = FALSE
  /\ UNCHANGED <<atb, heapOutsideAtb, mark, gc_stack, req>>

Rescan ==
  /\ phase = "rescan" /\ cursor < NBlocks
  /\ cursor' = cursor + 1
  /\ IF atb[cursor] = AT_MARK THEN gc_mark_subtree(cursor)
     ELSE UNCHANGED <<phase, mark>>
  /\ UNCHANGED <<atb, heapOutsideAtb, gc_stack, gc_stack_overflow, free_tail, req>>

\* Mutant: a marked head stays marked.
SweptKind_StaysMarked(kind) ==
  IF kind = AT_HEAD \/ (kind = AT_TAIL /\ free_tail) THEN AT_FREE ELSE kind

\* What gc_sweep turns a block of this kind into.
SweptKind(kind) ==
  CASE kind = AT_MARK -> AT_HEAD
    [] kind = AT_HEAD \/ (kind = AT_TAIL /\ free_tail) -> AT_FREE
    [] OTHER -> kind

\* One block of gc_sweep.  The finaliser of a dead head is called first; the
\* finalisers of the runtime close a file or a socket and keep no pointer.
gc_sweep ==
  /\ phase = "sweep" /\ cursor < NBlocks
  /\ cursor' = cursor + 1
  /\ free_tail' = IF atb[cursor] = AT_HEAD THEN TRUE
                  ELSE IF atb[cursor] = AT_MARK THEN FALSE ELSE free_tail
  /\ ftb' = [ftb EXCEPT ![cursor] = ftb[cursor] /\ atb[cursor] # AT_HEAD]
  /\ atb' = [atb EXCEPT ![cursor] = SweptKind(atb[cursor])]
  /\ pool' = [pool EXCEPT ![cursor] = IF atb'[cursor] = AT_FREE THEN Nil ELSE @]
  /\ given' = [given EXCEPT ![cursor] = IF atb[cursor] = AT_HEAD THEN 0 ELSE @]
  /\ UNCHANGED <<gc_last_free_atb_index, mutatorVars, phase, mark, gc_stack,
                 gc_stack_overflow, req>>

gc_collect_end ==
  /\ phase = "sweep" /\ cursor = NBlocks
  /\ gc_last_free_atb_index' = 0
  /\ gc_lock_depth' = gc_lock_depth - 1
  /\ phase' = IF req = NoRequest THEN "mutator" ELSE "retry"
  /\ cursor' = 0
  /\ UNCHANGED <<atb, ftb, pool, given, root, gc_auto_collect_enabled,
                 gc_alloc_amount, mark, gc_stack, gc_stack_overflow, free_tail, req>>

\* gc_sweep_all, when the program has ended and its roots are gone.
gc_sweep_all ==
  /\ phase = "mutator"
  /\ root' = [r \in Roots |-> Nil]
  /\ gc_lock_depth' = gc_lock_depth + 1
  /\ gc_stack_overflow' = FALSE
  /\ phase' = "sweep" /\ cursor' = 0 /\ free_tail' = FALSE
  /\ UNCHANGED <<atb, ftb, pool, gc_last_free_atb_index, given,
                 gc_auto_collect_enabled, gc_alloc_amount, mark, gc_stack, req>>

Mutator ==
  \/ \E r, s \in Roots : \E c \in Stores : Load(r, s, c) \/ Store(r, s, c)
  \/ \E r \in Roots : Drop(r)
  \/ gc_lock \/ gc_unlock
  \/ \E on \in AutoCollect : gc_enable(on)
  \/ \E n \in 1 .. MaxRequest : \E fin \in Finalisers : \E r \in Roots : gc_alloc(n, fin, r)
  \/ \E r \in Roots : gc_free(r)
  \/ \E r \in Roots : \E n \in Resizes :
       Shrink(r, n) \/ Expand(r, n) \/ Move(r, n)
  \/ gc_collect \/ gc_sweep_all

Collector ==
  \/ gc_collect_root \/ ScanWord \/ PopBlock \/ StartRescanOrSweep \/ Rescan
  \/ gc_sweep \/ gc_collect_end \/ Retry

Next == Mutator \/ Collector

Spec == Init /\ [][Next]_vars

\* A collection that has started runs to its end.
FairSpec == Spec /\ WF_vars(Collector)
-----------------------------------------------------------------------------
\* The hint stays inside the ATB, the mark stack inside its array, and a
\* collection takes the lock once.
TypeOK ==
  /\ atb \in [Blocks -> Kinds]
  /\ ftb \in [Blocks -> BOOLEAN]
  /\ pool \in [Blocks -> Words]
  /\ root \in [Roots -> Words]
  /\ gc_last_free_atb_index \in 0 .. AtbLen
  /\ gc_lock_depth \in 0 .. MaxLock + 1
  /\ gc_auto_collect_enabled \in BOOLEAN
  /\ gc_alloc_amount \in Nat
  /\ phase \in {"mutator", "roots", "mark", "rescan", "sweep", "retry"}
  /\ cursor \in Nat
  /\ mark \in [block : Blocks, word : Nat, from : {"roots", "rescan"}]
  /\ gc_stack \in Seq(Blocks) /\ Len(gc_stack) <= StackSize
  /\ gc_stack_overflow \in BOOLEAN
  /\ free_tail \in BOOLEAN
  /\ req \in Requests
  /\ given \in [Blocks -> 0 .. MaxRequest]

\* Whatever the program can reach is still allocated, with all the blocks it
\* was given and no others: no collection, reallocation or neighbouring free
\* takes a block from it, also while the collector is running.
LiveIntact ==
  \A b \in Reachable :
    /\ atb[b] \in {AT_HEAD, AT_MARK}
    /\ Chain(b) = b .. b + given[b] - 1

\* "which guarantees that there are no free blocks before this one": blocks
\* below the hint are never free when a scan starts from it.
HintSound ==
  phase \in {"mutator", "retry"} =>
    \A b \in Blocks :
      b < gc_last_free_atb_index * BLOCKS_PER_ATB => atb[b] # AT_FREE

\* A tail is never without the rest of its chain before it, which the loops
\* that measure, free or sweep a chain rely on.  Only the sweep comes between.
NoOrphanTail ==
  \A b \in Blocks : atb[b] = AT_TAIL =>
    /\ b > 0
    /\ atb[b - 1] # AT_FREE \/ (phase = "sweep" /\ cursor = b /\ free_tail)

\* Only a head has a finaliser flag, so that a block that is allocated again
\* never inherits the finaliser of its previous user.
FlagsOnHeads ==
  \A b \in Blocks : ftb[b] => atb[b] \in {AT_HEAD, AT_MARK}

\* "if set, then the corresponding block may have a finaliser": a finaliser
\* flag is cleared only when its own block is freed or swept.
FinaliserKept ==
  [][\A b \in Blocks : ftb[b] /\ ~ftb'[b] => atb'[b] = AT_FREE]_vars

\* When a collection ends, what is left is what the program can reach.
Collected ==
  [][phase = "sweep" /\ phase' # "sweep"
     => \A b \in Blocks : atb'[b] # AT_FREE => \E h \in Reachable : b \in Chain(h)]_vars

\* What a collection has left to do: its stage; heads to mark, with an overflow
\* that is noted counting for half a head; the rest of the pass over roots or
\* blocks; the mark stack; the rest of the chain in hand, which may run on into the
\* table behind the ATB.
LeftToDo ==
  LET marking == phase \in {"roots", "mark", "rescan"}
      heads == Cardinality({b \in Blocks : atb[b] = AT_HEAD})
  IN <<IF marking THEN 3 ELSE IF phase = "sweep" THEN 2 ELSE IF phase = "retry" THEN 1 ELSE 0,
       IF marking THEN 2 * heads + (IF gc_stack_overflow THEN 1 ELSE 0) ELSE 0,
       NRoots + NBlocks + 1 - cursor,
       Len(gc_stack),
       IF phase = "mark" THEN 2 * NBlocks + 1 - mark.word ELSE 0>>

Less(m, n) ==
  \E i \in DOMAIN m : 0 <= m[i] /\ m[i] < n[i] /\ \A j \in 1 .. i - 1 : m[j] = n[j]

\* A collection ends, however often the mark stack overflows: each of its steps
\* makes what it has left to do smaller in a well-founded order.
CollectionEnds == [][phase # "mutator" => Less(LeftToDo', LeftToDo)]_vars
=============================================================================
