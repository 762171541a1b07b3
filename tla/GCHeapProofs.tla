---------------------------- MODULE GCHeapProofs ----------------------------
(***************************************************************************)
(* Theorems about GCHeap, for every size of the heap, of the mark stack    *)
(* and of the root set: the safety invariants of the memory manager, and   *)
(* above all that a collection never frees or cuts what the program can    *)
(* reach.                                                                  *)
(***************************************************************************)
EXTENDS GCMutatorProofs

\* A pending gc_realloc names a root.
LEMMA ReqRoot ==
  ASSUME req \in Requests PROVE req.op = "realloc" => req.r \in Roots
BY DEF Requests, NoRequest
-----------------------------------------------------------------------------
(***************************************************************************)
(* Steps of the collector.  They change no root; they take tails and       *)
(* pointers away, but add none.                                            *)
(***************************************************************************)
LEMMA CollectorReach ==
  ASSUME IInv, root' = root, \A b \in Blocks : pool'[b] \in {pool[b], Nil},
         \A b \in Blocks : atb'[b] = AT_TAIL => atb[b] = AT_TAIL
  PROVE  /\ Reachable' \subseteq Reachable /\ Reachable \subseteq Blocks
         /\ \A b \in Blocks : ChainIn(atb', b) \subseteq ChainIn(atb, b)
         /\ \A r \in Roots : SoleOwner(r) => SoleOwner(r)'
<1>1. pool \in [Blocks -> Words] /\ root \in [Roots -> Words]  BY DEF IInv, TypeOK
<1>2. \A r \in Roots : root'[r] \in {root[r], Nil}  OBVIOUS
<1>3. Reachable' \subseteq Reachable  BY <1>1, <1>2, Unfold, ReachShrinks
<1>4. Reachable \subseteq Blocks  BY <1>1, Unfold, ReachBlocks
<1>5. ASSUME NEW b \in Blocks PROVE ChainIn(atb', b) \subseteq ChainIn(atb, b)
  BY NBlocksType DEF ChainIn, Blocks
<1>6. ASSUME NEW r \in Roots, SoleOwner(r) PROVE SoleOwner(r)'
  <2>1. root'[r] # Nil /\ \A q \in Roots \ {r} : root'[q] # root'[r]
    BY <1>6 DEF SoleOwner
  <2>2. ASSUME NEW b \in Reachable', NEW c \in ChainIn(atb', b) PROVE pool'[c] # root'[r]
    <3>1. b \in Reachable /\ c \in ChainIn(atb, b) /\ c \in Blocks
      BY <1>3, <1>4, <1>5, <2>2 DEF ChainIn
    <3>2. pool[c] # root[r]  BY <1>6, <3>1, Unfold DEF SoleOwner
    <3> QED  BY <2>1, <3>1, <3>2
  <2> QED  BY <2>1, <2>2, Unfold DEF SoleOwner
<1> QED  BY <1>3, <1>4, <1>5, <1>6

\* gc_collect_start, for gc.collect() or for a request.
LEMMA StartIInv ==
  ASSUME IInv, phase = "mutator", NEW rq \in Requests,
         rq # NoRequest => gc_lock_depth = 0,
         rq.op = "realloc" => rq.r \in Roots /\ SoleOwner(rq.r) /\ rq.n > given[root[rq.r]],
         gc_collect_start(rq)
  PROVE  IInv'
<1> USE NBlocksType, GCConstants
<1>1. /\ UNCHANGED <<atb, ftb, pool, root, given, gc_last_free_atb_index,
                     gc_auto_collect_enabled, mark, gc_stack, free_tail>>
      /\ gc_lock_depth' = gc_lock_depth + 1 /\ gc_alloc_amount' = 0
      /\ gc_stack_overflow' = FALSE /\ phase' = "roots" /\ cursor' = 1 /\ req' = rq
  BY DEF gc_collect_start
<1>2. TypeOK'
  <2>1. /\ ftb' \in [Blocks -> BOOLEAN] /\ gc_auto_collect_enabled' \in BOOLEAN
        /\ gc_stack_overflow' \in BOOLEAN /\ free_tail' \in BOOLEAN
    BY <1>1, Zenon DEF IInv, TypeOK
  <2>2. gc_lock_depth' \in 0 .. MaxLock + 1  BY <1>1 DEF IInv, TypeOK, Control
  <2> QED  BY <1>1, <2>1, <2>2 DEF IInv, TypeOK
<1>3. Reachable' = Reachable  BY <1>1, Unfold
<1>4. HeapInv'
  BY <1>1, <1>3 DEF IInv, HeapInv, ChainGiven, NoOrphanTail, FlagsOnHeads, LiveAllocated, Allocated
<1>5. HintSound'  BY <1>1 DEF HintSound
<1>6. Control'
  BY <1>1 DEF IInv, TypeOK, Control, FirstPass, SecondPass
<1>7. ReqOwner'
  <2>1. rq # NoRequest => gc_lock_depth' = 1  BY <1>1 DEF IInv, TypeOK
  <2>2. ASSUME rq.op = "realloc" PROVE SoleOwner(rq.r)' /\ rq.n > given'[root'[rq.r]]
    BY <1>1, <2>2, CollectorReach
  <2> QED  BY <1>1, <2>1, <2>2 DEF ReqOwner, SoleOwner
<1>8. TriColour'
  BY <1>1 DEF TriColour, IInv, Control, Marking, FirstPass, SecondPass, Roots
<1>9. SweepOK'  BY <1>1 DEF SweepOK
<1> QED  BY <1>2, <1>4, <1>5, <1>6, <1>7, <1>8, <1>9 DEF IInv

\* Marking turns heads into marked heads and nothing else.
LEMMA MarkingHeap ==
  ASSUME IInv, Marking, phase' \notin {"mutator", "retry"},
         UNCHANGED heapOutsideAtb, req' = req, atb' \in [Blocks -> Kinds],
         \A b \in Blocks : atb'[b] = atb[b] \/ (atb[b] = AT_HEAD /\ atb'[b] = AT_MARK)
  PROVE  /\ HeapInv' /\ HintSound' /\ ReqOwner' /\ Reachable' \subseteq Reachable
         /\ \A b \in Blocks : \A w : ScannedIn(atb, pool, b, w) => ScannedIn(atb', pool', b, w)
<1> USE NBlocksType, GCConstants
<1>0. UNCHANGED <<ftb, pool, root, gc_last_free_atb_index, given, gc_lock_depth>>
  BY DEF heapOutsideAtb, mutatorVars
<1>1. \A b \in Blocks : /\ atb'[b] = AT_TAIL <=> atb[b] = AT_TAIL
                        /\ atb'[b] = AT_FREE <=> atb[b] = AT_FREE
                        /\ Allocated(b)' <=> Allocated(b)
                        /\ atb'[b] = AT_HEAD => atb[b] = AT_HEAD
  BY DEF Allocated, AT_TAIL, AT_FREE, AT_HEAD, AT_MARK
<1>2. pool \in [Blocks -> Words] /\ root \in [Roots -> Words]  BY DEF IInv, TypeOK
<1>3. /\ Reachable' \subseteq Reachable /\ Reachable \subseteq Blocks
      /\ \A r \in Roots : SoleOwner(r) => SoleOwner(r)'
  BY <1>0, <1>1, <1>2, CollectorReach
<1>4. ChainGiven'
  BY <1>0, <1>1 DEF IInv, HeapInv, ChainGiven, ChainAt
<1>5. NoOrphanTail'
  <2>1. phase # "sweep"  BY DEF Marking, FirstPass, SecondPass
  <2>2. ASSUME NEW b \in Blocks, atb'[b] = AT_TAIL PROVE b > 0 /\ atb'[b - 1] # AT_FREE
    <3>1. b > 0 /\ atb[b - 1] # AT_FREE  BY <1>1, <2>1, <2>2 DEF IInv, HeapInv, NoOrphanTail
    <3>2. PICK c \in Blocks : c = b - 1  BY <3>1 DEF Blocks
    <3> QED  BY <1>1, <3>1, <3>2
  <2> QED  BY <2>2 DEF NoOrphanTail
<1>6. FlagsOnHeads'  BY <1>0, <1>1 DEF IInv, HeapInv, FlagsOnHeads, Allocated
<1>7. LiveAllocated'  BY <1>1, <1>3 DEF IInv, HeapInv, LiveAllocated
<1>8. HintSound'  BY DEF HintSound
<1>9. ReqOwner'
  <2>1. req.op = "realloc" => req.r \in Roots  BY ReqRoot DEF IInv, TypeOK
  <2>2. PICK q : q = req  OBVIOUS
  <2>3. q.op = "realloc" => SoleOwner(q.r)' /\ q.n > given'[root'[q.r]]
    BY <1>0, <1>3, <2>1, <2>2 DEF IInv, ReqOwner
  <2>4. q # NoRequest => gc_lock_depth' = 1
    BY <1>0, <2>2 DEF IInv, ReqOwner, Marking, FirstPass, SecondPass
  <2> QED  BY <2>2, <2>3, <2>4 DEF ReqOwner, SoleOwner
<1>10. ASSUME NEW b \in Blocks, NEW w, ScannedIn(atb, pool, b, w) PROVE ScannedIn(atb', pool', b, w)
  <2> SUFFICES ASSUME NEW c \in ChainIn(atb', b), c < w, pool'[c] # Nil
               PROVE  atb'[pool'[c]] # AT_HEAD
    BY DEF ScannedIn
  <2>1. c \in ChainIn(atb, b) /\ c \in Blocks
    <3>1. c \in Blocks /\ c >= b /\ \A d \in b + 1 .. c : atb'[d] = AT_TAIL  BY DEF ChainIn
    <3> QED  BY <1>1, <3>1 DEF ChainIn, Blocks
  <2>2. pool[c] \in Blocks  BY <1>0, <1>2, <2>1 DEF Words
  <2> QED  BY <1>0, <1>1, <1>10, <2>1, <2>2 DEF ScannedIn
<1> QED  BY <1>3, <1>4, <1>5, <1>6, <1>7, <1>8, <1>9, <1>10, Zenon DEF HeapInv

\* The scan of one root.
LEMMA RootIInv == ASSUME IInv, gc_collect_root PROVE IInv'
<1> USE NBlocksType, GCConstants
<1>1. /\ phase = "roots" /\ cursor \in 1 .. NRoots /\ cursor \in Roots /\ cursor' = cursor + 1
      /\ UNCHANGED <<heapOutsideAtb, gc_stack, gc_stack_overflow, free_tail, req>>
  BY DEF gc_collect_root, IInv, Control, FirstPass, Roots
<1>2. UNCHANGED <<ftb, pool, root, gc_last_free_atb_index, given, gc_lock_depth,
                  gc_auto_collect_enabled, gc_alloc_amount>>
  BY <1>1 DEF heapOutsideAtb, mutatorVars
<1>3. PICK x \in Words : x = root[cursor]  BY <1>1 DEF IInv, TypeOK
<1>4. gc_stack = <<>>  BY <1>1 DEF IInv, Control
<1>5. atb \in [Blocks -> Kinds]  BY DEF IInv, TypeOK
<1>6. CASE x # Nil /\ atb[x] = AT_HEAD
  <2>1. /\ atb' = [atb EXCEPT ![x] = AT_MARK] /\ phase' = "mark" /\ x \in Blocks
        /\ mark' = [block |-> x, word |-> x, from |-> "roots"]
    BY <1>1, <1>3, <1>6 DEF gc_collect_root, gc_mark_subtree, Words
  <2>2. /\ atb' \in [Blocks -> Kinds] /\ atb'[x] = AT_MARK
        /\ \A b \in Blocks : atb'[b] = atb[b] \/ (atb[b] = AT_HEAD /\ atb'[b] = AT_MARK)
        /\ \A b \in Blocks : b # x => atb'[b] = atb[b]
    BY <1>5, <1>6, <2>1 DEF Kinds
  <2>3. /\ HeapInv' /\ HintSound' /\ ReqOwner'
        /\ \A b \in Blocks : \A w : ScannedIn(atb, pool, b, w) => ScannedIn(atb', pool', b, w)
    BY <1>1, <2>1, <2>2, MarkingHeap, Zenon DEF Marking, FirstPass
  <2>4. TypeOK'  BY <1>1, <1>2, <2>1, <2>2 DEF IInv, TypeOK, Blocks
  <2>5. Control'
    BY <1>1, <1>2, <1>4, <2>1 DEF IInv, Control, FirstPass, SecondPass, Blocks
  <2>6. TriColour'
    <3>1. ASSUME NEW r \in Roots, r < cursor + 1, root'[r] # Nil
          PROVE  atb'[root'[r]] # AT_HEAD
      <4>1. root[r] \in Blocks  BY <1>2, <3>1 DEF IInv, TypeOK, Words
      <4>2. CASE r = cursor  BY <1>2, <1>3, <2>2, <4>2 DEF AT_MARK, AT_HEAD
      <4>3. CASE r # cursor
        <5>1. r < cursor  BY <1>1, <3>1, <4>3 DEF Roots
        <5>2. atb[root[r]] # AT_HEAD  BY <1>1, <4>1, <5>1 DEF IInv, TriColour, Marking, FirstPass, Nil, Blocks
        <5> QED  BY <1>2, <2>2, <4>1, <5>2 DEF AT_MARK, AT_HEAD
      <4> QED  BY <4>2, <4>3
    <3>2. ASSUME NEW b \in Blocks, atb'[b] = AT_MARK
          PROVE  \/ gc_stack_overflow'
                 \/ ScannedIn(atb', pool', b, NBlocks)
                 \/ b = x /\ ScannedIn(atb', pool', b, x)
      <4>1. CASE b = x  BY <2>1, <4>1 DEF ScannedIn, ChainIn, Blocks
      <4>2. CASE b # x
        <5>1. atb[b] = AT_MARK  BY <2>2, <3>2, <4>2
        <5>2. gc_stack_overflow \/ ScannedIn(atb, pool, b, NBlocks)
          BY <1>1, <1>4, <5>1 DEF IInv, TriColour, Marking, FirstPass, SecondPass
        <5> QED  BY <1>1, <2>3, <5>2
      <4> QED  BY <4>1, <4>2
    <3> QED  BY <1>1, <2>1, <3>1, <3>2, Zenon DEF TriColour, Marking, FirstPass, SecondPass
  <2>7. SweepOK'  BY <2>1 DEF SweepOK
  <2> QED  BY <2>3, <2>4, <2>5, <2>6, <2>7 DEF IInv
<1>7. CASE ~ (x # Nil /\ atb[x] = AT_HEAD)
  <2>1. UNCHANGED <<atb, phase, mark>>  BY <1>1, <1>3, <1>7 DEF gc_collect_root
  <2>2. HeapInv' /\ HintSound' /\ ReqOwner'
    BY <1>1, <1>5, <2>1, MarkingHeap, Zenon DEF Marking, FirstPass
  <2>3. TypeOK'  BY <1>1, <1>2, <2>1 DEF IInv, TypeOK
  <2>4. Control'
    BY <1>1, <1>2, <1>4, <2>1 DEF IInv, Control, FirstPass, SecondPass
  <2>5. TriColour'
    <3>1. ASSUME NEW r \in Roots, r < cursor + 1, root'[r] # Nil
          PROVE  atb'[root'[r]] # AT_HEAD
      <4>1. CASE r = cursor  BY <1>2, <1>3, <1>7, <2>1, <3>1, <4>1, Zenon
      <4>2. CASE r # cursor
        <5>1. r < cursor  BY <1>1, <3>1, <4>2 DEF Roots
        <5> QED  BY <1>1, <1>2, <2>1, <3>1, <5>1, Zenon DEF IInv, TriColour, Marking, FirstPass
      <4> QED  BY <4>1, <4>2
    <3>2. ASSUME NEW b \in Blocks, atb'[b] = AT_MARK
          PROVE  gc_stack_overflow' \/ ScannedIn(atb', pool', b, NBlocks)
      BY <1>1, <1>2, <1>4, <2>1, <3>2 DEF IInv, TriColour, Marking, FirstPass, SecondPass
    <3> QED  BY <1>1, <2>1, <3>1, <3>2, Zenon DEF TriColour, Marking, FirstPass, SecondPass
  <2>6. SweepOK'  BY <1>1, <2>1, Zenon DEF SweepOK
  <2> QED  BY <2>2, <2>3, <2>4, <2>5, <2>6 DEF IInv
<1> QED  BY <1>6, <1>7

\* One word of the block in the hands of gc_mark_subtree.
LEMMA WordIInv == ASSUME IInv, ScanWord PROVE IInv'
<1> USE NBlocksType, GCConstants
<1>1. /\ phase = "mark" /\ phase' = "mark" /\ cursor' = cursor /\ free_tail' = free_tail
      /\ req' = req /\ UNCHANGED heapOutsideAtb
  BY DEF ScanWord
<1>2. UNCHANGED <<ftb, pool, root, gc_last_free_atb_index, given, gc_lock_depth,
                  gc_auto_collect_enabled, gc_alloc_amount>>
  BY <1>1 DEF heapOutsideAtb, mutatorVars
<1>3. /\ mark.block \in Blocks /\ mark.word \in Nat /\ mark.from \in {"roots", "rescan"}
      /\ mark'.block = mark.block /\ mark'.word = mark.word + 1 /\ mark'.from = mark.from
      /\ mark' \in [block : Blocks, word : Nat, from : {"roots", "rescan"}]
  <2>1. mark \in [block : Blocks, word : Nat, from : {"roots", "rescan"}]  BY DEF IInv, TypeOK
  <2>2. mark' = [block |-> mark.block, word |-> mark.word + 1, from |-> mark.from]
    BY DEF ScanWord
  <2> QED  BY <2>1, <2>2
<1>4. /\ atb \in [Blocks -> Kinds] /\ pool \in [Blocks -> Words]
      /\ gc_stack \in Seq(Blocks) /\ Len(gc_stack) \in Nat /\ Len(gc_stack) <= StackSize
  BY DEF IInv, TypeOK
<1>5. PICK w \in Words :
        /\ mark.word \in Blocks => w = pool[mark.word]
        /\ IF w # Nil /\ atb[w] = AT_HEAD THEN MarkChild(w)
           ELSE UNCHANGED <<atb, gc_stack, gc_stack_overflow>>
  BY <1>4 DEF ScanWord
<1>6. /\ atb' \in [Blocks -> Kinds]
      /\ \A b \in Blocks : atb'[b] = atb[b] \/ (atb[b] = AT_HEAD /\ atb'[b] = AT_MARK)
      /\ \A b \in Blocks : b # w => atb'[b] = atb[b]
      /\ w # Nil => atb'[w] # AT_HEAD
  BY <1>4, <1>5 DEF MarkChild, Words, Kinds, AT_MARK, AT_HEAD
<1>7. /\ gc_stack' \in Seq(Blocks) /\ Len(gc_stack') <= StackSize /\ Len(gc_stack) <= Len(gc_stack')
      /\ \A i \in 1 .. Len(gc_stack) : gc_stack'[i] = gc_stack[i]
      /\ Len(gc_stack') \in Nat
  BY <1>4, <1>5 DEF MarkChild, Words
<1>8. gc_stack_overflow' \in BOOLEAN /\ (gc_stack_overflow => gc_stack_overflow')
  BY <1>5, ZenonT(30) DEF MarkChild, IInv, TypeOK
<1>9. w # Nil /\ atb[w] = AT_HEAD
      => gc_stack_overflow' \/ \E i \in 1 .. Len(gc_stack') : gc_stack'[i] = w
  BY <1>4, <1>5 DEF MarkChild, Words
<1>10. Marking
  BY <1>1, <1>3 DEF Marking, FirstPass, SecondPass
<1>11. /\ HeapInv' /\ HintSound' /\ ReqOwner'
       /\ \A b \in Blocks : \A v : ScannedIn(atb, pool, b, v) => ScannedIn(atb', pool', b, v)
  BY <1>1, <1>6, <1>10, MarkingHeap
<1>12. TypeOK'  BY <1>1, <1>2, <1>3, <1>6, <1>7, <1>8, Zenon DEF IInv, TypeOK
<1>13. Control'
  BY <1>1, <1>2, <1>3 DEF IInv, Control, FirstPass, SecondPass, Blocks
<1>14. TriColour'
  <2>1. ASSUME NEW r \in Roots, FirstPass => r < cursor, root[r] # Nil
        PROVE  atb'[root[r]] # AT_HEAD
    <3>1. root[r] \in Blocks  BY <2>1 DEF IInv, TypeOK, Words
    <3>2. atb[root[r]] # AT_HEAD  BY <1>10, <2>1, Zenon DEF IInv, TriColour
    <3> QED  BY <1>6, <3>1, <3>2, Zenon DEF AT_MARK, AT_HEAD
  <2>2. ASSUME NEW b \in Blocks, atb'[b] = AT_MARK
        PROVE  \/ gc_stack_overflow'
               \/ ScannedIn(atb', pool', b, NBlocks)
               \/ \E i \in 1 .. Len(gc_stack') : gc_stack'[i] = b
               \/ b = mark'.block /\ ScannedIn(atb', pool', b, mark'.word)
               \/ SecondPass /\ b >= cursor
    <3>1. CASE atb[b] # AT_MARK  BY <1>5, <1>6, <1>9, <2>2, <3>1, Zenon DEF Nil, Blocks
    <3>2. CASE b = mark.block /\ ScannedIn(atb, pool, b, mark.word)
      <4>1. ScannedIn(atb', pool', b, mark.word)  BY <1>11, <3>2
      <4>2. ASSUME NEW c \in ChainIn(atb', b), c < mark.word + 1, pool'[c] # Nil
            PROVE  atb'[pool'[c]] # AT_HEAD
        <5>1. c \in Blocks /\ c \in Int /\ mark.word \in Nat  BY <1>3 DEF ChainIn, Blocks
        <5>2. CASE c < mark.word  BY <4>1, <4>2, <5>2, Zenon DEF ScannedIn
        <5>3. CASE c = mark.word  BY <1>2, <1>5, <1>6, <4>2, <5>1, <5>3, Zenon
        <5> QED  BY <4>2, <5>1, <5>2, <5>3
      <4>3. ScannedIn(atb', pool', b, mark.word + 1)  BY <4>2, Zenon DEF ScannedIn
      <4> QED  BY <1>3, <3>2, <4>3
    <3>3. CASE \E i \in 1 .. Len(gc_stack) : gc_stack[i] = b  BY <1>4, <1>7, <3>3
    <3>4. CASE ScannedIn(atb, pool, b, NBlocks)  BY <1>11, <3>4
    <3> QED  BY <1>8, <1>10, <3>1, <3>2, <3>3, <3>4, Zenon DEF IInv, TriColour
  <2>3. (FirstPass' <=> FirstPass) /\ (SecondPass' <=> SecondPass)
    BY <1>1, <1>3 DEF FirstPass, SecondPass
  <2>4. root' = root /\ cursor' = cursor /\ phase' = "mark"  BY <1>1, <1>2
  <2> QED  BY <2>1, <2>2, <2>3, <2>4, Zenon DEF TriColour
<1>15. SweepOK'  BY <1>1 DEF SweepOK
<1> QED  BY <1>11, <1>12, <1>13, <1>14, <1>15 DEF IInv

\* gc_mark_subtree is done with a block and takes the next one.
LEMMA PopIInv == ASSUME IInv, PopBlock PROVE IInv'
<1> USE NBlocksType, GCConstants
<1>1. /\ phase = "mark" /\ ~InChain
      /\ UNCHANGED <<atb, heapOutsideAtb, cursor, gc_stack_overflow, free_tail, req>>
  BY DEF PopBlock
<1>2. UNCHANGED <<ftb, pool, root, gc_last_free_atb_index, given, gc_lock_depth,
                  gc_auto_collect_enabled, gc_alloc_amount>>
  BY <1>1, Zenon DEF heapOutsideAtb, mutatorVars
<1>3. /\ mark.block \in Blocks /\ mark.word \in Nat /\ mark.from \in {"roots", "rescan"}
      /\ mark \in [block : Blocks, word : Nat, from : {"roots", "rescan"}]
      /\ mark.word >= mark.block
  BY <1>1 DEF IInv, TypeOK, Control
<1>4. /\ atb \in [Blocks -> Kinds] /\ gc_stack \in Seq(Blocks)
      /\ Len(gc_stack) \in Nat /\ Len(gc_stack) <= StackSize
  BY DEF IInv, TypeOK
<1>5. Marking  BY <1>1, <1>3, Zenon DEF Marking, FirstPass, SecondPass
<1>6. ASSUME ScannedIn(atb, pool, mark.block, mark.word)
      PROVE  ScannedIn(atb, pool, mark.block, NBlocks)
  <2> SUFFICES ASSUME NEW c \in ChainIn(atb, mark.block), c < NBlocks, pool[c] # Nil
               PROVE  atb[pool[c]] # AT_HEAD
    BY DEF ScannedIn
  <2>1. c \in Blocks /\ c \in Int  BY DEF ChainIn, Blocks
  <2>2. c < mark.word
    <3>1. SUFFICES ASSUME c >= mark.word PROVE FALSE  BY <1>3, <2>1
    <3>2. mark.word \in Blocks  BY <1>3, <2>1, <3>1 DEF Blocks
    <3>3. mark.word # mark.block /\ atb[mark.word] # AT_TAIL
      BY <1>1, <3>2 DEF InChain, ATB_GET_KIND
    <3>4. mark.word \in mark.block + 1 .. c  BY <1>3, <2>1, <3>1, <3>3 DEF Blocks
    <3> QED  BY <3>3, <3>4 DEF ChainIn
  <2> QED  BY <1>6, <2>2 DEF ScannedIn
<1>7. /\ phase' \in {"roots", "rescan", "mark"} /\ mark' \in [block : Blocks, word : Nat, from : {"roots", "rescan"}]
      /\ gc_stack' \in Seq(Blocks) /\ Len(gc_stack') <= StackSize
      /\ phase' # "mark" => gc_stack' = <<>>
      /\ (FirstPass' <=> FirstPass) /\ (SecondPass' <=> SecondPass)
      /\ mark'.word = mark'.block
  <2>1. CASE gc_stack = <<>>
    BY <1>1, <1>3, <1>4, <2>1 DEF PopBlock, NoMark, Blocks, FirstPass, SecondPass
  <2>2. CASE gc_stack # <<>>
    <3>1. Len(gc_stack) > 0 /\ gc_stack[Len(gc_stack)] \in Blocks  BY <1>4, <2>2
    <3>2. /\ phase' = phase /\ mark' = [block |-> gc_stack[Len(gc_stack)],
                                           word |-> gc_stack[Len(gc_stack)], from |-> mark.from]
          /\ gc_stack' = SubSeq(gc_stack, 1, Len(gc_stack) - 1)
      BY <2>2 DEF PopBlock
    <3>3. gc_stack' \in Seq(Blocks) /\ Len(gc_stack') = Len(gc_stack) - 1
      <4>1. PICK k \in Nat : k = Len(gc_stack) - 1  BY <1>4, <3>1
      <4>2. \A i \in 1 .. k : gc_stack[i] \in Blocks  BY <1>4, <4>1
      <4> QED  BY <1>4, <3>2, <4>1, <4>2
    <3>4. /\ mark' \in [block : Blocks, word : Nat, from : {"roots", "rescan"}]
          /\ mark'.from = mark.from /\ mark'.word = mark'.block
      BY <1>3, <3>1, <3>2 DEF Blocks
    <3> QED  BY <1>1, <1>4, <3>2, <3>3, <3>4 DEF FirstPass, SecondPass
  <2> QED  BY <2>1, <2>2, Zenon
<1>8. HeapInv' /\ HintSound' /\ ReqOwner'
  BY <1>1, <1>4, <1>5, <1>7, MarkingHeap, Zenon
<1>9. TypeOK'  BY <1>1, <1>2, <1>7, Zenon DEF IInv, TypeOK
<1>10. Control'
  BY <1>1, <1>2, <1>7 DEF IInv, Control, Blocks
<1>11. TriColour'
  <2>1. ASSUME NEW b \in Blocks, atb[b] = AT_MARK
        PROVE  \/ gc_stack_overflow
               \/ ScannedIn(atb, pool, b, NBlocks)
               \/ \E i \in 1 .. Len(gc_stack') : gc_stack'[i] = b
               \/ phase' = "mark" /\ b = mark'.block /\ ScannedIn(atb, pool, b, mark'.word)
               \/ SecondPass /\ b >= cursor
    <3>1. CASE \E i \in 1 .. Len(gc_stack) : gc_stack[i] = b
      <4>1. PICK i \in 1 .. Len(gc_stack) : gc_stack[i] = b  BY <3>1
      <4>2. gc_stack # <<>>  BY <1>4, <4>1
      <4>3. /\ phase' = "mark" /\ gc_stack' = SubSeq(gc_stack, 1, Len(gc_stack) - 1)
            /\ mark'.block = gc_stack[Len(gc_stack)] /\ mark'.word = gc_stack[Len(gc_stack)]
        BY <1>1, <1>3, <4>2 DEF PopBlock
      <4>4. CASE i = Len(gc_stack)
        <5>1. ScannedIn(atb, pool, b, b)  BY DEF ScannedIn, ChainIn, Blocks
        <5> QED  BY <4>1, <4>3, <4>4, <5>1
      <4>5. CASE i # Len(gc_stack)
        <5>1. i \in 1 .. Len(gc_stack') /\ gc_stack'[i] = gc_stack[i]
          BY <1>4, <4>1, <4>3, <4>5
        <5> QED  BY <4>1, <5>1
      <4> QED  BY <4>4, <4>5
    <3>2. CASE b = mark.block /\ ScannedIn(atb, pool, b, mark.word)  BY <1>6, <3>2
    <3> QED  BY <1>5, <2>1, <3>1, <3>2, Zenon DEF IInv, TriColour
  <2>2. root' = root /\ cursor' = cursor /\ atb' = atb /\ pool' = pool
        /\ gc_stack_overflow' = gc_stack_overflow
    BY <1>1, <1>2
  <2> QED  BY <1>5, <1>7, <2>1, <2>2, Zenon DEF IInv, TriColour
<1>12. SweepOK'  BY <1>7 DEF SweepOK
<1> QED  BY <1>8, <1>9, <1>10, <1>11, <1>12, Zenon DEF IInv

\* When marking ends without overflow, the marked blocks are closed under
\* pointers and hold the roots, so all that is reachable is marked.
LEMMA MarkingDone ==
  ASSUME IInv, Marking, FirstPass => cursor > NRoots, SecondPass => cursor = NBlocks,
         phase # "mark", ~gc_stack_overflow
  PROVE  \A b \in Reachable : atb[b] = AT_MARK
<1> USE NBlocksType, GCConstants
<1>1. PICK R : R = Reachable  OBVIOUS
<1>2. /\ pool \in [Blocks -> Words] /\ root \in [Roots -> Words] /\ gc_stack = <<>>
  BY DEF IInv, TypeOK, Control
<1>3. R = ReachIn(atb, pool, root)  BY <1>1, Unfold
<1>4. ClosedIn(R, atb, pool, root) /\ R \subseteq Blocks
  BY <1>2, <1>3, ReachClosed, ReachBlocks
<1>5. \A b \in R : Allocated(b)  BY <1>1 DEF IInv, HeapInv, LiveAllocated
<1> DEFINE S == {b \in R : atb[b] = AT_MARK}
<1>6. ASSUME NEW r \in Roots, root[r] # Nil PROVE root[r] \in S
  <2>1. root[r] \in R /\ Allocated(root[r])  BY <1>4, <1>5, <1>6 DEF ClosedIn
  <2>2. atb[root[r]] # AT_HEAD
    <3>1. FirstPass => r < cursor  BY DEF Roots, IInv, TypeOK
    <3> QED  BY <1>6, <3>1 DEF IInv, TriColour
  <2> QED  BY <2>1, <2>2 DEF Allocated
<1>7. ASSUME NEW b \in S, NEW c \in ChainIn(atb, b), pool[c] # Nil PROVE pool[c] \in S
  <2>1. b \in R /\ b \in Blocks /\ atb[b] = AT_MARK /\ c \in Blocks  BY <1>4 DEF ChainIn
  <2>2. pool[c] \in R /\ Allocated(pool[c])  BY <1>4, <1>5, <1>7, <2>1, Zenon DEF ClosedIn
  <2>3. ScannedIn(atb, pool, b, NBlocks)
    <3>1. ~ (SecondPass /\ b >= cursor)  BY <2>1 DEF Blocks
    <3> QED  BY <1>2, <2>1, <3>1 DEF IInv, TriColour
  <2>4. c < NBlocks  BY <2>1 DEF Blocks
  <2>5. atb[pool[c]] # AT_HEAD  BY <1>7, <2>3, <2>4, Zenon DEF ScannedIn
  <2> QED  BY <2>2, <2>5 DEF Allocated
<1>8. ClosedIn(S, atb, pool, root)  BY <1>6, <1>7 DEF ClosedIn
<1>9. R \subseteq S
  <2> HIDE DEF S
  <2> QED  BY <1>3, <1>8, ReachLeast
<1> QED  BY <1>1, <1>9

\* The test of the overflow flag, before a rescan or the sweep.
LEMMA RescanOrSweepIInv == ASSUME IInv, StartRescanOrSweep PROVE IInv'
<1> USE NBlocksType, GCConstants
<1>1. /\ (phase = "roots" /\ cursor > NRoots) \/ (phase = "rescan" /\ cursor = NBlocks)
      /\ cursor' = 0 /\ gc_stack_overflow' = FALSE /\ free_tail' = FALSE
      /\ phase' = IF gc_stack_overflow THEN "rescan" ELSE "sweep"
      /\ UNCHANGED <<atb, heapOutsideAtb, mark, gc_stack, req>>
  BY DEF StartRescanOrSweep
<1>2. UNCHANGED <<ftb, pool, root, gc_last_free_atb_index, given, gc_lock_depth,
                  gc_auto_collect_enabled, gc_alloc_amount>>
  BY <1>1 DEF heapOutsideAtb, mutatorVars
<1>3. Marking /\ phase # "mark" /\ (SecondPass => cursor = NBlocks)
      /\ (FirstPass => cursor > NRoots)
  BY <1>1 DEF Marking, FirstPass, SecondPass
<1>4. atb \in [Blocks -> Kinds] /\ gc_stack = <<>>  BY <1>3, Zenon DEF IInv, TypeOK, Control
<1>5. HeapInv' /\ HintSound' /\ ReqOwner' /\ Reachable' \subseteq Reachable
  BY <1>1, <1>3, <1>4, MarkingHeap, Zenon
<1>6. TypeOK'  BY <1>1, <1>2, Zenon DEF IInv, TypeOK
<1>7. Control'
  BY <1>1, <1>2, <1>4 DEF IInv, Control, FirstPass, SecondPass
<1>8. TriColour'
  <2>1. ASSUME NEW r \in Roots, root[r] # Nil PROVE atb[root[r]] # AT_HEAD
    <3>1. FirstPass => r < cursor  BY <1>3 DEF Roots, IInv, TypeOK
    <3> QED  BY <1>3, <2>1, <3>1 DEF IInv, TriColour
  <2>2. phase' = "sweep" => ~Marking'  BY DEF Marking, FirstPass, SecondPass
  <2>3. phase' = "rescan" => SecondPass'  BY DEF SecondPass
  <2>4. \A b \in Blocks : b >= cursor'  BY <1>1 DEF Blocks
  <2> QED  BY <1>1, <1>2, <2>1, <2>2, <2>3, <2>4 DEF TriColour
<1>9. SweepOK'
  <2> SUFFICES ASSUME phase' = "sweep" PROVE SweepOK'  BY DEF SweepOK
  <2>1. ~gc_stack_overflow  BY <1>1
  <2>2. \A b \in Reachable' : atb'[b] = AT_MARK /\ b \in Blocks
    <3>1. \A b \in Reachable : atb[b] = AT_MARK  BY <1>3, <2>1, MarkingDone
    <3>2. Reachable \subseteq Blocks
      <4>1. pool \in [Blocks -> Words] /\ root \in [Roots -> Words]  BY DEF IInv, TypeOK
      <4> QED  BY <4>1, Unfold, ReachBlocks, Zenon
    <3> QED  BY <1>1, <1>5, <3>1, <3>2
  <2>3. \A b \in Blocks : ~ (b < cursor')  BY <1>1 DEF Blocks
  <2> QED  BY <1>1, <2>2, <2>3 DEF SweepOK
<1> QED  BY <1>5, <1>6, <1>7, <1>8, <1>9, Zenon DEF IInv

\* One block of the rescan of gc_deal_with_stack_overflow.
LEMMA RescanIInv == ASSUME IInv, Rescan PROVE IInv'
<1> USE NBlocksType, GCConstants
<1>1. /\ phase = "rescan" /\ cursor < NBlocks /\ cursor' = cursor + 1
      /\ UNCHANGED <<atb, heapOutsideAtb, gc_stack, gc_stack_overflow, free_tail, req>>
  BY DEF Rescan
<1>2. UNCHANGED <<ftb, pool, root, gc_last_free_atb_index, given, gc_lock_depth,
                  gc_auto_collect_enabled, gc_alloc_amount>>
  BY <1>1, Zenon DEF heapOutsideAtb, mutatorVars
<1>3. /\ SecondPass /\ ~FirstPass /\ Marking /\ cursor \in Blocks /\ gc_stack = <<>>
      /\ atb \in [Blocks -> Kinds]
  BY <1>1 DEF SecondPass, FirstPass, Marking, IInv, Control, TypeOK, Blocks
<1>4. \/ /\ atb[cursor] = AT_MARK /\ phase' = "mark"
         /\ mark' = [block |-> cursor, word |-> cursor, from |-> "rescan"]
      \/ atb[cursor] # AT_MARK /\ phase' = "rescan" /\ mark' = mark
  BY <1>1 DEF Rescan, gc_mark_subtree
<1>5. SecondPass' /\ ~FirstPass'  BY <1>4 DEF SecondPass, FirstPass
<1>6. HeapInv' /\ HintSound' /\ ReqOwner'
  BY <1>1, <1>3, <1>4, MarkingHeap, Zenon
<1>7. TypeOK'
  <2>1. mark' \in [block : Blocks, word : Nat, from : {"roots", "rescan"}]
    BY <1>3, <1>4 DEF IInv, TypeOK, Blocks
  <2> QED  BY <1>1, <1>2, <1>4, <2>1 DEF IInv, TypeOK
<1>8. Control'
  BY <1>1, <1>2, <1>3, <1>4, <1>5 DEF IInv, Control, Blocks
<1>9. TriColour'
  <2>1. ASSUME NEW r \in Roots, root[r] # Nil PROVE atb[root[r]] # AT_HEAD
    BY <1>3, <2>1, Zenon DEF IInv, TriColour
  <2>2. ASSUME NEW b \in Blocks, atb[b] = AT_MARK
        PROVE  \/ gc_stack_overflow \/ ScannedIn(atb, pool, b, NBlocks)
               \/ phase' = "mark" /\ b = mark'.block /\ ScannedIn(atb, pool, b, mark'.word)
               \/ b >= cursor'
    <3>1. CASE b = cursor
      <4>1. ScannedIn(atb, pool, b, b)  BY DEF ScannedIn, ChainIn, Blocks
      <4> QED  BY <1>4, <2>2, <3>1, <4>1
    <3>2. CASE b # cursor /\ b >= cursor  BY <1>1, <1>3, <3>2 DEF Blocks
    <3>3. CASE ~ (b >= cursor)  BY <1>1, <1>3, <2>2, <3>3 DEF IInv, TriColour
    <3> QED  BY <3>1, <3>2, <3>3, ZenonT(30)
  <2> QED  BY <1>1, <1>2, <1>5, <2>1, <2>2, Zenon DEF TriColour
<1>10. SweepOK'  BY <1>4, Zenon DEF SweepOK
<1> QED  BY <1>6, <1>7, <1>8, <1>9, <1>10 DEF IInv

\* One block of the sweep.
LEMMA SweepIInv == ASSUME IInv, gc_sweep PROVE IInv'
<1> USE NBlocksType, GCConstants
<1>1. PICK x \in Blocks : x = cursor
  BY DEF gc_sweep, IInv, Control, Blocks
<1>2. PICK k \in Kinds : k = atb[x]  BY Zenon DEF IInv, TypeOK
<1>3. /\ atb \in [Blocks -> Kinds] /\ ftb \in [Blocks -> BOOLEAN]
      /\ pool \in [Blocks -> Words] /\ root \in [Roots -> Words]
      /\ given \in [Blocks -> 0 .. MaxRequest] /\ x \in Nat
  BY DEF IInv, TypeOK, Blocks
<1>4. /\ phase = "sweep" /\ cursor' = x + 1
      /\ free_tail' = IF k = AT_HEAD THEN TRUE ELSE IF k = AT_MARK THEN FALSE ELSE free_tail
      /\ ftb' = [ftb EXCEPT ![x] = ftb[x] /\ k # AT_HEAD]
      /\ atb' = [atb EXCEPT ![x] = SweptKind(k)]
      /\ pool' = [pool EXCEPT ![x] = IF atb'[x] = AT_FREE THEN Nil ELSE pool[x]]
      /\ given' = [given EXCEPT ![x] = IF k = AT_HEAD THEN 0 ELSE given[x]]
      /\ UNCHANGED <<gc_last_free_atb_index, mutatorVars, phase, mark, gc_stack,
                     gc_stack_overflow, req>>
  BY <1>1, <1>2, Zenon DEF gc_sweep
<1>5. UNCHANGED <<root, gc_lock_depth, gc_auto_collect_enabled, gc_alloc_amount>>
  BY <1>4, Zenon DEF mutatorVars
<1>6. free_tail => x > 0 /\ atb[x - 1] = AT_FREE  BY <1>1, <1>4 DEF IInv, SweepOK
<1>7. /\ SweptKind(k) \in Kinds /\ (SweptKind(k) = AT_TAIL => k = AT_TAIL)
      /\ (k = AT_TAIL => SweptKind(k) = AT_TAIL \/ free_tail)
      /\ (SweptKind(k) = AT_HEAD <=> k = AT_MARK) /\ SweptKind(k) # AT_MARK
      /\ (k = AT_HEAD => SweptKind(k) = AT_FREE) /\ (k = AT_FREE => SweptKind(k) = AT_FREE)
      /\ (k = AT_TAIL /\ free_tail => SweptKind(k) = AT_FREE)
      /\ (k = AT_TAIL /\ ~free_tail => SweptKind(k) = AT_TAIL)
  BY <1>2, Zenon DEF SweptKind, Kinds, AT_TAIL, AT_HEAD, AT_MARK, AT_FREE
<1>8. /\ atb' \in [Blocks -> Kinds] /\ atb'[x] = SweptKind(k)
      /\ \A b \in Blocks : b # x => atb'[b] = atb[b]
  BY <1>3, <1>4, <1>7, Zenon
<1>9. /\ Reachable' \subseteq Reachable /\ Reachable \subseteq Blocks
      /\ \A r \in Roots : SoleOwner(r) => SoleOwner(r)'
  <2>1. \A b \in Blocks : atb'[b] = AT_TAIL => atb[b] = AT_TAIL  BY <1>2, <1>7, <1>8, Zenon
  <2>2. \A b \in Blocks : pool'[b] = pool[b] \/ pool'[b] = Nil  BY <1>3, <1>4, Zenon
  <2> QED  BY <1>3, <1>5, <2>1, <2>2, CollectorReach, Zenon
<1>10. ChainGiven'
  <2> SUFFICES ASSUME NEW h \in Blocks, Allocated(h)' PROVE ChainAt(atb', given', h)
    BY Zenon DEF ChainGiven
  <2>1. Allocated(h) /\ (h = x => k = AT_MARK)
    BY <1>2, <1>7, <1>8, Zenon DEF Allocated
  <2>2. ChainAt(atb, given, h)  BY <2>1, Zenon DEF IInv, HeapInv, ChainGiven
  <2>3. given'[h] = given[h]  BY <1>3, <1>4, <2>1, Zenon DEF AT_MARK, AT_HEAD
  <2>4. PICK g \in Nat : g = given[h]  BY <1>3
  <2>5. ASSUME NEW d \in Blocks, h < d, d < h + g PROVE atb'[d] = AT_TAIL
    <3>1. atb[d] = AT_TAIL  BY <2>2, <2>4, <2>5, Zenon DEF ChainAt
    <3>2. CASE d # x  BY <1>8, <3>1, <3>2, Zenon
    <3>3. CASE d = x
      <4>1. PICK c \in Blocks : c = x - 1  BY <2>5, <3>3 DEF Blocks
      <4>2. atb[c] # AT_FREE
        <5>1. CASE c = h  BY <2>1, <5>1, Zenon DEF Allocated, AT_FREE, AT_HEAD, AT_MARK
        <5>2. CASE c # h
          <6>1. h < c /\ c < h + g  BY <2>5, <3>3, <4>1, <5>2 DEF Blocks
          <6> QED  BY <2>2, <2>4, <6>1, Zenon DEF ChainAt, AT_FREE, AT_TAIL
        <5> QED  BY <5>1, <5>2
      <4> QED  BY <1>2, <1>6, <1>7, <1>8, <3>1, <3>3, <4>1, <4>2, Zenon
    <3> QED  BY <3>2, <3>3, Zenon
  <2>6. ASSUME NEW d \in Blocks, d = h + g PROVE atb'[d] # AT_TAIL
    <3>1. atb[d] # AT_TAIL  BY <2>2, <2>4, <2>6, Zenon DEF ChainAt
    <3> QED  BY <1>2, <1>7, <1>8, <3>1, Zenon
  <2> QED  BY <2>2, <2>3, <2>4, <2>5, <2>6, Zenon DEF ChainAt
<1>11. NoOrphanTail'
  <2> SUFFICES ASSUME NEW b \in Blocks, atb'[b] = AT_TAIL
               PROVE  b > 0 /\ (atb'[b - 1] # AT_FREE \/ (x + 1 = b /\ free_tail'))
    BY <1>4, Zenon DEF NoOrphanTail
  <2>1. atb[b] = AT_TAIL  BY <1>2, <1>7, <1>8, Zenon
  <2>2. b > 0 /\ (atb[b - 1] # AT_FREE \/ (x = b /\ free_tail))
    BY <1>1, <2>1, Zenon DEF IInv, HeapInv, NoOrphanTail
  <2>3. ~ (x = b /\ free_tail)
    BY <1>2, <1>7, <1>8, <2>1, Zenon DEF AT_FREE, AT_TAIL
  <2>4. PICK c \in Blocks : c = b - 1  BY <2>2 DEF Blocks
  <2>5. CASE c # x  BY <1>8, <2>2, <2>3, <2>4, <2>5, Zenon
  <2>6. CASE c = x
    <3>1. x + 1 = b  BY <2>4, <2>6 DEF Blocks
    <3>2. SweptKind(k) = AT_FREE => free_tail'
      <4>1. k # AT_FREE  BY <1>2, <2>2, <2>3, <2>4, <2>6, Zenon
      <4> QED
        BY <1>2, <1>4, <1>7, <4>1, Zenon DEF Kinds, AT_FREE, AT_TAIL, AT_HEAD, AT_MARK
    <3> QED  BY <1>8, <2>2, <2>4, <2>6, <3>1, <3>2, Zenon
  <2> QED  BY <2>5, <2>6, Zenon
<1>12. FlagsOnHeads'
  <2> SUFFICES ASSUME NEW b \in Blocks, ftb'[b] PROVE Allocated(b)'
    BY Zenon DEF FlagsOnHeads, Allocated
  <2>1. ftb[b] /\ (b = x => k # AT_HEAD)  BY <1>3, <1>4, ZenonT(30)
  <2>2. Allocated(b)  BY <2>1 DEF IInv, HeapInv, FlagsOnHeads, Allocated
  <2> QED  BY <1>2, <1>7, <1>8, <2>1, <2>2, Zenon DEF Allocated
<1>13. \A b \in Reachable' : atb'[b] = IF b < x + 1 THEN AT_HEAD ELSE AT_MARK
  <2> SUFFICES ASSUME NEW b \in Reachable'
               PROVE  atb'[b] = IF b < x + 1 THEN AT_HEAD ELSE AT_MARK
    BY Zenon
  <2>1. b \in Blocks /\ b \in Int /\ atb[b] = IF b < x THEN AT_HEAD ELSE AT_MARK
    BY <1>1, <1>4, <1>9 DEF IInv, SweepOK, Blocks
  <2> QED  BY <1>2, <1>3, <1>7, <1>8, <2>1
<1>14. LiveAllocated'  BY <1>13, Zenon DEF LiveAllocated, Allocated
<1>15. SweepOK'
  <2>1. \A b \in Blocks : b < x + 1 => atb'[b] # AT_MARK
    <3>1. \A b \in Blocks : b < x => atb[b] # AT_MARK  BY <1>1, <1>4, Zenon DEF IInv, SweepOK
    <3> QED  BY <1>3, <1>7, <1>8, <3>1 DEF Blocks
  <2>2. free_tail' => atb'[x] = AT_FREE
    BY <1>2, <1>4, <1>7, <1>8, Zenon DEF Kinds, AT_FREE, AT_TAIL, AT_HEAD, AT_MARK
  <2>3. x + 1 > 0 /\ (x + 1) - 1 = x  BY <1>3
  <2> QED  BY <1>4, <1>13, <2>1, <2>2, <2>3, Zenon DEF SweepOK
<1>16. TypeOK'
  <2>1. ftb' \in [Blocks -> BOOLEAN]  BY <1>3, <1>4
  <2>2. pool' \in [Blocks -> Words]  BY <1>3, <1>4 DEF Words
  <2>3. given' \in [Blocks -> 0 .. MaxRequest]  BY <1>3, <1>4
  <2>4. free_tail' \in BOOLEAN  BY <1>4, ZenonT(30) DEF IInv, TypeOK
  <2>5. cursor' \in Nat  BY <1>3, <1>4
  <2> QED  BY <1>4, <1>5, <1>8, <2>1, <2>2, <2>3, <2>4, <2>5, ZenonT(30) DEF IInv, TypeOK
<1>17. Control'
  BY <1>3, <1>4, <1>5 DEF IInv, Control, FirstPass, SecondPass, Blocks
<1>18. ReqOwner'
  <2>1. req.op = "realloc" => req.r \in Roots  BY ReqRoot DEF IInv, TypeOK
  <2>2. PICK q : q = req  BY Zenon
  <2>3. ASSUME q.op = "realloc" PROVE SoleOwner(q.r)' /\ q.n > given'[root'[q.r]]
    <3>1. SoleOwner(q.r) /\ q.n > given[root[q.r]] /\ q.r \in Roots
      BY <2>1, <2>2, <2>3, Zenon DEF IInv, ReqOwner
    <3>2. root[q.r] \in Reachable
      <4>1. ClosedIn(Reachable, atb, pool, root)  BY Unfold, ReachClosed, Zenon
      <4> QED  BY <3>1, <4>1, Zenon DEF SoleOwner, ClosedIn
    <3>3. root[q.r] \in Blocks /\ (root[q.r] = x => k = AT_MARK)
      <4>1. PICK y \in Blocks : y = root[q.r]  BY <1>9, <3>2, Zenon
      <4>2. atb[y] = IF y < x THEN AT_HEAD ELSE AT_MARK
        BY <1>1, <1>4, <3>2, <4>1, Zenon DEF IInv, SweepOK
      <4>3. y = x => atb[x] = AT_MARK  BY <1>3, <4>2
      <4> QED  BY <1>2, <4>1, <4>3, Zenon
    <3>4. given'[root[q.r]] = given[root[q.r]]
      BY <1>3, <1>4, <3>3, Zenon DEF AT_MARK, AT_HEAD
    <3> QED  BY <1>5, <1>9, <3>1, <3>4, Zenon
  <2>4. q # NoRequest => gc_lock_depth' = 1  BY <1>4, <1>5, <2>2, Zenon DEF IInv, ReqOwner
  <2> QED  BY <1>4, <2>2, <2>3, <2>4, ZenonT(30) DEF ReqOwner, SoleOwner
<1>19. HintSound' /\ TriColour'
  BY <1>4, Zenon DEF HintSound, TriColour, Marking, FirstPass, SecondPass
<1> QED
  BY <1>10, <1>11, <1>12, <1>14, <1>15, <1>16, <1>17, <1>18, <1>19, ZenonT(30) DEF IInv, HeapInv

\* The end of a collection: the hint is reset and no mark is left.
LEMMA EndIInv == ASSUME IInv, gc_collect_end PROVE IInv'
<1> USE NBlocksType, GCConstants
<1>1. /\ phase = "sweep" /\ cursor = NBlocks /\ gc_last_free_atb_index' = 0 /\ cursor' = 0
      /\ gc_lock_depth' = gc_lock_depth - 1
      /\ phase' = IF req = NoRequest THEN "mutator" ELSE "retry"
      /\ UNCHANGED <<atb, ftb, pool, given, root, gc_auto_collect_enabled, gc_alloc_amount,
                     mark, gc_stack, gc_stack_overflow, free_tail, req>>
  BY Zenon DEF gc_collect_end
<1>2. gc_lock_depth \in 1 .. MaxLock + 1 /\ gc_stack = <<>> /\ (req # NoRequest => gc_lock_depth = 1)
  BY <1>1 DEF IInv, TypeOK, Control, ReqOwner
<1>3. Reachable' = Reachable  BY <1>1, Unfold, Zenon
<1>4. TypeOK'
  <2>1. /\ ftb' \in [Blocks -> BOOLEAN] /\ gc_auto_collect_enabled' \in BOOLEAN
        /\ gc_stack_overflow' \in BOOLEAN /\ free_tail' \in BOOLEAN
    BY <1>1, Zenon DEF IInv, TypeOK
  <2>2. gc_lock_depth' \in 0 .. MaxLock + 1 /\ gc_last_free_atb_index' \in 0 .. AtbLen
    BY <1>1, <1>2
  <2> QED  BY <1>1, <2>1, <2>2, Zenon DEF IInv, TypeOK
<1>5. HeapInv'
  <2>1. ChainGiven' /\ FlagsOnHeads' /\ LiveAllocated'
    BY <1>1, <1>3, Zenon DEF IInv, HeapInv, ChainGiven, FlagsOnHeads, LiveAllocated, Allocated
  <2>2. NoOrphanTail'  BY <1>1 DEF IInv, HeapInv, NoOrphanTail, Blocks
  <2> QED  BY <2>1, <2>2, Zenon DEF HeapInv
<1>6. HintSound'
  <2>1. 0 * BLOCKS_PER_ATB = 0  OBVIOUS
  <2> QED  BY <1>1, <2>1 DEF HintSound, Blocks
<1>7. Control'
  <2>1. \A b \in Blocks : atb[b] # AT_MARK  BY <1>1 DEF IInv, SweepOK, Blocks
  <2> QED  BY <1>1, <1>2, <2>1 DEF IInv, Control, FirstPass, SecondPass
<1>8. ReqOwner'
  <2>1. req.op = "realloc" => req.r \in Roots  BY ReqRoot DEF IInv, TypeOK
  <2>2. PICK q : q = req  BY Zenon
  <2>3. ASSUME q.op = "realloc" PROVE SoleOwner(q.r)' /\ q.n > given'[root'[q.r]]
    <3>1. SoleOwner(q.r) /\ q.n > given[root[q.r]] /\ q.r \in Roots
      BY <2>1, <2>2, <2>3, Zenon DEF IInv, ReqOwner
    <3> QED  BY <1>1, <3>1, CollectorReach, Zenon
  <2>4. q # NoRequest => phase' = "retry"  BY <1>1, <2>2, Zenon
  <2> QED  BY <1>1, <2>2, <2>3, <2>4, Zenon DEF ReqOwner, SoleOwner
<1>9. TriColour' /\ SweepOK'
  BY <1>1 DEF TriColour, SweepOK, Marking, FirstPass, SecondPass
<1> QED  BY <1>4, <1>5, <1>6, <1>7, <1>8, <1>9, Zenon DEF IInv

\* The sweep of everything, at the end of the program.
LEMMA SweepAllIInv == ASSUME IInv, gc_sweep_all PROVE IInv'
<1> USE NBlocksType, GCConstants
<1>1. /\ phase = "mutator" /\ root' = [r \in Roots |-> Nil]
      /\ gc_lock_depth' = gc_lock_depth + 1 /\ gc_stack_overflow' = FALSE
      /\ phase' = "sweep" /\ cursor' = 0 /\ free_tail' = FALSE
      /\ UNCHANGED <<atb, ftb, pool, gc_last_free_atb_index, given,
                     gc_auto_collect_enabled, gc_alloc_amount, mark, gc_stack, req>>
  BY DEF gc_sweep_all
<1>2. Reachable' = {}
  <2>1. ClosedIn({}, atb', pool', root')  BY <1>1, Zenon DEF ClosedIn
  <2> QED  BY <2>1, Unfold, ReachLeast, Zenon
<1>3. TypeOK'
  <2>1. /\ ftb' \in [Blocks -> BOOLEAN] /\ gc_auto_collect_enabled' \in BOOLEAN
        /\ gc_stack_overflow' \in BOOLEAN /\ free_tail' \in BOOLEAN
    BY <1>1, Zenon DEF IInv, TypeOK
  <2>2. gc_lock_depth' \in 0 .. MaxLock + 1  BY <1>1 DEF IInv, TypeOK, Control
  <2>3. root' \in [Roots -> Words]  BY <1>1 DEF Words
  <2> QED  BY <1>1, <2>1, <2>2, <2>3, Zenon DEF IInv, TypeOK
<1>4. HeapInv'
  <2>1. ChainGiven' /\ FlagsOnHeads'
    BY <1>1 DEF IInv, HeapInv, ChainGiven, FlagsOnHeads, Allocated
  <2>2. NoOrphanTail'  BY <1>1 DEF IInv, HeapInv, NoOrphanTail
  <2>3. LiveAllocated'  BY <1>2, Zenon DEF LiveAllocated
  <2> QED  BY <2>1, <2>2, <2>3 DEF HeapInv
<1>5. Control'
  BY <1>1 DEF IInv, TypeOK, Control, FirstPass, SecondPass
<1>6. req' = NoRequest  BY <1>1, Zenon DEF IInv, Control
<1>7. ReqOwner'  BY <1>6, Zenon DEF ReqOwner, NoRequest
<1>8. SweepOK'  BY <1>1, <1>2 DEF SweepOK, Blocks
<1>9. HintSound' /\ TriColour'
  BY <1>1 DEF HintSound, TriColour, Marking, FirstPass, SecondPass
<1> QED  BY <1>3, <1>4, <1>5, <1>7, <1>8, <1>9, Zenon DEF IInv

\* What is tried again after a collection.
LEMMA RetryIInv == ASSUME IInv, Retry PROVE IInv'
<1> USE NBlocksType, GCConstants
<1>1. /\ phase = "retry" /\ phase' = "mutator" /\ req' = NoRequest
      /\ UNCHANGED <<cursor, mark, gc_stack, gc_stack_overflow, free_tail>>
  BY Zenon DEF Retry
<1>2. PICK q : q = req  OBVIOUS
<1>3. /\ q.op \in {"alloc", "realloc"} /\ q.n \in 1 .. MaxRequest /\ q.fin \in BOOLEAN
      /\ q.r \in Roots /\ gc_lock_depth = 0
  BY <1>1, <1>2, Zenon DEF IInv, TypeOK, Control, Requests
<1>4. CASE RunEnds(q.n) = {}
  <2>1. UNCHANGED <<atb, ftb, pool, gc_last_free_atb_index, given, root, gc_lock_depth,
                    gc_auto_collect_enabled, gc_alloc_amount>>
    BY <1>2, <1>4, Zenon DEF Retry, mutatorVars
  <2>2. Reachable' = Reachable  BY <2>1, Unfold, Zenon
  <2>3. TypeOK'
    <3>1. /\ ftb' \in [Blocks -> BOOLEAN] /\ gc_auto_collect_enabled' \in BOOLEAN
          /\ gc_stack_overflow' \in BOOLEAN /\ free_tail' \in BOOLEAN
      BY <1>1, <2>1, Zenon DEF IInv, TypeOK
    <3>2. req' \in Requests  BY <1>1, Zenon DEF Requests
    <3> QED  BY <1>1, <2>1, <3>1, <3>2, Zenon DEF IInv, TypeOK
  <2>4. HeapInv'
    BY <1>1, <2>1, <2>2, Zenon DEF IInv, HeapInv, ChainGiven, NoOrphanTail, FlagsOnHeads,
                            LiveAllocated, Allocated
  <2>5. HintSound'  BY <1>1, <2>1, Zenon DEF IInv, HintSound
  <2>6. gc_stack' = <<>> /\ gc_lock_depth' <= MaxLock /\ \A b \in Blocks : atb'[b] # AT_MARK
    BY <1>1, <1>3, <2>1 DEF IInv, Control
  <2> QED  BY <1>1, <2>3, <2>4, <2>5, <2>6, MutatorIInv, Zenon
<1>5. CASE RunEnds(q.n) # {} /\ q.op = "alloc"
  <2>1. TakeRun(q.n, q.fin, q.r)  BY <1>2, <1>5, Zenon DEF Retry
  <2> QED  BY <1>1, <1>3, <1>5, <2>1, TakeRunIInv, Zenon
<1>6. CASE RunEnds(q.n) # {} /\ q.op = "realloc"
  <2>1. MoveTo(q.n, q.fin, q.r)  BY <1>2, <1>6, Zenon DEF Retry
  <2>2. SoleOwner(q.r) /\ q.n > given[root[q.r]]  BY <1>2, <1>6, Zenon DEF IInv, ReqOwner
  <2> QED  BY <1>1, <1>3, <1>6, <2>1, <2>2, MoveToIInv, Zenon
<1> QED  BY <1>3, <1>4, <1>5, <1>6, Zenon

\* gc_alloc, served now or after a collection.
LEMMA AllocIInv ==
  ASSUME IInv, NEW n \in 1 .. MaxRequest, NEW fin \in BOOLEAN, NEW r \in Roots,
         gc_alloc(n, fin, r)
  PROVE  IInv'
<1>1. phase = "mutator" /\ req = NoRequest  BY Zenon DEF gc_alloc, IInv, Control
<1>2. CASE ServeNow(n) /\ TakeRun(n, fin, r) /\ UNCHANGED collectorVars
  <2>1. /\ phase' = "mutator" /\ req' = NoRequest
        /\ UNCHANGED <<cursor, mark, gc_stack, gc_stack_overflow, free_tail>>
    BY <1>1, <1>2, Zenon DEF collectorVars
  <2>2. gc_lock_depth = 0 /\ RunEnds(n) # {}  BY <1>2, Zenon DEF ServeNow
  <2> QED  BY <1>1, <1>2, <2>1, <2>2, TakeRunIInv, Zenon
<1>3. CASE /\ ServeLater(n)
           /\ gc_collect_start([op |-> "alloc", n |-> n, fin |-> fin, r |-> r])
  <2>1. PICK rq : rq = [op |-> "alloc", n |-> n, fin |-> fin, r |-> r]  BY ZenonT(30)
  <2>2. rq \in Requests /\ rq.op # "realloc"  BY <2>1 DEF Requests
  <2>3. gc_lock_depth = 0  BY <1>3 DEF ServeLater
  <2>4. gc_collect_start(rq)  BY <1>3, <2>1
  <2> QED  BY <1>1, <2>2, <2>3, <2>4, StartIInv, ZenonT(30)
<1> QED  BY <1>2, <1>3, Zenon DEF gc_alloc

\* gc_realloc that moves the chain, now or after a collection.
LEMMA MoveIInv ==
  ASSUME IInv, NEW r \in Roots, NEW n \in 1 .. MaxRequest, Move(r, n)
  PROVE  IInv'
<1>1. /\ phase = "mutator" /\ req = NoRequest /\ gc_lock_depth = 0 /\ root[r] # Nil
      /\ SoleOwner(r) /\ n > ChainLen(root[r])
  BY DEF Move, IInv, Control
<1>2. PICK R, b : R = Reachable /\ b = root[r]  BY Zenon
<1>3. ChainLen(b) = given[b] /\ b \in Blocks  BY <1>1, <1>2, HeldBlock, ZenonT(30)
<1>4. n > given[root[r]]  BY <1>1, <1>2, <1>3, ZenonT(30)
<1>5. ftb[b] \in BOOLEAN  BY <1>3, Zenon DEF IInv, TypeOK
<1>6. CASE ServeNow(n) /\ MoveTo(n, ftb[b], r) /\ UNCHANGED collectorVars
  <2>1. /\ phase' = "mutator" /\ req' = NoRequest
        /\ UNCHANGED <<cursor, mark, gc_stack, gc_stack_overflow, free_tail>>
    BY <1>1, <1>6, Zenon DEF collectorVars
  <2>2. RunEnds(n) # {}  BY <1>6, Zenon DEF ServeNow
  <2> QED  BY <1>1, <1>4, <1>5, <1>6, <2>1, <2>2, MoveToIInv, ZenonT(30)
<1>7. CASE /\ ServeLater(n)
           /\ gc_collect_start([op |-> "realloc", n |-> n, fin |-> ftb[b], r |-> r])
  <2>1. PICK rq : rq = [op |-> "realloc", n |-> n, fin |-> ftb[b], r |-> r]  BY ZenonT(30)
  <2>2. rq \in Requests /\ rq.r = r /\ rq.n = n  BY <1>5, <2>1 DEF Requests
  <2>3. gc_collect_start(rq)  BY <1>7, <2>1
  <2> QED  BY <1>1, <1>4, <2>2, <2>3, StartIInv, Zenon
<1> QED  BY <1>2, <1>6, <1>7, ZenonT(30) DEF Move

\* Every step keeps the invariant.
LEMMA NextIInv == IInv /\ [Next]_vars => IInv'
<1> SUFFICES ASSUME IInv, [Next]_vars PROVE IInv'  OBVIOUS
<1>1. ASSUME Mutator PROVE IInv'
  <2>1. CASE \E r, s \in Roots : \E c \in Stores : Load(r, s, c) \/ Store(r, s, c)
    BY <2>1, PointerIInv
  <2>2. CASE \E r \in Roots : Drop(r)  BY <2>2, PointerIInv
  <2>3. CASE gc_lock \/ gc_unlock \/ \E on \in AutoCollect : gc_enable(on)
    BY <2>3, LockIInv, Zenon
  <2>4. CASE \E n \in 1 .. MaxRequest : \E fin \in Finalisers : \E r \in Roots :
               gc_alloc(n, fin, r)
    BY <2>4, AllocIInv, GCConstants, Zenon
  <2>5. CASE \E r \in Roots : gc_free(r)  BY <2>5, FreeIInv, Zenon
  <2>6. CASE \E r \in Roots : \E n \in Resizes :
               Shrink(r, n) \/ Expand(r, n) \/ Move(r, n)
    <3>1. PICK r \in Roots, n \in Resizes : Shrink(r, n) \/ Expand(r, n) \/ Move(r, n)
      BY <2>6
    <3>2. n \in 1 .. MaxRequest  BY GCConstants, Zenon
    <3> QED  BY <3>1, <3>2, ShrinkIInv, ExpandIInv, MoveIInv, Zenon
  <2>7. CASE gc_collect
    <3>1. /\ phase = "mutator" /\ gc_collect_start(NoRequest)
          /\ NoRequest \in Requests /\ NoRequest.op # "realloc"
      BY <2>7 DEF gc_collect, NoRequest, Requests
    <3> QED  BY <3>1, StartIInv, Zenon
  <2>8. CASE gc_sweep_all  BY <2>8, SweepAllIInv, Zenon
  <2> QED  BY <1>1, <2>1, <2>2, <2>3, <2>4, <2>5, <2>6, <2>7, <2>8 DEF Mutator
<1>2. ASSUME Collector PROVE IInv'
  BY <1>2, RootIInv, WordIInv, PopIInv, RescanOrSweepIInv, RescanIInv, SweepIInv, EndIInv,
     RetryIInv, Zenon
  DEF Collector
<1>3. ASSUME UNCHANGED vars PROVE IInv'
  <2>1. UNCHANGED <<atb, ftb, pool, gc_last_free_atb_index, given, mutatorVars, collectorVars>>
    BY <1>3 DEF vars
  <2>2. UNCHANGED <<root, gc_lock_depth, gc_auto_collect_enabled, gc_alloc_amount, phase, cursor,
                    mark, gc_stack, gc_stack_overflow, free_tail, req>>
    BY <2>1, Zenon DEF mutatorVars, collectorVars
  <2>3. Reachable' = Reachable  BY <2>1, <2>2, Unfold, Zenon
  <2>4. TypeOK'
    <3>1. /\ ftb' \in [Blocks -> BOOLEAN] /\ gc_auto_collect_enabled' \in BOOLEAN
          /\ gc_stack_overflow' \in BOOLEAN /\ free_tail' \in BOOLEAN
      BY <2>1, <2>2, Zenon DEF IInv, TypeOK
    <3> QED  BY <2>1, <2>2, <3>1, Zenon DEF IInv, TypeOK
  <2>5. HeapInv'
    BY <2>1, <2>2, <2>3, Zenon DEF IInv, HeapInv, ChainGiven, NoOrphanTail, FlagsOnHeads,
                            LiveAllocated, Allocated
  <2>6. HintSound'  BY <2>1, <2>2, Zenon DEF IInv, HintSound
  <2>7. Control'  BY <2>1, <2>2, Zenon DEF IInv, Control, FirstPass, SecondPass
  <2>8. ReqOwner'
    <3>1. PICK q : q = req  BY Zenon
    <3>0. req \in Requests /\ ReqOwner  BY Zenon DEF IInv, TypeOK
    <3>2. q.op = "realloc" => q.r \in Roots /\ SoleOwner(q.r) /\ q.n > given[root[q.r]]
      BY <3>0, <3>1, ReqRoot, Zenon DEF ReqOwner
    <3>3. q.op = "realloc" => SoleOwner(q.r)' /\ q.n > given'[root'[q.r]]
      BY <2>1, <2>2, <3>2, CollectorReach, Zenon
    <3>4. q # NoRequest /\ phase' # "retry" => gc_lock_depth' = 1
      BY <2>2, <3>1, Zenon DEF IInv, ReqOwner
    <3> QED  BY <2>2, <3>1, <3>3, <3>4, Zenon DEF ReqOwner, SoleOwner
  <2>9. TriColour'
    BY <2>1, <2>2, Zenon DEF IInv, TriColour, Marking, FirstPass, SecondPass
  <2>10. SweepOK'  BY <2>1, <2>2, <2>3 DEF IInv, SweepOK
  <2> QED  BY <2>4, <2>5, <2>6, <2>7, <2>8, <2>9, <2>10, Zenon DEF IInv
<1> QED  BY <1>1, <1>2, <1>3 DEF Next
-----------------------------------------------------------------------------
(***************************************************************************)
(* The theorems.                                                           *)
(***************************************************************************)
\* The inductive invariant holds in every behaviour of the memory manager.
THEOREM GCInvariant == Spec => []IInv
BY InitIInv, NextIInv, PTL DEF Spec

\* The hint stays inside the allocation table, the mark stack of
\* gc_mark_subtree inside its array, and the lock depth within its bound.
THEOREM GCTypeOK == Spec => []TypeOK
<1>1. IInv => TypeOK  BY Zenon DEF IInv
<1> QED  BY <1>1, GCInvariant, PTL

\* Whatever the program can reach stays allocated, with the blocks it was given
\* and no others, through gc_alloc, gc_free, gc_realloc and every step of a
\* collection, however small the mark stack.
THEOREM GCLiveIntact == Spec => []LiveIntact
<1>1. IInv => LiveIntact
  <2> SUFFICES ASSUME IInv, NEW b \in Reachable
               PROVE  /\ atb[b] \in {AT_HEAD, AT_MARK}
                      /\ Chain(b) = b .. b + given[b] - 1
    BY DEF LiveIntact
  <2>1. TypeOK /\ ChainGiven /\ Allocated(b)  BY Zenon DEF IInv, HeapInv, LiveAllocated
  <2>2. b \in Blocks  BY <2>1, Unfold, ReachBlocks, Zenon DEF TypeOK
  <2> QED  BY <2>1, <2>2, HeadChain DEF Allocated
<1> QED  BY <1>1, GCInvariant, PTL

\* No block before gc_last_free_atb_index is free when gc_alloc starts there.
THEOREM GCHintSound == Spec => []HintSound
<1>1. IInv => HintSound  BY DEF IInv
<1> QED  BY <1>1, GCInvariant, PTL

\* No tail block is left behind a free one, outside the sweep that is about to
\* free it.
THEOREM GCNoOrphanTail == Spec => []NoOrphanTail
<1>1. IInv => NoOrphanTail  BY DEF IInv, HeapInv
<1> QED  BY <1>1, GCInvariant, PTL

\* Finaliser flags are set for heads only: no allocation inherits one.
THEOREM GCFlagsOnHeads == Spec => []FlagsOnHeads
<1>1. IInv => FlagsOnHeads  BY DEF IInv, HeapInv
<1> QED  BY <1>1, GCInvariant, PTL
=============================================================================
