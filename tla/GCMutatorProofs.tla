--------------------------- MODULE GCMutatorProofs --------------------------
(***************************************************************************)
(* The operations that change the tables on behalf of the program, gc_free *)
(* and the three forms of gc_realloc, and the taking of a run by gc_alloc, *)
(* preserve the inductive invariant of GCHeap.                             *)
(***************************************************************************)
EXTENDS GCHeapInv

\* gc_alloc takes a run, at once or after a collection.
LEMMA TakeRunIInv ==
  ASSUME IInv, phase \in {"mutator", "retry"},
         NEW n \in 1 .. MaxRequest, NEW fin \in BOOLEAN, NEW r \in Roots,
         RunEnds(n) # {}, gc_lock_depth = 0, TakeRun(n, fin, r),
         phase' = "mutator", req' = NoRequest,
         UNCHANGED <<cursor, mark, gc_stack, gc_stack_overflow, free_tail>>
  PROVE  IInv'
<1> USE NBlocksType, GCConstants
<1>1. n \in Nat \ {0} /\ phase # "sweep" /\ TypeOK  BY DEF IInv
<1>2. PICK s : s = FirstRun(n) - n + 1  OBVIOUS
<1>3. /\ s \in Blocks /\ s + n <= NBlocks
      /\ FirstRun(n) \in Blocks /\ FirstRun(n) = s + n - 1
      /\ \A j \in s .. s + n - 1 : atb[j] = AT_FREE
  BY <1>1, <1>2, RunTaken
<1>4. /\ WellFormed(atb, given) /\ atb \in [Blocks -> Kinds] /\ given \in [Blocks -> Nat]
      /\ pool \in [Blocks -> Words] /\ root \in [Roots -> Words]
  BY <1>1, TablesBefore
<1>5. /\ atb' = [b \in Blocks |-> IF b = s THEN AT_HEAD
                                  ELSE IF b \in s + 1 .. s + n - 1 THEN AT_TAIL ELSE atb[b]]
      /\ given' = [given EXCEPT ![s] = n]
      /\ pool' = [b \in Blocks |-> IF b \in s .. s + n - 1 THEN Nil ELSE pool[b]]
      /\ ftb' = IF fin THEN [ftb EXCEPT ![s] = TRUE] ELSE ftb
      /\ root' = [root EXCEPT ![r] = s]
      /\ gc_last_free_atb_index' = HintAfterAlloc(n, FirstRun(n))
      /\ gc_alloc_amount' = Amount(n)
      /\ gc_lock_depth' = gc_lock_depth /\ gc_auto_collect_enabled' = gc_auto_collect_enabled
  BY <1>2, <1>3 DEF TakeRun, WithChain, Zeroed
<1>6. WellFormed(atb', given')  BY <1>1, <1>3, <1>4, <1>5, PlaceRun, Zenon
<1>7. FlagsOnHeads'
  BY <1>3, <1>5 DEF IInv, HeapInv, TypeOK, FlagsOnHeads, AT_FREE, AT_HEAD, AT_MARK, AT_TAIL, Blocks
<1>8. LiveAllocated'
  <2> PICK R : R = Reachable  OBVIOUS
  <2>1. ClosedIn(R, atb, pool, root) /\ R \subseteq Blocks
    BY <1>4, Unfold, ReachClosed, ReachBlocks
  <2>2. ASSUME NEW b \in R PROVE Allocated(b) /\ b # s /\ atb'[b] = atb[b] /\ given'[b] = given[b]
    BY <1>3, <1>4, <1>5, <2>1 DEF IInv, HeapInv, LiveAllocated, Allocated, Blocks,
       AT_FREE, AT_HEAD, AT_TAIL, AT_MARK
  <2>3. given' \in [Blocks -> Nat]  BY <1>1, <1>4, <1>5, Zenon
  <2>4. ASSUME NEW b \in R, NEW c \in ChainIn(atb', b), pool'[c] # Nil PROVE pool'[c] \in R
    <3>1. ChainAt(atb, given, b) /\ ChainAt(atb', given', b)
      BY <1>4, <1>6, <2>1, <2>2 DEF WellFormed, Allocated
    <3>2. ChainIn(atb', b) = ChainIn(atb, b)
      BY <1>4, <2>1, <2>2, <2>3, <3>1, ChainOfHead
    <3>3. c \in Blocks  BY <2>4 DEF ChainIn
    <3>4. pool'[c] = pool[c]  BY <1>5, <2>4, <3>3
    <3> QED  BY <2>1, <2>4, <3>2, <3>4 DEF ClosedIn
  <2>5. ASSUME NEW c \in ChainIn(atb', s) PROVE pool'[c] = Nil
    <3>1. ChainAt(atb', given', s)  BY <1>3, <1>5, <1>6, Zenon DEF WellFormed
    <3>2. PICK t1, g1 : t1 = atb' /\ g1 = given'  OBVIOUS
    <3>3. s \in Blocks /\ g1 \in [Blocks -> Nat] /\ ChainAt(t1, g1, s)
      BY <1>3, <2>3, <3>1, <3>2
    <3>4. ChainIn(t1, s) = s .. s + g1[s] - 1  BY <3>3, ChainOfHead
    <3>5. g1[s] = n  BY <1>3, <1>4, <1>5, <3>2
    <3>6. ChainIn(atb', s) = s .. s + n - 1  BY <3>2, <3>4, <3>5
    <3> QED  BY <1>5, <2>5, <3>6 DEF ChainIn
  <2>6. ClosedIn(R \cup {s}, atb', pool', root')
    BY <1>4, <1>5, <2>1, <2>4, <2>5, Zenon DEF ClosedIn
  <2>7. \A b \in R \cup {s} : Allocated(b)'  BY <1>3, <1>5, <2>2 DEF Allocated
  <2> QED  BY <2>6, <2>7, LiveByClosedSet
<1>9. HintSound' /\ gc_last_free_atb_index' \in 0 .. AtbLen
  <2>1. \A b \in Blocks : b < gc_last_free_atb_index * BLOCKS_PER_ATB => atb[b] # AT_FREE
    BY DEF IInv, HintSound
  <2>2. PICK h : h = HintAfterAlloc(n, FirstRun(n))  OBVIOUS
  <2>3. /\ h \in 0 .. AtbLen
        /\ \A b \in Blocks : b < h * BLOCKS_PER_ATB /\ b # s => atb[b] # AT_FREE
    BY <1>1, <1>2, <2>1, <2>2, HintAlloc
  <2>4. \A b \in Blocks : atb'[b] = AT_FREE => atb[b] = AT_FREE /\ b # s
    BY <1>5 DEF AT_FREE, AT_HEAD, AT_TAIL
  <2> QED  BY <1>5, <2>2, <2>3, <2>4 DEF HintSound
<1>10. TypeOK'
  <2>1. ftb' \in [Blocks -> BOOLEAN]  BY <1>3, <1>5 DEF IInv, TypeOK
  <2>2. /\ gc_auto_collect_enabled' \in BOOLEAN /\ gc_stack_overflow' \in BOOLEAN
        /\ free_tail' \in BOOLEAN
    BY <1>5 DEF IInv, TypeOK
  <2>3. atb' \in [Blocks -> Kinds]  BY <1>4, <1>5 DEF Kinds
  <2>4. pool' \in [Blocks -> Words] /\ root' \in [Roots -> Words]
    BY <1>3, <1>4, <1>5 DEF Words
  <2>5. given' \in [Blocks -> 0 .. MaxRequest]  BY <1>3, <1>5 DEF IInv, TypeOK
  <2>6. gc_alloc_amount' \in Nat  BY <1>1, <1>5, SMTT(30) DEF Amount, IInv, TypeOK
  <2>7. req' \in Requests  BY DEF Requests
  <2> QED  BY <1>5, <1>9, <2>1, <2>2, <2>3, <2>4, <2>5, <2>6, <2>7, Zenon DEF IInv, TypeOK
<1>11. \A b \in Blocks : atb'[b] # AT_MARK
  BY <1>5 DEF IInv, Control, AT_HEAD, AT_TAIL, AT_MARK
<1>12. gc_stack' = <<>> /\ gc_lock_depth' <= MaxLock  BY <1>5 DEF IInv, Control
<1> QED  BY <1>6, <1>7, <1>8, <1>9, <1>10, <1>11, <1>12, TablesAfter, MutatorIInv DEF HeapInv

\* The hint after the blocks from b on were freed is sound.
LEMMA HintFree ==
  ASSUME TypeOK, NEW b \in Nat,
         \A c \in Blocks : c < gc_last_free_atb_index * BLOCKS_PER_ATB => atb[c] # AT_FREE,
         NEW h, h = HintAfterFree(b)
  PROVE  /\ h \in 0 .. AtbLen
         /\ \A c \in Blocks : c < h * BLOCKS_PER_ATB => c < b /\ atb[c] # AT_FREE
<1> USE NBlocksType
<1>1. BLOCKS_PER_ATB \in Nat \ {0} /\ AtbLen \in Nat \ {0}  BY GCConstants
<1>2. PICK q \in Nat : q = b \div BLOCKS_PER_ATB /\ q * BLOCKS_PER_ATB <= b  BY <1>1, DivBound
<1>3. PICK i \in Nat : i = gc_last_free_atb_index /\ i <= AtbLen  BY <1>1 DEF TypeOK
<1>4. h = IF q < i THEN q ELSE i  BY <1>2, <1>3 DEF HintAfterFree
<1>5. h \in Nat /\ h <= q /\ h <= i  BY <1>4
<1>6. PICK top \in Nat : top = h * BLOCKS_PER_ATB  BY <1>1, <1>5
<1>7. top <= q * BLOCKS_PER_ATB /\ top <= i * BLOCKS_PER_ATB  BY <1>1, <1>5, <1>6, TimesMono
<1>8. PICK qb \in Nat : qb = q * BLOCKS_PER_ATB  BY <1>1
<1>9. PICK ib \in Nat : ib = i * BLOCKS_PER_ATB  BY <1>1
<1>10. qb <= b /\ top <= qb /\ top <= ib  BY <1>2, <1>7, <1>8, <1>9
<1>11. \A c \in Blocks : c < ib => atb[c] # AT_FREE  BY <1>3, <1>9
<1>12. \A c \in Blocks : c < top => c < b /\ atb[c] # AT_FREE  BY <1>10, <1>11 DEF Blocks
<1>13. h \in 0 .. AtbLen  BY <1>1, <1>3, <1>5
<1> QED  BY <1>6, <1>12, <1>13

\* gc_free leaves no finaliser flag at the block it frees and sets none.
LEMMA FtbFree ==
  ASSUME NEW f \in [Blocks -> BOOLEAN], NEW b \in Blocks, NEW g, g = FtbAfterFree(f, b)
  PROVE  /\ g \in [Blocks -> BOOLEAN]
         /\ \A j \in Blocks : g[j] => f[j] /\ j # b
BY DEF FtbAfterFree

\* The owner of a block reaches it, and no other pointer of what it reaches
\* leads there.
LEMMA OwnedBlock ==
  ASSUME IInv, NEW r \in Roots, SoleOwner(r), NEW R, R = Reachable, NEW b, b = root[r]
  PROVE  /\ ClosedIn(R, atb, pool, root) /\ R \subseteq Blocks
         /\ b \in R /\ b \in Blocks /\ Allocated(b)
         /\ \A q \in Roots : q # r => root[q] # b
         /\ \A d \in R : \A c \in ChainIn(atb, d) : pool[c] # b
<1>1. ClosedIn(R, atb, pool, root)  BY Unfold, ReachClosed
<1>2. R \subseteq Blocks  BY Unfold, ReachBlocks, Zenon DEF IInv, TypeOK
<1>3. b \in R  BY <1>1 DEF SoleOwner, ClosedIn
<1>4. Allocated(b)  BY <1>3 DEF IInv, HeapInv, LiveAllocated
<1> QED  BY <1>1, <1>2, <1>3, <1>4, Unfold DEF SoleOwner

\* gc_free.
LEMMA FreeIInv ==
  ASSUME IInv, NEW r \in Roots, gc_free(r)
  PROVE  IInv'
<1> USE NBlocksType, GCConstants
<1>1. phase = "mutator" /\ SoleOwner(r) /\ TypeOK  BY DEF gc_free, IInv
<1>2. PICK b : b = root[r]  OBVIOUS
<1>3. PICK R : R = Reachable  OBVIOUS
<1>4. /\ ClosedIn(R, atb, pool, root) /\ R \subseteq Blocks
      /\ b \in R /\ b \in Blocks /\ Allocated(b)
      /\ \A q \in Roots : q # r => root[q] # b
      /\ \A d \in R : \A c \in ChainIn(atb, d) : pool[c] # b
  BY <1>1, <1>2, <1>3, OwnedBlock
<1>5. /\ WellFormed(atb, given) /\ atb \in [Blocks -> Kinds] /\ given \in [Blocks -> Nat]
      /\ pool \in [Blocks -> Words] /\ root \in [Roots -> Words]
  BY <1>1, TablesBefore
<1>6. Chain(b) = b .. b + given[b] - 1  BY <1>4, HeadChain, Zenon DEF IInv, HeapInv
<1>7. /\ atb' = [c \in Blocks |-> IF c \in b .. b + given[b] - 1 THEN AT_FREE ELSE atb[c]]
      /\ given' = [given EXCEPT ![b] = 0]
      /\ pool' = [c \in Blocks |-> IF c \in b .. b + given[b] - 1 THEN Nil ELSE pool[c]]
      /\ ftb' = FtbAfterFree(ftb, b)
      /\ root' = [root EXCEPT ![r] = Nil]
      /\ gc_last_free_atb_index' = HintAfterFree(b)
      /\ UNCHANGED <<gc_lock_depth, gc_auto_collect_enabled, gc_alloc_amount, phase, cursor, mark,
                     gc_stack, gc_stack_overflow, free_tail, req>>
  BY <1>2, <1>6, Zenon DEF gc_free, AtbAfterFree, Zeroed, collectorVars
<1>8. WellFormed(atb', given')
  <2>1. b + 0 = b  BY <1>4 DEF Blocks
  <2>2. PICK m \in Nat : m = 0  OBVIOUS
  <2>3. /\ atb' = [c \in Blocks |-> IF c \in b + m .. b + given[b] - 1 THEN AT_FREE ELSE atb[c]]
        /\ given' = [given EXCEPT ![b] = m]
    BY <1>7, <2>1, <2>2
  <2>4. m <= given[b]  BY <1>4, <1>5, <2>2
  <2> QED  BY <1>4, <1>5, <2>3, <2>4, CutRun, Zenon DEF Allocated
<1>9. ftb' \in [Blocks -> BOOLEAN] /\ \A j \in Blocks : ftb'[j] => ftb[j] /\ j # b
  BY <1>4, <1>7, FtbFree, ZenonT(30) DEF IInv, TypeOK
<1>10. ASSUME NEW d \in Blocks, Allocated(d), d # b
       PROVE  atb'[d] = atb[d] /\ given'[d] = given[d] /\ ChainIn(atb', d) = ChainIn(atb, d)
  <2>1. ChainAt(atb, given, d) /\ ChainAt(atb, given, b)
    BY <1>4, <1>5, <1>10 DEF WellFormed, Allocated
  <2>2. d + given[d] <= b \/ b + given[b] <= d
    BY <1>4, <1>5, <1>10, <2>1, ChainsDisjoint DEF Allocated
  <2>3. given[d] \in Nat /\ given[b] \in Nat /\ given[d] >= 1
    BY <1>4, <1>5, <2>1 DEF ChainAt
  <2>4. atb'[d] = atb[d] /\ given'[d] = given[d]
    BY <1>4, <1>5, <1>7, <1>10, <2>2, <2>3 DEF Blocks
  <2>5. ChainAt(atb', given', d)  BY <1>8, <1>10, <2>4 DEF WellFormed, Allocated
  <2>6. given' \in [Blocks -> Nat]  BY <1>5, <1>7, ZenonT(30)
  <2> QED  BY <1>5, <2>1, <2>4, <2>5, <2>6, ChainOfHead
<1>11. FlagsOnHeads'
  BY <1>9, <1>10 DEF IInv, HeapInv, FlagsOnHeads, Allocated
<1>12. LiveAllocated'
  <2>1. \A d \in R \ {b} : Allocated(d)'
    BY <1>3, <1>4, <1>10 DEF IInv, HeapInv, LiveAllocated, Allocated
  <2>2. ASSUME NEW d \in R \ {b}, NEW c \in ChainIn(atb', d), pool'[c] # Nil
        PROVE  pool'[c] \in R \ {b}
    <3>1. c \in ChainIn(atb, d) /\ c \in Blocks
      BY <1>3, <1>4, <1>10, <2>2 DEF ChainIn, IInv, HeapInv, LiveAllocated
    <3>2. pool'[c] = pool[c]  BY <1>7, <2>2, <3>1, Zenon
    <3> QED  BY <1>4, <2>2, <3>1, <3>2 DEF ClosedIn
  <2>3. \A q \in Roots : root'[q] # Nil => root'[q] \in R \ {b}
    BY <1>4, <1>5, <1>7, Zenon DEF ClosedIn
  <2>4. ClosedIn(R \ {b}, atb', pool', root')  BY <2>2, <2>3, Zenon DEF ClosedIn
  <2> QED  BY <2>1, <2>4, LiveByClosedSet
<1>13. HintSound' /\ gc_last_free_atb_index' \in 0 .. AtbLen
  <2>1. \A c \in Blocks : c < gc_last_free_atb_index * BLOCKS_PER_ATB => atb[c] # AT_FREE
    BY <1>1 DEF IInv, HintSound
  <2>2. PICK h : h = HintAfterFree(b)  OBVIOUS
  <2>3. b \in Nat  BY <1>4 DEF Blocks
  <2>4. /\ h \in 0 .. AtbLen
        /\ \A c \in Blocks : c < h * BLOCKS_PER_ATB => c < b /\ atb[c] # AT_FREE
    BY <1>1, <2>1, <2>2, <2>3, HintFree, Zenon
  <2>5. \A c \in Blocks : c < b => atb'[c] = atb[c]  BY <1>4, <1>5, <1>7 DEF Blocks
  <2> QED  BY <1>7, <2>2, <2>4, <2>5 DEF HintSound
<1>14. TypeOK'
  <2>1. ftb' \in [Blocks -> BOOLEAN]  BY <1>9, Zenon
  <2>2. /\ gc_auto_collect_enabled' \in BOOLEAN /\ gc_stack_overflow' \in BOOLEAN
        /\ free_tail' \in BOOLEAN
    BY <1>7, Zenon DEF IInv, TypeOK
  <2>3. atb' \in [Blocks -> Kinds]  BY <1>5, <1>7, Zenon DEF Kinds
  <2>4. pool' \in [Blocks -> Words] /\ root' \in [Roots -> Words]
    BY <1>5, <1>7, ZenonT(30) DEF Words
  <2>5. given' \in [Blocks -> 0 .. MaxRequest]  BY <1>4, <1>7 DEF IInv, TypeOK
  <2> QED  BY <1>7, <1>13, <2>1, <2>2, <2>3, <2>4, <2>5, Zenon DEF IInv, TypeOK
<1>15. \A c \in Blocks : atb'[c] # AT_MARK
  BY <1>1, <1>7, Zenon DEF IInv, Control, AT_FREE, AT_MARK
<1>16. /\ gc_stack' = <<>> /\ gc_lock_depth' <= MaxLock
       /\ phase' = "mutator" /\ req' = NoRequest
  BY <1>1, <1>7 DEF IInv, Control
<1> QED  BY <1>8, <1>11, <1>12, <1>13, <1>14, <1>15, <1>16, TablesAfter, MutatorIInv DEF HeapInv

\* A chain is the same in two tables that give it the same length.
LEMMA SameChain ==
  ASSUME NEW t, NEW g \in [Blocks -> Nat], NEW t1, NEW g1 \in [Blocks -> Nat],
         NEW d \in Blocks, ChainAt(t, g, d), ChainAt(t1, g1, d), g1[d] = g[d]
  PROVE  ChainIn(t1, d) = ChainIn(t, d)
BY ChainOfHead

\* The end and the length of a chain that is an interval.
LEMMA ChainEndIs ==
  ASSUME NEW b \in Nat, NEW k \in Nat \ {0}, Chain(b) = b .. b + k - 1
  PROVE  ChainEnd(b) = b + k - 1 /\ ChainLen(b) = k
<1>1. \A e \in Chain(b) : e + 1 \notin Chain(b) <=> e = b + k - 1  OBVIOUS
<1>2. b + k - 1 \in Chain(b)  OBVIOUS
<1>3. ChainEnd(b) = b + k - 1  BY <1>1, <1>2, Zenon DEF ChainEnd
<1> QED  BY <1>3 DEF ChainLen

\* What a root holds, seen by the three cases of gc_realloc.
LEMMA HeldBlock ==
  ASSUME IInv, phase \in {"mutator", "retry"}, NEW r \in Roots, root[r] # Nil,
         NEW R, R = Reachable, NEW b, b = root[r]
  PROVE  /\ ClosedIn(R, atb, pool, root) /\ R \subseteq Blocks /\ \A d \in R : Allocated(d)
         /\ b \in R /\ b \in Blocks /\ b \in Nat /\ Allocated(b)
         /\ given[b] \in Nat \ {0} /\ b + given[b] <= NBlocks
         /\ Chain(b) = b .. b + given[b] - 1
         /\ ChainEnd(b) = b + given[b] - 1 /\ ChainLen(b) = given[b]
<1>1. ClosedIn(R, atb, pool, root)  BY Unfold, ReachClosed, Zenon
<1>2. R \subseteq Blocks  BY Unfold, ReachBlocks, Zenon DEF IInv, TypeOK
<1>3. b \in R  BY <1>1 DEF ClosedIn
<1>4. \A d \in R : Allocated(d)  BY DEF IInv, HeapInv, LiveAllocated
<1>5. b \in Blocks /\ b \in Nat /\ Allocated(b)  BY <1>2, <1>3, <1>4, NBlocksType DEF Blocks
<1>6. /\ given[b] \in Nat \ {0} /\ b + given[b] <= NBlocks
      /\ Chain(b) = b .. b + given[b] - 1
  BY <1>5, HeadChain DEF IInv, HeapInv
<1>7. PICK k \in Nat \ {0} : k = given[b]  BY <1>6
<1>8. ChainEnd(b) = b + k - 1 /\ ChainLen(b) = k  BY <1>5, <1>6, <1>7, ChainEndIs, Zenon
<1> QED  BY <1>1, <1>2, <1>3, <1>4, <1>5, <1>6, <1>7, <1>8, Zenon

\* gc_realloc that frees the end of the chain.
LEMMA ShrinkIInv ==
  ASSUME IInv, NEW r \in Roots, NEW n \in 1 .. MaxRequest, Shrink(r, n)
  PROVE  IInv'
<1> USE NBlocksType, GCConstants
<1>1. phase = "mutator" /\ TypeOK /\ root[r] # Nil /\ n \in Nat \ {0}  BY DEF Shrink, IInv
<1>2. PICK b : b = root[r]  OBVIOUS
<1>3. PICK R : R = Reachable  OBVIOUS
<1>4. /\ R \subseteq Blocks /\ \A d \in R : Allocated(d)
      /\ b \in Blocks /\ b \in Nat /\ Allocated(b)
      /\ given[b] \in Nat \ {0} /\ b + given[b] <= NBlocks
      /\ Chain(b) = b .. b + given[b] - 1
      /\ ChainEnd(b) = b + given[b] - 1 /\ ChainLen(b) = given[b]
  BY <1>1, <1>2, <1>3, HeldBlock, Zenon
<1>5. /\ WellFormed(atb, given) /\ atb \in [Blocks -> Kinds] /\ given \in [Blocks -> Nat]
      /\ pool \in [Blocks -> Words] /\ root \in [Roots -> Words]
  BY <1>1, TablesBefore, Zenon
<1>6. /\ n < given[b]
      /\ atb' = [c \in Blocks |-> IF c \in b + n .. b + given[b] - 1 THEN AT_FREE ELSE atb[c]]
      /\ given' = [given EXCEPT ![b] = n]
      /\ pool' = [c \in Blocks |-> IF c \in b + n .. b + given[b] - 1 THEN Nil ELSE pool[c]]
      /\ gc_last_free_atb_index' = HintAfterFree(b + n)
      /\ UNCHANGED <<ftb, root, gc_lock_depth, gc_auto_collect_enabled, gc_alloc_amount, phase,
                     cursor, mark, gc_stack, gc_stack_overflow, free_tail, req>>
  BY <1>2, <1>4, Zenon DEF Shrink, AtbAfterFree, Zeroed, collectorVars, mutatorVars
<1>7. WellFormed(atb', given')
  <2>0. n < given[b]  BY <1>6
  <2>1. n \in Nat /\ n <= given[b]  BY <1>1, <1>4, <2>0
  <2> QED  BY <1>4, <1>5, <1>6, <2>1, CutRun, Zenon DEF Allocated
<1>8. \A d \in Blocks : d \in b + n .. b + given[b] - 1 => atb[d] = AT_TAIL
  <2>1. ChainAt(atb, given, b)  BY <1>4, <1>5 DEF WellFormed, Allocated
  <2> QED  BY <1>1, <1>4, <2>1 DEF ChainAt
<1>9. \A d \in Blocks : Allocated(d) => Allocated(d)'
  BY <1>5, <1>6, <1>8, Zenon DEF Allocated, AT_HEAD, AT_MARK, AT_TAIL
<1>10. FlagsOnHeads'  BY <1>6, <1>9, Zenon DEF IInv, HeapInv, FlagsOnHeads, Allocated
<1>11. LiveAllocated'
  <2>1. \A c \in Blocks : atb'[c] = AT_TAIL => atb[c] = AT_TAIL
    BY <1>6 DEF AT_FREE, AT_TAIL
  <2>2. \A c \in Blocks : pool'[c] \in {pool[c], Nil}  BY <1>6, ZenonT(30)
  <2>3. \A q \in Roots : root'[q] \in {root[q], Nil}  BY <1>6
  <2>4. Reachable' \subseteq R  BY <1>3, <1>5, <2>1, <2>2, <2>3, Unfold, ReachShrinks, Zenon
  <2> QED  BY <1>4, <1>9, <2>4, Zenon DEF LiveAllocated
<1>12. HintSound' /\ gc_last_free_atb_index' \in 0 .. AtbLen
  <2>1. \A c \in Blocks : c < gc_last_free_atb_index * BLOCKS_PER_ATB => atb[c] # AT_FREE
    BY <1>1 DEF IInv, HintSound
  <2>2. PICK x \in Nat : x = b + n  BY <1>1, <1>4
  <2>3. PICK h : h = HintAfterFree(x)  OBVIOUS
  <2>4. /\ h \in 0 .. AtbLen
        /\ \A c \in Blocks : c < h * BLOCKS_PER_ATB => c < x /\ atb[c] # AT_FREE
    BY <1>1, <2>1, <2>3, HintFree, Zenon
  <2>5. \A c \in Blocks : c < x => atb'[c] = atb[c]  BY <1>4, <1>5, <1>6, <2>2 DEF Blocks
  <2> QED  BY <1>6, <2>2, <2>3, <2>4, <2>5, Zenon DEF HintSound
<1>13. TypeOK'
  <2>1. /\ ftb' \in [Blocks -> BOOLEAN] /\ gc_auto_collect_enabled' \in BOOLEAN
        /\ gc_stack_overflow' \in BOOLEAN /\ free_tail' \in BOOLEAN
    BY <1>6, Zenon DEF IInv, TypeOK
  <2>2. atb' \in [Blocks -> Kinds]  BY <1>5, <1>6, Zenon DEF Kinds
  <2>3. pool' \in [Blocks -> Words] /\ root' \in [Roots -> Words]  BY <1>5, <1>6, Zenon DEF Words
  <2>4. given' \in [Blocks -> 0 .. MaxRequest]  BY <1>4, <1>6 DEF IInv, TypeOK
  <2> QED  BY <1>6, <1>12, <2>1, <2>2, <2>3, <2>4, Zenon DEF IInv, TypeOK
<1>14. \A c \in Blocks : atb'[c] # AT_MARK
  BY <1>1, <1>6, Zenon DEF IInv, Control, AT_FREE, AT_MARK
<1>15. /\ gc_stack' = <<>> /\ gc_lock_depth' <= MaxLock
       /\ phase' = "mutator" /\ req' = NoRequest
  BY <1>1, <1>6 DEF IInv, Control
<1> QED  BY <1>7, <1>10, <1>11, <1>12, <1>13, <1>14, <1>15, TablesAfter, MutatorIInv DEF HeapInv

\* gc_realloc that takes the free blocks behind the chain.
LEMMA ExpandIInv ==
  ASSUME IInv, NEW r \in Roots, NEW n \in 1 .. MaxRequest, Expand(r, n)
  PROVE  IInv'
<1> USE NBlocksType, GCConstants
<1>1. phase = "mutator" /\ TypeOK /\ root[r] # Nil /\ n \in Nat \ {0}  BY DEF Expand, IInv
<1>2. PICK b : b = root[r]  OBVIOUS
<1>3. PICK R : R = Reachable  OBVIOUS
<1>4. /\ ClosedIn(R, atb, pool, root) /\ R \subseteq Blocks /\ \A d \in R : Allocated(d)
      /\ b \in Blocks /\ b \in Nat /\ Allocated(b)
      /\ given[b] \in Nat \ {0} /\ b + given[b] <= NBlocks
      /\ Chain(b) = b .. b + given[b] - 1
      /\ ChainEnd(b) = b + given[b] - 1 /\ ChainLen(b) = given[b]
  BY <1>1, <1>2, <1>3, HeldBlock, Zenon
<1>5. /\ WellFormed(atb, given) /\ atb \in [Blocks -> Kinds] /\ given \in [Blocks -> Nat]
      /\ pool \in [Blocks -> Words] /\ root \in [Roots -> Words]
  BY <1>1, TablesBefore
<1>6. Added(b, n) = b + given[b] .. b + n - 1  BY <1>4 DEF Added
<1>7. /\ n > given[b]
      /\ \A j \in b + given[b] .. b + n - 1 : j \in Blocks /\ atb[j] = AT_FREE
      /\ atb' = [c \in Blocks |-> IF c \in b + given[b] .. b + n - 1 THEN AT_TAIL ELSE atb[c]]
      /\ given' = [given EXCEPT ![b] = n]
      /\ pool' = [c \in Blocks |-> IF c \in b + given[b] .. b + n - 1 THEN Nil ELSE pool[c]]
      /\ UNCHANGED <<ftb, root, gc_last_free_atb_index, gc_lock_depth, gc_auto_collect_enabled,
                     gc_alloc_amount, phase, cursor, mark, gc_stack, gc_stack_overflow,
                     free_tail, req>>
  BY <1>2, <1>4, <1>6, Zenon DEF Expand, FitsInPlace, Zeroed, collectorVars, mutatorVars
<1>8. b + n <= NBlocks
  <2>1. PICK l \in Nat : l = b + n - 1  BY <1>1, <1>4
  <2>0. n > given[b]  BY <1>7
  <2>2. l \in b + given[b] .. b + n - 1
    <3>1. PICK g \in Nat : g = given[b]  BY <1>4
    <3>2. b \in Nat /\ n \in Nat  BY <1>1, <1>4
    <3> QED  BY <2>0, <2>1, <3>1, <3>2
  <2>3. l \in Blocks  BY <1>7, <2>2, Zenon
  <2> QED  BY <1>1, <1>4, <2>1, <2>3 DEF Blocks
<1>9. WellFormed(atb', given')  BY <1>1, <1>4, <1>5, <1>7, <1>8, ExtendRun, Zenon DEF Allocated
<1>10. \A d \in Blocks : Allocated(d) => atb'[d] = atb[d]
  BY <1>5, <1>7 DEF Allocated, AT_HEAD, AT_MARK, AT_FREE
<1>11. FlagsOnHeads'  BY <1>7, <1>10 DEF IInv, HeapInv, FlagsOnHeads, Allocated
<1>12. LiveAllocated'
  <2>1. \A d \in R : Allocated(d)'  BY <1>4, <1>10 DEF Allocated
  <2>2. ASSUME NEW d \in R, NEW c \in ChainIn(atb', d), pool'[c] # Nil PROVE pool'[c] \in R
    <3>1. d \in Blocks /\ ChainAt(atb, given, d) /\ ChainAt(atb', given', d)
      BY <1>4, <1>5, <1>9, <2>1, Zenon DEF WellFormed, Allocated
    <3>2. given' \in [Blocks -> Nat]  BY <1>1, <1>5, <1>7, Zenon
    <3>3. c \in Blocks /\ pool'[c] = pool[c]  BY <1>7, <2>2 DEF ChainIn
    <3>4. CASE d # b
      <4>1. given'[d] = given[d]  BY <1>5, <1>7, <3>1, <3>4
      <4>2. ChainIn(atb', d) = ChainIn(atb, d)  BY <1>5, <3>1, <3>2, <4>1, SameChain
      <4> QED  BY <1>4, <2>2, <3>3, <4>2 DEF ClosedIn
    <3>5. CASE d = b
      <4>1. c \in b .. b + n - 1
        <5>1. given'[b] = n  BY <1>4, <1>5, <1>7, Zenon
        <5>2. ChainIn(atb', b) = b .. b + given'[b] - 1
          BY <1>4, <3>1, <3>2, <3>5, ChainOfHead, Zenon
        <5> QED  BY <2>2, <3>5, <5>1, <5>2, Zenon
      <4>2. c \notin b + given[b] .. b + n - 1  BY <1>7, <2>2, <3>3, Zenon
      <4>0. b \in Nat /\ given[b] \in Nat /\ n \in Nat /\ c \in Nat
        BY <1>1, <1>4, <3>3 DEF Blocks
      <4>3. c \in b .. b + given[b] - 1  BY <4>0, <4>1, <4>2
      <4>4. c \in ChainIn(atb, b)  BY <1>4, <4>3, Unfold, Zenon
      <4> QED  BY <1>4, <2>2, <3>3, <3>5, <4>4, Zenon DEF ClosedIn
    <3> QED  BY <3>4, <3>5, Zenon
  <2>3. ClosedIn(R, atb', pool', root')  BY <1>4, <1>7, <2>2, Zenon DEF ClosedIn
  <2> QED  BY <2>1, <2>3, LiveByClosedSet
<1>13. HintSound'
  <2>1. \A c \in Blocks : atb'[c] = AT_FREE => atb[c] = AT_FREE  BY <1>7, Zenon DEF AT_FREE, AT_TAIL
  <2> QED  BY <1>7, <2>1, Zenon DEF IInv, HintSound
<1>14. TypeOK'
  <2>1. /\ ftb' \in [Blocks -> BOOLEAN] /\ gc_auto_collect_enabled' \in BOOLEAN
        /\ gc_stack_overflow' \in BOOLEAN /\ free_tail' \in BOOLEAN
    BY <1>7, Zenon DEF IInv, TypeOK
  <2>2. atb' \in [Blocks -> Kinds]  BY <1>5, <1>7, Zenon DEF Kinds
  <2>3. pool' \in [Blocks -> Words] /\ root' \in [Roots -> Words]  BY <1>5, <1>7, ZenonT(30) DEF Words
  <2>4. given' \in [Blocks -> 0 .. MaxRequest]  BY <1>4, <1>7 DEF IInv, TypeOK
  <2> QED  BY <1>7, <2>1, <2>2, <2>3, <2>4, Zenon DEF IInv, TypeOK
<1>15. \A c \in Blocks : atb'[c] # AT_MARK
  BY <1>1, <1>7, Zenon DEF IInv, Control, AT_TAIL, AT_MARK
<1>16. /\ gc_stack' = <<>> /\ gc_lock_depth' <= MaxLock
       /\ phase' = "mutator" /\ req' = NoRequest
  BY <1>1, <1>7, Zenon DEF IInv, Control
<1> QED  BY <1>9, <1>11, <1>12, <1>13, <1>14, <1>15, <1>16, TablesAfter, MutatorIInv, Zenon DEF HeapInv

\* gc_realloc moves a chain: a new one is taken, the words are copied, and the
\* old one is freed.
LEMMA MoveToIInv ==
  ASSUME IInv, phase \in {"mutator", "retry"},
         NEW n \in 1 .. MaxRequest, NEW fin \in BOOLEAN, NEW r \in Roots,
         RunEnds(n) # {}, gc_lock_depth = 0, SoleOwner(r), n > given[root[r]],
         MoveTo(n, fin, r), phase' = "mutator", req' = NoRequest,
         UNCHANGED <<cursor, mark, gc_stack, gc_stack_overflow, free_tail>>
  PROVE  IInv'
<1> USE NBlocksType, GCConstants
<1>1. n \in Nat \ {0} /\ phase # "sweep" /\ TypeOK /\ root[r] # Nil
  <2>1. n \in Nat \ {0} /\ phase # "sweep"  OBVIOUS
  <2>2. root[r] # Nil  BY Zenon DEF SoleOwner
  <2> QED  BY <2>1, <2>2, Zenon DEF IInv
<1>2. PICK s : s = FirstRun(n) - n + 1  BY Zenon
<1>3. /\ s \in Blocks /\ s \in Nat /\ s + n <= NBlocks
      /\ FirstRun(n) \in Blocks /\ FirstRun(n) = s + n - 1
      /\ \A j \in s .. s + n - 1 : atb[j] = AT_FREE
  BY <1>1, <1>2, RunTaken DEF Blocks
<1>4. PICK b : b = root[r]  OBVIOUS
<1>5. PICK R : R = Reachable  BY Zenon
<1>6. /\ ClosedIn(R, atb, pool, root) /\ R \subseteq Blocks /\ \A d \in R : Allocated(d)
      /\ b \in R /\ b \in Blocks /\ b \in Nat /\ Allocated(b)
      /\ given[b] \in Nat \ {0} /\ b + given[b] <= NBlocks
      /\ Chain(b) = b .. b + given[b] - 1 /\ ChainLen(b) = given[b]
  BY <1>1, <1>4, <1>5, HeldBlock, ZenonT(30)
<1>7. /\ \A q \in Roots : q # r => root[q] # b
      /\ \A d \in R : \A c \in ChainIn(atb, d) : pool[c] # b
  BY <1>4, <1>5, OwnedBlock, Zenon
<1>8. /\ WellFormed(atb, given) /\ atb \in [Blocks -> Kinds] /\ given \in [Blocks -> Nat]
      /\ pool \in [Blocks -> Words] /\ root \in [Roots -> Words]
  BY <1>1, TablesBefore, Zenon
<1>9. PICK t : t = [c \in Blocks |-> IF c = s THEN AT_HEAD
                                    ELSE IF c \in s + 1 .. s + n - 1 THEN AT_TAIL ELSE atb[c]]
  BY Zenon
<1>10. PICK g : g = [given EXCEPT ![s] = n]  BY Zenon
<1>11. t \in [Blocks -> Kinds] /\ g \in [Blocks -> Nat]  BY <1>1, <1>8, <1>9, <1>10, Zenon DEF Kinds
<1>12. b # s /\ t[b] = atb[b] /\ g[b] = given[b]
  BY <1>3, <1>6, <1>8, <1>9, <1>10 DEF Allocated, AT_FREE, AT_HEAD, AT_MARK
<1>13. PICK f : f = IF fin THEN [ftb EXCEPT ![s] = TRUE] ELSE ftb  BY Zenon
<1>14. /\ atb' = [c \in Blocks |-> IF c \in b .. b + given[b] - 1 THEN AT_FREE ELSE t[c]]
       /\ given' = [g EXCEPT ![b] = 0]
       /\ pool' = [c \in Blocks |->
                     IF c \in s .. s + given[b] - 1 THEN pool[b + (c - s)]
                     ELSE IF c \in s .. s + n - 1 \/ c \in b .. b + given[b] - 1 THEN Nil
                     ELSE pool[c]]
       /\ ftb' = FtbAfterFree(f, b)
       /\ root' = [root EXCEPT ![r] = s]
       /\ gc_last_free_atb_index' = HintAfterFree(b)
       /\ gc_alloc_amount' = Amount(n)
       /\ gc_lock_depth' = gc_lock_depth /\ gc_auto_collect_enabled' = gc_auto_collect_enabled
  BY <1>2, <1>3, <1>4, <1>6, <1>9, <1>10, <1>13, ZenonT(30) DEF MoveTo, WithChain, AtbAfterFree
<1>15. WellFormed(t, g)  BY <1>1, <1>3, <1>8, <1>9, <1>10, PlaceRun, Zenon
<1>16. WellFormed(atb', given')
  <2>1. PICK m \in Nat : m = 0  OBVIOUS
  <2>2. b + m = b  BY <1>6, <2>1
  <2>3. /\ atb' = [c \in Blocks |-> IF c \in b + m .. b + g[b] - 1 THEN AT_FREE ELSE t[c]]
        /\ given' = [g EXCEPT ![b] = m]
    BY <1>12, <1>14, <2>1, <2>2, Zenon
  <2>4. m <= g[b]  BY <1>6, <1>11, <2>1
  <2> QED  BY <1>6, <1>11, <1>12, <1>15, <2>3, <2>4, CutRun, ZenonT(30) DEF Allocated
<1>17. given' \in [Blocks -> Nat]  BY <1>11, <1>14, ZenonT(30)
<1>18. ASSUME NEW d \in Blocks, Allocated(d), d # b
       PROVE  /\ d # s /\ atb'[d] = atb[d] /\ given'[d] = given[d]
              /\ ChainIn(atb', d) = ChainIn(atb, d)
  <2>1. ChainAt(atb, given, d) /\ ChainAt(atb, given, b)
    BY <1>6, <1>8, <1>18, Zenon DEF WellFormed, Allocated
  <2>2. d + given[d] <= b \/ b + given[b] <= d
    BY <1>6, <1>8, <1>18, <2>1, ChainsDisjoint, Zenon DEF Allocated
  <2>3. given[d] \in Nat /\ given[d] >= 1  BY <1>8, <2>1, Zenon DEF ChainAt
  <2>4. d \notin s .. s + n - 1  BY <1>3, <1>18, Zenon DEF Allocated, AT_FREE, AT_HEAD, AT_MARK
  <2>5. d # s /\ t[d] = atb[d] /\ g[d] = given[d]
    BY <1>1, <1>3, <1>8, <1>9, <1>10, <2>4 DEF Blocks
  <2>6. d \notin b .. b + given[b] - 1  BY <1>6, <1>18, <2>2, <2>3 DEF Blocks
  <2>7. atb'[d] = atb[d]  BY <1>14, <2>5, <2>6, ZenonT(30)
  <2>8. given'[d] = given[d]  BY <1>11, <1>14, <1>18, <2>5, Zenon
  <2>9. PICK t1, g1 : t1 = atb' /\ g1 = given'  BY Zenon
  <2>10. g1 \in [Blocks -> Nat] /\ g1[d] = given[d]  BY <1>17, <2>8, <2>9, Zenon
  <2>11. ChainAt(t1, g1, d)  BY <1>16, <1>18, <2>7, <2>9, Zenon DEF WellFormed, Allocated
  <2>12. given \in [Blocks -> Nat]  BY <1>8, Zenon
  <2>13. ChainIn(t1, d) = ChainIn(atb, d)
    BY <2>1, <2>10, <2>11, <2>12, SameChain
  <2> QED  BY <2>5, <2>7, <2>8, <2>9, <2>13, Zenon
<1>19. s \notin b .. b + given[b] - 1
  <2>1. ChainAt(atb, given, b)  BY <1>6, <1>8, Zenon DEF WellFormed, Allocated
  <2>2. atb[s] = AT_FREE  BY <1>1, <1>3
  <2>3. ASSUME s > b, s < b + given[b] PROVE FALSE
    BY <1>3, <2>1, <2>2, <2>3, Zenon DEF ChainAt, AT_FREE, AT_TAIL
  <2>4. s \in Nat /\ b \in Nat /\ given[b] \in Nat /\ b # s
    BY <1>3, <1>6, <1>12, Zenon DEF Blocks
  <2> QED  BY <2>3, <2>4
<1>20. atb'[s] = AT_HEAD /\ given'[s] = n  BY <1>3, <1>8, <1>9, <1>10, <1>12, <1>14, <1>19, Zenon
<1>21. FlagsOnHeads' /\ ftb' \in [Blocks -> BOOLEAN]
  <2>1. f \in [Blocks -> BOOLEAN] /\ \A j \in Blocks : f[j] => ftb[j] \/ j = s
    BY <1>3, <1>13, Zenon DEF IInv, TypeOK
  <2>2. ftb' \in [Blocks -> BOOLEAN] /\ \A j \in Blocks : ftb'[j] => f[j] /\ j # b
    BY <1>6, <1>14, <2>1, FtbFree, Zenon
  <2>3. \A j \in Blocks : ftb[j] => Allocated(j)
    BY Zenon DEF IInv, HeapInv, FlagsOnHeads, Allocated
  <2> QED  BY <1>18, <1>20, <2>1, <2>2, <2>3, ZenonT(30) DEF FlagsOnHeads, Allocated
<1>22. LiveAllocated'
  <2> DEFINE S == (R \ {b}) \cup {s}
  <2>1. \A d \in S : Allocated(d)'  BY <1>6, <1>18, <1>20, Zenon DEF Allocated
  <2>2. ASSUME NEW d \in R \ {b}, NEW c \in ChainIn(atb', d), pool'[c] # Nil
        PROVE  pool'[c] \in R \ {b}
    <3>1. c \in ChainIn(atb, d) /\ c \in Blocks  BY <1>6, <1>18, <2>2, ZenonT(30) DEF ChainIn
    <3>2. atb[c] # AT_FREE
      <4>1. atb[d] # AT_FREE /\ d \in Blocks
        BY <1>6, <2>2 DEF Allocated, AT_FREE, AT_HEAD, AT_MARK
      <4>2. c = d \/ atb[c] = AT_TAIL  BY <3>1, <4>1, ChainMember, ZenonT(30)
      <4> QED  BY <4>1, <4>2 DEF AT_FREE, AT_TAIL
    <3>3. c \notin s .. s + n - 1  BY <1>3, <3>2, ZenonT(30)
    <3>4. c \notin s .. s + given[b] - 1  BY <1>1, <1>3, <1>4, <1>6, <3>1, <3>3 DEF Blocks
    <3>5. pool'[c] = pool[c]  BY <1>14, <2>2, <3>1, <3>3, <3>4, Zenon
    <3> QED  BY <1>6, <1>7, <2>2, <3>1, <3>5, Zenon DEF ClosedIn
  <2>3. ASSUME NEW c \in ChainIn(atb', s), pool'[c] # Nil PROVE pool'[c] \in R \ {b}
    <3>1. ChainAt(atb', given', s)  BY <1>3, <1>16, <1>20, ZenonT(30) DEF WellFormed
    <3>2. c \in Blocks /\ c \in s .. s + n - 1
      BY <1>3, <1>17, <1>20, <2>3, <3>1, ChainOfHead, ZenonT(30) DEF ChainIn
    <3>3. c \in s .. s + given[b] - 1  BY <1>14, <2>3, <3>2, Zenon
    <3>4. PICK e : e = b + (c - s)  BY Zenon
    <3>5. e \in b .. b + given[b] - 1  BY <1>3, <1>6, <3>3, <3>4
    <3>6. e \in ChainIn(atb, b)  BY <1>6, <3>5, Unfold, Zenon
    <3>7. pool'[c] = pool[e]  BY <1>14, <3>2, <3>3, <3>4, Zenon
    <3> QED  BY <1>6, <1>7, <2>3, <3>6, <3>7, ZenonT(30) DEF ClosedIn
  <2>4. \A q \in Roots : root'[q] # Nil => root'[q] \in S
    BY <1>6, <1>7, <1>8, <1>14, Zenon DEF ClosedIn
  <2>5. ClosedIn(S, atb', pool', root')  BY <2>2, <2>3, <2>4, ZenonT(30) DEF ClosedIn
  <2> QED  BY <2>1, <2>5, LiveByClosedSet, Zenon
<1>23. HintSound' /\ gc_last_free_atb_index' \in 0 .. AtbLen
  <2>1. \A c \in Blocks : c < gc_last_free_atb_index * BLOCKS_PER_ATB => atb[c] # AT_FREE
    BY Zenon DEF IInv, HintSound
  <2>2. PICK h : h = HintAfterFree(b)  BY Zenon
  <2>3. /\ h \in 0 .. AtbLen
        /\ \A c \in Blocks : c < h * BLOCKS_PER_ATB => c < b /\ atb[c] # AT_FREE
    BY <1>1, <1>6, <2>1, <2>2, HintFree, Zenon
  <2>4. ASSUME NEW c \in Blocks, c < b PROVE atb'[c] = t[c]
    <3>1. c \notin b .. b + given[b] - 1  BY <1>6, <2>4 DEF Blocks
    <3> QED  BY <1>14, <3>1, Zenon
  <2>5. \A c \in Blocks : t[c] = AT_FREE => atb[c] = AT_FREE
    BY <1>9, Zenon DEF AT_FREE, AT_TAIL, AT_HEAD
  <2> QED  BY <1>14, <2>2, <2>3, <2>4, <2>5, Zenon DEF HintSound
<1>24. TypeOK'
  <2>1. /\ ftb' \in [Blocks -> BOOLEAN] /\ gc_auto_collect_enabled' \in BOOLEAN
        /\ gc_stack_overflow' \in BOOLEAN /\ free_tail' \in BOOLEAN
    BY <1>14, <1>21, Zenon DEF IInv, TypeOK
  <2>2. atb' \in [Blocks -> Kinds]  BY <1>11, <1>14, Zenon DEF Kinds
  <2>3. root' \in [Roots -> Words]  BY <1>3, <1>8, <1>14, Zenon DEF Words
  <2>4. pool' \in [Blocks -> Words]
    <3>1. ASSUME NEW c \in Blocks, c \in s .. s + given[b] - 1 PROVE pool[b + (c - s)] \in Words
      <4>1. PICK e : e = b + (c - s)  BY Zenon
      <4>2. e \in Blocks  BY <1>3, <1>6, <3>1, <4>1 DEF Blocks
      <4> QED  BY <1>8, <4>1, <4>2, Zenon
    <3> QED  BY <1>8, <1>14, <3>1, ZenonT(30) DEF Words
  <2>5. given' \in [Blocks -> 0 .. MaxRequest]
    <3>1. g \in [Blocks -> 0 .. MaxRequest]  BY <1>3, <1>10 DEF IInv, TypeOK
    <3> QED  BY <1>6, <1>14, <3>1
  <2>6. gc_alloc_amount' \in Nat  BY <1>1, <1>14 DEF Amount, IInv, TypeOK
  <2>7. req' \in Requests  BY ZenonT(30) DEF Requests
  <2> QED  BY <1>14, <1>23, <2>1, <2>2, <2>3, <2>4, <2>5, <2>6, <2>7, ZenonT(30) DEF IInv, TypeOK
<1>25. \A c \in Blocks : atb'[c] # AT_MARK
  BY <1>9, <1>14, Zenon DEF IInv, Control, AT_FREE, AT_HEAD, AT_TAIL, AT_MARK
<1>26. gc_stack' = <<>> /\ gc_lock_depth' <= MaxLock  BY <1>14 DEF IInv, Control
<1> QED
  BY <1>16, <1>21, <1>22, <1>23, <1>24, <1>25, <1>26, TablesAfter, MutatorIInv, Zenon DEF HeapInv
=============================================================================
