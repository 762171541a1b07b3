------------------------------ MODULE PairHeap ------------------------------
(***************************************************************************)
(* The pairing heap of py/pairheap.c and pairheap.h, pointer by pointer.   *)
(* extmod/uasyncio/task.py has the same algorithm in Python.               *)
(*                                                                         *)
(* The memory m of the nodes has a field for each pointer: child,          *)
(* child_last and next.  A next pointer is NULL, a sibling, or, with its   *)
(* lowest bit set, the parent of the last sibling.                         *)
(***************************************************************************)
EXTENDS Naturals, Sequences, FiniteSets, SequencesExt

CONSTANTS Nodes, Keys, Null

ASSUME KeysAreNumbers == Keys \subseteq Nat

VARIABLES heap, m, key

vars == <<heap, m, key>>

RIGHTMOST_PARENT(n) == <<"parent", n>>
IS_RIGHTMOST_PARENT(p) == p \in {RIGHTMOST_PARENT(n) : n \in Nodes}

\* Mutant: of two equal nodes the newer one comes first.
meld_Unstable(k, mem, heap1, heap2) ==
  IF heap1 = Null THEN [m |-> mem, top |-> heap2]
  ELSE IF heap2 = Null THEN [m |-> mem, top |-> heap1]
  ELSE IF k[heap1] <= k[heap2]
  THEN LET linked == IF mem.child[heap1] = Null THEN [mem EXCEPT !.child[heap1] = heap2]
                     ELSE [mem EXCEPT !.next[mem.child_last[heap1]] = heap2]
       IN [m |-> [linked EXCEPT !.child_last[heap1] = heap2,
                                !.next[heap2] = RIGHTMOST_PARENT(heap1)],
           top |-> heap1]
  ELSE LET first == mem.child[heap2]
           linked == [mem EXCEPT !.next[heap1] = first, !.child[heap2] = heap1]
       IN [m |-> IF first # Null THEN linked
                 ELSE [linked EXCEPT !.child_last[heap2] = heap1,
                                     !.next[heap1] = RIGHTMOST_PARENT(heap2)],
           top |-> heap2]

\* Heap1 has the newer nodes.  The root that is not less becomes a child of the
\* other: the older one behind the children it has, the newer one before them.
meld(k, mem, heap1, heap2) ==
  IF heap1 = Null THEN [m |-> mem, top |-> heap2]
  ELSE IF heap2 = Null THEN [m |-> mem, top |-> heap1]
  ELSE IF k[heap1] < k[heap2]
  THEN LET linked == IF mem.child[heap1] = Null THEN [mem EXCEPT !.child[heap1] = heap2]
                     ELSE [mem EXCEPT !.next[mem.child_last[heap1]] = heap2]
       IN [m |-> [linked EXCEPT !.child_last[heap1] = heap2,
                                !.next[heap2] = RIGHTMOST_PARENT(heap1)],
           top |-> heap1]
  ELSE LET first == mem.child[heap2]
           linked == [mem EXCEPT !.next[heap1] = first, !.child[heap2] = heap1]
       IN [m |-> IF first # Null THEN linked
                 ELSE [linked EXCEPT !.child_last[heap2] = heap1,
                                     !.next[heap1] = RIGHTMOST_PARENT(heap2)],
           top |-> heap2]

\* LET v IN Body, with v evaluated once.
Let(v, Body(_)) == CHOOSE y \in {Body(x) : x \in {v}} : TRUE

\* The loop of pairing: two siblings are melded, then melded to what there is.
RECURSIVE pairs(_, _, _, _)
pairs(k, mem, top, child) ==
  IF IS_RIGHTMOST_PARENT(child) THEN [m |-> mem, top |-> top]
  ELSE LET n2 == mem.next[child]
           cut1 == [mem EXCEPT !.next[child] = Null]
           cut2 == [cut1 EXCEPT !.next[n2] = Null]
       IN IF IS_RIGHTMOST_PARENT(n2)
          THEN Let(meld(k, cut1, top, child), LAMBDA r : pairs(k, r.m, r.top, n2))
          ELSE Let(meld(k, cut2, child, n2), LAMBDA p :
                 Let(meld(k, p.m, top, p.top), LAMBDA r : pairs(k, r.m, r.top, mem.next[n2])))

pairing(k, mem, child) ==
  IF child = Null THEN [m |-> mem, top |-> Null]
  ELSE Let(pairs(k, mem, Null, child),
           LAMBDA r : [m |-> [r.m EXCEPT !.next[r.top] = Null], top |-> r.top])

\* The end of the list of siblings gives the parent.
RECURSIVE parent_of(_, _)
parent_of(mem, n) ==
  IF IS_RIGHTMOST_PARENT(mem.next[n]) THEN mem.next[n][2] ELSE parent_of(mem, mem.next[n])

\* Mutant: child_last is left as it is.
replace_LastKept(mem, node, next, parent, prev, r) ==
  LET first == node = mem.child[parent]
      into == IF first THEN [r.m EXCEPT !.child[parent] = r.top]
              ELSE IF r.top = Null THEN r.m ELSE [r.m EXCEPT !.next[prev] = r.top]
      last == IF r.top = Null THEN prev ELSE r.top
  IN IF first /\ r.top = Null
     THEN [r.m EXCEPT !.child[parent] = IF IS_RIGHTMOST_PARENT(next) THEN Null ELSE next]
     ELSE [into EXCEPT !.next[last] = next]

\* In the list of siblings r, what is left of the node, takes its place.
replace(mem, node, next, parent, prev, r) ==
  LET first == node = mem.child[parent]
      into == IF first THEN [r.m EXCEPT !.child[parent] = r.top]
              ELSE IF r.top = Null THEN r.m ELSE [r.m EXCEPT !.next[prev] = r.top]
      last == IF r.top = Null THEN prev ELSE r.top
      joined == [into EXCEPT !.next[last] = next]
  IN IF first /\ r.top = Null
     THEN [r.m EXCEPT !.child[parent] = IF IS_RIGHTMOST_PARENT(next) THEN Null ELSE next]
     ELSE IF IS_RIGHTMOST_PARENT(next) THEN [joined EXCEPT !.child_last[parent] = last]
     ELSE joined

\* Mutant: the node keeps its next pointer.
delete_NextKept(k, mem, top, node) ==
  IF node = top
  THEN pairing(k, [mem EXCEPT !.child[node] = Null], mem.child[node])
  ELSE IF mem.next[node] = Null THEN [m |-> mem, top |-> top]
  ELSE Let(pairing(k, [mem EXCEPT !.child[node] = Null], mem.child[node]),
           LAMBDA r : [m |-> replace(mem, node, mem.next[node], parent_of(mem, node),
                                     CHOOSE n \in Nodes : mem.next[n] = node, r),
                       top |-> top])

\* The node is replaced by the pairing of its children.
delete(k, mem, top, node) ==
  IF node = top
  THEN pairing(k, [mem EXCEPT !.child[node] = Null], mem.child[node])
  ELSE IF mem.next[node] = Null THEN [m |-> mem, top |-> top]
  ELSE Let(pairing(k, [mem EXCEPT !.child[node] = Null, !.next[node] = Null], mem.child[node]),
           LAMBDA r : [m |-> replace(mem, node, mem.next[node], parent_of(mem, node),
                                     CHOOSE n \in Nodes : mem.next[n] = node, r),
                       top |-> top])
-----------------------------------------------------------------------------
\* The nodes in the order pop returns them.
RECURSIVE drain(_, _, _)
drain(k, mem, top) ==
  IF top = Null THEN <<>>
  ELSE Let(pairing(k, [mem EXCEPT !.child[top] = Null], mem.child[top]),
           LAMBDA r : <<top>> \o drain(k, r.m, r.top))

order == drain(key, m, heap)
Queued == ToSet(order)

Init ==
  /\ heap = Null /\ key \in [Nodes -> Keys]
  /\ m = [child |-> [n \in Nodes |-> Null], child_last |-> [n \in Nodes |-> Null],
          next |-> [n \in Nodes |-> Null]]

Becomes(result) == \E r \in {result} : m' = r.m /\ heap' = r.top

push(n, k) ==
  /\ n \notin Queued
  /\ key' = [key EXCEPT ![n] = k]
  /\ Becomes(meld(key', m, n, heap))

pop ==
  /\ heap # Null
  /\ Becomes(pairing(key, [m EXCEPT !.child[heap] = Null], m.child[heap]))
  /\ UNCHANGED key

\* A node that is not in the heap is left alone.
remove(n) == Becomes(delete(key, m, heap, n)) /\ UNCHANGED key

Next == \/ \E n \in Nodes, k \in Keys : push(n, k)
        \/ pop
        \/ \E n \in Nodes : remove(n)

Spec == Init /\ [][Next]_vars
-----------------------------------------------------------------------------
(***************************************************************************)
(* Properties                                                              *)
(***************************************************************************)
Sorted == INSTANCE SortedQueue WITH q <- order

\* The heap is a sorted queue that keeps the order of equal nodes: whatever was
\* pushed, popped and deleted before, pop returns the node that a stable sort
\* would put first (pairheap.h, "It is stable and has deletion support").
Stable == Sorted!Spec

\* The assertion of mp_pairheap_push: a node that is not in the heap has neither
\* child nor next, so that it can be pushed again, and a second delete of it
\* does nothing.
OutsideIsClean ==
  \A n \in Nodes \ Queued : m.child[n] = Null /\ m.next[n] = Null

\* The pointers stay consistent: next of the last child leads back to the
\* parent, child_last is that child, and no child is less than its parent.
Linked ==
  \A p \in Queued : m.child[p] # Null =>
    /\ m.next[m.child_last[p]] = RIGHTMOST_PARENT(p)
    /\ parent_of(m, m.child[p]) = p /\ key[p] <= key[m.child[p]]
=============================================================================
