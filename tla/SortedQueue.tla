---------------------------- MODULE SortedQueue ----------------------------
(***************************************************************************)
(* What py/pairheap promises: a queue of nodes in the order of their keys, *)
(* in which nodes with the same key keep the order they were pushed in.    *)
(***************************************************************************)
EXTENDS Naturals, Sequences, FiniteSets, SequencesExt

CONSTANTS Nodes, Keys

VARIABLES q,    \* the nodes in the order they will be popped
          key   \* the key of every node

Before(s, k) == Cardinality({i \in DOMAIN s : key[s[i]] <= k})

Init == q = <<>> /\ key \in [Nodes -> Keys]

Push(n, k) ==
  /\ n \notin ToSet(q)
  /\ q' = SubSeq(q, 1, Before(q, k)) \o <<n>> \o SubSeq(q, Before(q, k) + 1, Len(q))
  /\ key' = [key EXCEPT ![n] = k]

Pop == q # <<>> /\ q' = Tail(q) /\ UNCHANGED key

Delete(n) == n \in ToSet(q) /\ q' = Remove(q, n) /\ UNCHANGED key

Next == \/ \E n \in Nodes, k \in Keys : Push(n, k)
        \/ Pop
        \/ \E n \in Nodes : Delete(n)

Spec == Init /\ [][Next]_<<q, key>>
=============================================================================
