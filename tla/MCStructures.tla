---------------------------- MODULE MCStructures ----------------------------
(***************************************************************************)
(* The pairing heap (PairHeap) and the hash table (HashMap) in one run.    *)
(* They share no state: a behaviour is one of one of them, and the         *)
(* variables of the other are idle.                                        *)
(***************************************************************************)
EXTENDS PairHeap, TLC

CONSTANTS
  qa, qb, sa, i1, true1, i2, i3, Sentinel, Kinds, Inits, MaxAlloc

VARIABLES
  component,
  kind, table, alloc, used, all_keys_are_qstrs

hashtable == <<kind, table, alloc, used, all_keys_are_qstrs>>

\* Two interned strings, a string that equals the first, and numbers, two of
\* which are equal.  Many hashes collide.
Objs == {qa, qb, sa, i1, true1, i2, i3}
class == [o \in Objs |-> CASE o = qa \/ o = sa -> "a" [] o = qb -> "b"
                           [] o = i1 \/ o = true1 -> "1" [] o = i2 -> "2" [] o = i3 -> "3"]
hash == [c \in {"a", "b", "1", "2", "3"} |->
           CASE c = "a" -> 1 [] c = "b" -> 5 [] c = "1" -> 1 [] c = "2" -> 3 [] c = "3" -> 3]

Hash == INSTANCE HashMap WITH Qstrs <- {qa, qb}, Strs <- {sa}

ASSUME HashMapConstants == Hash!ConstantsOK /\ Hash!Strings
-----------------------------------------------------------------------------
Symmetric == Permutations(Nodes)

NoHash ==
  /\ kind = "off" /\ table = <<>> /\ alloc = "off" /\ used = "off" /\ all_keys_are_qstrs = "off"

MCInit ==
  /\ component \in {"pairheap", "map"}
  /\ IF component = "map" THEN Hash!Init ELSE NoHash
  /\ Init /\ (component = "pairheap" \/ \A n \in Nodes : key[n] = 1)

MCNext ==
  /\ UNCHANGED component
  /\ \/ component = "pairheap" /\ Next /\ UNCHANGED hashtable
     \/ component = "map" /\ Hash!Next /\ UNCHANGED vars

MCSpec == MCInit /\ [][MCNext]_<<component, vars, hashtable>>
-----------------------------------------------------------------------------
\* What equals a key of the table, and nothing else, is found.
Findable == component = "map" => Hash!TypeOK /\ Hash!Findable

\* The table has the size and the number of keys that it claims.
TableSized == component = "map" => Hash!TableSized /\ Hash!Counted

\* The keys change only by what is asked for.
KeepsKeys == Hash!KeepsKeys
=============================================================================
