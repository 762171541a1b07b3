------------------------------ MODULE HashMap ------------------------------
(***************************************************************************)
(* The tables of py/map.c: the hash map (mp_map_lookup, mp_map_rehash),    *)
(* the ordered map (the same function, is_ordered) and the set             *)
(* (mp_set_lookup, mp_set_rehash), with allocations that may fail.         *)
(*                                                                         *)
(* Only the keys are modelled: a value follows its slot.  A key is an      *)
(* object; objects with the same class are equal (mp_obj_equal).           *)
(***************************************************************************)
EXTENDS Naturals, Sequences, FiniteSets, FiniteSetsExt

CONSTANTS Objs,          \* objects used as keys
          class, hash,   \* of an object: what it is equal to; of a class: its hash
          Qstrs, Strs,   \* interned strings, and strings that are not
          Null, Sentinel,
          Kinds,         \* the tables there are: "map", "ordered", "set"
          Inits,         \* sizes a table is created with
          MaxAlloc       \* bound: no table grows beyond

Classes == {class[o] : o \in Objs}

ConstantsOK ==
  /\ class \in [Objs -> Classes] /\ hash \in [Classes -> Nat]
  /\ Null \notin Objs /\ Sentinel \notin Objs /\ Null # Sentinel
  /\ Kinds \subseteq {"map", "ordered", "set"} /\ Inits \subseteq Nat

\* A string is interned once, and is equal to strings only.
Strings ==
  /\ \A p, q \in Qstrs : class[p] = class[q] => p = q
  /\ \A q \in Qstrs, o \in Objs : class[q] = class[o] => o \in Qstrs \cup Strs

VARIABLES kind,                \* mp_map_t with is_ordered clear or set, or mp_set_t
          table,               \* slots 0 .. n-1 of the memory block
          alloc, used,
          all_keys_are_qstrs

vars == <<kind, table, alloc, used, all_keys_are_qstrs>>

hash_allocation_sizes ==
  <<0, 2, 4, 6, 8, 10, 12, 17, 23, 29, 37, 47, 59, 73, 97, 127, 167, 223, 293, 389, 521, 691,
    919, 1223, 1627, 2161, 3229, 4831, 7243, 10861, 16273, 24407, 36607, 54907>>

get_hash_alloc_greater_or_equal_to(x) ==
  LET fit == {i \in DOMAIN hash_allocation_sizes : hash_allocation_sizes[i] >= x}
      y == x + x \div 2
  IN IF fit # {} THEN hash_allocation_sizes[Min(fit)] ELSE IF y % 2 = 1 THEN y ELSE y + 1

Empty(n) == [i \in 0 .. n - 1 |-> Null]

Init ==
  /\ kind \in Kinds
  /\ alloc \in Inits /\ table = Empty(alloc)
  /\ used = 0 /\ all_keys_are_qstrs = TRUE

Filled(t) == {i \in DOMAIN t : t[i] \in Objs}
-----------------------------------------------------------------------------
(***************************************************************************)
(* The search                                                              *)
(***************************************************************************)
\* compare_only_ptrs: sets always compare for equality.
compare_only_ptrs(o) == kind # "set" /\ all_keys_are_qstrs /\ o \notin Strs

same(key, o, ptrs) ==
  key \in Objs /\ (key = o \/ (~ptrs /\ class[key] = class[o]))

\* The search starts at the hash and goes round until it meets the key or an
\* empty slot.  It notes the first slot it could use: a deleted one it passed,
\* or the empty one that ended it; n if there is none.
search(t, n, o, ptrs) ==
  LET pos(i) == (hash[class[o]] + i) % n
      stops == {i \in 0 .. n - 1 : t[pos(i)] = Null \/ same(t[pos(i)], o, ptrs)}
      last == IF stops # {} THEN Min(stops) ELSE n
      passed == {i \in 0 .. last - 1 : t[pos(i)] = Sentinel}
  IN [found |-> last < n /\ t[pos(last)] # Null,
      at |-> IF last < n THEN pos(last) ELSE n,
      avail |-> IF passed # {} THEN pos(Min(passed)) ELSE IF last < n THEN pos(last) ELSE n]

\* An ordered map searches its used slots from the first to the last.
search_ordered(t, n, o, ptrs) ==
  LET stops == {i \in 0 .. n - 1 : same(t[i], o, ptrs)}
  IN [found |-> stops # {}, at |-> IF stops # {} THEN Min(stops) ELSE n, avail |-> n]

lookup(o) ==
  IF kind = "ordered" THEN search_ordered(table, used, o, compare_only_ptrs(o))
  ELSE search(table, alloc, o, compare_only_ptrs(o))

\* MP_MAP_LOOKUP.  What is no string is not looked for among strings.
found(o) ==
  /\ kind # "set" /\ all_keys_are_qstrs => o \in Qstrs \cup Strs
  /\ lookup(o).found
-----------------------------------------------------------------------------
(***************************************************************************)
(* Adding                                                                  *)
(***************************************************************************)
AllQstrs(t) == \A i \in Filled(t) : t[i] \in Qstrs

place(t, n, o, ptrs) ==
  LET s == search(t, n, o, ptrs) IN IF s.found THEN t ELSE [t EXCEPT ![s.avail] = o]

replace(t, n, o) == place(t, n, o, kind # "set" /\ AllQstrs(t) /\ o \notin Strs)

\* Mutant: the last slot is forgotten.
rehashed_ButLast(n) ==
  LET t[i \in 0 .. alloc] ==
        IF i = 0 THEN Empty(n)
        ELSE IF table[i - 1] \notin Objs \/ i = alloc THEN t[i - 1]
        ELSE CHOOSE u \in {replace(old, n, table[i - 1]) : old \in {t[i - 1]}} : TRUE
  IN t[alloc]

\* The filled slots of the old table, in their order, in a new one of size n.
rehashed(n) ==
  LET t[i \in 0 .. alloc] ==
        IF i = 0 THEN Empty(n)
        ELSE IF table[i - 1] \notin Objs THEN t[i - 1]
        ELSE CHOOSE u \in {replace(old, n, table[i - 1]) : old \in {t[i - 1]}} : TRUE
  IN t[alloc]

\* The key goes into the slot the search found.
AddInPlace(o) ==
  /\ kind # "ordered" /\ alloc # 0
  /\ ~lookup(o).found /\ lookup(o).avail < alloc
  /\ table' = [table EXCEPT ![lookup(o).avail] = o]
  /\ used' = used + 1
  /\ all_keys_are_qstrs' = (all_keys_are_qstrs /\ o \in Qstrs)
  /\ UNCHANGED alloc

\* There is no slot: the table grows.
Full(o) == alloc = 0 \/ (~lookup(o).found /\ lookup(o).avail = alloc)

\* mp_map_rehash counts the keys again.  The search that follows compares as it was
\* decided before.
AddGrown(o) ==
  LET n == get_hash_alloc_greater_or_equal_to(alloc + 1)
  IN /\ kind # "ordered" /\ Full(o) /\ n <= MaxAlloc
     /\ alloc' = n
     /\ \E t \in {rehashed(n)} : table' = place(t, n, o, compare_only_ptrs(o))
     /\ used' = Cardinality(Filled(table'))
     /\ all_keys_are_qstrs' = (AllQstrs(table) /\ o \in Qstrs)

\* Mutant: the map is edited before the allocation.
AddFails_Edited(o) ==
  /\ kind = "map" /\ Full(o)
  /\ alloc' = get_hash_alloc_greater_or_equal_to(alloc + 1) /\ alloc' <= MaxAlloc
  /\ UNCHANGED <<table, used, all_keys_are_qstrs>>

\* mp_map_rehash: m_new0 raises before anything is changed.
AddFails(o) ==
  /\ kind = "map" /\ Full(o)
  /\ UNCHANGED <<table, alloc, used, all_keys_are_qstrs>>

\* mp_set_rehash: the set has its new size and is empty when m_new0 raises.
SetAddFails(o) ==
  /\ kind = "set" /\ Full(o)
  /\ alloc' = get_hash_alloc_greater_or_equal_to(alloc + 1) /\ alloc' <= MaxAlloc
  /\ used' = 0
  /\ UNCHANGED <<table, all_keys_are_qstrs>>

\* An object that has no hash is refused when the table has got its first slots.
AddUnhashable ==
  LET n == get_hash_alloc_greater_or_equal_to(1)
  IN /\ kind # "ordered" /\ alloc = 0
     /\ alloc' = n /\ table' = Empty(n)
     /\ UNCHANGED <<used, all_keys_are_qstrs>>

\* An ordered map appends, and grows by four slots.
AddLast(o) ==
  LET n == IF used = alloc THEN alloc + 4 ELSE alloc
  IN /\ kind = "ordered" /\ ~lookup(o).found /\ n <= MaxAlloc
     /\ alloc' = n
     /\ table' = [i \in 0 .. n - 1 |-> IF i = used THEN o
                                       ELSE IF i < alloc THEN table[i] ELSE Null]
     /\ used' = used + 1
     /\ all_keys_are_qstrs' = (all_keys_are_qstrs /\ o \in Qstrs)

\* m_renew raises; alloc has been raised before.
AddLastFails(o) ==
  /\ kind = "ordered" /\ ~lookup(o).found
  /\ used = alloc /\ alloc + 4 <= MaxAlloc
  /\ alloc' = alloc + 4
  /\ UNCHANGED <<table, used, all_keys_are_qstrs>>

add(o) == AddInPlace(o) \/ AddGrown(o) \/ AddFails(o) \/ AddLast(o)
-----------------------------------------------------------------------------
(***************************************************************************)
(* Removing                                                                *)
(***************************************************************************)
\* Mutant: a slot is emptied whatever comes behind it.
deleted_Null(i) == [table EXCEPT ![i] = Null]

\* A slot is emptied only if the search would end behind it anyway.
deleted(i) ==
  [table EXCEPT ![i] = IF table[(i + 1) % alloc] = Null THEN Null ELSE Sentinel]

\* An ordered map moves the keys behind it down.
removed(i) ==
  /\ used' = used - 1
  /\ table' = IF kind # "ordered" THEN deleted(i)
              ELSE [j \in DOMAIN table |->
                      IF j = used - 1 THEN Null
                      ELSE IF j >= i /\ j < used THEN table[j + 1] ELSE table[j]]
  /\ UNCHANGED <<alloc, all_keys_are_qstrs>>

remove(o) == alloc # 0 /\ found(o) /\ removed(lookup(o).at)

\* mp_set_remove_first
pop == kind = "set" /\ Filled(table) # {} /\ removed(Min(Filled(table)))

\* mp_map_clear and mp_set_clear
clear ==
  /\ table' = Empty(0) /\ alloc' = 0 /\ used' = 0
  /\ all_keys_are_qstrs' = TRUE

Next ==
  /\ (\E o \in Objs : add(o) \/ remove(o)) \/ AddUnhashable \/ pop \/ clear
  /\ UNCHANGED kind

Spec == Init /\ [][Next]_vars

\* The same with sets and ordered maps whose allocations fail.
NextWithFailures ==
  \/ Next
  \/ (\E o \in Objs : SetAddFails(o) \/ AddLastFails(o)) /\ UNCHANGED kind

SpecWithFailures == Init /\ [][NextWithFailures]_vars
-----------------------------------------------------------------------------
(***************************************************************************)
(* Properties                                                              *)
(***************************************************************************)
contents == {class[table[i]] : i \in Filled(table)}

TypeOK ==
  /\ table \in [DOMAIN table -> Objs \cup {Null, Sentinel}]
  /\ alloc \in 0 .. MaxAlloc /\ used \in 0 .. alloc
  /\ all_keys_are_qstrs \in BOOLEAN

\* Every object that is equal to a key of the table, and no other, is found:
\* whatever was deleted on its way, wherever the table grew, and whether or not
\* the search compares pointers only.
Findable ==
  alloc # 0 => \A o \in Objs : found(o) <=> class[o] \in contents

\* used is the number of keys, and no two of them are equal.
Counted ==
  /\ used = Cardinality(Filled(table))
  /\ \A i, j \in Filled(table) : class[table[i]] = class[table[j]] => i = j

\* The block of memory has the size the table claims, also after an allocation
\* that failed: the table is edited when "table resizing succeeded" (map.c).
TableSized == DOMAIN table = 0 .. alloc - 1

PlainSet == INSTANCE KeySet WITH Values <- Classes, keys <- contents

\* The keys change only by what is asked for; growing a table, or failing to,
\* loses none of them.
KeepsKeys == PlainSet!Spec
=============================================================================
