----------------------------- MODULE MCHashMap -----------------------------
(* HashMap on its own, for allocations that fail: an interned string, a string *)
(* that equals it, and two numbers.                                            *)
EXTENDS HashMap

CONSTANTS qa, sa, i1, i2

FewObjs == {qa, sa, i1, i2}
MCclass == [o \in Objs |-> CASE o = qa \/ o = sa -> "a" [] o = i1 -> "1" [] o = i2 -> "2"]
MChash == [c \in Classes |-> CASE c = "a" -> 1 [] c = "1" -> 1 [] c = "2" -> 3]
MCQstrs == {qa}
MCStrs == {sa}
=============================================================================
