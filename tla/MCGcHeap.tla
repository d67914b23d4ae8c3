------------------------------ MODULE MCGcHeap ------------------------------
EXTENDS GcHeap

\* Nothing tells the variables, or the nodes of the table, apart.
Names == Permutations(Vars) \cup Permutations(Objects)
\* Bound: references are lost while there are at most two objects.
LostBound == lost # {} => Cardinality(ToSet(objects)) <= 2
=============================================================================
