---------------------------- MODULE MCInventoryLocks ----------------------------
(* Two orders over two warehouses: w1 has stock for one of them at a time,   *)
(* w2 only for the second.  Each transaction is any operation on any order.  *)
EXTENDS InventoryLocks, TLC

CONSTANTS p1, p2, o1, o2, w1, w2

MCLines == [o \in Orders |-> [p \in Products |-> IF o = o1 /\ p = p1 THEN 2 ELSE 1]]
MCStock == [w \in Warehouses |-> [p \in Products |-> IF w = w1 /\ p = p1 THEN 2 ELSE 1]]
MCRank == [p \in Products |-> IF p = p1 THEN 1 ELSE 2]
MCSymmetry == Permutations(Txs)
=============================================================================
