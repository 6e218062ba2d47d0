------------------------------- MODULE MCSeeding -------------------------------
(* Three warehouses, of which the second and the third stock one product,    *)
(* and two orders of which one wants both products: only a whole catalogue   *)
(* fills it, once.  The other one may find all three, of which it tries two. *)
EXTENDS Seeding

CONSTANTS w1, w2, w3, p1, p2, o1, o2

MCLines == [o \in Orders |->
    [p \in Products |-> IF o = o1 \/ p = p2 THEN 1 ELSE 0]]
MCStock == [w \in Warehouses |->
    [p \in Products |-> IF w = w1 \/ p = p2 THEN 1 ELSE 0]]
MCWarehouses == <<w1, w2, w3>>
MCProducts == <<p1, p2>>
MCInventory == <<<<w1, p1>>, <<w1, p2>>, <<w2, p2>>, <<w3, p2>>>>
=============================================================================
