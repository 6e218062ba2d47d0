------------------------------ MODULE MCOrderSaga ------------------------------
(* Two orders of one unit each and one warehouse that has one unit: the      *)
(* second order finds none, loses it between the selection and the locks, or *)
(* gets the unit that the end of the first one gave back.                    *)
EXTENDS OrderSaga

CONSTANTS near, product, o1, o2

MCLines == [o \in Orders |-> [p \in Products |-> 1]]
MCNearness == [o \in Orders |-> <<near>>]
MCStock == [w \in Warehouses |-> [p \in Products |-> 1]]
=============================================================================
