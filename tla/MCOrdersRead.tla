------------------------------ MODULE MCOrdersRead ------------------------------
(* Three seeded orders, whose times may be equal or differ by less than a    *)
(* millisecond (two ticks), and one placed meanwhile; pages of one order,    *)
(* also with a status filter and an upper bound on created_at, and pages of  *)
(* two between two bounds, so that orders enter and leave the filter during  *)
(* the walk.                                                                 *)
EXTENDS OrdersRead

MCQueries == {
    [pageSize |-> 1, status |-> None, createdFrom |-> None, createdTo |-> None],
    [pageSize |-> 1, status |-> "CONFIRMED", createdFrom |-> None, createdTo |-> 3],
    [pageSize |-> 2, status |-> None, createdFrom |-> 1, createdTo |-> 3]}
=============================================================================
