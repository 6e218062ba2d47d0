---------------------------- MODULE MCPaymentGateway ----------------------------
(* Any two of two charges and a status call under one key, with two attempts *)
(* each; the breaker opens at the second failure in a row.  The charges      *)
(* differ in their body, so each may find the other's charge under its key,  *)
(* and come with every kind of card.                                         *)
EXTENDS PaymentGateway

CONSTANTS charge1, charge2, status1

MCKind == [c \in Calls |-> IF c = status1 THEN "getStatus" ELSE "charge"]
MCKey == [c \in Calls |-> "k"]
MCBody == [c \in Calls |-> IF c = charge1 THEN "first" ELSE "second"]
MCCards == {[first |-> "0003", second |-> "0002"], [first |-> "0004", second |-> "ordinary"],
            [first |-> "invalid", second |-> "ordinary"], [first |-> "ordinary", second |-> "0002"]}
=============================================================================
