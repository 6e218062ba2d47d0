------------------------------- MODULE MCJobQueue -------------------------------
(* The shipment and the notification of one order that two workers compete   *)
(* for; one retry; a crash or stop at any point.                             *)
EXTENDS JobQueue

MCTopology == <<"shipment.create", "customer.notify">>
=============================================================================
