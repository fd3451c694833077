------------------------ MODULE MCOperationDelivery ------------------------
(* Instances with one operation, a process or a replayable read: operations *)
(* share nothing but the capacity of the channels.                          *)
EXTENDS OperationDelivery, TLC
CONSTANT o1

=============================================================================
