--------------------------- MODULE MCStoreWorker ---------------------------
(* A small instance of the Hub's database thread.                           *)
EXTENDS StoreWorker
CONSTANTS n1, n2, c1, c2, r1

=============================================================================
