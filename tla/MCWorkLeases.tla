---------------------------- MODULE MCWorkLeases ----------------------------
EXTENDS WorkLeases, TLC

(* Item and operation numbers are handed out in any order.                  *)
Symmetric == Permutations(Items) \cup Permutations(Ops)

=============================================================================
