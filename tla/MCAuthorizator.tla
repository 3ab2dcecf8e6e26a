--------------------------- MODULE MCAuthorizator ---------------------------
(* Authorizator with users that are alike and loops that are alike.        *)
EXTENDS Authorizator, TLC

Symmetry == Permutations(Loops) \cup Permutations(Users)
=============================================================================
