---------------------------- MODULE MCMysqlPool -----------------------------
(* Threads and connection identities are interchangeable; liveness runs     *)
(* leave the symmetry out.                                                  *)
EXTENDS MysqlPool

Symmetry == Permutations(Threads) \cup Permutations(Conns)
=============================================================================
