---------------------------- MODULE MCClientPool ----------------------------
(* Small instances of ClientPool for TLC. *)
EXTENDS ClientPool

PoolSymmetry == Permutations(Clients) \cup Permutations(Borrowers) \cup Permutations(Commands)
=============================================================================
