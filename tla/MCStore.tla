------------------------------ MODULE MCStore ------------------------------
(***************************************************************************)
(* Small instances of Store for TLC.                                       *)
(***************************************************************************)
EXTENDS Store, TLC

Symmetric == Permutations(Threads) \cup Permutations(Keys)

=============================================================================
