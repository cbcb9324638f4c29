------------------------------ MODULE MCProcess ------------------------------
(* A small instance of Process.                                            *)
EXTENDS Process, TLC

Symmetry == Permutations(Threads) \union Permutations(Processes)
=============================================================================
