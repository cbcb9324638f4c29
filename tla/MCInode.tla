------------------------------- MODULE MCInode -------------------------------
(* A small instance of Inode.                                              *)
EXTENDS Inode, TLC

Symmetry == Permutations(Tasks) \union Permutations(Copies)
=============================================================================
