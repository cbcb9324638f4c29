------------------------------ MODULE MCLocking ------------------------------
(* A small instance of Locking.                                            *)
EXTENDS Locking, SequencesExt

MCPriority == [t \in Threads |-> 0]
MCStarted == <<idle_thread>> \o SetToSeq(Threads \ {main_thread, idle_thread})
=============================================================================
