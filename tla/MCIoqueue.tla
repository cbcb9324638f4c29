------------------------------ MODULE MCIoqueue ------------------------------
(* Small instances of Ioqueue.                                             *)
EXTENDS Ioqueue, SequencesExt

MCPriority == [t \in Threads |-> 0]
MCStarted == <<idle_thread>> \o SetToSeq(Threads \ {main_thread, idle_thread})
=============================================================================
