------------------------------- MODULE MCSched -------------------------------
(* A small instance of Sched.                                              *)
EXTENDS Sched

\* One tick more than its priority is the time slice of a thread.
MCPriority == [t \in Threads |-> IF t = idle_thread THEN 0 ELSE 1]
=============================================================================
