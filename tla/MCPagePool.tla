----------------------------- MODULE MCPagePool -----------------------------
(* Small instances of PagePool.                                            *)
EXTENDS PagePool

\* Threads of the kernel that use the heap; processes that start beside one thread
\* of the kernel; and processes alone.
MCSettings ==
  LET one == CHOOSE t \in KernelThreads : TRUE
      p == CHOOSE t \in Processes : TRUE
  IN  {[threads |-> KernelThreads, calls |-> {"sys_malloc"}],
       [threads |-> {one, p}, calls |-> {"sys_malloc"}],
       [threads |-> {one} \union Processes, calls |-> {"get_kernel_pages"}],
       [threads |-> Processes, calls |-> {}]}

\* Threads of the kernel that do both.
MCSettingsUnlocked ==
  {[threads |-> KernelThreads, calls |-> {"sys_malloc", "get_kernel_pages"}]}
=============================================================================
