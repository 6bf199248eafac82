------------------------- MODULE MCKthreadLifetime -------------------------
(* The four modules of the repository that start a kernel thread.          *)
EXTENDS KthreadLifetime

Uses(starter, stopper, body) == [starter |-> starter, stopper |-> stopper, body |-> body]

KthreadTable ==
  [ctest_task_join_stop      |-> Uses("init", "exit", "loop"),
   ko_perf_min_heap          |-> Uses("init", "exit", "once"),
   ko_perf_output_read_one   |-> Uses("init", "init", "once"),
   ctest_signal_exit_signals |-> Uses("work", "none", "kernel")]
=============================================================================
