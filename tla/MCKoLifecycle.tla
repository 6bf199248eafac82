--------------------------- MODULE MCKoLifecycle ---------------------------
(* Every kernel module of the repository, in two rounds of its script.     *)
EXTENDS KoPromises, KoCoreTable, KoSignalTable, KoCgroupTable, TLC

KoTable == CoreTable @@ SignalTable @@ CgroupTable

(* Names in /proc and sysfs, the pmu's name, a policy id.                  *)
MCExclusive == {"proc_cgfd", "proc_cgpath", "proc_perf_fd", "proc_notify", "test_pmu",
                "test_class", "blkcg_policy"}

(* Registrations through which the kernel later runs module code.          *)
MCTextRes == {"proc_cgfd", "proc_cgpath", "proc_perf_fd", "proc_notify", "test_pmu",
              "test_attr", "blkcg_policy", "guest_cbs", "die_notif", "reboot_notif",
              "thread", "event_cb", "my_work"}

-----------------------------------------------------------------------------
(* The census: what each module of the repository can do to the kernel,    *)
(* over every failure of every call.                                       *)

(* Some error path, or the exit function, forgets something.               *)
Leaky == {"ctest_cgroup_get_from_file", "ctest_cgroup_sk_clone",
          "ctest_cgroupv1_stats_build", "ctest_task_cgroup_path",
          "ko_exclusive_event_match", "ko_perf_hrtimer", "ko_perf_output_read_one",
          "ko_perf_pending_task", "ko_perf_pmu_sched_task", "ko_perf_sched_cb_change",
          "notifier", "perf_register_guest_info_callbacks_tst",
          "perf_ringbuffer_aux_op_begin", "perf_ringbuffer_aux_op_fd", "rb_alloc_aux",
          "test_get_tsk_addr"}

(* Some step uses or releases what the module does not own, or jumps to an *)
(* address nobody has checked.                                             *)
Careless == {"ctest_signal_delivered", "ko_exclusive_event_match",
             "ko_perf_event_update_userpage", "ko_perf_output_skip",
             "ko_perf_pmu_resched", "ko_perf_pmu_sched_task", "ko_perf_sched_cb_change",
             "ko_perf_swap_ptr", "perf_less_group_idx_tst", "perf_mmap_open_tst",
             "perf_sigtrap", "perf_ringbuffer_aux_op_fd", "pids_cancel_attach",
             "rb_alloc_aux"}

(* What is forgotten can later make the kernel run unmapped code.          *)
Dangling == {"ctest_cgroup_get_from_file", "ko_perf_hrtimer",
             "perf_register_guest_info_callbacks_tst"}

(* Only these leave anything behind, whichever of their calls fail, in     *)
(* whatever order the kernel and the script act.                           *)
NothingLeftBehind ==
  lost # {} => ko \in Leaky \cup {"notifier_until_reboot"}

(* No other than these can stop the kernel.                                *)
KernelSurvives == oops => ko \in Careless \cup Dangling

(* The lists are complete: no other module does either.                    *)
CensusHolds == NothingLeftBehind /\ KernelSurvives

-----------------------------------------------------------------------------
(* What the scripts say of themselves.                                     *)

(* test_signal_copy_form_user32.sh:33 reports that the module is not there.*)
FailureReportIsTrue ==
  script = "done" /\ ko = "signal_copy_from_user32" => kstate = "absent"

(* The modules whose functions are Balanced.                               *)
BalancedTable ==
  [k \in {j \in DOMAIN KoTable : RowBalanced(KoTable[j])} |-> KoTable[k]]
=============================================================================
