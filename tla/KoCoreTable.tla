---------------------------- MODULE KoCoreTable ----------------------------
(***************************************************************************)
(* The kernel modules of PerfEvents_Test/CORE and CORE/events and what     *)
(* loads them, one definition per file, in the vocabulary of KoSteps.  A   *)
(* row names the script, then gives the steps of the init function, of the *)
(* functions the kernel calls while the module is loaded, and of the exit  *)
(* function.                                                               *)
(***************************************************************************)
EXTENDS KoSteps

(***************************************************************************)
(* Who loads.  perf_event_open_test passes an address it has not compared  *)
(* with zero.                                                              *)
(***************************************************************************)
core_run_all   == Script({}, "unchecked")
events_run_all == Script({}, "unchecked")
perf_event_open_test == Script({"fd"}, "unchecked")
perf_event_sysfs_show_sh          == Script({}, "unchecked")
test_perf_event_function_local_sh == Script({"addr1", "addr2"}, "unchecked")
test_perf_event_match_sh          == Script({"addr1"}, "unchecked")
test_perf_event_read_event_sh     == Script({"addr1"}, "unchecked")
test_perf_event_read_local_sh     == Script({"addr1"}, "unchecked")
test_perf_event_stop_sh           == Script({"addr1"}, "unchecked")
test_perf_get_page_size_sh        == Script({"addr1"}, "unchecked")
test_perf_group_update_userpage_sh == Script({"addr1"}, "unchecked")
test_perf_hrtimer_sh              == Script({"addr1"}, "unchecked")
test_perf_output_read_one_sh      == Script({"addr1"}, "unchecked")
test_perf_pending_task_sh         == Script({"addr1"}, "unchecked")
test_perf_pmu_sched_task_sh       == Script({"addr1"}, "unchecked")
test_perf_rotate_ctx_sh           == Script({"addr1"}, "unchecked")
test_perf_sched_cb_change_sh      == Script({"addr1", "addr2"}, "unchecked")

(***************************************************************************)
(* Counters the module creates for itself.  `ctx' is the test of           *)
(* event->ctx that follows most creations.                                 *)
(***************************************************************************)
Event     == Get("event", <<>>)
EventCtx  == Try("ctx", <<Put("event")>>)

ko_exclusive_event_match ==
  Row(by_hand,
      <<Event, Get("event2", <<>>), EventCtx, Call("addr1")>>,
      <<>>,
      <<Put("event"), Put("event2")>>)

ko_perf_event_addr_filters_sync ==
  Row(core_run_all, <<Event, EventCtx, Use("event")>>, <<>>, <<Put("event")>>)

ko_perf_event_enable ==
  Row(core_run_all, <<Event, EventCtx>>, <<>>, <<Use("event"), PutIf("event")>>)

ko_perf_event_function_local ==
  Row(test_perf_event_function_local_sh,
      <<Event, Call("addr1"), Call("addr2")>>, <<>>, <<Put("event")>>)

(* Its overflow callback never runs: the event has no sampling period.     *)
ko_perf_event_inactive ==
  Row(by_hand,
      <<Get("event_cb", <<>>), Try("ctx", <<Put("event_cb")>>), Use("event_cb")>>,
      <<>>,
      <<Put("event_cb")>>)

ko_perf_event_match ==
  Row(test_perf_event_match_sh,
      <<Get("event1", <<>>), Take("pmu_exclusive"), Call("addr1")>>,
      <<>>,
      <<PutIf("pmu_exclusive"), PutIf("event1")>>)

ko_perf_event_read_event ==
  Row(test_perf_event_read_event_sh, <<Event, Call("addr1")>>, <<>>, <<PutIf("event")>>)

ko_perf_event_read_local ==
  Row(test_perf_event_read_local_sh,
      <<Event, EventCtx, Call("addr1")>>, <<>>, <<Put("event")>>)

(* Mutant: the counter is kept when refreshing it fails.                   *)
refresh_keeps_event ==
  Row(core_run_all, <<Event, Try("refresh", <<>>)>>, <<>>, <<PutIf("event")>>)

ko_perf_event_refresh ==
  Row(core_run_all, <<Event, Try("refresh", <<Put("event")>>)>>, <<>>, <<PutIf("event")>>)

ko_perf_event_sample_read ==
  Row(by_hand,
      <<Get("event_cb", <<>>), Try("ctx", <<Put("event_cb")>>),
        Get("pages", <<Put("event_cb")>>),
        Try("mmap", <<Put("pages"), Put("event_cb")>>)>>,
      << <<Get("handle", <<>>), Put("handle")>> >>,
      <<PutIf("pages"), Put("event_cb")>>)

ko_perf_event_stop ==
  Row(test_perf_event_stop_sh, <<Event, Call("addr1")>>, <<>>, <<Put("event")>>)

(***************************************************************************)
(* cgroup_get_from_path reports failure with ERR_PTR, which `!cgrp' does   *)
(* not see; and the exit function reads event->cgrp after kfree(event).    *)
(***************************************************************************)
ko_perf_event_update_userpage ==
  Row(by_hand,
      <<GetAny("cgrp"),
        Get("event", <<Put("cgrp")>>),
        Get("ctx", <<PutIf("user_page"), PutIf("rb"), Put("event"), Put("cgrp")>>),
        Get("user_page", <<Put("ctx"), Put("event"), Put("cgrp")>>),
        Use("event")>>,
      <<>>,
      <<Use("event"), Put("ctx"), Put("user_page"), Put("event"),
        Use("event"), Put("cgrp")>>)

ko_perf_get_page_size ==
  Row(test_perf_get_page_size_sh, <<Call("addr1")>>, <<>>, <<>>)

ko_perf_group_update_userpage ==
  Row(test_perf_group_update_userpage_sh,
      <<Event, EventCtx, Call("addr1"), Try("merge_sched_in", <<Put("event")>>)>>,
      <<>>,
      <<Put("event")>>)

(* The pmu stays registered when restarting its timer fails.               *)
ko_perf_hrtimer ==
  Row(test_perf_hrtimer_sh,
      <<Get("test_pmu", <<>>), Use("test_pmu"), Call("addr1"), Try("restart", <<>>)>>,
      <<>>,
      <<Put("test_pmu")>>)

ko_perf_min_heap ==
  Row(by_hand,
      <<Get("thread", <<>>)>>,
      << <<Get("event1", <<>>),
           Get("event2", <<Put("event1")>>),
           Get("event3", <<Put("event2"), Put("event1")>>),
           Get("event4", <<Put("event3"), Put("event2"), Put("event1")>>),
           Put("event4"), Put("event3"), Put("event2"), Put("event1")>> >>,
      <<PutIf("thread")>>)

(***************************************************************************)
(* When the output handle cannot be built, init returns PTR_ERR(event) of  *)
(* a NULL event, that is 0; when the thread cannot be created the event is *)
(* kept.                                                                   *)
(***************************************************************************)
ko_perf_output_read_one ==
  Row(test_perf_output_read_one_sh,
      <<OrZero(Get("rb", <<>>)),
        OrZero(Get("page", <<Put("rb")>>)),
        Get("event", <<Put("page"), Put("rb")>>),
        Get("thread", <<Put("page"), Put("rb")>>),
        Call("addr1"),
        Put("thread"), Use("event"), Put("event"), Put("page"), Put("rb")>>,
      <<>>,
      <<>>)

ko_perf_pending_task ==
  Row(test_perf_pending_task_sh, <<Event, EventCtx, Call("addr1")>>, <<>>, <<>>)

ko_perf_pmu_resched ==
  Row(perf_event_open_test,
      <<Get("event_file", <<>>),
        Try("private_data", <<Put("event_file")>>),
        Try("pmu", <<Put("event_file")>>),
        Call("addr1"),
        Put("event_file")>>,
      <<>>,
      <<>>)

(***************************************************************************)
(* Both put an event_file they never opened when the event has no pmu, and *)
(* never release the event.                                                *)
(***************************************************************************)
EventPmu == <<Event, Try("pmu", <<Put("event_file")>>)>>

ko_perf_pmu_sched_task ==
  Row(test_perf_pmu_sched_task_sh,
      EventPmu \o <<Call("addr1"), Take("sched_cb")>>, <<>>, <<>>)

ko_perf_sched_cb_change ==
  Row(test_perf_sched_cb_change_sh,
      EventPmu \o <<Call("addr1"), Take("sched_cb"), Call("addr2"), Put("sched_cb")>>,
      <<>>,
      <<>>)

ko_perf_rotate_ctx ==
  Row(test_perf_rotate_ctx_sh, <<Event, EventCtx, Call("addr1")>>, <<>>, <<Put("event")>>)

ko_perf_swap_ptr ==
  Row(by_hand,
      <<Get("temp1", <<>>), Get("temp2", <<Put("temp1")>>), Call("addr1"),
        Put("temp1"), Put("temp2")>>,
      <<>>,
      <<>>)

(***************************************************************************)
(* CORE/events.  `hard_addr' stands for a function address written into    *)
(* the source: nothing compares it with the running kernel.                *)
(***************************************************************************)
perf_event_create_kernel_counter_tst ==
  Row(events_run_all, <<Event>>, <<>>, <<PutIf("event")>>)

perf_event_read_value_tst ==
  Row(events_run_all, <<Event, Use("event")>>, <<>>, <<Use("event"), Put("event")>>)

perf_event_sysfs_show_tst ==
  Row(perf_event_sysfs_show_sh,
      <<Get("test_class", <<>>),
        Get("test_device", <<Put("test_class")>>),
        Get("test_attr", <<Put("test_device"), Put("test_class")>>)>>,
      << <<Use("test_device")>> >>,
      <<Put("test_attr"), Put("test_device"), Put("test_class")>>)

perf_less_group_idx_tst ==
  LET both == <<PutIf("event1"), PutIf("event2")>> IN
  Row(events_run_all,
      <<GetAny("event1"), GetAny("event2"),
        Has("event1", both), Has("event2", both),
        Get("events", <<Put("event1"), Put("event2")>>),
        Call("hard_addr"),
        Put("events"), Put("event1"), Put("event2")>>,
      <<>>,
      <<>>)

perf_mmap_open_tst ==
  Row(events_run_all, <<Get("vm_file", <<>>), Call("hard_addr")>>, <<>>, <<Put("vm_file")>>)

perf_pmu_unregister_tst ==
  Row(events_run_all, <<Get("test_pmu", <<>>)>>, <<>>, <<Put("test_pmu")>>)

perf_register_guest_info_callbacks_tst ==
  Row(events_run_all, <<Take("guest_cbs")>>, <<>>, <<>>)

perf_unregister_guest_info_callbacks_tst ==
  Row(by_hand, <<PutIf("guest_cbs")>>, <<>>, <<>>)

perf_sigtrap ==
  Row(events_run_all,
      <<Get("test_event", <<>>), Get("ctx", <<Put("test_event")>>), Call("hard_addr")>>,
      <<>>,
      <<Put("ctx"), Put("test_event")>>)

raw_notifier_call_chain_robust_tst ==
  Row(by_hand,
      <<Get("nb1", <<>>), Get("nb2", <<Put("nb1")>>),
        Get("nb3", <<Put("nb1"), Put("nb2")>>)>>,
      <<>>,
      <<Put("nb1"), Put("nb2"), Put("nb3")>>)

raw_notifier_chain_tst ==
  Row(by_hand,
      <<Get("nb1", <<>>), Get("nb2", <<Put("nb1")>>)>>, <<>>, <<Put("nb1"), Put("nb2")>>)

CoreTable ==
  [ko_exclusive_event_match |-> ko_exclusive_event_match,
   ko_perf_event_addr_filters_sync |-> ko_perf_event_addr_filters_sync,
   ko_perf_event_enable |-> ko_perf_event_enable,
   ko_perf_event_function_local |-> ko_perf_event_function_local,
   ko_perf_event_inactive |-> ko_perf_event_inactive,
   ko_perf_event_match |-> ko_perf_event_match,
   ko_perf_event_read_event |-> ko_perf_event_read_event,
   ko_perf_event_read_local |-> ko_perf_event_read_local,
   ko_perf_event_refresh |-> ko_perf_event_refresh,
   ko_perf_event_sample_read |-> ko_perf_event_sample_read,
   ko_perf_event_stop |-> ko_perf_event_stop,
   ko_perf_event_update_userpage |-> ko_perf_event_update_userpage,
   ko_perf_get_page_size |-> ko_perf_get_page_size,
   ko_perf_group_update_userpage |-> ko_perf_group_update_userpage,
   ko_perf_hrtimer |-> ko_perf_hrtimer,
   ko_perf_min_heap |-> ko_perf_min_heap,
   ko_perf_output_read_one |-> ko_perf_output_read_one,
   ko_perf_pending_task |-> ko_perf_pending_task,
   ko_perf_pmu_resched |-> ko_perf_pmu_resched,
   ko_perf_pmu_sched_task |-> ko_perf_pmu_sched_task,
   ko_perf_sched_cb_change |-> ko_perf_sched_cb_change,
   ko_perf_rotate_ctx |-> ko_perf_rotate_ctx,
   ko_perf_swap_ptr |-> ko_perf_swap_ptr,
   perf_event_create_kernel_counter_tst |-> perf_event_create_kernel_counter_tst,
   perf_event_read_value_tst |-> perf_event_read_value_tst,
   perf_event_sysfs_show_tst |-> perf_event_sysfs_show_tst,
   perf_less_group_idx_tst |-> perf_less_group_idx_tst,
   perf_mmap_open_tst |-> perf_mmap_open_tst,
   perf_pmu_unregister_tst |-> perf_pmu_unregister_tst,
   perf_register_guest_info_callbacks_tst |-> perf_register_guest_info_callbacks_tst,
   perf_unregister_guest_info_callbacks_tst |-> perf_unregister_guest_info_callbacks_tst,
   perf_sigtrap |-> perf_sigtrap,
   raw_notifier_call_chain_robust_tst |-> raw_notifier_call_chain_robust_tst,
   raw_notifier_chain_tst |-> raw_notifier_chain_tst]
=============================================================================
