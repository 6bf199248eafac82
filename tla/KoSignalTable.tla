--------------------------- MODULE KoSignalTable ---------------------------
(***************************************************************************)
(* The kernel modules of PerfEvents_Test itself (signals, notifier chains, *)
(* the AUX part of the perf ring buffer) and what loads them, one          *)
(* definition per file, in the vocabulary of KoSteps.                      *)
(***************************************************************************)
EXTENDS KoSteps

signal_run_all                   == Script({}, "unchecked")
test_notifier_sh                 == Script({"addr"}, "unchecked")
test_notifier_reboot_sh          == [test_notifier_sh EXCEPT !.finish = "reboot"]
test_perf_output_skip_sh         == Script({"addr2"}, "unchecked")
test_rb_aux_alloc_sh             == Script({"addr1"}, "unchecked")
test_rb_free_aux_sh              == Script({"addr1"}, "unchecked")
test_sig_fault_send_sh           == Script({"addr1", "addr2"}, "unchecked")
test_signal_copy_form_user32_sh  == Script({"addr1"}, "lsmod")
test_signal_force_mcerr_sh       == Script({"addr1", "addr2", "addr3", "addr4"}, "unchecked")
test_signal_force_sig_other_sh   == Script({"addr1", "addr2", "addr3", "addr4"}, "unchecked")
test_signal_ignore_sh            == Script({"addr1", "addr2", "addr3"}, "unchecked")
test_signal_kernel_sigaction_sh  == Script({}, "unchecked")
test_signal_no_restart_syscall_sh == Script({"addr1"}, "unchecked")
test_signal_send_sig_sh          == Script({"target_pid"}, "unchecked")
test_signal_send_sigpf_sh        == Script({"addr1"}, "unchecked")
test_signal_setup_done_sh        == Script({"addr1", "addr2"}, "unchecked")
test_signal_sig_pending_sh       == Script({"addr1", "addr2"}, "unchecked")
test_signal_usb_asyncio_sh       == Script({}, "unchecked")
test_task_join_stop_sh           == Script({"addr1"}, "unchecked")

clear_jobctl == Row(by_hand, <<>>, <<>>, <<>>)

(* sigprocmask(SIG_BLOCK, NULL, ..) reads the new mask through NULL.       *)
ctest_signal_delivered ==
  Row(by_hand,
      <<Param("pid", <<>>), Get("task", <<>>), Use("null_sigset"), Call("addr"),
        Put("task")>>,
      <<>>,
      <<>>)

ctest_signal_exit_signals ==
  Row(by_hand,
      <<Get("my_wq", <<>>), Take("my_work")>>,
      <<>>,
      <<Put("my_work"), Put("my_wq")>>)

ctest_signal_force_sig_mceerr ==
  Row(test_signal_force_mcerr_sh, <<Call("addr1"), Call("addr2"), Call("addr3")>>, <<>>, <<>>)

ctest_signal_force_sig_other ==
  Row(test_signal_force_sig_other_sh,
      <<Call("addr1"), Call("addr2"), Call("addr3"), Call("addr4"),
        Get("pid_struct", <<>>), Put("pid_struct")>>,
      <<>>,
      <<>>)

ctest_signal_ignore ==
  Row(test_signal_ignore_sh, <<Call("addr1"), Call("addr2"), Call("addr3")>>, <<>>, <<>>)

(* Sets the disposition of SIGUSR1 in the calling insmod, then in rmmod.   *)
ctest_signal_kernel_sigaction == Row(test_signal_kernel_sigaction_sh, <<>>, <<>>, <<>>)

ctest_signal_send_sig == Row(test_signal_send_sig_sh, <<Try("send_sig", <<>>)>>, <<>>, <<>>)

ctest_signal_send_sig_perf == Row(test_signal_send_sigpf_sh, <<Call("addr1")>>, <<>>, <<>>)

ctest_signal_setup_done ==
  Row(test_signal_setup_done_sh, <<Call("addr1"), Call("addr1"), Call("addr2")>>, <<>>, <<>>)

ctest_signal_sig_pend ==
  Row(test_signal_sig_pending_sh, <<Call("addr1"), Call("addr2")>>, <<>>, <<>>)

ctest_signal_usb_asyncio ==
  Row(test_signal_usb_asyncio_sh,
      <<Get("pid_struct", <<>>), Try("kill_pid", <<Put("pid_struct")>>), Put("pid_struct")>>,
      <<>>,
      <<>>)

(* The thread makes the call; the handler is the thread's body.            *)
ctest_task_join_stop ==
  Row(test_task_join_stop_sh,
      <<Get("thread", <<>>)>>, << <<Call("addr1")>> >>, <<PutIf("thread")>>)

ko_perf_aux_output_end == Row(signal_run_all, <<>>, <<>>, <<>>)

(* perf_output_skip is handed an output handle nobody has filled in.       *)
ko_perf_output_skip ==
  Row(test_perf_output_skip_sh,
      <<Get("event", <<>>), Call("addr2"), Use("handle"), Put("event")>>, <<>>, <<>>)

ko_rb_free_aux == Row(test_rb_free_aux_sh, <<Call("addr1")>>, <<>>, <<>>)

ko_sig_fault_send ==
  Row(test_sig_fault_send_sh,
      <<Call("addr1"), Call("addr2"), Get("pid_struct", <<>>), Put("pid_struct")>>,
      <<>>,
      <<>>)

ko_signal_no_restart_syscall ==
  Row(test_signal_no_restart_syscall_sh, <<Call("addr1")>>, <<>>, <<>>)

(***************************************************************************)
(* Every registration is logged and none is acted upon; unregistering what *)
(* was never registered is harmless.  The SRCU structure behind            *)
(* srcu_chain_list is set up first and never taken down.  notify_die_fn is *)
(* called only when it is not NULL.                                        *)
(***************************************************************************)
Notifiers == <<"raw_notif", "blocking_notif", "blocking_high_prio", "atomic_notif",
               "atomic_high_prio", "srcu_notif", "die_notif", "reboot_notif">>

notifier ==
  Row(test_notifier_sh,
      <<Take("srcu_head"), Try("kstrtoul", <<>>)>>
        \o [i \in DOMAIN Notifiers |-> GetAny(Notifiers[i])],
      <<>>,
      [i \in DOMAIN Notifiers |-> PutIf(Notifiers[i])])

notifier_until_reboot == [notifier EXCEPT !.script = test_notifier_reboot_sh]

(* handle.event is cleared, so nothing can end the AUX transaction.        *)
perf_ringbuffer_aux_op_begin ==
  Row(signal_run_all,
      <<Get("event", <<>>), Use("event"), GetAny("aux_handle")>>,
      <<>>,
      <<Use("event"), PutIf("event")>>)

(***************************************************************************)
(* The write handler looks up the perf event behind the caller's           *)
(* descriptor, gives the file back and, when perf_aux_output_begin fails,  *)
(* releases the event, which is the descriptor's and not the module's.     *)
(***************************************************************************)
perf_ringbuffer_aux_op_fd ==
  Row(by_hand,
      <<GetAny("proc_perf_fd")>>,
      << <<Try("count", <<>>), Try("copy_from_user", <<>>), Try("kstrtoint", <<>>),
           Get("file", <<>>), Try("private_data", <<Put("file")>>), Put("file"),
           Get("aux_handle", <<Put("event_of_caller")>>)>> >>,
      <<PutIf("proc_perf_fd")>>)

proc_create ==
  Row(by_hand,
      <<Get("proc_notify", <<>>)>>,
      << <<Try("count", <<>>), Try("copy_from_user", <<>>)>>,
         <<Try("pos", <<>>), Try("copy_to_user", <<>>)>> >>,
      <<PutIf("proc_notify")>>)

raw_notifier_callchain_robust ==
  Row(signal_run_all, <<Get("raw_notif", <<>>)>>, <<>>, <<Put("raw_notif")>>)

(* alloc_perf_event turns an error into NULL, which init does not test.    *)
rb_alloc_aux ==
  Row(test_rb_aux_alloc_sh,
      <<GetAny("event"), Call("addr1"), Use("event"), GetAny("aux_pages"), Put("event")>>,
      <<>>,
      <<>>)

signal_copy_from_user32 ==
  Row(test_signal_copy_form_user32_sh, <<Call("addr1"), Try("copied", <<>>)>>, <<>>, <<>>)

(* find_get_pid takes a reference that is never put.                       *)
test_get_tsk_addr ==
  Row(by_hand, <<Param("pid", <<>>), GetAny("pid_struct")>>, <<>>, <<>>)

SignalTable ==
  [clear_jobctl |-> clear_jobctl,
   ctest_signal_delivered |-> ctest_signal_delivered,
   ctest_signal_exit_signals |-> ctest_signal_exit_signals,
   ctest_signal_force_sig_mceerr |-> ctest_signal_force_sig_mceerr,
   ctest_signal_force_sig_other |-> ctest_signal_force_sig_other,
   ctest_signal_ignore |-> ctest_signal_ignore,
   ctest_signal_kernel_sigaction |-> ctest_signal_kernel_sigaction,
   ctest_signal_send_sig |-> ctest_signal_send_sig,
   ctest_signal_send_sig_perf |-> ctest_signal_send_sig_perf,
   ctest_signal_setup_done |-> ctest_signal_setup_done,
   ctest_signal_sig_pend |-> ctest_signal_sig_pend,
   ctest_signal_usb_asyncio |-> ctest_signal_usb_asyncio,
   ctest_task_join_stop |-> ctest_task_join_stop,
   ko_perf_aux_output_end |-> ko_perf_aux_output_end,
   ko_perf_output_skip |-> ko_perf_output_skip,
   ko_rb_free_aux |-> ko_rb_free_aux,
   ko_sig_fault_send |-> ko_sig_fault_send,
   ko_signal_no_restart_syscall |-> ko_signal_no_restart_syscall,
   notifier |-> notifier,
   notifier_until_reboot |-> notifier_until_reboot,
   perf_ringbuffer_aux_op_begin |-> perf_ringbuffer_aux_op_begin,
   perf_ringbuffer_aux_op_fd |-> perf_ringbuffer_aux_op_fd,
   proc_create |-> proc_create,
   raw_notifier_callchain_robust |-> raw_notifier_callchain_robust,
   rb_alloc_aux |-> rb_alloc_aux,
   signal_copy_from_user32 |-> signal_copy_from_user32,
   test_get_tsk_addr |-> test_get_tsk_addr]
=============================================================================
