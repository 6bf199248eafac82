------------------------- MODULE SignalProgramTable -------------------------
(***************************************************************************)
(* The user programs of PerfEvents_Test that send themselves or each other *)
(* signals, as rows of steps.  A step is a system call: what it does (op), *)
(* the signals it is about (sigs), its argument, and what the program does *)
(* when the call is refused: it cannot be ("never"), or the program exits  *)
(* with a failure ("exit"), or it goes on ("on").                          *)
(*                                                                         *)
(* A row gives the steps of up to three tasks.  "main" runs from the       *)
(* start; "peer" and "third" are what main forks or starts as threads, or, *)
(* for kind "started", a second program that the script has started.       *)
(***************************************************************************)

EXTENDS Sequences

Op(op, sigs, arg)  == [op |-> op, sigs |-> sigs, arg |-> arg, refused |-> "never"]
Try(op, sigs, arg) == [op |-> op, sigs |-> sigs, arg |-> arg, refused |-> "exit"]
Ask(op, sigs, arg) == [op |-> op, sigs |-> sigs, arg |-> arg, refused |-> "on"]

Alone(main) == [kind |-> "alone", main |-> main, peer |-> <<>>, third |-> <<>>]

(* kill, raise, tkill, tgkill and the queueinfo calls differ in who gets   *)
(* the signal: the process, or the calling thread.                         *)
On(s, handler) == Op("on", {s}, handler)
KillSelf(s)    == Op("kill", {s}, "process")
KillThread(s)  == Op("kill", {s}, "thread")
PauseForever   == Op("pause", {}, "again")
PauseUntil(s)  == <<Op("check", {s}, ""), Op("pause", {}, "back")>>  \* while (!signal_handled) pause()
Sleep          == Op("sleep", {}, "")
Alarm          == Op("arm", {"ALRM"}, "once")
Restore        == Op("setmask", {}, "old")

(* A set is printed: "pending", the "mask", the "old" mask of the last      *)
(* call, or the "new" set passed to it.  Where the message speaks of the   *)
(* mask and another variable is printed, the label is named too.           *)
Show(what)     == Op("show", {}, what)

-----------------------------------------------------------------------------
(* A program that signals itself.                                          *)

syscall_signal_kill == Alone(<<On("USR1", "note"), KillSelf("USR1")>>)

syscall_signal_rt_sigaction ==
  Alone(<<On("USR1", "ignore"), KillSelf("USR1"), On("USR1", "default"), KillSelf("USR1")>>)

syscall_tkill ==
  Alone(<<On("USR1", "note"), Try("kill", {"USR1"}, "thread"), Sleep>>)

syscall_tgkill ==
  Alone(<<On("USR1", "note"), Try("kill", {"USR1"}, "thread"), Sleep>>)

syscall_rt_tgsigqueueinfo ==
  Alone(<<On("USR1", "note"), Try("kill", {"USR1"}, "thread")>>)

signal_rt_sigqueueinfo ==
  Alone(<<On("USR1", "note"), Try("kill", {"USR1"}, "process")>>)

syscall_pidfd_send_signal ==
  Alone(<<On("USR1", "note"), Try("kill", {"USR1"}, "process"), Sleep>>)

rt_sigqueueinfo ==
  Alone(<<On("USR1", "note"), Try("kill", {"USR1"}, "process")>> \o PauseUntil("USR1"))

rt_tgsigqueueinfo ==
  Alone(<<On("USR1", "note"), Try("kill", {"USR1"}, "thread")>> \o PauseUntil("USR1"))

pidfd_send_signal ==
  Alone(<<On("USR1", "note"), Try("pidfd", {}, ""), Try("kill", {"USR1"}, "process")>>
        \o PauseUntil("USR1"))

(* The handler ends the program when it runs for the third time.           *)
sig_kill ==
  Alone(<<On("USR1", "third"), Try("kill", {"USR1"}, "process"),
          Try("kill", {"USR1"}, "thread"), Try("kill", {"USR1"}, "thread"), PauseForever>>)

signal_sigaction ==
  Alone(<<Try("on", {"USR1"}, "note"), Try("kill", {"USR1"}, "thread"),
          Try("on", {"USR1"}, "default")>>)

-----------------------------------------------------------------------------
(* Blocked and pending signals.                                            *)

syscall_sigpending ==
  Alone(<<On("USR1", "note"), On("USR2", "note"), Op("block", {"USR1", "USR2"}, ""),
          KillThread("USR1"), KillThread("USR2"), Try("show", {}, "pending")>>)

syscall_rt_sigpending ==
  Alone(<<Op("block", {"USR1"}, ""), On("USR1", "note"), KillSelf("USR1"),
          Show("pending"), Restore>>)

signal_sigprocmask ==
  Alone(<<Try("block", {"USR1"}, ""), Op("show", {"USR1"}, "new as mask"),
          Try("unblock", {"USR1"}, ""), Show("old as mask")>>)

syscall_rt_sigprocmask ==
  Alone(<<Op("show", {"INT"}, "new"), Op("block", {"INT"}, ""), Show("old"), Show("mask"),
          Restore, Show("mask")>>)

(* The thread and the main thread both block SIGTERM, each on its own.     *)
signal_re_shared_pending ==
  [kind |-> "threads",
   main |-> <<Try("start", {}, "peer"), On("INT", "note"), On("TERM", "note"),
              Op("block", {"TERM"}, ""), Sleep, KillSelf("TERM"), KillThread("TERM"),
              Show("pending"), Sleep, Restore, Show("pending"), Op("join", {}, "peer")>>,
   peer |-> <<Op("block", {"TERM"}, ""), Sleep, Restore>>, third |-> <<>>]

-----------------------------------------------------------------------------
(* Waiting for a signal.                                                   *)

syscall_signal_pause ==
  Alone(<<On("USR1", "note"), On("ALRM", "note"), Alarm, Ask("pause", {}, "once")>>)

signal_sigsuspend ==
  Alone(<<On("USR1", "note"), On("ALRM", "note"), Op("block", {"USR1"}, ""), Alarm,
          Op("suspend", {}, ""), Restore>>)

syscall_signal_sigsuspend ==
  Alone(<<On("USR1", "note"), On("INT", "note"), Op("block", {"USR1"}, ""), Alarm,
          Ask("suspend", {"USR1"}, ""), Restore>>)

syscall_restart_syscall ==
  Alone(<<On("USR1", "note"), On("ALRM", "resend"), Alarm, Op("nap", {}, "")>>)

(* The child, too, is started with SIGUSR1 blocked.                        *)
syscall_rt_sigtimedwait ==
  [kind |-> "fork",
   main |-> <<Op("block", {"USR1"}, ""), Ask("start", {}, "peer"),
              Try("sigwait", {"USR1"}, "result")>>,
   peer |-> <<Sleep, Op("kill", {"USR1"}, "parent")>>, third |-> <<>>]

(* The result of the call is not stored: ret is read uninitialized.        *)
syscall_rt_sigtimedwait_time64 == Alone(<<Ask("sigwait", {"INT"}, "unread")>>)

-----------------------------------------------------------------------------
(* Timers.                                                                 *)

syscall_time_create ==
  Alone(<<On("USR1", "note"), Op("block", {"USR1"}, ""), KillSelf("USR1"), KillSelf("USR1"),
          Op("timer", {}, "limited")>>)

syscall_timer_create_normal ==
  Alone(<<On("RTMIN", "count"), On("INT", "stop"), Try("timer", {}, ""),
          Op("arm", {"RTMIN"}, "every"), PauseForever>>)

-----------------------------------------------------------------------------
(* Signals to somebody else.                                               *)

(* test_signal_check_kpermission.sh runs the sender (main) as soon as it   *)
(* has started the receiver (peer) in the background.                      *)
signal_nopmn ==
  [kind |-> "started",
   main |-> <<Try("seteuid", {}, ""), Try("kill", {"USR1"}, "peer")>>,
   peer |-> <<On("USR1", "exit"), PauseForever>>, third |-> <<>>]

(* Thread 2 (third) casts its own argument to the pthread_t of its target. *)
signal_ptrace_nopermission ==
  [kind |-> "threads",
   main |-> <<Try("start", {}, "peer"), Try("start", {}, "third"), Try("seteuid", {}, ""),
              Op("join", {}, "peer"), Op("join", {}, "third")>>,
   peer |-> <<Op("pause", {}, "once")>>,
   third |-> <<Sleep, Op("wild", {"USR1"}, "")>>]

-----------------------------------------------------------------------------

SignalPrograms ==
  [syscall_signal_kill |-> syscall_signal_kill,
   syscall_signal_rt_sigaction |-> syscall_signal_rt_sigaction,
   syscall_tkill |-> syscall_tkill,
   syscall_tgkill |-> syscall_tgkill,
   syscall_rt_tgsigqueueinfo |-> syscall_rt_tgsigqueueinfo,
   signal_rt_sigqueueinfo |-> signal_rt_sigqueueinfo,
   syscall_pidfd_send_signal |-> syscall_pidfd_send_signal,
   rt_sigqueueinfo |-> rt_sigqueueinfo,
   rt_tgsigqueueinfo |-> rt_tgsigqueueinfo,
   pidfd_send_signal |-> pidfd_send_signal,
   sig_kill |-> sig_kill,
   signal_sigaction |-> signal_sigaction,
   syscall_sigpending |-> syscall_sigpending,
   syscall_rt_sigpending |-> syscall_rt_sigpending,
   signal_sigprocmask |-> signal_sigprocmask,
   syscall_rt_sigprocmask |-> syscall_rt_sigprocmask,
   signal_re_shared_pending |-> signal_re_shared_pending,
   syscall_signal_pause |-> syscall_signal_pause,
   signal_sigsuspend |-> signal_sigsuspend,
   syscall_signal_sigsuspend |-> syscall_signal_sigsuspend,
   syscall_restart_syscall |-> syscall_restart_syscall,
   syscall_rt_sigtimedwait |-> syscall_rt_sigtimedwait,
   syscall_rt_sigtimedwait_time64 |-> syscall_rt_sigtimedwait_time64,
   syscall_time_create |-> syscall_time_create,
   syscall_timer_create_normal |-> syscall_timer_create_normal,
   signal_nopmn |-> signal_nopmn,
   signal_ptrace_nopermission |-> signal_ptrace_nopermission]
=============================================================================
