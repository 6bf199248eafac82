--------------------------- MODULE SignalPrograms ---------------------------
(***************************************************************************)
(* The programs of SignalProgramTable, run by the kernel: their tasks take *)
(* steps, alarms and timers go off, pending signals that are not blocked   *)
(* are delivered, and somebody may interrupt a program.  One program runs  *)
(* per behaviour.  Time is left out: a sleep, an alarm and a timeout may   *)
(* each end at any moment, as they may on a machine that is busy.          *)
(***************************************************************************)
EXTENDS SignalProgramTable, Naturals, SequencesExt

VARIABLES
  program,      \* the name of the program
  task,         \* its tasks: where they are, what they block, what is pending for them
  proc,         \* its processes: handlers, what is pending for them, timers, identity
  caught,       \* the signals for which a handler has run
  reports,      \* the sets of signals that have been printed, and what was said of them
  interrupted,  \* the one SIGINT has been sent
  stray         \* a signal has gone to a process that is none of the program's

vars == <<program, task, proc, caught, reports, interrupted, stray>>

Signals  == {"USR1", "USR2", "ALRM", "INT", "TERM", "RTMIN"}
Handlers == {"default", "ignore", "note", "resend", "exit", "count", "third", "stop"}
Tasks    == {"main", "peer", "third"}
Procs    == {"main", "peer"}
Ticks    == 5   \* timer_handler ends the program when it has run this often
Third    == 3   \* total_signals of sig_kill
Reports  == [shows : SUBSET Signals, says : SUBSET Signals]
AsMask   == {"old as mask", "new as mask"}

TypeOK ==
  /\ program \in DOMAIN SignalPrograms
  /\ task \in [Tasks -> [pc : 1..13, mode : {"absent", "ready", "asleep", "dead"},
                         mask : SUBSET Signals, old : SUBSET Signals,
                         pend : SUBSET Signals]]
  /\ \A p \in Procs :
       /\ proc[p].status \in {"absent", "run", "ok", "failed", "SEGV"} \cup Signals
       /\ proc[p].disp \in [Signals -> Handlers]
       /\ proc[p].shared \subseteq Signals
       /\ proc[p].armed \subseteq {"made", "ALRM", "RTMIN"}
       /\ proc[p].ticks \in 0..Ticks
       /\ proc[p].real \in {"root", "plain"} /\ proc[p].eff \in {"root", "plain", "nobody"}
  /\ caught \subseteq Signals /\ reports \in Seq(Reports)
  /\ interrupted \in BOOLEAN /\ stray \in BOOLEAN

Fresh(mode)  == [pc |-> 1, mode |-> mode, mask |-> {}, old |-> {}, pend |-> {}]
Born(status, user) ==
  [status |-> status, disp |-> [s \in Signals |-> "default"], shared |-> {}, armed |-> {},
   ticks |-> 0, real |-> user, eff |-> user]

Started == IF SignalPrograms[program].kind = "started" THEN {"main", "peer"} ELSE {"main"}

Init ==
  /\ program \in DOMAIN SignalPrograms
  /\ task = [t \in Tasks |-> Fresh(IF t \in Started THEN "ready" ELSE "absent")]
  /\ \E user \in {"root", "plain"} :
       proc = [p \in Procs |-> Born(IF p \in Started THEN "run" ELSE "absent", user)]
  /\ caught = {} /\ reports = <<>> /\ interrupted = FALSE /\ stray = FALSE

-----------------------------------------------------------------------------
(* Tasks, processes and signals.                                           *)

Row      == SignalPrograms[program]
Proc(t)  == IF t = "peer" /\ Row.kind # "threads" THEN "peer" ELSE "main"
Of(p)    == {t \in Tasks : Proc(t) = p}
Ended(t) == task[t].pc > Len(Row[t])
At(t)    == Row[t][task[t].pc]
Waits(t, op) == task[t].mode = "asleep" /\ At(t).op = op

Handler(t, s) == proc[Proc(t)].disp[s]
Pending(t)    == task[t].pend \cup proc[Proc(t)].shared

(* Mutant of Blocked: a sigtimedwait lets the signals through that it      *)
(* waits for.                                                              *)
BlockedButAwaited(t) ==
  CASE Waits(t, "suspend") -> At(t).sigs
    [] Waits(t, "sigwait") -> task[t].mask \ At(t).sigs
    [] OTHER -> task[t].mask

(* What keeps a signal from t: its mask, or the one of its sigsuspend.  A  *)
(* sigtimedwait keeps the signals it takes, but not one that would kill.   *)
Blocked(t) ==
  CASE Waits(t, "suspend") -> At(t).sigs
    [] Waits(t, "sigwait") ->
         task[t].mask \cup {s \in At(t).sigs : Handler(t, s) # "default"}
    [] OTHER -> task[t].mask

Deliverable(t) ==
  IF task[t].mode \in {"ready", "asleep"} THEN Pending(t) \ Blocked(t)
  ELSE {}

(* The kernel takes a signal from the thread's own set first.              *)
WithoutTask(t, s) == [task EXCEPT ![t].pend = @ \ {s}]
WithoutProc(t, s) ==
  IF s \in task[t].pend THEN proc ELSE [proc EXCEPT ![Proc(t)].shared = @ \ {s}]

(* A process ends: all its threads and its timers with it.                 *)
Ends(p, how) ==
  /\ task' = [t \in Tasks |-> IF t \in Of(p) /\ task[t].mode # "absent"
                              THEN [task[t] EXCEPT !.mode = "dead", !.pend = {}]
                              ELSE task[t]]
  /\ proc' = [proc EXCEPT ![p].status = how, ![p].shared = {}, ![p].armed = {}]

Past(tsk, t) == [tsk EXCEPT ![t].pc = @ + 1, ![t].mode = "ready"]

Quiet == UNCHANGED <<program, caught, reports, interrupted, stray>>

-----------------------------------------------------------------------------
(* The kernel delivers a signal.                                           *)

(* A handler has run.  A sleeper returns from its call with EINTR; a while *)
(* loop around pause or nanosleep makes the call once more, or first tests *)
(* its condition again ("back").                                           *)
Resumed(tsk, t) ==
  IF task[t].mode # "asleep" THEN tsk
  ELSE IF At(t).op = "nap" \/ At(t).arg = "again" THEN [tsk EXCEPT ![t].mode = "ready"]
  ELSE IF At(t).arg = "back" THEN [tsk EXCEPT ![t].pc = @ - 1, ![t].mode = "ready"]
  ELSE Past(tsk, t)

Kills(t, s) ==
  /\ Handler(t, s) = "default" /\ Ends(Proc(t), s)
  /\ Quiet

Ignored(t, s) ==
  /\ Handler(t, s) = "ignore"
  /\ task' = WithoutTask(t, s) /\ proc' = WithoutProc(t, s)
  /\ Quiet

Caught(s) == caught' = caught \cup {s} /\ UNCHANGED <<program, reports, interrupted, stray>>

(* The handler prints.  handle_signal of syscall_restart_syscall also      *)
(* sleeps the rest of the interrupted nanosleep.                           *)
Noted(t, s) ==
  /\ Handler(t, s) = "note"
  /\ task' = Resumed(WithoutTask(t, s), t) /\ proc' = WithoutProc(t, s)
  /\ Caught(s)

(* send_sigusr1: kill(getpid(), SIGUSR1).                                  *)
Resends(t, s) ==
  /\ Handler(t, s) = "resend"
  /\ task' = Resumed(WithoutTask(t, s), t)
  /\ proc' = [WithoutProc(t, s) EXCEPT ![Proc(t)].shared = @ \cup {"USR1"}]
  /\ Caught(s)

(* handle_signal of signal_nopmn_receiver.                                 *)
Exits(t, s) ==
  /\ Handler(t, s) = "exit" /\ Ends(Proc(t), "ok")
  /\ Caught(s)

(* Mutant of Counts: timer_handler does not exit.                          *)
CountsOn(t, s) ==
  /\ Handler(t, s) \in {"count", "third"}
  /\ task' = Resumed(WithoutTask(t, s), t)
  /\ proc' = [WithoutProc(t, s) EXCEPT ![Proc(t)].ticks = @ + 1]
  /\ Caught(s)

(* timer_handler; signal_handler of sig_kill.                              *)
Counts(t, s) ==
  /\ Handler(t, s) \in {"count", "third"}
  /\ IF proc[Proc(t)].ticks + 1 >= (IF Handler(t, s) = "count" THEN Ticks ELSE Third)
     THEN Ends(Proc(t), "ok")
     ELSE /\ task' = Resumed(WithoutTask(t, s), t)
          /\ proc' = [WithoutProc(t, s) EXCEPT ![Proc(t)].ticks = @ + 1]
  /\ Caught(s)

(* stop_timer: timer_settime and timer_delete fail without a timer.        *)
Stops(t, s) ==
  /\ Handler(t, s) = "stop"
  /\ Ends(Proc(t), IF "made" \in proc[Proc(t)].armed THEN "ok" ELSE "failed")
  /\ Caught(s)

Deliver(t) ==
  \E s \in Deliverable(t) :
    \/ Kills(t, s) \/ Ignored(t, s) \/ Noted(t, s) \/ Resends(t, s)
    \/ Exits(t, s) \/ Counts(t, s) \/ Stops(t, s)

-----------------------------------------------------------------------------
(* A task takes a step.  Signals it can take come first.                   *)

Runs(t, op) ==
  /\ task[t].mode = "ready" /\ Deliverable(t) = {} /\ ~ Ended(t)
  /\ At(t).op = op

Next1(t) == task' = Past(task, t)

InstallHandler(t) ==
  /\ Runs(t, "on") /\ Next1(t)
  /\ proc' = [proc EXCEPT ![Proc(t)].disp =
                [s \in Signals |-> IF s \in At(t).sigs THEN At(t).arg ELSE @[s]]]
  /\ Quiet

SetsMask(t, mask) ==
  task' = [Past(task, t) EXCEPT ![t].mask = mask, ![t].old = task[t].mask]

Block(t) ==
  /\ Runs(t, "block") /\ SetsMask(t, task[t].mask \cup At(t).sigs)
  /\ UNCHANGED proc /\ Quiet

Unblock(t) ==
  /\ Runs(t, "unblock") /\ SetsMask(t, task[t].mask \ At(t).sigs)
  /\ UNCHANGED proc /\ Quiet

(* Mutant of RestoreMask: the mask stays as it is.                         *)
RestoreNothing(t) ==
  /\ Runs(t, "setmask") /\ Next1(t)
  /\ UNCHANGED proc /\ Quiet

(* SIG_SETMASK to the mask saved before; nothing is saved by this call.    *)
RestoreMask(t) ==
  /\ Runs(t, "setmask")
  /\ task' = [Past(task, t) EXCEPT ![t].mask = task[t].old]
  /\ UNCHANGED proc /\ Quiet

(* The variable that is printed, and the set the message above it names.   *)
Shows(t) ==
  CASE At(t).arg = "pending"                 -> Pending(t) \cap task[t].mask
    [] At(t).arg = "mask"                    -> task[t].mask
    [] At(t).arg \in {"old", "old as mask"} -> task[t].old
    [] OTHER                                 -> At(t).sigs

Says(t) == IF At(t).arg \in AsMask THEN task[t].mask ELSE Shows(t)

(* Mutant of Report: what is pending for the process is left out.          *)
ReportOwn(t) ==
  /\ Runs(t, "show") /\ Next1(t)
  /\ LET seen == IF At(t).arg = "pending" THEN task[t].pend ELSE Signals
     IN  reports' = Append(reports, [shows |-> Shows(t) \cap seen, says |-> Says(t)])
  /\ UNCHANGED <<program, proc, caught, interrupted, stray>>

Report(t) ==
  /\ Runs(t, "show") /\ Next1(t)
  /\ reports' = Append(reports, [shows |-> Shows(t), says |-> Says(t)])
  /\ UNCHANGED <<program, proc, caught, interrupted, stray>>

(* kill(2) lets root through, and a sender whose real or effective user is *)
(* the one of the target.                                                  *)
MayKill(p, q) ==
  \/ proc[p].eff = "root"
  \/ proc[q].real \in {proc[p].real, proc[p].eff}

Allowed(t) ==
  CASE At(t).op = "seteuid" -> proc[Proc(t)].real = "root"
    [] At(t).op = "kill" /\ At(t).arg = "peer" -> MayKill(Proc(t), "peer")
    [] OTHER -> TRUE

(* getppid() of a child whose parent has ended is another process.         *)
Kill(t) ==
  /\ Runs(t, "kill") /\ Allowed(t)
  /\ LET to   == CASE At(t).arg = "parent" -> "main" [] At(t).arg = "peer" -> "peer"
                   [] OTHER -> Proc(t)
         live == proc[to].status = "run"
         toThread == At(t).arg = "thread"
     IN  /\ task' = [Past(task, t) EXCEPT
                      ![t].pend = IF toThread THEN @ \cup At(t).sigs ELSE @]
         /\ proc' = [proc EXCEPT
                      ![to].shared = IF live /\ ~ toThread THEN @ \cup At(t).sigs ELSE @]
         /\ stray' = (stray \/ (At(t).arg = "parent" /\ ~ live))
  /\ UNCHANGED <<program, caught, reports, interrupted>>

(* pthread_kill((pthread_t)arg, ...) with arg = 2: the C library reads a   *)
(* thread descriptor at address 2, or finds that there is no such thread.  *)
WildKill(t) ==
  /\ Runs(t, "wild")
  /\ \/ Ends(Proc(t), "SEGV")
     \/ Next1(t) /\ UNCHANGED proc
  /\ Quiet

(* Mutant of Check: the program pauses without a look at its flag.         *)
CheckNothing(t) ==
  /\ Runs(t, "check") /\ Next1(t)
  /\ UNCHANGED proc /\ Quiet

(* The condition of a loop around pause, and pidfd_open.                   *)
Check(t) ==
  /\ Runs(t, "check")
  /\ task' = [task EXCEPT ![t].pc = @ + (IF At(t).sigs \subseteq caught THEN 2 ELSE 1)]
  /\ UNCHANGED proc /\ Quiet

OpenPidfd(t) ==
  /\ Runs(t, "pidfd") /\ Next1(t)
  /\ UNCHANGED proc /\ Quiet

SetEuid(t) ==
  /\ Runs(t, "seteuid") /\ Allowed(t) /\ Next1(t)
  /\ proc' = [proc EXCEPT ![Proc(t)].eff = "nobody"]
  /\ Quiet

(* alarm, timer_settime.                                                   *)
ArmTimer(t) ==
  /\ Runs(t, "arm") /\ Next1(t)
  /\ proc' = [proc EXCEPT ![Proc(t)].armed = @ \cup At(t).sigs]
  /\ Quiet

(* timer_create reserves a pending signal.  With RLIMIT_SIGPENDING at 1    *)
(* ("limited") it cannot when another one is pending, and its failure is   *)
(* only printed.                                                           *)
CreateTimer(t) ==
  /\ Runs(t, "timer") /\ Next1(t)
  /\ \/ /\ At(t).arg = "limited" => Pending(t) = {}
        /\ proc' = [proc EXCEPT ![Proc(t)].armed = @ \cup {"made"}]
     \/ /\ At(t).arg = "limited"
        /\ UNCHANGED proc
  /\ Quiet

(* fork: the child has the caller's handlers, mask and identity.           *)
(* pthread_create: the thread has the caller's mask.                       *)
Start(t) ==
  /\ Runs(t, "start")
  /\ LET new == At(t).arg
     IN  /\ task' = [Past(task, t) EXCEPT ![new] = [Fresh("ready") EXCEPT !.mask = task[t].mask]]
         /\ proc' = IF Row.kind = "fork"
                    THEN [proc EXCEPT ![new] = [proc[Proc(t)] EXCEPT !.shared = {}, !.armed = {}]]
                    ELSE proc
  /\ Quiet

Join(t) ==
  /\ Runs(t, "join") /\ task[At(t).arg].mode = "dead" /\ Next1(t)
  /\ UNCHANGED proc /\ Quiet

(* A call that waits.  What is pending now is delivered before the task    *)
(* goes to sleep: a signal that comes between the last check and the call  *)
(* does not end the wait.                                                  *)
FallAsleep(t) ==
  /\ \E op \in {"pause", "suspend", "sigwait", "sleep", "nap"} : Runs(t, op)
  /\ task' = [task EXCEPT ![t].mode = "asleep"]
  /\ UNCHANGED proc /\ Quiet

(* ret is not the result of the call (syscall_rt_sigtimedwait_time64.c).   *)
Unread(t) == At(t).arg = "unread"

(* sleep and nanosleep are over; sigtimedwait has timed out.               *)
TimeIsUp(t) ==
  /\ Waits(t, "sleep") \/ Waits(t, "nap") \/ Waits(t, "sigwait")
  /\ \/ At(t).op = "sigwait" /\ Ends(Proc(t), "failed")
     \/ (At(t).op = "sigwait" => Unread(t)) /\ Next1(t) /\ UNCHANGED proc
  /\ Quiet

Take(t) ==
  /\ Waits(t, "sigwait")
  /\ \E s \in Pending(t) \cap (At(t).sigs \cap Blocked(t)) :
       /\ task' = Past(WithoutTask(t, s), t)
       /\ proc' = WithoutProc(t, s)
  /\ Quiet

Refused(t) ==
  /\ task[t].mode = "ready" /\ Deliverable(t) = {} /\ ~ Ended(t)
  /\ At(t).refused # "never"
  /\ (At(t).op = "seteuid" \/ (At(t).op = "kill" /\ At(t).arg = "peer")) => ~ Allowed(t)
  /\ \/ (At(t).refused = "exit" \/ Unread(t)) /\ Ends(Proc(t), "failed")
     \/ At(t).refused = "on" /\ Next1(t) /\ UNCHANGED proc
  /\ Quiet

(* return: of main, the process ends; of a thread, the thread.             *)
Return(t) ==
  /\ task[t].mode = "ready" /\ Deliverable(t) = {} /\ Ended(t)
  /\ IF t = "main" \/ Row.kind # "threads"
     THEN Ends(Proc(t), "ok")
     ELSE task' = [task EXCEPT ![t].mode = "dead", ![t].pend = {}] /\ UNCHANGED proc
  /\ Quiet

TaskStep(t) ==
  \/ InstallHandler(t) \/ Block(t) \/ Unblock(t) \/ RestoreMask(t) \/ Report(t)
  \/ Kill(t) \/ WildKill(t) \/ Check(t) \/ OpenPidfd(t) \/ SetEuid(t) \/ ArmTimer(t) \/ CreateTimer(t) \/ Start(t)
  \/ Join(t) \/ FallAsleep(t) \/ Refused(t) \/ Return(t)

-----------------------------------------------------------------------------
(* The clock and the user.                                                 *)

(* An alarm goes off once; a timer goes off again and again, and while its *)
(* signal is pending it only counts an overrun.                            *)
GoesOff(p) ==
  \E s \in {"ALRM", "RTMIN"} \cap proc[p].armed :
    /\ s \notin proc[p].shared
    /\ proc' = [proc EXCEPT ![p].shared = @ \cup {s},
                            ![p].armed = IF s = "ALRM" THEN @ \ {s} ELSE @]
    /\ UNCHANGED task /\ Quiet

Interrupt(p) ==
  /\ ~ interrupted /\ proc[p].status = "run"
  /\ interrupted' = TRUE
  /\ proc' = [proc EXCEPT ![p].shared = @ \cup {"INT"}]
  /\ UNCHANGED <<program, task, caught, reports, stray>>

Next ==
  \/ \E t \in Tasks : Deliver(t) \/ TaskStep(t) \/ TimeIsUp(t) \/ Take(t)
  \/ \E p \in Procs : GoesOff(p) \/ Interrupt(p)

(* The scheduler runs every task that can run, sleeps and alarms end, and  *)
(* signals are delivered.  Nobody need send SIGINT.                        *)
Fairness ==
  /\ \A t \in Tasks : WF_vars(Deliver(t)) /\ WF_vars(TaskStep(t))
                      /\ WF_vars(TimeIsUp(t)) /\ WF_vars(Take(t))
  /\ \A p \in Procs : WF_vars(GoesOff(p))

Spec == Init /\ [][Next]_vars /\ Fairness

-----------------------------------------------------------------------------
(* Properties.                                                             *)

Finished == \A p \in Procs : proc[p].status # "run"

(* The default actions of the signals the programs send are fatal.  Only   *)
(* these programs die of one: rt_sigaction restores the default action     *)
(* before its second kill; the alarm of syscall_signal_sigsuspend has no   *)
(* handler; the receiver may be signalled before it has installed its      *)
(* handler.                                                                *)
DiesOf ==
  {<<"syscall_signal_rt_sigaction", "main", "USR1">>,
   <<"syscall_signal_sigsuspend", "main", "ALRM">>,
   <<"signal_nopmn", "peer", "USR1">>,
   <<"signal_ptrace_nopermission", "main", "SEGV">>}

(* In every other program the handlers are installed, or the signals       *)
(* blocked, before the first of them can arrive, in every task that could  *)
(* get it and after every fork.  SIGINT from outside is not counted.       *)
KilledOnlyAsMeant ==
  \A p \in Procs :
    proc[p].status \in (Signals \cup {"SEGV"}) \ {"INT"}
      => <<program, p, proc[p].status>> \in DiesOf

(* The signals each program is there to see handled.                       *)
Meant ==
  [n \in {"syscall_signal_kill", "syscall_tkill", "syscall_tgkill", "signal_sigaction",
          "syscall_rt_tgsigqueueinfo", "signal_rt_sigqueueinfo",
          "syscall_pidfd_send_signal", "syscall_rt_sigpending", "rt_sigqueueinfo",
          "rt_tgsigqueueinfo", "pidfd_send_signal", "sig_kill"} |-> {"USR1"}]
  @@ [n \in {"signal_re_shared_pending"} |-> {"TERM"}]
  @@ [n \in {"signal_sigsuspend"} |-> {"ALRM"}]

(* A program that reports success has had its handler called, also when    *)
(* the signal was blocked for a while or another thread could take it.     *)
SuccessMeansHandled ==
  (proc["main"].status = "ok" /\ program \in DOMAIN Meant) => Meant[program] \subseteq caught

(* What the messages name, in order: the signals that are pending, or      *)
(* blocked, or were blocked before, or are to be, when they are printed.   *)
Labelled ==
  "syscall_sigpending" :> <<{"USR1", "USR2"}>>
  @@ "syscall_rt_sigpending" :> <<{"USR1"}>>
  @@ "signal_sigprocmask" :> <<{"USR1"}, {}>>
  @@ "syscall_rt_sigprocmask" :> <<{"INT"}, {}, {"INT"}, {}>>
  @@ "signal_re_shared_pending" :> <<{"TERM"}, {}>>

(* signal_sigprocmask.c:45 announces the signals blocked after SIG_UNBLOCK *)
(* and :46 prints the mask that call has replaced, with SIGUSR1 in it.     *)
Mislabelled == {<<"signal_sigprocmask", 2>>}

AsLabelled(k, printed) ==
  /\ \A i \in DOMAIN printed : printed[i].shows = printed[i].says <=> <<k, i>> \notin Mislabelled
  /\ IsPrefix([i \in DOMAIN printed |-> printed[i].says],
              IF k \in DOMAIN Labelled THEN Labelled[k] ELSE <<>>)

(* What is printed is what its message names at that moment, and the       *)
(* second message of signal_sigprocmask is the only one of which that is   *)
(* false.  In signal_re_shared_pending SIGTERM is pending after the two    *)
(* kills, whatever the thread has taken, and no more once the mask is      *)
(* restored; signal_sigprocmask prints the set it has passed for the mask, *)
(* which it is.                                                            *)
ReportsAsLabelled == AsLabelled(program, reports)

(* syscall_rt_sigtimedwait: the child signals a process that is not its    *)
(* parent only when the parent has given up or was interrupted, never when *)
(* the parent has taken the signal.                                        *)
StrayOnlyAfterTimeout ==
  stray => (program = "syscall_rt_sigtimedwait" /\ proc["main"].status # "ok")

(* syscall_time_create.c:72: the pending SIGUSR1 has used up the limit     *)
(* when the timer is created, so its creation fails.                       *)
LimitRefusesTimer ==
  program = "syscall_time_create" => "made" \notin proc["main"].armed

(* The fatal signals and the strays together: no signal of a program hits  *)
(* what it is not meant for, in any order of alarms, forks and timeouts.   *)
SignalsHitTarget == KilledOnlyAsMeant /\ StrayOnlyAfterTimeout

(* A program ends as its last message says only after what it is there     *)
(* for has happened: the handler has run, the limit has refused the timer. *)
PurposeMet == SuccessMeansHandled /\ LimitRefusesTimer

(* The wake-up of a program that waits once came before the wait.          *)
LostWakeUp ==
  /\ program \in {"syscall_signal_pause", "signal_sigsuspend"}
  /\ "ALRM" \in caught /\ task["main"].mode = "asleep"

(* The sender was refused; the receiver waits for good.                    *)
NobodySends == program = "signal_nopmn" /\ proc["main"].status \in {"failed", "INT"}

(* Thread 1 waits for the signal thread 2 has sent elsewhere.              *)
WrongThread == program = "signal_ptrace_nopermission" /\ task["third"].mode = "dead"

(* Every program ends, whatever the order of its alarms, timers, threads   *)
(* and signals, but for those three cases; run_all.sh waits for each.      *)
ProgramsEnd == <>[](Finished \/ LostWakeUp \/ NobodySends \/ WrongThread)
=============================================================================
