--------------------------- MODULE PtracePrograms ---------------------------
(***************************************************************************)
(* The programs of PerfEvents_Test that trace, stop or freeze a child of   *)
(* their own.  Each is a row: the calls of the parent after its fork, and  *)
(* those of the child.  A sleep orders nothing: child and parent go on in  *)
(* any order.  The child runs a command at last (run), and that ends.      *)
(***************************************************************************)
EXTENDS Sequences, Naturals

Call(op)       == [op |-> op, arg |-> ""]
Kill(sig)      == [op |-> "kill", arg |-> sig]
Say(claim)     == [op |-> "say", arg |-> claim]
SayStopped(claim) == [op |-> "say-if-stopped", arg |-> claim]   \* if (WIFSTOPPED(status))
SayExited(claim)  == [op |-> "say-if-exited", arg |-> claim]    \* if (WIFEXITED(status))
Wait           == Call("wait")        \* waitpid, or handle_error
WaitStop       == Call("wait-stop")   \* wait_for_signal
Look           == Call("look")        \* waitpid, whatever it returns
Row(parent, child) == [parent |-> parent, child |-> child]
Command        == <<Call("exec"), Call("run")>>

signal_ptrace_exit == Row(
  <<Call("seize"), Call("ptrace-kill"), Wait, Say("gone"), Call("pause")>>, Command)

signal_get_sig == Row(<<Call("seize"), Kill("USR1"), Wait, Say("runs")>>, Command)

(* What follows the pause is never reached.                                *)
signal_ptrace_set == Row(
  <<Call("seize"), Kill("STOP"), WaitStop, Say("in-EVENT"), Kill("CONT"), Wait, Say("runs"),
    Call("pause"), Kill("KILL"), Wait, Say("gone")>>, Command)

signal_ptrace_stop_and_notify == Row(
  <<Call("seize"), Call("interrupt"), WaitStop, Say("in-EVENT"), Kill("CONT"), Kill("INT"),
    Say("runs")>>, Command)

traced_child == <<Call("traceme"), Call("raise-stop")>> \o Command

signal_ptrace_stop == Row(
  <<Look, SayStopped("in-STOP"), Call("cont"), Call("kill-stop"), Look,
    SayStopped("in-STOP"), Call("cont"), Look, SayStopped("in-STOP"),
    Call("cont"), Look, SayExited("gone")>>, traced_child)

(* A second thread of the child ends when its first one calls exec.        *)
signal_thread_exit == Row(
  <<Look, Say("gone")>>, <<Call("traceme"), Call("thread")>> \o Command)

signal_ptrace_set_freeze == Row(
  <<Call("add"), Call("freeze"), Say("frozen"), Call("thaw"), Call("rmdir")>>, Command)

Programs ==
  [signal_ptrace_exit |-> signal_ptrace_exit, signal_get_sig |-> signal_get_sig,
   signal_ptrace_set |-> signal_ptrace_set,
   signal_ptrace_stop_and_notify |-> signal_ptrace_stop_and_notify,
   signal_ptrace_stop |-> signal_ptrace_stop, signal_thread_exit |-> signal_thread_exit,
   signal_ptrace_set_freeze |-> signal_ptrace_set_freeze]

-----------------------------------------------------------------------------

(* my_freezer may be there and frozen, from an earlier run that ^C ended.  *)
VARIABLES
  prog,     \* the program
  parent,   \* [state, pc, status]: where main is, what waitpid has told it
  child,    \* [state, pc, traced, why, told, pend, in]
  group,    \* my_freezer: [dir, frozen]
  strays    \* signals sent to a process that is not the child

vars == <<prog, parent, child, group, strays>>

Signals == {"USR1", "STOP", "TRAP", "INT", "EVENT"}
Catches == prog \notin {"signal_ptrace_stop", "signal_thread_exit"}   \* signal(SIGINT, ...)

TypeOK ==
  /\ prog \in DOMAIN Programs
  /\ parent.state \in {"fork", "runs", "done", "failed", "interrupted"}
  /\ parent.pc \in 1 .. Len(Programs[prog].parent) + 1
  /\ parent.status \in {"unset", "stopped", "exited"}
  /\ child.state \in {"none", "runs", "stopped", "zombie", "reaped"}
  /\ child.pc \in 1 .. Len(Programs[prog].child)
  /\ child.traced \in BOOLEAN /\ child.told \in BOOLEAN /\ child.in \in BOOLEAN
  /\ child.why \in Signals \cup {"none"} /\ child.pend \subseteq Signals
  /\ (child.state = "stopped") = (child.why # "none")
  /\ group.dir \in BOOLEAN /\ group.frozen \in BOOLEAN
  /\ strays \subseteq {"all", "reaped"}

Init ==
  /\ prog \in DOMAIN Programs
  /\ parent = [state |-> "fork", pc |-> 1, status |-> "unset"]
  /\ child = [state |-> "none", pc |-> 1, traced |-> FALSE, why |-> "none", told |-> FALSE,
              pend |-> {}, in |-> FALSE]
  /\ group \in [dir : BOOLEAN, frozen : BOOLEAN]
  /\ group.frozen => group.dir
  /\ group.dir => prog = "signal_ptrace_set_freeze"
  /\ strays = {}

-----------------------------------------------------------------------------
(* The child, and what a signal does to it.                                *)

Alive == child.state \in {"runs", "stopped"}
Dead  == [child EXCEPT !.state = IF Alive THEN "zombie" ELSE @, !.why = "none", !.pend = {}]
Can   == child.state = "runs" /\ ~(child.in /\ group.frozen)
At(op) == Programs[prog].child[child.pc].op = op

(* SIGCONT does not resume a tracee in a tracing stop, but takes back a    *)
(* SIGSTOP that is pending; SIGKILL ends it in any state.                  *)
Sent(sig) ==
  IF ~Alive THEN child
  ELSE IF sig = "KILL" THEN Dead
  ELSE IF sig = "CONT" THEN [child EXCEPT !.pend = @ \ {"STOP"}]
  ELSE [child EXCEPT !.pend = @ \cup {sig}]

(* Mutant of TakeSignal: the stop is not reported to the parent.           *)
TakeUnreported ==
  /\ Can /\ \E s \in child.pend :
       child' = IF child.traced \/ s = "STOP"
                THEN [child EXCEPT !.state = "stopped", !.why = s, !.told = TRUE,
                                   !.pend = @ \ {s}]
                ELSE Dead
  /\ UNCHANGED <<prog, parent, group, strays>>

(* A tracee stops for every signal it is about to take, SIGTRAP before     *)
(* others; without a tracer SIGUSR1, SIGTRAP and SIGINT end it.            *)
TakeSignal ==
  /\ Can /\ \E s \in child.pend :
       /\ "TRAP" \in child.pend => s = "TRAP"
       /\ child' = IF child.traced \/ s = "STOP"
                   THEN [child EXCEPT !.state = "stopped", !.why = s, !.told = FALSE,
                                      !.pend = @ \ {s}]
                   ELSE Dead
  /\ UNCHANGED <<prog, parent, group, strays>>

ChildSteps ==
  /\ Can /\ child.pend = {}
  /\ \/ At("traceme") /\ child' = [child EXCEPT !.pc = @ + 1, !.traced = TRUE]
     \/ At("raise-stop") /\ child' = [child EXCEPT !.pc = @ + 1, !.pend = {"STOP"}]
     \/ /\ At("thread")
        /\ child' \in {[child EXCEPT !.pc = @ + 1], Dead}
     \/ /\ At("exec")    \* SIGTRAP for the tracer, if the child asked to be traced
        /\ child' = [child EXCEPT !.pc = @ + 1,
                                  !.pend = IF Programs[prog].child[1].op = "traceme" /\ child.traced
                                           THEN {"TRAP"} ELSE {}]
     \/ At("run") /\ child' = Dead
  /\ UNCHANGED <<prog, parent, group, strays>>

-----------------------------------------------------------------------------
(* The parent.                                                             *)

P(op) == /\ parent.state = "runs" /\ parent.pc <= Len(Programs[prog].parent)
         /\ Programs[prog].parent[parent.pc].op = op
Arg   == Programs[prog].parent[parent.pc].arg
Past  == [parent EXCEPT !.pc = @ + 1]
Forked == child.state # "none"

(* Mutant of Detached: the tracee stays stopped.                           *)
DetachedStays(c) == [c EXCEPT !.traced = FALSE]

(* When the tracer ends, the tracee goes on; a stop that nobody has waited *)
(* for takes its signal after all.                                         *)
Detached(c) ==
  IF c.state # "stopped" \/ ~c.traced THEN [c EXCEPT !.traced = FALSE]
  ELSE [c EXCEPT !.traced = FALSE, !.state = "runs", !.why = "none",
                 !.pend = @ \cup (IF c.told \/ c.why = "EVENT" THEN {} ELSE {c.why})]

Ends(state, c) ==
  /\ parent' = [parent EXCEPT !.state = state]
  /\ child' = Detached(c)

(* child_pid > 0 even after the child has been waited for.                 *)
KilledChild == IF Forked THEN Sent("KILL") ELSE child
StrayKill   == IF child.state = "reaped" THEN {"reaped"} ELSE {}

Fork ==
  /\ parent.state = "fork" /\ parent' = [parent EXCEPT !.state = "runs"]
  /\ child' \in {child, [child EXCEPT !.state = "runs"]}
  /\ UNCHANGED <<prog, group, strays>>

(* Mutant of HandleError: child_pid is not looked at.                      *)
HandleErrorAll ==
  /\ Ends("failed", KilledChild)
  /\ strays' = strays \cup StrayKill \cup (IF Forked THEN {} ELSE {"all"})
  /\ UNCHANGED <<prog, group>>

HandleError ==
  /\ Ends("failed", KilledChild) /\ strays' = strays \cup StrayKill
  /\ UNCHANGED <<prog, group>>

Seize ==
  /\ P("seize")
  /\ IF Alive
     THEN /\ parent' = Past /\ child' = [child EXCEPT !.traced = TRUE]
          /\ UNCHANGED <<prog, group, strays>>
     ELSE HandleError

(* PTRACE_KILL of a tracee that is not stopped does nothing on an older    *)
(* kernel.  Both requests succeed as long as the tracee is not reaped.     *)
Request ==
  /\ \/ P("ptrace-kill") /\ child' \in {child, Dead}
     \/ P("interrupt") /\ child' = Sent("EVENT")
  /\ parent' = Past /\ UNCHANGED <<prog, group, strays>>

KillChild ==
  /\ P("kill")
  /\ IF Alive \/ child.state = "zombie"
     THEN parent' = Past /\ child' = Sent(Arg) /\ UNCHANGED <<prog, group, strays>>
     ELSE HandleError

(* signal_ptrace_stop looks at no result: kill(-1, SIGSTOP) when the fork  *)
(* has failed stops every process there is.                                *)
KillUnchecked ==
  /\ P("kill-stop") /\ parent' = Past
  /\ child' = Sent("STOP") /\ strays' = strays \cup (IF Forked THEN {} ELSE {"all"})
  /\ UNCHANGED <<prog, group>>

(* Mutant of Continue: the reason of the stop is kept.                     *)
ContinueKeepsWhy ==
  /\ P("cont") /\ parent' = Past
  /\ child' = IF child.state = "stopped" THEN [child EXCEPT !.state = "runs"] ELSE child
  /\ UNCHANGED <<prog, group, strays>>

Continue ==
  /\ P("cont") /\ parent' = Past
  /\ child' = IF child.state = "stopped" THEN [child EXCEPT !.state = "runs", !.why = "none"]
              ELSE child
  /\ UNCHANGED <<prog, group, strays>>

(* Mutant of WaitReturns: wait_for_signal takes any news of the child.     *)
WaitReturnsOnce ==
  /\ P("wait") \/ P("wait-stop") \/ P("look")
  /\ \/ /\ child.state = "stopped" /\ ~child.told
        /\ parent' = [Past EXCEPT !.status = "stopped"] /\ child' = [child EXCEPT !.told = TRUE]
     \/ /\ child.state = "zombie" /\ child' = [child EXCEPT !.state = "reaped"]
        /\ parent' = [Past EXCEPT !.status = "exited"]
  /\ UNCHANGED <<prog, group, strays>>

WaitReturns ==
  /\ P("wait") \/ P("wait-stop") \/ P("look")
  /\ \/ /\ child.state = "stopped" /\ ~child.told
        /\ parent' = [Past EXCEPT !.status = "stopped"] /\ child' = [child EXCEPT !.told = TRUE]
     \/ /\ child.state = "zombie" /\ child' = [child EXCEPT !.state = "reaped"]
        /\ parent' = [(IF P("wait-stop") THEN parent ELSE Past) EXCEPT !.status = "exited"]
  /\ UNCHANGED <<prog, group, strays>>

WaitFails ==
  /\ child.state \in {"none", "reaped"}
  /\ \/ (P("wait") \/ P("wait-stop")) /\ HandleError
     \/ P("look") /\ parent' = Past /\ UNCHANGED <<prog, child, group, strays>>

Speak ==
  /\ P("say") \/ P("say-if-stopped") \/ P("say-if-exited")
  /\ parent' = Past /\ UNCHANGED <<prog, child, group, strays>>

(* The files of my_freezer are opened; what is written is not checked.     *)
Freezer ==
  /\ group.dir
  /\ \/ /\ P("add") /\ child' = [child EXCEPT !.in = Alive] /\ UNCHANGED group
     \/ /\ P("freeze") /\ group' = [group EXCEPT !.frozen = TRUE] /\ UNCHANGED child
     \/ /\ P("thaw") /\ group' = [group EXCEPT !.frozen = FALSE] /\ UNCHANGED child
  /\ parent' = Past /\ UNCHANGED <<prog, strays>>

FreezerFails == /\ P("add") \/ P("freeze") \/ P("thaw")
                /\ HandleError

RemoveFreezer ==
  /\ P("rmdir") /\ parent' = Past
  /\ group' = [group EXCEPT !.dir = child.in /\ Alive, !.frozen = @ /\ child.in /\ Alive]
  /\ UNCHANGED <<prog, child, strays>>

Return ==
  /\ parent.state = "runs" /\ parent.pc > Len(Programs[prog].parent)
  /\ Ends("done", child) /\ UNCHANGED <<prog, group, strays>>

(* SIGINT at any moment after the fork, also while the parent waits or     *)
(* pauses.  From the terminal it reaches the child as well.                *)
Struck == {child, Sent("INT")}

(* sigint_handler; child_pid is -1 until fork has returned.  A child that  *)
(* is killed need not be asked what SIGINT does to it.                     *)
Interrupt ==
  /\ Catches /\ parent.state = "runs"
  /\ \/ Ends("interrupted", KilledChild) /\ strays' = strays \cup StrayKill
     \/ /\ parent.pc = 1 /\ \E c \in Struck : Ends("interrupted", c)
        /\ UNCHANGED strays
  /\ UNCHANGED <<prog, group>>

(* Where nobody catches it, SIGINT ends the parent, and nobody kills the   *)
(* child, stopped or not.                                                  *)
InterruptUncaught ==
  /\ ~Catches /\ parent.state = "runs"
  /\ \E c \in Struck : Ends("interrupted", c)
  /\ UNCHANGED <<prog, group, strays>>

ParentStep ==
  \/ Fork \/ Seize \/ Request \/ KillChild \/ KillUnchecked \/ Continue \/ WaitReturns
  \/ WaitFails \/ Speak \/ Freezer \/ FreezerFails \/ RemoveFreezer \/ Return
ChildStep == TakeSignal \/ ChildSteps

Next == ParentStep \/ ChildStep \/ Interrupt \/ InterruptUncaught

(* Both processes run; nobody has to type ^C.                              *)
Fairness == WF_vars(ParentStep) /\ WF_vars(ChildStep)

Spec == Init /\ [][Next]_vars /\ Fairness

-----------------------------------------------------------------------------
(* Properties.                                                             *)

ParentGone == parent.state \in {"done", "failed", "interrupted"}

True(claim) ==
  CASE claim = "gone"     -> ~Alive
    [] claim = "runs"     -> child.state = "runs"
    [] claim = "frozen"   -> Alive => child.in /\ group.frozen
    [] claim = "in-STOP"  -> child.why = "STOP"
    [] claim = "in-EVENT" -> child.why = "EVENT"

(* What the programs print of the child, and what it is not: stopped by    *)
(* exec or SIGSTOP and not as they say, stopped and not running, stopped   *)
(* and not terminated.                                                     *)
Untrue ==
  {<<"signal_ptrace_stop", "in-STOP">>, <<"signal_ptrace_set", "in-EVENT">>,
   <<"signal_get_sig", "runs">>, <<"signal_ptrace_stop_and_notify", "runs">>,
   <<"signal_thread_exit", "gone">>}

(* Every other message is true when it is printed, unless there was no     *)
(* child to begin with.                                                    *)
MessagesAreTrue ==
  (/\ Forked
   /\ \/ P("say")
      \/ P("say-if-stopped") /\ parent.status = "stopped"
      \/ P("say-if-exited") /\ parent.status = "exited")
  => True(Arg) \/ <<prog, Arg>> \in Untrue

(* A signal to every process is sent by signal_ptrace_stop alone, and only *)
(* when its fork has failed: the others look at child_pid (handle_error)   *)
(* or end before they come to a kill.                                      *)
BroadcastOnlyUnforked ==
  "all" \in strays => prog = "signal_ptrace_stop" /\ ~Forked

(* child_pid is signalled after it was waited for, when it may be another  *)
(* process, only by ^C, or by the handle_error of a program whose child    *)
(* has ended before it was stopped.                                        *)
StaleOnlyAfterEnd ==
  "reaped" \in strays =>
    \/ parent.state = "interrupted"
    \/ parent.state = "failed" /\ Programs[prog].parent[parent.pc].op = "wait-stop"

(* signal_ptrace_stop and signal_ptrace_exit have waited for the end of    *)
(* the child when they end or pause, in whichever order its exec and the   *)
(* second SIGSTOP come.                                                    *)
ReapedAtEnd ==
  (Forked /\ (P("pause") \/ parent.state = "done")
   /\ prog \in {"signal_ptrace_stop", "signal_ptrace_exit"}) => child.state = "reaped"

(* The signals a parent sends reach its own child, and it has seen what    *)
(* they did before it leaves.                                              *)
SignalsReachChild == BroadcastOnlyUnforked /\ StaleOnlyAfterEnd /\ ReapedAtEnd

(* A parent that does not catch SIGINT has left a child that was about to  *)
(* stop itself: by its SIGSTOP, or, traced by whoever has inherited it, by *)
(* the SIGTRAP of exec.                                                    *)
LeftStopped ==
  /\ ~Catches /\ parent.state = "interrupted"
  /\ child.state = "stopped" /\ child.why \in {"STOP", "TRAP"}

(* When the parent is gone, the child ends: no error path and no ^C leaves *)
(* it stopped, or in a frozen cgroup, where no signal reaches it, but for  *)
(* a ^C in signal_ptrace_stop and signal_thread_exit, which do not catch   *)
(* it.                                                                     *)
ChildGoesToo == ParentGone ~> (~Alive \/ LeftStopped)

(* The parent ends, but for signal_ptrace_exit, which pauses for good, and *)
(* signal_ptrace_set, which waits for a child that SIGCONT has not         *)
(* resumed.                                                                *)
Stuck ==
  \/ prog = "signal_ptrace_exit" /\ P("pause")
  \/ prog = "signal_ptrace_set" /\ P("wait") /\ child.state = "stopped" /\ child.told
ParentEnds == <>[](ParentGone \/ Stuck)
=============================================================================
