-------------------------- MODULE KthreadLifetime --------------------------
(***************************************************************************)
(* The kernel threads the test modules start, next to the insmod or rmmod  *)
(* that stops them.  ctest_task_join_stop and ko_perf_min_heap start the   *)
(* thread in init and stop it in exit; ko_perf_output_read_one does both   *)
(* in init; ctest_signal_exit_signals has a work item start one that       *)
(* nobody stops.                                                           *)
(*                                                                         *)
(* The thread belongs to the kernel: it looks at its stop flag before it   *)
(* calls the module's function at all, and once it has ended its           *)
(* task_struct is freed unless somebody holds a reference to it.           *)
(***************************************************************************)
EXTENDS Naturals

CONSTANTS Table,      \* for each module, how it uses its thread
          MaxLoads    \* bound on the times it is loaded

(***************************************************************************)
(* starter  "init", or "work" when a queued work item starts the thread.   *)
(* stopper  who calls kthread_stop: "init", "exit" or "none".              *)
(* body     "loop" until told to stop, "once" through the module's code,   *)
(*          "kernel" when the thread's function is the kernel's own.       *)
(***************************************************************************)
Use == [starter: {"init", "work"}, stopper: {"init", "exit", "none"},
        body: {"loop", "once", "kernel"}]

ASSUME UseAssumption   == \A k \in DOMAIN Table : Table[k] \in Use

(* A thread that nobody stops is one that a work item starts, and one that *)
(* runs no code of the module.                                             *)
ASSUME UnstoppedAssumption ==
  \A k \in DOMAIN Table :
     /\ Table[k].stopper = "none" <=> Table[k].starter = "work"
     /\ Table[k].stopper = "none" <=> Table[k].body = "kernel"
ASSUME LoadsAssumption == MaxLoads \in Nat \ {0}

VARIABLES
  ko,       \* the module
  loads,    \* how often it has been loaded
  loader,   \* where its init, or its exit, is
  work,     \* the work item
  thread,   \* the thread: "none", or where it is, or "freed"
  stop,     \* the thread's stop flag
  pinned,   \* kthread_stop holds a reference to the task_struct
  ran,      \* the thread has run its function to the end
  corrupt   \* a freed task_struct has been used

vars == <<ko, loads, loader, work, thread, stop, pinned, ran, corrupt>>

row == Table[ko]

LoaderStates == {"absent", "init", "stop_init", "wait_init", "finish", "live",
                 "exit", "wait_exit"}
WorkStates   == {"idle", "queued", "running"}
ThreadStates == {"none", "created", "running", "zombie", "freed"}

TypeOK ==
  /\ ko \in DOMAIN Table /\ loads \in 0..MaxLoads
  /\ loader \in LoaderStates /\ work \in WorkStates /\ thread \in ThreadStates
  /\ stop \in BOOLEAN /\ pinned \in BOOLEAN /\ ran \in BOOLEAN /\ corrupt \in BOOLEAN

Init ==
  /\ ko \in DOMAIN Table /\ loads = 0
  /\ loader = "absent" /\ work = "idle" /\ thread = "none"
  /\ stop = FALSE /\ pinned = FALSE /\ ran = FALSE /\ corrupt = FALSE

-----------------------------------------------------------------------------
(* insmod and rmmod.                                                       *)

(* Mutant of Insmod: nobody counts.                                        *)
InsmodAgain ==
  /\ loader = "absent"
  /\ loader' = "init" /\ loads' = loads + 1
  /\ UNCHANGED <<ko, work, thread, stop, pinned, ran, corrupt>>

Insmod ==
  /\ loader = "absent" /\ loads < MaxLoads
  /\ loader' = "init" /\ loads' = loads + 1
  /\ UNCHANGED <<ko, work, thread, stop, pinned, ran, corrupt>>

(* kthread_run succeeds.  A thread of an earlier load may still be about   *)
(* when nobody has stopped it; it runs no code of the module.              *)
NewThread == thread' = "created" /\ stop' = FALSE /\ ran' = FALSE

StartThread ==
  /\ loader = "init" /\ row.starter = "init"
  /\ NewThread
  /\ loader' = IF row.stopper = "init" THEN "stop_init" ELSE "live"
  /\ UNCHANGED <<ko, loads, work, pinned, corrupt>>

(* kthread_run or create_singlethread_workqueue fails and so does init.    *)
StartFails ==
  /\ loader = "init"
  /\ loader' = "absent"
  /\ UNCHANGED <<ko, loads, work, thread, stop, pinned, ran, corrupt>>

QueueWork ==
  /\ loader = "init" /\ row.starter = "work"
  /\ work' = "queued" /\ loader' = "live"
  /\ UNCHANGED <<ko, loads, thread, stop, pinned, ran, corrupt>>

Rmmod ==
  /\ loader = "live"
  /\ loader' = "exit"
  /\ UNCHANGED <<ko, loads, work, thread, stop, pinned, ran, corrupt>>

(* Mutant of CallStop: the flag is not set.                                *)
CallStopSilent(from, to) ==
  /\ loader = from
  /\ loader' = to
  /\ pinned' = (thread # "freed")
  /\ corrupt' = (corrupt \/ thread = "freed")
  /\ UNCHANGED <<ko, loads, work, thread, stop, ran>>

(* kthread_stop takes a reference through a pointer that may be stale.     *)
CallStop(from, to) ==
  /\ loader = from
  /\ loader' = to
  /\ stop' = TRUE
  /\ pinned' = (thread # "freed")
  /\ corrupt' = (corrupt \/ thread = "freed")
  /\ UNCHANGED <<ko, loads, work, thread, ran>>

StopInInit == CallStop("stop_init", "wait_init")
StopInExit == row.stopper = "exit" /\ CallStop("exit", "wait_exit")

(* It returns when the thread has ended, and drops the reference.          *)
StopReturns(from, to) ==
  /\ loader = from /\ thread \in {"zombie", "freed"}
  /\ loader' = to
  /\ thread' = "freed" /\ pinned' = FALSE
  /\ UNCHANGED <<ko, loads, work, stop, ran, corrupt>>

StopInInitReturns == StopReturns("wait_init", "finish")
StopInExitReturns == StopReturns("wait_exit", "absent")

InitReturns ==
  /\ loader = "finish"
  /\ loader' = "live"
  /\ UNCHANGED <<ko, loads, work, thread, stop, pinned, ran, corrupt>>

(* Mutant of Flush: exit does not wait.                                    *)
FlushNothing ==
  /\ loader = "exit" /\ row.stopper # "exit"
  /\ loader' = "absent"
  /\ UNCHANGED <<ko, loads, work, thread, stop, pinned, ran, corrupt>>

(* flush_workqueue, then destroy_workqueue: exit waits for the work item.  *)
Flush ==
  /\ loader = "exit" /\ row.stopper # "exit" /\ work = "idle"
  /\ loader' = "absent"
  /\ UNCHANGED <<ko, loads, work, thread, stop, pinned, ran, corrupt>>

-----------------------------------------------------------------------------
(* The worker and the thread.                                              *)

WorkStarts ==
  /\ work = "queued"
  /\ work' = "running"
  /\ UNCHANGED <<ko, loads, loader, thread, stop, pinned, ran, corrupt>>

WorkEnds ==
  /\ work = "running"
  /\ work' = "idle"
  /\ NewThread \/ UNCHANGED <<thread, stop, ran>>
  /\ UNCHANGED <<ko, loads, loader, pinned, corrupt>>

ThreadStarts ==
  /\ thread = "created" /\ ~stop
  /\ thread' = "running"
  /\ UNCHANGED <<ko, loads, loader, work, stop, pinned, ran, corrupt>>

Gone == thread' = IF pinned THEN "zombie" ELSE "freed"

(* A thread that is stopped before it first runs never calls its function. *)
ThreadNeverStarts ==
  /\ thread = "created" /\ stop
  /\ Gone
  /\ UNCHANGED <<ko, loads, loader, work, stop, pinned, ran, corrupt>>

(* Mutant of ThreadReturns: a loop that does not wait for its stop flag.   *)
ThreadReturnsEarly ==
  /\ thread = "running"
  /\ Gone /\ ran' = TRUE
  /\ UNCHANGED <<ko, loads, loader, work, stop, pinned, corrupt>>

ThreadReturns ==
  /\ thread = "running"
  /\ row.body = "loop" => stop
  /\ Gone /\ ran' = TRUE
  /\ UNCHANGED <<ko, loads, loader, work, stop, pinned, corrupt>>

Terminated ==
  /\ loader = "absent" /\ loads = MaxLoads
  /\ work = "idle" /\ thread \in {"none", "freed"}
  /\ UNCHANGED vars

LoaderStep == \/ StartThread \/ StartFails \/ QueueWork \/ StopInInit \/ StopInExit
              \/ StopInInitReturns \/ StopInExitReturns \/ InitReturns \/ Flush
WorkerStep == WorkStarts \/ WorkEnds
ThreadStep == ThreadStarts \/ ThreadNeverStarts \/ ThreadReturns

Next == Insmod \/ Rmmod \/ LoaderStep \/ WorkerStep \/ ThreadStep \/ Terminated

Spec == Init /\ [][Next]_vars

(* Each of the three is a task the kernel schedules; nobody has to type    *)
(* insmod or rmmod.                                                        *)
FairSpec == /\ Spec
            /\ WF_vars(LoaderStep) /\ WF_vars(WorkerStep) /\ WF_vars(ThreadStep)

-----------------------------------------------------------------------------
(* Properties.                                                             *)

(* No thread and no work item is in the module's code once the module is   *)
(* gone: exit returns only after both have ended.                          *)
RunsMappedCode ==
  loader = "absent" =>
    work = "idle" /\ (thread \in {"created", "running"} => row.body = "kernel")

(* kthread_stop comes too late only for a thread that ends by itself; one  *)
(* that loops until it is stopped is there when it is.                     *)
LateStopsAreOfOnceThreads == corrupt => row.body = "once"

(* insmod and rmmod return, unless kthread_stop was given a task_struct    *)
(* that had been freed.                                                    *)
LoaderReturns ==
  loader \in {"init", "exit"} ~> (loader \in {"live", "absent"} \/ corrupt)
=============================================================================
