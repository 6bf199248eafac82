----------------------- MODULE KthreadLifetimeProofs -----------------------
(***************************************************************************)
(* Proofs about KthreadLifetime for every table that meets its             *)
(* assumptions and any number of loads.                                    *)
(***************************************************************************)
EXTENDS KthreadLifetime, TLAPS

(***************************************************************************)
(* The strengthening.  Between two loads, and before init has started      *)
(* anything, nothing of the module runs; only a module with a work item    *)
(* ever has one; a loop thread that has ended has been told to stop, which *)
(* happens only from the call of kthread_stop on.                          *)
(***************************************************************************)
Active    == thread \in {"created", "running"}
BeforeRun == loader \in {"absent", "init"}
BeforeStop == loader \in {"live", "exit", "stop_init"}

IInv ==
  /\ TypeOK
  /\ work # "idle" => row.starter = "work" /\ ~BeforeRun
  /\ BeforeRun /\ Active => row.body = "kernel"
  /\ loader \in {"wait_exit"} => row.stopper = "exit"
  /\ loader \in {"stop_init", "wait_init", "finish"} => row.stopper = "init"
  /\ BeforeStop /\ row.body = "loop" /\ row.stopper # "init" => Active /\ ~stop
  /\ loader = "stop_init" /\ row.body = "loop" => Active /\ ~stop
  /\ loader \in {"live", "exit"} /\ row.stopper = "init" => ~Active
  /\ loader = "finish" => ~Active
  /\ corrupt => row.body = "once"

(* The types of a module's row.                                            *)
LEMMA RowUse ==
  ASSUME TypeOK
  PROVE  /\ row \in Use
         /\ row.stopper = "none" <=> row.starter = "work"
         /\ row.stopper = "none" <=> row.body = "kernel"
         /\ row.stopper \in {"init", "exit", "none"}
BY UseAssumption, UnstoppedAssumption DEF TypeOK, row, Use

(* kthread_stop finds the thread in place unless it ends by itself.        *)
LEMMA CallStopFinds ==
  ASSUME IInv, NEW from, NEW to, CallStop(from, to),
         \/ from = "stop_init" /\ to = "wait_init"
         \/ from = "exit" /\ to = "wait_exit" /\ row.stopper = "exit"
  PROVE  IInv'
<1>. USE DEF IInv, TypeOK
<1>1. row' = row
  BY DEF CallStop, row
<1>2. corrupt' \in BOOLEAN /\ pinned' \in BOOLEAN /\ stop' \in BOOLEAN
  BY Zenon DEF CallStop
<1>3. TypeOK'
  BY <1>2 DEF CallStop, LoaderStates
<1>4. corrupt' => row.body = "once"
  <2>1. CASE corrupt
    BY <2>1
  <2>2. CASE thread = "freed"
    <3>1. row.body # "loop"
      BY <2>2 DEF CallStop, BeforeStop, Active
    <3>2. row.body # "kernel"
      BY RowUse DEF CallStop
    <3>3. row.body \in {"loop", "once", "kernel"}
      BY RowUse DEF Use
    <3>. QED
      BY <3>1, <3>2, <3>3
  <2>. QED
    BY <2>1, <2>2 DEF CallStop
<1>5. work' # "idle" => row.starter = "work" /\ ~BeforeRun'
  BY DEF CallStop, BeforeRun
<1>. QED
  BY <1>1, <1>3, <1>4, <1>5 DEF CallStop, BeforeRun, BeforeStop

(* Every step keeps the invariant.                                         *)
LEMMA Inductive == IInv /\ [Next]_vars => IInv'
<1>. SUFFICES ASSUME IInv, [Next]_vars PROVE IInv'
  OBVIOUS
<1>. USE RowUse DEF IInv, TypeOK, BeforeRun, BeforeStop, Active, row,
         LoaderStates, WorkStates, ThreadStates
<1>1. CASE Insmod
  BY <1>1, LoadsAssumption DEF Insmod
<1>2. CASE Rmmod
  BY <1>2 DEF Rmmod
<1>3. CASE StartThread
  BY <1>3 DEF StartThread, NewThread
<1>4. CASE StartFails
  BY <1>4 DEF StartFails
<1>5. CASE QueueWork
  BY <1>5 DEF QueueWork
<1>6. CASE StopInInit
  BY <1>6, CallStopFinds DEF StopInInit
<1>7. CASE StopInExit
  BY <1>7, CallStopFinds DEF StopInExit
<1>8. CASE StopInInitReturns
  BY <1>8 DEF StopInInitReturns, StopReturns
<1>9. CASE StopInExitReturns
  BY <1>9 DEF StopInExitReturns, StopReturns
<1>10. CASE InitReturns
  BY <1>10 DEF InitReturns
<1>11. CASE Flush
  BY <1>11 DEF Flush
<1>12. CASE WorkStarts
  BY <1>12 DEF WorkStarts
<1>13. CASE WorkEnds
  BY <1>13 DEF WorkEnds, NewThread
<1>14. CASE ThreadStarts
  BY <1>14 DEF ThreadStarts
<1>15. CASE ThreadNeverStarts
  BY <1>15 DEF ThreadNeverStarts, Gone
<1>16. CASE ThreadReturns
  BY <1>16 DEF ThreadReturns, Gone
<1>17. CASE UNCHANGED vars
  BY <1>17 DEF vars
<1>. QED
  BY <1>1, <1>2, <1>3, <1>4, <1>5, <1>6, <1>7, <1>8, <1>9, <1>10, <1>11, <1>12,
     <1>13, <1>14, <1>15, <1>16, <1>17
     DEF Next, LoaderStep, WorkerStep, ThreadStep, Terminated

(* The strengthened invariant.                                             *)
THEOREM Strengthened == Spec => []IInv
<1>1. Init => IInv
  <2>1. Init => stop \in BOOLEAN /\ pinned \in BOOLEAN /\ ran \in BOOLEAN
                  /\ corrupt \in BOOLEAN /\ ~corrupt
    BY Zenon DEF Init
  <2>. QED
    BY <2>1, LoadsAssumption
       DEF Init, IInv, TypeOK, LoaderStates, WorkStates, ThreadStates, BeforeRun,
           BeforeStop, Active
<1>. QED
  BY <1>1, Inductive, PTL DEF Spec

(* Type correctness, for any table.                                        *)
THEOREM TypeCorrect == Spec => []TypeOK
<1>1. IInv => TypeOK
  BY DEF IInv
<1>. QED
  BY <1>1, Strengthened, PTL

(* No thread and no work item is in the code of a module that is gone.     *)
THEOREM MappedCode == Spec => []RunsMappedCode
<1>1. IInv => RunsMappedCode
  BY DEF IInv, RunsMappedCode, BeforeRun, Active
<1>. QED
  BY <1>1, Strengthened, PTL

(* kthread_stop comes too late only for threads that end by themselves.    *)
THEOREM LateStops == Spec => []LateStopsAreOfOnceThreads
<1>1. IInv => LateStopsAreOfOnceThreads
  BY DEF IInv, LateStopsAreOfOnceThreads
<1>. QED
  BY <1>1, Strengthened, PTL
=============================================================================
