--------------------------- MODULE PerfFdHandoff ---------------------------
(***************************************************************************)
(* create_perf_event.c and the kernel module perf_ringbuffer_aux_op_fd.c.  *)
(* Each program opens a perf event, waits for /proc/perf_fd to appear,     *)
(* writes the number of its descriptor there and sleeps until it is        *)
(* killed.  The module's write handler runs in the writer: it keeps the    *)
(* event in a variable all writers share, and when perf_aux_output_begin   *)
(* fails it releases the event, which the descriptor still refers to.      *)
(*                                                                         *)
(* create_perf_event never maps a buffer, so perf_aux_output_begin always  *)
(* fails.                                                                  *)
(***************************************************************************)
EXTENDS Naturals

CONSTANTS Procs,      \* the programs
          MaxLoads    \* bound on the times the module is loaded

ASSUME LoadsAssumption == MaxLoads \in Nat \ {0}

VARIABLES
  prog,     \* where each program is
  perf,     \* the perf event behind its descriptor
  handler,  \* where the handler it runs is
  event,    \* the module's static variable: whose event, or {}
  mod,      \* the kernel module
  proc,     \* /proc/perf_fd exists
  loads,    \* how often the module has been loaded
  corrupt   \* an event has been used after its release

vars == <<prog, perf, handler, event, mod, proc, loads, corrupt>>

(* "served" and "sleep" are the same loop of sleep(1), after a write that   *)
(* the handler has served and after one that was refused.                  *)
ProgStates    == {"start", "poll", "fopen", "write", "served", "refused", "sleep", "exit", "dead"}
HandlerStates == {"idle", "store", "print", "begin", "release"}

TypeOK ==
  /\ prog \in [Procs -> ProgStates]
  /\ perf \in [Procs -> {"none", "live", "freed"}]
  /\ handler \in [Procs -> HandlerStates]
  /\ event \in {{}} \cup {{p} : p \in Procs}
  /\ mod \in {"absent", "live", "going"} /\ proc \in BOOLEAN
  /\ loads \in 0..MaxLoads /\ corrupt \in BOOLEAN

Init ==
  /\ prog = [p \in Procs |-> "start"]
  /\ perf = [p \in Procs |-> "none"]
  /\ handler = [p \in Procs |-> "idle"]
  /\ event = {} /\ mod = "absent" /\ proc = FALSE /\ loads = 0 /\ corrupt = FALSE

Goes(p, from, to) == prog[p] = from /\ prog' = [prog EXCEPT ![p] = to]

-----------------------------------------------------------------------------
(* create_perf_event.                                                      *)

Open(p) ==
  /\ \/ Goes(p, "start", "poll") /\ perf' = [perf EXCEPT ![p] = "live"]
     \/ Goes(p, "start", "dead") /\ UNCHANGED perf
  /\ UNCHANGED <<handler, event, mod, proc, loads, corrupt>>

SeesProc(p) ==
  /\ proc /\ Goes(p, "poll", "fopen")
  /\ UNCHANGED <<perf, handler, event, mod, proc, loads, corrupt>>

(* The file may have gone since access() saw it.                           *)
Fopen(p) ==
  /\ Goes(p, "fopen", IF proc THEN "write" ELSE "exit")
  /\ UNCHANGED <<perf, handler, event, mod, proc, loads, corrupt>>

(* fclose writes the descriptor.                                           *)
Write(p) ==
  /\ prog[p] = "write" /\ handler[p] = "idle"
  /\ handler' = [handler EXCEPT ![p] = "store"]
  /\ UNCHANGED <<prog, perf, event, mod, proc, loads, corrupt>>

(* The file it has opened was removed with the module, which may be back.  *)
WriteRefused(p) ==
  /\ Goes(p, "refused", "sleep")
  /\ UNCHANGED <<perf, handler, event, mod, proc, loads, corrupt>>

(* Somebody kills a program; the handler it is in is not interrupted.      *)
Kill(p) ==
  /\ prog[p] \in {"poll", "fopen", "write", "served", "refused", "sleep"} /\ handler[p] = "idle"
  /\ Goes(p, prog[p], "exit")
  /\ UNCHANGED <<perf, handler, event, mod, proc, loads, corrupt>>

(* close(fd), by the program or by its exit, releases the event.           *)
Close(p) ==
  /\ Goes(p, "exit", "dead")
  /\ perf' = [perf EXCEPT ![p] = "freed"]
  /\ corrupt' = (corrupt \/ perf[p] = "freed")
  /\ UNCHANGED <<handler, event, mod, proc, loads>>

-----------------------------------------------------------------------------
(* The write handler.                                                      *)

HandlerGoes(p, from, to) == handler[p] = from /\ handler' = [handler EXCEPT ![p] = to]

Uses(e) == corrupt' = (corrupt \/ \E q \in e : perf[q] = "freed")

(* event = evt, and the reference to the file is given back.               *)
Store(p) ==
  /\ HandlerGoes(p, "store", "print")
  /\ event' = {p}
  /\ UNCHANGED <<prog, perf, mod, proc, loads, corrupt>>

(* The message reads event->rb.                                            *)
PrintEvent(p) ==
  /\ HandlerGoes(p, "print", "begin")
  /\ Uses(event)
  /\ UNCHANGED <<prog, perf, event, mod, proc, loads>>

(* Mutant of BeginFails: the handler tries again.                          *)
BeginRetries(p) ==
  /\ HandlerGoes(p, "begin", "print")
  /\ Uses(event)
  /\ UNCHANGED <<prog, perf, event, mod, proc, loads>>

BeginFails(p) ==
  /\ HandlerGoes(p, "begin", "release")
  /\ Uses(event)
  /\ UNCHANGED <<prog, perf, event, mod, proc, loads>>

(* Mutant of ReleaseEvent: the handler looks at the event once more.       *)
ReleaseThenLook(p) ==
  /\ handler[p] = "release"
  /\ handler' = [handler EXCEPT ![p] = "idle"]
  /\ corrupt' = (corrupt \/ event # {})
  /\ perf' = [q \in Procs |-> IF q \in event THEN "freed" ELSE perf[q]]
  /\ prog' = [prog EXCEPT ![p] = "served"]
  /\ UNCHANGED <<event, mod, proc, loads>>

(* Mutant of ReleaseEvent: the handler returns before it has released.     *)
ReturnsEarly(p) ==
  /\ HandlerGoes(p, "release", "idle")
  /\ prog' = [prog EXCEPT ![p] = "served"]
  /\ UNCHANGED <<perf, event, mod, proc, loads, corrupt>>

ReleaseEvent(p) ==
  /\ HandlerGoes(p, "release", "idle")
  /\ Uses(event)
  /\ perf' = [q \in Procs |-> IF q \in event THEN "freed" ELSE perf[q]]
  /\ prog' = [prog EXCEPT ![p] = "served"]
  /\ UNCHANGED <<event, mod, proc, loads>>

-----------------------------------------------------------------------------
(* The module.                                                             *)

(* Mutant of Insmod: nobody counts.                                        *)
InsmodAgain ==
  /\ mod = "absent"
  /\ mod' = "live" /\ proc' \in BOOLEAN /\ event' = {} /\ loads' = loads + 1
  /\ UNCHANGED <<prog, perf, handler, corrupt>>

(* proc_create is not checked.                                             *)
Insmod ==
  /\ mod = "absent" /\ loads < MaxLoads
  /\ mod' = "live" /\ proc' \in BOOLEAN /\ event' = {} /\ loads' = loads + 1
  /\ UNCHANGED <<prog, perf, handler, corrupt>>

(* remove_proc_entry: no new writer gets in, whoever has the file open, ... *)
Rmmod ==
  /\ mod = "live"
  /\ mod' = "going" /\ proc' = FALSE
  /\ prog' = [p \in Procs |-> IF prog[p] = "write" /\ handler[p] = "idle"
                              THEN "refused" ELSE prog[p]]
  /\ UNCHANGED <<perf, handler, event, loads, corrupt>>

(* Mutant of RmmodReturns: it does not wait.                                *)
RmmodAtOnce ==
  /\ mod = "going"
  /\ mod' = "absent"
  /\ UNCHANGED <<prog, perf, handler, event, proc, loads, corrupt>>

(* ... and those inside leave before it returns.                           *)
RmmodReturns ==
  /\ mod = "going" /\ \A p \in Procs : handler[p] = "idle"
  /\ mod' = "absent"
  /\ UNCHANGED <<prog, perf, handler, event, proc, loads, corrupt>>

HandlerStep(p) == Store(p) \/ PrintEvent(p) \/ BeginFails(p) \/ ReleaseEvent(p)
ProgStep(p)    == Open(p) \/ SeesProc(p) \/ Fopen(p) \/ Write(p) \/ WriteRefused(p)
                  \/ Close(p) \/ HandlerStep(p)

Next == \/ \E p \in Procs : ProgStep(p) \/ Kill(p)
        \/ Insmod \/ Rmmod \/ RmmodReturns

Spec == Init /\ [][Next]_vars

(* The programs and rmmod are processes that run; nobody has to start      *)
(* either, or to kill a program.                                           *)
FairSpec == Spec /\ (\A p \in Procs : WF_vars(ProgStep(p))) /\ WF_vars(RmmodReturns)

-----------------------------------------------------------------------------
(* Properties.                                                             *)

(* rmmod does not return while a writer is in the module's code.           *)
HandlerRunsMapped == (\E p \in Procs : handler[p] # "idle") => mod # "absent"

(* One writer at a time does no harm until its descriptor is closed: a     *)
(* released event is used only by a close, or when two writers meet in the *)
(* shared variable.                                                        *)
DamageNeedsTwo ==
  corrupt => \/ \E p \in Procs : prog[p] = "dead"
             \/ \E p, q \in Procs : p # q /\ {prog[p], prog[q]} \subseteq {"write", "served", "exit"}

(* The handler has the shared variable still to use.                       *)
InUse(q) == handler[q] \in {"print", "begin", "release"}

(* A handler that fails releases the event it was given, or another's in   *)
(* its place: when a program's handler has returned and its event is still *)
(* live, then somebody's event has been used after its release, or it is   *)
(* about to be, by the handler of a program whose event was released under *)
(* it.  No order of the writers just loses an event.                       *)
SwappedNotForgotten ==
  \A p \in Procs :
    prog[p] = "served" /\ perf[p] = "live"
      => corrupt \/ \E q \in Procs \ {p} : InUse(q) /\ perf[q] = "freed"

(* A write comes to its end, whoever else writes and whenever the module   *)
(* is removed.                                                             *)
WritesEnd ==
  \A p \in Procs : prog[p] \in {"write", "refused"} ~> prog[p] \in {"served", "sleep", "exit"}

(* So does an rmmod, whoever is writing.                                   *)
RmmodEnds == mod = "going" ~> mod = "absent"

(* Neither side makes the other wait for ever.                             *)
NobodyWaitsForEver == WritesEnd /\ RmmodEnds
=============================================================================
