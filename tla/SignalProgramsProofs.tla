------------------------ MODULE SignalProgramsProofs ------------------------
(***************************************************************************)
(* Theorems about SignalPrograms: from the checks of SignalSource follow   *)
(* the properties of the run.                                              *)
(***************************************************************************)
EXTENDS SignalSource, TLAPS

TaskType == [pc: Nat \ {0}, mode: {"absent", "ready", "asleep", "dead"},
             mask: SUBSET Signals, old: SUBSET Signals, pend: SUBSET Signals]
Statuses == {"absent", "run", "ok", "failed", "SEGV"} \cup Signals
Timers   == {"made", "ALRM", "RTMIN"}
ProcType == [status: Statuses, disp: [Signals -> Handlers], shared: SUBSET Signals,
             armed: SUBSET Timers, ticks: 0..Ticks,
             real: {"root", "plain"}, eff: {"root", "plain", "nobody"}]

Typed ==
  /\ program \in DOMAIN SignalPrograms
  /\ task \in [Tasks -> TaskType] /\ \A t \in Tasks : task[t].pc <= Len(Row[t]) + 1
  /\ proc \in [Procs -> ProcType]
  /\ caught \subseteq Signals /\ reports \in Seq(Reports)
  /\ interrupted \in BOOLEAN /\ stray \in BOOLEAN

O          == Outline(program)[task["main"].pc]
Running    == proc["main"].status = "run"
Threads    == Kind(program) = "threads"
Present(t) == task[t].mode # "absent"
Sleepers   == {"peer", "third"}

(* Tasks of a process that has ended are dead.                             *)
Live ==
  \A t \in Tasks :
    /\ task[t].mode \in {"ready", "asleep"} => proc[Proc(t)].status = "run"
    /\ task[t].mode = "asleep" => ~ Ended(t) /\ At(t).op \in Waiting
    /\ task[t].mode = "absent" => task[t].pc = 1

(* Main is where the outline says, and has printed and caught what it says. *)
Follows ==
  /\ task["main"].mask = O.mask /\ task["main"].old = O.old /\ proc["main"].disp = O.disp
  /\ reports = O.shown /\ O.sure \subseteq caught

(* What is pending is expected, what was sent is there or caught.          *)
Comes ==
  Running =>
    /\ Pending("main") \subseteq O.due \cup O.late
    /\ O.sent \subseteq caught \cup Pending("main")
    /\ O.held \subseteq IF Threads THEN task["main"].pend ELSE Pending("main")
    /\ proc["main"].armed \subseteq {"made"} \cup O.late

(* What the other tasks and the other process can do.                      *)
Others ==
  /\ \A t \in {"peer", "third"} :
       /\ task[t].pend = {}
       /\ Present(t) => t \in O.started \/ (t = "peer" /\ Kind(program) = "started")
       /\ Present(t) => Kind(program) # "alone" /\ (t = "third" => Threads)
  /\ proc["peer"].shared \subseteq {"INT"} \cup PeerSigs(program) /\ proc["peer"].armed = {}
  /\ Kind(program) = "fork" /\ Present("peer") => Foreign(program) \subseteq O.late
  /\ \A s \in Signals : /\ proc["peer"].disp[s] # "resend"
                        /\ proc["main"].disp[s] = "resend" => Kind(program) = "alone"
                        /\ Threads => proc["main"].disp[s] \in {"default", "note"}

(* The parent does not get past its sigtimedwait before the child has sent *)
(* its signal.                                                             *)
Sends  == \E j \in DOMAIN Row.peer : Row.peer[j].op = "kill"
Waited == \E w \in DOMAIN Code(program) : w < task["main"].pc /\ Code(program)[w].op = "sigwait"
Answer ==
  /\ \A j \in DOMAIN Row.peer : Row.peer[j].op = "kill" =>
       /\ Running /\ Pending("main") \cap Foreign(program) # {} => task["peer"].pc > j
       /\ Waited => task["peer"].pc > j
       /\ proc["main"].status = "ok" => Waited
  /\ stray => Sends /\ proc["main"].status \notin {"run", "ok"}

Goals == KilledOnlyAsMeant /\ SuccessMeansHandled /\ LimitRefusesTimer

IInv == Typed /\ Live /\ Follows /\ Comes /\ Others /\ Answer /\ Goals

-----------------------------------------------------------------------------
(* Rows.                                                                   *)

(* Where a task is, and the row it is in.                                  *)
LEMMA RowFacts ==
  ASSUME Typed, NEW t \in Tasks
  PROVE  /\ Row = SignalPrograms[program] /\ Row["main"] = Code(program) /\ Row.main = Code(program)
         /\ Row.kind = Kind(program)
         /\ Len(Row[t]) \in Nat /\ Len(Row[t]) <= 12 /\ DOMAIN Row[t] = 1..Len(Row[t])
         /\ task[t].pc \in Nat \ {0}
         /\ ~ Ended(t) => task[t].pc \in DOMAIN Row[t]
<1>1. program \in DOMAIN SignalPrograms /\ task[t] \in TaskType
  BY DEF Typed
<1>2. /\ Row[t] \in Seq({Row[t][i] : i \in DOMAIN Row[t]}) /\ Len(Row[t]) <= 12
  BY <1>1, CallsAssumption DEF Row
<1>3. Len(Row[t]) \in Nat /\ DOMAIN Row[t] = 1..Len(Row[t])
  <2> DEFINE c == Row[t]
  <2>1. c \in Seq({c[i] : i \in DOMAIN c})
    BY <1>2
  <2>. HIDE DEF c
  <2>2. Len(c) \in Nat /\ DOMAIN c = 1..Len(c)
    BY <2>1
  <2>. QED
    BY <2>2 DEF c
<1>4. task[t].pc \in Nat \ {0} /\ (~ Ended(t) => task[t].pc \in DOMAIN Row[t])
  BY <1>1, <1>3 DEF TaskType, Ended
<1>. QED
  BY <1>1, <1>2, <1>3, <1>4 DEF Row, Code, Kind

(* The call a task is at is one its row may have.                          *)
LEMMA CallFacts ==
  ASSUME Typed, NEW t \in Tasks, ~ Ended(t)
  PROVE  /\ At(t) = Row[t][task[t].pc] /\ At(t).sigs \subseteq Signals
         /\ At(t).op \in IF t = "main" THEN MainOps ELSE PeerOps
         /\ At(t).op = "on" => At(t).arg \in Handlers
         /\ At(t).op \in Waiting /\ At(t).arg = "back" => task[t].pc > 1
         /\ task[t].pc + 1 <= Len(Row[t]) + 1
<1>1. task[t].pc \in DOMAIN Row[t] /\ program \in DOMAIN SignalPrograms
  BY RowFacts DEF Typed
<1>2. At(t) = SignalPrograms[program][t][task[t].pc]
  BY DEF At, Row
<1>3. task[t].pc \in DOMAIN SignalPrograms[program][t]
  BY <1>1 DEF Row
<1>4. /\ At(t).sigs \subseteq Signals
      /\ At(t).op \in IF t = "main" THEN MainOps ELSE PeerOps
      /\ At(t).op = "on" => At(t).arg \in Handlers
      /\ At(t).op \in Waiting /\ At(t).arg = "back" => task[t].pc > 1
  <2> DEFINE c == SignalPrograms[program][t]
  <2>1. \A i \in DOMAIN c :
          /\ c[i].sigs \subseteq Signals
          /\ c[i].op \in IF t = "main" THEN MainOps ELSE PeerOps
          /\ c[i].op = "on" => c[i].arg \in Handlers
          /\ c[i].op \in Waiting /\ c[i].arg = "back" => i > 1
    BY <1>1, CallsAssumption
  <2>. HIDE DEF c
  <2>2. task[t].pc \in DOMAIN c /\ At(t) = c[task[t].pc]
    BY <1>2, <1>3 DEF c
  <2>. QED
    BY <2>1, <2>2
<1>5. task[t].pc + 1 <= Len(Row[t]) + 1
  BY RowFacts
<1>. QED
  BY <1>2, <1>4, <1>5 DEF At

LEMMA MainCall ==
  ASSUME Typed, ~ Ended("main")
  PROVE  LET c == At("main") IN
         /\ c = Code(program)[task["main"].pc] /\ task["main"].pc \in DOMAIN Code(program)
         /\ c.op \in MainOps
         /\ c.op = "arm" => c.sigs \subseteq {"ALRM", "RTMIN"}
         /\ c.op = "join" => c.arg \in Tasks
         /\ c.op = "check" => task["main"].pc < Len(Code(program))
         /\ c.op \in Waiting /\ c.arg = "back" => task["main"].pc > 1
         /\ c.op = "kill" => c.arg \in {"process", "thread", "peer"}
         /\ c.refused = "on" => c.op \in {"start", "pause", "suspend", "sigwait"}
         /\ c.op = "start" => /\ c.arg \in Sleepers \ O.started
                              /\ Kind(program) \in {"threads", "fork"}
                              /\ Kind(program) = "fork" => c.arg = "peer"
<1>1. program \in DOMAIN SignalPrograms /\ "main" \in Tasks
  BY DEF Typed, Tasks
<1>2. task["main"].pc \in DOMAIN Code(program) /\ At("main") = Code(program)[task["main"].pc]
  <2>1. Row["main"] = Code(program) /\ task["main"].pc \in DOMAIN Row["main"]
    BY <1>1, RowFacts
  <2>. QED
    BY <2>1 DEF At
<1>3. /\ At("main").op \in MainOps
      /\ At("main").op \in Waiting /\ At("main").arg = "back" => task["main"].pc > 1
  BY <1>1, CallFacts
<1>. QED
  BY <1>1, <1>2, <1>3, CallsAssumption DEF O, Sleepers

(* The outline after a call is what the call makes of the one before it.   *)
LEMMA OutlineNext ==
  ASSUME Typed, ~ Ended("main"), program' = program,
         \/ task'["main"].pc = task["main"].pc + 1
         \/ At("main").op = "check" /\ task'["main"].pc = task["main"].pc + 2
  PROVE  O' = After(program, O, At("main"))
<1>1. /\ task["main"].pc \in DOMAIN Code(program) /\ At("main") = Code(program)[task["main"].pc]
      /\ program \in DOMAIN SignalPrograms
  BY MainCall DEF Typed
<1>2. Outline(program)[task["main"].pc + 1] = After(program, O, At("main"))
  <2>1. \A i \in DOMAIN Code(program) :
          Outline(program)[i + 1] = After(program, Outline(program)[i], Code(program)[i])
    BY <1>1, OutlineAssumption
  <2>. QED
    BY <1>1, <2>1 DEF O
<1>3. At("main").op = "check" =>
        Outline(program)[task["main"].pc + 2] = Outline(program)[task["main"].pc + 1]
  <2>1. \A i \in DOMAIN Code(program) : Code(program)[i].op = "check" =>
          Outline(program)[i + 2] = Outline(program)[i + 1]
    BY <1>1, OutlineAssumption
  <2>. QED
    BY <1>1, <2>1
<1>. QED
  BY <1>2, <1>3 DEF O

(* Nothing that may come is forgotten, nobody who has been started.        *)
LEMMA AfterGrows ==
  ASSUME NEW k, NEW o, NEW c
  PROVE  o.late \subseteq After(k, o, c).late /\ o.started \subseteq After(k, o, c).started
  BY DEF After, LateAfter
-----------------------------------------------------------------------------
(* What the pieces of the actions do to the tasks and the processes.       *)

(* Task t goes to another place; the other tasks stay.                     *)
Moves(t, pc, mode, mask, old, pend) ==
  /\ task' \in [Tasks -> TaskType] /\ \A u \in Tasks \ {t} : task'[u] = task[u]
  /\ task'[t].pc = pc /\ task'[t].mode = mode
  /\ task'[t].mask = mask /\ task'[t].old = old /\ task'[t].pend = pend

Advances(t, mask, old, pend) == Moves(t, task[t].pc + 1, "ready", mask, old, pend)
Keeps(t)      == Advances(t, task[t].mask, task[t].old, task[t].pend)
SameTasks     == task' = task

(* Of process p only these parts change.                                   *)
Alters(old, new, p, disp, shared, armed) ==
  /\ new \in [Procs -> ProcType] /\ \A q \in Procs \ {p} : new[q] = old[q]
  /\ new[p].status = old[p].status /\ new[p].disp = disp
  /\ new[p].shared = shared /\ new[p].armed = armed

(* A step of one task that keeps the types of processes and reports.       *)
LEMMA MovesTyped ==
  ASSUME Typed, NEW t \in Tasks, NEW pc, NEW mode, NEW mask, NEW old, NEW pend,
         Moves(t, pc, mode, mask, old, pend), pc <= Len(Row[t]) + 1,
         program' = program, proc' \in [Procs -> ProcType],
         caught' \subseteq Signals, reports' \in Seq(Reports),
         interrupted' \in BOOLEAN, stray' \in BOOLEAN
  PROVE  Typed'
<1>1. \A u \in Tasks : task'[u].pc <= Len(Row[u]) + 1
  <2>1. TAKE u \in Tasks
  <2>2. CASE u = t
    BY <2>2 DEF Moves
  <2>3. CASE u # t
    BY <2>3 DEF Moves, Typed
  <2>. QED
    BY <2>2, <2>3
<1>. QED
  BY <1>1 DEF Typed, Moves, Row

(* A task that goes on: only its position and mode change.                 *)
LEMMA PastMoves ==
  ASSUME NEW tsk \in [Tasks -> TaskType], NEW t \in Tasks
  PROVE  /\ Past(tsk, t) \in [Tasks -> TaskType]
         /\ \A u \in Tasks \ {t} : Past(tsk, t)[u] = tsk[u]
         /\ Past(tsk, t)[t].pc = tsk[t].pc + 1 /\ Past(tsk, t)[t].mode = "ready"
         /\ Past(tsk, t)[t].mask = tsk[t].mask /\ Past(tsk, t)[t].old = tsk[t].old
         /\ Past(tsk, t)[t].pend = tsk[t].pend
<1> DEFINE at == [tsk[t] EXCEPT !.pc = @ + 1]
           r  == [at EXCEPT !.mode = "ready"]
<1>1. tsk[t] \in TaskType
  OBVIOUS
<1>2. at \in TaskType /\ at.pc = tsk[t].pc + 1 /\ at.mask = tsk[t].mask /\ at.old = tsk[t].old
      /\ at.pend = tsk[t].pend
  BY <1>1 DEF TaskType
<1>3. r \in TaskType /\ r.pc = at.pc /\ r.mask = at.mask /\ r.old = at.old /\ r.pend = at.pend
      /\ r.mode = "ready"
  <2>. HIDE DEF at
  <2>. QED
    BY <1>2 DEF TaskType
<1>4. Past(tsk, t) = [tsk EXCEPT ![t] = r]
  BY DEF Past
<1>. HIDE DEF at, r
<1>5. Past(tsk, t)[t] = r
  BY <1>4
<1>. QED
  BY <1>2, <1>3, <1>4, <1>5

LEMMA KeepsPast ==
  ASSUME Typed, NEW t \in Tasks, task' = Past(task, t)
  PROVE  Keeps(t)
<1>1. task \in [Tasks -> TaskType]
  BY DEF Typed
<1>. QED
  BY <1>1, PastMoves DEF Keeps, Advances, Moves

LEMMA MaskMoves ==
  ASSUME Typed, NEW t \in Tasks, NEW mask \in SUBSET Signals, SetsMask(t, mask)
  PROVE  Advances(t, mask, task[t].mask, task[t].pend)
<1> DEFINE tsk == Past(task, t)
<1>1. /\ tsk \in [Tasks -> TaskType] /\ \A u \in Tasks \ {t} : tsk[u] = task[u]
      /\ tsk[t].pc = task[t].pc + 1 /\ tsk[t].mode = "ready" /\ tsk[t].pend = task[t].pend
  BY PastMoves DEF Typed
<1>2. task[t].mask \in SUBSET Signals
  BY DEF Typed, TaskType
<1>3. task' = [tsk EXCEPT ![t].mask = mask, ![t].old = task[t].mask]
  BY DEF SetsMask
<1>. HIDE DEF tsk
<1>4. tsk[t] \in TaskType
  BY <1>1
<1>5. task' = [tsk EXCEPT ![t] = [tsk[t] EXCEPT !.mask = mask, !.old = task[t].mask]]
  BY <1>1, <1>3, <1>4 DEF TaskType
<1>6. [tsk[t] EXCEPT !.mask = mask, !.old = task[t].mask] \in TaskType
  BY <1>2, <1>4 DEF TaskType
<1>. QED
  BY <1>1, <1>4, <1>5, <1>6 DEF Advances, Moves, TaskType

(* A task that goes on with the mask it has saved.                         *)
LEMMA RestoreMoves ==
  ASSUME Typed, NEW t \in Tasks, task' = [Past(task, t) EXCEPT ![t].mask = task[t].old]
  PROVE  Advances(t, task[t].old, task[t].old, task[t].pend)
<1> DEFINE tsk == Past(task, t)
<1>1. /\ tsk \in [Tasks -> TaskType] /\ \A u \in Tasks \ {t} : tsk[u] = task[u]
      /\ tsk[t].pc = task[t].pc + 1 /\ tsk[t].mode = "ready" /\ tsk[t].pend = task[t].pend
      /\ tsk[t].old = task[t].old
  BY PastMoves DEF Typed
<1>2. task[t].old \in SUBSET Signals
  BY DEF Typed, TaskType
<1>3. task' = [tsk EXCEPT ![t].mask = task[t].old]
  OBVIOUS
<1>. HIDE DEF tsk
<1>4. tsk[t] \in TaskType
  BY <1>1
<1> DEFINE r == [tsk[t] EXCEPT !.mask = task[t].old]
<1>5. r \in TaskType /\ r.pc = tsk[t].pc /\ r.mode = tsk[t].mode /\ r.old = tsk[t].old
      /\ r.pend = tsk[t].pend /\ r.mask = task[t].old
  BY <1>2, <1>4 DEF TaskType
<1>6. task' = [tsk EXCEPT ![t] = r]
  BY <1>3
<1>. HIDE DEF r
<1>7. task'[t] = r /\ task' \in [Tasks -> TaskType] /\ \A u \in Tasks \ {t} : task'[u] = task[u]
  BY <1>1, <1>5, <1>6
<1>. QED
  BY <1>1, <1>5, <1>7 DEF Advances, Moves

(* A process ends.                                                         *)
LEMMA EndsFacts ==
  ASSUME Typed, NEW p \in Procs, NEW how \in Statuses, Ends(p, how)
  PROVE  /\ task' \in [Tasks -> TaskType] /\ proc' \in [Procs -> ProcType]
         /\ \A u \in Tasks :
              /\ task'[u].pc = task[u].pc /\ task'[u].mask = task[u].mask
              /\ task'[u].old = task[u].old
              /\ task'[u].mode = IF Present(u) /\ Proc(u) = p THEN "dead" ELSE task[u].mode
              /\ task'[u].pend \in {{}, task[u].pend}
              /\ Proc(u) # p => task'[u] = task[u]
         /\ proc'[p].status = how /\ proc'[p].disp = proc[p].disp /\ proc'[p].shared = {}
         /\ proc'[p].armed = {} /\ \A q \in Procs \ {p} : proc'[q] = proc[q]
<1>1. task \in [Tasks -> TaskType] /\ proc \in [Procs -> ProcType]
  BY DEF Typed
<1>2. \A u \in Tasks : u \in Of(p) <=> Proc(u) = p
  BY DEF Of
<1>3. \A u \in Tasks : task'[u] = IF Present(u) /\ Proc(u) = p
                                  THEN [task[u] EXCEPT !.mode = "dead", !.pend = {}] ELSE task[u]
  BY <1>2 DEF Ends, Present
<1>4. \A u \in Tasks : /\ [task[u] EXCEPT !.mode = "dead", !.pend = {}] \in TaskType
                       /\ [task[u] EXCEPT !.mode = "dead", !.pend = {}].pc = task[u].pc
                       /\ [task[u] EXCEPT !.mode = "dead", !.pend = {}].mask = task[u].mask
                       /\ [task[u] EXCEPT !.mode = "dead", !.pend = {}].old = task[u].old
                       /\ [task[u] EXCEPT !.mode = "dead", !.pend = {}].mode = "dead"
                       /\ [task[u] EXCEPT !.mode = "dead", !.pend = {}].pend = {}
  BY <1>1 DEF TaskType
<1>5. task' \in [Tasks -> TaskType]
  <2>1. task' = [u \in Tasks |-> IF Present(u) /\ Proc(u) = p
                                 THEN [task[u] EXCEPT !.mode = "dead", !.pend = {}] ELSE task[u]]
    BY <1>2 DEF Ends, Present
  <2>. QED
    BY <1>1, <1>4, <2>1
<1>6. /\ proc' = [proc EXCEPT ![p] = [proc[p] EXCEPT !.status = how, !.shared = {}, !.armed = {}]]
      /\ proc[p] \in ProcType
  BY <1>1 DEF Ends, ProcType
<1>7. [proc[p] EXCEPT !.status = how, !.shared = {}, !.armed = {}] \in ProcType
  BY <1>6 DEF ProcType
<1>8. /\ proc' \in [Procs -> ProcType]
      /\ proc'[p].status = how /\ proc'[p].disp = proc[p].disp /\ proc'[p].shared = {}
      /\ proc'[p].armed = {} /\ \A q \in Procs \ {p} : proc'[q] = proc[q]
  BY <1>1, <1>6, <1>7 DEF ProcType
<1>. QED
  BY <1>3, <1>4, <1>5, <1>8

(* The process a task belongs to.                                          *)
LEMMA ProcFacts ==
  /\ \A t \in Tasks : Proc(t) \in Procs /\ (Proc(t) = "peer" => t = "peer")
  /\ Proc("main") = "main" /\ Proc("third") = "main"
  /\ Proc("peer") = IF Row.kind # "threads" THEN "peer" ELSE "main"
  /\ program' = program => \A t \in Tasks : Proc(t)' = Proc(t)
  BY DEF Proc, Procs, Row

(* A step changes one field of one process: handlers, signals, timers.     *)
LEMMA SetDisp ==
  ASSUME NEW pr \in [Procs -> ProcType], NEW p \in Procs, NEW d \in [Signals -> Handlers]
  PROVE  Alters(pr, [pr EXCEPT ![p].disp = d], p, d, pr[p].shared, pr[p].armed)
<1>1. pr[p] \in ProcType
  OBVIOUS
<1> DEFINE r == [pr[p] EXCEPT !.disp = d]
<1>2. r \in ProcType /\ r.status = pr[p].status /\ r.disp = d /\ r.shared = pr[p].shared
      /\ r.armed = pr[p].armed
  BY <1>1 DEF ProcType
<1>3. [pr EXCEPT ![p].disp = d] = [pr EXCEPT ![p] = r]
  OBVIOUS
<1>. HIDE DEF r
<1>. QED
  BY <1>2, <1>3 DEF Alters

LEMMA SetShared ==
  ASSUME NEW pr \in [Procs -> ProcType], NEW p \in Procs, NEW sigs \in SUBSET Signals
  PROVE  Alters(pr, [pr EXCEPT ![p].shared = sigs], p, pr[p].disp, sigs, pr[p].armed)
<1>1. pr[p] \in ProcType
  OBVIOUS
<1> DEFINE r == [pr[p] EXCEPT !.shared = sigs]
<1>2. r \in ProcType /\ r.status = pr[p].status /\ r.disp = pr[p].disp /\ r.shared = sigs
      /\ r.armed = pr[p].armed
  BY <1>1 DEF ProcType
<1>3. [pr EXCEPT ![p].shared = sigs] = [pr EXCEPT ![p] = r]
  OBVIOUS
<1>. HIDE DEF r
<1>. QED
  BY <1>2, <1>3 DEF Alters

LEMMA SetArmed ==
  ASSUME NEW pr \in [Procs -> ProcType], NEW p \in Procs, NEW timers \in SUBSET Timers
  PROVE  Alters(pr, [pr EXCEPT ![p].armed = timers], p, pr[p].disp, pr[p].shared, timers)
<1>1. pr[p] \in ProcType
  OBVIOUS
<1> DEFINE r == [pr[p] EXCEPT !.armed = timers]
<1>2. r \in ProcType /\ r.status = pr[p].status /\ r.disp = pr[p].disp /\ r.armed = timers
      /\ r.shared = pr[p].shared
  BY <1>1 DEF ProcType
<1>3. [pr EXCEPT ![p].armed = timers] = [pr EXCEPT ![p] = r]
  OBVIOUS
<1>. HIDE DEF r
<1>. QED
  BY <1>2, <1>3 DEF Alters

LEMMA SetTicks ==
  ASSUME NEW pr \in [Procs -> ProcType], NEW p \in Procs, NEW n \in 0..Ticks
  PROVE  Alters(pr, [pr EXCEPT ![p].ticks = n], p, pr[p].disp, pr[p].shared, pr[p].armed)
<1>1. pr[p] \in ProcType
  OBVIOUS
<1> DEFINE r == [pr[p] EXCEPT !.ticks = n]
<1>2. r \in ProcType /\ r.status = pr[p].status /\ r.disp = pr[p].disp
      /\ r.armed = pr[p].armed /\ r.shared = pr[p].shared
  BY <1>1 DEF ProcType
<1>3. [pr EXCEPT ![p].ticks = n] = [pr EXCEPT ![p] = r]
  OBVIOUS
<1>. HIDE DEF r
<1>. QED
  BY <1>2, <1>3 DEF Alters

LEMMA SetEff ==
  ASSUME NEW pr \in [Procs -> ProcType], NEW p \in Procs
  PROVE  Alters(pr, [pr EXCEPT ![p].eff = "nobody"], p, pr[p].disp, pr[p].shared, pr[p].armed)
<1>1. pr[p] \in ProcType
  OBVIOUS
<1> DEFINE r == [pr[p] EXCEPT !.eff = "nobody"]
<1>2. r \in ProcType /\ r.status = pr[p].status /\ r.disp = pr[p].disp
      /\ r.armed = pr[p].armed /\ r.shared = pr[p].shared
  BY <1>1 DEF ProcType
<1>3. [pr EXCEPT ![p].eff = "nobody"] = [pr EXCEPT ![p] = r]
  OBVIOUS
<1>. HIDE DEF r
<1>. QED
  BY <1>2, <1>3 DEF Alters

(* A process that stays as it is.                                          *)
LEMMA SameAlters ==
  ASSUME NEW pr \in [Procs -> ProcType], NEW p \in Procs
  PROVE  Alters(pr, pr, p, pr[p].disp, pr[p].shared, pr[p].armed)
  BY DEF Alters

(* A signal is taken from the task, or else from its process.              *)
LEMMA TakenFacts ==
  ASSUME Typed, NEW t \in Tasks, NEW s
  PROVE  /\ WithoutTask(t, s) \in [Tasks -> TaskType]
         /\ \A u \in Tasks \ {t} : WithoutTask(t, s)[u] = task[u]
         /\ WithoutTask(t, s)[t] = [task[t] EXCEPT !.pend = task[t].pend \ {s}]
         /\ WithoutTask(t, s)[t].pc = task[t].pc /\ WithoutTask(t, s)[t].mode = task[t].mode
         /\ WithoutTask(t, s)[t].mask = task[t].mask /\ WithoutTask(t, s)[t].old = task[t].old
         /\ WithoutTask(t, s)[t].pend = task[t].pend \ {s}
         /\ Alters(proc, WithoutProc(t, s), Proc(t), proc[Proc(t)].disp,
                   IF s \in task[t].pend THEN proc[Proc(t)].shared
                   ELSE proc[Proc(t)].shared \ {s}, proc[Proc(t)].armed)
<1>1. task \in [Tasks -> TaskType] /\ proc \in [Procs -> ProcType] /\ Proc(t) \in Procs
  BY ProcFacts DEF Typed
<1> DEFINE r == [task[t] EXCEPT !.pend = task[t].pend \ {s}]
<1>2. r \in TaskType /\ r.pc = task[t].pc /\ r.mode = task[t].mode /\ r.mask = task[t].mask
      /\ r.old = task[t].old /\ r.pend = task[t].pend \ {s}
  BY <1>1 DEF TaskType
<1>3. WithoutTask(t, s) = [task EXCEPT ![t] = r]
  BY DEF WithoutTask
<1>4. WithoutTask(t, s) \in [Tasks -> TaskType] /\ WithoutTask(t, s)[t] = r
      /\ \A u \in Tasks \ {t} : WithoutTask(t, s)[u] = task[u]
  <2>. HIDE DEF r
  <2>. QED
    BY <1>1, <1>2, <1>3
<1>5. proc[Proc(t)].shared \ {s} \in SUBSET Signals
  BY <1>1 DEF ProcType
<1>6. WithoutProc(t, s) = IF s \in task[t].pend THEN proc
                          ELSE [proc EXCEPT ![Proc(t)].shared = proc[Proc(t)].shared \ {s}]
  BY DEF WithoutProc
<1>7. Alters(proc, WithoutProc(t, s), Proc(t), proc[Proc(t)].disp,
             IF s \in task[t].pend THEN proc[Proc(t)].shared
             ELSE proc[Proc(t)].shared \ {s}, proc[Proc(t)].armed)
  <2>1. CASE s \in task[t].pend
    BY <2>1, <1>1, <1>6, SameAlters
  <2>2. CASE s \notin task[t].pend
    <3> DEFINE sigs == proc[Proc(t)].shared \ {s}
               new  == [proc EXCEPT ![Proc(t)].shared = sigs]
    <3>1. Alters(proc, new, Proc(t), proc[Proc(t)].disp, sigs, proc[Proc(t)].armed)
      BY <1>1, <1>5, SetShared
    <3>2. WithoutProc(t, s) = new
      BY <1>6, <2>2
    <3>. QED
      BY <2>2, <3>1, <3>2
  <2>. QED
    BY <2>1, <2>2
<1>. QED
  BY <1>2, <1>4, <1>7

(* After a handler the task goes on, waits again, goes back or returns.    *)
ResumePc(t) ==
  IF task[t].mode # "asleep" \/ At(t).op = "nap" \/ At(t).arg = "again" THEN task[t].pc
  ELSE IF At(t).arg = "back" THEN task[t].pc - 1
  ELSE task[t].pc + 1

(* A handler has run: the task goes on at the call it was at, the next, or *)
(* the one before, and has one signal less.                                *)
LEMMA ResumedMoves ==
  ASSUME IInv, NEW t \in Tasks, NEW s, task[t].mode \in {"ready", "asleep"},
         task' = Resumed(WithoutTask(t, s), t)
  PROVE  /\ Moves(t, ResumePc(t), "ready", task[t].mask, task[t].old, task[t].pend \ {s})
         /\ ResumePc(t) \in 1..(Len(Row[t]) + 1)
<1> DEFINE tsk == WithoutTask(t, s)
<1>0. Typed
  BY DEF IInv
<1>1. /\ tsk \in [Tasks -> TaskType] /\ tsk[t] \in TaskType
      /\ \A u \in Tasks \ {t} : tsk[u] = task[u]
      /\ tsk[t].pc = task[t].pc /\ tsk[t].mode = task[t].mode
      /\ tsk[t].mask = task[t].mask /\ tsk[t].old = task[t].old
      /\ tsk[t].pend = task[t].pend \ {s}
  <2>1. tsk \in [Tasks -> TaskType]
    BY <1>0, TakenFacts
  <2>2. \A u \in Tasks \ {t} : tsk[u] = task[u]
    BY <1>0 DEF WithoutTask, Typed
  <2>3. tsk[t].pc = task[t].pc /\ tsk[t].mode = task[t].mode
        /\ tsk[t].mask = task[t].mask /\ tsk[t].old = task[t].old
        /\ tsk[t].pend = task[t].pend \ {s}
    BY <1>0, TakenFacts
  <2>. HIDE DEF tsk
  <2>. QED
    BY <2>1, <2>2, <2>3
<1>2. task' = Resumed(tsk, t)
  OBVIOUS
<1>3. task[t].pc \in Nat \ {0} /\ task[t].pc <= Len(Row[t]) + 1 /\ Len(Row[t]) \in Nat
  BY RowFacts DEF IInv, Typed
<1>4. task[t].mode = "asleep" =>
        /\ ~ Ended(t) /\ task[t].pc + 1 <= Len(Row[t]) + 1
        /\ At(t).arg = "back" => task[t].pc > 1
  BY CallFacts DEF IInv, Live
<1>. HIDE DEF tsk
<1>5. CASE task[t].mode # "asleep"
  <2>1. task' = tsk /\ ResumePc(t) = task[t].pc
    BY <1>2, <1>5 DEF Resumed, ResumePc
  <2>. QED
    BY <1>1, <1>3, <1>5, <2>1 DEF Moves
<1>6. CASE task[t].mode = "asleep" /\ (At(t).op = "nap" \/ At(t).arg = "again")
  <2> DEFINE r == [tsk[t] EXCEPT !.mode = "ready"]
  <2>1. task' = [tsk EXCEPT ![t] = r] /\ ResumePc(t) = task[t].pc
    BY <1>2, <1>6 DEF Resumed, ResumePc
  <2>2. r \in TaskType /\ r.pc = tsk[t].pc /\ r.mode = "ready" /\ r.mask = tsk[t].mask
        /\ r.old = tsk[t].old /\ r.pend = tsk[t].pend
    BY <1>1 DEF TaskType
  <2>. HIDE DEF r
  <2>. QED
    BY <1>1, <1>3, <2>1, <2>2 DEF Moves
<1>7. CASE task[t].mode = "asleep" /\ ~ (At(t).op = "nap" \/ At(t).arg = "again") /\ At(t).arg = "back"
  <2> DEFINE a == [tsk[t] EXCEPT !.pc = @ - 1]
             r == [a EXCEPT !.mode = "ready"]
  <2>1. task' = [tsk EXCEPT ![t] = r] /\ ResumePc(t) = task[t].pc - 1
    BY <1>2, <1>7 DEF Resumed, ResumePc
  <2>2. a \in TaskType /\ a.pc = tsk[t].pc - 1 /\ a.mask = tsk[t].mask
        /\ a.old = tsk[t].old /\ a.pend = tsk[t].pend
    <3>1. tsk[t].pc - 1 \in Nat \ {0}
      BY <1>1, <1>3, <1>4, <1>7
    <3>. QED
      BY <1>1, <3>1 DEF TaskType
  <2>3. r \in TaskType /\ r.pc = tsk[t].pc - 1 /\ r.mode = "ready" /\ r.mask = tsk[t].mask
        /\ r.old = tsk[t].old /\ r.pend = tsk[t].pend
    <3>. HIDE DEF a
    <3>. QED
      BY <2>2 DEF TaskType
  <2>. HIDE DEF r
  <2>. QED
    BY <1>1, <1>3, <1>4, <1>7, <2>1, <2>3 DEF Moves
<1>8. CASE task[t].mode = "asleep" /\ ~ (At(t).op = "nap" \/ At(t).arg = "again") /\ At(t).arg # "back"
  <2>1. task' = Past(tsk, t) /\ ResumePc(t) = task[t].pc + 1
    BY <1>2, <1>8 DEF Resumed, ResumePc
  <2>. QED
    BY <1>1, <1>3, <1>4, <1>8, <2>1, PastMoves DEF Moves
<1>. QED
  BY <1>5, <1>6, <1>7, <1>8

-----------------------------------------------------------------------------
(* What a step must respect for the invariant to hold after it.            *)

(* What is pending for main, before and after a step.                      *)
LEMMA PendingMain ==
  Pending("main") = task["main"].pend \cup proc["main"].shared
  /\ Pending("main")' = task'["main"].pend \cup proc'["main"].shared
<1>1. Proc("main") = "main" /\ Proc("main")' = "main"
  BY DEF Proc
<1>. QED
  BY <1>1 DEF Pending

(* A step within a program keeps its row and its outline.                  *)
LEMMA SameProgram ==
  ASSUME program' = program
  PROVE  /\ Row' = Row /\ Threads' = Threads /\ Sends' = Sends
         /\ O' = Outline(program)[task'["main"].pc]
         /\ \A t \in Tasks : Proc(t)' = Proc(t)
  BY DEF Row, Threads, Sends, O, Kind, Proc

(* A task that stays where it is in a process that stays as it is.         *)
LEMMA LiveStays ==
  ASSUME IInv, program' = program, NEW t \in Tasks,
         \/ /\ task'[t].pc = task[t].pc /\ task'[t].mode = task[t].mode
            /\ proc'[Proc(t)].status = proc[Proc(t)].status
         \/ task'[t].mode = "dead"
         \/ task'[t].mode = "ready" /\ proc'[Proc(t)].status = "run"
         \/ /\ task'[t].mode = "asleep" /\ proc'[Proc(t)].status = "run"
            /\ task'[t].pc = task[t].pc /\ ~ Ended(t) /\ At(t).op \in Waiting
  PROVE  /\ task'[t].mode \in {"ready", "asleep"} => proc'[Proc(t)'].status = "run"
         /\ task'[t].mode = "asleep" => ~ Ended(t)' /\ At(t)'.op \in Waiting
         /\ task'[t].mode = "absent" => task'[t].pc = 1
<1>1. Proc(t)' = Proc(t) /\ Row' = Row
  BY SameProgram
<1>2. task'[t].pc = task[t].pc => Ended(t)' = Ended(t) /\ At(t)' = At(t)
  BY <1>1 DEF Ended, At
<1>3. /\ task[t].mode \in {"ready", "asleep"} => proc[Proc(t)].status = "run"
      /\ task[t].mode = "asleep" => ~ Ended(t) /\ At(t).op \in Waiting
      /\ task[t].mode = "absent" => task[t].pc = 1
  BY DEF IInv, Live
<1>. QED
  BY <1>1, <1>2, <1>3

(* The goals hold as long as no process ends and no timer is made that     *)
(* should not be.                                                          *)
LEMMA GoalsStay ==
  ASSUME IInv, program' = program, caught \subseteq caught',
         \A p \in Procs : proc'[p].status \in {proc[p].status, "run"},
         "made" \in proc'["main"].armed =>
           "made" \in proc["main"].armed \/ program # "syscall_time_create"
  PROVE  Goals'
<1>1. KilledOnlyAsMeant'
  <2>1. SUFFICES ASSUME NEW p \in Procs, proc'[p].status \in (Signals \cup {"SEGV"}) \ {"INT"}
                 PROVE  <<program, p, proc'[p].status>> \in DiesOf
    BY DEF KilledOnlyAsMeant, DiesOf
  <2>2. proc'[p].status \in (Signals \cup {"SEGV"}) \ {"INT"}
    BY <2>1
  <2>3. "run" \notin (Signals \cup {"SEGV"}) \ {"INT"}
    BY DEF Signals
  <2>4. proc'[p].status = proc[p].status
    BY <2>2, <2>3
  <2>. QED
    BY <2>1, <2>4 DEF IInv, Goals, KilledOnlyAsMeant
<1>2. SuccessMeansHandled'
  BY DEF IInv, Goals, SuccessMeansHandled, Procs
<1>3. LimitRefusesTimer'
  BY DEF IInv, Goals, LimitRefusesTimer
<1>. QED
  BY <1>1, <1>2, <1>3 DEF Goals

(* Only a sigtimedwait makes main one that has waited.                     *)
LEMMA WaitedFacts ==
  ASSUME IInv, program' = program, ~ Ended("main"), task'["main"].pc \in Nat
  PROVE  /\ task'["main"].pc <= task["main"].pc => (Waited' => Waited)
         /\ task'["main"].pc = task["main"].pc + 1 =>
              (Waited' => Waited \/ At("main").op = "sigwait")
<1>1. /\ task["main"].pc \in DOMAIN Code(program) /\ At("main") = Code(program)[task["main"].pc]
      /\ DOMAIN Code(program) \subseteq Nat
  <2>1. task["main"].pc \in DOMAIN Code(program) /\ At("main") = Code(program)[task["main"].pc]
    BY MainCall DEF IInv
  <2>2. DOMAIN Row["main"] = 1..Len(Row["main"]) /\ Row["main"] = Code(program)
        /\ Len(Row["main"]) \in Nat
    BY RowFacts DEF IInv, Tasks
  <2>. QED
    BY <2>1, <2>2
<1>2. Waited' <=> \E w \in DOMAIN Code(program) :
                    w < task'["main"].pc /\ Code(program)[w].op = "sigwait"
  BY DEF Waited
<1>3. task["main"].pc \in Nat
  BY <1>1
<1>4. ASSUME task'["main"].pc <= task["main"].pc, Waited'  PROVE Waited
  <2>1. PICK w \in DOMAIN Code(program) :
               w < task'["main"].pc /\ Code(program)[w].op = "sigwait"
    BY <1>2, <1>4
  <2>2. w < task["main"].pc
    BY <1>1, <1>3, <1>4, <2>1
  <2>. QED
    BY <2>1, <2>2 DEF Waited
<1>5. ASSUME task'["main"].pc = task["main"].pc + 1, Waited'
      PROVE  Waited \/ At("main").op = "sigwait"
  <2>1. PICK w \in DOMAIN Code(program) :
               w < task'["main"].pc /\ Code(program)[w].op = "sigwait"
    BY <1>2, <1>5
  <2>2. w < task["main"].pc \/ w = task["main"].pc
    BY <1>1, <1>3, <1>5, <2>1
  <2>. QED
    BY <1>1, <2>1, <2>2 DEF Waited
<1>. QED
  BY <1>4, <1>5

(* A step keeps Answer if main passes its wait only with a signal of the   *)
(* child, and has such a signal only once the child has sent it.           *)
LEMMA AnswerStays ==
  ASSUME IInv, program' = program, task'["peer"].pc \in Nat,
         stray' => stray \/ (Sends /\ proc'["main"].status \notin {"run", "ok"}),
         \/ proc'["main"].status = proc["main"].status
         \/ Running /\ (Sends /\ proc'["main"].status = "ok" => Waited'),
         Sends => /\ Waited' => Waited \/ (Running /\ Pending("main") \cap Foreign(program) # {})
                  /\ Waited => Waited'
                  /\ task'["peer"].pc >= task["peer"].pc \/ task["peer"].pc = 1
                  /\ Running' /\ Pending("main")' \cap Foreign(program) # {} =>
                       \/ Running /\ Pending("main") \cap Foreign(program) # {}
                       \/ \A j \in DOMAIN Row.peer : Row.peer[j].op = "kill" => task'["peer"].pc > j
  PROVE  Answer'
<1>1. Row' = Row /\ Sends' = Sends
  BY SameProgram
<1>2. DOMAIN Row.peer \subseteq Nat \ {0} /\ task["peer"].pc \in Nat
  <2>1. Typed /\ "peer" \in Tasks
    BY DEF IInv, Tasks
  <2>2. DOMAIN Row["peer"] = 1..Len(Row["peer"]) /\ Len(Row["peer"]) \in Nat /\ task["peer"].pc \in Nat
    BY <2>1, RowFacts
  <2>. QED
    BY <2>2
<1>3. ASSUME NEW j \in DOMAIN Row.peer, Row.peer[j].op = "kill"
      PROVE  /\ Running' /\ Pending("main")' \cap Foreign(program) # {} => task'["peer"].pc > j
             /\ Waited' => task'["peer"].pc > j
             /\ proc'["main"].status = "ok" => Waited'
  <2>1. Sends
    BY <1>3 DEF Sends
  <2>2. /\ Running /\ Pending("main") \cap Foreign(program) # {} => task["peer"].pc > j
        /\ Waited => task["peer"].pc > j
        /\ proc["main"].status = "ok" => Waited
    BY <1>3 DEF IInv, Answer
  <2>3. j \in Nat \ {0}
    BY <1>2
  <2>4. task["peer"].pc > j => task'["peer"].pc > j
    BY <1>2, <2>1, <2>3
  <2>5. proc'["main"].status = "ok" => Waited'
    <3>1. CASE proc'["main"].status = proc["main"].status
      BY <2>1, <2>2, <3>1
    <3>2. CASE Running /\ (Sends /\ proc'["main"].status = "ok" => Waited')
      BY <2>1, <3>2
    <3>. QED
      BY <3>1, <3>2
  <2>. QED
    BY <1>3, <2>1, <2>2, <2>4, <2>5
<1>4. stray' => Sends' /\ proc'["main"].status \notin {"run", "ok"}
  BY <1>1 DEF IInv, Answer, Running
<1>. QED
  BY <1>1, <1>3, <1>4 DEF Answer

(* Main stays at its call, or goes back to the condition of its loop.      *)
LEMMA MainStays ==
  ASSUME IInv, Typed', Live', Goals', Answer', program' = program,
         \/ task'["main"].pc = task["main"].pc
         \/ /\ ~ Ended("main") /\ At("main").op \in Waiting /\ At("main").arg = "back"
            /\ task'["main"].pc = task["main"].pc - 1,
         task'["main"].mask = task["main"].mask, task'["main"].old = task["main"].old,
         proc'["main"].disp = proc["main"].disp, reports' = reports, caught \subseteq caught',
         Running' =>
           /\ Running
           /\ Pending("main")' \subseteq Pending("main") \cup O.late
           /\ O.sent \subseteq caught' \cup Pending("main")'
           /\ O.held \subseteq IF Threads THEN task'["main"].pend ELSE Pending("main")'
           /\ proc'["main"].armed \subseteq proc["main"].armed,
         \A u \in Sleepers : task'[u].pend = {} /\ (Present(u)' => Present(u)),
         proc'["peer"].shared \subseteq proc["peer"].shared \cup {"INT"}, proc'["peer"].armed = {},
         \A s \in Signals : proc'["peer"].disp[s] # "resend"
  PROVE  IInv'
<1>1. /\ O.due \subseteq O'.due /\ O'.late = O.late /\ O'.mask = O.mask /\ O'.old = O.old
      /\ O'.disp = O.disp /\ O'.sent = O.sent /\ O'.held = O.held /\ O'.sure = O.sure
      /\ O'.shown = O.shown /\ O'.started = O.started
  <2>1. CASE task'["main"].pc = task["main"].pc
    <3>1. O' = O
      BY <2>1, SameProgram DEF O
    <3>. QED
      BY <3>1
  <2>2. CASE /\ ~ Ended("main") /\ At("main").op \in Waiting /\ At("main").arg = "back"
             /\ task'["main"].pc = task["main"].pc - 1
    <3>1. task["main"].pc \in DOMAIN Code(program) /\ At("main") = Code(program)[task["main"].pc]
          /\ program \in DOMAIN SignalPrograms
      BY <2>2, MainCall DEF IInv, Typed
    <3>2. \A i \in DOMAIN Code(program) :
            Code(program)[i].op \in Waiting /\ Code(program)[i].arg = "back" =>
              /\ Outline(program)[i].due \subseteq Outline(program)[i - 1].due
              /\ \A part \in DOMAIN Origin \ {"due"} :
                   Outline(program)[i - 1][part] = Outline(program)[i][part]
      BY <3>1, OutlineAssumption
    <3>3. O.due \subseteq O'.due /\ \A part \in DOMAIN Origin \ {"due"} : O'[part] = O[part]
      BY <2>2, <3>1, <3>2, SameProgram DEF O
    <3>. QED
      BY <3>3 DEF Origin
  <2>. QED
    BY <2>1, <2>2
<1>2. Follows'
  BY <1>1 DEF IInv, Follows
<1>3. Comes'
  <2>1. SUFFICES ASSUME Running' PROVE Comes'
    BY DEF Comes
  <2>2. /\ Pending("main") \subseteq O.due \cup O.late
        /\ proc["main"].armed \subseteq {"made"} \cup O.late
    BY <2>1 DEF IInv, Comes
  <2>3. Threads' = Threads
    BY SameProgram
  <2>4. Pending("main")' \subseteq O'.due \cup O'.late
    BY <1>1, <2>1, <2>2
  <2>5. O'.sent \subseteq caught' \cup Pending("main")'
    BY <1>1, <2>1
  <2>6. O'.held \subseteq IF Threads' THEN task'["main"].pend ELSE Pending("main")'
    BY <1>1, <2>1, <2>3
  <2>7. proc'["main"].armed \subseteq {"made"} \cup O'.late
    BY <1>1, <2>1, <2>2
  <2>. QED
    BY <2>4, <2>5, <2>6, <2>7 DEF Comes
<1>4. Others'
  <2>1. Threads' = Threads
    BY SameProgram
  <2>2. \A u \in Sleepers :
          /\ task'[u].pend = {}
          /\ Present(u)' => u \in O'.started \/ (u = "peer" /\ Kind(program) = "started")
          /\ Present(u)' => Kind(program) # "alone" /\ (u = "third" => Threads)
    BY <1>1 DEF IInv, Others, Sleepers
  <2>3. proc'["peer"].shared \subseteq {"INT"} \cup PeerSigs(program) /\ proc'["peer"].armed = {}
    BY DEF IInv, Others
  <2>4. Kind(program) = "fork" /\ Present("peer")' => Foreign(program) \subseteq O'.late
    BY <1>1 DEF IInv, Others, Sleepers
  <2>5. \A s \in Signals : /\ proc'["peer"].disp[s] # "resend"
                           /\ proc'["main"].disp[s] = "resend" => Kind(program) = "alone"
                           /\ Threads => proc'["main"].disp[s] \in {"default", "note"}
    BY DEF IInv, Others
  <2>. QED
    BY <2>1, <2>2, <2>3, <2>4, <2>5 DEF Others, Sleepers
<1>. QED
  BY <1>2, <1>3, <1>4 DEF IInv

(* Main's call has returned: where main is then, what has come, and what   *)
(* the other tasks notice.                                                 *)
MainGoes ==
  LET c == At("main") IN
    /\ ~ Ended("main") /\ Running /\ program' = program /\ stray' = stray
    /\ \/ task'["main"].pc = task["main"].pc + 1
       \/ c.op = "check" /\ task'["main"].pc = task["main"].pc + 2
    /\ task'["main"].mode = "ready" /\ proc'["main"].status = "run"
    /\ task'["main"].mask = MaskAfter(O, c)
    /\ task'["main"].old = IF c.op \in {"block", "unblock"} THEN O.mask ELSE O.old
    /\ proc'["main"].disp = DispAfter(O, c)
    /\ reports' = ShownAfter(O, c) /\ caught \subseteq caught' /\ SureAfter(O, c) \subseteq caught'

MainGets ==
  LET c == At("main") IN
    /\ Pending("main")' \subseteq DueAfter(O, c) \cup LateAfter(program, O, c)
    /\ Sends => Pending("main")' \subseteq Pending("main") \cup ToSelf(c)
    /\ SentAfter(O, c) \subseteq caught' \cup Pending("main")'
    /\ HeldAfter(program, O, c) \subseteq IF Threads THEN task'["main"].pend ELSE Pending("main")'
    /\ proc'["main"].armed \subseteq
         proc["main"].armed \cup {"made"} \cup (IF c.op = "arm" THEN c.sigs ELSE {})
    /\ "made" \in proc'["main"].armed =>
         "made" \in proc["main"].armed \/ program # "syscall_time_create"
    /\ c.op = "sigwait" /\ Sends => Pending("main") \cap Foreign(program) # {}

OthersSee ==
  LET c == At("main") IN
    /\ \A u \in Sleepers :
         \/ task'[u] = task[u]
         \/ /\ c.op = "start" /\ u = c.arg
            /\ task'[u].pend = {} /\ task'[u].mode = "ready" /\ task'[u].pc = 1
    /\ \/ /\ proc'["peer"].status = proc["peer"].status /\ proc'["peer"].disp = proc["peer"].disp
          /\ proc'["peer"].shared \subseteq proc["peer"].shared \cup PeerSigs(program)
          /\ proc'["peer"].armed = proc["peer"].armed
          /\ task'["peer"] = task["peer"] \/ Kind(program) # "fork"
       \/ /\ c.op = "start" /\ Kind(program) = "fork" /\ proc'["peer"].status = "run"
          /\ proc'["peer"].disp = proc["main"].disp
          /\ proc'["peer"].shared = {} /\ proc'["peer"].armed = {}

(* The child that signals its parent: what its source has been checked     *)
(* for.                                                                    *)
LEMMA SendsFacts ==
  ASSUME Typed, Sends
  PROVE  /\ program = "syscall_rt_sigtimedwait" /\ Foreign(program) \cap {"INT", "ALRM", "RTMIN"} = {}
         /\ \A i \in 1..End(program) :
              /\ Outline(program)[i].due \cap Foreign(program) = {}
              /\ Outline(program)[i].disp = [s \in Signals |-> "default"]
         /\ \A j, j2 \in DOMAIN Row.peer : Row.peer[j].op = "kill" /\ Row.peer[j2].op = "kill" => j = j2
         /\ \E w \in DOMAIN Code(program) : Code(program)[w].op = "sigwait"
         /\ \A i \in DOMAIN Code(program) :
              /\ Code(program)[i].op # "check"
              /\ Code(program)[i].op = "sigwait" =>
                   /\ Code(program)[i].arg = "result" /\ Code(program)[i].refused = "exit"
                   /\ Code(program)[i].sigs \subseteq Foreign(program)
<1>1. program \in DOMAIN SignalPrograms /\ Row = SignalPrograms[program]
  BY DEF Typed, Row
<1>2. PICK j \in DOMAIN SignalPrograms[program].peer : SignalPrograms[program].peer[j].op = "kill"
  BY <1>1 DEF Sends
<1>3. \A i \in DOMAIN SignalPrograms[program].peer : SignalPrograms[program].peer[i].op = "kill" =>
        \A i2 \in DOMAIN SignalPrograms[program].peer :
          SignalPrograms[program].peer[i2].op = "kill" => i2 = i
  BY <1>1, AnswerAssumption
<1>. QED
  BY <1>1, <1>2, <1>3, AnswerAssumption

(* There is an outline where main is.                                      *)
LEMMA PcInOutline ==
  ASSUME Typed
  PROVE  task["main"].pc \in 1..End(program) /\ End(program) \in Nat
<1>1. Row["main"] = Code(program) /\ Len(Row["main"]) \in Nat /\ task["main"].pc \in Nat \ {0}
      /\ task["main"].pc <= Len(Row["main"]) + 1
  BY RowFacts DEF Typed, Tasks
<1>. QED
  BY <1>1 DEF End

(* A step of main that does what the outline says for its call, and sends  *)
(* and gets no more than that, keeps the invariant.                        *)
LEMMA MainReturns ==
  ASSUME IInv, Typed', MainGoes, MainGets, OthersSee
  PROVE  IInv'
<1> DEFINE c == At("main")
<1>1. /\ ~ Ended("main") /\ Running /\ program' = program /\ Typed
  BY DEF MainGoes, IInv
<1>2. O' = After(program, O, c)
  BY <1>1, OutlineNext DEF MainGoes
<1>3. /\ c.op = "start" => /\ c.arg \in Sleepers \ O.started
                           /\ Kind(program) \in {"threads", "fork"}
                           /\ Kind(program) = "fork" => c.arg = "peer"
      /\ c.op = "arm" => c.sigs \subseteq {"ALRM", "RTMIN"}
  BY <1>1, MainCall
<1>4. Follows'
  BY <1>2 DEF After, MainGoes, Follows
<1>5. Comes'
  <2>1. /\ Pending("main")' \subseteq O'.due \cup O'.late
        /\ O'.sent \subseteq caught' \cup Pending("main")'
    BY <1>2 DEF MainGets, After
  <2>2. O'.held \subseteq IF Threads' THEN task'["main"].pend ELSE Pending("main")'
    BY <1>1, <1>2, SameProgram DEF MainGets, After
  <2>3. proc'["main"].armed \subseteq {"made"} \cup O'.late
    <3>1. proc["main"].armed \subseteq {"made"} \cup O.late
      BY <1>1 DEF IInv, Comes
    <3>2. O.late \subseteq O'.late /\ (c.op = "arm" => c.sigs \subseteq O'.late)
      BY <1>2 DEF After, LateAfter
    <3>. QED
      BY <3>1, <3>2 DEF MainGets
  <2>. QED
    BY <2>1, <2>2, <2>3 DEF Comes
<1>6. \A u \in Sleepers : c.op = "start" /\ u = c.arg => ~ Present(u) /\ task[u].pc = 1
  BY <1>3 DEF IInv, Others, Live, Sleepers, Present, Tasks
<1>7. Others'
  <2>1. O.started \subseteq O'.started /\ O.late \subseteq O'.late
        /\ (c.op = "start" => c.arg \in O'.started /\ Foreign(program) \subseteq O'.late)
    BY <1>2 DEF After, LateAfter
  <2>2. \A u \in Sleepers :
          /\ task'[u].pend = {}
          /\ Present(u)' => u \in O'.started \/ (u = "peer" /\ Kind(program) = "started")
          /\ Present(u)' => Kind(program) # "alone" /\ (u = "third" => Threads)
    <3>1. SUFFICES ASSUME NEW u \in Sleepers
          PROVE /\ task'[u].pend = {}
                /\ Present(u)' => u \in O'.started \/ (u = "peer" /\ Kind(program) = "started")
                /\ Present(u)' => Kind(program) # "alone" /\ (u = "third" => Threads)
      OBVIOUS
    <3>2. CASE task'[u] = task[u]
      BY <2>1, <3>2 DEF IInv, Others, Sleepers, Present
    <3>3. CASE c.op = "start" /\ u = c.arg /\ task'[u].pend = {}
      BY <1>3, <2>1, <3>3 DEF Threads
    <3>. QED
      BY <3>2, <3>3 DEF OthersSee
  <2>3. proc'["peer"].shared \subseteq {"INT"} \cup PeerSigs(program) /\ proc'["peer"].armed = {}
    BY DEF IInv, Others, OthersSee
  <2>4. Kind(program) = "fork" /\ Present("peer")' => Foreign(program) \subseteq O'.late
    <3>1. CASE task'["peer"] = task["peer"]
      BY <2>1, <3>1 DEF IInv, Others, Present
    <3>2. CASE c.op = "start"
      BY <2>1, <3>2
    <3>. QED
      BY <3>1, <3>2 DEF OthersSee, Sleepers
  <2>5. \A s \in Signals : /\ proc'["main"].disp[s] = "resend" => Kind(program) = "alone"
                           /\ Threads => proc'["main"].disp[s] \in {"default", "note"}
    <3>1. \A s \in Signals : /\ proc["main"].disp[s] = "resend" => Kind(program) = "alone"
                             /\ Threads => proc["main"].disp[s] \in {"default", "note"}
      BY DEF IInv, Others
    <3>2. proc["main"].disp = O.disp
      BY DEF IInv, Follows
    <3>3. CASE c.op # "on"
      BY <3>1, <3>2, <3>3 DEF MainGoes, DispAfter
    <3>4. CASE c.op = "on"
      <4>1. (Threads => c.arg = "note") /\ (c.arg = "resend" => Kind(program) = "alone")
        <5>1. task["main"].pc \in DOMAIN Code(program) /\ c = Code(program)[task["main"].pc]
              /\ program \in DOMAIN SignalPrograms
          BY <1>1, MainCall DEF Typed
        <5>2. \A i \in DOMAIN Code(program) : Code(program)[i].op = "on" =>
                /\ Kind(program) = "threads" => Code(program)[i].arg = "note"
                /\ Code(program)[i].arg = "resend" => Kind(program) = "alone"
          BY <5>1, HandlersAssumption
        <5>. QED
          BY <3>4, <5>1, <5>2 DEF Threads
      <4>2. proc'["main"].disp = [s \in Signals |-> IF s \in c.sigs THEN c.arg ELSE O.disp[s]]
        BY <3>4 DEF MainGoes, DispAfter
      <4>. HIDE DEF c
      <4>. QED
        BY <3>1, <3>2, <4>1, <4>2
    <3>. QED
      BY <3>3, <3>4
  <2>6. \A s \in Signals : proc'["peer"].disp[s] # "resend"
    <3>1. CASE proc'["peer"].disp = proc["peer"].disp
      BY <3>1 DEF IInv, Others
    <3>2. CASE Kind(program) = "fork" /\ proc'["peer"].disp = proc["main"].disp
      BY <3>2 DEF IInv, Others
    <3>. QED
      BY <3>1, <3>2 DEF OthersSee
  <2>7. Threads' = Threads
    BY <1>1, SameProgram
  <2>. QED
    BY <1>1, <2>2, <2>3, <2>4, <2>5, <2>6, <2>7 DEF Others, Sleepers
<1>8. Goals'
  <2>1. \A p \in Procs : proc'[p].status \in {proc[p].status, "run"}
    BY DEF Procs, MainGoes, OthersSee
  <2>. QED
    BY <1>1, <2>1, GoalsStay DEF MainGoes, MainGets
<1>9. Answer'
  <2>1. task'["main"].pc \in Nat /\ task'["peer"].pc \in Nat /\ task["main"].pc \in Nat
    BY <1>1 DEF Typed, Tasks, TaskType
  <2>2. ASSUME Sends
        PROVE  /\ Waited' => Waited \/ (Running /\ Pending("main") \cap Foreign(program) # {})
               /\ Waited => Waited'
    <3>1. c.op # "check"
      BY <1>1, <2>2, MainCall, SendsFacts
    <3>2. task'["main"].pc = task["main"].pc + 1
      BY <3>1 DEF MainGoes
    <3>3. Waited' => Waited \/ c.op = "sigwait"
      BY <1>1, <2>1, <3>2, WaitedFacts
    <3>4. DOMAIN Code(program) \subseteq Nat
      BY <1>1, RowFacts DEF Tasks
    <3>5. Waited => Waited'
      BY <1>1, <2>1, <3>2, <3>4 DEF Waited
    <3>. QED
      BY <1>1, <2>2, <3>3, <3>5 DEF MainGets
  <2>3. task'["peer"].pc >= task["peer"].pc \/ task["peer"].pc = 1
    <3>1. CASE task'["peer"] = task["peer"]
      BY <2>1, <3>1
    <3>2. CASE c.op = "start" /\ "peer" = c.arg
      BY <1>6, <3>2 DEF Sleepers
    <3>. QED
      BY <3>1, <3>2 DEF OthersSee, Sleepers
  <2>4. ASSUME Sends, Pending("main")' \cap Foreign(program) # {}
        PROVE  Pending("main") \cap Foreign(program) # {}
    <3>1. O'.due \cap Foreign(program) = {}
      <4>1. task'["main"].pc \in 1..End(program)
        BY <1>1, <2>1, PcInOutline, MainCall, SendsFacts, <2>4, RowFacts DEF MainGoes, Typed, Row, End, Code, Tasks, TaskType
      <4>. QED
        BY <1>1, <2>4, <4>1, SendsFacts, SameProgram
    <3>2. ToSelf(c) \subseteq O'.due
      BY <1>2 DEF After, DueAfter, ToSelf, Waiting
    <3>. QED
      BY <2>4, <3>1, <3>2 DEF MainGets
  <2>. QED
    BY <1>1, <2>1, <2>2, <2>3, <2>4, AnswerStays DEF MainGoes, Running
<1>10. Live'
  <2>1. ASSUME NEW u \in Tasks
        PROVE  /\ task'[u].mode \in {"ready", "asleep"} => proc'[Proc(u)'].status = "run"
               /\ task'[u].mode = "asleep" => ~ Ended(u)' /\ At(u)'.op \in Waiting
               /\ task'[u].mode = "absent" => task'[u].pc = 1
    <3>1. Proc(u) \in Procs /\ (Proc(u) = "peer" => u = "peer") /\ Proc("main") = "main"
      BY ProcFacts
    <3>2. CASE u = "main"
      BY <1>1, <3>1, <3>2, LiveStays DEF MainGoes
    <3>3. CASE u # "main" /\ task'[u] = task[u]
      <4>1. CASE proc'[Proc(u)].status = proc[Proc(u)].status
        BY <1>1, <3>3, <4>1, LiveStays
      <4>2. CASE proc'[Proc(u)].status # proc[Proc(u)].status
        <5>1. Proc(u) = "peer" /\ u = "peer" /\ c.op = "start" /\ Kind(program) = "fork"
          BY <1>1, <3>1, <4>2 DEF Procs, Running, MainGoes, OthersSee
        <5>2. task[u].mode = "absent" /\ task[u].pc = 1
          BY <1>3, <1>6, <5>1 DEF Present, Sleepers
        <5>. QED
          BY <3>3, <5>2
      <4>. QED
        BY <4>1, <4>2
    <3>4. CASE /\ u # "main" /\ c.op = "start" /\ u = c.arg /\ task'[u].mode = "ready"
      <4>1. proc'[Proc(u)].status = "run"
        <5>1. CASE Kind(program) = "fork"
          <6>1. u = "peer" /\ task["peer"].mode = "absent"
            BY <1>3, <1>6, <3>4, <5>1 DEF Present, Sleepers
          <6>2. task'["peer"] # task["peer"]
            BY <3>4, <6>1
          <6>. QED
            BY <3>1, <3>4, <5>1, <6>2 DEF OthersSee, MainGoes, Procs
        <5>2. CASE Kind(program) = "threads"
          BY <3>4, <5>2 DEF Proc, Row, Kind, MainGoes
        <5>. QED
          BY <1>3, <3>4, <5>1, <5>2
      <4>. QED
        BY <1>1, <3>4, <4>1, LiveStays
    <3>. QED
      BY <3>2, <3>3, <3>4 DEF OthersSee, Sleepers, Tasks
  <2>. QED
    BY <2>1 DEF Live
<1>. QED
  BY <1>4, <1>5, <1>7, <1>8, <1>9, <1>10 DEF IInv

(* A process ends, by a signal, by exit or by a return from main.          *)
LEMMA ProcessEnds ==
  ASSUME IInv, NEW t \in Tasks, task[t].mode \in {"ready", "asleep"},
         NEW how \in Statuses \ {"run", "absent"}, Ends(Proc(t), how),
         program' = program, reports' = reports, stray' = stray, interrupted' = interrupted,
         caught \subseteq caught', caught' \subseteq Signals,
         how \in (Signals \cup {"SEGV"}) \ {"INT"} => <<program, Proc(t), how>> \in DiesOf,
         Proc(t) = "main" /\ how = "ok" =>
           (Sends => Waited) /\ (program \in DOMAIN Meant => Meant[program] \subseteq caught')
  PROVE  IInv'
<1> DEFINE p == Proc(t)
<1>1. /\ Typed /\ p \in Procs /\ Proc("main") = "main"
      /\ \A u \in Tasks : Proc(u) \in Procs
  BY ProcFacts DEF IInv
<1>2. /\ task' \in [Tasks -> TaskType] /\ proc' \in [Procs -> ProcType]
      /\ \A u \in Tasks :
           /\ task'[u].pc = task[u].pc /\ task'[u].mask = task[u].mask
           /\ task'[u].old = task[u].old
           /\ task'[u].mode = IF Present(u) /\ Proc(u) = p THEN "dead" ELSE task[u].mode
           /\ task'[u].pend \in {{}, task[u].pend}
           /\ Proc(u) # p => task'[u] = task[u]
      /\ proc'[p].status = how /\ proc'[p].disp = proc[p].disp /\ proc'[p].shared = {}
      /\ proc'[p].armed = {} /\ \A q \in Procs \ {p} : proc'[q] = proc[q]
  BY <1>1, EndsFacts
<1>. HIDE DEF p
<1>3. proc[p].status = "run"
  BY DEF IInv, Live, p
<1>4. Typed'
  <2>1. \A u \in Tasks : task'[u].pc <= Len(Row'[u]) + 1
    BY <1>1, <1>2, SameProgram DEF Typed
  <2>. QED
    BY <1>1, <1>2, <2>1 DEF Typed
<1>5. Live'
  <2>1. ASSUME NEW u \in Tasks
        PROVE  /\ task'[u].mode \in {"ready", "asleep"} => proc'[Proc(u)'].status = "run"
               /\ task'[u].mode = "asleep" => ~ Ended(u)' /\ At(u)'.op \in Waiting
               /\ task'[u].mode = "absent" => task'[u].pc = 1
    <3>1. CASE Proc(u) # p
      BY <1>1, <1>2, <3>1, LiveStays
    <3>2. CASE Proc(u) = p /\ Present(u)
      BY <1>2, <3>2, LiveStays
    <3>3. CASE ~ Present(u)
      BY <1>2, <3>3 DEF IInv, Live, Present
    <3>. QED
      BY <3>1, <3>2, <3>3
  <2>. QED
    BY <2>1 DEF Live
<1>6. Goals'
  <2>1. KilledOnlyAsMeant'
    <3>1. SUFFICES ASSUME NEW q \in Procs, proc'[q].status \in (Signals \cup {"SEGV"}) \ {"INT"}
                   PROVE  <<program, q, proc'[q].status>> \in DiesOf
      BY DEF KilledOnlyAsMeant, DiesOf
    <3>2. CASE q = p
      BY <1>2, <3>1, <3>2 DEF p
    <3>3. CASE q # p
      BY <1>2, <3>1, <3>3 DEF IInv, Goals, KilledOnlyAsMeant
    <3>. QED
      BY <3>2, <3>3
  <2>2. SuccessMeansHandled'
    <3>1. CASE p = "main"
      BY <1>2, <3>1 DEF SuccessMeansHandled, Meant, p
    <3>2. CASE p # "main"
      BY <1>2, <3>2 DEF IInv, Goals, SuccessMeansHandled, Procs, Meant
    <3>. QED
      BY <3>1, <3>2
  <2>3. LimitRefusesTimer'
    BY <1>1, <1>2 DEF IInv, Goals, LimitRefusesTimer, Procs
  <2>. QED
    BY <2>1, <2>2, <2>3 DEF Goals
<1>7. Running' => p # "main" /\ Running /\ task'["main"] = task["main"] /\ proc'["main"] = proc["main"]
  BY <1>1, <1>2 DEF Running, Procs, Tasks
<1>8. /\ task'["main"].pc = task["main"].pc /\ task'["peer"].pc = task["peer"].pc
      /\ task'["main"].mask = task["main"].mask /\ task'["main"].old = task["main"].old
      /\ proc'["main"].disp = proc["main"].disp /\ proc'["peer"].disp = proc["peer"].disp
      /\ task["peer"].pc \in Nat
  BY <1>1, <1>2 DEF Tasks, Procs, Typed, TaskType
<1>9. Waited' = Waited
  BY <1>8 DEF Waited
<1>10. Running' => Pending("main")' = Pending("main")
  BY <1>7, PendingMain
<1>11. Answer'
  <2>1. \/ proc'["main"].status = proc["main"].status
        \/ Running /\ (Sends /\ proc'["main"].status = "ok" => Waited')
    <3>1. CASE p = "main"
      BY <1>2, <1>3, <1>9, <3>1 DEF Running, p
    <3>2. CASE p # "main"
      BY <1>2, <3>2 DEF Procs
    <3>. QED
      BY <3>1, <3>2
  <2>2. stray' => stray \/ (Sends /\ proc'["main"].status \notin {"run", "ok"})
    OBVIOUS
  <2>3. task'["peer"].pc >= task["peer"].pc
    BY <1>8
  <2>. QED
    BY <1>7, <1>8, <1>9, <1>10, <2>1, <2>2, <2>3, AnswerStays
<1>12. /\ \A u \in Sleepers : task'[u].pend = {} /\ (Present(u)' => Present(u))
       /\ proc'["peer"].shared \subseteq proc["peer"].shared \cup {"INT"} /\ proc'["peer"].armed = {}
       /\ \A s \in Signals : proc'["peer"].disp[s] # "resend"
  <2>1. \A u \in Sleepers : task'[u].pend = {} /\ (Present(u)' => Present(u))
    BY <1>2 DEF IInv, Others, Sleepers, Present, Tasks
  <2>2. proc'["peer"].shared \subseteq proc["peer"].shared \cup {"INT"} /\ proc'["peer"].armed = {}
    BY <1>1, <1>2 DEF IInv, Others, Procs
  <2>. QED
    BY <1>8, <2>1, <2>2 DEF IInv, Others
<1>13. Running' => /\ O.sent \subseteq caught' \cup Pending("main")'
                   /\ O.held \subseteq IF Threads THEN task'["main"].pend ELSE Pending("main")'
  BY <1>7, <1>10 DEF IInv, Comes
<1>. QED
  BY <1>4, <1>5, <1>6, <1>7, <1>8, <1>10, <1>11, <1>12, <1>13, MainStays

-----------------------------------------------------------------------------
(* A signal is delivered and the process goes on.                          *)

(* A signal that can be delivered is pending and not blocked, and its      *)
(* process runs.                                                           *)
LEMMA DeliverableFacts ==
  ASSUME IInv, NEW t \in Tasks, NEW s \in Deliverable(t)
  PROVE  /\ task[t].mode \in {"ready", "asleep"} /\ s \in Signals
         /\ s \in Pending(t) /\ s \notin Blocked(t)
         /\ proc[Proc(t)].status = "run" /\ Handler(t, s) \in Handlers
<1>1. /\ task[t].mode \in {"ready", "asleep"} /\ s \in Pending(t) /\ s \notin Blocked(t)
  BY DEF Deliverable
<1>2. task[t] \in TaskType /\ proc[Proc(t)] \in ProcType
  BY ProcFacts DEF IInv, Typed
<1>3. s \in Signals /\ Handler(t, s) \in Handlers
  BY <1>1, <1>2 DEF Pending, TaskType, ProcType, Handler
<1>. QED
  BY <1>1, <1>3 DEF IInv, Live

(* The signals held for main do not get through.                           *)
LEMMA HeldIsBlocked ==
  ASSUME IInv, Running
  PROVE  O.held \subseteq Blocked("main")
<1>1. program \in DOMAIN SignalPrograms /\ task["main"].pc \in 1..End(program) /\ Typed
  BY PcInOutline DEF IInv, Typed
<1>2. O.held \subseteq O.mask /\ O.mask = task["main"].mask
  BY <1>1, SentAssumption DEF O, IInv, Follows
<1>3. CASE Waits("main", "suspend")
  <2>1. ~ Ended("main") /\ At("main").op = "suspend"
    BY <1>3 DEF Waits, IInv, Live, Tasks
  <2>2. task["main"].pc \in DOMAIN Code(program) /\ At("main") = Code(program)[task["main"].pc]
    BY <1>1, <2>1, MainCall
  <2>3. O.held \subseteq At("main").sigs
    BY <1>1, <2>1, <2>2, SentAssumption DEF O
  <2>. QED
    BY <1>3, <2>3 DEF Blocked, Waits
<1>4. CASE ~ Waits("main", "suspend")
  <2>1. CASE Waits("main", "sigwait")
    BY <1>2, <1>4, <2>1 DEF Blocked
  <2>2. CASE ~ Waits("main", "sigwait")
    BY <1>2, <1>4, <2>2 DEF Blocked
  <2>. QED
    BY <2>1, <2>2
<1>. QED
  BY <1>3, <1>4

(* What main has sent itself is not ignored.                               *)
LEMMA SentFacts ==
  ASSUME IInv
  PROVE  /\ \A s \in O.sent : proc["main"].disp[s] # "ignore"
         /\ \A s \in Signals : proc["main"].disp[s] = "resend" => "USR1" \in O.late
<1>1. program \in DOMAIN SignalPrograms /\ task["main"].pc \in 1..End(program)
  BY PcInOutline DEF IInv, Typed
<1>2. /\ \A s \in O.sent : O.disp[s] # "ignore"
      /\ \A s \in Signals : O.disp[s] = "resend" => "USR1" \in O.late
  BY <1>1, SentAssumption DEF O
<1>. QED
  BY <1>2 DEF IInv, Follows

(* The parent that waits for a signal of its child has no handlers.        *)
LEMMA OutlineOfSender ==
  ASSUME IInv, Sends
  PROVE  proc["main"].disp = [s \in Signals |-> "default"]
<1>1. task["main"].pc \in 1..End(program) /\ Typed
  BY PcInOutline DEF IInv
<1>. QED
  BY <1>1, SendsFacts DEF O, IInv, Follows

(* What main has been sent is pending, or s, which its handler has seen.   *)
Gets(s, again) ==
  /\ Pending("main") \ {s} \subseteq Pending("main")'
  /\ Pending("main")' \subseteq Pending("main") \cup again
  /\ task["main"].pend \ {s} \subseteq task'["main"].pend
  /\ proc'["main"].armed = proc["main"].armed /\ proc'["main"].disp = proc["main"].disp
  /\ proc'["peer"] = proc["peer"]
  /\ s \in caught' \/ proc["main"].disp[s] = "ignore"

(* What is pending when a signal has been taken and may have been sent     *)
(* again.                                                                  *)
LEMMA GetsKeep ==
  ASSUME IInv, Running, NEW s \in Signals, NEW again, Gets(s, again), caught \subseteq caught',
         s \notin O.held, again \subseteq O.late
  PROVE  /\ Pending("main")' \subseteq Pending("main") \cup O.late
         /\ O.sent \subseteq caught' \cup Pending("main")'
         /\ O.held \subseteq IF Threads THEN task'["main"].pend ELSE Pending("main")'
<1>1. /\ O.sent \subseteq caught \cup Pending("main")
      /\ O.held \subseteq IF Threads THEN task["main"].pend ELSE Pending("main")
  BY DEF IInv, Comes
<1>2. s \in O.sent => s \in caught'
  BY SentFacts DEF Gets
<1>. QED
  BY <1>1, <1>2 DEF Gets

(* Main's handler has run, and main returns from the call it waited in.    *)
LEMMA WokenMain ==
  ASSUME IInv, Typed', NEW s \in Deliverable("main"), NEW again, Gets(s, again),
         task["main"].mode = "asleep", proc["main"].disp[s] \notin {"default", "ignore"},
         \A u \in Sleepers : task'[u] = task[u],
         task'["main"].pc = task["main"].pc + 1, task'["main"].mode = "ready",
         task'["main"].mask = task["main"].mask, task'["main"].old = task["main"].old,
         again \subseteq O.late, proc'["main"].status = "run",
         program' = program, reports' = reports, stray' = stray,
         caught \subseteq caught', s \in caught'
  PROVE  IInv'
<1> DEFINE c == At("main")
<1>1. ~ Ended("main") /\ c.op \in Waiting /\ Running /\ s \in Signals /\ Typed
      /\ s \in Pending("main") /\ s \notin Blocked("main")
  BY DeliverableFacts, ProcFacts DEF IInv, Live, Tasks, Running
<1>2. c.op \notin {"block", "unblock", "setmask", "on", "show", "kill", "start", "arm", "check"}
  BY <1>1 DEF Waiting
<1>3. s \notin O.held
  BY <1>1, HeldIsBlocked
<1>4. /\ O.mask = task["main"].mask /\ O.old = task["main"].old /\ O.disp = proc["main"].disp
      /\ O.shown = reports /\ O.sure \subseteq caught
  BY DEF IInv, Follows
<1>5. SureAfter(O, c) \subseteq caught'
  <2>1. CASE c.op = "suspend" /\ c.refused = "never" /\ \E x \in Signals : Wakers(O, c) = {x}
    <3>1. s \notin c.sigs
      BY <1>1, <2>1 DEF Blocked, Waits
    <3>2. s \in Wakers(O, c)
      BY <1>1, <1>4, <3>1 DEF IInv, Comes, Wakers
    <3>3. Wakers(O, c) = {s}
      BY <2>1, <3>2
    <3>. QED
      BY <1>4, <2>1, <3>3 DEF SureAfter
  <2>2. CASE ~ (c.op = "suspend" /\ c.refused = "never" /\ \E x \in Signals : Wakers(O, c) = {x})
    BY <1>4, <2>2 DEF SureAfter
  <2>. QED
    BY <2>1, <2>2
<1>6. MainGoes
  <2>. HIDE DEF c
  <2>1. /\ MaskAfter(O, c) = O.mask /\ DispAfter(O, c) = O.disp /\ ShownAfter(O, c) = O.shown
    BY <1>2 DEF MaskAfter, DispAfter, ShownAfter
  <2>. QED
    BY <1>1, <1>2, <1>4, <1>5, <2>1 DEF MainGoes, Gets, c
<1>7. MainGets
  <2>1. /\ Pending("main")' \subseteq Pending("main") \cup O.late
        /\ O.sent \subseteq caught' \cup Pending("main")'
        /\ O.held \subseteq IF Threads THEN task'["main"].pend ELSE Pending("main")'
    BY <1>1, <1>3, GetsKeep
  <2>2. Pending("main") \subseteq O.due \cup O.late
    BY <1>1 DEF IInv, Comes
  <2>. HIDE DEF c
  <2>3. /\ DueAfter(O, c) = O.due /\ O.late \subseteq LateAfter(program, O, c)
        /\ SentAfter(O, c) \subseteq O.sent /\ HeldAfter(program, O, c) \subseteq O.held
    <3>1. ToSelf(c) = {} /\ ToMain(program, c) = {}
      BY <1>2 DEF ToSelf, ToMain
    <3>. QED
      BY <1>1, <1>2, <3>1 DEF DueAfter, LateAfter, SentAfter, HeldAfter, c
  <2>4. ~ Sends
    BY <1>1, OutlineOfSender
  <2>. QED
    BY <2>1, <2>2, <2>3, <2>4 DEF MainGets, Gets, c
<1>8. OthersSee
  BY <1>2 DEF OthersSee, Gets, Sleepers
<1>. QED
  BY <1>6, <1>7, <1>8, MainReturns

(* A signal that runs a handler, or is ignored, keeps the invariant,       *)
(* whichever task gets it.                                                 *)
LEMMA Delivered ==
  ASSUME IInv, NEW t \in Tasks, NEW s \in Deliverable(t), NEW again \in SUBSET {"USR1"},
         program' = program, reports' = reports, stray' = stray, interrupted' = interrupted,
         \/ /\ Handler(t, s) \notin {"default", "ignore"}
            /\ task' = Resumed(WithoutTask(t, s), t) /\ caught' = caught \cup {s}
         \/ /\ Handler(t, s) = "ignore"
            /\ task' = WithoutTask(t, s) /\ caught' = caught,
         again # {} => Handler(t, s) = "resend",
         Alters(proc, proc', Proc(t), proc[Proc(t)].disp,
                (IF s \in task[t].pend THEN proc[Proc(t)].shared
                 ELSE proc[Proc(t)].shared \ {s}) \cup again, proc[Proc(t)].armed)
  PROVE  IInv'
<1>1. /\ task[t].mode \in {"ready", "asleep"} /\ s \in Signals
      /\ s \in Pending(t) /\ s \notin Blocked(t) /\ proc[Proc(t)].status = "run"
      /\ Handler(t, s) = proc[Proc(t)].disp[s]
  BY DeliverableFacts DEF Handler
<1>2. /\ Typed /\ Proc(t) \in Procs /\ (Proc(t) = "peer" => t = "peer")
      /\ Proc("main") = "main" /\ \A u \in Tasks : Proc(u) \in Procs
  BY ProcFacts DEF IInv
<1>3. PICK pc, mode :
        /\ Moves(t, pc, mode, task[t].mask, task[t].old, task[t].pend \ {s})
        /\ pc \in 1..(Len(Row[t]) + 1)
        /\ \/ task' = Resumed(WithoutTask(t, s), t) /\ pc = ResumePc(t) /\ mode = "ready"
           \/ task' = WithoutTask(t, s) /\ pc = task[t].pc /\ mode = task[t].mode
  <2>1. CASE task' = Resumed(WithoutTask(t, s), t)
    <3>1. /\ Moves(t, ResumePc(t), "ready", task[t].mask, task[t].old, task[t].pend \ {s})
          /\ ResumePc(t) \in 1..(Len(Row[t]) + 1)
      <4>1. task[t].mode \in {"ready", "asleep"}
        BY <1>1
      <4>. QED
        BY <2>1, <4>1, ResumedMoves
    <3>. QED
      BY <2>1, <3>1
  <2>2. CASE task' = WithoutTask(t, s)
    <3>1. task[t].pc \in 1..(Len(Row[t]) + 1)
      BY <1>2, RowFacts DEF Typed
    <3>2. Moves(t, task[t].pc, task[t].mode, task[t].mask, task[t].old, task[t].pend \ {s})
      <4>1. /\ WithoutTask(t, s)[t].pc = task[t].pc /\ WithoutTask(t, s)[t].mode = task[t].mode
            /\ WithoutTask(t, s)[t].mask = task[t].mask /\ WithoutTask(t, s)[t].old = task[t].old
            /\ WithoutTask(t, s)[t].pend = task[t].pend \ {s}
            /\ WithoutTask(t, s) \in [Tasks -> TaskType]
        BY <1>2, TakenFacts
      <4>2. \A u \in Tasks \ {t} : WithoutTask(t, s)[u] = task[u]
        BY <1>2 DEF WithoutTask, Typed
      <4>. QED
        BY <2>2, <4>1, <4>2 DEF Moves
    <3>. QED
      BY <2>2, <3>1, <3>2
  <2>. QED
    BY <2>1, <2>2
<1>4. /\ \A u \in Tasks \ {t} : task'[u] = task[u]
      /\ task'[t].pc = pc /\ task'[t].mode = mode /\ task'[t].mask = task[t].mask
      /\ task'[t].old = task[t].old /\ task'[t].pend = task[t].pend \ {s}
      /\ task' \in [Tasks -> TaskType]
  BY <1>3 DEF Moves
<1>5. /\ proc' \in [Procs -> ProcType] /\ \A q \in Procs \ {Proc(t)} : proc'[q] = proc[q]
      /\ proc'[Proc(t)].disp = proc[Proc(t)].disp /\ proc'[Proc(t)].armed = proc[Proc(t)].armed
      /\ proc'[Proc(t)].shared = (IF s \in task[t].pend THEN proc[Proc(t)].shared
                                  ELSE proc[Proc(t)].shared \ {s}) \cup again
      /\ \A q \in Procs : proc'[q].status = proc[q].status
  BY DEF Alters
<1>6. /\ caught \subseteq caught' /\ caught' \subseteq Signals
      /\ s \in caught' \/ Handler(t, s) = "ignore"
  BY <1>1, <1>2 DEF Typed
<1>7. Typed'
  <2>1. \A u \in Tasks : task'[u].pc <= Len(Row'[u]) + 1
    <3>1. SUFFICES ASSUME NEW u \in Tasks PROVE task'[u].pc <= Len(Row[u]) + 1
      BY SameProgram
    <3>2. CASE u = t
      <4>1. Len(Row[t]) \in Nat
        BY <1>2, RowFacts
      <4>. QED
        BY <1>3, <1>4, <3>2, <4>1
    <3>3. CASE u # t
      BY <1>2, <1>4, <3>3 DEF Typed
    <3>. QED
      BY <3>2, <3>3
  <2>. QED
    BY <1>2, <1>4, <1>5, <1>6, <2>1 DEF Typed
<1>8. Live'
  <2>1. ASSUME NEW u \in Tasks
        PROVE  /\ task'[u].mode \in {"ready", "asleep"} => proc'[Proc(u)'].status = "run"
               /\ task'[u].mode = "asleep" => ~ Ended(u)' /\ At(u)'.op \in Waiting
               /\ task'[u].mode = "absent" => task'[u].pc = 1
    <3>1. CASE u = t
      BY <1>1, <1>2, <1>3, <1>4, <1>5, <3>1, LiveStays
    <3>2. CASE u # t
      BY <1>2, <1>4, <1>5, <3>2, LiveStays
    <3>. QED
      BY <3>1, <3>2
  <2>. QED
    BY <2>1 DEF Live
<1>9. again \subseteq O.late /\ (Proc(t) = "peer" \/ t # "main" => again = {})
  <2>1. Proc(t) = "peer" => again = {}
    BY <1>1 DEF IInv, Others
  <2>2. Proc(t) = "main" => again \subseteq O.late
    BY <1>1, SentFacts
  <2>3. Proc(t) = "main" /\ t # "main" => again = {}
    <3>1. Proc(t) = "main" /\ t # "main" => Kind(program) # "alone"
      BY <1>1 DEF IInv, Others, Present, Tasks
    <3>. QED
      BY <1>1, <3>1 DEF IInv, Others
  <2>. QED
    BY <1>2, <2>1, <2>2, <2>3 DEF Procs
<1>10. Proc(t) = "main" => /\ Gets(s, again) /\ Running /\ ~ Sends
                           /\ (t # "main" => Threads /\ task[t].pend = {})
  <2>1. SUFFICES ASSUME Proc(t) = "main"
                 PROVE  /\ Gets(s, again) /\ Running /\ ~ Sends
                        /\ (t # "main" => Threads /\ task[t].pend = {})
    OBVIOUS
  <2>2. Running
    BY <1>1, <2>1 DEF Running
  <2>3. t # "main" => task[t].pend = {}
    BY DEF IInv, Others, Tasks
  <2>4. t # "main" => Threads
    <3>1. CASE t = "peer"
      BY <1>2, <2>1, <3>1, ProcFacts, RowFacts DEF Threads
    <3>2. CASE t = "third"
      BY <1>1, <3>2 DEF IInv, Others, Present
    <3>. QED
      BY <3>1, <3>2 DEF Tasks
  <2>5. ~ Sends
    BY <1>1, <2>1, OutlineOfSender
  <2>6. /\ Pending("main") = task["main"].pend \cup proc["main"].shared
        /\ Pending("main")' = task'["main"].pend \cup proc'["main"].shared
    BY PendingMain
  <2>7. /\ Pending("main") \ {s} \subseteq Pending("main")'
        /\ Pending("main")' \subseteq Pending("main") \cup again
        /\ task["main"].pend \ {s} \subseteq task'["main"].pend
    <3>1. CASE t = "main"
      BY <1>4, <1>5, <2>1, <2>6, <3>1
    <3>2. CASE t # "main"
      BY <1>4, <1>5, <2>1, <2>3, <2>6, <3>2 DEF Tasks
    <3>. QED
      BY <3>1, <3>2
  <2>. QED
    BY <1>1, <1>5, <1>6, <2>1, <2>2, <2>3, <2>4, <2>5, <2>7 DEF Gets, Procs
<1>11. Goals'
  BY <1>2, <1>5, <1>6, GoalsStay DEF Procs
<1>12. CASE t = "main" /\ task'["main"].pc = task["main"].pc + 1
  <2>1. task["main"].pc \in Nat
    BY <1>2 DEF Typed, Tasks, TaskType
  <2>2. task' = Resumed(WithoutTask(t, s), t) /\ mode = "ready" /\ task["main"].mode = "asleep"
    BY <1>3, <1>4, <1>12, <2>1 DEF ResumePc
  <2>3. task["main"].mode \in {"asleep"} /\ Handler(t, s) \notin {"default", "ignore"}
        /\ s \in caught'
    <3>1. task' # WithoutTask(t, s)
      <4>1. WithoutTask(t, s)[t].pc = task[t].pc
        BY <1>2, TakenFacts
      <4>. QED
        BY <1>12, <2>1, <4>1
    <3>. QED
      BY <2>2, <3>1
  <2>4. s \in Deliverable("main") /\ Gets(s, again)
        /\ proc["main"].disp[s] \notin {"default", "ignore"}
    BY <1>1, <1>2, <1>10, <1>12, <2>3
  <2>5. /\ \A u \in Sleepers : task'[u] = task[u]
        /\ task'["main"].mode = "ready" /\ task'["main"].mask = task["main"].mask
        /\ task'["main"].old = task["main"].old /\ proc'["main"].status = "run"
    BY <1>1, <1>2, <1>4, <1>5, <1>12, <2>2 DEF Sleepers, Tasks, Procs
  <2>. QED
    BY <1>6, <1>7, <1>9, <1>12, <2>2, <2>3, <2>4, <2>5, WokenMain
<1>13. CASE ~ (t = "main" /\ task'["main"].pc = task["main"].pc + 1)
  <2>1. \/ task'["main"].pc = task["main"].pc
        \/ /\ ~ Ended("main") /\ At("main").op \in Waiting /\ At("main").arg = "back"
           /\ task'["main"].pc = task["main"].pc - 1
    <3>1. CASE t = "main"
      <4>1. task'["main"].pc # task["main"].pc => task["main"].mode = "asleep"
        BY <1>3, <1>4, <3>1 DEF ResumePc
      <4>2. task["main"].mode = "asleep" => ~ Ended("main") /\ At("main").op \in Waiting
        BY DEF IInv, Live, Tasks
      <4>. QED
        BY <1>3, <1>4, <1>13, <3>1, <4>1, <4>2 DEF ResumePc
    <3>2. CASE t # "main"
      BY <1>4, <3>2 DEF Tasks
    <3>. QED
      BY <3>1, <3>2
  <2>2. /\ task'["main"].mask = task["main"].mask /\ task'["main"].old = task["main"].old
        /\ proc'["main"].disp = proc["main"].disp
        /\ proc'["main"].armed = proc["main"].armed
    BY <1>2, <1>4, <1>5 DEF Tasks, Procs
  <2>3. Running' => Running
    BY <1>5 DEF Running, Procs
  <2>4. Proc(t) = "peer" => task'["main"] = task["main"] /\ proc'["main"] = proc["main"]
                            /\ Pending("main")' = Pending("main")
    BY <1>2, <1>4, <1>5, PendingMain DEF Tasks, Procs
  <2>5. Running' => /\ Pending("main")' \subseteq Pending("main") \cup O.late
                    /\ O.sent \subseteq caught' \cup Pending("main")'
                    /\ O.held \subseteq IF Threads THEN task'["main"].pend ELSE Pending("main")'
    <3>1. CASE Proc(t) = "peer"
      BY <1>6, <2>3, <2>4, <3>1 DEF IInv, Comes
    <3>2. CASE t = "main"
      BY <1>1, <1>2, <1>6, <1>9, <1>10, <3>2, GetsKeep, HeldIsBlocked
    <3>3. CASE Proc(t) = "main" /\ t # "main"
      <4>1. /\ task'["main"] = task["main"] /\ Gets(s, again) /\ Running /\ Threads
        BY <1>4, <1>10, <3>3 DEF Tasks
      <4>2. Pending("main")' \subseteq Pending("main") \cup O.late
        BY <1>9, <4>1 DEF Gets
      <4>3. O.sent \subseteq caught' \cup Pending("main")'
        <5>1. O.sent \subseteq caught \cup Pending("main")
          BY <4>1 DEF IInv, Comes
        <5>2. s \in O.sent => s \in caught'
          BY <4>1, SentFacts DEF Gets
        <5>. QED
          BY <1>6, <4>1, <5>1, <5>2 DEF Gets
      <4>. QED
        BY <4>1, <4>2, <4>3 DEF IInv, Comes
    <3>. QED
      BY <1>2, <3>1, <3>2, <3>3 DEF Procs
  <2>6. \A u \in Sleepers : task'[u].pend = {} /\ (Present(u)' => Present(u))
    <3>1. SUFFICES ASSUME NEW u \in Sleepers
                   PROVE  task'[u].pend = {} /\ (Present(u)' => Present(u))
      OBVIOUS
    <3>2. task[u].pend = {} /\ u \in Tasks
      BY DEF IInv, Others, Sleepers, Tasks
    <3>3. CASE u = t
      BY <1>1, <1>4, <3>2, <3>3 DEF Present
    <3>4. CASE u # t
      BY <1>4, <3>2, <3>4 DEF Present
    <3>. QED
      BY <3>3, <3>4
  <2>7. /\ proc'["peer"].shared \subseteq proc["peer"].shared \cup {"INT"} /\ proc'["peer"].armed = {}
        /\ proc'["peer"].disp = proc["peer"].disp
    <3>1. CASE Proc(t) = "peer"
      BY <1>5, <1>9, <3>1 DEF IInv, Others
    <3>2. CASE Proc(t) # "peer"
      BY <1>5, <3>2 DEF IInv, Others, Procs
    <3>. QED
      BY <3>1, <3>2
  <2>8. Answer'
    <3>1. /\ task'["peer"].pc \in Nat /\ task["peer"].pc \in Nat
          /\ proc'["main"].status = proc["main"].status
      BY <1>2, <1>4, <1>5 DEF Typed, Tasks, TaskType, Procs
    <3>2. ASSUME Sends
          PROVE  /\ task'["main"].pc = task["main"].pc /\ Pending("main")' = Pending("main")
                 /\ task'["peer"].pc >= task["peer"].pc
      <4>1. Proc(t) = "peer" /\ t = "peer"
        BY <1>2, <1>10, <3>2 DEF Procs
      <4>2. task["peer"].mode = "asleep" => At("peer").arg # "back"
        <5>1. SUFFICES ASSUME task["peer"].mode = "asleep" PROVE At("peer").arg # "back"
          OBVIOUS
        <5>2. ~ Ended("peer") /\ "peer" \in Tasks /\ program \in DOMAIN SignalPrograms
          BY <1>2, <5>1 DEF IInv, Live, Tasks, Typed
        <5>3. At("peer") = Row["peer"][task["peer"].pc] /\ task["peer"].pc \in DOMAIN Row["peer"]
              /\ Row = SignalPrograms[program]
          BY <1>2, <5>2, RowFacts, CallFacts
        <5>4. \A i \in DOMAIN SignalPrograms[program]["peer"] :
                SignalPrograms[program]["peer"][i].arg # "back"
          BY <5>2, PeersAssumption
        <5>. QED
          BY <5>3, <5>4
      <4>3. pc >= task["peer"].pc
        BY <1>3, <3>1, <4>1, <4>2 DEF ResumePc
      <4>. QED
        BY <1>4, <2>4, <4>1, <4>3
    <3>3. Sends => (Waited' <=> Waited)
      BY <3>2 DEF Waited
    <3>. QED
      BY <2>3, <3>1, <3>2, <3>3, AnswerStays
  <2>9. \A x \in Signals : proc'["peer"].disp[x] # "resend"
    BY <2>7 DEF IInv, Others
  <2>. QED
    BY <1>6, <1>7, <1>8, <1>11, <2>1, <2>2, <2>3, <2>5, <2>6, <2>7, <2>8, <2>9, MainStays
<1>. QED
  BY <1>12, <1>13

(* What kills a process is a signal of the programs that are meant to die. *)
LEMMA FatalFacts ==
  ASSUME IInv, NEW t \in Tasks, NEW s \in Deliverable(t), Handler(t, s) = "default", s # "INT"
  PROVE  <<program, Proc(t), s>> \in DiesOf
<1>1. /\ task[t].mode \in {"ready", "asleep"} /\ s \in Signals
      /\ s \in Pending(t) /\ s \notin Blocked(t) /\ proc[Proc(t)].status = "run"
      /\ Handler(t, s) = proc[Proc(t)].disp[s]
  BY DeliverableFacts DEF Handler
<1>2. /\ Typed /\ program \in DOMAIN SignalPrograms /\ Proc(t) \in Procs
      /\ (Proc(t) = "peer" => t = "peer") /\ Proc("main") = "main"
  BY ProcFacts DEF IInv, Typed
<1>3. t # "main" => task[t].pend = {}
  BY DEF IInv, Others, Tasks
<1>4. CASE Proc(t) = "peer"
  <2>1. s \in proc["peer"].shared
    BY <1>1, <1>2, <1>3, <1>4 DEF Pending
  <2>2. s \in PeerSigs(program)
    BY <2>1 DEF IInv, Others
  <2>. QED
    BY <1>2, <1>4, <2>2, FatalAssumption
<1>5. CASE Proc(t) = "main"
  <2>1. s \in Pending("main")
    BY <1>1, <1>3, <1>5, PendingMain DEF Pending
  <2>2. s \in (O.due \cup O.late) \ {"INT"}
    BY <1>1, <1>5, <2>1 DEF IInv, Comes, Running
  <2>3. task["main"].pc \in 1..End(program)
    BY <1>2, PcInOutline
  <2>4. \A i \in 1..End(program) :
          \A x \in (Outline(program)[i].due \cup Outline(program)[i].late) \ {"INT"} :
            \/ <<program, "main", x>> \in DiesOf
            \/ Outline(program)[i].disp[x] # "default"
            \/ /\ Kind(program) # "threads" /\ x \in Outline(program)[i].mask
               /\ (i < End(program) /\ Code(program)[i].op = "suspend") => x \in Code(program)[i].sigs
    BY <1>2, FatalAssumption
  <2>5. \/ <<program, "main", s>> \in DiesOf
        \/ O.disp[s] # "default"
        \/ /\ Kind(program) # "threads" /\ s \in O.mask
           /\ (task["main"].pc < End(program) /\ Code(program)[task["main"].pc].op = "suspend")
                => s \in Code(program)[task["main"].pc].sigs
    BY <2>2, <2>3, <2>4 DEF O
  <2>6. O.disp[s] = "default" /\ O.mask = task["main"].mask
    BY <1>1, <1>5 DEF IInv, Follows
  <2>7. ASSUME Kind(program) # "threads", s \in O.mask,
               (task["main"].pc < End(program) /\ Code(program)[task["main"].pc].op = "suspend")
                 => s \in Code(program)[task["main"].pc].sigs
        PROVE  FALSE
    <3>1. t = "main"
      <4>1. t = "peer" => Proc(t) = "peer"
        BY <1>2, <2>7, RowFacts DEF Proc
      <4>2. t = "third" => Threads
        BY <1>1 DEF IInv, Others, Present
      <4>. QED
        BY <1>5, <2>7, <4>1, <4>2 DEF Tasks, Threads
    <3>2. CASE Waits("main", "suspend")
      <4>1. ~ Ended("main") /\ At("main").op = "suspend"
        BY <3>2 DEF Waits, IInv, Live, Tasks
      <4>2. task["main"].pc \in DOMAIN Code(program) /\ At("main") = Code(program)[task["main"].pc]
        BY <1>2, <4>1, MainCall
      <4>3. task["main"].pc < End(program)
        BY <1>2, <4>1, <2>3, RowFacts DEF Ended, End, Tasks
      <4>4. s \in At("main").sigs
        BY <2>7, <4>1, <4>2, <4>3
      <4>. QED
        BY <1>1, <3>1, <3>2, <4>4 DEF Blocked, Waits
    <3>3. CASE ~ Waits("main", "suspend")
      <4>1. s \in task["main"].mask
        BY <2>6, <2>7
      <4>2. CASE Waits("main", "sigwait")
        BY <1>1, <3>1, <3>3, <4>1, <4>2 DEF Blocked
      <4>3. CASE ~ Waits("main", "sigwait")
        BY <1>1, <3>1, <3>3, <4>1, <4>3 DEF Blocked
      <4>. QED
        BY <4>2, <4>3
    <3>. QED
      BY <3>2, <3>3
  <2>. QED
    BY <1>5, <2>5, <2>6, <2>7
<1>. QED
  BY <1>2, <1>4, <1>5 DEF Procs

(* A handler that ends main has seen what the program is there for.        *)
LEMMA DyingFacts ==
  ASSUME IInv, NEW t \in Tasks, NEW s \in Deliverable(t), Handler(t, s) \in Dying, Proc(t) = "main"
  PROVE  ~ Sends /\ (program \in DOMAIN Meant => Meant[program] \subseteq {s})
<1>1. s \in Signals /\ proc["main"].disp[s] \in Dying
  BY DeliverableFacts DEF Handler
<1>2. ~ Sends
  BY <1>1, OutlineOfSender DEF Dying
<1>3. O.disp[s] \in Dying
  BY <1>1 DEF IInv, Follows
<1>4. task["main"].pc \in 1..End(program)
  BY PcInOutline DEF IInv
<1>5. program \in DOMAIN Meant => Meant[program] \subseteq {s}
  <2>1. program \in DOMAIN Meant => \A i \in 1..End(program) : \A x \in Signals :
          Outline(program)[i].disp[x] \in Dying => Meant[program] \subseteq {x}
    BY MeantAssumption
  <2>. QED
    BY <1>1, <1>3, <1>4, <2>1 DEF O
<1>. QED
  BY <1>2, <1>5

(* Every handler.                                                          *)
LEMMA DeliverKeeps ==
  ASSUME IInv, NEW t \in Tasks, Deliver(t)
  PROVE  IInv'
<1>1. PICK s \in Deliverable(t) :
        \/ Kills(t, s) \/ Ignored(t, s) \/ Noted(t, s) \/ Resends(t, s)
        \/ Exits(t, s) \/ Counts(t, s) \/ Stops(t, s)
  BY DEF Deliver
<1>2. /\ task[t].mode \in {"ready", "asleep"} /\ s \in Signals /\ proc[Proc(t)].status = "run"
  BY DeliverableFacts
<1>3. /\ Typed /\ Proc(t) \in Procs /\ proc \in [Procs -> ProcType] /\ caught \subseteq Signals
  BY ProcFacts DEF IInv, Typed
<1> DEFINE left == IF s \in task[t].pend THEN proc[Proc(t)].shared ELSE proc[Proc(t)].shared \ {s}
<1>4. Alters(proc, WithoutProc(t, s), Proc(t), proc[Proc(t)].disp, left, proc[Proc(t)].armed)
  BY <1>3, TakenFacts
<1>5. CASE Kills(t, s)
  <2>1. /\ Ends(Proc(t), s) /\ program' = program /\ reports' = reports /\ stray' = stray
        /\ interrupted' = interrupted /\ caught' = caught /\ Handler(t, s) = "default"
    BY <1>5 DEF Kills, Quiet
  <2>2. s \in Statuses \ {"run", "absent"} /\ s # "ok"
    BY <1>2 DEF Statuses, Signals
  <2>3. s \in (Signals \cup {"SEGV"}) \ {"INT"} => <<program, Proc(t), s>> \in DiesOf
    BY <2>1, FatalFacts
  <2>. QED
    BY <1>2, <1>3, <2>1, <2>2, <2>3, ProcessEnds
<1>6. CASE Ignored(t, s)
  <2>1. /\ task' = WithoutTask(t, s) /\ proc' = WithoutProc(t, s) /\ Handler(t, s) = "ignore"
        /\ program' = program /\ reports' = reports /\ stray' = stray
        /\ interrupted' = interrupted /\ caught' = caught
    BY <1>6 DEF Ignored, Quiet
  <2> DEFINE again == {}
  <2>2. Alters(proc, proc', Proc(t), proc[Proc(t)].disp, left \cup again, proc[Proc(t)].armed)
    <3>1. left \cup again = left
      OBVIOUS
    <3>. QED
      BY <1>4, <2>1, <3>1
  <2>3. again \in SUBSET {"USR1"} /\ again = {}
    OBVIOUS
  <2>. HIDE DEF again
  <2>. QED
    BY <2>1, <2>2, <2>3, Delivered
<1>7. CASE Noted(t, s)
  <2>1. /\ task' = Resumed(WithoutTask(t, s), t) /\ proc' = WithoutProc(t, s)
        /\ Handler(t, s) \notin {"default", "ignore"}
        /\ program' = program /\ reports' = reports /\ stray' = stray
        /\ interrupted' = interrupted /\ caught' = caught \cup {s}
    BY <1>7 DEF Noted, Caught
  <2> DEFINE again == {}
  <2>2. Alters(proc, proc', Proc(t), proc[Proc(t)].disp, left \cup again, proc[Proc(t)].armed)
    <3>1. left \cup again = left
      OBVIOUS
    <3>. QED
      BY <1>4, <2>1, <3>1
  <2>3. again \in SUBSET {"USR1"} /\ again = {}
    OBVIOUS
  <2>. HIDE DEF again
  <2>. QED
    BY <2>1, <2>2, <2>3, Delivered
<1>8. CASE Resends(t, s)
  <2>1. /\ task' = Resumed(WithoutTask(t, s), t) /\ Handler(t, s) = "resend"
        /\ proc' = [WithoutProc(t, s) EXCEPT ![Proc(t)].shared = @ \cup {"USR1"}]
        /\ program' = program /\ reports' = reports /\ stray' = stray
        /\ interrupted' = interrupted /\ caught' = caught \cup {s}
    BY <1>8 DEF Resends, Caught
  <2> DEFINE again == {"USR1"}
             pr    == WithoutProc(t, s)
  <2>2. Alters(proc, proc', Proc(t), proc[Proc(t)].disp, left \cup again, proc[Proc(t)].armed)
    <3>1. pr \in [Procs -> ProcType] /\ pr[Proc(t)].shared = left
      BY <1>4 DEF Alters
    <3>2. left \cup again \in SUBSET Signals
      <4>1. left \subseteq Signals
        BY <1>3 DEF ProcType
      <4>. QED
        BY <4>1 DEF Signals
    <3>3. proc' = [pr EXCEPT ![Proc(t)].shared = left \cup again]
      BY <2>1, <3>1
    <3>. HIDE DEF pr, left, again
    <3>4. Alters(pr, proc', Proc(t), pr[Proc(t)].disp, left \cup again, pr[Proc(t)].armed)
      BY <1>3, <3>1, <3>2, <3>3, SetShared
    <3>. QED
      BY <1>4, <3>4 DEF Alters, pr
  <2>3. again \in SUBSET {"USR1"} /\ Handler(t, s) \notin {"default", "ignore"}
    BY <2>1
  <2>. HIDE DEF again
  <2>. QED
    BY <2>1, <2>2, <2>3, Delivered
<1>9. CASE Exits(t, s)
  <2>1. /\ Ends(Proc(t), "ok") /\ program' = program /\ reports' = reports /\ stray' = stray
        /\ interrupted' = interrupted /\ caught' = caught \cup {s} /\ Handler(t, s) \in Dying
    BY <1>9 DEF Exits, Caught, Dying
  <2>2. "ok" \in Statuses \ {"run", "absent"} /\ "ok" \notin Signals \cup {"SEGV"}
    BY DEF Statuses, Signals
  <2>3. Proc(t) = "main" => ~ Sends /\ (program \in DOMAIN Meant => Meant[program] \subseteq caught')
    BY <2>1, DyingFacts
  <2>. QED
    BY <1>2, <1>3, <2>1, <2>2, <2>3, ProcessEnds
<1>10. CASE Counts(t, s)
  <2>1. /\ program' = program /\ reports' = reports /\ stray' = stray
        /\ interrupted' = interrupted /\ caught' = caught \cup {s} /\ Handler(t, s) \in {"count", "third"}
    BY <1>10 DEF Counts, Caught
  <2>2. CASE Ends(Proc(t), "ok")
    <3>1. "ok" \in Statuses \ {"run", "absent"} /\ "ok" \notin Signals \cup {"SEGV"}
      BY DEF Statuses, Signals
    <3>2. Proc(t) = "main" => ~ Sends /\ (program \in DOMAIN Meant => Meant[program] \subseteq caught')
      BY <2>1, DyingFacts DEF Dying
    <3>. QED
      BY <1>2, <1>3, <2>1, <2>2, <3>1, <3>2, ProcessEnds
  <2>3. CASE /\ ~ (proc[Proc(t)].ticks + 1 >= (IF Handler(t, s) = "count" THEN Ticks ELSE Third))
             /\ task' = Resumed(WithoutTask(t, s), t)
             /\ proc' = [WithoutProc(t, s) EXCEPT ![Proc(t)].ticks = @ + 1]
    <3> DEFINE again == {}
               pr    == WithoutProc(t, s)
               n     == pr[Proc(t)].ticks + 1
    <3>1. pr \in [Procs -> ProcType] /\ pr[Proc(t)].ticks = proc[Proc(t)].ticks
      <4>1. pr \in [Procs -> ProcType]
        BY <1>4 DEF Alters
      <4>2. pr[Proc(t)].ticks = proc[Proc(t)].ticks
        BY <1>3 DEF WithoutProc, ProcType
      <4>. QED
        BY <4>1, <4>2
    <3>2. n \in 0..Ticks
      <4>1. proc[Proc(t)].ticks \in 0..Ticks
        BY <1>3 DEF ProcType
      <4>2. proc[Proc(t)].ticks + 1 <= Ticks
        <5>1. CASE Handler(t, s) = "count"
          BY <2>3, <4>1, <5>1 DEF Ticks
        <5>2. CASE Handler(t, s) # "count"
          BY <2>3, <4>1, <5>2 DEF Ticks, Third
        <5>. QED
          BY <5>1, <5>2
      <4>. QED
        BY <3>1, <4>1, <4>2 DEF Ticks
    <3>3. proc' = [pr EXCEPT ![Proc(t)].ticks = n]
      BY <2>3
    <3>4. Alters(proc, proc', Proc(t), proc[Proc(t)].disp, left \cup again, proc[Proc(t)].armed)
      <4>. HIDE DEF pr, n
      <4>1. Alters(pr, proc', Proc(t), pr[Proc(t)].disp, pr[Proc(t)].shared, pr[Proc(t)].armed)
        BY <1>3, <3>1, <3>2, <3>3, SetTicks
      <4>2. left \cup again = left
        OBVIOUS
      <4>. HIDE DEF left
      <4>. QED
        BY <1>4, <4>1, <4>2 DEF Alters, pr
    <3>5. again \in SUBSET {"USR1"} /\ again = {} /\ Handler(t, s) \notin {"default", "ignore"}
      BY <2>1
    <3>. HIDE DEF again
    <3>. QED
      BY <2>1, <2>3, <3>4, <3>5, Delivered
  <2>. QED
    BY <1>10, <2>2, <2>3 DEF Counts
<1>11. CASE Stops(t, s)
  <2>1. PICK how \in {"ok", "failed"} : Ends(Proc(t), how)
    <3>1. Ends(Proc(t), IF "made" \in proc[Proc(t)].armed THEN "ok" ELSE "failed")
      BY <1>11 DEF Stops
    <3>. QED
      BY <3>1
  <2>2. /\ program' = program /\ reports' = reports /\ stray' = stray
        /\ interrupted' = interrupted /\ caught' = caught \cup {s} /\ Handler(t, s) \in Dying
    BY <1>11 DEF Stops, Caught, Dying
  <2>3. how \in Statuses \ {"run", "absent"} /\ how \notin Signals \cup {"SEGV"}
    BY DEF Statuses, Signals
  <2>4. Proc(t) = "main" => ~ Sends /\ (program \in DOMAIN Meant => Meant[program] \subseteq caught')
    BY <2>2, DyingFacts
  <2>. QED
    BY <1>2, <1>3, <2>1, <2>2, <2>3, <2>4, ProcessEnds
<1>. QED
  BY <1>1, <1>5, <1>6, <1>7, <1>8, <1>9, <1>10, <1>11

-----------------------------------------------------------------------------
(* Main takes a step.                                                      *)

(* A task that makes a call has nothing left to be delivered.              *)
LEMMA ReadyFacts ==
  ASSUME IInv, NEW t \in Tasks, task[t].mode = "ready", Deliverable(t) = {}
  PROVE  /\ Pending(t) \subseteq task[t].mask /\ proc[Proc(t)].status = "run"
         /\ Typed /\ Proc(t) \in Procs /\ Proc("main") = "main"
         /\ task \in [Tasks -> TaskType] /\ proc \in [Procs -> ProcType]
         /\ caught \subseteq Signals /\ reports \in Seq(Reports)
         /\ interrupted \in BOOLEAN /\ stray \in BOOLEAN
<1>1. Blocked(t) = task[t].mask
  BY DEF Blocked, Waits
<1>2. Pending(t) \ Blocked(t) = {}
  BY DEF Deliverable
<1>. QED
  BY <1>1, <1>2, ProcFacts DEF IInv, Typed, Live

LEMMA MainRuns ==
  ASSUME IInv, NEW op, Runs("main", op)
  PROVE  /\ ~ Ended("main") /\ At("main").op = op /\ Running /\ task["main"].mode = "ready"
         /\ Pending("main") \subseteq O.mask /\ O.mask = task["main"].mask
         /\ O.old = task["main"].old /\ O.disp = proc["main"].disp /\ O.shown = reports
         /\ At("main").sigs \subseteq Signals /\ (op = "on" => At("main").arg \in Handlers)
         /\ task["main"].pc + 1 <= Len(Row["main"]) + 1
<1>1. "main" \in Tasks
  BY DEF Tasks
<1>2. /\ task["main"].mode = "ready" /\ Deliverable("main") = {} /\ ~ Ended("main")
      /\ At("main").op = op
  BY DEF Runs
<1>3. Typed /\ Running /\ Pending("main") \subseteq task["main"].mask
  BY <1>1, <1>2, ReadyFacts DEF Running
<1>. QED
  BY <1>1, <1>2, <1>3, CallFacts DEF IInv, Follows

(* A call that does not wait: what could come has come, what main sends    *)
(* itself is pending.                                                      *)
LEMMA QuietGets ==
  ASSUME IInv, Running, At("main").op \notin Waiting, Pending("main") \subseteq O.mask,
         Pending("main")' = Pending("main") \cup ToSelf(At("main")),
         task["main"].pend \subseteq task'["main"].pend,
         Threads => ToMain(program, At("main")) \subseteq task'["main"].pend,
         proc'["main"].armed \subseteq
           proc["main"].armed \cup {"made"} \cup (IF At("main").op = "arm" THEN At("main").sigs ELSE {}),
         "made" \in proc'["main"].armed =>
           "made" \in proc["main"].armed \/ program # "syscall_time_create",
         caught' = caught
  PROVE  MainGets
<1> DEFINE c == At("main")
<1>1. /\ Pending("main") \subseteq O.due \cup O.late
      /\ O.sent \subseteq caught \cup Pending("main")
      /\ O.held \subseteq IF Threads THEN task["main"].pend ELSE Pending("main")
  BY DEF IInv, Comes
<1>. HIDE DEF c
<1>2. Pending("main")' \subseteq DueAfter(O, c) \cup LateAfter(program, O, c)
  <2>1. DueAfter(O, c) = (O.due \cap O.mask) \cup ToSelf(c) /\ O.late \subseteq LateAfter(program, O, c)
    BY DEF DueAfter, LateAfter, c
  <2>. QED
    BY <1>1, <2>1 DEF c
<1>3. SentAfter(O, c) \subseteq caught' \cup Pending("main")'
  <2>1. SentAfter(O, c) \subseteq O.sent \cup ToSelf(c)
    BY DEF SentAfter, Waiting, c
  <2>. QED
    BY <1>1, <2>1 DEF c
<1>4. HeldAfter(program, O, c) \subseteq IF Threads THEN task'["main"].pend ELSE Pending("main")'
  <2>1. HeldAfter(program, O, c) \subseteq O.held \cup ToMain(program, c)
    BY DEF HeldAfter, Waiting, c
  <2>2. ~ Threads => ToMain(program, c) = ToSelf(c)
    BY DEF ToMain, Threads
  <2>. QED
    BY <1>1, <2>1, <2>2 DEF c
<1>. QED
  BY <1>2, <1>3, <1>4 DEF MainGets, c, Waiting

LEMMA TypedMain ==
  ASSUME IInv, ~ Ended("main"), NEW mask, NEW old, NEW pend, Advances("main", mask, old, pend),
         program' = program, proc' \in [Procs -> ProcType], caught' \subseteq Signals,
         reports' \in Seq(Reports), interrupted' \in BOOLEAN, stray' \in BOOLEAN
  PROVE  /\ Typed' /\ task'["main"].pc = task["main"].pc + 1 /\ task'["main"].mode = "ready"
         /\ task'["main"].mask = mask /\ task'["main"].old = old /\ task'["main"].pend = pend
         /\ \A u \in Sleepers : task'[u] = task[u]
<1>1. "main" \in Tasks /\ Sleepers = Tasks \ {"main"} /\ Typed
  BY DEF Tasks, Sleepers, IInv
<1>2. task["main"].pc + 1 <= Len(Row["main"]) + 1
  BY <1>1, CallFacts
<1>3. Moves("main", task["main"].pc + 1, "ready", mask, old, pend)
  BY DEF Advances
<1>4. Typed'
  BY <1>1, <1>2, <1>3, MovesTyped
<1>. QED
  BY <1>1, <1>3, <1>4 DEF Moves

(* The calls that change nothing the outline follows.                      *)
LEMMA MainPasses ==
  ASSUME IInv, NEW op, Runs("main", op),
         op \notin Waiting \cup {"on", "block", "unblock", "setmask", "show", "kill", "check", "start"},
         Next1("main"), Quiet, NEW armed, \A q \in Procs \ {"main"} : proc'[q] = proc[q],
         Alters(proc, proc', "main", proc["main"].disp, proc["main"].shared, armed),
         armed \subseteq proc["main"].armed \cup {"made"} \cup (IF op = "arm" THEN At("main").sigs ELSE {}),
         "made" \in armed => "made" \in proc["main"].armed \/ program # "syscall_time_create"
  PROVE  IInv'
<1> DEFINE c == At("main")
<1>1. /\ ~ Ended("main") /\ c.op = op /\ Running /\ task["main"].mode = "ready"
      /\ Pending("main") \subseteq O.mask /\ O.mask = task["main"].mask
      /\ O.old = task["main"].old /\ O.disp = proc["main"].disp /\ O.shown = reports
  BY MainRuns
<1>2. /\ program' = program /\ caught' = caught /\ reports' = reports
      /\ interrupted' = interrupted /\ stray' = stray
  BY DEF Quiet
<1>3. /\ proc' \in [Procs -> ProcType] /\ proc'["main"].status = "run"
      /\ proc'["main"].disp = proc["main"].disp /\ proc'["main"].shared = proc["main"].shared
      /\ proc'["main"].armed = armed /\ proc'["peer"] = proc["peer"]
  BY <1>1 DEF Alters, Running, Procs
<1>4. /\ Typed /\ "main" \in Tasks /\ caught \subseteq Signals /\ reports \in Seq(Reports)
      /\ interrupted \in BOOLEAN /\ stray \in BOOLEAN
  BY DEF IInv, Typed, Tasks
<1>5. Keeps("main")
  BY <1>4, KeepsPast DEF Next1
<1>6. /\ Typed' /\ task'["main"].pc = task["main"].pc + 1 /\ task'["main"].mode = "ready"
      /\ task'["main"].mask = task["main"].mask /\ task'["main"].old = task["main"].old
      /\ task'["main"].pend = task["main"].pend
      /\ \A u \in Sleepers : task'[u] = task[u]
  BY <1>1, <1>2, <1>3, <1>4, <1>5, TypedMain DEF Keeps
<1>7. c.op \notin {"on", "block", "unblock", "setmask", "show", "kill", "check", "start", "suspend"}
      /\ c.op \notin Waiting
  BY <1>1 DEF Waiting
<1>. HIDE DEF c
<1>8. /\ MaskAfter(O, c) = O.mask /\ DispAfter(O, c) = O.disp /\ ShownAfter(O, c) = O.shown
      /\ SureAfter(O, c) = O.sure /\ ToSelf(c) = {} /\ ToMain(program, c) = {}
  BY <1>7 DEF MaskAfter, DispAfter, ShownAfter, SureAfter, ToSelf, ToMain
<1>9. O.sure \subseteq caught
  BY DEF IInv, Follows
<1>10. MainGoes
  BY <1>1, <1>2, <1>3, <1>6, <1>7, <1>8, <1>9 DEF MainGoes, c
<1>11. MainGets
  <2>1. Pending("main")' = Pending("main") \cup ToSelf(c)
    BY <1>3, <1>6, <1>8, PendingMain
  <2>. QED
    BY <1>1, <1>2, <1>3, <1>6, <1>7, <1>8, <2>1, QuietGets DEF c
<1>12. OthersSee
  BY <1>3, <1>6, <1>7 DEF OthersSee, c, Sleepers
<1>. QED
  BY <1>6, <1>10, <1>11, <1>12, MainReturns

(* Calls that touch neither masks nor handlers.                            *)
LEMMA TimersKeep ==
  ASSUME IInv, OpenPidfd("main") \/ SetEuid("main") \/ Join("main")
               \/ ArmTimer("main") \/ CreateTimer("main")
  PROVE  IInv'
<1>1. /\ Typed /\ proc \in [Procs -> ProcType] /\ "main" \in Procs /\ Proc("main") = "main"
      /\ proc["main"].armed \subseteq Timers
  BY ProcFacts DEF IInv, Typed, Procs, ProcType
<1>2. \A pr, armed, disp, shared :
        Alters(proc, pr, "main", disp, shared, armed) => \A q \in Procs \ {"main"} : pr[q] = proc[q]
  BY DEF Alters
<1>3. CASE OpenPidfd("main")
  <2>1. Runs("main", "pidfd") /\ Next1("main") /\ proc' = proc /\ Quiet
    BY <1>3 DEF OpenPidfd
  <2>2. Alters(proc, proc', "main", proc["main"].disp, proc["main"].shared, proc["main"].armed)
    BY <1>1, <2>1, SameAlters
  <2>. QED
    BY <1>2, <2>1, <2>2, MainPasses DEF Waiting
<1>4. CASE Join("main")
  <2>1. Runs("main", "join") /\ Next1("main") /\ proc' = proc /\ Quiet
    BY <1>4 DEF Join
  <2>2. Alters(proc, proc', "main", proc["main"].disp, proc["main"].shared, proc["main"].armed)
    BY <1>1, <2>1, SameAlters
  <2>. QED
    BY <1>2, <2>1, <2>2, MainPasses DEF Waiting
<1>5. CASE SetEuid("main")
  <2>1. Runs("main", "seteuid") /\ Next1("main") /\ proc' = [proc EXCEPT !["main"].eff = "nobody"] /\ Quiet
    BY <1>1, <1>5 DEF SetEuid
  <2>2. Alters(proc, proc', "main", proc["main"].disp, proc["main"].shared, proc["main"].armed)
    BY <1>1, <2>1, SetEff
  <2>. QED
    BY <1>2, <2>1, <2>2, MainPasses DEF Waiting
<1>6. CASE ArmTimer("main")
  <2> DEFINE armed == proc["main"].armed \cup At("main").sigs
  <2>1. Runs("main", "arm") /\ Next1("main") /\ proc' = [proc EXCEPT !["main"].armed = armed] /\ Quiet
    BY <1>1, <1>6 DEF ArmTimer
  <2>2. At("main").sigs \subseteq {"ALRM", "RTMIN"}
    BY <1>1, <2>1, MainCall DEF Runs
  <2>3. armed \in SUBSET Timers
    BY <1>1, <2>2 DEF Timers
  <2>4. /\ armed \subseteq proc["main"].armed \cup {"made"} \cup At("main").sigs
        /\ "made" \in armed => "made" \in proc["main"].armed
    BY <2>2
  <2>. HIDE DEF armed
  <2>5. Alters(proc, proc', "main", proc["main"].disp, proc["main"].shared, armed)
    BY <1>1, <2>1, <2>3, SetArmed
  <2>. QED
    BY <1>2, <2>1, <2>4, <2>5, MainPasses DEF Waiting
<1>7. CASE CreateTimer("main")
  <2>1. Runs("main", "timer") /\ Next1("main") /\ Quiet
    BY <1>7 DEF CreateTimer
  <2>2. CASE proc' = proc
    <3>1. Alters(proc, proc', "main", proc["main"].disp, proc["main"].shared, proc["main"].armed)
      BY <1>1, <2>2, SameAlters
    <3>. QED
      BY <1>2, <2>1, <3>1, MainPasses DEF Waiting
  <2>3. CASE /\ At("main").arg = "limited" => Pending("main") = {}
             /\ proc' = [proc EXCEPT !["main"].armed = @ \cup {"made"}]
    <3> DEFINE armed == proc["main"].armed \cup {"made"}
    <3>1. armed \in SUBSET Timers /\ proc' = [proc EXCEPT !["main"].armed = armed]
      BY <1>1, <2>3 DEF Timers
    <3>2. program # "syscall_time_create"
      <4>1. SUFFICES ASSUME program = "syscall_time_create" PROVE FALSE
        OBVIOUS
      <4>2. ~ Ended("main") /\ At("main").op = "timer" /\ Running
        BY <2>1, MainRuns
      <4>3. task["main"].pc \in DOMAIN Code(program) /\ At("main") = Code(program)[task["main"].pc]
        BY <1>1, <4>2, MainCall
      <4>4. At("main").arg = "limited" /\ O.held # {}
        BY <4>1, <4>2, <4>3, LimitAssumption DEF O
      <4>5. O.held \subseteq Pending("main")
        BY <4>2, PendingMain DEF IInv, Comes
      <4>. QED
        BY <2>3, <4>4, <4>5
    <3>. HIDE DEF armed
    <3>3. Alters(proc, proc', "main", proc["main"].disp, proc["main"].shared, armed)
      BY <1>1, <3>1, SetArmed
    <3>4. armed \subseteq proc["main"].armed \cup {"made"}
      BY DEF armed
    <3>. QED
      BY <1>2, <2>1, <3>2, <3>3, <3>4, MainPasses DEF Waiting
  <2>. QED
    BY <1>1, <1>7, <2>2, <2>3 DEF CreateTimer
<1>. QED
  BY <1>3, <1>4, <1>5, <1>6, <1>7

(* The calls that change handlers and masks, and those that print them.    *)
LEMMA MainChanges ==
  ASSUME IInv, NEW op \in {"on", "block", "unblock", "setmask", "show"}, Runs("main", op),
         NEW mask \in SUBSET Signals, NEW old \in SUBSET Signals, NEW disp \in [Signals -> Handlers],
         Advances("main", mask, old, task["main"].pend),
         Alters(proc, proc', "main", disp, proc["main"].shared, proc["main"].armed),
         mask = MaskAfter(O, At("main")), disp = DispAfter(O, At("main")),
         old = IF op \in {"block", "unblock"} THEN O.mask ELSE O.old,
         reports' \in Seq(Reports), reports' = ShownAfter(O, At("main")),
         program' = program, caught' = caught, interrupted' = interrupted, stray' = stray
  PROVE  IInv'
<1> DEFINE c == At("main")
<1>1. /\ ~ Ended("main") /\ c.op = op /\ Running /\ Pending("main") \subseteq O.mask
  BY MainRuns
<1>2. /\ proc' \in [Procs -> ProcType] /\ proc'["main"].status = "run"
      /\ proc'["main"].disp = disp /\ proc'["main"].shared = proc["main"].shared
      /\ proc'["main"].armed = proc["main"].armed /\ proc'["peer"] = proc["peer"]
  BY <1>1 DEF Alters, Running, Procs
<1>3. /\ caught \subseteq Signals /\ interrupted \in BOOLEAN /\ stray \in BOOLEAN
  BY DEF IInv, Typed
<1>4. /\ Typed' /\ task'["main"].pc = task["main"].pc + 1 /\ task'["main"].mode = "ready"
      /\ task'["main"].mask = mask /\ task'["main"].old = old
      /\ task'["main"].pend = task["main"].pend
      /\ \A u \in Sleepers : task'[u] = task[u]
  BY <1>1, <1>2, <1>3, TypedMain
<1>5. c.op \notin {"start", "kill", "suspend", "check", "sigwait", "arm"} /\ c.op \notin Waiting
  BY <1>1 DEF Waiting
<1>. HIDE DEF c
<1>6. SureAfter(O, c) = O.sure /\ ToSelf(c) = {} /\ ToMain(program, c) = {}
  BY <1>5 DEF SureAfter, ToSelf, ToMain
<1>7. O.sure \subseteq caught
  BY DEF IInv, Follows
<1>8. MainGoes
  BY <1>1, <1>2, <1>4, <1>6, <1>7 DEF MainGoes, c
<1>9. MainGets
  <2>1. Pending("main")' = Pending("main") \cup ToSelf(c)
    BY <1>2, <1>4, <1>6, PendingMain
  <2>. QED
    BY <1>1, <1>2, <1>4, <1>5, <1>6, <2>1, QuietGets DEF c
<1>10. OthersSee
  BY <1>2, <1>4, <1>5 DEF OthersSee, c, Sleepers
<1>. QED
  BY <1>4, <1>8, <1>9, <1>10, MainReturns

(* Calls that set the mask.                                                *)
LEMMA MasksKeep ==
  ASSUME IInv, Block("main") \/ Unblock("main") \/ RestoreMask("main")
  PROVE  IInv'
<1> DEFINE c == At("main")
<1>1. /\ Typed /\ proc \in [Procs -> ProcType] /\ "main" \in Procs /\ "main" \in Tasks
      /\ task["main"] \in TaskType /\ proc["main"].disp \in [Signals -> Handlers]
      /\ reports \in Seq(Reports)
  BY DEF IInv, Typed, Procs, Tasks, ProcType
<1>2. PICK op \in {"block", "unblock", "setmask"} : Runs("main", op)
  BY DEF Block, Unblock, RestoreMask
<1>3. /\ c.op = op /\ O.mask = task["main"].mask /\ O.old = task["main"].old
      /\ O.disp = proc["main"].disp /\ O.shown = reports /\ c.sigs \subseteq Signals
  BY <1>2, MainRuns
<1>4. /\ proc' = proc /\ program' = program /\ caught' = caught /\ reports' = reports
      /\ interrupted' = interrupted /\ stray' = stray
  BY DEF Block, Unblock, RestoreMask, Quiet
<1>5. Alters(proc, proc', "main", proc["main"].disp, proc["main"].shared, proc["main"].armed)
  BY <1>1, <1>4, SameAlters
<1>6. DispAfter(O, c) = O.disp /\ ShownAfter(O, c) = O.shown
  BY <1>3 DEF DispAfter, ShownAfter
<1> DEFINE mask == MaskAfter(O, c)
           old  == IF op \in {"block", "unblock"} THEN O.mask ELSE O.old
<1>7. mask \in SUBSET Signals /\ old \in SUBSET Signals
  BY <1>1, <1>3 DEF MaskAfter, TaskType
<1>8. Advances("main", mask, old, task["main"].pend)
  <2>1. CASE Block("main")
    <3>1. Runs("main", "block") /\ SetsMask("main", task["main"].mask \cup c.sigs)
      BY <2>1 DEF Block
    <3>2. c.op = "block"
      BY <3>1 DEF Runs
    <3>3. mask = task["main"].mask \cup c.sigs /\ old = task["main"].mask
      BY <1>3, <3>2 DEF MaskAfter
    <3>. HIDE DEF mask, old
    <3>. QED
      BY <1>1, <1>7, <3>1, <3>3, MaskMoves
  <2>2. CASE Unblock("main")
    <3>1. Runs("main", "unblock") /\ SetsMask("main", task["main"].mask \ c.sigs)
      BY <2>2 DEF Unblock
    <3>2. c.op = "unblock"
      BY <3>1 DEF Runs
    <3>3. mask = task["main"].mask \ c.sigs /\ old = task["main"].mask
      BY <1>3, <3>2 DEF MaskAfter
    <3>. HIDE DEF mask, old
    <3>. QED
      BY <1>1, <1>7, <3>1, <3>3, MaskMoves
  <2>3. CASE RestoreMask("main")
    <3>1. /\ Runs("main", "setmask")
          /\ task' = [Past(task, "main") EXCEPT !["main"].mask = task["main"].old]
      BY <2>3 DEF RestoreMask
    <3>2. c.op = "setmask"
      BY <3>1 DEF Runs
    <3>3. mask = task["main"].old /\ old = task["main"].old
      BY <1>3, <3>2 DEF MaskAfter
    <3>. HIDE DEF mask, old
    <3>. QED
      BY <1>1, <3>1, <3>3, RestoreMoves
  <2>. QED
    BY <2>1, <2>2, <2>3
<1>9. op \in {"on", "block", "unblock", "setmask", "show"}
  OBVIOUS
<1>10. mask = MaskAfter(O, c) /\ old = IF op \in {"block", "unblock"} THEN O.mask ELSE O.old
  OBVIOUS
<1>. HIDE DEF mask, old
<1>. QED
  BY <1>1, <1>2, <1>3, <1>4, <1>5, <1>6, <1>7, <1>8, <1>9, <1>10, MainChanges

(* A handler is installed.                                                 *)
LEMMA InstallKeeps ==
  ASSUME IInv, InstallHandler("main")
  PROVE  IInv'
<1> DEFINE c == At("main")
           disp == [s \in Signals |-> IF s \in c.sigs THEN c.arg ELSE proc["main"].disp[s]]
<1>1. /\ Typed /\ proc \in [Procs -> ProcType] /\ "main" \in Procs /\ "main" \in Tasks
      /\ task["main"] \in TaskType /\ proc["main"].disp \in [Signals -> Handlers]
      /\ reports \in Seq(Reports) /\ Proc("main") = "main"
  BY ProcFacts DEF IInv, Typed, Procs, Tasks, ProcType
<1>2. /\ Runs("main", "on") /\ Next1("main") /\ proc' = [proc EXCEPT !["main"].disp = disp]
      /\ program' = program /\ caught' = caught /\ reports' = reports
      /\ interrupted' = interrupted /\ stray' = stray
  BY <1>1 DEF InstallHandler, Quiet
<1>3. /\ c.op = "on" /\ O.mask = task["main"].mask /\ O.old = task["main"].old
      /\ O.disp = proc["main"].disp /\ O.shown = reports /\ c.arg \in Handlers
  BY <1>2, MainRuns
<1>4. disp \in [Signals -> Handlers]
  BY <1>1, <1>3
<1>5. /\ DispAfter(O, c) = disp /\ ShownAfter(O, c) = O.shown /\ MaskAfter(O, c) = task["main"].mask
  BY <1>3 DEF DispAfter, ShownAfter, MaskAfter
<1>. HIDE DEF disp
<1>6. Alters(proc, proc', "main", disp, proc["main"].shared, proc["main"].armed)
  BY <1>1, <1>2, <1>4, SetDisp
<1>7. Advances("main", task["main"].mask, task["main"].old, task["main"].pend)
  BY <1>1, <1>2, KeepsPast DEF Next1, Keeps
<1>8. task["main"].mask \in SUBSET Signals /\ task["main"].old \in SUBSET Signals
  BY <1>1 DEF TaskType
<1>. QED
  BY <1>1, <1>2, <1>3, <1>4, <1>5, <1>6, <1>7, <1>8, MainChanges

(* A set is printed.                                                       *)
LEMMA ReportKeeps ==
  ASSUME IInv, Report("main")
  PROVE  IInv'
<1> DEFINE c == At("main")
<1>1. /\ Typed /\ proc \in [Procs -> ProcType] /\ "main" \in Procs /\ "main" \in Tasks
      /\ task["main"] \in TaskType /\ proc["main"].disp \in [Signals -> Handlers]
      /\ reports \in Seq(Reports) /\ program \in DOMAIN SignalPrograms
  BY DEF IInv, Typed, Procs, Tasks, ProcType
<1> DEFINE sigs == Shows("main")
           said == [shows |-> sigs, says |-> Says("main")]
<1>2. /\ Runs("main", "show") /\ Next1("main") /\ proc' = proc /\ reports' = Append(reports, said)
      /\ program' = program /\ caught' = caught /\ interrupted' = interrupted /\ stray' = stray
  BY DEF Report
<1>3. /\ c.op = "show" /\ O.mask = task["main"].mask /\ O.old = task["main"].old
      /\ O.disp = proc["main"].disp /\ O.shown = reports /\ c.sigs \subseteq Signals
      /\ Running /\ ~ Ended("main")
  BY <1>2, MainRuns
<1>4. c.arg = "pending" => Pending("main") \cap task["main"].mask = O.held
  <2>1. SUFFICES ASSUME c.arg = "pending" PROVE Pending("main") \cap task["main"].mask = O.held
    OBVIOUS
  <2>2. /\ task["main"].pc \in DOMAIN Code(program) /\ c = Code(program)[task["main"].pc]
        /\ task["main"].pc \in 1..End(program)
    BY <1>1, <1>3, MainCall, PcInOutline
  <2>3. (O.due \cup O.late) \cap O.mask \subseteq O.held
    BY <1>1, <1>3, <2>1, <2>2, ShownAssumption DEF O
  <2>4. O.held \subseteq O.mask
    BY <1>1, <2>2, SentAssumption DEF O
  <2>5. O.held \subseteq Pending("main") /\ Pending("main") \subseteq O.due \cup O.late
    BY <1>3, PendingMain DEF IInv, Comes
  <2>. QED
    BY <1>3, <2>3, <2>4, <2>5
<1>5. said \in Reports
  <2>1. sigs \subseteq Signals
    BY <1>1, <1>3 DEF TaskType, Shows
  <2>2. Says("main") \subseteq Signals
    BY <1>1, <2>1 DEF TaskType, Says
  <2>. QED
    BY <2>1, <2>2 DEF Reports
<1>6. ShownAfter(O, c) = Append(reports, said)
  <2> DEFINE shown == CASE c.arg = "pending"                 -> O.held
                        [] c.arg = "mask"                    -> O.mask
                        [] c.arg \in {"old", "old as mask"} -> O.old
                        [] OTHER                             -> c.sigs
  <2>1. sigs = shown
    BY <1>3, <1>4 DEF Shows
  <2>2. Says("main") = IF c.arg \in AsMask THEN O.mask ELSE shown
    BY <1>3, <2>1 DEF Says
  <2>3. ShownAfter(O, c) = Append(O.shown, [shows |-> shown, says |-> IF c.arg \in AsMask THEN O.mask ELSE shown])
    BY <1>3 DEF ShownAfter
  <2>. HIDE DEF sigs, shown
  <2>. QED
    BY <1>3, <2>1, <2>2, <2>3
<1>7. reports' \in Seq(Reports) /\ reports' = ShownAfter(O, c)
  <2>. HIDE DEF said
  <2>. QED
    BY <1>1, <1>2, <1>5, <1>6
<1>8. /\ DispAfter(O, c) = O.disp /\ MaskAfter(O, c) = O.mask
  BY <1>3 DEF DispAfter, MaskAfter
<1>9. Alters(proc, proc', "main", proc["main"].disp, proc["main"].shared, proc["main"].armed)
  BY <1>1, <1>2, SameAlters
<1>10. Advances("main", task["main"].mask, task["main"].old, task["main"].pend)
  BY <1>1, <1>2, KeepsPast DEF Next1, Keeps
<1>11. task["main"].mask \in SUBSET Signals /\ task["main"].old \in SUBSET Signals
  BY <1>1 DEF TaskType
<1>. QED
  BY <1>1, <1>2, <1>3, <1>7, <1>8, <1>9, <1>10, <1>11, MainChanges

(* A signal is sent: by main to itself, its process or its peer.           *)
LEMMA KillKeeps ==
  ASSUME IInv, Kill("main")
  PROVE  IInv'
<1> DEFINE c == At("main")
           to == CASE c.arg = "parent" -> "main" [] c.arg = "peer" -> "peer" [] OTHER -> "main"
           pend   == IF c.arg = "thread" THEN task["main"].pend \cup c.sigs ELSE task["main"].pend
           shared == IF proc[to].status = "run" /\ c.arg # "thread"
                     THEN proc[to].shared \cup c.sigs ELSE proc[to].shared
<1>1. /\ Typed /\ task \in [Tasks -> TaskType] /\ proc \in [Procs -> ProcType]
      /\ "main" \in Tasks /\ Proc("main") = "main" /\ stray \in BOOLEAN
      /\ caught \subseteq Signals /\ reports \in Seq(Reports) /\ interrupted \in BOOLEAN
  BY ProcFacts DEF IInv, Typed, Tasks
<1>2. /\ Runs("main", "kill") /\ program' = program /\ caught' = caught /\ reports' = reports
      /\ interrupted' = interrupted
      /\ task' = [Past(task, "main") EXCEPT !["main"].pend =
                   IF c.arg = "thread" THEN @ \cup c.sigs ELSE @]
      /\ proc' = [proc EXCEPT ![to].shared =
                   IF proc[to].status = "run" /\ c.arg # "thread" THEN @ \cup c.sigs ELSE @]
      /\ stray' = (stray \/ (c.arg = "parent" /\ ~ (proc[to].status = "run")))
  BY <1>1 DEF Kill
<1>3. /\ ~ Ended("main") /\ c.op = "kill" /\ Running /\ Pending("main") \subseteq O.mask
      /\ O.mask = task["main"].mask /\ O.old = task["main"].old
      /\ O.disp = proc["main"].disp /\ O.shown = reports /\ c.sigs \subseteq Signals
  BY <1>2, MainRuns
<1>4. c.arg \in {"process", "thread", "peer"} /\ (c.arg = "peer" => c.sigs \subseteq PeerSigs(program))
  <2>1. /\ c.arg \in {"process", "thread", "peer"} /\ c = Code(program)[task["main"].pc]
        /\ task["main"].pc \in DOMAIN Code(program)
    BY <1>1, <1>3, MainCall
  <2>2. c.arg = "peer" => c.sigs \subseteq PeerSigs(program)
    <3>1. SUFFICES ASSUME c.arg = "peer" PROVE c.sigs \subseteq PeerSigs(program)
      OBVIOUS
    <3>2. task["main"].pc \in {i \in DOMAIN Code(program) : Code(program)[i].op = "kill" /\ Code(program)[i].arg = "peer"}
      BY <1>3, <2>1, <3>1
    <3>. QED
      BY <2>1, <3>2 DEF PeerSigs
  <2>. QED
    BY <2>1, <2>2
<1>5. to \in Procs /\ to = (IF c.arg = "peer" THEN "peer" ELSE "main") /\ stray' = stray
  BY <1>1, <1>2, <1>4 DEF Procs
<1>6. pend \in SUBSET Signals /\ shared \in SUBSET Signals
  <2>1. task["main"].pend \in SUBSET Signals /\ proc[to].shared \in SUBSET Signals
    BY <1>1, <1>5 DEF TaskType, ProcType
  <2>. QED
    BY <1>3, <2>1
<1>7. Alters(proc, proc', to, proc[to].disp, shared, proc[to].armed)
  <2>1. proc' = [proc EXCEPT ![to].shared = shared]
    BY <1>2
  <2>. HIDE DEF to, shared
  <2>. QED
    BY <1>1, <1>5, <1>6, <2>1, SetShared
<1>8. Advances("main", task["main"].mask, task["main"].old, pend)
  <2> DEFINE tsk == Past(task, "main")
  <2>1. /\ tsk \in [Tasks -> TaskType] /\ \A u \in Tasks \ {"main"} : tsk[u] = task[u]
        /\ tsk["main"].pc = task["main"].pc + 1 /\ tsk["main"].mode = "ready"
        /\ tsk["main"].pend = task["main"].pend
        /\ tsk["main"].mask = task["main"].mask /\ tsk["main"].old = task["main"].old
    BY <1>1, PastMoves
  <2>. HIDE DEF tsk
  <2> DEFINE r == [tsk["main"] EXCEPT !.pend = pend]
  <2>2. task' = [tsk EXCEPT !["main"] = r]
    BY <1>2, <2>1 DEF tsk
  <2>3. tsk["main"] \in TaskType
    BY <1>1, <2>1
  <2>. HIDE DEF pend
  <2>4. r \in TaskType /\ r.pc = tsk["main"].pc /\ r.mode = tsk["main"].mode
        /\ r.mask = tsk["main"].mask /\ r.old = tsk["main"].old /\ r.pend = pend
    BY <1>6, <2>3 DEF TaskType
  <2>. HIDE DEF r
  <2>. QED
    BY <1>1, <2>1, <2>2, <2>4 DEF Advances, Moves
<1>. HIDE DEF to
<1>9. /\ proc' \in [Procs -> ProcType] /\ proc'["main"].status = "run"
      /\ proc'["main"].disp = proc["main"].disp /\ proc'["main"].armed = proc["main"].armed
      /\ proc'["peer"].status = proc["peer"].status /\ proc'["peer"].disp = proc["peer"].disp
      /\ proc'["peer"].armed = proc["peer"].armed
  BY <1>3, <1>5, <1>7 DEF Alters, Running, Procs
<1>10. /\ proc'["main"].shared = proc["main"].shared \cup (IF c.arg = "process" THEN c.sigs ELSE {})
       /\ proc'["peer"].shared \subseteq proc["peer"].shared \cup PeerSigs(program)
  <2>1. CASE c.arg = "peer"
    BY <1>4, <1>5, <1>7, <2>1 DEF Alters, Procs
  <2>2. CASE c.arg # "peer"
    BY <1>3, <1>4, <1>5, <1>7, <2>2 DEF Alters, Procs, Running
  <2>. QED
    BY <2>1, <2>2
<1>11. /\ Typed' /\ task'["main"].pc = task["main"].pc + 1 /\ task'["main"].mode = "ready"
       /\ task'["main"].mask = task["main"].mask /\ task'["main"].old = task["main"].old
       /\ task'["main"].pend = pend /\ \A u \in Sleepers : task'[u] = task[u]
  <2>1. /\ proc' \in [Procs -> ProcType] /\ caught' \subseteq Signals /\ reports' \in Seq(Reports)
        /\ interrupted' \in BOOLEAN /\ stray' \in BOOLEAN /\ program' = program
    BY <1>1, <1>2, <1>5, <1>9
  <2>. HIDE DEF pend
  <2>. QED
    BY <1>3, <1>8, <2>1, TypedMain
<1>. HIDE DEF shared
<1>12. /\ MaskAfter(O, c) = O.mask /\ DispAfter(O, c) = O.disp /\ ShownAfter(O, c) = O.shown
       /\ SureAfter(O, c) = O.sure
       /\ ToSelf(c) = IF c.arg = "peer" THEN {} ELSE c.sigs
       /\ ToMain(program, c) = IF Threads /\ c.arg # "thread" THEN {} ELSE ToSelf(c)
  BY <1>3, <1>4 DEF MaskAfter, DispAfter, ShownAfter, SureAfter, ToSelf, ToMain, Threads
<1>13. O.sure \subseteq caught
  BY DEF IInv, Follows
<1>14. MainGoes
  BY <1>2, <1>3, <1>5, <1>9, <1>11, <1>12, <1>13 DEF MainGoes
<1>15. MainGets
  <2>1. Pending("main")' = Pending("main") \cup ToSelf(c)
    BY <1>4, <1>10, <1>11, <1>12, PendingMain
  <2>2. Threads => ToMain(program, c) \subseteq task'["main"].pend
    BY <1>11, <1>12
  <2>3. task["main"].pend \subseteq task'["main"].pend
    BY <1>11
  <2>. QED
    BY <1>2, <1>3, <1>9, <2>1, <2>2, <2>3, QuietGets DEF Waiting
<1>16. OthersSee
  BY <1>3, <1>9, <1>10, <1>11 DEF OthersSee, Sleepers
<1>. QED
  BY <1>11, <1>14, <1>15, <1>16, MainReturns

(* The flag is looked at; if it is set, main skips the pause.              *)
LEMMA CheckKeeps ==
  ASSUME IInv, Check("main")
  PROVE  IInv'
<1> DEFINE c == At("main")
           pc == task["main"].pc + (IF c.sigs \subseteq caught THEN 2 ELSE 1)
           r  == [task["main"] EXCEPT !.pc = pc]
<1>1. /\ Typed /\ task \in [Tasks -> TaskType] /\ "main" \in Tasks /\ task["main"] \in TaskType
      /\ task["main"].pc \in Nat \ {0} /\ proc \in [Procs -> ProcType]
      /\ caught \subseteq Signals /\ reports \in Seq(Reports) /\ interrupted \in BOOLEAN
      /\ stray \in BOOLEAN
  BY DEF IInv, Typed, Tasks, TaskType
<1>2. /\ Runs("main", "check") /\ task' = [task EXCEPT !["main"] = r] /\ proc' = proc
      /\ program' = program /\ caught' = caught /\ reports' = reports
      /\ interrupted' = interrupted /\ stray' = stray
  BY DEF Check, Quiet
<1>3. /\ ~ Ended("main") /\ c.op = "check" /\ Running /\ Pending("main") \subseteq O.mask
      /\ O.mask = task["main"].mask /\ O.old = task["main"].old /\ task["main"].mode = "ready"
      /\ O.disp = proc["main"].disp /\ O.shown = reports
  BY <1>2, MainRuns
<1>4. pc \in {task["main"].pc + 1, task["main"].pc + 2} /\ pc \in Nat \ {0} /\ pc <= Len(Row["main"]) + 1
  <2>1. task["main"].pc < Len(Code(program)) /\ Len(Code(program)) \in Nat
    BY <1>1, <1>3, MainCall, RowFacts
  <2>2. Row["main"] = Code(program)
    BY <1>1, RowFacts
  <2>. QED
    BY <1>1, <2>1, <2>2
<1>. HIDE DEF pc
<1>5. r \in TaskType /\ r.pc = pc /\ r.mode = task["main"].mode /\ r.mask = task["main"].mask
      /\ r.old = task["main"].old /\ r.pend = task["main"].pend
  BY <1>1, <1>4 DEF TaskType
<1>. HIDE DEF r
<1>6. Moves("main", pc, "ready", task["main"].mask, task["main"].old, task["main"].pend)
  BY <1>1, <1>2, <1>3, <1>5 DEF Moves
<1>7. Typed'
  BY <1>1, <1>2, <1>4, <1>6, MovesTyped
<1>8. /\ task'["main"] = r /\ \A u \in Sleepers : task'[u] = task[u]
  BY <1>1, <1>2 DEF Sleepers, Tasks
<1>. HIDE DEF c
<1>9. /\ MaskAfter(O, c) = O.mask /\ DispAfter(O, c) = O.disp /\ ShownAfter(O, c) = O.shown
      /\ SureAfter(O, c) = O.sure /\ ToSelf(c) = {} /\ ToMain(program, c) = {}
  BY <1>3 DEF MaskAfter, DispAfter, ShownAfter, SureAfter, ToSelf, ToMain
<1>10. O.sure \subseteq caught
  BY DEF IInv, Follows
<1>11. MainGoes
  BY <1>2, <1>3, <1>4, <1>5, <1>8, <1>9, <1>10 DEF MainGoes, c, Running
<1>12. MainGets
  <2>1. Pending("main")' = Pending("main") \cup ToSelf(c)
    BY <1>2, <1>5, <1>8, <1>9, PendingMain
  <2>. QED
    BY <1>2, <1>3, <1>5, <1>8, <1>9, <2>1, QuietGets DEF c, Waiting
<1>13. OthersSee
  BY <1>2, <1>3, <1>8 DEF OthersSee, c, Sleepers
<1>. QED
  BY <1>7, <1>11, <1>12, <1>13, MainReturns

(* A thread or a child is started; the child has handlers and mask of      *)
(* main.                                                                   *)
LEMMA StartKeeps ==
  ASSUME IInv, Start("main")
  PROVE  IInv'
<1> DEFINE c   == At("main")
           new == c.arg
           tsk == Past(task, "main")
           r   == [Fresh("ready") EXCEPT !.mask = task["main"].mask]
           pr  == [proc["main"] EXCEPT !.shared = {}, !.armed = {}]
<1>1. /\ Typed /\ task \in [Tasks -> TaskType] /\ "main" \in Tasks /\ task["main"] \in TaskType
      /\ proc \in [Procs -> ProcType] /\ Proc("main") = "main"
      /\ caught \subseteq Signals /\ reports \in Seq(Reports) /\ interrupted \in BOOLEAN
      /\ stray \in BOOLEAN
  BY ProcFacts DEF IInv, Typed, Tasks
<1>2. /\ Runs("main", "start") /\ task' = [tsk EXCEPT ![new] = r]
      /\ proc' = IF Row.kind = "fork" THEN [proc EXCEPT ![new] = pr] ELSE proc
      /\ program' = program /\ caught' = caught /\ reports' = reports
      /\ interrupted' = interrupted /\ stray' = stray
  BY <1>1 DEF Start, Quiet
<1>3. /\ ~ Ended("main") /\ c.op = "start" /\ Running /\ Pending("main") \subseteq O.mask
      /\ O.mask = task["main"].mask /\ O.old = task["main"].old
      /\ O.disp = proc["main"].disp /\ O.shown = reports
  BY <1>2, MainRuns
<1>4. /\ new \in Sleepers /\ Kind(program) \in {"threads", "fork"}
      /\ Kind(program) = "fork" => new = "peer"
      /\ Row.kind = Kind(program)
  BY <1>1, <1>3, MainCall, RowFacts
<1>5. /\ tsk \in [Tasks -> TaskType] /\ \A u \in Tasks \ {"main"} : tsk[u] = task[u]
      /\ tsk["main"].pc = task["main"].pc + 1 /\ tsk["main"].mode = "ready"
      /\ tsk["main"].pend = task["main"].pend
      /\ tsk["main"].mask = task["main"].mask /\ tsk["main"].old = task["main"].old
  BY <1>1, PastMoves
<1>6. r \in TaskType /\ r.pc = 1 /\ r.mode = "ready" /\ r.pend = {}
  <2>1. task["main"].mask \in SUBSET Signals
    BY <1>1 DEF TaskType
  <2>. QED
    BY <2>1 DEF Fresh, TaskType
<1>. HIDE DEF tsk, r
<1>7. /\ task' \in [Tasks -> TaskType] /\ task'["main"] = tsk["main"] /\ task'[new] = r
      /\ \A u \in Sleepers : u # new => task'[u] = task[u]
  BY <1>1, <1>2, <1>4, <1>5, <1>6 DEF Sleepers, Tasks
<1>8. /\ proc' \in [Procs -> ProcType] /\ proc'["main"] = proc["main"]
      /\ IF Kind(program) = "fork"
         THEN /\ proc'["peer"].status = "run" /\ proc'["peer"].disp = proc["main"].disp
              /\ proc'["peer"].shared = {} /\ proc'["peer"].armed = {}
         ELSE proc'["peer"] = proc["peer"]
  <2>1. CASE Kind(program) = "fork"
    <3>1. proc["main"] \in ProcType
      BY <1>1 DEF Procs
    <3>2. pr \in ProcType /\ pr.status = "run" /\ pr.disp = proc["main"].disp
          /\ pr.shared = {} /\ pr.armed = {}
      BY <1>3, <3>1 DEF ProcType, Running
    <3>. HIDE DEF pr
    <3>. QED
      BY <1>1, <1>2, <1>4, <2>1, <3>2 DEF Procs
  <2>2. CASE Kind(program) # "fork"
    BY <1>1, <1>2, <1>4, <2>2
  <2>. QED
    BY <2>1, <2>2
<1>9. Typed'
  <2>1. task["main"].pc + 1 <= Len(Row["main"]) + 1
    BY <1>1, <1>3, CallFacts
  <2>2. \A u \in Tasks : task'[u].pc <= Len(Row'[u]) + 1
    <3>1. SUFFICES ASSUME NEW u \in Tasks PROVE task'[u].pc <= Len(Row[u]) + 1
      BY <1>2, SameProgram
    <3>2. CASE u = "main"
      BY <1>5, <1>7, <2>1, <3>2
    <3>3. CASE u = new
      BY <1>1, <1>6, <1>7, <3>3, RowFacts
    <3>4. CASE u \notin {"main", new}
      BY <1>1, <1>7, <3>4 DEF Typed, Sleepers, Tasks
    <3>. QED
      BY <3>2, <3>3, <3>4
  <2>. QED
    BY <1>1, <1>2, <1>7, <1>8, <2>2 DEF Typed
<1>10. /\ MaskAfter(O, c) = O.mask /\ DispAfter(O, c) = O.disp /\ ShownAfter(O, c) = O.shown
       /\ SureAfter(O, c) = O.sure /\ ToSelf(c) = {} /\ ToMain(program, c) = {}
  BY <1>3 DEF MaskAfter, DispAfter, ShownAfter, SureAfter, ToSelf, ToMain
<1>11. O.sure \subseteq caught
  BY DEF IInv, Follows
<1>12. MainGoes
  BY <1>2, <1>3, <1>5, <1>7, <1>8, <1>10, <1>11 DEF MainGoes, Running
<1>13. MainGets
  <2>1. Pending("main")' = Pending("main") \cup ToSelf(c)
    BY <1>5, <1>7, <1>8, <1>10, PendingMain
  <2>. QED
    BY <1>2, <1>3, <1>5, <1>7, <1>8, <1>10, <2>1, QuietGets DEF Waiting
<1>14. OthersSee
  <2>1. \A u \in Sleepers :
          \/ task'[u] = task[u]
          \/ u = c.arg /\ task'[u].pend = {} /\ task'[u].mode = "ready" /\ task'[u].pc = 1
    BY <1>6, <1>7
  <2>. QED
    BY <1>3, <1>4, <1>8, <2>1 DEF OthersSee
<1>. QED
  BY <1>9, <1>12, <1>13, <1>14, MainReturns

(* Main waits no longer, or does without the call it was refused.          *)
LEMMA MainGivesUp ==
  ASSUME IInv, ~ Ended("main"), Running, task["main"].mode \in {"ready", "asleep"},
         At("main").op \in Waiting \cup {"start"},
         At("main").op = "suspend" => At("main").refused # "never",
         At("main").op = "sigwait" => Unread("main") \/ At("main").refused = "on",
         At("main").op = "start" => Pending("main") \subseteq O.mask,
         Next1("main"), proc' = proc, Quiet
  PROVE  IInv'
<1> DEFINE c == At("main")
<1>1. /\ Typed /\ "main" \in Tasks /\ proc \in [Procs -> ProcType]
      /\ caught \subseteq Signals /\ reports \in Seq(Reports) /\ interrupted \in BOOLEAN
      /\ stray \in BOOLEAN
  BY DEF IInv, Typed, Tasks
<1>2. /\ program' = program /\ caught' = caught /\ reports' = reports
      /\ interrupted' = interrupted /\ stray' = stray
  BY DEF Quiet
<1>3. Advances("main", task["main"].mask, task["main"].old, task["main"].pend)
  BY <1>1, KeepsPast DEF Next1, Keeps
<1>4. /\ Typed' /\ task'["main"].pc = task["main"].pc + 1 /\ task'["main"].mode = "ready"
      /\ task'["main"].mask = task["main"].mask /\ task'["main"].old = task["main"].old
      /\ task'["main"].pend = task["main"].pend /\ \A u \in Sleepers : task'[u] = task[u]
  BY <1>1, <1>2, <1>3, TypedMain
<1>5. Pending("main")' = Pending("main")
  BY <1>4, PendingMain
<1>6. /\ O.mask = task["main"].mask /\ O.old = task["main"].old /\ O.disp = proc["main"].disp
      /\ O.shown = reports /\ O.sure \subseteq caught
  BY DEF IInv, Follows
<1>7. c.op \notin {"on", "block", "unblock", "setmask", "show", "kill", "check", "arm"}
  BY DEF Waiting
<1>. HIDE DEF c
<1>8. /\ MaskAfter(O, c) = O.mask /\ DispAfter(O, c) = O.disp /\ ShownAfter(O, c) = O.shown
      /\ SureAfter(O, c) = O.sure /\ ToSelf(c) = {} /\ ToMain(program, c) = {}
  BY <1>7 DEF MaskAfter, DispAfter, ShownAfter, SureAfter, ToSelf, ToMain, c
<1>9. MainGoes
  BY <1>2, <1>4, <1>6, <1>7, <1>8 DEF MainGoes, Running, c
<1>10. MainGets
  <2>1. /\ Pending("main") \subseteq O.due \cup O.late
        /\ O.sent \subseteq caught \cup Pending("main")
        /\ O.held \subseteq IF Threads THEN task["main"].pend ELSE Pending("main")
        /\ proc["main"].armed \subseteq {"made"} \cup O.late
    BY DEF IInv, Comes
  <2>2. Pending("main") \subseteq DueAfter(O, c) \cup LateAfter(program, O, c)
    <3>1. O.late \subseteq LateAfter(program, O, c)
      BY DEF LateAfter
    <3>2. CASE c.op \in Waiting
      BY <2>1, <3>1, <3>2 DEF DueAfter
    <3>3. CASE c.op = "start"
      BY <2>1, <3>1, <3>3 DEF DueAfter, Waiting, c
    <3>. QED
      BY <3>2, <3>3 DEF c
  <2>3. SentAfter(O, c) \subseteq O.sent /\ HeldAfter(program, O, c) \subseteq O.held
    BY <1>8 DEF SentAfter, HeldAfter
  <2>4. ~ (c.op = "sigwait" /\ Sends)
    <3>1. SUFFICES ASSUME c.op = "sigwait", Sends PROVE FALSE
      OBVIOUS
    <3>2. task["main"].pc \in DOMAIN Code(program) /\ c = Code(program)[task["main"].pc]
      BY <1>1, MainCall DEF c
    <3>3. c.arg = "result" /\ c.refused = "exit"
      BY <1>1, <3>1, <3>2, SendsFacts
    <3>. QED
      BY <3>1, <3>3 DEF Unread, c
  <2>. QED
    BY <1>2, <1>4, <1>5, <2>1, <2>2, <2>3, <2>4 DEF MainGets, c
<1>11. OthersSee
  BY <1>4, <1>6 DEF OthersSee, Sleepers
<1>. QED
  BY <1>4, <1>9, <1>10, <1>11, MainReturns

(* sigtimedwait takes a signal.                                            *)
LEMMA TakeKeeps ==
  ASSUME IInv, Take("main")
  PROVE  IInv'
<1> DEFINE c == At("main")
<1>1. /\ Typed /\ "main" \in Tasks /\ proc \in [Procs -> ProcType] /\ Proc("main") = "main"
      /\ caught \subseteq Signals /\ reports \in Seq(Reports) /\ interrupted \in BOOLEAN
      /\ stray \in BOOLEAN
  BY ProcFacts DEF IInv, Typed, Tasks
<1>2. /\ task["main"].mode = "asleep" /\ c.op = "sigwait" /\ ~ Ended("main") /\ Running
  BY <1>1 DEF Take, Waits, IInv, Live, Running
<1>3. PICK s \in Pending("main") \cap c.sigs :
        task' = Past(WithoutTask("main", s), "main") /\ proc' = WithoutProc("main", s)
  BY DEF Take
<1>4. /\ program' = program /\ caught' = caught /\ reports' = reports
      /\ interrupted' = interrupted /\ stray' = stray
  BY DEF Take, Quiet
<1> DEFINE tsk == WithoutTask("main", s)
           shared == IF s \in task["main"].pend THEN proc["main"].shared ELSE proc["main"].shared \ {s}
<1>5. /\ tsk \in [Tasks -> TaskType] /\ tsk["main"].pc = task["main"].pc
      /\ tsk["main"].mask = task["main"].mask /\ tsk["main"].old = task["main"].old
      /\ tsk["main"].pend = task["main"].pend \ {s}
  BY <1>1, TakenFacts
<1>6. \A u \in Tasks \ {"main"} : tsk[u] = task[u]
  BY <1>1 DEF WithoutTask, Typed
<1>7. Alters(proc, proc', "main", proc["main"].disp, shared, proc["main"].armed)
  <2>1. Alters(proc, WithoutProc("main", s), Proc("main"), proc[Proc("main")].disp,
               IF s \in task["main"].pend THEN proc[Proc("main")].shared
               ELSE proc[Proc("main")].shared \ {s}, proc[Proc("main")].armed)
    BY <1>1, TakenFacts
  <2>. QED
    BY <1>1, <1>3, <2>1
<1>. HIDE DEF tsk
<1>8. Advances("main", task["main"].mask, task["main"].old, task["main"].pend \ {s})
  <2>1. /\ task' \in [Tasks -> TaskType] /\ \A u \in Tasks \ {"main"} : task'[u] = tsk[u]
        /\ task'["main"].pc = tsk["main"].pc + 1 /\ task'["main"].mode = "ready"
        /\ task'["main"].mask = tsk["main"].mask /\ task'["main"].old = tsk["main"].old
        /\ task'["main"].pend = tsk["main"].pend
    BY <1>1, <1>3, <1>5, PastMoves DEF tsk
  <2>. QED
    BY <1>5, <1>6, <2>1 DEF Advances, Moves
<1>9. /\ proc' \in [Procs -> ProcType] /\ proc'["main"].status = "run"
      /\ proc'["main"].disp = proc["main"].disp /\ proc'["main"].shared = shared
      /\ proc'["main"].armed = proc["main"].armed /\ proc'["peer"] = proc["peer"]
  BY <1>2, <1>7 DEF Alters, Running, Procs
<1>10. /\ Typed' /\ task'["main"].pc = task["main"].pc + 1 /\ task'["main"].mode = "ready"
       /\ task'["main"].mask = task["main"].mask /\ task'["main"].old = task["main"].old
       /\ task'["main"].pend = task["main"].pend \ {s} /\ \A u \in Sleepers : task'[u] = task[u]
  BY <1>1, <1>2, <1>4, <1>8, <1>9, TypedMain
<1>11. /\ Pending("main") \ {s} \subseteq Pending("main")' /\ Pending("main")' \subseteq Pending("main")
  BY <1>9, <1>10, PendingMain
<1>12. /\ O.mask = task["main"].mask /\ O.old = task["main"].old /\ O.disp = proc["main"].disp
       /\ O.shown = reports /\ O.sure \subseteq caught
  BY DEF IInv, Follows
<1>13. /\ MaskAfter(O, c) = O.mask /\ DispAfter(O, c) = O.disp /\ ShownAfter(O, c) = O.shown
       /\ SureAfter(O, c) = O.sure /\ DueAfter(O, c) = O.due
       /\ SentAfter(O, c) \subseteq O.sent \ c.sigs /\ HeldAfter(program, O, c) = O.held \ c.sigs
  BY <1>2 DEF MaskAfter, DispAfter, ShownAfter, SureAfter, DueAfter, Waiting, SentAfter, HeldAfter
<1>14. MainGoes
  BY <1>2, <1>4, <1>9, <1>10, <1>12, <1>13 DEF MainGoes, Running
<1>15. MainGets
  <2>1. /\ Pending("main") \subseteq O.due \cup O.late
        /\ O.sent \subseteq caught \cup Pending("main")
        /\ O.held \subseteq IF Threads THEN task["main"].pend ELSE Pending("main")
    BY <1>2 DEF IInv, Comes
  <2>2. O.late \subseteq LateAfter(program, O, c)
    BY DEF LateAfter
  <2>3. Sends => Pending("main") \cap Foreign(program) # {}
    <3>1. SUFFICES ASSUME Sends PROVE Pending("main") \cap Foreign(program) # {}
      OBVIOUS
    <3>2. task["main"].pc \in DOMAIN Code(program) /\ c = Code(program)[task["main"].pc]
      BY <1>1, <1>2, MainCall
    <3>3. c.sigs \subseteq Foreign(program)
      BY <1>1, <1>2, <3>1, <3>2, SendsFacts
    <3>. QED
      BY <1>3, <3>3
  <2>. HIDE DEF c
  <2>. QED
    BY <1>2, <1>3, <1>4, <1>9, <1>10, <1>11, <1>13, <2>1, <2>2, <2>3 DEF MainGets, c
<1>16. OthersSee
  BY <1>2, <1>9, <1>10 DEF OthersSee, Sleepers
<1>. QED
  BY <1>10, <1>14, <1>15, <1>16, MainReturns

(* What main has been sent has come when it returns.                       *)
LEMMA ReturnFacts ==
  ASSUME IInv, Ended("main"), task["main"].mode = "ready", Deliverable("main") = {}
  PROVE  (Sends => Waited) /\ (program \in DOMAIN Meant => Meant[program] \subseteq caught)
<1>1. /\ Typed /\ "main" \in Tasks /\ Running /\ Pending("main") \subseteq task["main"].mask
      /\ program \in DOMAIN SignalPrograms
  BY ReadyFacts DEF Tasks, Running, IInv, Typed
<1>2. /\ Row["main"] = Code(program) /\ Len(Row["main"]) \in Nat
      /\ DOMAIN Row["main"] = 1..Len(Row["main"]) /\ task["main"].pc \in Nat
      /\ task["main"].pc > Len(Row["main"]) /\ task["main"].pc <= Len(Row["main"]) + 1
  BY <1>1, RowFacts DEF Ended, Typed
<1>3. task["main"].pc = End(program)
  BY <1>2 DEF End
<1>4. Sends => Waited
  <2>1. SUFFICES ASSUME Sends PROVE Waited
    OBVIOUS
  <2>2. PICK w \in DOMAIN Code(program) : Code(program)[w].op = "sigwait"
    BY <1>1, <2>1, SendsFacts
  <2>3. w < task["main"].pc
    BY <1>2, <2>2
  <2>. QED
    BY <2>2, <2>3 DEF Waited
<1>5. program \in DOMAIN Meant => Meant[program] \subseteq caught
  <2>1. SUFFICES ASSUME program \in DOMAIN Meant PROVE Meant[program] \subseteq caught
    OBVIOUS
  <2>2. Meant[program] \subseteq O.sure \cup (O.sent \ O.mask)
    BY <1>3, <2>1, MeantAssumption DEF O
  <2>3. O.sure \subseteq caught /\ O.mask = task["main"].mask
    BY DEF IInv, Follows
  <2>4. O.sent \subseteq caught \cup Pending("main")
    BY <1>1 DEF IInv, Comes
  <2>. QED
    BY <1>1, <2>2, <2>3, <2>4
<1>. QED
  BY <1>4, <1>5

(* A call is refused, or its time is up, and the program gives up.         *)
LEMMA FailedEnds ==
  ASSUME IInv, NEW t \in Tasks, task[t].mode \in {"ready", "asleep"}, Ends(Proc(t), "failed"), Quiet
  PROVE  IInv'
<1>1. /\ program' = program /\ caught' = caught /\ reports' = reports
      /\ interrupted' = interrupted /\ stray' = stray /\ caught \subseteq Signals
  BY DEF Quiet, IInv, Typed
<1>2. "failed" \in Statuses \ {"run", "absent"} /\ "failed" \notin Signals \cup {"SEGV"}
  BY DEF Statuses, Signals
<1>. QED
  BY <1>1, <1>2, ProcessEnds

(* Main falls asleep in a call that waits.                                 *)
LEMMA MainSleeps ==
  ASSUME IInv, FallAsleep("main")
  PROVE  IInv'
<1> DEFINE r == [task["main"] EXCEPT !.mode = "asleep"]
<1>1. PICK op \in {"pause", "suspend", "sigwait", "sleep", "nap"} : Runs("main", op)
  BY DEF FallAsleep
<1>2. ~ Ended("main") /\ At("main").op \in Waiting /\ Running
  BY <1>1, MainRuns DEF Waiting
<1>3. /\ task' = [task EXCEPT !["main"] = r] /\ proc' = proc
      /\ program' = program /\ caught' = caught /\ reports' = reports
      /\ interrupted' = interrupted /\ stray' = stray
  BY DEF FallAsleep, Quiet
<1>4. /\ Typed /\ "main" \in Tasks /\ task \in [Tasks -> TaskType] /\ task["main"] \in TaskType
  BY DEF IInv, Typed, Tasks
<1>5. r \in TaskType /\ r.pc = task["main"].pc /\ r.mode = "asleep" /\ r.mask = task["main"].mask
      /\ r.old = task["main"].old /\ r.pend = task["main"].pend
  BY <1>4 DEF TaskType
<1>. HIDE DEF r
<1>6. /\ task' \in [Tasks -> TaskType] /\ task'["main"] = r /\ \A u \in Tasks \ {"main"} : task'[u] = task[u]
  BY <1>3, <1>4, <1>5
<1>7. Typed'
  <2>1. \A u \in Tasks : task'[u].pc = task[u].pc
    BY <1>5, <1>6
  <2>2. \A u \in Tasks : task'[u].pc <= Len(Row'[u]) + 1
    BY <1>3, <1>4, <2>1, SameProgram DEF Typed
  <2>. QED
    BY <1>3, <1>4, <1>6, <2>2 DEF Typed
<1>8. Live'
  <2>1. ASSUME NEW u \in Tasks
        PROVE  /\ task'[u].mode \in {"ready", "asleep"} => proc'[Proc(u)'].status = "run"
               /\ task'[u].mode = "asleep" => ~ Ended(u)' /\ At(u)'.op \in Waiting
               /\ task'[u].mode = "absent" => task'[u].pc = 1
    <3>1. CASE u = "main"
      BY <1>2, <1>3, <1>5, <1>6, <3>1, LiveStays, ProcFacts DEF Running
    <3>2. CASE u # "main"
      BY <1>3, <1>6, <3>2, LiveStays
    <3>. QED
      BY <3>1, <3>2
  <2>. QED
    BY <2>1 DEF Live
<1>9. Goals'
  BY <1>3, GoalsStay
<1>10. Pending("main")' = Pending("main")
  BY <1>3, <1>5, <1>6, PendingMain
<1>11. Answer'
  <2>1. task'["peer"] = task["peer"] /\ task["peer"].pc \in Nat /\ task'["main"].pc = task["main"].pc
    BY <1>4, <1>5, <1>6 DEF Tasks, TaskType
  <2>2. Waited' = Waited
    BY <1>3, <2>1 DEF Waited
  <2>3. Running' = Running /\ proc'["main"].status = proc["main"].status
    BY <1>3 DEF Running
  <2>. QED
    BY <1>3, <1>10, <2>1, <2>2, <2>3, AnswerStays
<1>12. /\ \A u \in Sleepers : task'[u].pend = {} /\ (Present(u)' => Present(u))
       /\ proc'["peer"].armed = {} /\ \A s \in Signals : proc'["peer"].disp[s] # "resend"
  BY <1>3, <1>6 DEF IInv, Others, Sleepers, Present, Tasks
<1>13. /\ O.sent \subseteq caught' \cup Pending("main")'
       /\ O.held \subseteq IF Threads THEN task'["main"].pend ELSE Pending("main")'
  BY <1>2, <1>3, <1>5, <1>6, <1>10 DEF IInv, Comes
<1>. QED
  BY <1>2, <1>3, <1>5, <1>6, <1>7, <1>8, <1>9, <1>10, <1>11, <1>12, <1>13, MainStays

(* Every call of main, returning or refused, and its return.               *)
LEMMA MainKeeps ==
  ASSUME IInv, TaskStep("main") \/ TimeIsUp("main") \/ Take("main")
  PROVE  IInv'
<1>1. /\ Typed /\ "main" \in Tasks /\ Proc("main") = "main" /\ caught \subseteq Signals
  BY ProcFacts DEF IInv, Typed, Tasks
<1>2. ASSUME Runs("main", "wild")  PROVE FALSE
  <2>1. ~ Ended("main") /\ At("main").op = "wild"
    BY <1>2, MainRuns
  <2>. QED
    BY <1>1, <2>1, MainCall DEF MainOps, Waiting
<1>3. CASE WildKill("main")
  BY <1>2, <1>3 DEF WildKill
<1>4. CASE Return("main")
  <2>1. /\ task["main"].mode = "ready" /\ Deliverable("main") = {} /\ Ended("main")
        /\ Ends("main", "ok") /\ program' = program /\ caught' = caught /\ reports' = reports
        /\ interrupted' = interrupted /\ stray' = stray
    BY <1>1, <1>4 DEF Return, Quiet
  <2>2. (Sends => Waited) /\ (program \in DOMAIN Meant => Meant[program] \subseteq caught)
    BY <2>1, ReturnFacts
  <2>3. "ok" \in Statuses \ {"run", "absent"} /\ "ok" \notin Signals \cup {"SEGV"}
    BY DEF Statuses, Signals
  <2>. QED
    BY <1>1, <2>1, <2>2, <2>3, ProcessEnds
<1>5. CASE Refused("main")
  <2>1. /\ task["main"].mode = "ready" /\ Deliverable("main") = {} /\ ~ Ended("main") /\ Quiet
        /\ At("main").refused # "never"
    BY <1>5 DEF Refused
  <2>2. CASE Ends(Proc("main"), "failed")
    BY <1>1, <2>1, <2>2, FailedEnds
  <2>3. CASE At("main").refused = "on" /\ Next1("main") /\ proc' = proc
    <3>1. At("main").op \in {"start", "pause", "suspend", "sigwait"}
      BY <1>1, <2>1, <2>3, MainCall
    <3>2. Running /\ Pending("main") \subseteq O.mask
      BY <1>1, <2>1, ReadyFacts DEF Running, IInv, Follows
    <3>. QED
      BY <2>1, <2>3, <3>1, <3>2, MainGivesUp DEF Waiting
  <2>. QED
    BY <1>5, <2>2, <2>3 DEF Refused
<1>6. CASE TimeIsUp("main")
  <2>1. /\ task["main"].mode = "asleep" /\ At("main").op \in {"sleep", "nap", "sigwait"} /\ Quiet
    BY <1>6 DEF TimeIsUp, Waits
  <2>2. ~ Ended("main") /\ Running
    BY <1>1, <2>1 DEF IInv, Live, Running
  <2>3. CASE Ends(Proc("main"), "failed")
    BY <1>1, <2>1, <2>3, FailedEnds
  <2>4. CASE (At("main").op = "sigwait" => Unread("main")) /\ Next1("main") /\ proc' = proc
    BY <2>1, <2>2, <2>4, MainGivesUp DEF Waiting
  <2>. QED
    BY <1>6, <2>3, <2>4 DEF TimeIsUp
<1>. QED
  BY <1>3, <1>4, <1>5, <1>6, InstallKeeps, MasksKeep, ReportKeeps, KillKeeps, CheckKeeps,
     TimersKeep, StartKeeps, MainSleeps, TakeKeeps DEF TaskStep

-----------------------------------------------------------------------------
(* Another task takes a step.                                              *)

(* A step of another task or process: it moves itself, may change its own  *)
(* handlers, and may signal its parent.                                    *)
LEMMA PeerGoes ==
  ASSUME IInv, NEW t \in Sleepers, task[t].mode \in {"ready", "asleep"},
         NEW pc, NEW mode, NEW mask, NEW old, Moves(t, pc, mode, mask, old, {}),
         \/ pc = task[t].pc /\ mode = "dead"
         \/ pc = task[t].pc /\ mode = "asleep" /\ ~ Ended(t) /\ At(t).op \in Waiting
         \/ pc = task[t].pc + 1 /\ mode = "ready" /\ ~ Ended(t),
         NEW come \in SUBSET Signals,
         \/ come = {}
         \/ /\ Kind(program) = "fork" /\ t = "peer" /\ come \subseteq Foreign(program)
            /\ ~ Ended(t) /\ At(t).op = "kill" /\ pc = task[t].pc + 1,
         proc' \in [Procs -> ProcType], \A q \in Procs : proc'[q].status = proc[q].status,
         proc'["main"].disp = proc["main"].disp, proc'["main"].armed = proc["main"].armed,
         proc'["main"].shared = proc["main"].shared \cup come,
         proc'["peer"].shared = proc["peer"].shared, proc'["peer"].armed = proc["peer"].armed,
         \A s \in Signals : proc'["peer"].disp[s] # "resend",
         program' = program, caught' = caught, reports' = reports, interrupted' = interrupted,
         stray' \in BOOLEAN,
         stray' => stray \/ (Sends /\ proc["main"].status \notin {"run", "ok"})
  PROVE  IInv'
<1>1. /\ Typed /\ t \in Tasks /\ t # "main" /\ proc[Proc(t)].status = "run" /\ Proc(t) \in Procs
      /\ "main" \in Tasks
  BY ProcFacts DEF IInv, Live, Sleepers, Tasks
<1>2. /\ \A u \in Tasks \ {t} : task'[u] = task[u]
      /\ task'[t].pc = pc /\ task'[t].mode = mode /\ task'[t].pend = {}
      /\ task' \in [Tasks -> TaskType]
  BY DEF Moves
<1>3. task'["main"] = task["main"]
  BY <1>1, <1>2
<1>4. pc <= Len(Row[t]) + 1
  <2>1. ~ Ended(t) => task[t].pc + 1 <= Len(Row[t]) + 1
    BY <1>1, CallFacts
  <2>2. task[t].pc <= Len(Row[t]) + 1
    BY <1>1 DEF Typed
  <2>. QED
    BY <2>1, <2>2
<1>5. Typed'
  <2>1. caught' \subseteq Signals /\ reports' \in Seq(Reports) /\ interrupted' \in BOOLEAN
    BY DEF IInv, Typed
  <2>. QED
    BY <1>1, <1>4, <2>1, MovesTyped
<1>6. Live'
  <2>1. ASSUME NEW u \in Tasks
        PROVE  /\ task'[u].mode \in {"ready", "asleep"} => proc'[Proc(u)'].status = "run"
               /\ task'[u].mode = "asleep" => ~ Ended(u)' /\ At(u)'.op \in Waiting
               /\ task'[u].mode = "absent" => task'[u].pc = 1
    <3>1. CASE u = t
      BY <1>1, <1>2, <3>1, LiveStays
    <3>2. CASE u # t
      <4>1. Proc(u) \in Procs
        BY ProcFacts
      <4>. QED
        BY <1>2, <3>2, <4>1, LiveStays
    <3>. QED
      BY <3>1, <3>2
  <2>. QED
    BY <2>1 DEF Live
<1>7. Goals'
  BY GoalsStay
<1>8. Pending("main")' = Pending("main") \cup come
  BY <1>3, PendingMain
<1>9. Present("peer") /\ Kind(program) = "fork" => Foreign(program) \subseteq O.late
  BY DEF IInv, Others
<1>10. come \subseteq O.late
  BY <1>9 DEF Present
<1>11. Answer'
  <2>1. task'["peer"].pc \in Nat /\ task["peer"].pc \in Nat
    BY <1>1, <1>2 DEF Typed, Tasks, TaskType
  <2>2. task'["peer"].pc >= task["peer"].pc
    <3>1. CASE t = "peer"
      BY <1>2, <2>1, <3>1
    <3>2. CASE t # "peer"
      BY <1>2, <2>1, <3>2 DEF Tasks
    <3>. QED
      BY <3>1, <3>2
  <2>3. Waited' = Waited /\ Running' = Running /\ proc'["main"].status = proc["main"].status
    BY <1>3 DEF Waited, Running, Procs
  <2>4. Sends /\ come # {} => \A j \in DOMAIN Row.peer : Row.peer[j].op = "kill" => task'["peer"].pc > j
    <3>1. SUFFICES ASSUME Sends, come # {}, NEW j \in DOMAIN Row.peer, Row.peer[j].op = "kill"
                   PROVE  task'["peer"].pc > j
      OBVIOUS
    <3>2. /\ t = "peer" /\ ~ Ended("peer") /\ At("peer").op = "kill" /\ task'["peer"].pc = task["peer"].pc + 1
      BY <1>2, <3>1
    <3>3. task["peer"].pc \in DOMAIN Row["peer"] /\ At("peer") = Row["peer"][task["peer"].pc]
      BY <1>1, <3>2, RowFacts, CallFacts
    <3>4. j = task["peer"].pc
      BY <1>1, <3>1, <3>2, <3>3, SendsFacts
    <3>. QED
      BY <2>1, <3>2, <3>4
  <2>. QED
    BY <1>8, <2>1, <2>2, <2>3, <2>4, AnswerStays
<1>12. /\ \A u \in Sleepers : task'[u].pend = {} /\ (Present(u)' => Present(u))
       /\ proc'["peer"].armed = {}
  <2>1. \A u \in Sleepers : task[u].pend = {} /\ u \in Tasks
    BY DEF IInv, Others, Sleepers, Tasks
  <2>. QED
    BY <1>2, <2>1 DEF Present, IInv, Others
<1>13. Running' = Running
  BY DEF Running, Procs
<1>14. Running => /\ Pending("main")' \subseteq Pending("main") \cup O.late
                  /\ O.sent \subseteq caught' \cup Pending("main")'
                  /\ O.held \subseteq IF Threads THEN task'["main"].pend ELSE Pending("main")'
  BY <1>3, <1>8, <1>10 DEF IInv, Comes
<1>. QED
  BY <1>3, <1>5, <1>6, <1>7, <1>11, <1>12, <1>13, <1>14, MainStays

(* It returns from a call that changes no process.                         *)
LEMMA PeerPasses ==
  ASSUME IInv, NEW t \in Sleepers, task[t].mode \in {"ready", "asleep"}, ~ Ended(t),
         NEW mask, NEW old, Advances(t, mask, old, task[t].pend), proc' = proc, Quiet
  PROVE  IInv'
<1>1. Typed /\ proc \in [Procs -> ProcType] /\ stray \in BOOLEAN
  BY DEF IInv, Typed
<1>2. task[t].pend = {} /\ \A s \in Signals : proc["peer"].disp[s] # "resend"
  BY DEF IInv, Others, Sleepers
<1>3. Moves(t, task[t].pc + 1, "ready", mask, old, {})
  BY <1>2 DEF Advances
<1> DEFINE come == {}
<1>4. come \in SUBSET Signals /\ come = {} /\ proc'["main"].shared = proc["main"].shared \cup come
  OBVIOUS
<1>. HIDE DEF come
<1>5. /\ program' = program /\ caught' = caught /\ reports' = reports
      /\ interrupted' = interrupted /\ stray' = stray
  BY DEF Quiet
<1>. QED
  BY <1>1, <1>2, <1>3, <1>4, <1>5, PeerGoes

(* The calls of the other tasks.                                           *)
LEMMA PeerCall ==
  ASSUME IInv, NEW t \in Sleepers, ~ Ended(t)
  PROVE  /\ At(t).op \in PeerOps /\ At(t).sigs \subseteq Signals
         /\ At(t).op = "on" => /\ Kind(program) = "started" /\ At(t).arg # "resend"
                               /\ At(t).arg \in Handlers
         /\ At(t).op = "kill" => /\ Kind(program) = "fork" /\ t = "peer" /\ At(t).arg = "parent"
                                 /\ At(t).sigs \subseteq Foreign(program)
         /\ At(t).op = "wild" => Kind(program) = "threads" /\ <<program, "main", "SEGV">> \in DiesOf
<1>1. /\ Typed /\ t \in Tasks /\ t # "main" /\ program \in DOMAIN SignalPrograms
      /\ t \in {"peer", "third"} /\ Row = SignalPrograms[program]
  BY DEF IInv, Typed, Sleepers, Tasks, Row
<1>2. At(t).op \in PeerOps /\ At(t).sigs \subseteq Signals /\ (At(t).op = "on" => At(t).arg \in Handlers)
  BY <1>1, CallFacts
<1>3. task[t].pc \in DOMAIN Row[t] /\ At(t) = Row[t][task[t].pc]
  BY <1>1, RowFacts, CallFacts
<1>4. \A i \in DOMAIN SignalPrograms[program][t] :
        /\ SignalPrograms[program][t][i].op = "on" =>
             Kind(program) = "started" /\ SignalPrograms[program][t][i].arg # "resend"
        /\ SignalPrograms[program][t][i].op = "kill" =>
             Kind(program) = "fork" /\ t = "peer" /\ SignalPrograms[program][t][i].arg = "parent"
        /\ SignalPrograms[program][t][i].op = "wild" =>
             Kind(program) = "threads" /\ <<program, "main", "SEGV">> \in DiesOf
  BY <1>1, PeersAssumption
<1>5. /\ At(t).op = "on" => Kind(program) = "started" /\ At(t).arg # "resend"
      /\ At(t).op = "kill" => Kind(program) = "fork" /\ t = "peer" /\ At(t).arg = "parent"
      /\ At(t).op = "wild" => Kind(program) = "threads" /\ <<program, "main", "SEGV">> \in DiesOf
  BY <1>1, <1>3, <1>4
<1>6. At(t).op = "kill" => At(t).sigs \subseteq Foreign(program)
  <2>1. SUFFICES ASSUME At(t).op = "kill" PROVE At(t).sigs \subseteq Foreign(program)
    OBVIOUS
  <2>2. /\ task[t].pc \in DOMAIN SignalPrograms[program].peer
        /\ At(t) = SignalPrograms[program].peer[task[t].pc]
    BY <1>1, <1>3, <1>5, <2>1
  <2>3. task[t].pc \in {i \in DOMAIN SignalPrograms[program].peer : SignalPrograms[program].peer[i].op = "kill"}
    BY <2>1, <2>2
  <2>. QED
    BY <2>2, <2>3 DEF Foreign
<1>. QED
  BY <1>2, <1>5, <1>6

LEMMA PeerRuns ==
  ASSUME IInv, NEW t \in Sleepers, NEW op, Runs(t, op)
  PROVE  /\ ~ Ended(t) /\ At(t).op = op /\ op \in PeerOps /\ task[t].mode = "ready"
         /\ t \in Tasks /\ Typed /\ task[t].pend = {} /\ proc[Proc(t)].status = "run"
         /\ task[t] \in TaskType
<1>1. /\ task[t].mode = "ready" /\ ~ Ended(t) /\ At(t).op = op /\ t \in Tasks
  BY DEF Runs, Sleepers, Tasks
<1>. QED
  BY <1>1, PeerCall DEF IInv, Live, Others, Sleepers, Typed

(* The started program installs its handler.                               *)
LEMMA PeerInstalls ==
  ASSUME IInv, NEW t \in Sleepers, InstallHandler(t)
  PROVE  IInv'
<1> DEFINE disp == [s \in Signals |-> IF s \in At(t).sigs THEN At(t).arg ELSE proc["peer"].disp[s]]
<1>1. /\ Runs(t, "on") /\ Next1(t) /\ Quiet
  BY DEF InstallHandler
<1>2. /\ ~ Ended(t) /\ At(t).op = "on" /\ task[t].mode = "ready" /\ t \in Tasks /\ Typed
      /\ task[t].pend = {}
  BY <1>1, PeerRuns
<1>3. Kind(program) = "started" /\ At(t).arg # "resend" /\ At(t).arg \in Handlers
  BY <1>2, PeerCall
<1>4. t = "peer" /\ Proc(t) = "peer"
  <2>1. t = "third" => Threads
    BY <1>2 DEF IInv, Others, Present
  <2>2. t = "peer"
    BY <1>3, <2>1 DEF Threads, Sleepers
  <2>. QED
    BY <1>2, <1>3, <2>2, RowFacts DEF Proc
<1>5. /\ proc' = [proc EXCEPT !["peer"].disp = disp] /\ proc \in [Procs -> ProcType] /\ "peer" \in Procs
      /\ proc["peer"].disp \in [Signals -> Handlers] /\ stray \in BOOLEAN
  BY <1>2, <1>4 DEF InstallHandler, Typed, Procs, ProcType
<1>6. disp \in [Signals -> Handlers] /\ \A s \in Signals : disp[s] # "resend"
  BY <1>3, <1>5 DEF IInv, Others
<1>. HIDE DEF disp
<1>7. Alters(proc, proc', "peer", disp, proc["peer"].shared, proc["peer"].armed)
  BY <1>5, <1>6, SetDisp
<1>8. /\ proc' \in [Procs -> ProcType] /\ proc'["main"] = proc["main"] /\ proc'["peer"].disp = disp
      /\ \A q \in Procs : proc'[q].status = proc[q].status
      /\ proc'["peer"].shared = proc["peer"].shared /\ proc'["peer"].armed = proc["peer"].armed
  BY <1>7 DEF Alters, Procs
<1>9. Moves(t, task[t].pc + 1, "ready", task[t].mask, task[t].old, {})
  BY <1>1, <1>2, KeepsPast DEF Next1, Keeps, Advances
<1> DEFINE come == {}
<1>10. come \in SUBSET Signals /\ come = {} /\ proc'["main"].shared = proc["main"].shared \cup come
  BY <1>8
<1>. HIDE DEF come
<1>11. /\ program' = program /\ caught' = caught /\ reports' = reports
       /\ interrupted' = interrupted /\ stray' = stray
  BY <1>1 DEF Quiet
<1>. QED
  BY <1>2, <1>5, <1>6, <1>8, <1>9, <1>10, <1>11, PeerGoes

(* The child signals its parent, or a stranger if that has ended.          *)
LEMMA PeerKills ==
  ASSUME IInv, NEW t \in Sleepers, Kill(t)
  PROVE  IInv'
<1>1. Runs(t, "kill")
  BY DEF Kill
<1>2. /\ ~ Ended(t) /\ At(t).op = "kill" /\ task[t].mode = "ready" /\ t \in Tasks /\ Typed
      /\ task[t].pend = {} /\ stray \in BOOLEAN
  BY <1>1, PeerRuns DEF Typed
<1>3. /\ Kind(program) = "fork" /\ t = "peer" /\ At(t).arg = "parent"
      /\ At(t).sigs \subseteq Foreign(program) /\ At(t).sigs \subseteq Signals
  BY <1>2, PeerCall
<1> DEFINE come == IF Running THEN At(t).sigs ELSE {}
           tsk  == Past(task, t)
<1>4. /\ task' = [tsk EXCEPT ![t].pend = @]
      /\ proc' = [proc EXCEPT !["main"].shared = IF Running THEN @ \cup At(t).sigs ELSE @]
      /\ stray' = (stray \/ ~ Running)
      /\ program' = program /\ caught' = caught /\ reports' = reports /\ interrupted' = interrupted
  BY <1>3 DEF Kill, Running
<1>5. /\ tsk \in [Tasks -> TaskType] /\ tsk[t].pc = task[t].pc + 1 /\ tsk[t].mode = "ready"
      /\ tsk[t].pend = task[t].pend /\ tsk[t].mask = task[t].mask /\ tsk[t].old = task[t].old
  BY <1>2, PastMoves DEF Typed
<1>6. task' = tsk
  <2>. HIDE DEF tsk
  <2>1. tsk[t] = [tsk[t] EXCEPT !.pend = @]
    BY <1>2, <1>5 DEF TaskType
  <2>. QED
    BY <1>2, <1>4, <1>5, <2>1
<1>7. Moves(t, task[t].pc + 1, "ready", task[t].mask, task[t].old, {})
  BY <1>2, <1>6, KeepsPast DEF Keeps, Advances
<1>8. /\ come \in SUBSET Signals /\ come \subseteq Foreign(program)
  BY <1>3
<1> DEFINE shared == proc["main"].shared \cup come
<1>9. shared \in SUBSET Signals /\ proc \in [Procs -> ProcType] /\ "main" \in Procs
  BY <1>2, <1>8 DEF Typed, Procs, ProcType
<1>10. proc' = [proc EXCEPT !["main"].shared = shared]
  BY <1>4
<1>. HIDE DEF shared, tsk
<1>11. Alters(proc, proc', "main", proc["main"].disp, shared, proc["main"].armed)
  BY <1>9, <1>10, SetShared
<1>12. /\ proc' \in [Procs -> ProcType] /\ proc'["peer"] = proc["peer"]
       /\ \A q \in Procs : proc'[q].status = proc[q].status
       /\ proc'["main"].shared = proc["main"].shared \cup come
       /\ proc'["main"].armed = proc["main"].armed /\ proc'["main"].disp = proc["main"].disp
  BY <1>11 DEF Alters, Procs, shared
<1>13. ~ Running => Sends /\ proc["main"].status \notin {"run", "ok"}
  <2>1. SUFFICES ASSUME ~ Running PROVE Sends /\ proc["main"].status \notin {"run", "ok"}
    OBVIOUS
  <2>2. task["peer"].pc \in DOMAIN Row["peer"] /\ Row["peer"][task["peer"].pc].op = "kill"
        /\ DOMAIN Row["peer"] = 1..Len(Row["peer"]) /\ task["peer"].pc \in Nat
    BY <1>2, <1>3, RowFacts, CallFacts
  <2>3. Sends
    BY <2>2 DEF Sends
  <2>4. ~ Waited
    BY <2>2 DEF IInv, Answer
  <2>5. proc["main"].status # "ok"
    BY <2>2, <2>4 DEF IInv, Answer
  <2>. QED
    BY <2>1, <2>3, <2>5 DEF Running
<1>14. \A s \in Signals : proc["peer"].disp[s] # "resend"
  BY DEF IInv, Others
<1>15. stray' \in BOOLEAN /\ (stray' => stray \/ (Sends /\ proc["main"].status \notin {"run", "ok"}))
  BY <1>4, <1>13
<1>. HIDE DEF come
<1>. QED
  BY <1>2, <1>3, <1>4, <1>7, <1>8, <1>12, <1>14, <1>15, PeerGoes

(* Another task falls asleep or ends.                                      *)
LEMMA PeerRests ==
  ASSUME IInv, NEW t \in Sleepers, task[t].mode = "ready", Quiet, proc' = proc,
         NEW mode \in {"asleep", "dead"}, NEW r \in TaskType, task' = [task EXCEPT ![t] = r],
         r.pc = task[t].pc, r.mode = mode, r.mask = task[t].mask, r.old = task[t].old, r.pend = {},
         mode = "asleep" => ~ Ended(t) /\ At(t).op \in Waiting
  PROVE  IInv'
<1>1. /\ t \in Tasks /\ task \in [Tasks -> TaskType] /\ proc \in [Procs -> ProcType] /\ stray \in BOOLEAN
      /\ \A s \in Signals : proc["peer"].disp[s] # "resend"
  BY DEF IInv, Typed, Others, Sleepers, Tasks
<1>2. Moves(t, task[t].pc, mode, task[t].mask, task[t].old, {})
  BY <1>1 DEF Moves
<1> DEFINE come == {}
<1>3. come \in SUBSET Signals /\ come = {} /\ proc'["main"].shared = proc["main"].shared \cup come
  OBVIOUS
<1>. HIDE DEF come
<1>4. /\ program' = program /\ caught' = caught /\ reports' = reports
      /\ interrupted' = interrupted /\ stray' = stray
  BY DEF Quiet
<1>. QED
  BY <1>1, <1>2, <1>3, <1>4, PeerGoes

(* Every call of another task, returning or refused, and its return.       *)
LEMMA PeerKeeps ==
  ASSUME IInv, NEW t \in Sleepers, TaskStep(t) \/ TimeIsUp(t) \/ Take(t)
  PROVE  IInv'
<1>1. /\ Typed /\ t \in Tasks /\ task[t].pend = {} /\ task \in [Tasks -> TaskType]
      /\ proc \in [Procs -> ProcType] /\ caught \subseteq Signals /\ t # "main"
      /\ task[t] \in TaskType
  BY DEF IInv, Typed, Others, Sleepers, Tasks
<1>2. \A op : Runs(t, op) => ~ Ended(t) /\ At(t).op = op /\ op \in PeerOps /\ task[t].mode = "ready"
  BY PeerRuns
<1>3. Next1(t) => Advances(t, task[t].mask, task[t].old, task[t].pend)
  BY <1>1, KeepsPast DEF Next1, Keeps
<1>4. ASSUME NEW op \in {"unblock", "show", "check", "pidfd", "seteuid", "arm", "timer", "start",
                         "join", "nap", "sigwait"}
      PROVE  op \notin PeerOps
  BY DEF PeerOps
<1>5. ~ (Unblock(t) \/ Report(t) \/ Check(t) \/ OpenPidfd(t) \/ SetEuid(t) \/ ArmTimer(t)
         \/ CreateTimer(t) \/ Start(t) \/ Join(t))
  BY <1>2, <1>4 DEF Unblock, Report, Check, OpenPidfd, SetEuid, ArmTimer, CreateTimer, Start, Join
<1>6. CASE Block(t)
  <2>1. /\ Runs(t, "block") /\ SetsMask(t, task[t].mask \cup At(t).sigs) /\ proc' = proc /\ Quiet
    BY <1>6 DEF Block
  <2>2. task[t].mask \cup At(t).sigs \in SUBSET Signals
    BY <1>1, <1>2, <2>1, PeerCall DEF TaskType
  <2>3. Advances(t, task[t].mask \cup At(t).sigs, task[t].mask, task[t].pend)
    BY <1>1, <2>1, <2>2, MaskMoves
  <2>. QED
    BY <1>2, <2>1, <2>3, PeerPasses
<1>7. CASE RestoreMask(t)
  <2>1. /\ Runs(t, "setmask") /\ task' = [Past(task, t) EXCEPT ![t].mask = task[t].old]
        /\ proc' = proc /\ Quiet
    BY <1>7 DEF RestoreMask
  <2>2. Advances(t, task[t].old, task[t].old, task[t].pend)
    BY <1>1, <2>1, RestoreMoves
  <2>. QED
    BY <1>2, <2>1, <2>2, PeerPasses
<1>8. CASE WildKill(t)
  <2>1. Runs(t, "wild") /\ Quiet
    BY <1>8 DEF WildKill
  <2>2. ~ Ended(t) /\ At(t).op = "wild" /\ task[t].mode = "ready"
    BY <1>2, <2>1
  <2>3. CASE Ends(Proc(t), "SEGV")
    <3>1. Proc(t) = "main" /\ <<program, "main", "SEGV">> \in DiesOf
      BY <1>1, <2>2, PeerCall, RowFacts DEF Proc
    <3>2. "SEGV" \in Statuses \ {"run", "absent"} /\ "SEGV" # "ok"
      BY DEF Statuses
    <3>3. /\ program' = program /\ caught' = caught /\ reports' = reports
          /\ interrupted' = interrupted /\ stray' = stray
      BY <2>1 DEF Quiet
    <3>. QED
      BY <1>1, <2>2, <2>3, <3>1, <3>2, <3>3, ProcessEnds
  <2>4. CASE Next1(t) /\ proc' = proc
    BY <1>3, <2>1, <2>2, <2>4, PeerPasses
  <2>. QED
    BY <1>8, <2>3, <2>4 DEF WildKill
<1>9. CASE FallAsleep(t)
  <2> DEFINE r == [task[t] EXCEPT !.mode = "asleep"]
  <2>1. /\ ~ Ended(t) /\ At(t).op \in Waiting /\ task[t].mode = "ready"
    BY <1>2, <1>9 DEF FallAsleep, Waiting
  <2>2. /\ task' = [task EXCEPT ![t] = r] /\ proc' = proc /\ Quiet
    BY <1>9 DEF FallAsleep
  <2>3. r \in TaskType /\ r.pc = task[t].pc /\ r.mode = "asleep" /\ r.mask = task[t].mask
        /\ r.old = task[t].old /\ r.pend = {}
    BY <1>1 DEF TaskType
  <2>. HIDE DEF r
  <2>. QED
    BY <2>1, <2>2, <2>3, PeerRests
<1>10. CASE Refused(t)
  <2>1. task[t].mode = "ready" /\ ~ Ended(t) /\ Quiet
    BY <1>10 DEF Refused
  <2>2. CASE Ends(Proc(t), "failed")
    BY <1>1, <2>1, <2>2, FailedEnds
  <2>3. CASE Next1(t) /\ proc' = proc
    BY <1>3, <2>1, <2>3, PeerPasses
  <2>. QED
    BY <1>10, <2>2, <2>3 DEF Refused
<1>11. CASE TimeIsUp(t)
  <2>1. task[t].mode = "asleep" /\ ~ Ended(t) /\ Quiet
    BY <1>1, <1>11 DEF TimeIsUp, Waits, IInv, Live
  <2>2. CASE Ends(Proc(t), "failed")
    BY <1>1, <2>1, <2>2, FailedEnds
  <2>3. CASE Next1(t) /\ proc' = proc
    BY <1>3, <2>1, <2>3, PeerPasses
  <2>. QED
    BY <1>11, <2>2, <2>3 DEF TimeIsUp
<1>12. CASE Take(t)
  <2>1. ~ Ended(t) /\ At(t).op = "sigwait"
    BY <1>1, <1>12 DEF Take, Waits, IInv, Live
  <2>. QED
    BY <1>4, <2>1, PeerCall
<1>13. CASE Return(t)
  <2>1. task[t].mode = "ready" /\ Quiet
    BY <1>13 DEF Return
  <2>2. CASE Row.kind # "threads" /\ Ends(Proc(t), "ok")
    <3>1. t = "peer" /\ Proc(t) = "peer"
      <4>1. t = "third" => Threads
        BY <2>1 DEF IInv, Others, Present
      <4>2. Row.kind = Kind(program)
        BY <1>1, RowFacts
      <4>. QED
        BY <2>2, <4>1, <4>2 DEF Proc, Threads, Sleepers
    <3>2. "ok" \in Statuses \ {"run", "absent"} /\ "ok" \notin Signals \cup {"SEGV"}
      BY DEF Statuses, Signals
    <3>3. /\ program' = program /\ caught' = caught /\ reports' = reports
          /\ interrupted' = interrupted /\ stray' = stray
      BY <2>1 DEF Quiet
    <3>. QED
      BY <1>1, <2>1, <2>2, <3>1, <3>2, <3>3, ProcessEnds
  <2>3. CASE task' = [task EXCEPT ![t].mode = "dead", ![t].pend = {}] /\ proc' = proc
    <3> DEFINE a == [task[t] EXCEPT !.mode = "dead"]
               r == [a EXCEPT !.pend = {}]
    <3>1. task' = [task EXCEPT ![t] = r]
      BY <1>1, <2>3
    <3>2. a \in TaskType /\ a.pc = task[t].pc /\ a.mode = "dead" /\ a.mask = task[t].mask
          /\ a.old = task[t].old
      BY <1>1 DEF TaskType
    <3>3. r \in TaskType /\ r.pc = task[t].pc /\ r.mode = "dead" /\ r.mask = task[t].mask
          /\ r.old = task[t].old /\ r.pend = {}
      <4>. HIDE DEF a
      <4>. QED
        BY <3>2 DEF TaskType
    <3>. HIDE DEF r
    <3>. QED
      BY <2>1, <2>3, <3>1, <3>3, PeerRests
  <2>. QED
    BY <1>1, <1>13, <2>2, <2>3 DEF Return
<1>. QED
  BY <1>5, <1>6, <1>7, <1>8, <1>9, <1>10, <1>11, <1>12, <1>13, PeerInstalls, PeerKills DEF TaskStep

-----------------------------------------------------------------------------
(* A timer goes off, or somebody interrupts.                               *)

(* A signal comes from outside a program: an alarm, a timer or ^C.         *)
LEMMA SignalComes ==
  ASSUME IInv, NEW p \in Procs, NEW s \in Signals, NEW armed \in SUBSET proc[p].armed,
         Alters(proc, proc', p, proc[p].disp, proc[p].shared \cup {s}, armed),
         p = "main" => (Running => s \in O.late) /\ s \in {"INT", "ALRM", "RTMIN"},
         p = "peer" => s = "INT",
         task' = task, program' = program, caught' = caught, reports' = reports, stray' = stray,
         interrupted' \in BOOLEAN
  PROVE  IInv'
<1>1. /\ proc' \in [Procs -> ProcType] /\ \A q \in Procs : proc'[q].status = proc[q].status
      /\ proc'["main"].disp = proc["main"].disp /\ proc'["peer"].disp = proc["peer"].disp
      /\ proc'["main"].armed \subseteq proc["main"].armed
      /\ proc'["peer"].armed \subseteq proc["peer"].armed
      /\ proc'["peer"].shared \subseteq proc["peer"].shared \cup {"INT"}
      /\ proc["main"].shared \subseteq proc'["main"].shared
      /\ proc'["main"].shared \subseteq proc["main"].shared \cup (IF p = "main" THEN {s} ELSE {})
  BY DEF Alters, Procs
<1>2. Typed'
  BY <1>1, SameProgram DEF IInv, Typed
<1>3. Live'
  <2>1. ASSUME NEW u \in Tasks
        PROVE  /\ task'[u].mode \in {"ready", "asleep"} => proc'[Proc(u)'].status = "run"
               /\ task'[u].mode = "asleep" => ~ Ended(u)' /\ At(u)'.op \in Waiting
               /\ task'[u].mode = "absent" => task'[u].pc = 1
    <3>1. Proc(u) \in Procs
      BY ProcFacts
    <3>. QED
      BY <1>1, <3>1, LiveStays
  <2>. QED
    BY <2>1 DEF Live
<1>4. Goals'
  BY <1>1, GoalsStay DEF Procs
<1>5. Pending("main") \subseteq Pending("main")'
      /\ Pending("main")' \subseteq Pending("main") \cup (IF p = "main" THEN {s} ELSE {})
  BY <1>1, PendingMain
<1>6. Running' = Running /\ Waited' = Waited
  BY <1>1 DEF Running, Waited, Procs
<1>7. Answer'
  <2>1. Sends => Pending("main")' \cap Foreign(program) = Pending("main") \cap Foreign(program)
    <3>1. SUFFICES ASSUME Sends
                   PROVE  Pending("main")' \cap Foreign(program) = Pending("main") \cap Foreign(program)
      OBVIOUS
    <3>2. Foreign(program) \cap {"INT", "ALRM", "RTMIN"} = {}
      BY <3>1, SendsFacts DEF IInv
    <3>. QED
      BY <1>5, <3>2
  <2>2. task["peer"].pc \in Nat
    BY DEF IInv, Typed, Tasks, TaskType
  <2>3. proc'["main"].status = proc["main"].status
    BY <1>1 DEF Procs
  <2>. QED
    BY <1>6, <2>1, <2>2, <2>3, AnswerStays
<1>8. Running => /\ Pending("main")' \subseteq Pending("main") \cup O.late
                 /\ O.sent \subseteq caught' \cup Pending("main")'
                 /\ O.held \subseteq IF Threads THEN task'["main"].pend ELSE Pending("main")'
  BY <1>5 DEF IInv, Comes
<1>9. /\ \A u \in Sleepers : task'[u].pend = {} /\ (Present(u)' => Present(u))
      /\ proc'["peer"].armed = {} /\ \A x \in Signals : proc'["peer"].disp[x] # "resend"
  BY <1>1 DEF IInv, Others, Sleepers, Present
<1>. QED
  BY <1>1, <1>2, <1>3, <1>4, <1>6, <1>7, <1>8, <1>9, MainStays

(* An alarm or a timer goes off.                                           *)
LEMMA ClockKeeps ==
  ASSUME IInv, NEW p \in Procs, GoesOff(p)
  PROVE  IInv'
<1>1. PICK s \in {"ALRM", "RTMIN"} \cap proc[p].armed :
        /\ proc' = [proc EXCEPT ![p].shared = @ \cup {s},
                                ![p].armed = IF s = "ALRM" THEN @ \ {s} ELSE @]
        /\ task' = task /\ Quiet
  BY DEF GoesOff
<1>2. proc \in [Procs -> ProcType] /\ s \in Signals /\ proc[p] \in ProcType
  BY DEF IInv, Typed, Signals
<1> DEFINE armed  == IF s = "ALRM" THEN proc[p].armed \ {s} ELSE proc[p].armed
           shared == proc[p].shared \cup {s}
           a      == [proc EXCEPT ![p].shared = shared]
<1>3. shared \in SUBSET Signals /\ armed \in SUBSET Timers /\ armed \in SUBSET proc[p].armed
  BY <1>2 DEF ProcType
<1>4. Alters(proc, a, p, proc[p].disp, shared, proc[p].armed)
  <2>. HIDE DEF shared
  <2>. QED
    BY <1>2, <1>3, SetShared
<1>5. proc' = [a EXCEPT ![p].armed = armed]
  <2>1. a[p].armed = proc[p].armed
    BY <1>4 DEF Alters
  <2>. QED
    BY <1>1, <1>2, <2>1
<1>. HIDE DEF a, armed
<1>6. Alters(proc, proc', p, proc[p].disp, shared, armed)
  <2>. HIDE DEF shared
  <2>1. a \in [Procs -> ProcType]
    BY <1>4 DEF Alters
  <2>2. Alters(a, proc', p, a[p].disp, a[p].shared, armed)
    BY <1>3, <1>5, <2>1, SetArmed
  <2>. QED
    BY <1>4, <2>2 DEF Alters
<1>7. p = "main"
  BY <1>1 DEF IInv, Others, Procs
<1>8. Running => s \in O.late
  BY <1>1, <1>7 DEF IInv, Comes
<1>9. /\ program' = program /\ caught' = caught /\ reports' = reports
      /\ interrupted' \in BOOLEAN /\ stray' = stray /\ task' = task
  BY <1>1 DEF Quiet, IInv, Typed
<1>. QED
  BY <1>2, <1>3, <1>6, <1>7, <1>8, <1>9, SignalComes

(* ^C comes to a process.                                                  *)
LEMMA InterruptKeeps ==
  ASSUME IInv, NEW p \in Procs, Interrupt(p)
  PROVE  IInv'
<1> DEFINE s == "INT"
           shared == proc[p].shared \cup {s}
<1>1. /\ proc' = [proc EXCEPT ![p].shared = shared] /\ interrupted' = TRUE
      /\ task' = task /\ program' = program /\ caught' = caught /\ reports' = reports /\ stray' = stray
  BY DEF Interrupt
<1>2. /\ proc \in [Procs -> ProcType] /\ s \in Signals /\ proc[p] \in ProcType
      /\ program \in DOMAIN SignalPrograms /\ Typed
  BY DEF IInv, Typed, Signals
<1>3. shared \in SUBSET Signals
  BY <1>2 DEF ProcType
<1>4. Alters(proc, proc', p, proc[p].disp, shared, proc[p].armed)
  <2>. HIDE DEF shared
  <2>. QED
    BY <1>1, <1>2, <1>3, SetShared
<1>5. s \in O.late
  <2>1. \A i \in 1..End(program) : "INT" \in Outline(program)[i].late
    BY <1>2, OutlineAssumption
  <2>2. task["main"].pc \in 1..End(program)
    BY <1>2, PcInOutline
  <2>. QED
    BY <2>1, <2>2 DEF O
<1> DEFINE armed == proc[p].armed
<1>6. armed \in SUBSET proc[p].armed
  OBVIOUS
<1>. HIDE DEF s
<1>7. s \in {"INT", "ALRM", "RTMIN"} /\ s = "INT"
  BY DEF s
<1>. QED
  BY <1>1, <1>2, <1>4, <1>5, <1>6, <1>7, SignalComes

-----------------------------------------------------------------------------
(* The invariant, and the properties that follow from it.                  *)

(* At the start main is at the origin of its outline.                      *)
LEMMA InitInv ==
  ASSUME Init
  PROVE  IInv
<1>1. /\ program \in DOMAIN SignalPrograms /\ caught = {} /\ reports = <<>>
      /\ interrupted = FALSE /\ stray = FALSE
  BY DEF Init
<1>2. Row = SignalPrograms[program] /\ Row.kind = Kind(program)
  BY DEF Row, Kind
<1>3. Started = IF Kind(program) = "started" THEN {"main", "peer"} ELSE {"main"}
  BY <1>2 DEF Started, Row
<1>4. PICK user \in {"root", "plain"} :
        proc = [p \in Procs |-> Born(IF p \in Started THEN "run" ELSE "absent", user)]
  BY DEF Init
<1>5. task = [t \in Tasks |-> Fresh(IF t \in Started THEN "ready" ELSE "absent")]
  BY DEF Init
<1>6. \A m \in {"ready", "absent"} :
        /\ Fresh(m) \in TaskType /\ Fresh(m).pc = 1 /\ Fresh(m).mode = m
        /\ Fresh(m).mask = {} /\ Fresh(m).old = {} /\ Fresh(m).pend = {}
  BY DEF Fresh, TaskType
<1>7. \A st \in {"run", "absent"} :
        /\ Born(st, user) \in ProcType /\ Born(st, user).status = st
        /\ Born(st, user).disp = [s \in Signals |-> "default"]
        /\ Born(st, user).shared = {} /\ Born(st, user).armed = {}
  <2>1. [s \in Signals |-> "default"] \in [Signals -> Handlers]
    BY DEF Handlers
  <2>. QED
    BY <2>1 DEF Born, ProcType, Statuses, Ticks
<1>8. /\ task \in [Tasks -> TaskType]
      /\ \A t \in Tasks :
           /\ task[t].pc = 1 /\ task[t].mask = {} /\ task[t].old = {} /\ task[t].pend = {}
           /\ task[t].mode = IF t \in Started THEN "ready" ELSE "absent"
  BY <1>5, <1>6
<1>9. /\ proc \in [Procs -> ProcType]
      /\ \A p \in Procs :
           /\ proc[p].status = IF p \in Started THEN "run" ELSE "absent"
           /\ proc[p].disp = [s \in Signals |-> "default"]
           /\ proc[p].shared = {} /\ proc[p].armed = {}
  BY <1>4, <1>7
<1>10. Typed
  <2>1. \A t \in Tasks : Len(Row[t]) \in Nat
    <3>1. SUFFICES ASSUME NEW t \in Tasks PROVE Len(Row[t]) \in Nat
      OBVIOUS
    <3> DEFINE c == Row[t]
    <3>2. c \in Seq({c[i] : i \in DOMAIN c})
      BY <1>1, <1>2, CallsAssumption
    <3>. HIDE DEF c
    <3>3. Len(c) \in Nat
      BY <3>2
    <3>. QED
      BY <3>3 DEF c
  <2>2. \A t \in Tasks : task[t].pc <= Len(Row[t]) + 1
    BY <1>8, <2>1
  <2>3. task \in [Tasks -> TaskType]
    BY <1>8
  <2>4. proc \in [Procs -> ProcType]
    BY <1>9
  <2>5. caught \subseteq Signals /\ reports \in Seq(Reports)
    BY <1>1
  <2>6. interrupted \in BOOLEAN /\ stray \in BOOLEAN
    BY <1>1
  <2>. QED
    BY <1>1, <2>2, <2>3, <2>4, <2>5, <2>6, Zenon DEF Typed
<1>11. O = Origin
  BY <1>1, <1>8, OutlineAssumption DEF O, Tasks
<1>12. Pending("main") = {} /\ "main" \in Tasks /\ "main" \in Procs /\ "peer" \in Procs
  BY <1>8, <1>9, PendingMain DEF Tasks, Procs
<1>13. Live
  <2>1. ASSUME NEW t \in Tasks
        PROVE  /\ task[t].mode \in {"ready", "asleep"} => proc[Proc(t)].status = "run"
               /\ task[t].mode = "asleep" => ~ Ended(t) /\ At(t).op \in Waiting
               /\ task[t].mode = "absent" => task[t].pc = 1
    <3>1. t \in Started => Proc(t) = t
      BY <1>2, <1>3, <2>1 DEF Proc, Row, Kind
    <3>2. t \in Started => proc[Proc(t)].status = "run"
      BY <1>3, <1>9, <3>1 DEF Procs
    <3>. QED
      BY <1>8, <3>2
  <2>. QED
    BY <2>1 DEF Live
<1>14. Follows
  BY <1>1, <1>8, <1>9, <1>11, <1>12 DEF Follows, Origin
<1>15. Comes
  BY <1>9, <1>11, <1>12 DEF Comes, Origin
<1>16. Others
  <2>1. \A t \in Sleepers : task[t].pend = {} /\ (Present(t) => t = "peer" /\ Kind(program) = "started")
    BY <1>3, <1>8 DEF Sleepers, Tasks, Present
  <2>2. \A s \in Signals : proc["peer"].disp[s] = "default" /\ proc["main"].disp[s] = "default"
    BY <1>9, <1>12
  <2>. QED
    BY <1>9, <1>12, <2>1, <2>2 DEF Others, Sleepers
<1>17. Answer
  <2>1. ~ Waited
    <3>1. DOMAIN Code(program) \subseteq Nat \ {0}
      BY <1>10, <1>12, RowFacts
    <3>. QED
      BY <1>8, <1>12, <3>1 DEF Waited
  <2>2. proc["main"].status # "ok"
    BY <1>9, <1>12
  <2>. QED
    BY <1>1, <1>12, <2>1, <2>2 DEF Answer
<1>18. Goals
  <2>1. \A p \in Procs : proc[p].status \in {"run", "absent"} /\ proc[p].armed = {}
    BY <1>9
  <2>2. KilledOnlyAsMeant
    BY <2>1 DEF KilledOnlyAsMeant, Signals
  <2>3. SuccessMeansHandled /\ LimitRefusesTimer
    BY <1>12, <2>1 DEF SuccessMeansHandled, LimitRefusesTimer
  <2>. QED
    BY <2>2, <2>3 DEF Goals
<1>. QED
  BY <1>10, <1>13, <1>14, <1>15, <1>16, <1>17, <1>18 DEF IInv

(* Every step keeps the invariant.                                         *)
LEMMA NextKeeps ==
  ASSUME IInv, Next
  PROVE  IInv'
<1>1. CASE \E t \in Tasks : Deliver(t) \/ TaskStep(t) \/ TimeIsUp(t) \/ Take(t)
  <2>1. PICK t \in Tasks : Deliver(t) \/ TaskStep(t) \/ TimeIsUp(t) \/ Take(t)
    BY <1>1
  <2>2. t = "main" \/ t \in Sleepers
    BY DEF Tasks, Sleepers
  <2>. QED
    BY <2>1, <2>2, DeliverKeeps, MainKeeps, PeerKeeps
<1>2. CASE \E p \in Procs : GoesOff(p) \/ Interrupt(p)
  BY <1>2, ClockKeeps, InterruptKeeps
<1>. QED
  BY <1>1, <1>2 DEF Next

LEMMA StutterKeeps ==
  ASSUME IInv, UNCHANGED vars
  PROVE  IInv'
<1>1. /\ program' = program /\ task' = task /\ proc' = proc /\ caught' = caught
      /\ reports' = reports /\ interrupted' = interrupted /\ stray' = stray
  BY DEF vars
<1>2. Typed' /\ Row' = Row /\ O' = O /\ Sends' = Sends /\ Waited' = Waited /\ Running' = Running
      /\ Threads' = Threads
  BY <1>1 DEF IInv, Typed, Row, O, Sends, Waited, Running, Threads, Kind
<1>3. Live'
  BY <1>1 DEF IInv, Live, Proc, Ended, At, Row
<1>4. Follows' /\ Comes' /\ Others'
  BY <1>1, <1>2, PendingMain DEF IInv, Follows, Comes, Others, Present
<1>5. Answer'
  BY <1>1, <1>2, PendingMain DEF IInv, Answer
<1>6. Goals'
  BY <1>1, GoalsStay
<1>. QED
  BY <1>2, <1>3, <1>4, <1>5, <1>6 DEF IInv

(* Main is where its outline says, its pending signals are expected, and   *)
(* the goals hold.                                                         *)
THEOREM Invariant == Spec => []IInv
<1>1. Init => IInv
  BY InitInv
<1>2. IInv /\ [Next]_vars => IInv'
  BY NextKeeps, StutterKeeps
<1>. QED
  BY <1>1, <1>2, PTL DEF Spec

(* Tasks, processes and reports keep their types, whatever comes when.     *)
THEOREM TypeCorrect == Spec => []TypeOK
<1>1. IInv => TypeOK
  <2>1. SUFFICES ASSUME IInv PROVE TypeOK
    OBVIOUS
  <2>2. \A t \in Tasks : task[t] \in [pc : 1..13, mode : {"absent", "ready", "asleep", "dead"},
                                      mask : SUBSET Signals, old : SUBSET Signals,
                                      pend : SUBSET Signals]
    <3>1. SUFFICES ASSUME NEW t \in Tasks
                   PROVE  task[t] \in [pc : 1..13, mode : {"absent", "ready", "asleep", "dead"},
                                       mask : SUBSET Signals, old : SUBSET Signals,
                                       pend : SUBSET Signals]
      OBVIOUS
    <3>2. task[t] \in TaskType /\ task[t].pc <= Len(Row[t]) + 1 /\ Len(Row[t]) \in Nat /\ Len(Row[t]) <= 12
      BY <2>1, RowFacts DEF IInv, Typed
    <3>3. task[t].pc \in 1..13
      BY <3>2 DEF TaskType
    <3>. QED
      BY <3>2, <3>3 DEF TaskType
  <2>3. task = [t \in Tasks |-> task[t]]
    BY <2>1 DEF IInv, Typed
  <2>4. task \in [Tasks -> [pc : 1..13, mode : {"absent", "ready", "asleep", "dead"},
                            mask : SUBSET Signals, old : SUBSET Signals, pend : SUBSET Signals]]
    BY <2>2, <2>3
  <2>5. \A p \in Procs :
          /\ proc[p].status \in {"absent", "run", "ok", "failed", "SEGV"} \cup Signals
          /\ proc[p].disp \in [Signals -> Handlers]
          /\ proc[p].shared \subseteq Signals
          /\ proc[p].armed \subseteq {"made", "ALRM", "RTMIN"}
          /\ proc[p].ticks \in 0..Ticks
          /\ proc[p].real \in {"root", "plain"} /\ proc[p].eff \in {"root", "plain", "nobody"}
    BY <2>1 DEF IInv, Typed, ProcType, Statuses, Timers
  <2>. QED
    BY <2>1, <2>4, <2>5 DEF IInv, Typed, TypeOK
<1>. QED
  BY <1>1, Invariant, PTL

(* No process dies of a signal but as its program means it to, and the     *)
(* child of syscall_rt_sigtimedwait signals a stranger only when its       *)
(* parent has given up or was interrupted.                                 *)
THEOREM TargetHit == Spec => []SignalsHitTarget
<1>1. IInv => SignalsHitTarget
  <2>1. SUFFICES ASSUME IInv PROVE SignalsHitTarget
    OBVIOUS
  <2>2. StrayOnlyAfterTimeout
    BY <2>1, SendsFacts DEF IInv, Answer, StrayOnlyAfterTimeout
  <2>. QED
    BY <2>1, <2>2 DEF IInv, Goals, SignalsHitTarget
<1>. QED
  BY <1>1, Invariant, PTL

(* A program that ends well has got the signals it is there for, and the   *)
(* limit on pending signals has refused the timer of syscall_time_create.  *)
THEOREM Purpose == Spec => []PurposeMet
<1>1. IInv => PurposeMet
  BY DEF IInv, Goals, PurposeMet
<1>. QED
  BY <1>1, Invariant, PTL

(* Every set that is printed is the one its message names at that moment,  *)
(* what is pending or what is blocked, but for the second report of        *)
(* signal_sigprocmask, which never is.                                     *)
THEOREM Labels == Spec => []ReportsAsLabelled
<1>1. IInv => ReportsAsLabelled
  <2>1. SUFFICES ASSUME IInv PROVE ReportsAsLabelled
    OBVIOUS
  <2>2. program \in DOMAIN SignalPrograms /\ task["main"].pc \in 1..End(program)
    BY <2>1, PcInOutline DEF IInv, Typed
  <2>3. AsLabelled(program, O.shown)
    BY <2>2, ShownAssumption DEF O
  <2>. QED
    BY <2>1, <2>3 DEF IInv, Follows, ReportsAsLabelled
<1>. QED
  BY <1>1, Invariant, PTL
=============================================================================
