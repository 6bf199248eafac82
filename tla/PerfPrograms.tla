---------------------------- MODULE PerfPrograms ----------------------------
(***************************************************************************)
(* The programs of PerfProgramTable against the events of the kernel.      *)
(* Process 0 is main, 1 to 4 are its children.  An event lives as long as  *)
(* somebody has a descriptor of it.  While it counts it may overflow:      *)
(* a record goes to the mapped buffer, SIGIO to the owner of the           *)
(* descriptor.  Any call that can fail may fail.                           *)
(***************************************************************************)
EXTENDS PerfProgramTable, FiniteSets

CONSTANTS
  RingWords,   \* words of the mapped data pages
  Refresh,     \* overflows that PERF_EVENT_IOC_REFRESH allows
  MaxLost      \* records lost in a row that are told apart

ASSUME BoundsAssumption == {RingWords, Refresh, MaxLost} \subseteq Nat \ {0}

VARIABLES
  prog,    \* the program
  proc,    \* its processes: where they are, and what their counters hold
  event,   \* the events of the kernel
  ring,    \* the mapped buffer: records from tail to head
  io       \* SIGIO of main, and SIGUSR1 of sigtrap

vars == <<prog, proc, event, ring, io>>

Procs    == 0..4
Events   == 1..9
Values   == {"unset", "zero", "counted"}
NoEvent  == [fds |-> {}, on |-> FALSE, ran |-> FALSE, leader |-> 0, with |-> {}, left |-> 0]
Born     == [state |-> "none", pc |-> 1, vals |-> [v \in 1..5 |-> "unset"], smashed |-> FALSE,
             head |-> 0]
Plain    == {"ip", "code page size", "phys addr"}

(* What a sample can hold; registers and stack of a kernel thread are none. *)
Samples(with) ==
  {<<k>> : k \in with \cap Plain}
  \cup (IF "regs" \in with THEN {<<"abi">>, <<"abi", "x0", "x1">>} ELSE {})
  \cup (IF "stack" \in with THEN {<<"size">>, <<"size", "stack", "dynamic size">>} ELSE {})
  \cup (IF "callchain" \in with THEN {<<"nr">>, <<"nr", "caller">>} ELSE {})

Init ==
  /\ prog \in DOMAIN PerfPrograms
  /\ proc = [p \in Procs |->
       IF p = 0 THEN [Born EXCEPT !.state = "runs"] ELSE Born]
  /\ event = [e \in Events |-> NoEvent]
  /\ ring = [pages |-> 0, head |-> 0, tail |-> 0, recs |-> <<>>, lost |-> 0]
  /\ io = [handler |-> FALSE, owner |-> FALSE, async |-> FALSE, pending |-> FALSE, count |-> 0,
           paused |-> FALSE]

Code(p) == IF p = 0 THEN PerfPrograms[prog].main ELSE PerfPrograms[prog].kid
At(p)   == Code(p)[proc[p].pc]
Runs(p, op) == proc[p].state = "runs" /\ proc[p].pc <= Len(Code(p)) /\ At(p).op = op
Kids    == Procs \ {0}
Gone(p) == proc[p].state \in {"none", "done", "failed", "killed"}

(* The event a step is about: a child's own one is numbered after main's.  *)
Ev(p)   == IF At(p).ev = 0 THEN 5 + p ELSE At(p).ev

Past(p)     == [proc EXCEPT ![p].pc = @ + 1]
Ended(p, s) == [proc EXCEPT ![p] = IF p = 0 THEN [@ EXCEPT !.state = s]
                                   ELSE [Born EXCEPT !.state = "done"]]
Next1(p)    == proc' = Past(p)

(* Without a descriptor left there is no event.                            *)
Dropped(e, p) == IF e.fds \subseteq {p} THEN NoEvent ELSE [e EXCEPT !.fds = @ \ {p}]
Ends(p, s) ==
  /\ proc' = Ended(p, s)
  /\ event' = [e \in Events |-> Dropped(event[e], p)]

(* A counter of a group counts while it and its leader are enabled.        *)
Group(ev, e)  == {m \in Events : ev[m].fds # {} /\ ev[m].leader = ev[e].leader}
Counts(ev, e) == ev[e].on /\ ev[ev[e].leader].on
Counted(ev)   ==
  [e \in Events |-> IF ev[e].fds # {} /\ Counts(ev, e) THEN [ev[e] EXCEPT !.ran = TRUE]
                    ELSE ev[e]]
Switched(es, on) ==
  Counted([e \in Events |-> IF e \in es THEN [event[e] EXCEPT !.on = on] ELSE event[e]])

TypeOK ==
  /\ prog \in DOMAIN PerfPrograms
  /\ \A p \in Procs :
       /\ proc[p].state \in {"none", "runs", "done", "failed", "killed"}
       /\ proc[p].pc \in 1 .. Len(Code(p)) + 1 /\ proc[p].vals \in [1..5 -> Values]
       /\ proc[p].smashed \in BOOLEAN /\ proc[p].head \in Nat
  /\ \A e \in Events :
       /\ event[e].fds \subseteq Procs /\ event[e].on \in BOOLEAN /\ event[e].ran \in BOOLEAN
       /\ event[e].leader \in 0..9 /\ event[e].left \in 0..Refresh
       /\ event[e].on => event[e].fds # {}
  /\ ring.head \in Nat /\ ring.tail \in 0 .. ring.head
  /\ ring.head - ring.tail < RingWords /\ ring.lost \in 0..MaxLost
  /\ io.count \in 0..5

-----------------------------------------------------------------------------
(* Opening, reading and closing.                                           *)

(* SET_FILTER is for tracepoints, and for hardware that traces addresses:   *)
(* here it never succeeds.                                                 *)
Fails(p) ==
  /\ \E op \in {"try", "open", "map", "fork", "filter"} : Runs(p, op)
  /\ Ends(p, "failed")
  /\ UNCHANGED <<prog, ring, io>>

Succeeds(p) == /\ Runs(p, "try") /\ Next1(p) /\ UNCHANGED <<prog, event, ring, io>>

(* Mutant of OpenEvent: the sample_type of another test stays in attr.     *)
OpenCopied(p) ==
  /\ Runs(p, "open") /\ Next1(p)
  /\ LET e == Ev(p) IN
     event' = Counted([event EXCEPT ![e] =
       [fds |-> {p}, on |-> "on" \in At(p).with, ran |-> FALSE,
        leader |-> IF At(p).leader = 0 THEN e ELSE At(p).leader,
        with |-> At(p).with \cup {"phys addr"}, left |-> 0]])
  /\ UNCHANGED <<prog, ring, io>>

OpenEvent(p) ==
  /\ Runs(p, "open") /\ Next1(p)
  /\ LET e == Ev(p) IN
     event' = Counted([event EXCEPT ![e] =
       [fds |-> {p}, on |-> "on" \in At(p).with, ran |-> FALSE,
        leader |-> IF At(p).leader = 0 THEN e ELSE At(p).leader, with |-> At(p).with,
        left |-> 0]])
  /\ UNCHANGED <<prog, ring, io>>

(* One control page and a power of two; a buffer that is there keeps its   *)
(* size.                                                                   *)
MapRing(p) ==
  /\ Runs(p, "map") /\ At(p).n \in {2, 3, 5, 9} /\ ring.pages \in {0, At(p).n}
  /\ Next1(p) /\ ring' = [ring EXCEPT !.pages = At(p).n]
  /\ UNCHANGED <<prog, event, io>>

Unmap(p) ==
  /\ Runs(p, "unmap") /\ Next1(p) /\ ring' = [ring EXCEPT !.pages = 0]
  /\ UNCHANGED <<prog, event, io>>

CloseEvent(p) ==
  /\ Runs(p, "close") /\ Next1(p)
  /\ event' = [event EXCEPT ![Ev(p)] = Dropped(event[Ev(p)], p)]
  /\ UNCHANGED <<prog, ring, io>>

(* A read that is too short for the format of the event leaves the         *)
(* variable as it is; so does one of a descriptor that is overwritten.     *)
Words(e) ==
  LET id == IF "id" \in event[e].with THEN 1 ELSE 0 IN
  IF "group" \in event[e].with THEN 1 + Cardinality(Group(event, e)) * (1 + id) ELSE 1 + id

Rank(e, m) == Cardinality({k \in Group(event, e) : k < m})
Value(e)   == IF event[e].ran THEN "counted" ELSE "zero"
ReadInto(vals, e, n, first) ==
  IF n < Words(e) THEN vals
  ELSE IF "group" \notin event[e].with THEN [vals EXCEPT ![first] = Value(e)]
  ELSE [v \in 1..5 |-> LET here == {m \in Group(event, e) : Rank(e, m) = v - first}
                       IN  IF here = {} THEN vals[v] ELSE Value(CHOOSE m \in here : TRUE)]

ReadCounter(p) ==
  /\ Runs(p, "read")
  /\ \/ proc' = [Past(p) EXCEPT ![p].vals = ReadInto(@, Ev(p), At(p).n, At(p).of)]
     \/ proc[p].smashed /\ Next1(p)
  /\ UNCHANGED <<prog, event, ring, io>>

Passes(p) ==   \* what is measured, and what is printed
  /\ Runs(p, "work") \/ Runs(p, "print")
  /\ Next1(p) /\ UNCHANGED <<prog, event, ring, io>>

(* Mutant of IndexArray: the index starts one further.                     *)
IndexFurther(p) ==
  /\ Runs(p, "index")
  /\ proc' = [Past(p) EXCEPT ![p].smashed = @ \/ p + At(p).n + 1 >= At(p).of]
  /\ UNCHANGED <<prog, event, ring, io>>

(* Behind the end of an array is whatever the compiler put there.          *)
IndexArray(p) ==
  /\ Runs(p, "index")
  /\ proc' = [Past(p) EXCEPT ![p].smashed = @ \/ p + At(p).n >= At(p).of]
  /\ UNCHANGED <<prog, event, ring, io>>

Crash(p) ==
  /\ proc[p].state = "runs" /\ proc[p].smashed /\ Ends(p, "killed")
  /\ UNCHANGED <<prog, ring, io>>

-----------------------------------------------------------------------------
(* Enabling and disabling.                                                 *)

Enable(p) ==
  /\ \/ Runs(p, "on") /\ event' = Switched({Ev(p)}, TRUE)
     \/ Runs(p, "on group") /\ event' = Switched(Group(event, Ev(p)), TRUE)
  /\ Next1(p) /\ UNCHANGED <<prog, ring, io>>

(* Mutant of Disable: a child has fd in the place of child_fd.             *)
DisableMains(p) ==
  /\ \/ Runs(p, "off") /\ event' = Switched({IF p = 0 THEN Ev(p) ELSE 1}, FALSE)
     \/ Runs(p, "off group") /\ event' = Switched(Group(event, Ev(p)), FALSE)
  /\ Next1(p) /\ UNCHANGED <<prog, ring, io>>

Disable(p) ==
  /\ \/ Runs(p, "off") /\ event' = Switched({Ev(p)}, FALSE)
     \/ Runs(p, "off group") /\ event' = Switched(Group(event, Ev(p)), FALSE)
  /\ Next1(p) /\ UNCHANGED <<prog, ring, io>>

(* child_fd without a value: the descriptor of main's event, or none.      *)
DisableStray(p) ==
  /\ Runs(p, "stray off") /\ Next1(p)
  /\ event' \in {event, Switched({1}, FALSE)}
  /\ UNCHANGED <<prog, ring, io>>

SetRefresh(p) ==
  /\ Runs(p, "refresh") /\ Next1(p)
  /\ event' = [Switched({Ev(p)}, TRUE) EXCEPT ![Ev(p)].left = Refresh]
  /\ UNCHANGED <<prog, ring, io>>

-----------------------------------------------------------------------------
(* An event overflows.                                                     *)

RecordOf(at, size, fields) == [at |-> at, size |-> size, fields |-> fields]

(* Without room the record is counted as lost; the next one to fit is      *)
(* preceded by a record of three words that says so.                       *)
Written(r, fields) ==
  LET size == 1 + Len(fields)
      lost == IF r.lost = 0 THEN <<>> ELSE <<RecordOf(r.head, 3, <<>>)>>
      at   == r.head + 3 * Len(lost)
  IN IF at + size - r.tail < RingWords
     THEN [r EXCEPT !.head = at + size, !.lost = 0,
                    !.recs = @ \o lost \o <<RecordOf(at, size, fields)>>]
     ELSE [r EXCEPT !.lost = IF @ < MaxLost THEN @ + 1 ELSE @]

Overflow(e) ==
  /\ event[e].fds # {} /\ Counts(event, e)
  /\ \E fields \in Samples(event[e].with) :
       /\ ring.pages # 0 \/ io.async
       /\ ring' = IF ring.pages # 0 /\ "backward" \notin event[e].with
                  THEN Written(ring, fields) ELSE ring
  /\ io' = [io EXCEPT !.pending = @ \/ (io.async /\ io.owner)]
  /\ event' = IF event[e].left = 0 THEN event
              ELSE [event EXCEPT ![e].left = @ - 1, ![e].on = event[e].left > 1]
  /\ UNCHANGED <<prog, proc>>

TakeHead(p) ==
  /\ Runs(p, "snapshot") /\ proc' = [Past(p) EXCEPT ![p].head = ring.head]
  /\ UNCHANGED <<prog, event, ring, io>>

(* Mutant of DrainRecord: the header is added to the size that holds it.   *)
DrainPast(p) ==
  /\ Runs(p, "drain") /\ UNCHANGED <<prog, event, io>>
  /\ IF proc[p].head = ring.tail THEN Next1(p) /\ UNCHANGED ring
     ELSE /\ ring' = [ring EXCEPT !.tail = @ + Head(ring.recs).size + 1, !.recs = Tail(@)]
          /\ UNCHANGED proc

(* while (data_head != header->data_tail), a record at a time.             *)
DrainRecord(p) ==
  /\ Runs(p, "drain") /\ UNCHANGED <<prog, event, io>>
  /\ IF proc[p].head = ring.tail THEN Next1(p) /\ UNCHANGED ring
     ELSE /\ ring' = [ring EXCEPT !.tail = @ + Head(ring.recs).size, !.recs = Tail(@)]
          /\ UNCHANGED proc

-----------------------------------------------------------------------------
(* Signals.                                                                *)

SetUp(p) ==
  /\ \/ Runs(p, "handler") /\ io' = [io EXCEPT !.handler = TRUE]
     \/ Runs(p, "owner") /\ io' = [io EXCEPT !.owner = TRUE]
     \/ Runs(p, "async") /\ io' = [io EXCEPT !.async = TRUE]
  /\ Next1(p) /\ UNCHANGED <<prog, event, ring>>

(* SIGIO kills a process that does not handle it.                          *)
Deliver ==
  /\ io.pending /\ proc[0].state = "runs"
  /\ io' = [io EXCEPT !.pending = FALSE, !.count = IF io.handler /\ @ < 5 THEN @ + 1 ELSE @]
  /\ IF io.handler THEN UNCHANGED <<proc, event>> ELSE Ends(0, "killed")
  /\ UNCHANGED <<prog, ring>>

Spin(p) ==   \* while (signal_count < 5)
  /\ Runs(p, "spin") /\ io.count = 5
  /\ Next1(p) /\ UNCHANGED <<prog, event, ring, io>>

(* kill(getpid(), SIGUSR1), and what handle_signal does.                   *)
Raise(p) ==
  /\ Runs(p, "raise")
  /\ io' = [io EXCEPT !.paused = ~@]
  /\ event' = Switched({1}, io.paused)
  /\ proc' = [Past(p) EXCEPT ![p].vals =
                IF io.paused THEN @ ELSE ReadInto(@, 1, 1, 1)]
  /\ UNCHANGED <<prog, ring>>

-----------------------------------------------------------------------------
(* Parents and children.                                                   *)

ForkChild(p) ==
  /\ Runs(p, "fork")
  /\ proc' = [Past(p) EXCEPT ![At(p).n] =
                [proc[p] EXCEPT !.state = "runs", !.pc = 1, !.smashed = FALSE]]
  /\ event' = [e \in Events |->
       IF p \in event[e].fds THEN [event[e] EXCEPT !.fds = @ \cup {At(p).n}] ELSE event[e]]
  /\ UNCHANGED <<prog, ring, io>>

(* Mutant of Wait: one wait for all children.                              *)
WaitOnce(p) ==
  /\ Runs(p, "wait all") \/ Runs(p, "wait one")
  /\ \E k \in Kids : Gone(k) /\ proc[k].state # "none"
  /\ Next1(p) /\ UNCHANGED <<prog, event, ring, io>>

Wait(p) ==
  /\ \/ Runs(p, "wait all") /\ \A k \in Kids : Gone(k)
     \/ Runs(p, "wait one") /\ \E k \in Kids : Gone(k) /\ proc[k].state # "none"
  /\ Next1(p) /\ UNCHANGED <<prog, event, ring, io>>

Finish(p) ==
  /\ proc[p].state = "runs" /\ proc[p].pc > Len(Code(p)) /\ Ends(p, "done")
  /\ UNCHANGED <<prog, ring, io>>

Step(p) ==
  \/ Fails(p) \/ Succeeds(p) \/ OpenEvent(p) \/ MapRing(p) \/ Unmap(p)
  \/ CloseEvent(p) \/ ReadCounter(p) \/ Passes(p) \/ IndexArray(p) \/ Crash(p)
  \/ Enable(p) \/ Disable(p) \/ DisableStray(p) \/ SetRefresh(p)
  \/ TakeHead(p) \/ DrainRecord(p) \/ SetUp(p) \/ Spin(p) \/ Raise(p)
  \/ ForkChild(p) \/ Wait(p) \/ Finish(p)

Next == (\E p \in Procs : Step(p)) \/ (\E e \in Events : Overflow(e)) \/ Deliver

(* Some process runs if one can, an event that is on counts, and a signal  *)
(* arrives.                                                                *)
Fairness ==
  /\ WF_vars(\E p \in Procs : Step(p))
  /\ WF_vars(\E e \in Events : Overflow(e))
  /\ WF_vars(Deliver)

Spec == Init /\ [][Next]_vars /\ Fairness

-----------------------------------------------------------------------------
(* Properties.                                                             *)

(* These print a counter whose read the kernel refused, because the eight  *)
(* bytes do not hold the group format, or that is not in the group.        *)
PrintsUnread ==
  {"ctest_perf_event_cgroup", "ctest_perf_event_freq", "ctest_perf_event_freq_account",
   "ctest_perf_event_cgroup_addheap", "ctest_perf_fasync", "ctest_perf_event_min_heap"}

(* No other program prints a variable it has not read (read and printf at  *)
(* the end of each main).                                                  *)
PrintedValuesRead ==
  \A p \in Procs :
    Runs(p, "print") /\ (\E v \in At(p).vars : proc[p].vals[v] = "unset")
    => prog \in PrintsUnread \/ proc[p].smashed

(* A counter is printed as zero only where the siblings were not enabled   *)
(* or exec never came: every other program enables what it reads.          *)
CountersRan ==
  \A p \in Procs :
    Runs(p, "print") /\ (\E v \in At(p).vars : proc[p].vals[v] = "zero")
    => prog \in {"ctest_perf_event_sibling", "ctest_perf_event_pinned"}

(* While main measures, the siblings of an enabled leader are enabled, as  *)
(* the comment at ctest_perf_event_sibling.c:80 says.                      *)
SiblingsEnabled ==
  Runs(0, "work") => \A e \in Events :
    event[e].fds # {} /\ event[event[e].leader].on => event[e].on

(* main reads an inherited counter when no child adds to it any more, and  *)
(* a child outlives main only if main failed or crashed.                   *)
TotalsAreFinal ==
  /\ Runs(0, "read") /\ "inherit" \in event[1].with => \A k \in Kids : Gone(k)
  /\ proc[0].state = "done" => \A k \in Kids : Gone(k)

(* Nobody turns off an event that another process has opened and still     *)
(* uses, but for the children that share or do not know their descriptor.  *)
Opener(e) == IF e > 5 THEN e - 5 ELSE 0
OnlyOwnerDisables ==
  [][\A e \in Events :
       event[e].on /\ ~event'[e].on /\ event[e].left = 0 /\ ~Gone(Opener(e))
       => \/ proc[Opener(e)] # proc'[Opener(e)]
          \/ prog \in {"ctest_perf_event_herit", "ctest_perf_event_pinned",
                       "ctest_perf_event_sync_child"}]_vars

(* Behind an array write only the last of four children (pe[4] of four),   *)
(* and the two programs whose fifth id has half the room it needs.         *)
OverrunsAreKnown ==
  \A p \in Procs : proc[p].smashed =>
    p = 4 \/ prog \in {"ctest_perf_event_pending", "ctest_perf_event_min_heap"}

(* SIGIO finds its handler: it is installed before the event is enabled.   *)
NoStraySigio == proc[0].state = "killed" => proc[0].smashed

(* What is shown under a label: the field at its place; behind the end of  *)
(* a sample, what comes next.                                              *)
Shown(rec) ==
  {<<At(0).labels[i], IF i <= Len(rec.fields) THEN rec.fields[i] ELSE "next">> :
     i \in {i \in DOMAIN At(0).labels : At(0).stated => i <= Len(rec.fields)}}

(* A sample is shown as what it is, but for four programs whose label is   *)
(* not what their sample_type asks for, or off by the leading word.        *)
SamplesAsLabelled ==
  Runs(0, "drain") /\ proc[0].head # ring.tail
  /\ (\E s \in Shown(Head(ring.recs)) : Head(ring.recs).fields # <<>> /\ s[1] # s[2])
  => prog \in {"ctest_perf_event_sample_regs", "ctest_perf_event_sample_regs_intr",
               "ctest_perf_sample_stack_user", "ctest_perf_sample_data_pgsize"}

(* The loops follow a pointer into the buffer and do not come round its    *)
(* end: no record they read is split there.                                *)
RecordsWhole ==
  Runs(0, "drain") /\ proc[0].head # ring.tail =>
    (Head(ring.recs).at % RingWords) + Head(ring.recs).size <= RingWords

(* What is printed as the value of a counter: read, counted, and final.    *)
PrintsFinalCounts == PrintedValuesRead /\ CountersRan /\ TotalsAreFinal

(* What is printed from the buffer: whole records, under their labels.     *)
RecordsAsLabelled == SamplesAsLabelled /\ RecordsWhole

(* The harm a program does to itself: only the known ones write behind an  *)
(* array, and no other is killed, by a crash or by a signal.               *)
OnlyKnownHarm == OverrunsAreKnown /\ NoStraySigio

(* Every program and its children come to their end, whichever call fails: *)
(* every wait has its child, every loop over the buffer meets data_head,   *)
(* and the loop that spins gets its signals.                               *)
ProgramsEnd == <>(\A p \in Procs : Gone(p))
=============================================================================
