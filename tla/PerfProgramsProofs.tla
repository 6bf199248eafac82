------------------------- MODULE PerfProgramsProofs -------------------------
(***************************************************************************)
(* Theorems about PerfPrograms, for every size of the buffer and every     *)
(* bound: from the checks of PerfSource follow the properties of the runs. *)
(***************************************************************************)
EXTENDS PerfSource, FiniteSetTheorems, TLAPS

States    == {"none", "runs", "done", "failed", "killed"}
ValsType  == [1..5 -> Values]
ProcType  == [state: States, pc: Nat \ {0}, vals: ValsType, smashed: BOOLEAN, head: Nat]
EventType == [fds: SUBSET Procs, on: BOOLEAN, ran: BOOLEAN, leader: 0..9,
              with: SUBSET STRING, left: 0..Refresh]
Labels    == Plain \cup {"abi", "x0", "x1", "size", "stack", "dynamic size", "nr", "caller"}
RecType   == [at: Nat, size: Nat \ {0}, fields: Seq(Labels)]
RingType  == [pages: Nat, head: Nat, tail: Nat, recs: Seq(RecType), lost: 0..MaxLost]
IoType    == [handler: BOOLEAN, owner: BOOLEAN, async: BOOLEAN, pending: BOOLEAN,
              count: 0..5, paused: BOOLEAN]

Typed ==
  /\ prog \in DOMAIN PerfPrograms
  /\ proc \in [Procs -> ProcType] /\ \A p \in Procs : proc[p].pc <= Len(Code(p)) + 1
  /\ event \in [Events -> EventType]
  /\ ring \in RingType /\ io \in IoType

row == PerfPrograms[prog]

(* An event has one opener, who knows it under a number.                   *)
Name(e)    == IF e > 5 THEN 0 ELSE e
Sees(p, e) == e <= 5 \/ e = 5 + p
Base(p)    == IF p = 0 THEN {} ELSE Inherited(row)
Holds(p, e) == Sees(p, e) /\ HeldAt(Code(p), Base(p), Name(e), proc[p].pc)

(* A process has the descriptors its code says.                            *)
Descriptors ==
  \A p \in Procs, e \in Events :
    p \in event[e].fds <=> proc[p].state = "runs" /\ Holds(p, e)

(* An event is as its opener has opened it, and has counted when the       *)
(* opener's code says so.                                                  *)
OpenedBy(e, s) ==
  /\ Opens(s, Name(e))
  /\ event[e].with = s.with
  /\ event[e].leader = IF s.leader = 0 THEN e ELSE s.leader

Opened ==
  \A e \in Events :
    /\ event[e].on \/ event[e].ran => event[e].fds # {}
    /\ event[e].fds # {} =>
         /\ \E j \in DOMAIN Code(Opener(e)) : OpenedBy(e, Code(Opener(e))[j])
         /\ TurnedOn(Code(Opener(e)), Name(e), proc[Opener(e)].pc) => event[e].ran

(* A child has been forked, and is gone when main has waited for it.       *)
Children ==
  /\ \A k \in Kids :
       /\ proc[k].state \in {"none", "runs", "done"}
       /\ proc[k].state # "none" =>
            \E f \in Before(proc[0].pc) : row.main[f].op = "fork" /\ row.main[f].n = k
  /\ WaitedAt(row.main, proc[0].pc) => \A k \in Kids : Gone(k)
  /\ proc[0].state = "done" => proc[0].pc = Len(row.main) + 1

(* What has been read has a value, and zero only in two programs.          *)
ValuesOK ==
  \A p \in Procs :
    /\ prog \notin ReadAtZero => \A v \in 1..5 : proc[p].vals[v] # "zero"
    /\ \A v \in 1..5 : ReadBefore(row, Code(p), p, v, proc[p].pc) =>
         proc[p].vals[v] # "unset" \/ proc[p].smashed
    /\ proc[p].smashed => \E i \in DOMAIN Code(p) : Overrun(Code(p)[i], p)

(* SIGIO has a handler before it has an owner.                             *)
SignalsOK ==
  /\ \A j \in Before(proc[0].pc) : row.main[j].op = "handler" => io.handler
  /\ io.owner \/ io.pending => io.handler
  /\ proc[0].state = "killed" => proc[0].smashed
  /\ proc[0].state # "none"

(* The records are contiguous from tail to head.                           *)
Bound(r, i) == IF i \in DOMAIN r.recs THEN r.recs[i].at ELSE r.head
Chain(r) ==
  /\ Bound(r, 1) = r.tail
  /\ \A i \in DOMAIN r.recs :
       /\ Bound(r, i + 1) = r.recs[i].at + r.recs[i].size
       /\ r.recs[i].at + r.recs[i].size <= r.head

(* Nothing is added once somebody takes records out.                       *)
RingOK ==
  /\ Chain(ring) /\ ring.head < RingWords
  /\ ring.tail # 0 => Drains(row.main) /\ QuietAt(row.main, proc[0].pc)
  /\ Drains(row.main) =>
       /\ \A e \in Events \ {1} : event[e].fds = {}
       /\ QuietAt(row.main, proc[0].pc) => ~event[1].on
       /\ \A j \in Before(proc[0].pc) :
            row.main[j].op = "snapshot" => proc[0].head = ring.head
       /\ \A i \in DOMAIN ring.recs :
            ring.recs[i].fields = <<>> \/
            \E j \in DOMAIN row.main :
              row.main[j].op = "open" /\ ring.recs[i].fields \in Samples(row.main[j].with)

IInv == /\ Typed /\ Descriptors /\ Opened /\ Children /\ ValuesOK /\ SignalsOK /\ RingOK

-----------------------------------------------------------------------------
(* Code and steps.                                                         *)

LEMMA ProgRow == ASSUME Typed PROVE row \in Rows
  BY DEF Typed, row, Rows

LEMMA RowFacts ==
  ASSUME Typed
  PROVE  /\ row.main \in Seq({row.main[i] : i \in DOMAIN row.main})
         /\ row.kid \in Seq({row.kid[i] : i \in DOMAIN row.kid})
         /\ \A i \in DOMAIN row.main :
              /\ StepOK(row.main[i]) /\ row.main[i].op # "stray off"
              /\ row.main[i].op \in EventOps => row.main[i].ev # 0
              /\ row.main[i].op = "open" => row.main[i].leader # 0
         /\ \A i \in DOMAIN row.kid :
              /\ StepOK(row.kid[i]) /\ row.kid[i].op \notin MainOnly
              /\ row.kid[i].op = "open" => row.kid[i].ev = 0 /\ row.kid[i].leader = 0
         /\ UsesHeld(row.main, {}) /\ UsesHeld(row.kid, Inherited(row)) /\ ForksWithAll(row)
  BY ProgRow, StepsAssumption, DescriptorsAssumption

LEMMA CodeTypes ==
  ASSUME Typed, NEW p \in Procs
  PROVE  /\ Code(p) = IF p = 0 THEN row.main ELSE row.kid
         /\ Len(Code(p)) \in Nat /\ DOMAIN Code(p) = 1..Len(Code(p))
         /\ \A i \in DOMAIN Code(p) : StepOK(Code(p)[i])
         /\ UsesHeld(Code(p), Base(p))
<1>1. Code(p) = IF p = 0 THEN row.main ELSE row.kid
  BY DEF Code, row
<1>2. Len(Code(p)) \in Nat /\ DOMAIN Code(p) = 1..Len(Code(p))
  <2>1. \A c : c \in Seq({c[i] : i \in DOMAIN c}) => Len(c) \in Nat /\ DOMAIN c = 1..Len(c)
    OBVIOUS
  <2>. QED
    BY <1>1, <2>1, RowFacts
<1>3. \A i \in DOMAIN Code(p) : StepOK(Code(p)[i])
  BY <1>1, RowFacts
<1>4. UsesHeld(Code(p), Base(p))
  BY <1>1, RowFacts DEF Base
<1>. QED
  BY <1>1, <1>2, <1>3, <1>4

(* What is known of the step at which a process runs.                      *)
LEMMA StepFacts ==
  ASSUME Typed, NEW p \in Procs, NEW op, Runs(p, op)
  PROVE  /\ proc[p].state = "runs" /\ proc[p].pc \in DOMAIN Code(p)
         /\ At(p) = Code(p)[proc[p].pc] /\ At(p).op = op
         /\ StepOK(At(p))
         /\ op \in EventOps \ {"open"} => HeldAt(Code(p), Base(p), At(p).ev, proc[p].pc)
         /\ op \in MainOnly => p = 0
         /\ op = "stray off" => p # 0
<1>1. /\ proc[p].state = "runs" /\ proc[p].pc \in DOMAIN Code(p)
      /\ At(p) = Code(p)[proc[p].pc] /\ At(p).op = op
  BY CodeTypes DEF Runs, At, Typed, ProcType
<1>2. StepOK(At(p))
  BY <1>1, CodeTypes
<1>3. op \in EventOps \ {"open"} => HeldAt(Code(p), Base(p), At(p).ev, proc[p].pc)
  BY <1>1, CodeTypes DEF UsesHeld
<1>4. (op \in MainOnly => p = 0) /\ (op = "stray off" => p # 0)
  BY <1>1, CodeTypes, RowFacts
<1>. QED
  BY <1>1, <1>2, <1>3, <1>4

(* The event a step is about.                                              *)
LEMMA EvFacts ==
  ASSUME Typed, NEW p \in Procs, NEW op \in EventOps, Runs(p, op)
  PROVE  /\ Ev(p) \in Events /\ Name(Ev(p)) = At(p).ev /\ Sees(p, Ev(p))
         /\ At(p).ev \in 0..5 /\ (p = 0 => At(p).ev # 0)
         /\ \A e \in Events : Sees(p, e) /\ Name(e) = At(p).ev => e = Ev(p)
         /\ op = "open" => /\ Opener(Ev(p)) = p
                           /\ At(p).leader \in 0..5 /\ At(p).with \in SUBSET STRING
                           /\ (p = 0 => At(p).leader # 0)
                           /\ (p # 0 => At(p).ev = 0 /\ At(p).leader = 0)
<1>1. /\ proc[p].pc \in DOMAIN Code(p) /\ At(p) = Code(p)[proc[p].pc]
      /\ At(p).op = op /\ StepOK(At(p))
  BY StepFacts
<1>2. At(p).ev \in 0..5 /\ (p = 0 => At(p).ev # 0)
  <2>1. At(p).ev \in 0..5
    BY <1>1 DEF StepOK
  <2>2. p = 0 => At(p).ev # 0
    BY <1>1, CodeTypes, RowFacts
  <2>. QED
    BY <2>1, <2>2
<1>3. op = "open" => /\ At(p).leader \in 0..5 /\ At(p).with \in SUBSET STRING
                        /\ (p = 0 => At(p).leader # 0)
                        /\ (p # 0 => At(p).ev = 0 /\ At(p).leader = 0)
  <2>1. op = "open" => At(p).leader \in 0..5 /\ At(p).with \in SUBSET STRING
    BY <1>1 DEF StepOK
  <2>2. op = "open" /\ p = 0 => At(p).leader # 0
    BY <1>1, CodeTypes, RowFacts
  <2>3. op = "open" /\ p # 0 => At(p).ev = 0 /\ At(p).leader = 0
    BY <1>1, CodeTypes, RowFacts
  <2>. QED
    BY <2>1, <2>2, <2>3
<1>. QED
  BY <1>1, <1>2, <1>3 DEF Ev, Events, Name, Sees, Opener, Procs

LEMMA SameProg == ASSUME Typed, [Next]_vars PROVE prog' = prog /\ row' = row
  /\ \A p \in Procs : Code(p)' = Code(p) /\ Base(p)' = Base(p)
<1>1. prog' = prog
  BY DEF Next, vars, Step, Fails, Succeeds, OpenEvent, MapRing, Unmap, CloseEvent,
     ReadCounter, Passes, IndexArray, Crash, Enable, Disable, DisableStray, SetRefresh,
     TakeHead, DrainRecord, SetUp, Spin, Raise, ForkChild, Wait, Finish, Overflow, Deliver
<1>. QED
  BY <1>1 DEF row, Code, Base

(* One step further.                                                       *)
LEMMA HeldNext ==
  ASSUME NEW c, NEW base, NEW e, NEW i \in Nat \ {0}
  PROVE  HeldAt(c, base, e, i + 1) <=>
           \/ Opens(c[i], e)
           \/ ~Closes(c[i], e) /\ HeldAt(c, base, e, i)
<1>1. Before(i + 1) = Before(i) \cup {i} /\ ~(\E k \in (i + 1)..((i + 1) - 1) : TRUE)
  BY DEF Before
<1>2. \A j \in Before(i) : (j + 1)..((i + 1) - 1) = ((j + 1)..(i - 1)) \cup {i}
  BY DEF Before
<1>3. Opens(c[i], e) => ~Closes(c[i], e)
  BY DEF Opens, Closes
<1>. QED
  BY <1>1, <1>2, <1>3 DEF HeldAt

LEMMA TurnedNext ==
  ASSUME NEW c, NEW e, NEW i \in Nat \ {0}
  PROVE  TurnedOn(c, e, i + 1) <=> TurnedOn(c, e, i) \/ TurnsOn(c, e, i)
<1>1. Before(i + 1) = Before(i) \cup {i}
  BY DEF Before
<1>. QED
  BY <1>1 DEF TurnedOn

LEMMA ReadNext ==
  ASSUME NEW r, NEW c, NEW p, NEW v, NEW i \in Nat \ {0}
  PROVE  ReadBefore(r, c, p, v, i + 1) <=> ReadBefore(r, c, p, v, i) \/ ReadsAt(r, c, p, v, i)
<1>1. Before(i + 1) = Before(i) \cup {i}
  BY DEF Before
<1>. QED
  BY <1>1 DEF ReadBefore

-----------------------------------------------------------------------------
(* What the kernel does to events.                                         *)

SameOpening(ev, e) ==
  ev[e].fds = event[e].fds /\ ev[e].leader = event[e].leader /\ ev[e].with = event[e].with

LEMMA CountedFacts ==
  ASSUME NEW ev \in [Events -> EventType]
  PROVE  /\ Counted(ev) \in [Events -> EventType]
         /\ \A e \in Events :
              /\ Counted(ev)[e].fds = ev[e].fds /\ Counted(ev)[e].on = ev[e].on
              /\ Counted(ev)[e].leader = ev[e].leader /\ Counted(ev)[e].with = ev[e].with
              /\ Counted(ev)[e].left = ev[e].left
              /\ Counted(ev)[e].ran <=> ev[e].ran \/ (ev[e].fds # {} /\ Counts(ev, e))
<1>. DEFINE c == Counted(ev)
<1>1. \A e \in Events :
        c[e] = IF ev[e].fds # {} /\ Counts(ev, e) THEN [ev[e] EXCEPT !.ran = TRUE] ELSE ev[e]
  BY DEF Counted
<1>2. c \in [Events -> EventType]
  BY DEF Counted, EventType
<1>3. ASSUME NEW e \in Events
      PROVE  /\ c[e].fds = ev[e].fds /\ c[e].on = ev[e].on /\ c[e].leader = ev[e].leader
             /\ c[e].with = ev[e].with /\ c[e].left = ev[e].left
             /\ c[e].ran <=> ev[e].ran \/ (ev[e].fds # {} /\ Counts(ev, e))
  <2>1. ev[e] \in EventType
    OBVIOUS
  <2>. HIDE DEF c
  <2>2. CASE ev[e].fds # {} /\ Counts(ev, e)
    BY <1>1, <2>1, <2>2 DEF EventType
  <2>3. CASE ~(ev[e].fds # {} /\ Counts(ev, e))
    BY <1>1, <2>1, <2>3 DEF EventType
  <2>. QED
    BY <2>2, <2>3
<1>. QED
  BY <1>2, <1>3

LEMMA SwitchedFacts ==
  ASSUME Typed, NEW es \in SUBSET Events, NEW on \in BOOLEAN
  PROVE  /\ Switched(es, on) \in [Events -> EventType]
         /\ \A e \in Events :
              /\ SameOpening(Switched(es, on), e)
              /\ e \in es => (Switched(es, on)[e].on <=> on)
              /\ e \notin es => (Switched(es, on)[e].on <=> event[e].on)
              /\ Switched(es, on)[e].left = event[e].left
              /\ event[e].ran => Switched(es, on)[e].ran
              /\ Switched(es, on)[e].ran => event[e].ran \/ event[e].fds # {}
              /\ event[e].fds # {} /\ event[e].leader \in Events /\ Counts(Switched(es, on), e)
                   => Switched(es, on)[e].ran
<1>. DEFINE ev == [e \in Events |-> IF e \in es THEN [event[e] EXCEPT !.on = on] ELSE event[e]]
<1>1. ev \in [Events -> EventType]
  BY DEF Typed, EventType
<1>2. \A e \in Events :
        /\ SameOpening(ev, e) /\ ev[e].left = event[e].left /\ ev[e].ran = event[e].ran
        /\ ev[e].on = (IF e \in es THEN on ELSE event[e].on)
  BY DEF Typed, EventType, SameOpening
<1>3. Switched(es, on) = Counted(ev)
  BY DEF Switched
<1>. HIDE DEF ev
<1>4. \A e \in Events :
        event[e].fds # {} /\ event[e].leader \in Events /\ Counts(Counted(ev), e)
          => Counted(ev)[e].ran
  BY <1>1, <1>2, CountedFacts DEF Counts, SameOpening
<1>. QED
  BY <1>1, <1>2, <1>3, <1>4, CountedFacts DEF SameOpening

-----------------------------------------------------------------------------
(* What a step does to the processes.                                      *)

(* Process p takes the step it is at and goes on behind it.                *)
Goes(p) ==
  /\ proc[p].state = "runs" /\ proc[p].pc \in DOMAIN Code(p)
  /\ proc' \in [Procs -> ProcType]
  /\ proc'[p].state = "runs" /\ proc'[p].pc = proc[p].pc + 1
  /\ \A q \in Procs \ {p} : proc'[q] = proc[q]

Behind(p, v, b, h) ==
  [proc EXCEPT ![p] = [proc[p] EXCEPT !.pc = proc[p].pc + 1, !.vals = v,
                                      !.smashed = b, !.head = h]]

LEMMA GoesOn ==
  ASSUME Typed, NEW p \in Procs, NEW op, Runs(p, op),
         NEW v \in ValsType, NEW b \in BOOLEAN, NEW h \in Nat, proc' = Behind(p, v, b, h)
  PROVE  Goes(p) /\ proc'[p].vals = v /\ proc'[p].smashed = b /\ proc'[p].head = h
<1>. DEFINE i == proc[p].pc + 1
            x == [proc[p] EXCEPT !.pc = i, !.vals = v, !.smashed = b, !.head = h]
<1>1. /\ proc \in [Procs -> ProcType] /\ proc[p] \in ProcType
      /\ proc[p].state = "runs" /\ proc[p].pc \in DOMAIN Code(p)
  BY StepFacts DEF Typed
<1>2. i \in Nat \ {0}
  BY <1>1 DEF ProcType
<1>3. proc' = [proc EXCEPT ![p] = x]
  BY DEF Behind
<1>. HIDE DEF i
<1>4. /\ x \in ProcType /\ x.state = "runs" /\ x.pc = i
      /\ x.vals = v /\ x.smashed = b /\ x.head = h
  BY <1>1, <1>2 DEF ProcType
<1>. HIDE DEF x
<1>5. /\ proc' \in [Procs -> ProcType] /\ proc'[p] = x
      /\ \A q \in Procs \ {p} : proc'[q] = proc[q]
  BY <1>1, <1>3, <1>4
<1>. QED
  BY <1>1, <1>4, <1>5 DEF Goes, i

LEMMA ProcTypes ==
  ASSUME Typed, NEW p \in Procs
  PROVE  /\ proc[p] \in ProcType /\ proc[p].vals \in ValsType
         /\ proc[p].smashed \in BOOLEAN /\ proc[p].head \in Nat
  BY DEF Typed, ProcType

LEMMA PastGoes ==
  ASSUME Typed, NEW p \in Procs, NEW op, Runs(p, op), Next1(p)
  PROVE  /\ Goes(p)
         /\ proc'[p].vals = proc[p].vals /\ proc'[p].smashed = proc[p].smashed
         /\ proc'[p].head = proc[p].head
<1>1. proc' = Behind(p, proc[p].vals, proc[p].smashed, proc[p].head)
  BY DEF Behind, Next1, Past, Typed, ProcType
<1>. QED
  BY <1>1, ProcTypes, GoesOn

LEMMA ValuesTyped ==
  ASSUME Typed, NEW vals \in ValsType, NEW e, NEW n, NEW first \in 1..5
  PROVE  ReadInto(vals, e, n, first) \in ValsType
  BY DEF ReadInto, Value, Values, ValsType

LEMMA ReadGoes ==
  ASSUME Typed, NEW p \in Procs, ReadCounter(p)
  PROVE  /\ Goes(p)
         /\ proc'[p].smashed = proc[p].smashed /\ proc'[p].head = proc[p].head
         /\ \/ proc'[p].vals = ReadInto(proc[p].vals, Ev(p), At(p).n, At(p).of)
            \/ proc[p].smashed /\ proc'[p].vals = proc[p].vals
<1>1. Runs(p, "read") /\ At(p).of \in 1..5
  BY StepFacts DEF ReadCounter, StepOK
<1>2. CASE proc[p].smashed /\ Next1(p)
  BY <1>1, <1>2, PastGoes
<1>. DEFINE v == ReadInto(proc[p].vals, Ev(p), At(p).n, At(p).of)
<1>3. CASE proc' = [Past(p) EXCEPT ![p].vals = ReadInto(@, Ev(p), At(p).n, At(p).of)]
  <2>1. v \in ValsType
    BY <1>1, ValuesTyped DEF Typed, ProcType
  <2>2. proc' = Behind(p, v, proc[p].smashed, proc[p].head)
    BY <1>3 DEF Behind, Past, Typed, ProcType
  <2>. HIDE DEF v
  <2>3. Goes(p) /\ proc'[p].vals = v /\ proc'[p].smashed = proc[p].smashed
        /\ proc'[p].head = proc[p].head
    BY <1>1, <2>1, <2>2, ProcTypes, GoesOn
  <2>. QED
    BY <2>3 DEF v
<1>. QED
  BY <1>2, <1>3 DEF ReadCounter

LEMMA IndexGoes ==
  ASSUME Typed, NEW p \in Procs, IndexArray(p)
  PROVE  /\ Goes(p)
         /\ proc'[p].vals = proc[p].vals /\ proc'[p].head = proc[p].head
         /\ proc'[p].smashed <=> proc[p].smashed \/ Overrun(At(p), p)
<1>1. Runs(p, "index") /\ At(p).op = "index"
  BY StepFacts DEF IndexArray
<1>2. proc' = Behind(p, proc[p].vals, proc[p].smashed \/ p + At(p).n >= At(p).of, proc[p].head)
  BY DEF Behind, IndexArray, Past, Typed, ProcType
<1>. DEFINE b == proc[p].smashed \/ p + At(p).n >= At(p).of
<1>3. b \in BOOLEAN /\ (b <=> proc[p].smashed \/ Overrun(At(p), p))
  BY <1>1 DEF Overrun, Typed, ProcType
<1>. HIDE DEF b
<1>4. proc' = Behind(p, proc[p].vals, b, proc[p].head)
  BY <1>2 DEF Behind, b
<1>5. Goes(p) /\ proc'[p].vals = proc[p].vals /\ proc'[p].head = proc[p].head
      /\ proc'[p].smashed = b
  BY <1>1, <1>3, <1>4, ProcTypes, GoesOn
<1>. QED
  BY <1>3, <1>5

LEMMA TakeHeadGoes ==
  ASSUME Typed, NEW p \in Procs, TakeHead(p)
  PROVE  /\ Goes(p)
         /\ proc'[p].vals = proc[p].vals /\ proc'[p].smashed = proc[p].smashed
         /\ proc'[p].head = ring.head
<1>1. Runs(p, "snapshot") /\ ring.head \in Nat
  BY DEF TakeHead, Typed, RingType
<1>2. proc' = Behind(p, proc[p].vals, proc[p].smashed, ring.head)
  BY DEF Behind, TakeHead, Past, Typed, ProcType
<1>. QED
  BY <1>1, <1>2, ProcTypes, GoesOn

LEMMA RaiseGoes ==
  ASSUME Typed, NEW p \in Procs, Raise(p)
  PROVE  /\ Goes(p)
         /\ proc'[p].smashed = proc[p].smashed /\ proc'[p].head = proc[p].head
         /\ proc'[p].vals \in {proc[p].vals, ReadInto(proc[p].vals, 1, 1, 1)}
<1>. DEFINE v == IF io.paused THEN proc[p].vals ELSE ReadInto(proc[p].vals, 1, 1, 1)
<1>1. Runs(p, "raise") /\ v \in ValsType
  BY ValuesTyped DEF Raise, Typed, ProcType
<1>2. proc' = Behind(p, v, proc[p].smashed, proc[p].head)
  BY DEF Behind, Raise, Past, Typed, ProcType
<1>3. v \in {proc[p].vals, ReadInto(proc[p].vals, 1, 1, 1)}
  OBVIOUS
<1>. HIDE DEF v
<1>4. Goes(p) /\ proc'[p].smashed = proc[p].smashed /\ proc'[p].head = proc[p].head
      /\ proc'[p].vals = v
  BY <1>1, <1>2, ProcTypes, GoesOn
<1>. QED
  BY <1>3, <1>4

(* Process p is gone.                                                      *)
LEMMA EndsFacts ==
  ASSUME Typed, NEW p \in Procs, NEW s \in {"done", "failed", "killed"}, Ends(p, s)
  PROVE  /\ proc' \in [Procs -> ProcType]
         /\ \A q \in Procs \ {p} : proc'[q] = proc[q]
         /\ p = 0 => /\ proc'[p].state = s /\ proc'[p].pc = proc[p].pc
                     /\ proc'[p].vals = proc[p].vals /\ proc'[p].smashed = proc[p].smashed
                     /\ proc'[p].head = proc[p].head
         /\ p # 0 => /\ proc'[p].state = "done" /\ proc'[p].pc = 1 /\ ~proc'[p].smashed
                     /\ proc'[p].vals = [v \in 1..5 |-> "unset"]
         /\ event' \in [Events -> EventType]
         /\ \A e \in Events :
              /\ event'[e].fds = event[e].fds \ {p}
              /\ event'[e].fds # {} =>
                   event'[e] = [event[e] EXCEPT !.fds = event[e].fds \ {p}]
              /\ event'[e].fds = {} => ~event'[e].on /\ ~event'[e].ran
<1>1. /\ proc' \in [Procs -> ProcType]
      /\ \A q \in Procs \ {p} : proc'[q] = proc[q]
      /\ p = 0 => /\ proc'[p].state = s /\ proc'[p].pc = proc[p].pc
                  /\ proc'[p].vals = proc[p].vals /\ proc'[p].smashed = proc[p].smashed
                  /\ proc'[p].head = proc[p].head
      /\ p # 0 => /\ proc'[p].state = "done" /\ proc'[p].pc = 1 /\ ~proc'[p].smashed
                  /\ proc'[p].vals = [v \in 1..5 |-> "unset"]
  <2>1. proc \in [Procs -> ProcType] /\ proc[p] \in ProcType
    BY DEF Typed
  <2>2. CASE p = 0
    <3>1. proc' = [proc EXCEPT ![p] = [proc[p] EXCEPT !.state = s]]
      BY <2>2 DEF Ends, Ended
    <3>2. [proc[p] EXCEPT !.state = s] \in ProcType
      BY <2>1 DEF ProcType, States
    <3>. QED
      BY <2>1, <2>2, <3>1, <3>2 DEF ProcType, States
  <2>3. CASE p # 0
    <3>1. proc' = [proc EXCEPT ![p] = [Born EXCEPT !.state = "done"]]
      BY <2>3 DEF Ends, Ended
    <3>2. [Born EXCEPT !.state = "done"] \in ProcType
      <4>1. Born \in ProcType
        BY DEF ProcType, Born, Values, ValsType, States
      <4>. QED
        BY <4>1 DEF ProcType, States
    <3>. QED
      BY <2>1, <2>3, <3>1, <3>2 DEF ProcType, Born
  <2>. QED
    BY <2>2, <2>3
<1>2. NoEvent \in EventType /\ NoEvent.fds = {} /\ ~NoEvent.on /\ ~NoEvent.ran
  BY BoundsAssumption DEF NoEvent, EventType
<1>3. /\ event' \in [Events -> EventType]
      /\ \A e \in Events :
           event'[e] = IF event[e].fds \subseteq {p} THEN NoEvent
                       ELSE [event[e] EXCEPT !.fds = event[e].fds \ {p}]
  BY <1>2 DEF Ends, Dropped, Typed, EventType
<1>4. ASSUME NEW e \in Events
      PROVE  /\ event'[e].fds = event[e].fds \ {p}
             /\ event'[e].fds # {} =>
                  event'[e] = [event[e] EXCEPT !.fds = event[e].fds \ {p}]
             /\ event'[e].fds = {} => ~event'[e].on /\ ~event'[e].ran
  <2>1. event[e] \in EventType
    BY DEF Typed
  <2>2. CASE event[e].fds \subseteq {p}
    BY <1>2, <1>3, <2>2
  <2>3. CASE ~(event[e].fds \subseteq {p})
    BY <1>3, <2>1, <2>3 DEF EventType
  <2>. QED
    BY <2>2, <2>3
<1>. QED
  BY <1>1, <1>3, <1>4

(* Main forks child k.                                                     *)
LEMMA ForkFacts ==
  ASSUME Typed, NEW p \in Procs, ForkChild(p), NEW k, k = At(p).n
  PROVE  /\ p = 0 /\ k \in Kids /\ proc[0].state = "runs" /\ proc[0].pc \in DOMAIN row.main
         /\ row.main[proc[0].pc].op = "fork" /\ row.main[proc[0].pc].n = k
         /\ proc' \in [Procs -> ProcType]
         /\ proc'[0] = [proc[0] EXCEPT !.pc = proc[0].pc + 1]
         /\ proc'[k].state = "runs" /\ proc'[k].pc = 1 /\ proc'[k].vals = proc[0].vals
         /\ ~proc'[k].smashed
         /\ \A q \in Procs \ {0, k} : proc'[q] = proc[q]
         /\ event' \in [Events -> EventType]
         /\ \A e \in Events :
              event'[e] = IF 0 \in event[e].fds
                          THEN [event[e] EXCEPT !.fds = event[e].fds \cup {k}] ELSE event[e]
         /\ UNCHANGED <<prog, ring, io>>
<1>1. /\ Runs(p, "fork") /\ p = 0 /\ k \in Kids /\ proc[0].state = "runs"
      /\ proc[0].pc \in DOMAIN row.main
      /\ row.main[proc[0].pc].op = "fork" /\ row.main[proc[0].pc].n = k
  <2>1. Runs(p, "fork") /\ "fork" \in MainOnly
    BY DEF ForkChild, MainOnly
  <2>2. /\ p = 0 /\ proc[0].state = "runs" /\ proc[0].pc \in DOMAIN Code(0)
        /\ At(0) = Code(0)[proc[0].pc] /\ At(0).op = "fork" /\ StepOK(At(0))
    BY <2>1, StepFacts
  <2>3. At(0).n \in 1..4
    BY <2>2 DEF StepOK
  <2>4. Code(0) = row.main
    BY <2>2, CodeTypes DEF Procs
  <2>. QED
    BY <2>1, <2>2, <2>3, <2>4 DEF Kids, Procs
<1>2. proc \in [Procs -> ProcType] /\ proc[0] \in ProcType /\ k \in Procs /\ k # 0
  BY <1>1 DEF Typed, Kids, Procs
<1>. DEFINE x == [proc[0] EXCEPT !.state = "runs", !.pc = 1, !.smashed = FALSE]
            i == proc[0].pc + 1
            y == [proc[0] EXCEPT !.pc = i]
<1>3. proc' = [[proc EXCEPT ![0] = y] EXCEPT ![k] = x]
  BY <1>1, <1>2 DEF ForkChild, Past
<1>4. i \in Nat \ {0}
  BY <1>2 DEF ProcType
<1>. HIDE DEF i
<1>5. /\ x \in ProcType /\ y \in ProcType
      /\ x.state = "runs" /\ x.pc = 1 /\ x.vals = proc[0].vals /\ ~x.smashed
  <2>1. x \in ProcType
    <3>1. \A r \in ProcType, s \in States, n \in Nat \ {0}, b \in BOOLEAN :
            [r EXCEPT !.state = s, !.pc = n, !.smashed = b] \in ProcType
      BY DEF ProcType
    <3>2. "runs" \in States /\ 1 \in Nat \ {0} /\ FALSE \in BOOLEAN
      BY DEF States
    <3>. QED
      BY <1>2, <3>1, <3>2, Zenon
  <2>2. y \in ProcType
    BY <1>2, <1>4 DEF ProcType
  <2>3. x.state = "runs" /\ x.pc = 1 /\ x.vals = proc[0].vals /\ ~x.smashed
    BY <1>2 DEF ProcType
  <2>. QED
    BY <2>1, <2>2, <2>3
<1>. HIDE DEF x, y
<1>6. /\ proc' \in [Procs -> ProcType] /\ proc'[0] = y /\ proc'[k] = x
      /\ \A q \in Procs \ {0, k} : proc'[q] = proc[q]
  BY <1>1, <1>2, <1>3, <1>5
<1>7. \A e \in Events :
        event'[e] = IF 0 \in event[e].fds
                    THEN [event[e] EXCEPT !.fds = event[e].fds \cup {k}] ELSE event[e]
  BY <1>1 DEF ForkChild
<1>8. event' \in [Events -> EventType]
  <2>1. event' = [e \in Events |->
                    IF 0 \in event[e].fds
                    THEN [event[e] EXCEPT !.fds = event[e].fds \cup {k}] ELSE event[e]]
    BY <1>1 DEF ForkChild
  <2>2. \A e \in Events : event[e] \in EventType
    BY DEF Typed
  <2>3. \A e \in Events : [event[e] EXCEPT !.fds = event[e].fds \cup {k}] \in EventType
    BY <1>2, <2>2 DEF EventType
  <2>. QED
    BY <2>1, <2>2, <2>3
<1>. QED
  BY <1>1, <1>5, <1>6, <1>7, <1>8 DEF ForkChild, i, y

(* Main or a child opens an event.                                         *)
LEMMA OpenFacts ==
  ASSUME Typed, NEW p \in Procs, OpenEvent(p)
  PROVE  LET o == Ev(p) IN
         /\ Runs(p, "open") /\ Goes(p) /\ UNCHANGED <<prog, ring, io>>
         /\ proc'[p].vals = proc[p].vals /\ proc'[p].smashed = proc[p].smashed
         /\ proc'[p].head = proc[p].head
         /\ event' \in [Events -> EventType]
         /\ event'[o].fds = {p} /\ event'[o].with = At(p).with /\ event'[o].left = 0
         /\ event'[o].leader = (IF At(p).leader = 0 THEN o ELSE At(p).leader)
         /\ event'[o].on <=> "on" \in At(p).with
         /\ "on" \in At(p).with /\ event'[o].leader = o => event'[o].ran
         /\ \A e \in Events \ {o} :
              /\ SameOpening(event', e) /\ event'[e].on = event[e].on
              /\ event'[e].left = event[e].left
              /\ event[e].ran => event'[e].ran
              /\ event'[e].ran => event[e].ran \/ event[e].fds # {}
<1>1. Runs(p, "open") /\ Goes(p) /\ proc'[p].vals = proc[p].vals
      /\ proc'[p].smashed = proc[p].smashed /\ proc'[p].head = proc[p].head
  BY PastGoes DEF OpenEvent
<1>2. Ev(p) \in Events /\ At(p).leader \in 0..5 /\ At(p).with \in SUBSET STRING
  BY <1>1, EvFacts DEF EventOps
<1>. DEFINE o == Ev(p)
            b == "on" \in At(p).with
            l == IF At(p).leader = 0 THEN o ELSE At(p).leader
            x == [fds |-> {p}, on |-> b, ran |-> FALSE, leader |-> l,
                  with |-> At(p).with, left |-> 0]
            ev == [event EXCEPT ![o] = x]
<1>3. event' = Counted(ev)
  BY DEF OpenEvent
<1>4. x \in EventType /\ l \in Events
  BY <1>2, BoundsAssumption DEF EventType, Events
<1>5. /\ ev \in [Events -> EventType] /\ ev[o] = x
      /\ \A e \in Events \ {o} : ev[e] = event[e]
  BY <1>2, <1>4 DEF Typed
<1>6. /\ ev[o].fds = {p} /\ ev[o].on = b /\ ev[o].leader = l
      /\ ev[o].with = At(p).with /\ ev[o].left = 0
  BY <1>5
<1>. HIDE DEF x, ev, l, b
<1>7. b /\ l = o => Counts(ev, o)
  BY <1>6 DEF Counts
<1>8. /\ event' \in [Events -> EventType]
      /\ event'[o].fds = {p} /\ event'[o].with = At(p).with /\ event'[o].left = 0
      /\ event'[o].leader = l /\ event'[o].on = b
      /\ b /\ l = o => event'[o].ran
  BY <1>2, <1>3, <1>5, <1>6, <1>7, CountedFacts
<1>9. \A e \in Events \ {o} :
        /\ SameOpening(event', e) /\ event'[e].on = event[e].on
        /\ event'[e].left = event[e].left
        /\ event[e].ran => event'[e].ran
        /\ event'[e].ran => event[e].ran \/ event[e].fds # {}
  BY <1>3, <1>5, CountedFacts DEF SameOpening
<1>10. (b <=> "on" \in At(p).with) /\ l = IF At(p).leader = 0 THEN o ELSE At(p).leader
  BY DEF l, b
<1>11. UNCHANGED <<prog, ring, io>>
  BY DEF OpenEvent
<1>. QED
  BY <1>1, <1>8, <1>9, <1>10, <1>11

(* Main or a child closes a descriptor.                                    *)
LEMMA CloseFacts ==
  ASSUME Typed, NEW p \in Procs, CloseEvent(p)
  PROVE  LET o == Ev(p) IN
         /\ Runs(p, "close") /\ Goes(p) /\ UNCHANGED <<prog, ring, io>>
         /\ proc'[p].vals = proc[p].vals /\ proc'[p].smashed = proc[p].smashed
         /\ proc'[p].head = proc[p].head
         /\ event' \in [Events -> EventType]
         /\ event'[o].fds = event[o].fds \ {p}
         /\ event'[o].fds # {} => event'[o] = [event[o] EXCEPT !.fds = event[o].fds \ {p}]
         /\ event'[o].fds = {} => ~event'[o].on /\ ~event'[o].ran
         /\ \A e \in Events \ {o} : event'[e] = event[e]
<1>1. Runs(p, "close") /\ Goes(p) /\ proc'[p].vals = proc[p].vals
      /\ proc'[p].smashed = proc[p].smashed /\ proc'[p].head = proc[p].head
  BY PastGoes DEF CloseEvent
<1>2. Ev(p) \in Events
  BY <1>1, EvFacts DEF EventOps
<1>. DEFINE o == Ev(p)
            x == Dropped(event[o], p)
<1>3. NoEvent \in EventType /\ NoEvent.fds = {} /\ ~NoEvent.on /\ ~NoEvent.ran
  BY BoundsAssumption DEF NoEvent, EventType
<1>4. event[o] \in EventType
  BY <1>2 DEF Typed
<1>5. /\ x \in EventType /\ x.fds = event[o].fds \ {p}
      /\ x.fds # {} => x = [event[o] EXCEPT !.fds = event[o].fds \ {p}]
      /\ x.fds = {} => ~x.on /\ ~x.ran
  <2>1. CASE event[o].fds \subseteq {p}
    BY <1>3, <2>1 DEF Dropped
  <2>2. CASE ~(event[o].fds \subseteq {p})
    BY <1>4, <2>2 DEF Dropped, EventType
  <2>. QED
    BY <2>1, <2>2
<1>. HIDE DEF x
<1>6. event' = [event EXCEPT ![o] = x]
  BY DEF CloseEvent, x
<1>7. event' \in [Events -> EventType] /\ event'[o] = x /\ \A e \in Events \ {o} : event'[e] = event[e]
  BY <1>2, <1>5, <1>6 DEF Typed
<1>. QED
  BY <1>1, <1>5, <1>7 DEF CloseEvent

(* The descriptors and the attributes of every event stay as they are.     *)
EventsKept ==
  /\ event' \in [Events -> EventType]
  /\ \A e \in Events :
       /\ SameOpening(event', e)
       /\ event[e].ran => event'[e].ran
       /\ event'[e].on \/ event'[e].ran => event[e].on \/ event[e].ran \/ event[e].fds # {}

LEMMA Unchanged ==
  ASSUME Typed, event' = event
  PROVE  EventsKept
  BY DEF EventsKept, SameOpening, Typed

LEMMA HasEvent ==
  ASSUME Typed, Descriptors, NEW p \in Procs, NEW op, Runs(p, op)
  PROVE  /\ op \in EventOps \ {"open"} => Ev(p) \in Events /\ p \in event[Ev(p)].fds
         /\ op = "raise" => 1 \in Events /\ p \in event[1].fds
<1>1. /\ proc[p].state = "runs" /\ At(p) = Code(p)[proc[p].pc]
      /\ proc[p].pc \in DOMAIN Code(p) /\ At(p).op = op
  BY StepFacts
<1>2. ASSUME op \in EventOps \ {"open"}
      PROVE  Ev(p) \in Events /\ p \in event[Ev(p)].fds
  <2>1. HeldAt(Code(p), Base(p), At(p).ev, proc[p].pc)
    BY <1>2, StepFacts
  <2>2. Ev(p) \in Events /\ Sees(p, Ev(p)) /\ Name(Ev(p)) = At(p).ev
    BY <1>2, EvFacts
  <2>. QED
    BY <1>1, <2>1, <2>2 DEF Descriptors, Holds
<1>3. ASSUME op = "raise"
      PROVE  1 \in Events /\ p \in event[1].fds
  <2>1. HeldAt(Code(p), Base(p), 1, proc[p].pc)
    BY <1>1, <1>3, CodeTypes DEF UsesHeld
  <2>2. 1 \in Events /\ Sees(p, 1) /\ Name(1) = 1
    BY DEF Events, Sees, Name
  <2>. QED
    BY <1>1, <2>1, <2>2 DEF Descriptors, Holds
<1>. QED
  BY <1>2, <1>3

LEMMA HasOn ==
  ASSUME Typed, Descriptors, NEW p \in Procs,
         Runs(p, "on") \/ Runs(p, "off") \/ Runs(p, "off group") \/ Runs(p, "refresh")
  PROVE  Ev(p) \in Events /\ event[Ev(p)].fds # {}
<1>1. {"on", "off", "off group", "refresh"} \subseteq EventOps \ {"open"}
  BY DEF EventOps
<1>2. PICK op \in EventOps \ {"open"} : Runs(p, op)
  BY <1>1
<1>. QED
  BY <1>2, HasEvent

LEMMA SwitchedKept ==
  ASSUME Typed, NEW es \in SUBSET Events, NEW on \in BOOLEAN,
         event' = Switched(es, on), on => \A e \in es : event[e].fds # {}
  PROVE  EventsKept /\ (~on => \A e \in Events : event'[e].on => event[e].on)
<1>1. /\ event' \in [Events -> EventType]
      /\ \A e \in Events :
           /\ SameOpening(event', e)
           /\ e \in es => (event'[e].on <=> on)
           /\ e \notin es => (event'[e].on <=> event[e].on)
           /\ event[e].ran => event'[e].ran
           /\ event'[e].ran => event[e].ran \/ event[e].fds # {}
  BY SwitchedFacts DEF SameOpening
<1>2. \A e \in Events : event'[e].on => event[e].on \/ (on /\ e \in es)
  BY <1>1
<1>. QED
  BY <1>1, <1>2 DEF EventsKept

LEMMA GroupFacts ==
  ASSUME NEW e
  PROVE  Group(event, e) \in SUBSET Events /\ \A m \in Group(event, e) : event[m].fds # {}
  BY DEF Group

LEMMA EnableKept ==
  ASSUME Typed, Descriptors, NEW p \in Procs, Enable(p)
  PROVE  Goes(p) /\ EventsKept /\ UNCHANGED <<prog, ring, io>>
         /\ \E op \in {"on", "on group"} : Runs(p, op)
         /\ proc'[p].vals = proc[p].vals /\ proc'[p].smashed = proc[p].smashed
         /\ proc'[p].head = proc[p].head
<1>1. CASE Runs(p, "on") /\ event' = Switched({Ev(p)}, TRUE)
  <2>1. Ev(p) \in Events /\ event[Ev(p)].fds # {}
    BY <1>1, HasOn
  <2>2. EventsKept
    <3>1. {Ev(p)} \in SUBSET Events /\ \A e \in {Ev(p)} : event[e].fds # {}
      BY <2>1
    <3>. QED
      BY <1>1, <3>1, SwitchedKept
  <2>. QED
    BY <1>1, <2>2, PastGoes DEF Enable
<1>2. CASE Runs(p, "on group") /\ event' = Switched(Group(event, Ev(p)), TRUE)
  <2>1. EventsKept
    BY <1>2, GroupFacts, SwitchedKept
  <2>. QED
    BY <1>2, <2>1, PastGoes DEF Enable
<1>. QED
  BY <1>1, <1>2 DEF Enable

LEMMA DisableKept ==
  ASSUME Typed, Descriptors, NEW p \in Procs, Disable(p) \/ DisableStray(p)
  PROVE  Goes(p) /\ EventsKept /\ UNCHANGED <<prog, ring, io>>
         /\ \E op \in {"off", "off group", "stray off"} : Runs(p, op)
         /\ proc'[p].vals = proc[p].vals /\ proc'[p].smashed = proc[p].smashed
         /\ proc'[p].head = proc[p].head
         /\ \A e \in Events : event'[e].on => event[e].on
<1>1. CASE Runs(p, "off") /\ event' = Switched({Ev(p)}, FALSE) /\ Disable(p)
  <2>1. {Ev(p)} \in SUBSET Events
    BY <1>1, HasOn
  <2>2. EventsKept /\ \A e \in Events : event'[e].on => event[e].on
    BY <1>1, <2>1, SwitchedKept
  <2>. QED
    BY <1>1, <2>2, PastGoes DEF Disable
<1>2. CASE Runs(p, "off group") /\ event' = Switched(Group(event, Ev(p)), FALSE) /\ Disable(p)
  <2>1. EventsKept /\ \A e \in Events : event'[e].on => event[e].on
    BY <1>2, GroupFacts, SwitchedKept
  <2>. QED
    BY <1>2, <2>1, PastGoes DEF Disable
<1>3. CASE DisableStray(p)
  <2>1. {1} \in SUBSET Events
    BY DEF Events
  <2>2. Goes(p) /\ Runs(p, "stray off") /\ UNCHANGED <<prog, ring, io>>
         /\ proc'[p].vals = proc[p].vals /\ proc'[p].smashed = proc[p].smashed
         /\ proc'[p].head = proc[p].head
    BY <1>3, PastGoes DEF DisableStray
  <2>3. EventsKept /\ \A e \in Events : event'[e].on => event[e].on
    <3>1. CASE event' = event
      BY <3>1, Unchanged
    <3>2. CASE event' = Switched({1}, FALSE)
      BY <2>1, <3>2, SwitchedKept
    <3>. QED
      BY <1>3, <3>1, <3>2 DEF DisableStray
  <2>. QED
    BY <2>2, <2>3
<1>. QED
  BY <1>1, <1>2, <1>3 DEF Disable

LEMMA DisableOff ==
  ASSUME Typed, Descriptors, NEW p \in Procs, Disable(p) \/ DisableStray(p), Runs(p, "off")
  PROVE  ~event'[Ev(p)].on
<1>1. Ev(p) \in Events /\ {Ev(p)} \in SUBSET Events
  BY HasOn
<1>2. event' = Switched({Ev(p)}, FALSE)
  BY DEF Disable, DisableStray, Runs
<1>3. \A on \in {FALSE} : ~Switched({Ev(p)}, on)[Ev(p)].on
  BY <1>1, SwitchedFacts
<1>. QED
  BY <1>2, <1>3

LEMMA RefreshKept ==
  ASSUME Typed, Descriptors, NEW p \in Procs, SetRefresh(p)
  PROVE  Goes(p) /\ EventsKept /\ UNCHANGED <<prog, ring, io>>
         /\ Runs(p, "refresh")
         /\ proc'[p].vals = proc[p].vals /\ proc'[p].smashed = proc[p].smashed
         /\ proc'[p].head = proc[p].head
         /\ \A e \in Events :
              /\ event'[e].on <=> Switched({Ev(p)}, TRUE)[e].on
              /\ event'[e].ran <=> Switched({Ev(p)}, TRUE)[e].ran
              /\ e # Ev(p) => event'[e].left = event[e].left
<1>. DEFINE ev == Switched({Ev(p)}, TRUE)
<1>1. Ev(p) \in Events /\ event[Ev(p)].fds # {}
  BY HasOn DEF SetRefresh
<1>2. /\ ev \in [Events -> EventType]
      /\ \A e \in Events :
           /\ SameOpening(ev, e) /\ ev[e].left = event[e].left
           /\ event[e].ran => ev[e].ran
           /\ ev[e].on \/ ev[e].ran => event[e].on \/ event[e].ran \/ event[e].fds # {}
  <2>1. {Ev(p)} \in SUBSET Events
    BY <1>1
  <2>2. /\ ev \in [Events -> EventType]
        /\ \A e \in Events :
             /\ SameOpening(ev, e) /\ ev[e].left = event[e].left
             /\ e = Ev(p) => ev[e].on
             /\ e # Ev(p) => (ev[e].on <=> event[e].on)
             /\ event[e].ran => ev[e].ran
             /\ ev[e].ran => event[e].ran \/ event[e].fds # {}
    BY <2>1, SwitchedFacts DEF SameOpening
  <2>. QED
    BY <1>1, <2>2
<1>. HIDE DEF ev
<1>3. event' = [ev EXCEPT ![Ev(p)] = [ev[Ev(p)] EXCEPT !.left = Refresh]]
  BY DEF SetRefresh, ev
<1>4. ev[Ev(p)] \in EventType /\ Refresh \in 0..Refresh
  BY <1>1, <1>2, BoundsAssumption
<1>. DEFINE x == [ev[Ev(p)] EXCEPT !.left = Refresh]
<1>5. /\ x \in EventType /\ x.fds = ev[Ev(p)].fds /\ x.leader = ev[Ev(p)].leader
      /\ x.with = ev[Ev(p)].with /\ x.on = ev[Ev(p)].on /\ x.ran = ev[Ev(p)].ran
  BY <1>4 DEF EventType
<1>. HIDE DEF x
<1>6. /\ event' \in [Events -> EventType] /\ event'[Ev(p)] = x
      /\ \A e \in Events \ {Ev(p)} : event'[e] = ev[e]
  BY <1>1, <1>2, <1>3, <1>5 DEF x
<1>7. EventsKept
  BY <1>2, <1>5, <1>6 DEF EventsKept, SameOpening
<1>8. \A e \in Events : /\ event'[e].on <=> ev[e].on
                        /\ event'[e].ran <=> ev[e].ran
                        /\ e # Ev(p) => event'[e].left = event[e].left
  BY <1>2, <1>5, <1>6
<1>. QED
  BY <1>7, <1>8, PastGoes DEF SetRefresh, ev

LEMMA RaiseKept ==
  ASSUME Typed, Descriptors, NEW p \in Procs, Raise(p)
  PROVE  EventsKept
<1>1. {1} \in SUBSET Events /\ event[1].fds # {}
  BY HasEvent DEF Raise
<1>2. io.paused \in BOOLEAN /\ event' = Switched({1}, io.paused)
  BY DEF Raise, Typed, IoType
<1>. QED
  BY <1>1, <1>2, SwitchedKept

LEMMA OverflowKept ==
  ASSUME Typed, NEW o \in Events, Overflow(o)
  PROVE  /\ EventsKept /\ UNCHANGED <<prog, proc>>
         /\ \A e \in Events : event'[e].ran = event[e].ran
         /\ \A e \in Events : event'[e].on => event[e].on
         /\ \A e \in Events : event[e].on /\ ~event'[e].on => event[e].left # 0
<1>1. event[o].fds # {} /\ event[o].on /\ event[o] \in EventType
  BY DEF Overflow, Counts, Typed
<1>2. CASE event[o].left = 0
  BY <1>2, Unchanged DEF Overflow
<1>3. CASE event[o].left # 0
  <2>. DEFINE n == event[o].left - 1
              b == event[o].left > 1
              x == [event[o] EXCEPT !.left = n, !.on = b]
  <2>1. n \in 0..Refresh /\ b \in BOOLEAN
    BY <1>1, <1>3, BoundsAssumption DEF EventType
  <2>2. event' = [event EXCEPT ![o] = x]
    BY <1>3 DEF Overflow, Typed
  <2>. HIDE DEF n, b
  <2>3. /\ x \in EventType /\ x.fds = event[o].fds /\ x.leader = event[o].leader
        /\ x.with = event[o].with /\ x.ran = event[o].ran
    BY <1>1, <2>1 DEF EventType
  <2>. HIDE DEF x
  <2>4. /\ event' \in [Events -> EventType] /\ event'[o] = x
        /\ \A e \in Events \ {o} : event'[e] = event[e]
    BY <2>2, <2>3 DEF Typed
  <2>. QED
    BY <1>1, <1>3, <2>3, <2>4 DEF EventsKept, SameOpening, Overflow
<1>. QED
  BY <1>2, <1>3

(* An event that is turned on together with its leader counts.             *)
Turns(p) ==
  /\ Runs(p, "on") \/ Runs(p, "refresh") =>
       \A e \in Events : e = Ev(p) /\ event[e].leader = e => event'[e].ran
  /\ Runs(p, "on group") =>
       \A m \in Group(event, Ev(p)) : event[m].leader \in Group(event, Ev(p)) => event'[m].ran

LEMMA SwitchedTurns ==
  ASSUME Typed, NEW es \in SUBSET Events, NEW m \in es,
         event[m].fds # {}, event[m].leader \in es
  PROVE  Switched(es, TRUE)[m].ran
<1>1. event[m].leader \in Events /\ m \in Events
  OBVIOUS
<1>2. Counts(Switched(es, TRUE), m)
  <2>1. Switched(es, TRUE)[m].leader = event[m].leader
    BY <1>1, SwitchedFacts DEF SameOpening
  <2>2. Switched(es, TRUE)[m].on /\ Switched(es, TRUE)[event[m].leader].on
    BY <1>1, SwitchedFacts
  <2>. QED
    BY <2>1, <2>2 DEF Counts
<1>. QED
  BY <1>1, <1>2, SwitchedFacts

LEMMA EnableTurns ==
  ASSUME Typed, Descriptors, NEW p \in Procs, Enable(p)
  PROVE  Turns(p)
<1>1. CASE Runs(p, "on") /\ event' = Switched({Ev(p)}, TRUE)
  <2>1. Ev(p) \in Events /\ event[Ev(p)].fds # {}
    BY <1>1, HasOn
  <2>2. ASSUME NEW e \in Events, e = Ev(p), event[e].leader = e
        PROVE  event'[e].ran
    BY <1>1, <2>1, <2>2, SwitchedTurns
  <2>3. ~Runs(p, "on group")
    BY <1>1 DEF Runs
  <2>. QED
    BY <2>2, <2>3 DEF Turns
<1>2. CASE Runs(p, "on group") /\ event' = Switched(Group(event, Ev(p)), TRUE)
  <2>1. ~Runs(p, "on") /\ ~Runs(p, "refresh")
    BY <1>2 DEF Runs
  <2>2. ASSUME NEW m \in Group(event, Ev(p)), event[m].leader \in Group(event, Ev(p))
        PROVE  event'[m].ran
    BY <1>2, <2>2, GroupFacts, SwitchedTurns
  <2>. QED
    BY <2>1, <2>2 DEF Turns
<1>. QED
  BY <1>1, <1>2 DEF Enable

LEMMA RefreshTurns ==
  ASSUME Typed, Descriptors, NEW p \in Procs, SetRefresh(p)
  PROVE  Turns(p)
<1>1. Ev(p) \in Events /\ event[Ev(p)].fds # {} /\ Runs(p, "refresh")
  BY HasOn DEF SetRefresh
<1>2. ASSUME NEW e \in Events, e = Ev(p), event[e].leader = e
      PROVE  event'[e].ran
  <2>1. Switched({Ev(p)}, TRUE)[e].ran
    BY <1>1, <1>2, SwitchedTurns
  <2>. QED
    BY <1>2, <2>1, RefreshKept
<1>3. ~Runs(p, "on group")
  BY <1>1 DEF Runs
<1>. QED
  BY <1>2, <1>3 DEF Turns

-----------------------------------------------------------------------------
(* The mapped buffer.                                                      *)

LEMMA TupleTypes ==
  ASSUME NEW S, NEW a \in S, NEW b \in S, NEW c \in S
  PROVE  /\ <<a>> \in Seq(S) /\ <<a>> # <<>>
         /\ <<a, b>> \in Seq(S) /\ <<a, b>> # <<>>
         /\ <<a, b, c>> \in Seq(S) /\ <<a, b, c>> # <<>>
  OBVIOUS

LEMMA SamplesTypes ==
  ASSUME NEW with \in SUBSET STRING, NEW fields \in Samples(with)
  PROVE  fields \in Seq(Labels) /\ fields # <<>>
<1>1. \A k \in Plain : k \in Labels
  BY DEF Labels
<1>2. /\ "abi" \in Labels /\ "x0" \in Labels /\ "x1" \in Labels /\ "size" \in Labels
      /\ "stack" \in Labels /\ "dynamic size" \in Labels /\ "nr" \in Labels /\ "caller" \in Labels
  BY DEF Labels
<1>3. CASE \E k \in with \cap Plain : fields = <<k>>
  <2>1. PICK k \in Labels : fields = <<k>>
    BY <1>1, <1>3
  <2>. QED
    BY <2>1, TupleTypes, Zenon
<1>4. CASE fields \in {<<"abi">>, <<"abi", "x0", "x1">>}
  BY <1>2, <1>4, TupleTypes, Zenon
<1>5. CASE fields \in {<<"size">>, <<"size", "stack", "dynamic size">>}
  BY <1>2, <1>5, TupleTypes, Zenon
<1>6. CASE fields \in {<<"nr">>, <<"nr", "caller">>}
  BY <1>2, <1>6, TupleTypes, Zenon
<1>. QED
  BY <1>3, <1>4, <1>5, <1>6 DEF Samples

(* A record is added at the head.                                          *)
With(r, n, fields) ==
  [r EXCEPT !.head = r.head + n, !.lost = 0,
            !.recs = Append(r.recs, RecordOf(r.head, n, fields))]

Longer(w, r, n, fields) ==
  /\ w \in RingType /\ Chain(w)
  /\ w.head = r.head + n /\ w.tail = r.tail
  /\ \A i \in DOMAIN w.recs :
       \/ i \in DOMAIN r.recs /\ w.recs[i] = r.recs[i]
       \/ w.recs[i].fields = fields

LEMMA WithFacts ==
  ASSUME NEW r \in RingType, Chain(r), NEW n \in Nat \ {0}, NEW fields \in Seq(Labels),
         NEW w, w = With(r, n, fields)
  PROVE  Longer(w, r, n, fields)
<1>. DEFINE x == RecordOf(r.head, n, fields)
            h == r.head + n
            s == Append(r.recs, x)
<1>1. /\ r.head \in Nat /\ r.recs \in Seq(RecType) /\ Len(r.recs) \in Nat
      /\ DOMAIN r.recs = 1..Len(r.recs) /\ r.pages \in Nat /\ r.tail \in Nat
  BY DEF RingType
<1>2. x \in RecType /\ x.at = r.head /\ x.size = n /\ x.fields = fields
  BY <1>1 DEF RecType, RecordOf
<1>3. h \in Nat /\ h >= r.head
  BY <1>1
<1>. HIDE DEF x
<1>4. /\ s \in Seq(RecType) /\ Len(s) = Len(r.recs) + 1 /\ s[Len(r.recs) + 1] = x
      /\ \A i \in DOMAIN r.recs : s[i] = r.recs[i]
      /\ DOMAIN s = 1..(Len(r.recs) + 1)
  BY <1>1, <1>2
<1>. HIDE DEF h, s
<1>5. w = [r EXCEPT !.head = h, !.lost = 0, !.recs = s]
  BY DEF With, h, s, x
<1>6. 0 \in 0..MaxLost
  BY BoundsAssumption
<1>7. /\ w \in RingType /\ w.head = h /\ w.recs = s /\ w.tail = r.tail /\ w.pages = r.pages
  BY <1>3, <1>4, <1>5, <1>6 DEF RingType
<1>8. Bound(w, 1) = w.tail
  <2>1. CASE Len(r.recs) = 0
    BY <1>1, <1>2, <1>4, <1>7, <2>1 DEF Bound, Chain
  <2>2. CASE Len(r.recs) > 0
    BY <1>1, <1>4, <1>7, <2>2 DEF Bound, Chain
  <2>. QED
    BY <1>1, <2>1, <2>2
<1>9. ASSUME NEW i \in DOMAIN w.recs
      PROVE  /\ Bound(w, i + 1) = w.recs[i].at + w.recs[i].size
             /\ w.recs[i].at + w.recs[i].size <= w.head
  <2>1. CASE i = Len(r.recs) + 1
    BY <1>1, <1>2, <1>3, <1>4, <1>7, <2>1 DEF Bound, h
  <2>2. CASE i \in DOMAIN r.recs
    <3>1. /\ Bound(r, i + 1) = r.recs[i].at + r.recs[i].size
          /\ r.recs[i].at + r.recs[i].size <= r.head
          /\ w.recs[i] = r.recs[i] /\ i \in Nat
      BY <1>1, <1>4, <1>7, <2>2 DEF Chain
    <3>2. Bound(w, i + 1) = Bound(r, i + 1)
      <4>1. CASE i + 1 \in DOMAIN r.recs
        BY <1>1, <1>4, <1>7, <4>1 DEF Bound
      <4>2. CASE i + 1 \notin DOMAIN r.recs
        BY <1>1, <1>2, <1>4, <1>7, <2>2, <4>2 DEF Bound
      <4>. QED
        BY <4>1, <4>2
    <3>3. r.recs[i].at + r.recs[i].size \in Int
      <4>1. r.recs[i] \in RecType
        BY <1>1, <2>2
      <4>. QED
        BY <4>1 DEF RecType
    <3>. QED
      BY <1>1, <1>3, <1>7, <3>1, <3>2, <3>3
  <2>. QED
    BY <1>1, <1>4, <1>7, <2>1, <2>2
<1>10. Chain(w)
  BY <1>8, <1>9 DEF Chain
<1>. QED
  <2>1. \A i \in DOMAIN w.recs : i \in DOMAIN r.recs \/ i = Len(r.recs) + 1
    BY <1>1, <1>4, <1>7
  <2>. QED
    BY <1>2, <1>4, <1>7, <1>10, <2>1 DEF h, Longer

(* Nothing is added, or a record of the sample, and before it one of those *)
(* that were lost.                                                         *)
LEMMA WrittenFacts ==
  ASSUME NEW r \in RingType, Chain(r), NEW fields \in Seq(Labels), NEW w,
         w = Written(r, fields)
  PROVE  /\ w \in RingType /\ Chain(w)
         /\ w.tail = r.tail
         /\ w.head = r.head \/ w.head - w.tail < RingWords
         /\ \A i \in DOMAIN w.recs :
              \/ i \in DOMAIN r.recs /\ w.recs[i] = r.recs[i]
              \/ w.recs[i].fields \in {<<>>, fields}
<1>1. /\ r.head \in Nat /\ r.recs \in Seq(RecType) /\ Len(r.recs) \in Nat
      /\ DOMAIN r.recs = 1..Len(r.recs) /\ r.pages \in Nat /\ r.tail \in Nat
      /\ r.lost \in 0..MaxLost /\ Len(fields) \in Nat /\ MaxLost \in Nat
  BY BoundsAssumption DEF RingType
<1>. DEFINE size == 1 + Len(fields)
            lost == IF r.lost = 0 THEN <<>> ELSE <<RecordOf(r.head, 3, <<>>)>>
            at   == r.head + 3 * Len(lost)
<1>2. size \in Nat \ {0}
  BY <1>1
<1>3. CASE at + size - r.tail < RingWords /\ r.lost = 0
  <2>1. at = r.head /\ r.recs \o lost = r.recs
    BY <1>1, <1>3
  <2>2. w = With(r, size, fields)
    <3>1. RecordOf(at, size, fields) \in RecType
      BY <1>1, <1>2, <2>1 DEF RecType, RecordOf
    <3>2. r.recs \o <<RecordOf(at, size, fields)>> = Append(r.recs, RecordOf(at, size, fields))
      BY <1>1, <3>1
    <3>3. w = [r EXCEPT !.head = at + size, !.lost = 0,
                        !.recs = r.recs \o <<RecordOf(at, size, fields)>>]
      BY <1>3, <2>1 DEF Written
    <3>. QED
      BY <2>1, <3>2, <3>3 DEF With
  <2>. HIDE DEF size
  <2>3. Longer(w, r, size, fields)
    BY <1>2, <2>2, WithFacts
  <2>. HIDE DEF at, lost
  <2>4. w.head - w.tail < RingWords
    BY <1>1, <1>2, <1>3, <2>1, <2>3 DEF Longer
  <2>. QED
    BY <2>3, <2>4 DEF Longer
<1>4. CASE at + size - r.tail < RingWords /\ r.lost # 0
  <2>. DEFINE x == RecordOf(r.head, 3, <<>>)
              u == With(r, 3, <<>>)
  <2>1. at = r.head + 3 /\ 3 \in Nat \ {0} /\ <<>> \in Seq(Labels)
    BY <1>1, <1>4
  <2>. HIDE DEF u
  <2>2. Longer(u, r, 3, <<>>)
    BY <2>1, WithFacts DEF u
  <2>3. w = With(u, size, fields)
    <3>1. r.recs \o <<x>> = Append(r.recs, x) /\ x \in RecType
      BY <1>1 DEF RecType, RecordOf
    <3>. DEFINE a == Append(r.recs, x)
                y == RecordOf(at, size, fields)
    <3>2. a \in Seq(RecType) /\ y \in RecType
      BY <1>1, <1>2, <2>1, <3>1 DEF RecType, RecordOf
    <3>3. a \o <<y>> = Append(a, y)
      BY <3>2
    <3>4. w = [r EXCEPT !.head = at + size, !.lost = 0, !.recs = a \o <<y>>]
      BY <1>4, <3>1 DEF Written
    <3>5. u = [r EXCEPT !.head = r.head + 3, !.lost = 0, !.recs = a]
      BY DEF With, u
    <3>6. u.recs = a
      BY <3>5 DEF RingType
    <3>. HIDE DEF a, y
    <3>7. w = [r EXCEPT !.head = at + size, !.lost = 0, !.recs = Append(a, y)]
      BY <3>3, <3>4
    <3>8. y = RecordOf(u.head, size, fields) /\ u.head + size = at + size
      BY <2>1, <2>2 DEF y, Longer
    <3>9. With(u, size, fields) = [u EXCEPT !.head = at + size, !.lost = 0, !.recs = Append(a, y)]
      BY <3>6, <3>8 DEF With
    <3>. QED
      BY <3>5, <3>7, <3>9 DEF RingType
  <2>. HIDE DEF size
  <2>4. Longer(w, u, size, fields)
    <3>1. u \in RingType /\ Chain(u)
      BY <2>2 DEF Longer
    <3>. QED
      BY <1>2, <2>3, <3>1, WithFacts
  <2>5. w.head = at + size /\ w.tail = r.tail
    BY <2>1, <2>2, <2>4 DEF Longer
  <2>. HIDE DEF at, lost
  <2>6. w.head - w.tail < RingWords
    <3>1. at + size - r.tail < RingWords
      BY <1>4
    <3>2. w.head - w.tail = at + size - r.tail
      BY <1>1, <1>2, <2>1, <2>5
    <3>. QED
      BY <3>1, <3>2
  <2>. QED
    BY <2>2, <2>4, <2>5, <2>6 DEF Longer
<1>5. CASE ~(at + size - r.tail < RingWords)
  <2>. DEFINE n == IF r.lost < MaxLost THEN r.lost + 1 ELSE r.lost
  <2>1. w = [r EXCEPT !.lost = n] /\ n \in 0..MaxLost
    BY <1>1, <1>5 DEF Written
  <2>. HIDE DEF n
  <2>2. /\ w \in RingType /\ w.head = r.head /\ w.tail = r.tail /\ w.recs = r.recs
    BY <2>1 DEF RingType
  <2>3. Chain(w)
    BY <2>2 DEF Chain, Bound
  <2>. QED
    BY <2>2, <2>3
<1>. QED
  BY <1>3, <1>4, <1>5

(* A record is taken out at the tail.                                      *)
Popped(r) == [r EXCEPT !.tail = @ + Head(r.recs).size, !.recs = Tail(@)]

LEMMA TakenFacts ==
  ASSUME NEW r \in RingType, Chain(r), r.tail # r.head, NEW w,
         w = Popped(r)
  PROVE  /\ r.recs # <<>> /\ 1 \in DOMAIN r.recs /\ Head(r.recs) = r.recs[1]
         /\ w \in RingType /\ Chain(w) /\ w.head = r.head /\ w.tail # 0
         /\ \A i \in DOMAIN w.recs : i + 1 \in DOMAIN r.recs /\ w.recs[i] = r.recs[i + 1]
<1>1. /\ r.head \in Nat /\ r.recs \in Seq(RecType) /\ Len(r.recs) \in Nat
      /\ DOMAIN r.recs = 1..Len(r.recs) /\ r.pages \in Nat /\ r.tail \in Nat
  BY DEF RingType
<1>2. 1 \in DOMAIN r.recs /\ r.recs # <<>>
  BY <1>1 DEF Chain, Bound
<1>3. Head(r.recs) = r.recs[1] /\ r.recs[1] \in RecType
  BY <1>1, <1>2
<1>. DEFINE t == r.tail + Head(r.recs).size
            s == Tail(r.recs)
<1>4. t \in Nat \ {0} /\ t = Bound(r, 2)
  <2>1. Bound(r, 1) = r.recs[1].at /\ Bound(r, 1) = r.tail
    BY <1>2 DEF Chain, Bound
  <2>2. Bound(r, 1 + 1) = r.recs[1].at + r.recs[1].size
    BY <1>2 DEF Chain
  <2>3. r.recs[1].size \in Nat \ {0}
    BY <1>3 DEF RecType
  <2>. QED
    BY <1>1, <1>3, <2>1, <2>2, <2>3
<1>5. /\ s \in Seq(RecType) /\ Len(s) = Len(r.recs) - 1 /\ DOMAIN s = 1..(Len(r.recs) - 1)
      /\ \A i \in DOMAIN s : i + 1 \in DOMAIN r.recs /\ s[i] = r.recs[i + 1]
  BY <1>1, <1>2
<1>. HIDE DEF t, s
<1>6. w = [r EXCEPT !.tail = t, !.recs = s]
  BY DEF Popped, t, s
<1>7. w \in RingType /\ w.head = r.head /\ w.tail = t /\ w.recs = s
  BY <1>4, <1>5, <1>6 DEF RingType
<1>8. ASSUME NEW i \in Nat \ {0} PROVE Bound(w, i) = Bound(r, i + 1)
  <2>1. CASE i \in DOMAIN s
    <3>1. Bound(w, i) = s[i].at /\ Bound(r, i + 1) = r.recs[i + 1].at
      BY <1>5, <1>7, <2>1 DEF Bound
    <3>. QED
      BY <1>5, <2>1, <3>1
  <2>2. CASE i \notin DOMAIN s
    <3>1. i + 1 \notin DOMAIN r.recs
      BY <1>1, <1>5, <2>2
    <3>. QED
      BY <1>7, <2>2, <3>1 DEF Bound
  <2>. QED
    BY <2>1, <2>2
<1>9. Chain(w)
  <2>1. Bound(w, 1) = w.tail
    BY <1>4, <1>7, <1>8
  <2>2. ASSUME NEW i \in DOMAIN w.recs
        PROVE  /\ Bound(w, i + 1) = w.recs[i].at + w.recs[i].size
               /\ w.recs[i].at + w.recs[i].size <= w.head
    <3>1. i \in Nat \ {0} /\ i + 1 \in DOMAIN r.recs /\ w.recs[i] = r.recs[i + 1]
      BY <1>1, <1>5, <1>7, <2>2
    <3>2. /\ Bound(r, (i + 1) + 1) = r.recs[i + 1].at + r.recs[i + 1].size
          /\ r.recs[i + 1].at + r.recs[i + 1].size <= r.head
      BY <3>1 DEF Chain
    <3>3. Bound(w, i + 1) = Bound(r, (i + 1) + 1)
      BY <1>8, <3>1
    <3>. QED
      BY <1>7, <3>1, <3>2, <3>3
  <2>. QED
    BY <2>1, <2>2 DEF Chain
<1>. QED
  BY <1>2, <1>3, <1>4, <1>5, <1>7, <1>9

-----------------------------------------------------------------------------
(* The kinds of steps.                                                     *)

(* Main goes on behind a wait when its children, or one of them, are gone.  *)
Waits(p) ==
  /\ Runs(p, "wait all") => \A k \in Kids : Gone(k)
  /\ Runs(p, "wait one") => \E k \in Kids : Gone(k) /\ proc[k].state # "none"

(* A handler that is set is there.                                         *)
Sets(p) == Runs(p, "handler") => io'.handler

Same(p) ==
  proc'[p].vals = proc[p].vals /\ proc'[p].smashed = proc[p].smashed /\ proc'[p].head = proc[p].head

(* What is read into the variables of a process.                           *)
Reads(p) ==
  /\ proc'[p].smashed <=> proc[p].smashed \/ Overrun(At(p), p)
  /\ Runs(p, "read") =>
       \/ proc'[p].vals = ReadInto(proc[p].vals, Ev(p), At(p).n, At(p).of)
       \/ proc[p].smashed /\ proc'[p].vals = proc[p].vals
  /\ Runs(p, "raise") => proc'[p].vals \in {proc[p].vals, ReadInto(proc[p].vals, 1, 1, 1)}
  /\ Runs(p, "read") \/ Runs(p, "raise") \/ proc'[p].vals = proc[p].vals
  /\ IF Runs(p, "snapshot") THEN proc'[p].head = ring.head ELSE proc'[p].head = proc[p].head

(* What turns events on and off.                                           *)
Switches(p) ==
  /\ Runs(p, "off") => ~event'[Ev(p)].on
  /\ \/ \E op \in {"on", "on group", "refresh", "raise"} : Runs(p, op)
     \/ \A e \in Events : event'[e].on => event[e].on

Moves(p) ==
  /\ Goes(p) /\ EventsKept /\ Turns(p) /\ Waits(p) /\ Sets(p) /\ Reads(p)
  /\ Switches(p)
  /\ \E op : Runs(p, op) /\ op \notin {"open", "close", "fork"}

(* A step does what its kind does, and nothing of what others do.          *)
LEMMA Parts ==
  ASSUME Typed, NEW p \in Procs, NEW op, Runs(p, op)
  PROVE  /\ op \notin {"wait all", "wait one"} => Waits(p)
         /\ op # "handler" => Sets(p)
         /\ op \notin {"on", "on group", "refresh"} => Turns(p)
         /\ op \notin {"read", "raise", "index", "snapshot"} /\ Same(p) => Reads(p)
         /\ op # "off" /\ (\A e \in Events : event'[e].on => event[e].on) => Switches(p)
         /\ op \in {"on", "on group", "refresh", "raise"} => Switches(p)
<1>1. At(p).op = op /\ \A q : Runs(p, q) => q = op
  BY DEF Runs
<1>2. op \notin {"wait all", "wait one"} => Waits(p)
  BY <1>1 DEF Waits
<1>3. /\ op \notin {"on", "on group", "refresh"} => Turns(p)
      /\ op # "handler" => Sets(p)
  BY <1>1 DEF Turns, Sets
<1>4. ASSUME op \notin {"read", "raise", "index", "snapshot"}, Same(p) PROVE Reads(p)
  <2>1. ~Runs(p, "read") /\ ~Runs(p, "raise") /\ ~Runs(p, "snapshot") /\ ~Overrun(At(p), p)
    BY <1>1, <1>4 DEF Overrun
  <2>. QED
    BY <1>4, <2>1 DEF Reads, Same
<1>5. op # "off" /\ (\A e \in Events : event'[e].on => event[e].on) => Switches(p)
  BY <1>1 DEF Switches
<1>6. ASSUME op \in {"on", "on group", "refresh", "raise"} PROVE Switches(p)
  <2>1. ~Runs(p, "off")
    BY <1>1, <1>6
  <2>. QED
    BY <1>6, <2>1 DEF Switches
<1>. QED
  BY <1>2, <1>3, <1>4, <1>5, <1>6

Dies(p) ==
  /\ proc[p].state = "runs" /\ UNCHANGED ring
  /\ \E s \in {"done", "failed", "killed"} :
       /\ Ends(p, s)
       /\ s = "done" => proc[p].pc = Len(Code(p)) + 1
       /\ s = "killed" => proc[p].smashed \/ (io.pending /\ ~io.handler)
       /\ s = "killed" /\ p # 0 => proc[p].smashed

LEMMA PlainMoves ==
  ASSUME Typed, NEW p \in Procs,
         NEW op \in {"try", "map", "unmap", "work", "print", "handler", "owner", "async", "spin",
                    "drain", "wait all", "wait one"},
         Runs(p, op), Next1(p), event' = event, Waits(p), Sets(p)
  PROVE  Moves(p)
<1>1. Goes(p) /\ EventsKept /\ Same(p)
  BY PastGoes, Unchanged DEF Same
<1>2. Turns(p) /\ Reads(p) /\ Switches(p)
  BY <1>1, Parts
<1>. QED
  BY <1>1, <1>2 DEF Moves

LEMMA StepKinds ==
  ASSUME Typed, Descriptors, [Next]_vars
  PROVE  \/ UNCHANGED <<proc, event>>
         \/ \E p \in Procs : Moves(p) \/ OpenEvent(p) \/ CloseEvent(p) \/ Dies(p) \/ ForkChild(p)
         \/ \E e \in Events : Overflow(e)
<1>. SUFFICES ASSUME Next
              PROVE  \/ UNCHANGED <<proc, event>>
                     \/ \E p \in Procs : Moves(p) \/ OpenEvent(p) \/ CloseEvent(p)
                                         \/ Dies(p) \/ ForkChild(p)
                     \/ \E e \in Events : Overflow(e)
  BY DEF vars
<1>1. ASSUME NEW p \in Procs, Step(p)
      PROVE  Moves(p) \/ OpenEvent(p) \/ CloseEvent(p) \/ Dies(p) \/ ForkChild(p)
             \/ UNCHANGED <<proc, event>>
  <2>1. ASSUME Fails(p) PROVE Dies(p)
    BY <2>1 DEF Fails, Dies, Runs
  <2>2. ASSUME Succeeds(p) \/ MapRing(p) \/ Unmap(p) \/ Passes(p) \/ SetUp(p) \/ Spin(p)
        PROVE  Moves(p)
    <3>1. PICK op \in {"try", "map", "unmap", "work", "print", "handler", "owner", "async", "spin"} :
            Runs(p, op)
      BY <2>2 DEF Succeeds, MapRing, Unmap, Passes, SetUp, Spin
    <3>2. Next1(p) /\ event' = event
      BY <2>2 DEF Succeeds, MapRing, Unmap, Passes, SetUp, Spin
    <3>3. Waits(p)
      BY <3>1, Parts
    <3>4. Sets(p)
      <4>1. CASE SetUp(p)
        BY <4>1 DEF SetUp, Sets, Runs, Typed, IoType
      <4>2. CASE ~SetUp(p)
        <5>1. PICK o \in {"try", "map", "unmap", "work", "print", "spin"} : Runs(p, o)
          BY <2>2, <4>2 DEF Succeeds, MapRing, Unmap, Passes, Spin
        <5>. QED
          BY <5>1, Parts
      <4>. QED
        BY <4>1, <4>2
    <3>. QED
      BY <3>1, <3>2, <3>3, <3>4, PlainMoves
  <2>3. ASSUME ReadCounter(p) PROVE Moves(p)
    <3>1. /\ Goes(p) /\ Runs(p, "read") /\ event' = event
          /\ proc'[p].smashed = proc[p].smashed /\ proc'[p].head = proc[p].head
          /\ \/ proc'[p].vals = ReadInto(proc[p].vals, Ev(p), At(p).n, At(p).of)
             \/ proc[p].smashed /\ proc'[p].vals = proc[p].vals
      BY <2>3, ReadGoes DEF ReadCounter
    <3>2. EventsKept /\ Turns(p) /\ Waits(p) /\ Sets(p) /\ Switches(p)
      <4>1. PICK op \in {"read"} : Runs(p, op)
        BY <3>1
      <4>. QED
        BY <3>1, <4>1, Unchanged, Parts
    <3>3. ~Runs(p, "raise") /\ ~Runs(p, "snapshot") /\ ~Overrun(At(p), p)
      BY <3>1 DEF Runs, Overrun
    <3>4. Reads(p)
      BY <3>1, <3>3 DEF Reads
    <3>. QED
      BY <3>1, <3>2, <3>4 DEF Moves
  <2>4. ASSUME IndexArray(p) PROVE Moves(p)
    <3>1. /\ Goes(p) /\ Runs(p, "index") /\ event' = event
          /\ (proc'[p].smashed <=> proc[p].smashed \/ Overrun(At(p), p))
          /\ proc'[p].vals = proc[p].vals /\ proc'[p].head = proc[p].head
      BY <2>4, IndexGoes DEF IndexArray
    <3>2. EventsKept /\ Turns(p) /\ Waits(p) /\ Sets(p) /\ Switches(p)
      <4>1. PICK op \in {"index"} : Runs(p, op)
        BY <3>1
      <4>. QED
        BY <3>1, <4>1, Unchanged, Parts
    <3>3. ~Runs(p, "raise") /\ ~Runs(p, "snapshot") /\ ~Runs(p, "read")
      BY <3>1 DEF Runs
    <3>4. Reads(p)
      BY <3>1, <3>3 DEF Reads
    <3>. QED
      BY <3>1, <3>2, <3>4 DEF Moves
  <2>5. ASSUME Crash(p) PROVE Dies(p)
    <3>1. proc[p].state = "runs" /\ proc[p].smashed /\ Ends(p, "killed") /\ UNCHANGED ring
      BY <2>5 DEF Crash
    <3>. QED
      BY <3>1 DEF Dies
  <2>6. ASSUME Enable(p) PROVE Moves(p)
    <3>1. /\ Goes(p) /\ EventsKept /\ Turns(p) /\ Same(p)
          /\ \E op \in {"on", "on group"} : Runs(p, op)
      BY <2>6, EnableKept, EnableTurns DEF Same
    <3>2. Waits(p) /\ Sets(p) /\ Reads(p) /\ Switches(p)
      BY <3>1, Parts
    <3>. QED
      BY <3>1, <3>2 DEF Moves
  <2>7. ASSUME Disable(p) \/ DisableStray(p) PROVE Moves(p)
    <3>1. /\ Goes(p) /\ EventsKept /\ Same(p) /\ \A e \in Events : event'[e].on => event[e].on
          /\ Runs(p, "off") => ~event'[Ev(p)].on
      BY <2>7, DisableKept, DisableOff DEF Same
    <3>2. PICK op \in {"off", "off group", "stray off"} : Runs(p, op)
      BY <2>7, DisableKept
    <3>3. Waits(p) /\ Sets(p) /\ Reads(p) /\ Turns(p)
      BY <3>1, <3>2, Parts
    <3>4. Switches(p)
      BY <3>1 DEF Switches
    <3>. QED
      BY <3>1, <3>2, <3>3, <3>4 DEF Moves
  <2>8. ASSUME SetRefresh(p) PROVE Moves(p)
    <3>1. Goes(p) /\ Runs(p, "refresh") /\ EventsKept /\ Turns(p) /\ Same(p)
      BY <2>8, RefreshKept, RefreshTurns DEF Same
    <3>2. Waits(p) /\ Sets(p) /\ Reads(p) /\ Switches(p)
      <4>1. PICK op \in {"refresh"} : Runs(p, op)
        BY <3>1
      <4>. QED
        BY <3>1, <4>1, Parts
    <3>. QED
      BY <3>1, <3>2 DEF Moves
  <2>9. ASSUME TakeHead(p) PROVE Moves(p)
    <3>1. /\ Goes(p) /\ Runs(p, "snapshot") /\ event' = event
          /\ proc'[p].vals = proc[p].vals /\ proc'[p].smashed = proc[p].smashed
          /\ proc'[p].head = ring.head
      BY <2>9, TakeHeadGoes DEF TakeHead
    <3>2. EventsKept /\ Turns(p) /\ Waits(p) /\ Sets(p) /\ Switches(p)
      <4>1. PICK op \in {"snapshot"} : Runs(p, op)
        BY <3>1
      <4>. QED
        BY <3>1, <4>1, Unchanged, Parts
    <3>3. ~Runs(p, "raise") /\ ~Runs(p, "read") /\ ~Overrun(At(p), p)
      BY <3>1 DEF Runs, Overrun
    <3>4. Reads(p)
      BY <3>1, <3>3 DEF Reads
    <3>. QED
      BY <3>1, <3>2, <3>4 DEF Moves
  <2>10. ASSUME DrainRecord(p) PROVE Moves(p) \/ UNCHANGED <<proc, event>>
    <3>1. Runs(p, "drain") /\ Waits(p) /\ Sets(p)
      BY <2>10, Parts DEF DrainRecord
    <3>. QED
      BY <2>10, <3>1, PlainMoves DEF DrainRecord
  <2>11. ASSUME Raise(p) PROVE Moves(p)
    <3>1. /\ Goes(p) /\ Runs(p, "raise") /\ EventsKept
          /\ proc'[p].vals \in {proc[p].vals, ReadInto(proc[p].vals, 1, 1, 1)}
          /\ proc'[p].smashed = proc[p].smashed /\ proc'[p].head = proc[p].head
      BY <2>11, RaiseGoes, RaiseKept DEF Raise
    <3>2. Turns(p) /\ Waits(p) /\ Sets(p) /\ Switches(p)
      <4>1. PICK op \in {"raise"} : Runs(p, op)
        BY <3>1
      <4>. QED
        BY <3>1, <4>1, Parts
    <3>3. ~Runs(p, "snapshot") /\ ~Runs(p, "read") /\ ~Overrun(At(p), p)
      BY <3>1 DEF Runs, Overrun
    <3>4. Reads(p)
      BY <3>1, <3>3 DEF Reads
    <3>. QED
      BY <3>1, <3>2, <3>4 DEF Moves
  <2>13. ASSUME Wait(p) PROVE Moves(p)
    <3>1. Waits(p) /\ Next1(p) /\ event' = event
      BY <2>13 DEF Wait, Waits, Runs
    <3>2. PICK op \in {"wait all", "wait one"} : Runs(p, op)
      BY <2>13 DEF Wait
    <3>3. Sets(p)
      BY <3>2, Parts
    <3>. QED
      BY <3>1, <3>2, <3>3, PlainMoves
  <2>12. ASSUME Finish(p) PROVE Dies(p)
    <3>1. proc[p].pc = Len(Code(p)) + 1
      BY <2>12, CodeTypes DEF Finish, Typed, ProcType
    <3>. QED
      BY <2>12, <3>1 DEF Finish, Dies
  <2>. QED
    BY <1>1, <2>1, <2>2, <2>3, <2>4, <2>5, <2>6, <2>7, <2>8, <2>9, <2>10, <2>11, <2>12,
       <2>13 DEF Step
<1>2. ASSUME Deliver PROVE Dies(0) \/ UNCHANGED <<proc, event>>
  BY <1>2 DEF Deliver, Dies
<1>. QED
  BY <1>1, <1>2 DEF Next, Procs

-----------------------------------------------------------------------------
(* Types.                                                                  *)

LEMMA PcNext ==
  ASSUME Typed, Descriptors, [Next]_vars
  PROVE  /\ proc' \in [Procs -> ProcType]
         /\ \A p \in Procs : proc'[p].pc <= Len(Code(p)) + 1
         /\ event' \in [Events -> EventType]
<1>0. \A p \in Procs : proc[p].pc <= Len(Code(p)) + 1 /\ Len(Code(p)) \in Nat
  BY CodeTypes DEF Typed
<1>1. ASSUME NEW p \in Procs, Goes(p)
      PROVE  \A q \in Procs : proc'[q].pc <= Len(Code(q)) + 1
  BY <1>0, <1>1, CodeTypes DEF Goes
<1>2. CASE UNCHANGED <<proc, event>>
  BY <1>2 DEF Typed
<1>3. CASE \E p \in Procs : Moves(p)
  BY <1>1, <1>3 DEF Moves, Goes, EventsKept
<1>4. ASSUME NEW p \in Procs, OpenEvent(p)
      PROVE  Goes(p) /\ event' \in [Events -> EventType]
  BY <1>4, OpenFacts
<1>5. ASSUME NEW p \in Procs, CloseEvent(p)
      PROVE  Goes(p) /\ event' \in [Events -> EventType]
  BY <1>5, CloseFacts
<1>6. ASSUME NEW p \in Procs, Dies(p)
      PROVE  /\ proc' \in [Procs -> ProcType] /\ event' \in [Events -> EventType]
             /\ \A q \in Procs : proc'[q].pc <= Len(Code(q)) + 1
  <2>1. PICK s \in {"done", "failed", "killed"} : Ends(p, s)
    BY <1>6 DEF Dies
  <2>. QED
    BY <1>0, <2>1, EndsFacts
<1>7. ASSUME NEW p \in Procs, ForkChild(p)
      PROVE  /\ proc' \in [Procs -> ProcType] /\ event' \in [Events -> EventType]
             /\ \A q \in Procs : proc'[q].pc <= Len(Code(q)) + 1
  <2>. DEFINE k == At(p).n
              i == proc[0].pc + 1
  <2>1. /\ proc' \in [Procs -> ProcType] /\ event' \in [Events -> EventType]
        /\ proc'[0] = [proc[0] EXCEPT !.pc = i] /\ proc'[k].pc = 1
        /\ proc[0].pc \in DOMAIN row.main /\ k \in Kids
        /\ \A q \in Procs \ {0, k} : proc'[q] = proc[q]
    BY <1>7, ForkFacts
  <2>2. i <= Len(Code(0)) + 1 /\ 0 \in Procs
    BY <2>1, CodeTypes DEF Procs
  <2>. HIDE DEF i, k
  <2>3. proc'[0].pc = i
    BY <2>1, <2>2 DEF Typed, ProcType
  <2>4. ASSUME NEW q \in Procs PROVE proc'[q].pc <= Len(Code(q)) + 1
    <3>1. 1 <= Len(Code(q)) + 1
      BY <1>0
    <3>. QED
      BY <1>0, <2>1, <2>2, <2>3, <3>1
  <2>. QED
    BY <2>1, <2>4
<1>8. ASSUME NEW e \in Events, Overflow(e)
      PROVE  proc' = proc /\ event' \in [Events -> EventType]
  BY <1>8, OverflowKept DEF EventsKept
<1>. QED
  BY <1>1, <1>2, <1>3, <1>4, <1>5, <1>6, <1>7, <1>8, StepKinds DEF Goes, Typed

(* What a step does to the buffer.                                         *)
RingSteps ==
  \/ ring' = ring
  \/ \E n \in Nat : ring' = [ring EXCEPT !.pages = n] /\ UNCHANGED event
  \/ /\ UNCHANGED proc
     /\ \E e \in Events : Overflow(e) /\ event[e].fds # {} /\ event[e].on
          /\ \E fields \in Samples(event[e].with) : ring' = Written(ring, fields)
  \/ /\ UNCHANGED <<proc, event>> /\ Runs(0, "drain") /\ proc[0].head # ring.tail
     /\ ring' = [ring EXCEPT !.tail = @ + Head(ring.recs).size, !.recs = Tail(@)]

LEMMA RingKinds == ASSUME Typed, [Next]_vars PROVE RingSteps
<1>1. ASSUME NEW p \in Procs, MapRing(p)
      PROVE  RingSteps
  <2>1. At(p).n \in Nat
    BY <1>1 DEF MapRing
  <2>. QED
    BY <1>1, <2>1 DEF MapRing, RingSteps
<1>2. ASSUME NEW p \in Procs, Unmap(p) PROVE RingSteps
  BY <1>2 DEF Unmap, RingSteps
<1>3. ASSUME NEW p \in Procs, DrainRecord(p) PROVE RingSteps
  <2>1. Runs(p, "drain") /\ p = 0
    BY <1>3, StepFacts DEF DrainRecord, MainOnly
  <2>. QED
    BY <1>3, <2>1 DEF DrainRecord, RingSteps
<1>4. ASSUME NEW e \in Events, Overflow(e) PROVE RingSteps
  BY <1>4 DEF Overflow, RingSteps, Counts
<1>5. ASSUME Next, \A p \in Procs : ~MapRing(p) /\ ~Unmap(p) /\ ~DrainRecord(p),
             \A e \in Events : ~Overflow(e)
      PROVE  ring' = ring
  BY <1>5 DEF Next, Step, Fails, Succeeds, OpenEvent, CloseEvent, ReadCounter, Passes,
     IndexArray, Crash, Enable, Disable, DisableStray, SetRefresh, TakeHead, SetUp, Spin,
     Raise, ForkChild, Wait, Finish, Deliver
<1>6. CASE UNCHANGED vars
  BY <1>6 DEF vars, RingSteps
<1>. QED
  BY <1>1, <1>2, <1>3, <1>4, <1>5, <1>6 DEF RingSteps

LEMMA IoNext == ASSUME Typed, [Next]_vars PROVE io' \in IoType
<1>. DEFINE T == [handler: BOOLEAN, owner: BOOLEAN, async: BOOLEAN, pending: BOOLEAN,
                  count: 0..5, paused: BOOLEAN]
<1>1. io \in IoType
  BY DEF Typed
<1>2. ASSUME NEW e \in Events, Overflow(e) PROVE io' \in IoType
  <2>. DEFINE b == io.pending \/ (io.async /\ io.owner)
  <2>1. io' = [io EXCEPT !.pending = b] /\ b \in BOOLEAN
    BY <1>2 DEF Overflow
  <2>. HIDE DEF b
  <2>. QED
    BY <1>1, <2>1 DEF IoType
<1>3. ASSUME NEW p \in Procs, SetUp(p) PROVE io' \in IoType
  <2>1. \A b \in BOOLEAN : /\ [io EXCEPT !.handler = b] \in IoType
                           /\ [io EXCEPT !.owner = b] \in IoType
                           /\ [io EXCEPT !.async = b] \in IoType
    BY <1>1 DEF IoType
  <2>2. TRUE \in BOOLEAN
    OBVIOUS
  <2>. QED
    BY <1>3, <2>1, <2>2, Zenon DEF SetUp
<1>4. ASSUME NEW p \in Procs, Raise(p) PROVE io' \in IoType
  <2>. DEFINE b == ~io.paused
  <2>1. io' = [io EXCEPT !.paused = b] /\ b \in BOOLEAN
    BY <1>4 DEF Raise
  <2>. HIDE DEF b
  <2>. QED
    BY <1>1, <2>1 DEF IoType
<1>5. ASSUME Deliver PROVE io' \in IoType
  <2>. DEFINE n == IF io.handler /\ io.count < 5 THEN io.count + 1 ELSE io.count
  <2>1. io' = [io EXCEPT !.pending = FALSE, !.count = n] /\ n \in 0..5
    BY <1>1, <1>5 DEF Deliver, IoType
  <2>. HIDE DEF n
  <2>2. \A b \in BOOLEAN : [io EXCEPT !.pending = b, !.count = n] \in IoType
    BY <1>1, <2>1 DEF IoType
  <2>3. FALSE \in BOOLEAN
    OBVIOUS
  <2>. QED
    BY <2>1, <2>2, <2>3, Zenon
<1>6. ASSUME Next, \A p \in Procs : ~SetUp(p) /\ ~Raise(p), \A e \in Events : ~Overflow(e), ~Deliver
      PROVE  io' = io
  BY <1>6 DEF Next, Step, Fails, Succeeds, OpenEvent, MapRing, Unmap, CloseEvent, ReadCounter,
     Passes, IndexArray, Crash, Enable, Disable, DisableStray, SetRefresh, TakeHead,
     DrainRecord, Spin, ForkChild, Wait, Finish
<1>7. CASE UNCHANGED vars
  BY <1>1, <1>7 DEF vars
<1>. QED
  BY <1>1, <1>2, <1>3, <1>4, <1>5, <1>6, <1>7

(* A process has not been forked before main is at the step that forks it. *)
LEMMA NotForked ==
  ASSUME Typed, Children, NEW i, i = proc[0].pc, i \in DOMAIN row.main,
         row.main[i].op = "fork", NEW k \in Kids, row.main[i].n = k
  PROVE  proc[k].state = "none"
<1>. SUFFICES ASSUME proc[k].state # "none" PROVE FALSE
  OBVIOUS
<1>1. PICK f \in Before(i) : row.main[f].op = "fork" /\ row.main[f].n = k
  BY DEF Children
<1>2. i \in 1..Len(row.main) /\ Len(row.main) \in Nat /\ DOMAIN row.main = 1..Len(row.main)
  BY CodeTypes DEF Procs
<1>3. f \in DOMAIN row.main /\ f # i
  BY <1>2 DEF Before
<1>. QED
  BY <1>1, <1>3, RowFacts DEF ForksWithAll

(* No child runs before main has opened what it opens.                     *)
LEMMA NoneYet ==
  ASSUME Typed, Children, NEW i, i = proc[0].pc, i \in DOMAIN row.main,
         row.main[i].op = "open", NEW k \in Kids
  PROVE  proc[k].state = "none"
<1>. SUFFICES ASSUME proc[k].state # "none" PROVE FALSE
  OBVIOUS
<1>1. PICK f \in Before(i) : row.main[f].op = "fork"
  BY DEF Children
<1>2. i \in 1..Len(row.main) /\ Len(row.main) \in Nat /\ DOMAIN row.main = 1..Len(row.main)
  BY CodeTypes DEF Procs
<1>3. f \in DOMAIN row.main /\ f < i
  BY <1>2 DEF Before
<1>4. HeldAt(row.main, {}, row.main[i].ev, f)
  BY <1>1, <1>3, RowFacts DEF ForksWithAll, Inherited
<1>5. PICK j \in Before(f) : Opens(row.main[j], row.main[i].ev)
  BY <1>4 DEF HeldAt
<1>6. j \in DOMAIN row.main /\ j < f
  BY <1>2, <1>3 DEF Before
<1>7. j = i
  BY <1>5, <1>6, RowFacts DEF UsesHeld
<1>. QED
  BY <1>2, <1>3, <1>6, <1>7

LEMMA PcTypes ==
  ASSUME Typed, NEW p \in Procs
  PROVE  proc[p].pc \in Nat \ {0}
  BY DEF Typed, ProcType

(* What a process that goes on has behind its step.                        *)
LEMMA HoldsGoes ==
  ASSUME Typed, [Next]_vars, NEW p \in Procs, NEW op, Runs(p, op),
         proc'[p].pc = proc[p].pc + 1, NEW e \in Events, NEW o, o = Ev(p)
  PROVE  /\ op \notin {"open", "close"} => (Holds(p, e)' <=> Holds(p, e))
         /\ op \in {"open", "close"} /\ e # o => (Holds(p, e)' <=> Holds(p, e))
         /\ op = "open" => Holds(p, o)'
         /\ op = "close" => ~Holds(p, o)'
<1>. DEFINE i == proc[p].pc
<1>1. i \in Nat \ {0} /\ proc'[p].pc = i + 1
  BY PcTypes
<1>2. At(p) = Code(p)[i] /\ At(p).op = op
  BY StepFacts
<1>3. Code(p)' = Code(p) /\ Base(p)' = Base(p)
  BY SameProg
<1>. HIDE DEF i
<1>4. ASSUME NEW d
      PROVE  HeldAt(Code(p), Base(p), Name(d), i + 1) <=>
               \/ Opens(At(p), Name(d))
               \/ ~Closes(At(p), Name(d)) /\ HeldAt(Code(p), Base(p), Name(d), i)
  BY <1>1, <1>2, HeldNext
<1>5. ASSUME NEW d
      PROVE  Holds(p, d)' <=> Sees(p, d) /\ HeldAt(Code(p), Base(p), Name(d), i + 1)
  BY <1>1, <1>3 DEF Holds, Sees, Name
<1>6. ASSUME NEW d
      PROVE  Holds(p, d) <=> Sees(p, d) /\ HeldAt(Code(p), Base(p), Name(d), i)
  BY DEF Holds, i
<1>7. CASE op \notin {"open", "close"}
  BY <1>2, <1>4, <1>5, <1>6, <1>7 DEF Opens, Closes
<1>8. CASE op \in {"open", "close"}
  <2>1. op \in EventOps
    BY <1>8 DEF EventOps
  <2>2. /\ Name(o) = At(p).ev /\ Sees(p, o)
        /\ \A d \in Events : Sees(p, d) /\ Name(d) = At(p).ev => d = o
    BY <2>1, EvFacts
  <2>3. e # o => (Holds(p, e)' <=> Holds(p, e))
    BY <1>4, <1>5, <1>6, <2>2 DEF Opens, Closes
  <2>4. op = "open" => Holds(p, o)'
    BY <1>2, <1>4, <1>5, <2>2 DEF Opens
  <2>5. op = "close" => ~Holds(p, o)'
    BY <1>2, <1>4, <1>5, <2>2 DEF Opens, Closes
  <2>. QED
    BY <1>8, <2>3, <2>4, <2>5
<1>. QED
  BY <1>7, <1>8

(* Who stays where it is has what it had.                                  *)
LEMMA HoldsStays ==
  ASSUME Typed, [Next]_vars, NEW p \in Procs, proc'[p] = proc[p], NEW e \in Events
  PROVE  Holds(p, e)' <=> Holds(p, e)
<1>1. Code(p)' = Code(p) /\ Base(p)' = Base(p)
  BY SameProg
<1>. QED
  BY <1>1 DEF Holds, Sees, Name

(* The descriptors follow the code.                                        *)
LEMMA DescriptorsNext ==
  ASSUME Typed, Descriptors, Children, [Next]_vars
  PROVE  Descriptors'
<1>. DEFINE Has(q, e) == q \in event'[e].fds <=> proc'[q].state = "runs" /\ Holds(q, e)'
<1>0. SUFFICES ASSUME NEW q \in Procs, NEW e \in Events PROVE Has(q, e)
  BY DEF Descriptors
<1>1. q \in event[e].fds <=> proc[q].state = "runs" /\ Holds(q, e)
  BY DEF Descriptors
<1>2. proc'[q] = proc[q] => (Holds(q, e)' <=> Holds(q, e))
  BY HoldsStays
<1>3. CASE UNCHANGED <<proc, event>>
  BY <1>1, <1>2, <1>3
<1>4. ASSUME NEW p \in Procs, Moves(p) PROVE Has(q, e)
  <2>1. event'[e].fds = event[e].fds
    BY <1>4 DEF Moves, EventsKept, SameOpening
  <2>2. CASE q # p
    BY <1>1, <1>2, <1>4, <2>1, <2>2 DEF Moves, Goes
  <2>3. CASE q = p
    <3>1. Holds(p, e)' <=> Holds(p, e)
      BY <1>4, HoldsGoes DEF Moves, Goes
    <3>. QED
      BY <1>1, <1>4, <2>1, <2>3, <3>1 DEF Moves, Goes
  <2>. QED
    BY <2>2, <2>3
<1>5. ASSUME NEW p \in Procs, OpenEvent(p) PROVE Has(q, e)
  <2>. PICK o : o = Ev(p)
    OBVIOUS
  <2>1. /\ Runs(p, "open") /\ Goes(p) /\ event'[o].fds = {p}
        /\ \A d \in Events \ {o} : event'[d].fds = event[d].fds
    BY <1>5, OpenFacts DEF SameOpening
  <2>2. CASE q = p
    <3>1. e # o => (Holds(p, e)' <=> Holds(p, e))
      BY <2>1, HoldsGoes DEF Goes
    <3>2. Holds(p, o)'
      BY <2>1, HoldsGoes DEF Goes
    <3>. QED
      BY <1>1, <2>1, <2>2, <3>1, <3>2 DEF Goes
  <2>3. CASE q # p /\ e # o
    BY <1>1, <1>2, <2>1, <2>3 DEF Goes
  <2>4. CASE q # p /\ e = o
    <3>1. ~(proc[q].state = "runs" /\ Sees(q, o))
      <4>1. /\ Sees(p, o) /\ (p = 0 => At(p).ev # 0) /\ (p # 0 => At(p).ev = 0)
            /\ o = IF At(p).ev = 0 THEN 5 + p ELSE At(p).ev
        BY <2>1, EvFacts DEF EventOps, Ev
      <4>2. CASE p = 0
        <5>1. proc[0].pc \in DOMAIN row.main /\ row.main[proc[0].pc].op = "open" /\ q \in Kids
          <6>1. proc[p].pc \in DOMAIN Code(p) /\ Code(p)[proc[p].pc].op = "open"
            BY <2>1, StepFacts
          <6>2. Code(p) = row.main
            BY <4>2, CodeTypes
          <6>. QED
            BY <2>4, <4>2, <6>1, <6>2 DEF Kids
        <5>2. proc[q].state = "none"
          BY <5>1, NoneYet
        <5>. QED
          BY <5>2
      <4>3. CASE p # 0
        BY <2>4, <4>1, <4>3 DEF Sees, Procs
      <4>. QED
        BY <4>2, <4>3
    <3>2. Holds(q, o)' => Sees(q, o)
      BY DEF Holds, Sees
    <3>. QED
      BY <2>1, <2>4, <3>1, <3>2 DEF Goes
  <2>. QED
    BY <2>2, <2>3, <2>4
<1>6. ASSUME NEW p \in Procs, CloseEvent(p) PROVE Has(q, e)
  <2>. PICK o : o = Ev(p)
    OBVIOUS
  <2>1. /\ Runs(p, "close") /\ Goes(p) /\ event'[o].fds = event[o].fds \ {p}
        /\ \A d \in Events \ {o} : event'[d].fds = event[d].fds
    BY <1>6, CloseFacts
  <2>2. CASE q = p
    <3>1. e # o => (Holds(p, e)' <=> Holds(p, e))
      BY <2>1, HoldsGoes DEF Goes
    <3>2. ~Holds(p, o)'
      BY <2>1, HoldsGoes DEF Goes
    <3>. QED
      BY <1>1, <2>1, <2>2, <3>1, <3>2 DEF Goes
  <2>3. CASE q # p
    BY <1>1, <1>2, <2>1, <2>3 DEF Goes
  <2>. QED
    BY <2>2, <2>3
<1>7. ASSUME NEW p \in Procs, Dies(p) PROVE Has(q, e)
  <2>1. PICK s \in {"done", "failed", "killed"} : Ends(p, s)
    BY <1>7 DEF Dies
  <2>2. /\ event'[e].fds = event[e].fds \ {p} /\ proc'[p].state \in {s, "done"}
        /\ \A d \in Procs \ {p} : proc'[d] = proc[d]
    BY <2>1, EndsFacts
  <2>. QED
    BY <1>1, <1>2, <2>2
<1>8. ASSUME NEW p \in Procs, ForkChild(p) PROVE Has(q, e)
  <2>. PICK k, i : k = At(p).n /\ i = proc[0].pc
    OBVIOUS
  <2>1. /\ k \in Kids /\ proc[0].state = "runs" /\ i \in DOMAIN row.main
        /\ row.main[i].op = "fork" /\ row.main[i].n = k
        /\ proc'[0] = [proc[0] EXCEPT !.pc = i + 1]
        /\ proc'[k].state = "runs" /\ proc'[k].pc = 1
        /\ \A d \in Procs \ {0, k} : proc'[d] = proc[d]
        /\ event'[e] = IF 0 \in event[e].fds
                       THEN [event[e] EXCEPT !.fds = event[e].fds \cup {k}] ELSE event[e]
        /\ p = 0
    BY <1>8, ForkFacts
  <2>2. event'[e].fds = event[e].fds \cup (IF 0 \in event[e].fds THEN {k} ELSE {})
    BY <2>1 DEF Typed, EventType
  <2>3. k \notin event[e].fds
    <3>1. proc[k].state = "none"
      BY <2>1, NotForked
    <3>. QED
      BY <2>1, <3>1 DEF Descriptors, Kids
  <2>4. CASE q = 0
    <3>1. proc'[0].state = "runs" /\ proc'[0].pc = i + 1 /\ Runs(0, "fork")
      <4>0. 0 \in Procs
        BY DEF Procs
      <4>1. i + 1 \in Nat \ {0} /\ proc[0] \in ProcType
        BY <4>0, PcTypes, ProcTypes
      <4>2. \A n \in Nat \ {0} : /\ [proc[0] EXCEPT !.pc = n].pc = n
                                /\ [proc[0] EXCEPT !.pc = n].state = proc[0].state
        BY <4>1 DEF ProcType
      <4>. QED
        BY <1>8, <2>1, <4>1, <4>2 DEF ForkChild
    <3>2. Holds(0, e)' <=> Holds(0, e)
      BY <2>1, <3>1, HoldsGoes DEF Procs
    <3>. QED
      BY <1>1, <2>1, <2>2, <2>4, <3>1, <3>2 DEF Kids
  <2>5. CASE q = k
    <3>1. 0 \in event[e].fds <=> e <= 5 /\ e \in Inherited(row)
      <4>1. 0 \in event[e].fds <=> e <= 5 /\ HeldAt(row.main, {}, e, i)
        <5>1. 0 \in event[e].fds <=> Holds(0, e)
          BY <2>1 DEF Descriptors, Procs
        <5>2. Code(0) = row.main /\ Base(0) = {}
          BY CodeTypes DEF Base, Procs
        <5>3. (Sees(0, e) <=> e <= 5) /\ (e <= 5 => Name(e) = e)
          BY DEF Sees, Events, Name
        <5>. QED
          BY <2>1, <5>1, <5>2, <5>3 DEF Holds
      <4>2. e \in Inherited(row) => HeldAt(row.main, {}, e, i)
        BY <2>1, RowFacts DEF ForksWithAll
      <4>3. HeldAt(row.main, {}, e, i) => e \in Inherited(row)
        <5>1. Before(i) \subseteq DOMAIN row.main
          BY <2>1, CodeTypes DEF Before, Procs
        <5>. QED
          BY <5>1 DEF HeldAt, Inherited, Opens
      <4>. QED
        BY <4>1, <4>2, <4>3
    <3>2. 0 \notin Inherited(row)
      BY RowFacts DEF Inherited, EventOps
    <3>3. Holds(k, e)' <=> Sees(k, e) /\ HeldAt(row.kid, Inherited(row), Name(e), 1)
      <4>1. Code(k)' = row.kid /\ Base(k)' = Inherited(row)
        <5>1. k \in Procs /\ k # 0
          BY <2>1 DEF Kids
        <5>2. Code(k) = row.kid
          BY <5>1, CodeTypes
        <5>. QED
          BY <5>1, <5>2, SameProg DEF Base
      <4>. QED
        BY <2>1, <4>1 DEF Holds, Sees, Name
    <3>4. HeldAt(row.kid, Inherited(row), Name(e), 1) <=> Name(e) \in Inherited(row)
      BY DEF HeldAt, Before
    <3>5. Sees(k, e) /\ Name(e) \in Inherited(row) <=> e <= 5 /\ e \in Inherited(row)
      BY <2>1, <3>2 DEF Sees, Name, Events
    <3>. QED
      BY <2>1, <2>2, <2>3, <2>5, <3>1, <3>3, <3>4, <3>5
  <2>6. CASE q \notin {0, k}
    BY <1>1, <1>2, <2>1, <2>2, <2>6
  <2>. QED
    BY <2>4, <2>5, <2>6
<1>9. ASSUME NEW d \in Events, Overflow(d) PROVE Has(q, e)
  BY <1>1, <1>2, <1>9, OverflowKept DEF EventsKept, SameOpening
<1>. HIDE DEF Has
<1>. QED
  BY <1>3, <1>4, <1>5, <1>6, <1>7, <1>8, <1>9, StepKinds

-----------------------------------------------------------------------------
(* Events are as their openers have opened them.                           *)

LEMMA OpenerFacts ==
  ASSUME Typed, NEW e \in Events
  PROVE  /\ Opener(e) \in Procs /\ Sees(Opener(e), e)
         /\ Name(e) \in 0..5 /\ (Opener(e) = 0 => Name(e) = e) /\ (Opener(e) # 0 => Name(e) = 0)
         /\ Name(e) \notin Base(Opener(e))
         /\ \A d \in Events : Opener(d) = Opener(e) /\ Name(d) = Name(e) => d = e
<1>1. /\ Opener(e) \in Procs /\ Sees(Opener(e), e)
      /\ Name(e) \in 0..5 /\ (Opener(e) = 0 => Name(e) = e) /\ (Opener(e) # 0 => Name(e) = 0)
      /\ \A d \in Events : Opener(d) = Opener(e) /\ Name(d) = Name(e) => d = e
  BY DEF Opener, Procs, Sees, Name, Events
<1>2. 0 \notin Inherited(row)
  BY RowFacts DEF Inherited, EventOps
<1>. QED
  BY <1>1, <1>2 DEF Base

(* Only an event that is open has been turned on.                          *)
LEMMA TurnsWhenOpen ==
  ASSUME Typed, NEW e \in Events, NEW p, p = Opener(e), NEW i \in DOMAIN Code(p),
         NEW j \in Before(i), Opens(Code(p)[i], Name(e))
  PROVE  ~TurnsOn(Code(p), Name(e), j)
<1>. DEFINE c == Code(p)
            n == Name(e)
<1>1. /\ p \in Procs /\ n \notin Base(p) /\ UsesHeld(c, Base(p))
      /\ DOMAIN c = 1..Len(c) /\ Len(c) \in Nat
  BY OpenerFacts, CodeTypes
<1>2. j \in DOMAIN c /\ j < i /\ Before(j) \subseteq DOMAIN c /\ Before(j) \subseteq Before(i)
      /\ i \notin Before(i)
  BY <1>1 DEF Before
<1>. HIDE DEF c, n
<1>3. ASSUME NEW k \in Before(i) PROVE ~Opens(c[k], n)
  <2>1. k \in DOMAIN c /\ k # i
    BY <1>1, <1>2 DEF Before, c
  <2>2. Opens(c[i], n)
    BY DEF c, n
  <2>3. c[i].op = "open" /\ c[i].ev = n /\ i \in DOMAIN c
    BY <2>2 DEF Opens, c
  <2>. QED
    BY <1>1, <2>1, <2>3 DEF UsesHeld
<1>4. ~HeldAt(c, Base(p), n, j) /\ ~HeldAt(c, {}, n, j)
  BY <1>1, <1>2, <1>3 DEF HeldAt
<1>5. c[j].op \in {"on", "refresh"} => c[j].ev # n
  BY <1>1, <1>2, <1>4 DEF UsesHeld, EventOps
<1>. QED
  BY <1>3, <1>4, <1>5 DEF TurnsOn, c, n

LEMMA NotYetOn ==
  ASSUME Typed, NEW e \in Events, NEW p, p = Opener(e), NEW i \in DOMAIN Code(p),
         Opens(Code(p)[i], Name(e))
  PROVE  ~TurnedOn(Code(p), Name(e), i)
  BY TurnsWhenOpen DEF TurnedOn

(* What its code says of the leader of an event.                           *)
LEMMA LedFacts ==
  ASSUME Typed, NEW e \in Events, NEW p, p = Opener(e),
         NEW j \in DOMAIN Code(p), OpenedBy(e, Code(p)[j]), NEW l, LedBy(Code(p), Name(e), l)
  PROVE  event[e].leader = IF l = 0 THEN e ELSE l
<1>1. p \in Procs /\ UsesHeld(Code(p), Base(p))
  BY OpenerFacts, CodeTypes
<1>2. PICK i \in DOMAIN Code(p) : Opens(Code(p)[i], Name(e)) /\ Code(p)[i].leader = l
  BY DEF LedBy
<1>3. i = j
  BY <1>1, <1>2 DEF UsesHeld, OpenedBy, Opens
<1>. QED
  BY <1>2, <1>3 DEF OpenedBy

(* A step that turns events on does so.                                    *)
LEMMA TurnsRun ==
  ASSUME Typed, Descriptors, Opened, NEW p \in Procs, Moves(p),
         NEW e \in Events, Opener(e) = p, event[e].fds # {},
         TurnsOn(Code(p), Name(e), proc[p].pc)
  PROVE  event'[e].ran
<1>. DEFINE i == proc[p].pc
            c == Code(p)
            n == Name(e)
<1>1. PICK op : Runs(p, op) /\ op \notin {"open", "close", "fork"}
  BY DEF Moves
<1>2. /\ At(p) = c[i] /\ At(p).op = op /\ StepOK(At(p)) /\ proc[p].state = "runs"
      /\ i \in DOMAIN c
  BY <1>1, StepFacts
<1>3. PICK j \in DOMAIN c : OpenedBy(e, c[j])
  BY DEF Opened
<1>4. /\ Sees(p, e) /\ (p = 0 => n = e) /\ (p # 0 => n = 0) /\ n \in 0..5
  BY OpenerFacts
<1>5. CASE op \in {"on", "refresh"}
  <2>1. op \in EventOps /\ At(p).ev = n /\ LedBy(c, n, n)
    BY <1>2, <1>5 DEF TurnsOn, EventOps, Opens
  <2>2. e = Ev(p)
    BY <1>1, <1>4, <2>1, EvFacts
  <2>3. event[e].leader = e
    <3>1. event[e].leader = IF n = 0 THEN e ELSE n
      BY <1>3, <2>1, LedFacts
    <3>. QED
      BY <1>4, <3>1
  <2>. QED
    BY <1>1, <1>5, <2>2, <2>3 DEF Moves, Turns
<1>6. CASE op = "on group"
  <2>. DEFINE o == Ev(p)
              l == At(p).ev
  <2>1. op \in EventOps \ {"open"} /\ LedBy(c, l, l) /\ LedBy(c, n, l)
    BY <1>2, <1>6 DEF TurnsOn, EventOps, Opens
  <2>2. o \in Events /\ Name(o) = l /\ l \in 0..5 /\ event[o].fds # {}
    BY <1>1, <2>1, EvFacts, HasEvent
  <2>3. Opener(o) = p
    <3>1. PICK k \in DOMAIN c : Opens(c[k], l)
      BY <2>1 DEF LedBy
    <3>2. (p = 0 => l # 0) /\ (p # 0 => l = 0)
      BY <3>1, CodeTypes, RowFacts DEF Opens, EventOps
    <3>. QED
      BY <2>2, <3>2 DEF Opener, Ev, Procs
  <2>4. event[o].leader = o
    <3>1. PICK k \in DOMAIN c : OpenedBy(o, c[k])
      BY <2>2, <2>3 DEF Opened
    <3>2. event[o].leader = IF l = 0 THEN o ELSE l
      BY <2>1, <2>2, <2>3, <3>1, LedFacts
    <3>. QED
      BY <2>2, <3>2 DEF Ev
  <2>5. event[e].leader = o
    <3>1. event[e].leader = IF l = 0 THEN e ELSE l
      BY <1>3, <2>1, LedFacts
    <3>2. CASE l # 0
      BY <3>1, <3>2 DEF Ev
    <3>3. CASE l = 0
      <4>1. PICK k \in DOMAIN c : Opens(c[k], n) /\ c[k].leader = 0
        BY <2>1, <3>3 DEF LedBy
      <4>2. p # 0
        BY <4>1, CodeTypes, RowFacts DEF Opens
      <4>. QED
        BY <1>4, <2>2, <2>3, <3>1, <3>3, <4>2, OpenerFacts
    <3>. QED
      BY <3>2, <3>3
  <2>6. e \in Group(event, o) /\ event[e].leader \in Group(event, o)
    BY <2>2, <2>4, <2>5 DEF Group
  <2>. QED
    BY <1>1, <1>6, <2>6 DEF Moves, Turns
<1>. QED
  BY <1>1, <1>2, <1>5, <1>6 DEF TurnsOn, Opens

LEMMA TurnsOps ==
  ASSUME NEW c, NEW n, NEW j, c[j].op \notin {"open", "on", "refresh", "on group"}
  PROVE  ~TurnsOn(c, n, j)
  BY DEF TurnsOn, Opens

LEMMA TurnsNext ==
  ASSUME Typed, Descriptors, Opened, [Next]_vars, NEW p \in Procs, NEW op, Runs(p, op),
         proc'[p].pc = proc[p].pc + 1, NEW n
  PROVE  /\ TurnedOn(Code(p), n, proc'[p].pc) <=>
              TurnedOn(Code(p), n, proc[p].pc) \/ TurnsOn(Code(p), n, proc[p].pc)
         /\ op \notin {"open", "on", "refresh", "on group"} =>
              ~TurnsOn(Code(p), n, proc[p].pc)
<1>1. proc[p].pc \in Nat \ {0}
  BY PcTypes
<1>2. Code(p)[proc[p].pc].op = op
  BY StepFacts
<1>3. TurnedOn(Code(p), n, proc[p].pc + 1) <=>
        TurnedOn(Code(p), n, proc[p].pc) \/ TurnsOn(Code(p), n, proc[p].pc)
  BY <1>1, TurnedNext
<1>4. op \notin {"open", "on", "refresh", "on group"} => ~TurnsOn(Code(p), n, proc[p].pc)
  BY <1>2, TurnsOps
<1>. QED
  BY <1>3, <1>4

LEMMA TurnsSame ==
  ASSUME Typed, Descriptors, Opened, [Next]_vars, NEW p \in Procs,
         NEW op \in {"close", "fork"}, Runs(p, op),
         proc'[p].pc = proc[p].pc + 1, NEW n
  PROVE  TurnedOn(Code(p), n, proc'[p].pc) => TurnedOn(Code(p), n, proc[p].pc)
  BY TurnsNext

(* One event.                                                              *)
OpenedOne(e) ==
  /\ event[e].on \/ event[e].ran => event[e].fds # {}
  /\ event[e].fds # {} =>
       /\ \E j \in DOMAIN Code(Opener(e)) : OpenedBy(e, Code(Opener(e))[j])
       /\ TurnedOn(Code(Opener(e)), Name(e), proc[Opener(e)].pc) => event[e].ran

LEMMA OpenedKept ==
  ASSUME Typed, [Next]_vars, NEW e \in Events, OpenedOne(e),
         event'[e].fds # {} =>
           /\ event[e].fds # {} /\ (event[e].ran => event'[e].ran)
           /\ event'[e].with = event[e].with /\ event'[e].leader = event[e].leader,
         event'[e].on \/ event'[e].ran => event'[e].fds # {},
         event'[e].fds # {} /\ TurnedOn(Code(Opener(e)), Name(e), proc'[Opener(e)].pc) =>
           event'[e].ran \/ TurnedOn(Code(Opener(e)), Name(e), proc[Opener(e)].pc)
  PROVE  OpenedOne(e)'
<1>. PICK q, n : q = Opener(e) /\ n = Name(e)
  OBVIOUS
<1>1. Opener(e)' = q /\ Name(e)' = n /\ Code(q)' = Code(q)
  BY SameProg, OpenerFacts DEF Opener, Name
<1>2. event'[e].fds # {} => \E j \in DOMAIN Code(q) : OpenedBy(e, Code(q)[j])
  BY DEF OpenedOne
<1>3. \A j : OpenedBy(e, Code(q)[j]) /\ event'[e].fds # {} =>
        /\ Opens(Code(q)[j], n)
        /\ event'[e].with = Code(q)[j].with
        /\ event'[e].leader = IF Code(q)[j].leader = 0 THEN e ELSE Code(q)[j].leader
  BY DEF OpenedBy
<1>. QED
  BY <1>1, <1>2, <1>3 DEF OpenedOne, OpenedBy

(* Every kind of step keeps Opened.                                        *)
LEMMA OpenedNext ==
  ASSUME Typed, Descriptors, Opened, [Next]_vars
  PROVE  Opened'
<1>0. SUFFICES ASSUME NEW e \in Events PROVE OpenedOne(e)'
  BY DEF Opened, OpenedOne
<1>. PICK q, n : q = Opener(e) /\ n = Name(e)
  OBVIOUS
<1>1. /\ OpenedOne(e) /\ q \in Procs
      /\ event[e].fds # {} /\ TurnedOn(Code(q), n, proc[q].pc) => event[e].ran
      /\ event[e].on \/ event[e].ran => event[e].fds # {}
  BY OpenerFacts DEF Opened, OpenedOne
<1>2. \A m, c : ~TurnedOn(c, m, 1)
  BY DEF TurnedOn, Before
<1>3. CASE UNCHANGED <<proc, event>>
  BY <1>1, <1>3, OpenedKept
<1>4. ASSUME NEW p \in Procs, Moves(p) PROVE OpenedOne(e)'
  <2>1. /\ event'[e].with = event[e].with /\ event'[e].leader = event[e].leader
        /\ event'[e].fds = event[e].fds /\ (event[e].ran => event'[e].ran)
        /\ event'[e].on \/ event'[e].ran => event[e].fds # {}
    BY <1>1, <1>4 DEF Moves, EventsKept, SameOpening
  <2>2. CASE q # p
    <3>1. proc'[q] = proc[q]
      BY <1>1, <1>4, <2>2 DEF Moves, Goes
    <3>. QED
      BY <1>1, <2>1, <3>1, OpenedKept
  <2>3. CASE q = p
    <3>1. event[e].fds # {} /\ TurnsOn(Code(q), n, proc[q].pc) => event'[e].ran
      BY <1>4, <2>3, TurnsRun
    <3>2. TurnedOn(Code(q), n, proc'[q].pc) =>
            TurnedOn(Code(q), n, proc[q].pc) \/ TurnsOn(Code(q), n, proc[q].pc)
      BY <1>4, <2>3, TurnsNext DEF Moves, Goes
    <3>. QED
      BY <1>1, <2>1, <3>1, <3>2, OpenedKept
  <2>. QED
    BY <2>2, <2>3
<1>5. ASSUME NEW p \in Procs, OpenEvent(p) PROVE OpenedOne(e)'
  <2>. PICK o : o = Ev(p)
    OBVIOUS
  <2>1. /\ Runs(p, "open") /\ Goes(p) /\ event'[o].fds = {p} /\ event'[o].with = At(p).with
        /\ event'[o].leader = (IF At(p).leader = 0 THEN o ELSE At(p).leader)
        /\ "on" \in At(p).with /\ event'[o].leader = o => event'[o].ran
        /\ \A d \in Events \ {o} :
              /\ SameOpening(event', d) /\ (event'[d].on <=> event[d].on)
              /\ (event[d].ran => event'[d].ran)
              /\ (event'[d].ran => event[d].ran \/ event[d].fds # {})
    BY <1>5, OpenFacts
  <2>2. /\ o \in Events /\ Name(o) = At(p).ev /\ Opener(o) = p
        /\ At(p) = Code(p)[proc[p].pc] /\ At(p).op = "open" /\ proc[p].pc \in DOMAIN Code(p)
    BY <2>1, EvFacts, StepFacts DEF EventOps
  <2>3. CASE e = o
    <3>1. Opens(Code(p)[proc[p].pc], n)
      BY <2>2, <2>3 DEF Opens
    <3>2. ~TurnedOn(Code(p), n, proc[p].pc)
      BY <2>2, <2>3, <3>1, NotYetOn
    <3>3. TurnsOn(Code(p), n, proc[p].pc) => At(p).leader = n /\ "on" \in At(p).with
      BY <2>2 DEF TurnsOn
    <3>4. TurnsOn(Code(p), n, proc[p].pc) => event'[o].ran
      <4>1. (p = 0 => n = e) /\ (p # 0 => n = 0)
        BY <2>2, <2>3, OpenerFacts
      <4>2. At(p).leader = n => event'[o].leader = o
        BY <2>1, <2>3, <4>1 DEF Events
      <4>. QED
        BY <2>1, <3>3, <4>2
    <3>5. TurnedOn(Code(p), n, proc'[p].pc) => event'[o].ran
      BY <2>1, <3>2, <3>4, TurnsNext DEF Goes
    <3>6. Opener(e)' = p /\ Name(e)' = n /\ Code(p)' = Code(p)
      BY <2>2, <2>3, SameProg DEF Opener, Name
    <3>7. /\ Opens(Code(p)[proc[p].pc], n) /\ event'[e].with = Code(p)[proc[p].pc].with
          /\ event'[e].leader = IF Code(p)[proc[p].pc].leader = 0 THEN e
                                ELSE Code(p)[proc[p].pc].leader
      BY <2>1, <2>2, <2>3, <3>1
    <3>8. \E j \in DOMAIN Code(p) :
            /\ Opens(Code(p)[j], n) /\ event'[e].with = Code(p)[j].with
            /\ event'[e].leader = IF Code(p)[j].leader = 0 THEN e ELSE Code(p)[j].leader
      BY <2>2, <3>7
    <3>. QED
      BY <2>1, <2>3, <3>5, <3>6, <3>8 DEF OpenedOne, OpenedBy
  <2>4. CASE e # o
    <3>1. /\ event'[e].with = event[e].with /\ event'[e].leader = event[e].leader
          /\ event'[e].fds = event[e].fds /\ (event[e].ran => event'[e].ran)
          /\ event'[e].on \/ event'[e].ran => event[e].fds # {}
      BY <1>1, <2>1, <2>4 DEF SameOpening
    <3>2. TurnedOn(Code(q), n, proc'[q].pc) => TurnedOn(Code(q), n, proc[q].pc)
      <4>1. CASE q = p
        <5>1. At(p).ev # n
          BY <2>2, <2>4, <4>1, OpenerFacts
        <5>2. ~TurnsOn(Code(p), n, proc[p].pc)
          BY <2>2, <5>1 DEF TurnsOn, Opens
        <5>. QED
          BY <2>1, <4>1, <5>2, TurnsNext DEF Goes
      <4>2. CASE q # p
        BY <1>1, <2>1, <4>2 DEF Goes
      <4>. QED
        BY <4>1, <4>2
    <3>. QED
      BY <1>1, <3>1, <3>2, OpenedKept
  <2>. QED
    BY <2>3, <2>4
<1>6. ASSUME NEW p \in Procs, CloseEvent(p) PROVE OpenedOne(e)'
  <2>. PICK o : o = Ev(p)
    OBVIOUS
  <2>1. /\ Runs(p, "close") /\ Goes(p)
        /\ event'[o].fds # {} => event'[o] = [event[o] EXCEPT !.fds = event[o].fds \ {p}]
        /\ event'[o].fds = event[o].fds \ {p}
        /\ event'[o].fds = {} => ~event'[o].on /\ ~event'[o].ran
        /\ \A d \in Events \ {o} : event'[d] = event[d]
    BY <1>6, CloseFacts
  <2>2. /\ event'[e].fds # {} => /\ event'[e].with = event[e].with
                                 /\ event'[e].leader = event[e].leader
                                 /\ event[e].fds # {}
                                 /\ (event[e].ran => event'[e].ran)
        /\ event'[e].on \/ event'[e].ran => event'[e].fds # {}
    <3>1. CASE e = o
      BY <1>1, <2>1, <3>1 DEF Typed, EventType
    <3>2. CASE e # o
      BY <1>1, <2>1, <3>2
    <3>. QED
      BY <3>1, <3>2
  <2>3. TurnedOn(Code(q), n, proc'[q].pc) => TurnedOn(Code(q), n, proc[q].pc)
    <3>1. CASE q = p
      BY <2>1, <3>1, TurnsSame DEF Goes
    <3>2. CASE q # p
      BY <1>1, <2>1, <3>2 DEF Goes
    <3>. QED
      BY <3>1, <3>2
  <2>. QED
    BY <1>1, <2>2, <2>3, OpenedKept
<1>7. ASSUME NEW p \in Procs, Dies(p) PROVE OpenedOne(e)'
  <2>1. PICK s \in {"done", "failed", "killed"} : Ends(p, s)
    BY <1>7 DEF Dies
  <2>2. /\ event'[e].fds = event[e].fds \ {p}
        /\ event'[e].fds # {} => event'[e] = [event[e] EXCEPT !.fds = event[e].fds \ {p}]
        /\ event'[e].fds = {} => ~event'[e].on /\ ~event'[e].ran
        /\ \A d \in Procs \ {p} : proc'[d] = proc[d]
        /\ p = 0 => proc'[p].pc = proc[p].pc
        /\ p # 0 => proc'[p].pc = 1
    BY <2>1, EndsFacts
  <2>3. /\ event'[e].fds # {} => /\ event'[e].with = event[e].with
                                 /\ event'[e].leader = event[e].leader
                                 /\ event[e].fds # {}
                                 /\ (event[e].ran => event'[e].ran)
        /\ event'[e].on \/ event'[e].ran => event'[e].fds # {}
    BY <1>1, <2>2 DEF Typed, EventType
  <2>4. TurnedOn(Code(q), n, proc'[q].pc) => TurnedOn(Code(q), n, proc[q].pc)
    BY <1>1, <1>2, <2>2
  <2>. QED
    BY <1>1, <2>3, <2>4, OpenedKept
<1>8. ASSUME NEW p \in Procs, ForkChild(p) PROVE OpenedOne(e)'
  <2>. PICK k, i : k = At(p).n /\ i = proc[0].pc
    OBVIOUS
  <2>1. /\ k \in Kids /\ p = 0
        /\ proc'[0] = [proc[0] EXCEPT !.pc = i + 1] /\ proc'[k].pc = 1
        /\ \A d \in Procs \ {0, k} : proc'[d] = proc[d]
        /\ event'[e] = IF 0 \in event[e].fds
                       THEN [event[e] EXCEPT !.fds = event[e].fds \cup {k}] ELSE event[e]
    BY <1>8, ForkFacts
  <2>2. /\ event'[e].fds # {} <=> event[e].fds # {}
        /\ event'[e].with = event[e].with /\ event'[e].leader = event[e].leader
        /\ (event'[e].ran <=> event[e].ran) /\ (event'[e].on <=> event[e].on)
    BY <2>1 DEF Typed, EventType
  <2>3. proc'[0].pc = i + 1
    <3>0. 0 \in Procs
      BY DEF Procs
    <3>1. i + 1 \in Nat \ {0} /\ proc[0] \in ProcType
      BY <3>0, PcTypes, ProcTypes
    <3>2. \A m \in Nat \ {0} : [proc[0] EXCEPT !.pc = m].pc = m
      BY <3>1 DEF ProcType
    <3>. QED
      BY <2>1, <3>1, <3>2
  <2>4. TurnedOn(Code(q), n, proc'[q].pc) => TurnedOn(Code(q), n, proc[q].pc)
    <3>1. CASE q = 0
      BY <1>8, <2>1, <2>3, <3>1, TurnsSame DEF ForkChild, Procs
    <3>2. CASE q = k
      BY <1>2, <2>1, <3>2
    <3>3. CASE q \notin {0, k}
      BY <1>1, <2>1, <3>3
    <3>. QED
      BY <3>1, <3>2, <3>3
  <2>. QED
    BY <1>1, <2>2, <2>4, OpenedKept
<1>9. ASSUME NEW d \in Events, Overflow(d) PROVE OpenedOne(e)'
  <2>1. /\ event'[e].with = event[e].with /\ event'[e].leader = event[e].leader
        /\ event'[e].fds = event[e].fds /\ (event[e].ran => event'[e].ran)
        /\ event'[e].on \/ event'[e].ran => event[e].fds # {}
        /\ proc' = proc
    BY <1>1, <1>9, OverflowKept DEF EventsKept, SameOpening
  <2>. QED
    BY <1>1, <2>1, OpenedKept
<1>. QED
  BY <1>3, <1>4, <1>5, <1>6, <1>7, <1>8, <1>9, StepKinds

-----------------------------------------------------------------------------
(* Children are forked, and waited for.                                    *)

LEMMA WaitedNext ==
  ASSUME NEW c, NEW i \in Nat \ {0}, WaitedAt(c, i + 1)
  PROVE  \/ WaitedAt(c, i)
         \/ /\ \A k \in DOMAIN c : c[k].op = "fork" => k < i
            /\ \/ c[i].op = "wait all"
               \/ /\ c[i].op = "wait one"
                  /\ \A k, l \in DOMAIN c : c[k].op = "fork" /\ c[l].op = "fork" => k = l
<1>1. Before(i + 1) = Before(i) \cup {i}
  BY DEF Before
<1>. QED
  BY <1>1 DEF WaitedAt

LEMMA MainCode ==
  ASSUME Typed
  PROVE  /\ 0 \in Procs /\ Code(0) = row.main /\ proc[0].pc \in Nat \ {0}
         /\ DOMAIN row.main = 1..Len(row.main) /\ Len(row.main) \in Nat
         /\ proc[0].pc <= Len(row.main) + 1
         /\ Before(proc[0].pc) \subseteq DOMAIN row.main
<1>1. 0 \in Procs
  BY DEF Procs
<1>2. /\ Code(0) = row.main /\ proc[0].pc \in Nat \ {0} /\ proc[0].pc <= Len(Code(0)) + 1
      /\ DOMAIN row.main = 1..Len(row.main) /\ Len(row.main) \in Nat
  BY <1>1, CodeTypes, PcTypes DEF Typed
<1>. QED
  BY <1>1, <1>2 DEF Before

(* After a wait for all children, or for the only one, they are gone.      *)
LEMMA WaitedGone ==
  ASSUME Typed, Children, NEW op, Runs(0, op), Waits(0), WaitedAt(row.main, proc[0].pc + 1),
         NEW k \in Kids
  PROVE  Gone(k)
<1>. PICK i : i = proc[0].pc
  OBVIOUS
<1>1. /\ i \in Nat \ {0} /\ At(0).op = row.main[i].op /\ At(0).op = op
      /\ Before(i) \subseteq DOMAIN row.main /\ 0 \in Procs
  BY MainCode, StepFacts
<1>2. CASE WaitedAt(row.main, i)
  BY <1>2 DEF Children
<1>3. CASE row.main[i].op = "wait all"
  <2>1. Runs(0, "wait all")
    BY <1>1, <1>3 DEF Runs
  <2>. QED
    BY <2>1 DEF Waits
<1>4. CASE /\ row.main[i].op = "wait one"
           /\ \A m, l \in DOMAIN row.main :
                row.main[m].op = "fork" /\ row.main[l].op = "fork" => m = l
  <2>1. Runs(0, "wait one")
    BY <1>1, <1>4 DEF Runs
  <2>2. PICK d \in Kids : Gone(d) /\ proc[d].state # "none"
    BY <2>1 DEF Waits
  <2>3. CASE proc[k].state = "none"
    BY <2>3 DEF Gone
  <2>4. CASE proc[k].state # "none"
    <3>1. PICK f \in Before(i) : row.main[f].op = "fork" /\ row.main[f].n = k
      BY <2>4 DEF Children
    <3>2. PICK g \in Before(i) : row.main[g].op = "fork" /\ row.main[g].n = d
      BY <2>2 DEF Children
    <3>3. f = g
      BY <1>1, <1>4, <3>1, <3>2
    <3>. QED
      BY <2>2, <3>1, <3>2, <3>3
  <2>. QED
    BY <2>3, <2>4
<1>. QED
  BY <1>1, <1>2, <1>3, <1>4, WaitedNext

LEMMA ChildrenGo ==
  ASSUME Typed, Children, [Next]_vars, NEW p \in Procs, NEW op, Runs(p, op), Goes(p), Waits(p)
  PROVE  Children'
<1>. PICK i : i = proc[0].pc
  OBVIOUS
<1>1. row' = row /\ i \in Nat \ {0} /\ 0 \in Procs /\ \A k \in Kids : k \in Procs /\ k # 0
  BY SameProg, MainCode DEF Kids
<1>2. proc[p].state = "runs" /\ proc'[p].state = "runs" /\ proc'[p].pc = proc[p].pc + 1
      /\ \A q \in Procs \ {p} : proc'[q] = proc[q]
  BY DEF Goes
<1>3. \A q \in Procs : proc'[q].state = proc[q].state
  BY <1>2
<1>4. Before(i) \subseteq Before(proc'[0].pc) /\ proc'[0].pc \in {i, i + 1}
      /\ (p # 0 => proc'[0].pc = i) /\ (p = 0 => proc'[0].pc = i + 1)
  <2>1. CASE p = 0
    BY <1>1, <1>2, <2>1 DEF Before
  <2>2. CASE p # 0
    BY <1>1, <1>2, <2>2
  <2>. QED
    BY <2>1, <2>2
<1>5. \A k \in Kids :
        /\ proc'[k].state \in {"none", "runs", "done"}
        /\ proc'[k].state # "none" =>
             \E f \in Before(proc'[0].pc) : row.main[f].op = "fork" /\ row.main[f].n = k
  BY <1>1, <1>3, <1>4 DEF Children
<1>6. ASSUME WaitedAt(row.main, proc'[0].pc), NEW k \in Kids PROVE Gone(k)'
  <2>1. Gone(k)
    <3>1. CASE p = 0
      BY <1>4, <1>6, <3>1, WaitedGone
    <3>2. CASE p # 0
      BY <1>4, <1>6, <3>2 DEF Children
    <3>. QED
      BY <3>1, <3>2
  <2>. QED
    BY <1>1, <1>3, <2>1 DEF Gone
<1>7. proc'[0].state # "done" \/ p # 0
  BY <1>2
<1>8. proc'[0].state = "done" => proc'[0].pc = Len(row.main) + 1
  BY <1>1, <1>3, <1>4, <1>7 DEF Children
<1>. QED
  BY <1>1, <1>5, <1>6, <1>8 DEF Children

LEMMA ChildrenNext ==
  ASSUME Typed, Descriptors, Children, [Next]_vars
  PROVE  Children'
<1>. PICK i : i = proc[0].pc
  OBVIOUS
<1>1. row' = row /\ i \in Nat \ {0} /\ 0 \in Procs /\ \A k \in Kids : k \in Procs /\ k # 0
  BY SameProg, MainCode DEF Kids
<1>2. CASE proc' = proc
  BY <1>1, <1>2 DEF Children, Gone
<1>3. ASSUME NEW p \in Procs, Moves(p) PROVE Children'
  BY <1>3, ChildrenGo DEF Moves
<1>4. ASSUME NEW p \in Procs, OpenEvent(p) PROVE Children'
  <2>1. Goes(p) /\ \E op \in {"open"} : Runs(p, op)
    BY <1>4, OpenFacts
  <2>. QED
    BY <2>1, Parts, ChildrenGo
<1>5. ASSUME NEW p \in Procs, CloseEvent(p) PROVE Children'
  <2>1. Goes(p) /\ \E op \in {"close"} : Runs(p, op)
    BY <1>5, CloseFacts
  <2>. QED
    BY <2>1, Parts, ChildrenGo
<1>6. ASSUME NEW p \in Procs, Dies(p) PROVE Children'
  <2>1. PICK s \in {"done", "failed", "killed"} :
          Ends(p, s) /\ (s = "done" => proc[p].pc = Len(Code(p)) + 1)
    BY <1>6 DEF Dies
  <2>2. /\ \A d \in Procs \ {p} : proc'[d] = proc[d]
        /\ p = 0 => proc'[p].pc = i /\ proc'[p].state = s
        /\ p # 0 => proc'[p].state = "done"
    BY <2>1, EndsFacts
  <2>3. proc'[0].pc = i /\ proc[p].state = "runs"
    BY <1>1, <1>6, <2>2 DEF Dies
  <2>4. \A k \in Kids :
          /\ proc'[k].state \in {"none", "runs", "done"}
          /\ proc'[k].state # "none" => proc[k].state # "none"
          /\ Gone(k) => Gone(k)'
    BY <1>1, <2>2, <2>3 DEF Gone, Children
  <2>5. proc'[0].state = "done" => i = Len(row.main) + 1
    <3>1. CASE p = 0
      BY <2>1, <2>2, <3>1, MainCode
    <3>2. CASE p # 0
      BY <1>1, <2>2, <3>2 DEF Children
    <3>. QED
      BY <3>1, <3>2
  <2>. QED
    BY <1>1, <2>3, <2>4, <2>5 DEF Children
<1>7. ASSUME NEW p \in Procs, ForkChild(p) PROVE Children'
  <2>. PICK k : k = At(p).n
    OBVIOUS
  <2>1. /\ k \in Kids /\ i \in DOMAIN row.main /\ proc[0].state = "runs"
        /\ row.main[i].op = "fork" /\ row.main[i].n = k
        /\ proc'[0] = [proc[0] EXCEPT !.pc = i + 1] /\ proc'[k].state = "runs"
        /\ \A d \in Procs \ {0, k} : proc'[d] = proc[d]
    BY <1>7, ForkFacts
  <2>2. proc'[0].pc = i + 1 /\ proc'[0].state = "runs"
    <3>1. i + 1 \in Nat \ {0} /\ proc[0] \in ProcType
      BY <1>1 DEF Procs, Typed
    <3>2. \A m \in Nat \ {0} : /\ [proc[0] EXCEPT !.pc = m].pc = m
                              /\ [proc[0] EXCEPT !.pc = m].state = proc[0].state
      BY <3>1 DEF ProcType
    <3>. QED
      BY <2>1, <3>1, <3>2
  <2>3. Before(i + 1) = Before(i) \cup {i}
    BY <1>1 DEF Before
  <2>4. ~WaitedAt(row.main, i + 1)
    <3>1. \A j \in Before(i + 1) : ~(i < j)
      BY <1>1 DEF Before
    <3>. QED
      BY <2>1, <3>1 DEF WaitedAt
  <2>5. \A d \in Kids :
          /\ proc'[d].state \in {"none", "runs", "done"}
          /\ proc'[d].state # "none" =>
               \E f \in Before(i + 1) : row.main[f].op = "fork" /\ row.main[f].n = d
    <3>1. ASSUME NEW d \in Kids, d = k PROVE
          /\ proc'[d].state \in {"none", "runs", "done"}
          /\ \E f \in Before(i + 1) : row.main[f].op = "fork" /\ row.main[f].n = d
      BY <2>1, <2>3, <3>1
    <3>2. ASSUME NEW d \in Kids, d # k PROVE
          /\ proc'[d].state \in {"none", "runs", "done"}
          /\ proc'[d].state # "none" =>
               \E f \in Before(i + 1) : row.main[f].op = "fork" /\ row.main[f].n = d
      BY <1>1, <2>1, <2>3, <3>2 DEF Children
    <3>. QED
      BY <3>1, <3>2
  <2>. QED
    BY <1>1, <2>2, <2>4, <2>5 DEF Children
<1>8. ASSUME NEW e \in Events, Overflow(e) PROVE Children'
  BY <1>2, <1>8, OverflowKept
<1>. QED
  BY <1>2, <1>3, <1>4, <1>5, <1>6, <1>7, <1>8, StepKinds

-----------------------------------------------------------------------------
(* What is read has a value.                                               *)

(* How an event has been opened.                                           *)
LEMMA OpenedHow ==
  ASSUME Typed, Opened, NEW e \in Events, event[e].fds # {}, NEW q, q = Opener(e)
  PROVE  \E j \in DOMAIN Code(q) :
           /\ Opens(Code(q)[j], Name(e)) /\ event[e].with = Code(q)[j].with
           /\ q = 0 => Code(q)[j].leader = event[e].leader /\ event[e].leader \in 1..5
           /\ q # 0 => Code(q)[j].leader = 0 /\ event[e].leader = e
<1>1. PICK j \in DOMAIN Code(q) : OpenedBy(e, Code(q)[j])
  BY DEF Opened
<1>2. q \in Procs /\ Code(q) = IF q = 0 THEN row.main ELSE row.kid
  BY OpenerFacts, CodeTypes
<1>3. Code(q)[j].op = "open" /\ StepOK(Code(q)[j])
  BY <1>1, <1>2, CodeTypes DEF OpenedBy, Opens
<1>4. Code(q)[j].leader \in 0..5 /\ (q = 0 => Code(q)[j].leader # 0)
      /\ (q # 0 => Code(q)[j].leader = 0)
  <2>1. Code(q)[j].leader \in 0..5
    BY <1>3 DEF StepOK
  <2>2. q = 0 => Code(q)[j].leader # 0
    BY <1>2, <1>3, RowFacts
  <2>3. q # 0 => Code(q)[j].leader = 0
    BY <1>2, <1>3, RowFacts
  <2>. QED
    BY <2>1, <2>2, <2>3
<1>. QED
  BY <1>1, <1>4 DEF OpenedBy

(* A group that has been turned on has counted.                            *)
LEMMA GroupCounted ==
  ASSUME Typed, Opened, NEW e \in Events, event[e].fds # {}, NEW q, q = Opener(e),
         NEW i \in Nat, i <= proc[q].pc, GroupOn(Code(q), Name(e), i), NEW m \in Group(event, e)
  PROVE  event[m].ran
<1>1. m \in Events /\ event[m].fds # {} /\ event[m].leader = event[e].leader
  BY DEF Group
<1>2. PICK j \in DOMAIN Code(q) :
        /\ Opens(Code(q)[j], Name(e))
        /\ q = 0 => Code(q)[j].leader = event[e].leader /\ event[e].leader \in 1..5
        /\ q # 0 => Code(q)[j].leader = 0 /\ event[e].leader = e
  BY OpenedHow
<1>. PICK o : o = Opener(m)
  OBVIOUS
<1>3. PICK k \in DOMAIN Code(o) :
        /\ Opens(Code(o)[k], Name(m))
        /\ o = 0 => Code(o)[k].leader = event[m].leader /\ event[m].leader \in 1..5
        /\ o # 0 => Code(o)[k].leader = 0 /\ event[m].leader = m
  BY <1>1, OpenedHow
<1>4. q = o /\ Code(q)[j].leader = Code(o)[k].leader
  <2>1. (q = 0 => e <= 5) /\ (q # 0 => e > 5) /\ (o = 0 => m <= 5) /\ (o # 0 => m > 5)
    BY <1>1 DEF Opener, Events
  <2>. QED
    BY <1>1, <1>2, <1>3, <2>1 DEF Events
<1>5. LedBy(Code(q), Name(e), Code(q)[j].leader) /\ LedBy(Code(q), Name(m), Code(q)[j].leader)
  BY <1>2, <1>3, <1>4 DEF LedBy
<1>6. Name(m) \in 0..5 /\ Code(q)[j].leader \in 0..5
  BY <1>1, <1>2, OpenerFacts
<1>7. TurnedOn(Code(q), Name(m), i)
  BY <1>5, <1>6 DEF GroupOn
<1>8. TurnedOn(Code(q), Name(m), proc[q].pc)
  <2>1. proc[q].pc \in Nat
    BY PcTypes, OpenerFacts
  <2>2. Before(i) \subseteq Before(proc[q].pc)
    BY <2>1 DEF Before
  <2>. QED
    BY <1>7, <2>2 DEF TurnedOn
<1>. QED
  BY <1>1, <1>4, <1>8 DEF Opened

(* A variable that is read into gets a value, and that is not zero when    *)
(* the whole group has counted.                                            *)
LEMMA ReadValues ==
  ASSUME NEW vals \in ValsType, NEW e \in Events, event[e].fds # {}, NEW n, NEW first \in 1..5,
         NEW v \in 1..5, NEW x, x = ReadInto(vals, e, n, first)
  PROVE  x[v] = vals[v] \/ \E m \in Group(event, e) : x[v] = Value(m)
<1>1. e \in Group(event, e) /\ DOMAIN vals = 1..5
  BY DEF Group, ValsType
<1>2. CASE n < Words(e)
  BY <1>2 DEF ReadInto
<1>3. CASE ~(n < Words(e)) /\ "group" \notin event[e].with
  <2>1. x = [vals EXCEPT ![first] = Value(e)]
    BY <1>3 DEF ReadInto
  <2>. QED
    BY <1>1, <2>1
<1>4. CASE ~(n < Words(e)) /\ "group" \in event[e].with
  <2>. DEFINE here == {m \in Group(event, e) : Rank(e, m) = v - first}
  <2>1. x[v] = IF here = {} THEN vals[v] ELSE Value(CHOOSE m \in here : TRUE)
    BY <1>4 DEF ReadInto
  <2>2. here # {} => (CHOOSE m \in here : TRUE) \in here
    OBVIOUS
  <2>. QED
    BY <2>1, <2>2
<1>. QED
  BY <1>2, <1>3, <1>4

LEMMA ReadSuffices ==
  ASSUME NEW vals \in ValsType, NEW e, NEW n \in Int, NEW first \in 1..5,
         "group" \notin event[e].with, n >= 1 + (IF "id" \in event[e].with THEN 1 ELSE 0)
  PROVE  ReadInto(vals, e, n, first)[first] = Value(e)
<1>1. ~(n < Words(e))
  BY DEF Words
<1>2. ReadInto(vals, e, n, first) = [vals EXCEPT ![first] = Value(e)]
  BY <1>1 DEF ReadInto
<1>. QED
  BY <1>2 DEF ValsType

(* Nothing but counts is read, except in the two programs.                 *)
LEMMA ReadCounts ==
  ASSUME Typed, Descriptors, Opened, Children, prog \notin ReadAtZero,
         NEW p \in Procs, NEW op \in {"read"}, Runs(p, op), NEW m \in Group(event, Ev(p))
  PROVE  event[m].ran
<1>. PICK e, i : e = Ev(p) /\ i = proc[p].pc
  OBVIOUS
<1>1. /\ i \in DOMAIN Code(p) /\ At(p) = Code(p)[i] /\ At(p).op = "read"
      /\ proc[p].state = "runs" /\ op \in EventOps \ {"open"}
  BY StepFacts DEF EventOps
<1>2. /\ e \in Events /\ event[e].fds # {} /\ Name(e) = At(p).ev /\ At(p).ev \in 0..5
      /\ (p = 0 => At(p).ev # 0) /\ e = IF At(p).ev = 0 THEN 5 + p ELSE At(p).ev
      /\ i \in Nat
  BY <1>1, EvFacts, HasEvent, PcTypes DEF Ev
<1>3. /\ \A j \in DOMAIN row.main : row.main[j].op = "read" => GroupOn(row.main, row.main[j].ev, j)
      /\ \A j \in DOMAIN row.kid : row.kid[j].op = "read" =>
           IF row.kid[j].ev = 0 THEN GroupOn(row.kid, 0, j)
           ELSE \A f \in DOMAIN row.main :
                  row.main[f].op = "fork" => GroupOn(row.main, row.kid[j].ev, f)
  BY TurnedOnAssumption DEF Typed, row
<1>4. CASE p = 0
  <2>1. Opener(e) = 0 /\ Name(e) = e
    BY <1>2, <1>4 DEF Opener, Name
  <2>2. Code(0) = row.main
    BY MainCode
  <2>3. GroupOn(Code(0), Name(e), i) /\ i <= proc[0].pc
    BY <1>1, <1>2, <1>3, <1>4, <2>2
  <2>. QED
    BY <1>2, <2>1, <2>3, GroupCounted
<1>5. CASE p # 0 /\ At(p).ev = 0
  <2>1. Opener(e) = p
    BY <1>2, <1>5 DEF Opener, Procs
  <2>2. Code(p) = row.kid
    BY <1>5, CodeTypes
  <2>3. GroupOn(Code(p), Name(e), i) /\ i <= proc[p].pc
    BY <1>1, <1>2, <1>3, <1>5, <2>2
  <2>. QED
    BY <1>2, <2>1, <2>3, GroupCounted
<1>6. CASE p # 0 /\ At(p).ev # 0
  <2>1. Opener(e) = 0 /\ Code(p) = row.kid /\ p \in Kids
    BY <1>2, <1>6, CodeTypes DEF Opener, Kids
  <2>2. PICK f \in Before(proc[0].pc) : row.main[f].op = "fork"
    BY <1>1, <2>1 DEF Children
  <2>3. f \in DOMAIN row.main /\ f <= proc[0].pc /\ f \in Nat
    BY <2>2, MainCode DEF Before
  <2>4. Code(0) = row.main
    BY MainCode
  <2>5. GroupOn(Code(0), Name(e), f)
    BY <1>1, <1>2, <1>3, <1>6, <2>1, <2>2, <2>3, <2>4
  <2>. QED
    BY <1>2, <2>1, <2>3, <2>5, GroupCounted
<1>. QED
  BY <1>4, <1>5, <1>6

LEMMA RaiseCounts ==
  ASSUME Typed, Descriptors, Opened, prog \notin ReadAtZero,
         NEW p \in Procs, NEW op \in {"raise"}, Runs(p, op), NEW m \in Group(event, 1)
  PROVE  event[m].ran
<1>. PICK i : i = proc[p].pc
  OBVIOUS
<1>1. /\ i \in DOMAIN Code(p) /\ At(p) = Code(p)[i] /\ At(p).op = "raise" /\ p = 0
      /\ 1 \in Events /\ event[1].fds # {} /\ i \in Nat
  BY StepFacts, HasEvent, PcTypes DEF MainOnly
<1>2. GroupOn(row.main, 1, i)
  BY <1>1, MainCode, TurnedOnAssumption DEF Typed, row
<1>3. Opener(1) = 0 /\ Name(1) = 1 /\ Code(0) = row.main
  BY MainCode DEF Opener, Name
<1>. QED
  BY <1>1, <1>2, <1>3, GroupCounted

(* One process.                                                            *)
ValuesOne(p) ==
  /\ prog \notin ReadAtZero => \A v \in 1..5 : proc[p].vals[v] # "zero"
  /\ \A v \in 1..5 : ReadBefore(row, Code(p), p, v, proc[p].pc) =>
       proc[p].vals[v] # "unset" \/ proc[p].smashed
  /\ proc[p].smashed => \E i \in DOMAIN Code(p) : Overrun(Code(p)[i], p)

LEMMA ValuesStay ==
  ASSUME Typed, [Next]_vars, NEW p \in Procs, ValuesOne(p), proc'[p] = proc[p]
  PROVE  ValuesOne(p)'
  BY SameProg DEF ValuesOne

(* A step that reads nothing.                                              *)
LEMMA ValuesPass ==
  ASSUME Typed, [Next]_vars, NEW p \in Procs, ValuesOne(p), NEW op \in {"open", "close", "fork"},
         Runs(p, op), proc'[p].pc = proc[p].pc + 1,
         proc'[p].vals = proc[p].vals, proc'[p].smashed = proc[p].smashed
  PROVE  ValuesOne(p)'
<1>. PICK i, c : i = proc[p].pc /\ c = Code(p)
  OBVIOUS
<1>1. prog' = prog /\ row' = row /\ Code(p)' = c
  BY SameProg
<1>2. c[i].op = op /\ i \in Nat \ {0}
  <2>1. c[i].op = op
    BY StepFacts
  <2>2. i \in Nat \ {0}
    BY PcTypes
  <2>. QED
    BY <2>1, <2>2
<1>3. \A v : ~ReadsAt(row, c, p, v, i)
  BY <1>2 DEF ReadsAt, Overrun
<1>4. \A v : ReadBefore(row, c, p, v, i + 1) => ReadBefore(row, c, p, v, i)
  BY <1>2, <1>3, ReadNext
<1>. QED
  BY <1>1, <1>4 DEF ValuesOne

(* What a step reads.                                                      *)
LEMMA NewValues ==
  ASSUME Typed, Descriptors, Opened, Children, NEW p \in Procs, Moves(p), NEW v \in 1..5
  PROVE  /\ proc[p].vals[v] # "unset" => proc'[p].vals[v] # "unset"
         /\ prog \notin ReadAtZero /\ proc[p].vals[v] # "zero" => proc'[p].vals[v] # "zero"
<1>. PICK vals, new : vals = proc[p].vals /\ new = proc'[p].vals
  OBVIOUS
<1>1. vals \in ValsType
  BY ProcTypes
<1>2. \A m : Value(m) # "unset" /\ (event[m].ran => Value(m) # "zero")
  BY DEF Value
<1>3. CASE new = vals
  BY <1>3
<1>4. CASE Runs(p, "read") /\ new = ReadInto(vals, Ev(p), At(p).n, At(p).of)
  <2>1. PICK op \in {"read"} : Runs(p, op)
    BY <1>4
  <2>2. op \in EventOps \ {"open"} /\ At(p).op = "read" /\ StepOK(At(p))
    BY <2>1, StepFacts DEF EventOps
  <2>3. Ev(p) \in Events /\ event[Ev(p)].fds # {} /\ At(p).of \in 1..5
    BY <2>1, <2>2, HasEvent DEF StepOK
  <2>4. new[v] = vals[v] \/ \E m \in Group(event, Ev(p)) : new[v] = Value(m)
    BY <1>1, <1>4, <2>3, ReadValues
  <2>5. prog \notin ReadAtZero => \A m \in Group(event, Ev(p)) : event[m].ran
    BY <2>1, ReadCounts
  <2>. QED
    BY <1>2, <2>4, <2>5
<1>5. CASE Runs(p, "raise") /\ new = ReadInto(vals, 1, 1, 1)
  <2>1. PICK op \in {"raise"} : Runs(p, op)
    BY <1>5
  <2>2. 1 \in Events /\ event[1].fds # {}
    BY <2>1, HasEvent
  <2>3. new[v] = vals[v] \/ \E m \in Group(event, 1) : new[v] = Value(m)
    BY <1>1, <1>5, <2>2, ReadValues
  <2>4. prog \notin ReadAtZero => \A m \in Group(event, 1) : event[m].ran
    BY <2>1, RaiseCounts
  <2>. QED
    BY <1>2, <2>3, <2>4
<1>. QED
  BY <1>3, <1>4, <1>5 DEF Moves, Reads

(* A read that gives the whole value.                                      *)
LEMMA ReadGives ==
  ASSUME Typed, Descriptors, Opened, NEW p \in Procs, Moves(p), NEW v \in 1..5,
         ReadsAt(row, Code(p), p, v, proc[p].pc)
  PROVE  proc'[p].smashed \/ proc'[p].vals[v] # "unset"
<1>. PICK i, c : i = proc[p].pc /\ c = Code(p)
  OBVIOUS
<1>1. PICK op : Runs(p, op)
  BY DEF Moves
<1>2. At(p) = c[i] /\ c[i].op = op /\ StepOK(At(p))
  BY <1>1, StepFacts
<1>3. Reads(p)
  BY DEF Moves
<1>4. CASE Overrun(c[i], p)
  BY <1>2, <1>3, <1>4 DEF Reads
<1>5. CASE /\ c[i].op = "read" /\ c[i].of = v
           /\ Suffices(IF c[i].ev = 0 THEN row.kid ELSE row.main, c[i].ev, c[i].n)
  <2>1. Runs(p, "read") /\ \E o \in {"read"} : Runs(p, o)
    BY <1>1, <1>2, <1>5
  <2>2. CASE proc[p].smashed
    BY <1>3, <2>2 DEF Reads
  <2>3. CASE proc'[p].vals = ReadInto(proc[p].vals, Ev(p), c[i].n, v)
    <3>. PICK e, q : e = Ev(p) /\ q = Opener(e)
      OBVIOUS
    <3>1. /\ e \in Events /\ event[e].fds # {} /\ Name(e) = c[i].ev /\ c[i].n \in Nat
          /\ c[i].ev \in 0..5 /\ (p = 0 => c[i].ev # 0)
          /\ e = IF c[i].ev = 0 THEN 5 + p ELSE c[i].ev
      <4>1. PICK o \in EventOps \ {"open"} : Runs(p, o)
        BY <2>1 DEF EventOps
      <4>. QED
        BY <1>2, <1>5, <4>1, EvFacts, HasEvent DEF StepOK, Ev
    <3>2. q \in Procs /\ Code(q) = IF c[i].ev = 0 THEN row.kid ELSE row.main
      <4>1. q \in Procs /\ (c[i].ev = 0 <=> q # 0)
        BY <3>1 DEF Opener, Procs
      <4>. QED
        BY <4>1, CodeTypes
    <3>3. PICK j \in DOMAIN Code(q) : Opens(Code(q)[j], c[i].ev) /\ event[e].with = Code(q)[j].with
      <4>1. e \in Events /\ event[e].fds # {} /\ q = Opener(e) /\ Name(e) = c[i].ev
        BY <3>1
      <4>. QED
        BY <4>1, OpenedHow
    <3>4. /\ "group" \notin event[e].with
          /\ c[i].n >= 1 + (IF "id" \in event[e].with THEN 1 ELSE 0)
      BY <1>5, <3>2, <3>3 DEF Suffices
    <3>6. c[i].n \in Nat
      BY <3>1
    <3>5. proc'[p].vals[v] = Value(e)
      <4>. PICK n, vals : n = c[i].n /\ vals = proc[p].vals
        OBVIOUS
      <4>1. vals \in ValsType /\ n \in Int
        <5>1. vals \in ValsType
          BY ProcTypes
        <5>2. n \in Int
          BY <3>6
        <5>. QED
          BY <5>1, <5>2
      <4>2. ReadInto(vals, e, n, v)[v] = Value(e)
        BY <3>4, <4>1, ReadSuffices
      <4>. QED
        BY <2>3, <4>2
    <3>. QED
      BY <3>5 DEF Value
  <2>. QED
    BY <1>2, <1>3, <1>5, <2>1, <2>2, <2>3 DEF Reads
<1>. QED
  BY <1>4, <1>5 DEF ReadsAt

LEMMA ValuesMove ==
  ASSUME Typed, Descriptors, Opened, Children, [Next]_vars, NEW p \in Procs, ValuesOne(p), Moves(p)
  PROVE  ValuesOne(p)'
<1>. PICK i, c : i = proc[p].pc /\ c = Code(p)
  OBVIOUS
<1>1. prog' = prog /\ row' = row /\ Code(p)' = c
  BY SameProg
<1>2. PICK op : Runs(p, op)
  BY DEF Moves
<1>3. At(p) = c[i] /\ i \in Nat \ {0} /\ i \in DOMAIN c
  BY <1>2, StepFacts, PcTypes
<1>4. proc'[p].pc = i + 1 /\ (proc'[p].smashed <=> proc[p].smashed \/ Overrun(c[i], p))
  BY <1>3 DEF Moves, Goes, Reads
<1>5. prog \notin ReadAtZero => \A v \in 1..5 : proc'[p].vals[v] # "zero"
  BY NewValues DEF ValuesOne
<1>6. ASSUME NEW v \in 1..5, ReadBefore(row, c, p, v, i + 1)
      PROVE  proc'[p].vals[v] # "unset" \/ proc'[p].smashed
  <2>1. CASE ReadBefore(row, c, p, v, i)
    BY <1>4, <2>1, NewValues DEF ValuesOne
  <2>2. CASE ReadsAt(row, c, p, v, i)
    BY <2>2, ReadGives
  <2>. QED
    BY <1>3, <1>6, <2>1, <2>2, ReadNext
<1>7. proc'[p].smashed => \E j \in DOMAIN c : Overrun(c[j], p)
  BY <1>3, <1>4 DEF ValuesOne
<1>. QED
  BY <1>1, <1>4, <1>5, <1>6, <1>7 DEF ValuesOne

LEMMA ValuesNext ==
  ASSUME Typed, Descriptors, Opened, Children, ValuesOK, [Next]_vars
  PROVE  ValuesOK'
<1>0. SUFFICES ASSUME NEW q \in Procs PROVE ValuesOne(q)'
  BY DEF ValuesOK, ValuesOne
<1>1. ValuesOne(q)
  BY DEF ValuesOK, ValuesOne
<1>2. CASE proc' = proc
  BY <1>1, <1>2, ValuesStay
<1>3. ASSUME NEW p \in Procs, Moves(p) PROVE ValuesOne(q)'
  <2>1. CASE q = p
    BY <1>1, <1>3, <2>1, ValuesMove
  <2>2. CASE q # p
    BY <1>1, <1>3, <2>2, ValuesStay DEF Moves, Goes
  <2>. QED
    BY <2>1, <2>2
<1>4. ASSUME NEW p \in Procs, OpenEvent(p) PROVE ValuesOne(q)'
  <2>1. /\ Goes(p) /\ proc'[p].vals = proc[p].vals /\ proc'[p].smashed = proc[p].smashed
        /\ \E op \in {"open"} : Runs(p, op)
    BY <1>4, OpenFacts
  <2>2. CASE q = p
    BY <1>1, <2>1, <2>2, ValuesPass DEF Goes
  <2>3. CASE q # p
    BY <1>1, <2>1, <2>3, ValuesStay DEF Goes
  <2>. QED
    BY <2>2, <2>3
<1>5. ASSUME NEW p \in Procs, CloseEvent(p) PROVE ValuesOne(q)'
  <2>1. /\ Goes(p) /\ proc'[p].vals = proc[p].vals /\ proc'[p].smashed = proc[p].smashed
        /\ \E op \in {"close"} : Runs(p, op)
    BY <1>5, CloseFacts
  <2>2. CASE q = p
    BY <1>1, <2>1, <2>2, ValuesPass DEF Goes
  <2>3. CASE q # p
    BY <1>1, <2>1, <2>3, ValuesStay DEF Goes
  <2>. QED
    BY <2>2, <2>3
<1>6. \A r, c, v : ~ReadBefore(r, c, q, v, 1)
  BY DEF ReadBefore, Before
<1>7. prog' = prog /\ row' = row /\ Code(q)' = Code(q)
  BY SameProg
<1>8. ASSUME NEW p \in Procs, Dies(p) PROVE ValuesOne(q)'
  <2>1. PICK s \in {"done", "failed", "killed"} : Ends(p, s)
    BY <1>8 DEF Dies
  <2>2. CASE q # p
    BY <1>1, <2>1, <2>2, EndsFacts, ValuesStay
  <2>3. CASE q = p /\ p = 0
    <3>1. /\ proc'[q].vals = proc[q].vals /\ proc'[q].smashed = proc[q].smashed
          /\ proc'[q].pc = proc[q].pc
      BY <2>1, <2>3, EndsFacts
    <3>. QED
      BY <1>1, <1>7, <3>1 DEF ValuesOne
  <2>4. CASE q = p /\ p # 0
    <3>1. /\ proc'[q].pc = 1 /\ ~proc'[q].smashed
          /\ \A v \in 1..5 : proc'[q].vals[v] = "unset"
      BY <2>1, <2>4, EndsFacts
    <3>. QED
      BY <1>6, <1>7, <3>1 DEF ValuesOne
  <2>. QED
    BY <2>2, <2>3, <2>4
<1>9. ASSUME NEW p \in Procs, ForkChild(p) PROVE ValuesOne(q)'
  <2>. PICK k, i : k = At(p).n /\ i = proc[0].pc
    OBVIOUS
  <2>1. /\ k \in Kids /\ p = 0
        /\ proc'[0] = [proc[0] EXCEPT !.pc = i + 1]
        /\ proc'[k].pc = 1 /\ proc'[k].vals = proc[0].vals /\ ~proc'[k].smashed
        /\ \A d \in Procs \ {0, k} : proc'[d] = proc[d]
    BY <1>9, ForkFacts
  <2>2. CASE q = 0
    <3>1. i + 1 \in Nat \ {0} /\ proc[0] \in ProcType
      BY MainCode, ProcTypes
    <3>2. \A m \in Nat \ {0} : /\ [proc[0] EXCEPT !.pc = m].pc = m
                              /\ [proc[0] EXCEPT !.pc = m].vals = proc[0].vals
                              /\ [proc[0] EXCEPT !.pc = m].smashed = proc[0].smashed
      BY <3>1 DEF ProcType
    <3>3. /\ proc'[q].vals = proc[q].vals /\ proc'[q].smashed = proc[q].smashed
          /\ proc'[q].pc = proc[q].pc + 1
      BY <2>1, <2>2, <3>1, <3>2
    <3>4. \E op \in {"fork"} : Runs(q, op)
      BY <1>9, <2>1, <2>2 DEF ForkChild
    <3>. QED
      BY <1>1, <3>3, <3>4, ValuesPass
  <2>3. CASE q = k
    <3>1. prog \notin ReadAtZero => \A v \in 1..5 : proc[0].vals[v] # "zero"
      BY DEF ValuesOK, Procs
    <3>. QED
      BY <1>6, <1>7, <2>1, <2>3, <3>1 DEF ValuesOne
  <2>4. CASE q \notin {0, k}
    BY <1>1, <2>1, <2>4, ValuesStay
  <2>. QED
    BY <2>2, <2>3, <2>4
<1>10. ASSUME NEW e \in Events, Overflow(e) PROVE ValuesOne(q)'
  BY <1>2, <1>10, OverflowKept
<1>. QED
  BY <1>2, <1>3, <1>4, <1>5, <1>8, <1>9, <1>10, StepKinds

-----------------------------------------------------------------------------
(* SIGIO.                                                                  *)

LEMMA IoSteps ==
  ASSUME Typed, [Next]_vars
  PROVE  /\ io.handler => io'.handler
         /\ io'.owner => io.owner \/ \E op \in {"owner"} : Runs(0, op)
         /\ io'.pending => io.pending \/ io.owner
<1>. DEFINE Kept == /\ io.handler => io'.handler
                    /\ io'.owner => io.owner \/ \E op \in {"owner"} : Runs(0, op)
                    /\ io'.pending => io.pending \/ io.owner
<1>0. io \in IoType
  BY DEF Typed
<1>1. ASSUME NEW e \in Events, Overflow(e) PROVE Kept
  BY <1>0, <1>1 DEF Overflow, IoType
<1>2. ASSUME NEW p \in Procs, SetUp(p) PROVE Kept
  <2>1. CASE Runs(p, "handler") /\ io' = [io EXCEPT !.handler = TRUE]
    BY <1>0, <2>1 DEF IoType
  <2>2. CASE Runs(p, "owner") /\ io' = [io EXCEPT !.owner = TRUE]
    <3>1. \E op \in {"owner"} : Runs(p, op)
      BY <2>2
    <3>2. p = 0
      BY <3>1, StepFacts DEF MainOnly
    <3>. QED
      BY <1>0, <2>2, <3>1, <3>2 DEF IoType
  <2>3. CASE Runs(p, "async") /\ io' = [io EXCEPT !.async = TRUE]
    BY <1>0, <2>3 DEF IoType
  <2>. QED
    BY <1>2, <2>1, <2>2, <2>3 DEF SetUp
<1>3. ASSUME NEW p \in Procs, Raise(p) PROVE Kept
  BY <1>0, <1>3 DEF Raise, IoType
<1>4. ASSUME Deliver PROVE Kept
  BY <1>0, <1>4 DEF Deliver, IoType
<1>5. ASSUME Next, \A p \in Procs : ~SetUp(p) /\ ~Raise(p), \A e \in Events : ~Overflow(e), ~Deliver
      PROVE  io' = io
  BY <1>5 DEF Next, Step, Fails, Succeeds, OpenEvent, MapRing, Unmap, CloseEvent, ReadCounter,
     Passes, IndexArray, Crash, Enable, Disable, DisableStray, SetRefresh, TakeHead,
     DrainRecord, Spin, ForkChild, Wait, Finish
<1>6. CASE UNCHANGED vars
  BY <1>6 DEF vars
<1>. QED
  BY <1>1, <1>2, <1>3, <1>4, <1>5, <1>6

(* Every kind of step keeps SignalsOK.                                     *)
LEMMA SignalsNext ==
  ASSUME Typed, Descriptors, SignalsOK, [Next]_vars
  PROVE  SignalsOK'
<1>. PICK i : i = proc[0].pc
  OBVIOUS
<1>1. /\ io.handler => io'.handler
      /\ io'.owner => io.owner \/ \E op \in {"owner"} : Runs(0, op)
      /\ io'.pending => io.pending \/ io.owner
  BY IoSteps
<1>2. row' = row /\ i \in Nat \ {0} /\ 0 \in Procs /\ Before(i) \subseteq DOMAIN row.main
      /\ Before(i + 1) = Before(i) \cup {i} /\ Code(0) = row.main
  BY SameProg, MainCode DEF Before
<1>3. io'.owner \/ io'.pending => io'.handler
  <2>1. ASSUME NEW op \in {"owner"}, Runs(0, op) PROVE io.handler
    <3>1. i \in DOMAIN row.main /\ row.main[i].op = "owner"
      BY <1>2, <2>1, StepFacts
    <3>2. \E j \in Before(i) : row.main[j].op = "handler"
      BY <3>1, HarmAssumption DEF Typed, row
    <3>. QED
      BY <3>2 DEF SignalsOK
  <2>. QED
    BY <1>1, <2>1 DEF SignalsOK
<1>. DEFINE Rest == /\ \A j \in Before(proc'[0].pc) : row.main[j].op = "handler" => io'.handler
                    /\ proc'[0].state = "killed" => proc'[0].smashed
                    /\ proc'[0].state # "none"
<1>4. Rest => SignalsOK'
  BY <1>2, <1>3 DEF SignalsOK
<1>5. ASSUME proc'[0] = proc[0] PROVE Rest
  BY <1>1, <1>5 DEF SignalsOK
<1>6. ASSUME NEW op, Runs(0, op), Sets(0), proc'[0].pc = i + 1, proc'[0].state = "runs" PROVE Rest
  <2>1. row.main[i].op = "handler" => io'.handler
    <3>1. row.main[i].op = op
      <4>1. 0 \in Procs /\ Code(0) = row.main
        BY MainCode
      <4>. QED
        BY <1>6, <4>1, StepFacts
    <3>2. op = "handler" => Runs(0, "handler")
      BY <1>6
    <3>. QED
      BY <1>6, <3>1, <3>2 DEF Sets
  <2>. QED
    BY <1>1, <1>2, <1>6, <2>1 DEF SignalsOK
<1>7. ASSUME NEW p \in Procs, Goes(p), Sets(p), NEW op, Runs(p, op) PROVE Rest
  <2>1. CASE p = 0
    BY <1>6, <1>7, <2>1 DEF Goes
  <2>2. CASE p # 0
    BY <1>2, <1>5, <1>7, <2>2 DEF Goes
  <2>. QED
    BY <2>1, <2>2
<1>8. ASSUME NEW p \in Procs, Moves(p) PROVE Rest
  BY <1>7, <1>8 DEF Moves
<1>9. ASSUME NEW p \in Procs, OpenEvent(p) PROVE Rest
  <2>1. Goes(p) /\ \E op \in {"open"} : Runs(p, op)
    BY <1>9, OpenFacts
  <2>. QED
    BY <1>7, <2>1, Parts
<1>10. ASSUME NEW p \in Procs, CloseEvent(p) PROVE Rest
  <2>1. Goes(p) /\ \E op \in {"close"} : Runs(p, op)
    BY <1>10, CloseFacts
  <2>. QED
    BY <1>7, <2>1, Parts
<1>11. ASSUME NEW p \in Procs, Dies(p) PROVE Rest
  <2>1. PICK s \in {"done", "failed", "killed"} :
          /\ Ends(p, s)
          /\ s = "killed" => proc[p].smashed \/ (io.pending /\ ~io.handler)
    BY <1>11 DEF Dies
  <2>2. CASE p = 0
    <3>1. /\ proc'[0].state = s /\ proc'[0].pc = i
          /\ proc'[0].smashed = proc[0].smashed
      BY <2>1, <2>2, EndsFacts
    <3>2. s = "killed" => proc'[0].smashed
      BY <2>1, <2>2, <3>1 DEF SignalsOK
    <3>. QED
      BY <1>1, <3>1, <3>2 DEF SignalsOK
  <2>3. CASE p # 0
    BY <1>2, <1>5, <2>1, <2>3, EndsFacts
  <2>. QED
    BY <2>2, <2>3
<1>12. ASSUME NEW p \in Procs, ForkChild(p) PROVE Rest
  <2>1. /\ p = 0 /\ proc'[0] = [proc[0] EXCEPT !.pc = i + 1] /\ proc[0].state = "runs"
        /\ \E op \in {"fork"} : Runs(0, op)
    BY <1>12, ForkFacts DEF ForkChild
  <2>2. proc'[0].pc = i + 1 /\ proc'[0].state = "runs"
    <3>1. i + 1 \in Nat \ {0} /\ proc[0] \in ProcType
      BY <1>2 DEF Typed
    <3>2. \A m \in Nat \ {0} : /\ [proc[0] EXCEPT !.pc = m].pc = m
                              /\ [proc[0] EXCEPT !.pc = m].state = proc[0].state
      BY <3>1 DEF ProcType
    <3>. QED
      BY <2>1, <3>1, <3>2
  <2>. QED
    BY <1>2, <1>6, <2>1, <2>2, Parts
<1>13. ASSUME NEW e \in Events, Overflow(e) PROVE Rest
  BY <1>5, <1>13, OverflowKept
<1>. HIDE DEF Rest
<1>. QED
  BY <1>4, <1>5, <1>8, <1>9, <1>10, <1>11, <1>12, <1>13, StepKinds

-----------------------------------------------------------------------------
(* The buffer.                                                             *)

LEMMA DrainRow ==
  ASSUME Typed, Drains(row.main)
  PROVE  /\ \A i \in DOMAIN row.main :
              /\ row.main[i].op \notin {"fork", "raise"}
              /\ row.main[i].op = "open" => row.main[i].ev = 1
              /\ row.main[i].op = "snapshot" => QuietAt(row.main, i)
              /\ row.main[i].op = "drain" => \E j \in Before(i) : row.main[j].op = "snapshot"
         /\ prog \notin Mislabelled =>
              \A i, j \in DOMAIN row.main : row.main[i].op = "drain" /\ row.main[j].op = "open" =>
                \A fields \in Samples(row.main[j].with) : Fits(row.main[i], fields)
  BY DrainAssumption DEF Typed, row

(* Who drains has no children.                                             *)
LEMMA NoOthers ==
  ASSUME Typed, Children, Drains(row.main), NEW p \in Procs, proc[p].state = "runs"
  PROVE  p = 0
<1>1. \A f \in Before(proc[0].pc) : row.main[f].op # "fork"
  BY DrainRow, MainCode
<1>2. \A k \in Kids : proc[k].state = "none"
  BY <1>1 DEF Children
<1>3. p \notin Kids
  BY <1>2
<1>. QED
  BY <1>3 DEF Kids

LEMMA QuietMono ==
  ASSUME NEW c, NEW i \in Nat, NEW k \in Nat, i <= k, QuietAt(c, i)
  PROVE  QuietAt(c, k)
<1>1. Before(i) \subseteq Before(k)
  BY DEF Before
<1>. QED
  BY <1>1 DEF QuietAt

(* Behind the step that turns the event off for good there is none that    *)
(* turns it on again.                                                      *)
LEMMA QuietFacts ==
  ASSUME Typed, Drains(row.main), NEW i, i = proc[0].pc, QuietAt(row.main, i),
         i \in DOMAIN row.main
  PROVE  row.main[i].op \notin {"open", "on", "on group", "refresh", "raise", "fork"}
<1>1. DOMAIN row.main = 1..Len(row.main) /\ Len(row.main) \in Nat
  BY MainCode
<1>2. PICK j \in Before(i) :
        \A k \in (j + 1)..Len(row.main) :
          row.main[k].op \notin {"open", "on", "on group", "refresh"}
  BY DEF QuietAt
<1>3. i \in (j + 1)..Len(row.main)
  <2>1. i \in Nat /\ i <= Len(row.main)
    BY <1>1
  <2>2. j \in 1..(i - 1)
    BY <1>2 DEF Before
  <2>. QED
    BY <1>1, <2>1, <2>2
<1>. QED
  BY <1>2, <1>3, DrainRow

(* What a drainer has behind the step it takes.                            *)
Quiet ==
  Drains(row.main) =>
    /\ \A e \in Events \ {1} : event[e].fds = {}
    /\ QuietAt(row.main, proc[0].pc) => ~event[1].on
    /\ \A j \in Before(proc[0].pc) : row.main[j].op = "snapshot" => proc[0].head = ring.head

LEMMA QuietStays ==
  ASSUME Typed, Quiet, [Next]_vars, proc'[0].pc = proc[0].pc, proc'[0].head = proc[0].head,
         ring'.head = ring.head,
         \A e \in Events : event'[e].fds \subseteq event[e].fds /\ (event'[e].on => event[e].on)
  PROVE  Quiet'
<1>1. row' = row /\ 1 \in Events
  BY SameProg DEF Events
<1>. QED
  BY <1>1 DEF Quiet

LEMMA QuietGoes ==
  ASSUME Typed, Quiet, [Next]_vars, NEW i, i = proc[0].pc, NEW op, Runs(0, op),
         proc'[0].pc = i + 1, ring'.head = ring.head,
         \A e \in Events \ {1} : event'[e].fds \subseteq event[e].fds,
         QuietAt(row.main, i) /\ Drains(row.main) => (event'[1].on => event[1].on),
         Runs(0, "off") /\ At(0).ev = 1 => ~event'[1].on,
         IF Runs(0, "snapshot") THEN proc'[0].head = ring.head ELSE proc'[0].head = proc[0].head
  PROVE  Quiet'
<1>. SUFFICES ASSUME Drains(row.main)
              PROVE  /\ \A e \in Events \ {1} : event'[e].fds = {}
                     /\ QuietAt(row.main, i + 1) => ~event'[1].on
                     /\ \A j \in Before(i + 1) :
                          row.main[j].op = "snapshot" => proc'[0].head = ring.head
  BY SameProg DEF Quiet
<1>1. /\ i \in Nat \ {0} /\ At(0) = row.main[i] /\ At(0).op = op
      /\ Before(i + 1) = Before(i) \cup {i}
  <2>1. i \in Nat \ {0} /\ 0 \in Procs /\ Code(0) = row.main
    BY MainCode
  <2>2. At(0) = row.main[i] /\ At(0).op = op
    BY <2>1, StepFacts
  <2>3. Before(i + 1) = Before(i) \cup {i}
    BY <2>1 DEF Before
  <2>. QED
    BY <2>1, <2>2, <2>3
<1>2. \A e \in Events \ {1} : event'[e].fds = {}
  BY DEF Quiet
<1>3. ASSUME QuietAt(row.main, i + 1) PROVE ~event'[1].on
  <2>1. CASE QuietAt(row.main, i)
    BY <2>1 DEF Quiet
  <2>2. CASE row.main[i].op = "off" /\ row.main[i].ev = 1
    <3>1. Runs(0, "off")
      BY <1>1, <2>2 DEF Runs
    <3>. QED
      BY <1>1, <2>2, <3>1
  <2>. QED
    BY <1>1, <1>3, <2>1, <2>2 DEF QuietAt
<1>4. ASSUME NEW j \in Before(i + 1), row.main[j].op = "snapshot"
      PROVE  proc'[0].head = ring.head
  <2>1. CASE j = i
    <3>1. Runs(0, "snapshot")
      BY <1>1, <1>4, <2>1 DEF Runs
    <3>. QED
      BY <3>1
  <2>2. CASE j \in Before(i)
    BY <1>4, <2>2 DEF Quiet
  <2>. QED
    BY <1>1, <2>1, <2>2
<1>. QED
  BY <1>2, <1>3, <1>4

LEMMA QuietNext ==
  ASSUME Typed, Descriptors, Children, Quiet, [Next]_vars, ring'.head = ring.head
  PROVE  Quiet'
<1>. PICK i : i = proc[0].pc
  OBVIOUS
<1>0. SUFFICES ASSUME Drains(row.main) PROVE Quiet'
  BY SameProg DEF Quiet
<1>1. i \in Nat \ {0} /\ 0 \in Procs /\ 1 \in Events
  BY MainCode DEF Events
<1>2. CASE UNCHANGED <<proc, event>>
  BY <1>2, QuietStays
<1>3. ASSUME NEW p \in Procs, Moves(p) PROVE Quiet'
  <2>1. p = 0 /\ Goes(0) /\ EventsKept /\ Reads(0) /\ Switches(0)
    <3>1. proc[p].state = "runs"
      BY <1>3 DEF Moves, Goes
    <3>2. p = 0
      BY <1>0, <3>1, NoOthers
    <3>. QED
      BY <1>3, <3>2 DEF Moves
  <2>2. PICK op : Runs(0, op) /\ op \notin {"open", "close", "fork"}
    BY <1>3, <2>1 DEF Moves
  <2>3. At(0) = row.main[i] /\ At(0).op = op /\ i \in DOMAIN row.main
    BY <1>1, <2>2, MainCode, StepFacts
  <2>4. QuietAt(row.main, i) => (event'[1].on => event[1].on)
    <3>1. SUFFICES ASSUME QuietAt(row.main, i) PROVE event'[1].on => event[1].on
      OBVIOUS
    <3>2. \A o \in {"on", "on group", "refresh", "raise"} : ~Runs(0, o)
      BY <1>0, <2>3, <3>1, QuietFacts DEF Runs
    <3>. QED
      BY <1>1, <2>1, <3>2 DEF Switches
  <2>5. Runs(0, "off") /\ At(0).ev = 1 => ~event'[1].on
    <3>1. At(0).ev = 1 => Ev(0) = 1
      BY DEF Ev
    <3>2. PICK o : o = Ev(0)
      OBVIOUS
    <3>3. Runs(0, "off") => ~event'[o].on
      BY <2>1, <3>2 DEF Switches
    <3>. QED
      BY <3>1, <3>2, <3>3
  <2>6. IF Runs(0, "snapshot") THEN proc'[0].head = ring.head ELSE proc'[0].head = proc[0].head
    BY <2>1 DEF Reads
  <2>7. \A e \in Events : event'[e].fds \subseteq event[e].fds
    BY <2>1 DEF EventsKept, SameOpening
  <2>. QED
    BY <2>1, <2>2, <2>4, <2>5, <2>6, <2>7, QuietGoes DEF Goes
<1>4. ASSUME NEW p \in Procs, OpenEvent(p) PROVE Quiet'
  <2>1. /\ p = 0 /\ Goes(0) /\ proc'[0].head = proc[0].head
        /\ \A d \in Events \ {Ev(0)} : event'[d].fds = event[d].fds
        /\ \E op \in {"open"} : Runs(0, op)
    <3>1. Goes(p)
      BY <1>4, OpenFacts
    <3>2. p = 0
      <4>1. proc[p].state = "runs"
        BY <3>1 DEF Goes
      <4>. QED
        BY <1>0, <4>1, NoOthers
    <3>. QED
      BY <1>4, <3>1, <3>2, OpenFacts DEF SameOpening
  <2>2. At(0) = row.main[i] /\ At(0).op = "open" /\ i \in DOMAIN row.main
    BY <1>1, <2>1, MainCode, StepFacts
  <2>3. Ev(0) = 1
    BY <1>0, <2>2, DrainRow DEF Ev
  <2>4. ~QuietAt(row.main, i)
    BY <1>0, <2>2, QuietFacts
  <2>5. ~Runs(0, "off") /\ ~Runs(0, "snapshot")
    BY <2>2 DEF Runs
  <2>. QED
    BY <2>1, <2>3, <2>4, <2>5, QuietGoes DEF Goes
<1>5. ASSUME NEW p \in Procs, CloseEvent(p) PROVE Quiet'
  <2>1. PICK o \in Events :
        /\ p = 0 /\ Goes(0) /\ proc'[0].head = proc[0].head
        /\ event'[o].fds # {} => event'[o] = [event[o] EXCEPT !.fds = event[o].fds \ {p}]
        /\ event'[o].fds = event[o].fds \ {p}
        /\ event'[o].fds = {} => ~event'[o].on
        /\ \A d \in Events \ {o} : event'[d] = event[d]
        /\ \E op \in {"close"} : Runs(0, op)
    <3>1. Goes(p) /\ \E op \in {"close"} : Runs(p, op)
      BY <1>5, CloseFacts
    <3>2. p = 0
      <4>1. proc[p].state = "runs"
        BY <3>1 DEF Goes
      <4>. QED
        BY <1>0, <4>1, NoOthers
    <3>3. Ev(p) \in Events
      BY <3>1, EvFacts DEF EventOps
    <3>. QED
      BY <1>5, <3>1, <3>2, <3>3, CloseFacts
  <2>2. \A e \in Events : event'[e].fds \subseteq event[e].fds /\ (event'[e].on => event[e].on)
    BY <2>1 DEF Typed, EventType
  <2>3. ~Runs(0, "off") /\ ~Runs(0, "snapshot")
    BY <2>1 DEF Runs
  <2>. QED
    BY <1>1, <2>1, <2>2, <2>3, QuietGoes DEF Goes
<1>6. ASSUME NEW p \in Procs, Dies(p) PROVE Quiet'
  <2>1. PICK s \in {"done", "failed", "killed"} : Ends(p, s)
    BY <1>6 DEF Dies
  <2>2. p = 0
    <3>1. proc[p].state = "runs"
      BY <1>6 DEF Dies
    <3>. QED
      BY <1>0, <3>1, NoOthers
  <2>3. /\ proc'[0].pc = proc[0].pc /\ proc'[0].head = proc[0].head
        /\ \A e \in Events :
              /\ event'[e].fds = event[e].fds \ {p}
              /\ event'[e].fds # {} => event'[e] = [event[e] EXCEPT !.fds = event[e].fds \ {p}]
              /\ event'[e].fds = {} => ~event'[e].on
    BY <2>1, <2>2, EndsFacts
  <2>4. ASSUME NEW e \in Events
        PROVE  event'[e].fds \subseteq event[e].fds /\ (event'[e].on => event[e].on)
    <3>1. event[e] \in EventType
      BY DEF Typed
    <3>. QED
      BY <2>3, <3>1 DEF EventType
  <2>. QED
    BY <2>3, <2>4, QuietStays
<1>7. ASSUME NEW p \in Procs, ForkChild(p) PROVE FALSE
  <2>1. i \in DOMAIN row.main /\ row.main[i].op = "fork"
    BY <1>7, ForkFacts
  <2>. QED
    BY <1>0, <2>1, DrainRow
<1>8. ASSUME NEW e \in Events, Overflow(e) PROVE Quiet'
  <2>1. \A d \in Events : event'[d].fds \subseteq event[d].fds /\ (event'[d].on => event[d].on)
    BY <1>8, OverflowKept DEF EventsKept, SameOpening
  <2>. QED
    BY <1>8, <2>1, OverflowKept, QuietStays
<1>. QED
  BY <1>2, <1>3, <1>4, <1>5, <1>6, <1>7, <1>8, StepKinds

(* The records that are there, and what they hold.                         *)
Fields ==
  Drains(row.main) => \A i \in DOMAIN ring.recs :
    ring.recs[i].fields = <<>> \/
    \E j \in DOMAIN row.main :
      row.main[j].op = "open" /\ ring.recs[i].fields \in Samples(row.main[j].with)

Taken == ring.tail # 0 => Drains(row.main) /\ QuietAt(row.main, proc[0].pc)

LEMMA RingParts ==
  RingOK <=> Chain(ring) /\ ring.head < RingWords /\ Taken /\ Quiet /\ Fields
  BY DEF RingOK, Taken, Quiet, Fields

LEMMA PcGrows ==
  ASSUME Typed, Descriptors, [Next]_vars
  PROVE  proc'[0].pc \in Nat /\ proc[0].pc \in Nat /\ proc[0].pc <= proc'[0].pc
<1>1. PICK i \in Nat : i = proc[0].pc /\ 0 \in Procs
  BY MainCode
<1>2. ASSUME NEW p \in Procs, Goes(p) PROVE proc'[0].pc \in {i, i + 1}
  BY <1>1, <1>2 DEF Goes
<1>3. ASSUME NEW p \in Procs, Dies(p) PROVE proc'[0].pc = i
  <2>1. PICK s \in {"done", "failed", "killed"} : Ends(p, s)
    BY <1>3 DEF Dies
  <2>. QED
    BY <1>1, <2>1, EndsFacts
<1>4. ASSUME NEW p \in Procs, ForkChild(p) PROVE proc'[0].pc = i + 1
  <2>1. proc'[0] = [proc[0] EXCEPT !.pc = i + 1]
    BY <1>1, <1>4, ForkFacts
  <2>2. PICK k : k = i + 1
    OBVIOUS
  <2>3. proc'[0].pc = k
    BY <1>1, <2>1, <2>2 DEF Typed, ProcType
  <2>. QED
    BY <2>2, <2>3
<1>5. ASSUME NEW e \in Events, Overflow(e) PROVE proc'[0].pc = i
  BY <1>1, <1>5, OverflowKept
<1>6. proc'[0].pc \in {i, i + 1}
  BY <1>1, <1>2, <1>3, <1>4, <1>5, StepKinds, OpenFacts, CloseFacts DEF Moves
<1>. QED
  BY <1>1, <1>6

LEMMA TakenStays ==
  ASSUME Typed, Descriptors, [Next]_vars, Taken, ring'.tail = ring.tail
  PROVE  Taken'
<1>1. QuietAt(row.main, proc[0].pc) => QuietAt(row.main, proc'[0].pc)
  BY PcGrows, QuietMono
<1>. QED
  BY <1>1, SameProg DEF Taken

(* Nobody adds or takes a record.                                          *)
LEMMA RingKept ==
  ASSUME Typed, Descriptors, Children, RingOK, [Next]_vars,
         ring'.head = ring.head, ring'.tail = ring.tail, ring'.recs = ring.recs
  PROVE  RingOK'
<1>1. Chain(ring)'
  BY RingParts DEF Chain, Bound
<1>2. Taken' /\ Quiet'
  BY RingParts, TakenStays, QuietNext
<1>3. Fields'
  BY RingParts, SameProg DEF Fields
<1>4. ring'.head < RingWords
  BY RingParts
<1>. QED
  BY <1>1, <1>2, <1>3, <1>4 DEF RingOK, Taken, Quiet, Fields

(* An event that counts finds nothing taken out yet.                       *)
LEMMA RingWritten ==
  ASSUME Typed, Descriptors, Opened, Children, RingOK, [Next]_vars, UNCHANGED proc,
         NEW e \in Events, Overflow(e), event[e].fds # {}, event[e].on,
         NEW fields \in Samples(event[e].with), ring' = Written(ring, fields)
  PROVE  RingOK' /\ ring' \in RingType
<1>. PICK i : i = proc[0].pc
  OBVIOUS
<1>1. fields \in Seq(Labels) /\ ring \in RingType
  BY SamplesTypes DEF Typed, EventType
<1>2. /\ ring' \in RingType /\ Chain(ring') /\ ring'.tail = ring.tail
      /\ ring'.head = ring.head \/ ring'.head - ring'.tail < RingWords
      /\ \A k \in DOMAIN ring'.recs :
           \/ k \in DOMAIN ring.recs /\ ring'.recs[k] = ring.recs[k]
           \/ ring'.recs[k].fields \in {<<>>, fields}
  BY <1>1, RingParts, WrittenFacts
<1>3. Drains(row.main) => e = 1 /\ ~QuietAt(row.main, i)
  BY RingParts DEF Quiet
<1>4. ring.tail = 0
  BY <1>3, RingParts DEF Taken
<1>5. ring'.head < RingWords
  BY <1>2, <1>4, RingParts DEF RingType
<1>6. Quiet'
  <2>1. SUFFICES ASSUME Drains(row.main)
                 PROVE  /\ \A d \in Events \ {1} : event'[d].fds = {}
                        /\ ~QuietAt(row.main, i)
                        /\ \A j \in Before(i) : row.main[j].op # "snapshot"
    BY SameProg DEF Quiet
  <2>2. \A d \in Events \ {1} : event'[d].fds = {}
    BY <2>1, RingParts, OverflowKept DEF EventsKept, SameOpening, Quiet
  <2>3. ASSUME NEW j \in Before(i), row.main[j].op = "snapshot" PROVE FALSE
    <3>1. j \in DOMAIN row.main /\ i \in Nat /\ j \in Nat /\ j <= i
      BY MainCode DEF Before
    <3>2. QuietAt(row.main, j)
      BY <2>1, <2>3, <3>1, DrainRow
    <3>. QED
      BY <1>3, <2>1, <3>1, <3>2, QuietMono
  <2>. QED
    BY <1>3, <2>1, <2>2, <2>3
<1>7. Fields'
  <2>1. SUFFICES ASSUME Drains(row.main), NEW k \in DOMAIN ring'.recs,
                        ring'.recs[k].fields = fields
                 PROVE  \E j \in DOMAIN row.main :
                          row.main[j].op = "open" /\ fields \in Samples(row.main[j].with)
    BY <1>2, RingParts, SameProg DEF Fields
  <2>2. e = 1 /\ Opener(1) = 0
    BY <1>3, <2>1 DEF Opener
  <2>3. PICK j \in DOMAIN Code(0) : Opens(Code(0)[j], Name(e)) /\ event[e].with = Code(0)[j].with
    BY <2>2, OpenedHow
  <2>. QED
    BY <2>3, MainCode DEF Opens
<1>. QED
  BY <1>2, <1>4, <1>5, <1>6, <1>7 DEF RingOK, Quiet, Fields

(* Main takes a record out.                                                *)
LEMMA RingDrained ==
  ASSUME Typed, Descriptors, Children, RingOK, Runs(0, "drain"), proc[0].head # ring.tail
  PROVE  /\ proc[0].pc \in DOMAIN row.main /\ At(0) = row.main[proc[0].pc] /\ At(0).op = "drain"
         /\ Drains(row.main) /\ QuietAt(row.main, proc[0].pc)
         /\ proc[0].head = ring.head /\ ring.tail # ring.head /\ ring \in RingType /\ Chain(ring)
<1>. PICK i : i = proc[0].pc
  OBVIOUS
<1>1. i \in DOMAIN row.main /\ At(0) = row.main[i] /\ row.main[i].op = "drain"
  BY MainCode, StepFacts
<1>2. Drains(row.main)
  BY <1>1 DEF Drains
<1>3. PICK j \in Before(i) : row.main[j].op = "snapshot"
  BY <1>1, <1>2, DrainRow
<1>4. j \in DOMAIN row.main /\ i \in Nat /\ j \in Nat /\ j <= i
  BY <1>3, MainCode DEF Before
<1>5. QuietAt(row.main, i)
  BY <1>2, <1>3, <1>4, DrainRow, QuietMono
<1>6. proc[0].head = ring.head
  BY <1>2, <1>3, RingParts DEF Quiet
<1>. QED
  BY <1>1, <1>2, <1>5, <1>6, RingParts DEF Typed

LEMMA RingNext ==
  ASSUME Typed, Descriptors, Opened, Children, RingOK, [Next]_vars
  PROVE  RingOK' /\ ring' \in RingType
<1>0. ring \in RingType
  BY DEF Typed
<1>1. CASE ring' = ring
  BY <1>0, <1>1, RingKept
<1>2. ASSUME NEW n \in Nat, ring' = [ring EXCEPT !.pages = n] PROVE RingOK' /\ ring' \in RingType
  <2>1. /\ ring' \in RingType /\ ring'.head = ring.head
        /\ ring'.tail = ring.tail /\ ring'.recs = ring.recs
    BY <1>0, <1>2 DEF RingType
  <2>. QED
    BY <2>1, RingKept
<1>3. ASSUME UNCHANGED <<proc, event>>, Runs(0, "drain"), proc[0].head # ring.tail,
             ring' = [ring EXCEPT !.tail = @ + Head(ring.recs).size, !.recs = Tail(@)]
      PROVE  RingOK' /\ ring' \in RingType
  <2>1. /\ Drains(row.main) /\ QuietAt(row.main, proc[0].pc)
        /\ ring.tail # ring.head /\ ring \in RingType /\ Chain(ring)
    BY <1>3, RingDrained
  <2>2. /\ ring' \in RingType /\ Chain(ring') /\ ring'.head = ring.head /\ ring'.tail # 0
        /\ \A i \in DOMAIN ring'.recs : i + 1 \in DOMAIN ring.recs /\ ring'.recs[i] = ring.recs[i + 1]
    <3>1. ring' = Popped(ring)
      BY <1>3 DEF Popped
    <3>. QED
      BY <2>1, <3>1, TakenFacts
  <2>3. Quiet'
    BY <2>2, RingParts, QuietNext
  <2>4. Taken'
    BY <1>3, <2>1, SameProg DEF Taken
  <2>5. Fields'
    BY <2>2, RingParts, SameProg DEF Fields
  <2>6. ring'.head < RingWords
    BY <2>2, RingParts
  <2>. QED
    BY <2>2, <2>3, <2>4, <2>5, <2>6 DEF RingOK, Taken, Quiet, Fields
<1>. QED
  BY <1>1, <1>2, <1>3, RingWritten, RingKinds DEF RingSteps

-----------------------------------------------------------------------------
(* The invariant.                                                          *)

LEMMA TypedNext ==
  ASSUME Typed, Descriptors, Opened, Children, RingOK, [Next]_vars
  PROVE  Typed'
<1>1. /\ proc' \in [Procs -> ProcType] /\ event' \in [Events -> EventType]
      /\ \A p \in Procs : proc'[p].pc <= Len(Code(p)) + 1
  BY PcNext
<1>2. ring' \in RingType /\ io' \in IoType
  BY RingNext, IoNext
<1>3. prog' \in DOMAIN PerfPrograms /\ \A p \in Procs : Code(p)' = Code(p)
  BY SameProg DEF Typed
<1>. QED
  BY <1>1, <1>2, <1>3 DEF Typed

(* Nothing has happened at the first steps.                                *)
LEMMA FirstStep ==
  /\ Before(1) = {}
  /\ \A c, e : ~HeldAt(c, {}, e, 1) /\ ~TurnedOn(c, e, 1)
  /\ \A c : ~WaitedAt(c, 1) /\ ~QuietAt(c, 1)
  /\ \A r, c, p, v : ~ReadBefore(r, c, p, v, 1)
<1>1. Before(1) = {}
  BY DEF Before
<1>. QED
  BY <1>1 DEF HeldAt, TurnedOn, WaitedAt, QuietAt, ReadBefore

LEMMA InitTyped ==
  ASSUME Init
  PROVE  /\ Typed
         /\ \A p \in Procs :
              /\ proc[p].state = IF p = 0 THEN "runs" ELSE "none"
              /\ proc[p].pc = 1 /\ ~proc[p].smashed /\ proc[p].head = 0
              /\ proc[p].vals = [v \in 1..5 |-> "unset"]
         /\ \A e \in Events : event[e].fds = {} /\ ~event[e].on /\ ~event[e].ran
<1>1. /\ Born \in ProcType /\ Born.state = "none" /\ Born.pc = 1 /\ ~Born.smashed
      /\ Born.head = 0 /\ Born.vals = [v \in 1..5 |-> "unset"]
  BY DEF ProcType, Born, Values, ValsType, States
<1>2. PICK b : b = Born
  OBVIOUS
<1>3. PICK m : m = [b EXCEPT !.state = "runs"]
  OBVIOUS
<1>4. /\ m \in ProcType /\ m.state = "runs" /\ m.pc = 1 /\ ~m.smashed /\ m.head = 0
      /\ m.vals = [v \in 1..5 |-> "unset"]
  BY <1>1, <1>2, <1>3 DEF ProcType, States
<1>5. proc = [p \in Procs |-> IF p = 0 THEN m ELSE b]
  BY <1>2, <1>3 DEF Init
<1>6. /\ proc \in [Procs -> ProcType]
      /\ \A p \in Procs :
           /\ proc[p].state = IF p = 0 THEN "runs" ELSE "none"
           /\ proc[p].pc = 1 /\ ~proc[p].smashed /\ proc[p].head = 0
           /\ proc[p].vals = [v \in 1..5 |-> "unset"]
  BY <1>1, <1>2, <1>4, <1>5
<1>7. NoEvent \in EventType /\ NoEvent.fds = {} /\ ~NoEvent.on /\ ~NoEvent.ran
  BY BoundsAssumption DEF NoEvent, EventType
<1>8. /\ event \in [Events -> EventType]
      /\ \A e \in Events : event[e].fds = {} /\ ~event[e].on /\ ~event[e].ran
  BY <1>7 DEF Init
<1>9. ring \in RingType /\ io \in IoType
  BY BoundsAssumption DEF Init, RingType, IoType
<1>10. prog \in DOMAIN PerfPrograms
  BY DEF Init
<1>11. \A p \in Procs : Len(Code(p)) \in Nat
  <2>1. StepsAssumption
    BY StepsAssumption
  <2>2. row \in Rows
    BY <1>10 DEF row, Rows
  <2>3. \A c : c \in Seq({c[i] : i \in DOMAIN c}) => Len(c) \in Nat
    OBVIOUS
  <2>4. row.main \in Seq({row.main[i] : i \in DOMAIN row.main})
        /\ row.kid \in Seq({row.kid[i] : i \in DOMAIN row.kid})
    BY <2>2, StepsAssumption
  <2>. QED
    BY <2>3, <2>4 DEF Code, row
<1>. QED
  BY <1>6, <1>8, <1>9, <1>10, <1>11 DEF Typed

LEMMA InitOK == Init => IInv
<1>. SUFFICES ASSUME Init PROVE IInv
  OBVIOUS
<1>1. /\ Typed
      /\ \A p \in Procs :
           /\ proc[p].state = IF p = 0 THEN "runs" ELSE "none"
           /\ proc[p].pc = 1 /\ ~proc[p].smashed /\ proc[p].head = 0
           /\ proc[p].vals = [v \in 1..5 |-> "unset"]
      /\ \A e \in Events : event[e].fds = {} /\ ~event[e].on /\ ~event[e].ran
      /\ 0 \in Procs /\ Kids = Procs \ {0} /\ Events # {}
  BY InitTyped DEF Procs, Kids, Events
<1>2. Descriptors
  BY <1>1, FirstStep DEF Descriptors, Holds, Base
<1>3. Opened
  BY <1>1 DEF Opened
<1>4. Children
  BY <1>1, FirstStep DEF Children
<1>5. ValuesOK
  BY <1>1, FirstStep DEF ValuesOK
<1>6. SignalsOK
  <2>1. ~io.owner /\ ~io.pending /\ proc[0].state = "runs" /\ Before(proc[0].pc) = {}
    BY <1>1, FirstStep DEF Init
  <2>. QED
    BY <2>1 DEF SignalsOK
<1>7. RingOK
  <2>1. /\ ring.recs = <<>> /\ ring.head = 0 /\ ring.tail = 0 /\ DOMAIN ring.recs = {}
    BY DEF Init
  <2>2. Chain(ring)
    BY <2>1 DEF Chain, Bound
  <2>. QED
    BY <1>1, <2>1, <2>2, FirstStep, BoundsAssumption DEF RingOK
<1>. QED
  BY <1>1, <1>2, <1>3, <1>4, <1>5, <1>6, <1>7 DEF IInv

LEMMA NextOK == IInv /\ [Next]_vars => IInv'
<1>. SUFFICES ASSUME IInv, [Next]_vars PROVE IInv'
  OBVIOUS
<1>1. Typed /\ Descriptors /\ Opened /\ Children /\ ValuesOK /\ SignalsOK /\ RingOK
  BY DEF IInv
<1>2. Typed' /\ Descriptors' /\ Opened' /\ Children' /\ ValuesOK' /\ SignalsOK' /\ RingOK'
  BY <1>1, TypedNext, DescriptorsNext, OpenedNext, ChildrenNext, ValuesNext, SignalsNext, RingNext
<1>. QED
  BY <1>2 DEF IInv

LEMMA Invariant == Spec => []IInv
  BY InitOK, NextOK, PTL DEF Spec

-----------------------------------------------------------------------------
(* Theorems.                                                               *)

LEMMA RingTypes ==
  ASSUME Typed, RingOK
  PROVE  /\ ring.head \in Nat /\ ring.tail \in 0 .. ring.head
         /\ ring.head - ring.tail < RingWords /\ ring.lost \in 0..MaxLost
<1>1. ring \in RingType /\ Chain(ring) /\ ring.head < RingWords /\ RingWords \in Nat
  BY BoundsAssumption DEF RingOK, Typed
<1>2. ring.head \in Nat /\ ring.tail \in Nat /\ ring.lost \in 0..MaxLost
  BY <1>1 DEF RingType
<1>3. ring.tail <= ring.head
  <2>1. CASE 1 \in DOMAIN ring.recs
    <3>1. ring.recs[1] \in RecType
      BY <1>1, <2>1 DEF RingType
    <3>2. ring.tail = ring.recs[1].at /\ ring.recs[1].at + ring.recs[1].size <= ring.head
      BY <1>1, <2>1 DEF Chain, Bound
    <3>. QED
      BY <1>2, <3>1, <3>2 DEF RecType
  <2>2. CASE 1 \notin DOMAIN ring.recs
    BY <1>1, <1>2, <2>2 DEF Chain, Bound
  <2>. QED
    BY <2>1, <2>2
<1>. QED
  BY <1>1, <1>2, <1>3

(* Every variable has its type, with buffers and bounds of every size: a   *)
(* process stays within its code, an event that is on is open, and what is *)
(* in the buffer fits into it.                                             *)
THEOREM TypeCorrect == Spec => []TypeOK
<1>1. IInv => TypeOK
  <2>. SUFFICES ASSUME IInv PROVE TypeOK
    OBVIOUS
  <2>1. Typed /\ Opened /\ RingOK
    BY DEF IInv
  <2>2. ASSUME NEW p \in Procs
        PROVE  /\ proc[p].state \in {"none", "runs", "done", "failed", "killed"}
               /\ proc[p].pc \in 1 .. Len(Code(p)) + 1 /\ proc[p].vals \in [1..5 -> Values]
               /\ proc[p].smashed \in BOOLEAN /\ proc[p].head \in Nat
    <3>1. proc[p] \in ProcType /\ proc[p].pc <= Len(Code(p)) + 1 /\ Len(Code(p)) \in Nat
      BY <2>1, CodeTypes DEF Typed
    <3>. QED
      BY <3>1 DEF ProcType, States, ValsType
  <2>3. ASSUME NEW e \in Events
        PROVE  /\ event[e].fds \subseteq Procs /\ event[e].on \in BOOLEAN
               /\ event[e].ran \in BOOLEAN
               /\ event[e].leader \in 0..9 /\ event[e].left \in 0..Refresh
               /\ event[e].on => event[e].fds # {}
    BY <2>1 DEF Typed, EventType, Opened
  <2>4. prog \in DOMAIN PerfPrograms /\ io.count \in 0..5
    BY <2>1 DEF Typed, IoType
  <2>. QED
    BY <2>1, <2>2, <2>3, <2>4, RingTypes DEF TypeOK
<1>. QED
  BY <1>1, Invariant, PTL

(* Only the last of four children, and main in two programs, write behind  *)
(* an array; nobody else is killed, and SIGIO kills no one.                *)
THEOREM HarmIsKnown == Spec => []OnlyKnownHarm
<1>1. IInv => OnlyKnownHarm
  <2>. SUFFICES ASSUME IInv PROVE OnlyKnownHarm
    OBVIOUS
  <2>1. Typed /\ ValuesOK /\ SignalsOK
    BY DEF IInv
  <2>2. ASSUME NEW p \in Procs, proc[p].smashed
        PROVE  p = 4 \/ prog \in {"ctest_perf_event_pending", "ctest_perf_event_min_heap"}
    <3>1. PICK i \in DOMAIN Code(p) : Overrun(Code(p)[i], p)
      BY <2>1, <2>2 DEF ValuesOK
    <3>2. prog \in DOMAIN PerfPrograms
      BY <2>1 DEF Typed
    <3>3. CASE p = 0
      BY <3>1, <3>2, <3>3, HarmAssumption DEF Code
    <3>4. CASE p \in 1..3
      BY <3>1, <3>2, <3>4, HarmAssumption DEF Code
    <3>. QED
      BY <3>3, <3>4 DEF Procs
  <2>. QED
    BY <2>1, <2>2 DEF OnlyKnownHarm, OverrunsAreKnown, NoStraySigio, SignalsOK
<1>. QED
  BY <1>1, Invariant, PTL

(* What is printed has been read, has counted, and nobody adds to it any   *)
(* more, but for what the exceptions in the properties name.               *)
THEOREM CountsAreFinal == Spec => []PrintsFinalCounts
<1>1. ASSUME IInv PROVE PrintedValuesRead /\ CountersRan
  <2>1. Typed /\ ValuesOK /\ prog \in DOMAIN PerfPrograms
    BY <1>1 DEF IInv, Typed
  <2>2. ASSUME NEW p \in Procs, Runs(p, "print"), NEW v \in At(p).vars
        PROVE  /\ v \in 1..5
               /\ prog \notin PrintsUnread => ReadBefore(row, Code(p), p, v, proc[p].pc)
    <3>1. /\ proc[p].pc \in DOMAIN Code(p) /\ At(p) = Code(p)[proc[p].pc]
          /\ At(p).op = "print" /\ StepOK(At(p))
      BY <2>1, <2>2, StepFacts
    <3>2. v \in 1..5
      BY <2>2, <3>1 DEF StepOK
    <3>3. ASSUME prog \notin PrintsUnread PROVE ReadBefore(row, Code(p), p, v, proc[p].pc)
      <4>1. CASE p = 0
        BY <2>1, <2>2, <3>1, <3>3, <4>1, ReadAssumption DEF Code, row
      <4>2. CASE p # 0
        BY <2>1, <2>2, <3>1, <3>3, <4>2, ReadAssumption DEF Code, row, Kids
      <4>. QED
        BY <4>1, <4>2
    <3>. QED
      BY <3>2, <3>3
  <2>3. PrintedValuesRead
    BY <2>1, <2>2 DEF PrintedValuesRead, ValuesOK
  <2>4. CountersRan
    BY <2>1, <2>2 DEF CountersRan, ValuesOK, ReadAtZero
  <2>. QED
    BY <2>3, <2>4
<1>2. ASSUME IInv PROVE TotalsAreFinal
  <2>1. Typed /\ Children
    BY <1>2 DEF IInv
  <2>2. ASSUME NEW i, i = proc[0].pc,
               i = Len(row.main) + 1 \/ (i \in DOMAIN row.main /\ row.main[i].op = "read")
        PROVE  \A k \in Kids : Gone(k)
    <3>1. CASE \E f \in DOMAIN row.main : row.main[f].op = "fork"
      <4>1. WaitedAt(row.main, i)
        BY <2>1, <2>2, <3>1, ProgRow, WaitAssumption
      <4>. QED
        BY <2>1, <2>2, <4>1 DEF Children
    <3>2. CASE ~\E f \in DOMAIN row.main : row.main[f].op = "fork"
      <4>1. \A f \in Before(proc[0].pc) : row.main[f].op # "fork"
        BY <2>1, <3>2, MainCode
      <4>2. \A k \in Kids : proc[k].state = "none"
        BY <2>1, <4>1 DEF Children
      <4>. QED
        BY <4>2 DEF Gone
    <3>. QED
      BY <3>1, <3>2
  <2>3. ASSUME Runs(0, "read") PROVE \A k \in Kids : Gone(k)
    <3>1. proc[0].pc \in DOMAIN row.main /\ row.main[proc[0].pc].op = "read"
      <4>1. PICK op \in {"read"} : Runs(0, op)
        BY <2>3
      <4>. QED
        BY <2>1, <4>1, MainCode, StepFacts
    <3>. QED
      BY <2>2, <3>1
  <2>4. ASSUME proc[0].state = "done" PROVE \A k \in Kids : Gone(k)
    BY <2>1, <2>2, <2>4 DEF Children
  <2>. QED
    BY <2>3, <2>4 DEF TotalsAreFinal
<1>. QED
  BY <1>1, <1>2, Invariant, PTL DEF PrintsFinalCounts

LEMMA SmallMod ==
  ASSUME NEW a \in Nat, NEW m \in Nat \ {0}, a < m
  PROVE  a % m = a
  OBVIOUS

(* What is taken from the buffer is a whole record, which has the fields   *)
(* that are printed for it but in four programs.                           *)
THEOREM LabelsAreRight == Spec => []RecordsAsLabelled
<1>1. ASSUME IInv, Runs(0, "drain"), proc[0].head # ring.tail
      PROVE  /\ prog \in Mislabelled \/
                \A s \in Shown(Head(ring.recs)) : Head(ring.recs).fields # <<>> => s[1] = s[2]
             /\ (Head(ring.recs).at % RingWords) + Head(ring.recs).size <= RingWords
  <2>1. Typed /\ Descriptors /\ Children /\ RingOK
    BY <1>1 DEF IInv
  <2>2. /\ proc[0].pc \in DOMAIN row.main /\ At(0) = row.main[proc[0].pc] /\ At(0).op = "drain"
        /\ Drains(row.main) /\ ring.tail # ring.head /\ ring \in RingType /\ Chain(ring)
    BY <1>1, <2>1, RingDrained
  <2>3. PICK rec : rec = Head(ring.recs) /\ rec = ring.recs[1] /\ 1 \in DOMAIN ring.recs
    BY <2>2, TakenFacts
  <2>4. rec.at + rec.size <= ring.head /\ ring.head < RingWords /\ rec \in RecType
    BY <2>1, <2>2, <2>3 DEF RingOK, Chain, RingType
  <2>5. (rec.at % RingWords) + rec.size <= RingWords
    <3>1. rec.at \in Nat /\ rec.size \in Nat \ {0} /\ ring.head \in Nat /\ RingWords \in Nat \ {0}
      BY <2>2, <2>4, BoundsAssumption DEF RecType, RingType
    <3>2. rec.at % RingWords = rec.at
      BY <2>4, <3>1, SmallMod
    <3>. QED
      BY <2>4, <3>1, <3>2
  <2>6. ASSUME prog \notin Mislabelled, rec.fields # <<>>, NEW s \in Shown(rec)
        PROVE  s[1] = s[2]
    <3>1. PICK j \in DOMAIN row.main :
            row.main[j].op = "open" /\ rec.fields \in Samples(row.main[j].with)
      BY <2>1, <2>2, <2>3, <2>6 DEF RingOK
    <3>2. Fits(At(0), rec.fields)
      BY <2>1, <2>2, <2>6, <3>1, DrainRow
    <3>3. PICK i \in DOMAIN At(0).labels :
            /\ At(0).stated => i <= Len(rec.fields)
            /\ s = <<At(0).labels[i], IF i <= Len(rec.fields) THEN rec.fields[i] ELSE "next">>
      BY <2>6 DEF Shown
    <3>4. i <= Len(rec.fields) /\ At(0).labels[i] = rec.fields[i]
      BY <3>2, <3>3 DEF Fits
    <3>. QED
      BY <3>3, <3>4
  <2>. QED
    BY <2>3, <2>5, <2>6
<1>2. IInv => RecordsAsLabelled
  BY <1>1 DEF RecordsAsLabelled, SamplesAsLabelled, RecordsWhole, Mislabelled
<1>. QED
  BY <1>2, Invariant, PTL

-----------------------------------------------------------------------------
(* Who turns off an event.                                                 *)

(* A counter of the event a process works on is its own, but in three      *)
(* programs.                                                               *)
LEMMA OwnEvent ==
  ASSUME Typed, prog \notin Sharing, NEW p \in Procs,
         NEW op \in EventOps, Runs(p, op)
  PROVE  Ev(p) \in Events /\ Opener(Ev(p)) = p
<1>1. Ev(p) \in Events /\ At(p).ev \in 0..5 /\ (p = 0 => At(p).ev # 0)
  BY EvFacts
<1>2. p # 0 => At(p).ev = 0
  <2>1. /\ proc[p].pc \in DOMAIN Code(p) /\ At(p) = Code(p)[proc[p].pc] /\ At(p).op = op
    BY StepFacts
  <2>2. prog \in DOMAIN PerfPrograms
    BY DEF Typed
  <2>. QED
    BY <2>1, <2>2, OwnersAssumption DEF Code
<1>. QED
  BY <1>1, <1>2 DEF Ev, Opener, Procs

(* The events of a group have one opener.                                  *)
LEMMA GroupOpener ==
  ASSUME Typed, Opened, NEW e \in Events, event[e].fds # {}, NEW m \in Group(event, e)
  PROVE  Opener(m) = Opener(e)
<1>1. m \in Events /\ event[m].fds # {} /\ event[m].leader = event[e].leader
  BY DEF Group
<1>2. PICK q : q = Opener(e) /\ (q = 0 => event[e].leader \in 1..5)
                             /\ (q # 0 => event[e].leader = e)
  BY OpenedHow
<1>3. PICK r : r = Opener(m) /\ (r = 0 => event[m].leader \in 1..5)
                             /\ (r # 0 => event[m].leader = m)
  BY <1>1, OpenedHow
<1>. QED
  BY <1>1, <1>2, <1>3 DEF Opener, Events

(* Who may turn off an event turns off its own.                            *)
LEMMA DisablesOwn ==
  ASSUME Typed, Descriptors, Opened, prog \notin Sharing, NEW p \in Procs,
         Disable(p) \/ DisableStray(p) \/ Raise(p),
         NEW e \in Events, event[e].on, ~event'[e].on
  PROVE  Opener(e) = p
<1>0. \A es \in SUBSET Events, on \in BOOLEAN :
        event' = Switched(es, on) => e \in es
  BY SwitchedFacts DEF SameOpening
<1>1. CASE Raise(p)
  <2>1. {1} \in SUBSET Events /\ io.paused \in BOOLEAN /\ event' = Switched({1}, io.paused)
    BY <1>1 DEF Raise, Events, Typed, IoType
  <2>2. p = 0
    <3>1. PICK op \in {"raise"} : Runs(p, op)
      BY <1>1 DEF Raise
    <3>. QED
      BY <3>1, StepFacts DEF MainOnly
  <2>. QED
    BY <1>0, <2>1, <2>2 DEF Opener
<1>2. CASE Runs(p, "off") /\ event' = Switched({Ev(p)}, FALSE)
  <2>1. Ev(p) \in Events /\ Opener(Ev(p)) = p
    <3>1. PICK op \in {"off"} : Runs(p, op)
      BY <1>2
    <3>. QED
      BY <3>1, OwnEvent DEF EventOps
  <2>. QED
    BY <1>0, <1>2, <2>1
<1>3. CASE Runs(p, "off group") /\ event' = Switched(Group(event, Ev(p)), FALSE)
  <2>1. Ev(p) \in Events /\ Opener(Ev(p)) = p /\ event[Ev(p)].fds # {}
    <3>1. PICK op \in {"off group"} : Runs(p, op)
      BY <1>3
    <3>. QED
      BY <1>3, <3>1, OwnEvent, HasOn DEF EventOps
  <2>2. e \in Group(event, Ev(p))
    BY <1>0, <1>3, GroupFacts
  <2>. QED
    BY <2>1, <2>2, GroupOpener
<1>4. CASE DisableStray(p)
  <2>1. PICK op \in {"stray off"} : Runs(p, op)
    BY <1>4 DEF DisableStray
  <2>2. /\ p # 0 /\ proc[p].pc \in DOMAIN Code(p) /\ Code(p)[proc[p].pc].op = "stray off"
    BY <2>1, StepFacts
  <2>3. prog \in DOMAIN PerfPrograms
    BY DEF Typed
  <2>. QED
    BY <2>2, <2>3, OwnersAssumption DEF Code
<1>. QED
  BY <1>1, <1>2, <1>3, <1>4 DEF Disable

(* The steps that may turn off an event.                                   *)
LEMMA TurnsOff ==
  ASSUME Typed, Descriptors, [Next]_vars, NEW e \in Events, event[e].on, ~event'[e].on
  PROVE  \/ \E p \in Procs :
              \/ OpenEvent(p) \/ CloseEvent(p) \/ ForkChild(p)
              \/ Disable(p) \/ DisableStray(p) \/ Raise(p)
              \/ proc[p].state = "runs" /\ \E s \in {"done", "failed", "killed"} : Ends(p, s)
         \/ \E o \in Events : Overflow(o)
<1>1. ASSUME NEW p \in Procs, Enable(p) PROVE FALSE
  <2>1. \A es \in SUBSET Events, on \in {TRUE} : event' # Switched(es, on)
    BY SwitchedFacts DEF SameOpening
  <2>2. TRUE \in {TRUE} /\ Group(event, Ev(p)) \in SUBSET Events
    BY GroupFacts
  <2>3. Runs(p, "on") => {Ev(p)} \in SUBSET Events
    BY HasOn
  <2>. QED
    BY <1>1, <2>1, <2>2, <2>3 DEF Enable
<1>2. ASSUME NEW p \in Procs, SetRefresh(p) PROVE FALSE
  <2>1. {Ev(p)} \in SUBSET Events
    BY <1>2, HasOn DEF SetRefresh
  <2>2. \A on \in {TRUE} : Switched({Ev(p)}, on)[e].on
    BY <2>1, SwitchedFacts
  <2>3. Switched({Ev(p)}, TRUE)[e].on
    BY <2>2
  <2>. QED
    BY <1>2, <2>3, RefreshKept
<1>3. event' # event
  OBVIOUS
<1>4. ASSUME NEW p \in Procs, Fails(p) \/ Crash(p) \/ Finish(p)
      PROVE  proc[p].state = "runs" /\ \E s \in {"done", "failed", "killed"} : Ends(p, s)
  BY <1>4 DEF Fails, Crash, Finish, Runs
<1>5. Deliver => 0 \in Procs /\ proc[0].state = "runs"
                 /\ \E s \in {"done", "failed", "killed"} : Ends(0, s)
  BY <1>3 DEF Deliver, Procs
<1>. QED
  BY <1>1, <1>2, <1>3, <1>4, <1>5 DEF Next, vars, Step, Succeeds, MapRing, Unmap, ReadCounter,
     Passes, IndexArray, TakeHead, DrainRecord, SetUp, Spin, Wait

(* What main has closed no child has open.                                 *)
LEMMA MainHolds ==
  ASSUME Typed, Descriptors, Children, NEW e \in Events, e <= 5, proc[0].state = "runs",
         NEW k \in Kids, k \in event[e].fds
  PROVE  0 \in event[e].fds
<1>. PICK c, i : c = row.main /\ i = proc[0].pc
  OBVIOUS
<1>1. k \in Procs /\ k # 0 /\ 0 \in Procs /\ Code(0) = c /\ i \in Nat \ {0} /\ Name(e) = e
  <2>1. k \in Procs /\ k # 0
    BY DEF Kids
  <2>2. Name(e) = e
    BY DEF Name, Events
  <2>. QED
    BY <2>1, <2>2, MainCode
<1>2. proc[k].state = "runs" /\ HeldAt(Code(k), Inherited(row), e, proc[k].pc)
  BY <1>1 DEF Descriptors, Holds, Base
<1>3. PICK f \in Before(i) : c[f].op = "fork"
  BY <1>2 DEF Children
<1>4. e \in Inherited(row)
  <2>1. SUFFICES ASSUME NEW j \in Before(proc[k].pc), Opens(Code(k)[j], e) PROVE FALSE
    BY <1>2 DEF HeldAt
  <2>2. j \in DOMAIN Code(k)
    BY <1>1, CodeTypes DEF Before, Typed, ProcType
  <2>3. Code(k)[j].ev = 0
    BY <1>1, <2>1, <2>2, CodeTypes, RowFacts DEF Opens
  <2>. QED
    BY <2>1, <2>3 DEF Opens, Events
<1>5. f \in DOMAIN c /\ Before(i) \subseteq DOMAIN c
  BY <1>3, MainCode
<1>6. HeldAt(c, {}, e, f)
  BY <1>3, <1>4, <1>5, RowFacts DEF ForksWithAll
<1>7. \A j \in Before(i) : ~Closes(c[j], e)
  <2>1. SUFFICES ASSUME NEW j \in Before(i), Closes(c[j], e) PROVE FALSE
    OBVIOUS
  <2>2. WaitedAt(c, j)
    BY <1>3, <1>5, <2>1, ProgRow, WaitAssumption DEF Closes
  <2>3. WaitedAt(c, i)
    <3>1. Before(j) \subseteq Before(i)
      BY <1>1, <2>1 DEF Before
    <3>. QED
      BY <2>2, <3>1 DEF WaitedAt
  <2>. QED
    BY <1>2, <2>3 DEF Children, Gone
<1>8. HeldAt(c, {}, e, i)
  <2>1. PICK j \in Before(f) : Opens(c[j], e)
    BY <1>6 DEF HeldAt
  <2>2. j \in Before(i) /\ \A l \in (j + 1)..(i - 1) : l \in Before(i)
    BY <1>1, <1>3, <2>1 DEF Before
  <2>. QED
    BY <1>7, <2>1, <2>2 DEF HeldAt
<1>. QED
  BY <1>1, <1>8 DEF Descriptors, Holds, Sees, Base

(* Who opened an event that is on, and still runs, has it open.            *)
LEMMA OpenerHolds ==
  ASSUME Typed, Descriptors, Opened, Children, NEW e \in Events, event[e].fds # {},
         NEW q, q = Opener(e), ~Gone(q)
  PROVE  q \in event[e].fds
<1>1. q \in Procs /\ proc[q].state = "runs" /\ (q = 0 <=> e <= 5) /\ (q # 0 => e = 5 + q)
  <2>1. q \in Procs /\ (q = 0 <=> e <= 5) /\ (q # 0 => e = 5 + q)
    BY DEF Opener, Procs, Events
  <2>. QED
    BY <2>1 DEF Gone, Typed, ProcType, States
<1>2. PICK k \in Procs : k \in event[e].fds
  BY DEF Typed, EventType
<1>3. CASE q = 0
  BY <1>1, <1>2, <1>3, MainHolds DEF Kids
<1>4. CASE q # 0
  <2>1. Sees(k, e)
    BY <1>2 DEF Descriptors, Holds
  <2>2. k = q
    BY <1>1, <1>2, <1>4, <2>1 DEF Sees, Procs, Events
  <2>. QED
    BY <1>2, <2>2
<1>. QED
  BY <1>3, <1>4

(* A step turns off an event of another only in the programs that share    *)
(* descriptors, or when it has overflowed often enough.                    *)
OwnOff(e) ==
  event[e].on /\ ~event'[e].on /\ event[e].left = 0 /\ ~Gone(Opener(e)) =>
    proc[Opener(e)] # proc'[Opener(e)] \/ prog \in Sharing

(* Every kind of step leaves the events of others on.                      *)
LEMMA OwnersNext ==
  ASSUME IInv, [Next]_vars, NEW e \in Events
  PROVE  OwnOff(e)
<1>. PICK q : q = Opener(e)
  OBVIOUS
<1>0. SUFFICES ASSUME event[e].on, ~event'[e].on, event[e].left = 0, ~Gone(q),
                      proc'[q] = proc[q], prog \notin Sharing
               PROVE  FALSE
  BY DEF OwnOff
<1>1. /\ Typed /\ Descriptors /\ Opened /\ Children
      /\ event[e].fds # {} /\ q \in Procs
  BY <1>0, OpenerFacts DEF IInv, Opened
<1>2. q \in event[e].fds
  BY <1>0, <1>1, OpenerHolds
<1>3. ASSUME NEW p \in Procs, Goes(p) PROVE p # q
  BY <1>0, <1>3 DEF Goes, Typed, ProcType
<1>4. ASSUME NEW p \in Procs, OpenEvent(p) PROVE FALSE
  <2>1. PICK o : o = Ev(p)
    OBVIOUS
  <2>2. Opener(o) = p /\ Goes(p)
    BY <1>1, <1>4, <2>1, EvFacts, OpenFacts DEF OpenEvent, EventOps
  <2>3. e # o
    BY <1>3, <2>2
  <2>4. event'[e].on = event[e].on
    BY <1>1, <1>4, <2>1, <2>3, OpenFacts
  <2>. QED
    BY <1>0, <2>4
<1>5. ASSUME NEW p \in Procs, CloseEvent(p) PROVE FALSE
  <2>1. PICK o : o = Ev(p)
    OBVIOUS
  <2>2. Opener(o) = p /\ Goes(p)
    <3>1. PICK op \in {"close"} : Runs(p, op)
      BY <1>5 DEF CloseEvent
    <3>. QED
      BY <1>0, <1>1, <1>5, <2>1, <3>1, OwnEvent, CloseFacts DEF EventOps
  <2>3. e # o
    BY <1>3, <2>2
  <2>4. event'[e] = event[e]
    BY <1>1, <1>5, <2>1, <2>3, CloseFacts
  <2>. QED
    BY <1>0, <2>4
<1>6. ASSUME NEW p \in Procs, proc[p].state = "runs",
             NEW s \in {"done", "failed", "killed"}, Ends(p, s)
      PROVE  FALSE
  <2>1. p # q
    <3>1. proc'[p].state # "runs"
      BY <1>1, <1>6, EndsFacts
    <3>. QED
      BY <1>0, <1>6, <3>1
  <2>2. event'[e].fds # {} /\ event'[e] = [event[e] EXCEPT !.fds = event[e].fds \ {p}]
    BY <1>1, <1>2, <1>6, <2>1, EndsFacts
  <2>. QED
    BY <1>0, <1>1, <2>2 DEF Typed, EventType
<1>7. ASSUME NEW p \in Procs, ForkChild(p) PROVE FALSE
  <2>1. PICK k : k = At(p).n
    OBVIOUS
  <2>2. event'[e] = IF 0 \in event[e].fds
                    THEN [event[e] EXCEPT !.fds = event[e].fds \cup {k}] ELSE event[e]
    BY <1>1, <1>7, <2>1, ForkFacts
  <2>. QED
    BY <1>0, <1>1, <2>2 DEF Typed, EventType
<1>8. ASSUME NEW o \in Events, Overflow(o) PROVE FALSE
  BY <1>0, <1>1, <1>8, OverflowKept
<1>9. ASSUME NEW p \in Procs, Disable(p) \/ DisableStray(p) \/ Raise(p) PROVE FALSE
  <2>1. Goes(p)
    BY <1>1, <1>9, DisableKept, RaiseGoes
  <2>. QED
    BY <1>0, <1>1, <1>3, <1>9, <2>1, DisablesOwn
<1>. QED
  BY <1>0, <1>1, <1>4, <1>5, <1>6, <1>7, <1>8, <1>9, TurnsOff

(* Nobody turns off an event that another process has opened and uses, but *)
(* for the children that share or do not know their descriptor.            *)
THEOREM OwnersDisable == Spec => OnlyOwnerDisables
<1>1. IInv /\ [Next]_vars => \A e \in Events : OwnOff(e)
  BY OwnersNext
<1>2. (\A e \in Events : OwnOff(e)) =>
        \A e \in Events :
          event[e].on /\ ~event'[e].on /\ event[e].left = 0 /\ ~Gone(Opener(e))
          => \/ proc[Opener(e)] # proc'[Opener(e)]
             \/ prog \in {"ctest_perf_event_herit", "ctest_perf_event_pinned",
                          "ctest_perf_event_sync_child"}
  BY DEF OwnOff, Sharing
<1>. QED
  BY <1>1, <1>2, Invariant, PTL DEF Spec, OnlyOwnerDisables
=============================================================================
