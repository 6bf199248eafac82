------------------------ MODULE PtraceProgramsProofs ------------------------
(***************************************************************************)
(* Theorems about PtracePrograms: from the checks of PtraceSource follow   *)
(* the properties of the run.                                              *)
(***************************************************************************)
EXTENDS PtraceSource, FiniteSetTheorems, TLAPS

Calls == Code(prog)
Own   == Done(ChildCode(prog), OwnStops(prog), child.pc)

(* Stops of which the parent has not been told: those under way, and one   *)
(* that has happened.                                                      *)
Untold      == child.state = "stopped" /\ ~child.told
Outstanding == Cardinality(child.pend) + (IF Untold THEN 1 ELSE 0)

ParentType == [state: {"fork", "runs", "done", "failed", "interrupted"}, pc: Nat \ {0},
               status: {"unset", "stopped", "exited"}]
ChildType == [state: {"none", "runs", "stopped", "zombie", "reaped"}, pc: Nat \ {0},
              traced: BOOLEAN, why: Signals \cup {"none"}, told: BOOLEAN,
              pend: SUBSET Signals, in: BOOLEAN]

Typed ==
  /\ prog \in DOMAIN Programs
  /\ parent \in ParentType /\ parent.pc <= End(Calls)
  /\ child \in ChildType /\ child.pc <= Len(ChildCode(prog))
  /\ (child.state = "stopped") = (child.why # "none")
  /\ group \in [dir: BOOLEAN, frozen: BOOLEAN] /\ strays \subseteq {"all", "reaped"}
  /\ parent.state = "fork" => child.state = "none" /\ parent.pc = 1
  /\ child.state = "none" => child.pc = 1 /\ child.pend = {}

(* While the parent runs, the child stops only for signals its parent or   *)
(* it has raised; it stays stopped once wait_for_signal has seen that; and *)
(* so the parent does not get past a wait that comes then.                 *)
Stops ==
  /\ parent.state = "runs" =>
       /\ child.pend \subseteq MaySee(prog, parent.pc)
       /\ child.state = "stopped" => child.why \in MaySee(prog, parent.pc)
  /\ parent.state = "runs" /\ Held(Calls, parent.pc) => child.state = "stopped" /\ child.told
  /\ Reached(Calls, parent.pc)

(* A wait that has returned has been told of a stop, each of them once,    *)
(* and a stop comes from a signal, each of them once; or one has been told *)
(* of the end.                                                             *)
Ledger ==
  parent.state = "runs" /\ Forked =>
    \/ child.state = "reaped"
    \/ Done(Calls, Waits, parent.pc) + Outstanding <= Done(Calls, Sends, parent.pc) + Own

(* When the child has been waited for, and whom a signal may have hit.     *)
Reaps ==
  /\ parent.status = "exited" => child.state = "reaped"
  /\ parent.state = "runs" /\ child.state = "reaped" =>
       MayReap(Calls, parent.pc) \/ P("wait-stop")
  /\ "all" \in strays => parent.state # "fork"
  /\ SignalsReachChild

Freezes ==
  /\ FrozenAt(Calls, parent.pc) => group.frozen
  /\ AddedAt(Calls, parent.pc) /\ Alive => child.in

IInv == Typed /\ Stops /\ Ledger /\ Reaps /\ Freezes

-----------------------------------------------------------------------------
(* What has been done before a call, and what before the next one.         *)

(* A count of calls grows by one with a call that counts.                  *)
LEMMA DoneNext ==
  ASSUME NEW c, NEW ops, NEW i \in Nat \ {0}
  PROVE  /\ Done(c, ops, i) \in Nat
         /\ Done(c, ops, i + 1) = Done(c, ops, i) + (IF c[i].op \in ops THEN 1 ELSE 0)
<1> DEFINE S == {j \in Before(i) : c[j].op \in ops}
           T == {j \in Before(i + 1) : c[j].op \in ops}
<1>1. IsFiniteSet(S) /\ Cardinality(S) \in Nat
  <2>1. IsFiniteSet(Before(i))
    BY FS_Interval DEF Before
  <2>. QED
    BY <2>1, FS_Subset, FS_CardinalityType
<1>2. T = IF c[i].op \in ops THEN S \cup {i} ELSE S
  BY DEF Before
<1>3. i \notin S
  BY DEF Before
<1>4. Cardinality(S \cup {i}) = Cardinality(S) + 1
  BY <1>1, <1>3, FS_AddElement
<1>5. Done(c, ops, i) = Cardinality(S) /\ Done(c, ops, i + 1) = Cardinality(T)
  BY DEF Done
<1>6. CASE c[i].op \in ops
  <2>1. T = S \cup {i}
    BY <1>2, <1>6
  <2>. HIDE DEF S, T
  <2>. QED
    BY <1>1, <1>4, <1>5, <1>6, <2>1
<1>7. CASE c[i].op \notin ops
  <2>1. T = S
    BY <1>2, <1>7
  <2>. HIDE DEF S, T
  <2>. QED
    BY <1>1, <1>5, <1>7, <2>1
<1>. QED
  BY <1>6, <1>7

(* It never gets less.                                                     *)
LEMMA DoneGrows ==
  ASSUME NEW c, NEW ops, NEW i \in Nat \ {0}, NEW k \in Nat, i <= k
  PROVE  Done(c, ops, i) <= Done(c, ops, k)
<1> DEFINE S == {j \in Before(i) : c[j].op \in ops}
           T == {j \in Before(k) : c[j].op \in ops}
<1>1. IsFiniteSet(Before(k))
  BY FS_Interval DEF Before
<1>2. IsFiniteSet(T) /\ S \subseteq T
  BY <1>1, FS_Subset DEF Before
<1>. QED
  BY <1>2, FS_Subset DEF Done

(* Nothing has been done before the first call.                            *)
LEMMA DoneFirst ==
  ASSUME NEW c, NEW ops
  PROVE  Done(c, ops, 1) = 0
<1>1. {j \in Before(1) : c[j].op \in ops} = {}
  BY DEF Before
<1>. QED
  BY <1>1, FS_EmptySet DEF Done

(* A stop that is held at the next call was held, or has just been seen.   *)
LEMMA HeldNext ==
  ASSUME NEW c, NEW i \in Nat \ {0}, Held(c, i + 1)
  PROVE  (Held(c, i) /\ ~Ends1(c[i])) \/ c[i].op = "wait-stop"
<1>1. PICK j \in 1..i : /\ c[j].op = "wait-stop" /\ \A l \in (j + 1)..i : ~Ends1(c[l])
  BY DEF Held, Before
<1>2. CASE j < i
  BY <1>1, <1>2 DEF Held, Before
<1>. QED
  BY <1>1, <1>2

(* The group is frozen before a call if it was before the last, or that    *)
(* has frozen it.                                                          *)
LEMMA FrozenNext ==
  ASSUME NEW c, NEW i \in Nat \ {0}, FrozenAt(c, i + 1)
  PROVE  (FrozenAt(c, i) /\ c[i].op \notin {"thaw", "rmdir"}) \/ c[i].op = "freeze"
<1>1. PICK j \in 1..i : c[j].op = "freeze" /\ \A l \in (j + 1)..i : c[l].op \notin {"thaw", "rmdir"}
  BY DEF FrozenAt, Before
<1>2. CASE j < i
  BY <1>1, <1>2 DEF FrozenAt, Before
<1>. QED
  BY <1>1, <1>2

(* What has been done before a call was done before the last one, or by    *)
(* it.                                                                     *)
LEMMA OthersNext ==
  ASSUME NEW c, NEW i \in Nat \ {0}
  PROVE  /\ AddedAt(c, i + 1) <=> AddedAt(c, i) \/ c[i].op = "add"
         /\ MayReap(c, i + 1) <=> MayReap(c, i) \/ c[i].op \in {"wait", "look"}
         /\ Reached(c, i + 1) <=> Reached(c, i) /\ ~Last(c, i)
<1>1. Before(i + 1) = Before(i) \cup {i}
  BY DEF Before
<1>. QED
  BY <1>1 DEF AddedAt, MayReap, Reached

LEMMA MaySeeNext ==
  ASSUME NEW k, NEW i \in Nat \ {0}
  PROVE  /\ MaySee(k, i) \subseteq MaySee(k, i + 1)
         /\ Code(k)[i].op \in Sends => Signal(Code(k)[i]) \in MaySee(k, i + 1)
<1>1. Before(i + 1) = Before(i) \cup {i}
  BY DEF Before
<1>. QED
  BY <1>1 DEF MaySee

(* Before the first call nothing has been done.                            *)
LEMMA NothingFirst ==
  ASSUME NEW c
  PROVE  ~Held(c, 1) /\ ~FrozenAt(c, 1) /\ ~AddedAt(c, 1) /\ ~MayReap(c, 1) /\ Reached(c, 1)
<1>1. Before(1) = {}
  BY DEF Before
<1>. QED
  BY <1>1 DEF Held, FrozenAt, AddedAt, MayReap, Reached

LEMMA SignalsFinite ==
  IsFiniteSet(Signals)
<1>1. IsFiniteSet({"USR1"} \cup {"STOP"})
  BY FS_Singleton, FS_AddElement
<1>2. IsFiniteSet(({"USR1"} \cup {"STOP"}) \cup {"TRAP"})
  BY <1>1, FS_AddElement
<1>3. IsFiniteSet((({"USR1"} \cup {"STOP"}) \cup {"TRAP"}) \cup {"INT"})
  BY <1>2, FS_AddElement
<1>4. IsFiniteSet(((({"USR1"} \cup {"STOP"}) \cup {"TRAP"}) \cup {"INT"}) \cup {"EVENT"})
  BY <1>3, FS_AddElement
<1>5. Signals = ((({"USR1"} \cup {"STOP"}) \cup {"TRAP"}) \cup {"INT"}) \cup {"EVENT"}
  BY DEF Signals
<1>. QED
  BY <1>4, <1>5

(* How many signals are under way.                                         *)
LEMMA PendCount ==
  ASSUME NEW S \in SUBSET Signals, NEW s
  PROVE  /\ Cardinality(S) \in Nat /\ Cardinality(S \cup {s}) \in Nat
         /\ Cardinality(S \cup {s}) <= Cardinality(S) + 1
         /\ Cardinality(S \ {s}) \in Nat
         /\ Cardinality(S \ {s}) = IF s \in S THEN Cardinality(S) - 1 ELSE Cardinality(S)
         /\ Cardinality({}) = 0 /\ Cardinality({s}) = 1
<1>2. IsFiniteSet(S)
  BY SignalsFinite, FS_Subset
<1>3. IsFiniteSet(S \cup {s}) /\ IsFiniteSet(S \ {s})
  BY <1>2, FS_AddElement, FS_RemoveElement
<1>4. Cardinality(S) \in Nat /\ Cardinality(S \cup {s}) \in Nat /\ Cardinality(S \ {s}) \in Nat
  BY <1>2, <1>3, FS_CardinalityType
<1>5. Cardinality(S \cup {s}) = IF s \in S THEN Cardinality(S) ELSE Cardinality(S) + 1
  BY <1>2, FS_AddElement
<1>6. Cardinality(S \ {s}) = IF s \in S THEN Cardinality(S) - 1 ELSE Cardinality(S)
  BY <1>2, FS_RemoveElement
<1>7. Cardinality({}) = 0 /\ Cardinality({s}) = 1
  BY FS_EmptySet, FS_Singleton
<1>. QED
  BY <1>4, <1>5, <1>6, <1>7

-----------------------------------------------------------------------------
(* Types.                                                                  *)

(* The call the parent is at.                                              *)
LEMMA CallFacts ==
  ASSUME Typed
  PROVE  /\ Len(Calls) \in Nat /\ DOMAIN Calls = 1..Len(Calls) /\ End(Calls) = Len(Calls) + 1
         /\ Len(ChildCode(prog)) \in Nat \ {0}
         /\ \A op : P(op) => /\ parent.state = "runs" /\ parent.pc \in DOMAIN Calls
                             /\ Calls[parent.pc].op = op /\ parent.pc + 1 <= End(Calls)
<1>1. prog \in DOMAIN Programs /\ parent.pc \in Nat \ {0}
  BY DEF Typed, ParentType
<1>2. /\ Len(Calls) \in Nat /\ DOMAIN Calls = 1..Len(Calls)
  BY <1>1, CallsAssumption DEF Calls
<1>3. Len(ChildCode(prog)) \in Nat \ {0}
  <2> DEFINE c == ChildCode(prog)
  <2>1. c \in Seq({c[i] : i \in DOMAIN c}) /\ Len(c) > 0
    BY <1>1, CallsAssumption
  <2>2. Len(c) \in Nat
    BY <2>1
  <2>. QED
    BY <2>1, <2>2
<1>. QED
  BY <1>1, <1>2, <1>3 DEF P, End, Calls, Code

(* The child's record, whatever is sent to it.                             *)
LEMMA SentTypes ==
  ASSUME child \in ChildType, NEW sig \in Signals \cup {"CONT", "KILL"}
  PROVE  /\ Dead \in ChildType /\ Sent(sig) \in ChildType
         /\ Dead.pc = child.pc /\ Sent(sig).pc = child.pc
         /\ Dead.traced = child.traced /\ Dead.in = child.in /\ Sent(sig).in = child.in
         /\ Dead.state = (IF Alive THEN "zombie" ELSE child.state)
         /\ Dead.why = "none" /\ Dead.pend = {} /\ Dead.told = child.told
         /\ ~Alive => Sent(sig) = child
         /\ Alive /\ sig = "KILL" => Sent(sig) = Dead
         /\ Alive /\ sig # "KILL" =>
              /\ Sent(sig).state = child.state /\ Sent(sig).why = child.why
              /\ Sent(sig).told = child.told
              /\ Sent(sig).pend = IF sig = "CONT" THEN child.pend \ {"STOP"}
                                  ELSE child.pend \cup {sig}
  BY DEF ChildType, Dead, Sent, Alive, Signals

(* What the end of its tracer makes of the child.                          *)
LEMMA DetachedTypes ==
  ASSUME NEW c \in ChildType, (c.state = "stopped") = (c.why # "none")
  PROVE  /\ Detached(c) \in ChildType
         /\ Detached(c).pc = c.pc /\ Detached(c).in = c.in /\ Detached(c).told = c.told
         /\ (Detached(c).state = "stopped") = (Detached(c).why # "none")
         /\ c.state # "stopped" => Detached(c).state = c.state /\ Detached(c).pend = c.pend
         /\ c.state = "stopped" => /\ Detached(c).state \in {"stopped", "runs"}
                                   /\ Detached(c).pend \subseteq c.pend \cup {c.why}
                                   /\ Detached(c).why \in {"none", c.why}
  BY DEF ChildType, Detached, Signals

(* What the child is when the parent leaves.                               *)
LEMMA KilledTypes ==
  ASSUME Typed, NEW c, c \in {child, KilledChild, Sent("INT")}
  PROVE  /\ c \in ChildType /\ (c.state = "stopped") = (c.why # "none")
         /\ c.pc = child.pc /\ c.in = child.in
         /\ c.state = "none" <=> child.state = "none"
         /\ c.state \in {"runs", "stopped"} => Alive
         /\ child.state = "reaped" => c.state = "reaped"
         /\ c.state = "none" => c.pend = {}
<1>1. child \in ChildType /\ (child.state = "stopped") = (child.why # "none")
  BY DEF Typed
<1>2. CASE c = child
  BY <1>1, <1>2 DEF Alive, Typed
<1>3. CASE c = KilledChild /\ c # child
  <2>1. c = Dead /\ Alive
    BY <1>1, <1>3, SentTypes DEF KilledChild
  <2>. QED
    BY <1>1, <2>1, SentTypes DEF Alive
<1>4. CASE c = Sent("INT") /\ c # child
  <2>1. Alive /\ c = [child EXCEPT !.pend = @ \cup {"INT"}]
    BY <1>4 DEF Sent
  <2>. QED
    BY <1>1, <2>1 DEF Alive, ChildType, Signals
<1>. QED
  BY <1>2, <1>3, <1>4

Leaves(how) ==
  /\ parent' = [parent EXCEPT !.state = how]
  /\ \E c \in {child, KilledChild, Sent("INT")} : child' = Detached(c)
  /\ strays' \in {strays, strays \cup StrayKill} /\ UNCHANGED <<prog, group>>

(* The parent leaves by an error, by ^C, or at its end.                    *)
LEMMA LeavingTypes ==
  ASSUME Typed, parent.state = "runs", NEW how \in {"done", "failed", "interrupted"},
         Leaves(how)
  PROVE  /\ Typed' /\ parent'.state = how /\ parent'.pc = parent.pc
         /\ parent'.status = parent.status
         /\ child'.pc = child.pc /\ child'.in = child.in
         /\ child'.state = "none" <=> child.state = "none"
         /\ Alive' => Alive
         /\ child.state = "reaped" => child'.state = "reaped"
<1>1. PICK c \in {child, KilledChild, Sent("INT")} : child' = Detached(c)
  BY DEF Leaves
<1>2. /\ c \in ChildType /\ (c.state = "stopped") = (c.why # "none")
      /\ c.pc = child.pc /\ c.in = child.in
      /\ c.state = "none" <=> child.state = "none"
      /\ c.state \in {"runs", "stopped"} => Alive
      /\ child.state = "reaped" => c.state = "reaped"
      /\ c.state = "none" => c.pend = {}
  BY KilledTypes
<1>3. child' \in ChildType /\ (child'.state = "stopped") = (child'.why # "none")
  BY <1>1, <1>2, DetachedTypes
<1>4. /\ child'.pc = child.pc /\ child'.in = child.in
      /\ child'.state = "none" <=> child.state = "none"
      /\ Alive' => Alive
      /\ child.state = "reaped" => child'.state = "reaped"
      /\ child'.state = "none" => child'.pend = {}
  BY <1>1, <1>2, <1>3, DetachedTypes DEF Alive
<1>5. /\ parent' \in ParentType /\ parent'.state = how /\ parent'.pc = parent.pc
      /\ parent'.status = parent.status /\ prog' = prog /\ group' = group
      /\ strays' \subseteq {"all", "reaped"}
  BY DEF Typed, ParentType, Leaves, StrayKill
<1>. QED
  BY <1>3, <1>4, <1>5 DEF Typed, Calls

(* A step in which the parent goes on to its next call.                    *)
Advances(op) ==
  /\ P(op) /\ prog' = prog
  /\ parent' \in ParentType /\ parent'.state = "runs" /\ parent'.pc = parent.pc + 1
  /\ parent'.status # parent.status => op \in Waits

LEMMA PastTypes ==
  ASSUME Typed, NEW op, P(op), prog' = prog, parent' = Past
  PROVE  Advances(op) /\ parent'.status = parent.status
  BY DEF Typed, ParentType, Advances, Past, P

LEMMA ToldTypes ==
  ASSUME Typed, NEW op \in Waits, P(op), prog' = prog, NEW news \in {"stopped", "exited"},
         parent' = [Past EXCEPT !.status = news]
  PROVE  Advances(op) /\ parent'.status = news
<1>1. Past \in ParentType /\ Past.state = "runs" /\ Past.pc = parent.pc + 1
  BY DEF Typed, ParentType, Past, P
<1>. QED
  BY <1>1 DEF ParentType, Advances

LEMMA AdvanceTypes ==
  ASSUME Typed, NEW op, Advances(op),
         child' \in ChildType, child'.pc = child.pc,
         (child'.state = "stopped") = (child'.why # "none"),
         child'.state = "none" => child.state = "none" /\ child'.pend = {},
         group' \in [dir: BOOLEAN, frozen: BOOLEAN], strays' \subseteq {"all", "reaped"}
  PROVE  /\ Typed' /\ parent'.state = "runs" /\ parent'.pc = parent.pc + 1
         /\ parent.state = "runs" /\ parent.pc \in DOMAIN Calls /\ Calls[parent.pc].op = op
<1>1. /\ parent.state = "runs" /\ parent.pc \in DOMAIN Calls /\ parent.pc + 1 <= End(Calls)
      /\ Calls[parent.pc].op = op
  BY CallFacts DEF Advances
<1>. QED
  BY <1>1 DEF Typed, Advances, Calls

LEMMA CallOp ==
  ASSUME NEW op, NEW other, P(op), P(other)
  PROVE  op = other
  BY DEF P

(* Every action of the parent is one of four kinds.                        *)
LEMMA ForkTypes ==
  ASSUME Typed, Fork
  PROVE  /\ Typed' /\ parent.pc = 1 /\ parent'.pc = 1 /\ parent'.state = "runs" /\ child.pc = 1
         /\ prog' = prog /\ child'.pend = {} /\ child.pc = child'.pc /\ ~Alive
         /\ parent'.status = parent.status /\ child'.in = child.in /\ child.state = "none"
         /\ child'.state \in {"none", "runs"} /\ UNCHANGED <<group, strays>>
  BY DEF Typed, ParentType, ChildType, Fork, Calls, Alive

LEMMA ErrorTypes ==
  ASSUME Typed, parent.state = "runs", HandleError
  PROVE  Leaves("failed")
  BY DEF HandleError, Ends, Leaves

LEMMA InterruptTypes ==
  ASSUME Typed, Interrupt \/ InterruptUncaught
  PROVE  parent.state = "runs" /\ Leaves("interrupted")
  BY DEF Interrupt, InterruptUncaught, Struck, Ends, Leaves

LEMMA ReturnTypes ==
  ASSUME Typed, Return
  PROVE  /\ parent.state = "runs" /\ parent.pc = End(Calls) /\ Leaves("done") /\ strays' = strays
  BY CallFacts DEF Typed, ParentType, Return, Ends, Leaves, End, Calls, Code

LEMMA SentKeeps ==
  ASSUME Typed, NEW sig \in Signals \cup {"CONT", "KILL"}
  PROVE  /\ Sent(sig) \in ChildType /\ Sent(sig).pc = child.pc
         /\ (Sent(sig).state = "stopped") = (Sent(sig).why # "none")
         /\ Sent(sig).state = "none" => child.state = "none" /\ Sent(sig).pend = {}
<1>1. child \in ChildType /\ (child.state = "stopped") = (child.why # "none")
  BY DEF Typed
<1>2. Sent(sig) \in ChildType /\ Sent(sig).pc = child.pc
  BY <1>1, SentTypes
<1>3. CASE ~Alive
  <2>1. Sent(sig) = child
    BY <1>1, <1>3, SentTypes
  <2>. QED
    BY <1>1, <1>2, <2>1 DEF Typed
<1>4. CASE Alive /\ sig = "KILL"
  <2>1. Sent(sig).state = "zombie" /\ Sent(sig).why = "none"
    BY <1>1, <1>4, SentTypes
  <2>. QED
    BY <1>2, <2>1
<1>5. CASE Alive /\ sig # "KILL"
  <2>1. Sent(sig).state = child.state /\ Sent(sig).why = child.why
    BY <1>1, <1>5, SentTypes
  <2>. QED
    BY <1>1, <1>2, <1>5, <2>1 DEF Alive
<1>. QED
  BY <1>3, <1>4, <1>5

LEMMA SeizeTypes ==
  ASSUME Typed, Seize, Alive
  PROVE  /\ Advances("seize") /\ Typed' /\ parent'.status = parent.status
         /\ child' = [child EXCEPT !.traced = TRUE] /\ UNCHANGED <<group, strays>>
<1>1. /\ Advances("seize") /\ UNCHANGED <<group, strays>> /\ parent'.status = parent.status
      /\ child' = [child EXCEPT !.traced = TRUE]
  BY DEF Seize, Advances, Typed, ParentType, Past, P
<1>2. /\ child' \in ChildType /\ child'.pc = child.pc
      /\ (child'.state = "stopped") = (child'.why # "none")
      /\ child'.state = "none" => child.state = "none" /\ child'.pend = {}
  BY <1>1 DEF Typed, ChildType
<1>. QED
  BY <1>1, <1>2, AdvanceTypes DEF Typed

LEMMA RequestTypes ==
  ASSUME Typed, Request
  PROVE  /\ \/ Advances("ptrace-kill") /\ child' \in {child, Dead}
            \/ Advances("interrupt") /\ child' = Sent("EVENT")
         /\ Typed' /\ parent'.status = parent.status /\ UNCHANGED <<group, strays>>
<1>1. /\ \/ Advances("ptrace-kill") /\ child' \in {child, Dead}
         \/ Advances("interrupt") /\ child' = Sent("EVENT")
      /\ UNCHANGED <<group, strays>> /\ parent'.status = parent.status
  BY DEF Request, Advances, Typed, ParentType, Past, P
<1>2. /\ child' \in ChildType /\ child'.pc = child.pc
      /\ (child'.state = "stopped") = (child'.why # "none")
      /\ child'.state = "none" => child.state = "none" /\ child'.pend = {}
  BY <1>1, SentTypes DEF Typed, Alive, Signals
<1>. QED
  BY <1>1, <1>2, AdvanceTypes DEF Typed

LEMMA KillTypes ==
  ASSUME Typed, KillChild, Alive \/ child.state = "zombie"
  PROVE  /\ Advances("kill") /\ Arg \in Signals \cup {"CONT", "KILL"} /\ child' = Sent(Arg)
         /\ Arg = Calls[parent.pc].arg
         /\ Typed' /\ parent'.status = parent.status /\ UNCHANGED <<group, strays>>
<1>1. /\ Advances("kill") /\ child' = Sent(Arg) /\ UNCHANGED <<group, strays>>
      /\ parent'.status = parent.status /\ Arg = Calls[parent.pc].arg
  BY DEF KillChild, Advances, Typed, ParentType, Past, P, Arg, Calls, Code
<1>2. Arg \in Signals \cup {"CONT", "KILL"}
  <2>1. parent.pc \in DOMAIN Code(prog) /\ Code(prog)[parent.pc].op = "kill" /\ prog \in DOMAIN Programs
    BY <1>1, CallFacts DEF Advances, Calls, Typed
  <2>. QED
    BY <1>1, <2>1, CallsAssumption DEF Calls
<1>3. /\ child' \in ChildType /\ child'.pc = child.pc
      /\ (child'.state = "stopped") = (child'.why # "none")
      /\ child'.state = "none" => child.state = "none" /\ child'.pend = {}
  BY <1>1, <1>2, SentKeeps
<1>. QED
  BY <1>1, <1>2, <1>3, AdvanceTypes DEF Typed

LEMMA UncheckedTypes ==
  ASSUME Typed, KillUnchecked
  PROVE  /\ Advances("kill-stop") /\ child' = Sent("STOP") /\ prog = "signal_ptrace_stop"
         /\ strays' = strays \cup (IF Forked THEN {} ELSE {"all"})
         /\ Typed' /\ parent'.status = parent.status /\ group' = group
<1>1. /\ Advances("kill-stop") /\ child' = Sent("STOP") /\ group' = group
      /\ parent'.status = parent.status
      /\ strays' = strays \cup (IF Forked THEN {} ELSE {"all"})
  BY DEF KillUnchecked, Advances, Typed, ParentType, Past, P
<1>2. /\ child' \in ChildType /\ child'.pc = child.pc
      /\ (child'.state = "stopped") = (child'.why # "none")
      /\ child'.state = "none" => child.state = "none" /\ child'.pend = {}
  BY <1>1, SentTypes DEF Typed, Alive, Signals
<1>3. prog = "signal_ptrace_stop"
  <2>1. parent.pc \in DOMAIN Code(prog) /\ Code(prog)[parent.pc].op = "kill-stop" /\ prog \in DOMAIN Programs
    BY <1>1, CallFacts DEF Advances, Calls, Typed
  <2>. QED
    BY <2>1, CallsAssumption
<1>. QED
  BY <1>1, <1>2, <1>3, AdvanceTypes DEF Typed

LEMMA ContinueTypes ==
  ASSUME Typed, Continue
  PROVE  /\ Advances("cont") /\ Typed' /\ parent'.status = parent.status
         /\ child.state # "stopped" => child' = child
         /\ child.state = "stopped" => child' = [child EXCEPT !.state = "runs", !.why = "none"]
         /\ UNCHANGED <<group, strays>>
<1>1. /\ Advances("cont") /\ parent'.status = parent.status /\ UNCHANGED <<group, strays>>
      /\ child.state # "stopped" => child' = child
      /\ child.state = "stopped" => child' = [child EXCEPT !.state = "runs", !.why = "none"]
  BY DEF Continue, Advances, Typed, ParentType, Past, P
<1>2. /\ child' \in ChildType /\ child'.pc = child.pc
      /\ (child'.state = "stopped") = (child'.why # "none")
      /\ child'.state = "none" => child.state = "none" /\ child'.pend = {}
  BY <1>1 DEF Typed, ChildType
<1>. QED
  BY <1>1, <1>2, AdvanceTypes DEF Typed

(* A wait is told of a stop, or of the end; for a stop it is wait_for_     *)
(* signal alone that goes on waiting after the end.                        *)
LEMMA WaitTypes ==
  ASSUME Typed, WaitReturns
  PROVE  \E op \in Waits :
           /\ P(op) /\ Typed' /\ UNCHANGED <<prog, group, strays>>
           /\ \/ /\ Advances(op) /\ child.state = "stopped" /\ ~child.told
                 /\ child' = [child EXCEPT !.told = TRUE] /\ parent'.status = "stopped"
              \/ /\ Advances(op) /\ op # "wait-stop" /\ child.state = "zombie"
                 /\ child' = [child EXCEPT !.state = "reaped"]
              \/ /\ op = "wait-stop" /\ child.state = "zombie"
                 /\ child' = [child EXCEPT !.state = "reaped"]
                 /\ parent' = [parent EXCEPT !.status = "exited"]
<1>1. PICK op \in Waits : P(op)
  BY DEF WaitReturns, Waits
<1>2. op = "wait-stop" <=> P("wait-stop")
  BY <1>1, CallOp
<1>3. CASE child.state = "stopped"
  <2>1. /\ Advances(op) /\ ~child.told /\ child' = [child EXCEPT !.told = TRUE]
        /\ parent'.status = "stopped" /\ UNCHANGED <<prog, group, strays>>
    <3>1. /\ ~child.told /\ child' = [child EXCEPT !.told = TRUE]
          /\ parent' = [Past EXCEPT !.status = "stopped"] /\ UNCHANGED <<prog, group, strays>>
      BY <1>3 DEF WaitReturns
    <3>. QED
      BY <1>1, <3>1, ToldTypes
  <2>2. /\ child' \in ChildType /\ child'.pc = child.pc
        /\ (child'.state = "stopped") = (child'.why # "none")
        /\ child'.state = "none" => child.state = "none" /\ child'.pend = {}
    BY <2>1 DEF Typed, ChildType
  <2>. QED
    BY <1>1, <1>3, <2>1, <2>2, AdvanceTypes DEF Typed
<1>4. CASE child.state = "zombie"
  <2>1. child' = [child EXCEPT !.state = "reaped"] /\ UNCHANGED <<prog, group, strays>>
    BY <1>4 DEF WaitReturns
  <2>2. /\ child' \in ChildType /\ child'.pc = child.pc
        /\ (child'.state = "stopped") = (child'.why # "none")
        /\ child'.state = "none" => child.state = "none" /\ child'.pend = {}
    BY <1>4, <2>1 DEF Typed, ChildType
  <2>3. CASE op # "wait-stop"
    <3>1. Advances(op)
      <4>1. parent' = [Past EXCEPT !.status = "exited"]
        BY <1>1, <1>2, <1>4, <2>3 DEF WaitReturns
      <4>. QED
        BY <1>1, <2>1, <4>1, ToldTypes
    <3>. QED
      BY <1>1, <1>4, <2>1, <2>2, <2>3, <3>1, AdvanceTypes DEF Typed
  <2>4. CASE op = "wait-stop"
    <3>1. parent' = [parent EXCEPT !.status = "exited"] /\ parent.state = "runs"
      BY <1>1, <1>2, <1>4, <2>4 DEF WaitReturns, P
    <3>2. Typed'
      BY <1>4, <2>1, <2>2, <3>1 DEF Typed, ParentType, Calls
    <3>. QED
      BY <1>1, <1>4, <2>1, <2>4, <3>1, <3>2
  <2>. QED
    BY <2>3, <2>4
<1>. QED
  BY <1>3, <1>4 DEF WaitReturns

LEMMA QuietTypes ==
  ASSUME Typed,
         \/ Speak
         \/ P("look") /\ parent' = Past /\ UNCHANGED <<prog, child, group, strays>>
  PROVE  /\ \E op : /\ Advances(op) /\ op \in Says \cup {"look"}
         /\ Typed' /\ parent'.status = parent.status
         /\ UNCHANGED <<child, group, strays>>
<1>1. PICK op : P(op) /\ op \in Says \cup {"look"}
  BY DEF Speak, Says
<1>2. Advances(op) /\ UNCHANGED <<child, group, strays>> /\ parent'.status = parent.status
  BY <1>1, PastTypes DEF Speak
<1>. QED
  BY <1>1, <1>2, AdvanceTypes DEF Typed

LEMMA FreezerTypes ==
  ASSUME Typed, Freezer
  PROVE  \E op :
           /\ Advances(op) /\ Typed' /\ parent'.status = parent.status /\ strays' = strays
           /\ \/ op = "add" /\ child' = [child EXCEPT !.in = Alive] /\ group' = group
              \/ op = "freeze" /\ group'.frozen /\ child' = child
              \/ op = "thaw" /\ child' = child
<1>1. PICK op : /\ P(op)
                /\ \/ op = "add" /\ child' = [child EXCEPT !.in = Alive] /\ group' = group
                   \/ /\ op = "freeze" /\ group' = [group EXCEPT !.frozen = TRUE] /\ child' = child
                   \/ /\ op = "thaw" /\ group' = [group EXCEPT !.frozen = FALSE] /\ child' = child
  BY DEF Freezer
<1>2. Advances(op) /\ parent'.status = parent.status /\ strays' = strays
  BY <1>1, PastTypes DEF Freezer
<1>3. /\ child' \in ChildType /\ child'.pc = child.pc
      /\ (child'.state = "stopped") = (child'.why # "none")
      /\ child'.state = "none" => child.state = "none" /\ child'.pend = {}
  <2>1. CASE child' = child
    BY <2>1 DEF Typed
  <2>2. CASE child' = [child EXCEPT !.in = Alive]
    <3>1. Alive \in BOOLEAN
      BY DEF Alive
    <3>. QED
      BY <2>2, <3>1 DEF Typed, ChildType
  <2>. QED
    BY <1>1, <2>1, <2>2
<1>4. group' \in [dir: BOOLEAN, frozen: BOOLEAN] /\ (op = "freeze" => group'.frozen)
  BY <1>1 DEF Typed
<1>. QED
  BY <1>1, <1>2, <1>3, <1>4, AdvanceTypes DEF Typed

LEMMA RemoveTypes ==
  ASSUME Typed, RemoveFreezer
  PROVE  /\ Advances("rmdir") /\ Typed' /\ parent'.status = parent.status
         /\ UNCHANGED <<child, strays>>
<1>1. /\ Advances("rmdir") /\ parent'.status = parent.status /\ UNCHANGED <<child, strays>>
      /\ group' = [group EXCEPT !.dir = child.in /\ Alive, !.frozen = @ /\ child.in /\ Alive]
  BY DEF RemoveFreezer, Advances, Typed, ParentType, Past, P
<1>2. group' \in [dir: BOOLEAN, frozen: BOOLEAN]
  BY <1>1 DEF Typed, ChildType, Alive
<1>. QED
  BY <1>1, <1>2, AdvanceTypes DEF Typed

(* A step of the child: it runs before.                                    *)
LEMMA TakeTypes ==
  ASSUME Typed, TakeSignal
  PROVE  /\ Typed' /\ UNCHANGED <<prog, parent, group, strays>> /\ child.state = "runs"
         /\ child'.pc = child.pc /\ child'.in = child.in
         /\ \/ child' = Dead /\ child'.state = "zombie"
            \/ \E s \in child.pend :
                 /\ child'.state = "stopped" /\ child'.why = s /\ ~child'.told
                 /\ child'.pend = child.pend \ {s}
<1>1. PICK s \in child.pend :
        child' = IF child.traced \/ s = "STOP"
                 THEN [child EXCEPT !.state = "stopped", !.why = s, !.told = FALSE,
                                    !.pend = @ \ {s}]
                 ELSE Dead
  BY DEF TakeSignal
<1>2. child.state = "runs" /\ UNCHANGED <<prog, parent, group, strays>>
  BY DEF TakeSignal, Can
<1>3. s \in Signals /\ s # "none"
  BY DEF Typed, ChildType, Signals
<1>4. CASE child.traced \/ s = "STOP"
  <2>1. child' = [child EXCEPT !.state = "stopped", !.why = s, !.told = FALSE, !.pend = @ \ {s}]
    BY <1>1, <1>4
  <2>2. /\ child' \in ChildType /\ child'.state = "stopped" /\ child'.why = s /\ ~child'.told
        /\ child'.pend = child.pend \ {s} /\ child'.pc = child.pc /\ child'.in = child.in
    BY <1>3, <2>1 DEF Typed, ChildType
  <2>. QED
    BY <1>2, <1>3, <2>2 DEF Typed, Calls
<1>5. CASE ~(child.traced \/ s = "STOP")
  <2>1. child' = Dead
    BY <1>1, <1>5
  <2>2. /\ child' \in ChildType /\ child'.state = "zombie" /\ child'.pc = child.pc
        /\ child'.in = child.in /\ child'.why = "none" /\ child'.pend = {}
    BY <1>2, <2>1, SentTypes DEF Typed, Alive
  <2>. QED
    BY <1>2, <2>1, <2>2 DEF Typed, Calls
<1>. QED
  BY <1>4, <1>5

LEMMA ChildTypes ==
  ASSUME Typed, ChildSteps
  PROVE  /\ Typed' /\ UNCHANGED <<prog, parent, group, strays>> /\ child.state = "runs"
         /\ child'.in = child.in /\ child.pend = {}
         /\ \/ child' = Dead /\ child'.state = "zombie"
            \/ /\ child'.state = "runs" /\ child'.pc = child.pc + 1
               /\ \/ child'.pend = {}
                  \/ ChildCode(prog)[child.pc].op = "raise-stop" /\ child'.pend = {"STOP"}
                  \/ /\ ChildCode(prog)[child.pc].op = "exec" /\ child'.pend = {"TRAP"}
                     /\ ChildCode(prog)[1].op = "traceme"
<1>1. /\ child.state = "runs" /\ child.pend = {} /\ UNCHANGED <<prog, parent, group, strays>>
  BY DEF ChildSteps, Can
<1>2. /\ prog \in DOMAIN Programs /\ child \in ChildType /\ child.pc <= Len(ChildCode(prog))
      /\ child.why = "none"
  BY <1>1 DEF Typed
<1>3. CASE child' = Dead
  <2>1. /\ child' \in ChildType /\ child'.state = "zombie" /\ child'.pc = child.pc
        /\ child'.in = child.in /\ child'.why = "none" /\ child'.pend = {}
    BY <1>1, <1>2, <1>3, SentTypes DEF Alive
  <2>. QED
    BY <1>1, <1>2, <1>3, <2>1 DEF Typed, Calls
<1>4. CASE child' # Dead
  <2> DEFINE op == ChildCode(prog)[child.pc].op
  <2>1. /\ \/ op = "traceme" /\ child' = [child EXCEPT !.pc = @ + 1, !.traced = TRUE]
           \/ op = "raise-stop" /\ child' = [child EXCEPT !.pc = @ + 1, !.pend = {"STOP"}]
           \/ op = "thread" /\ child' = [child EXCEPT !.pc = @ + 1]
           \/ op = "exec" /\ child' = [child EXCEPT !.pc = @ + 1, !.pend = {}]
           \/ /\ op = "exec" /\ child' = [child EXCEPT !.pc = @ + 1, !.pend = {"TRAP"}]
              /\ ChildCode(prog)[1].op = "traceme"
        /\ op # "run"
    BY <1>4 DEF ChildSteps, At, ChildCode
  <2>2. /\ child' \in ChildType /\ child'.pc = child.pc + 1 /\ child'.state = "runs"
        /\ child'.in = child.in /\ child'.why = "none"
        /\ \/ child'.pend = {}
           \/ op = "raise-stop" /\ child'.pend = {"STOP"}
           \/ op = "exec" /\ child'.pend = {"TRAP"} /\ ChildCode(prog)[1].op = "traceme"
    <3>. HIDE DEF op
    <3>1. child.pc + 1 \in Nat \ {0} /\ {"STOP"} \in SUBSET Signals /\ {"TRAP"} \in SUBSET Signals
      BY <1>2 DEF ChildType, Signals
    <3>2. CASE child' = [child EXCEPT !.pc = @ + 1, !.traced = TRUE]
      BY <1>1, <1>2, <3>1, <3>2 DEF ChildType
    <3>3. CASE op = "raise-stop" /\ child' = [child EXCEPT !.pc = @ + 1, !.pend = {"STOP"}]
      BY <1>1, <1>2, <3>1, <3>3 DEF ChildType
    <3>4. CASE child' = [child EXCEPT !.pc = @ + 1]
      BY <1>1, <1>2, <3>1, <3>4 DEF ChildType
    <3>5. CASE child' = [child EXCEPT !.pc = @ + 1, !.pend = {}]
      BY <1>1, <1>2, <3>1, <3>5 DEF ChildType
    <3>6. CASE /\ op = "exec" /\ child' = [child EXCEPT !.pc = @ + 1, !.pend = {"TRAP"}]
               /\ ChildCode(prog)[1].op = "traceme"
      BY <1>1, <1>2, <3>1, <3>6 DEF ChildType
    <3>. QED
      BY <2>1, <3>2, <3>3, <3>4, <3>5, <3>6
  <2>3. child.pc # Len(ChildCode(prog))
    <3>1. Len(ChildCode(prog)) \in DOMAIN ChildCode(prog)
      BY <1>2, CallFacts, CallsAssumption
    <3>. QED
      BY <1>2, <2>1, <3>1, CallsAssumption
  <2>4. child'.pc <= Len(ChildCode(prog))
    BY <1>2, <2>2, <2>3, CallFacts DEF ChildType
  <2>. QED
    BY <1>1, <1>2, <2>2, <2>4 DEF Typed, Calls
<1>. QED
  BY <1>3, <1>4

-----------------------------------------------------------------------------
(* Steps to the next call.                                                 *)

(* What such a step changes.                                               *)
Effect(op) ==
  /\ Advances(op) /\ op # "pause" /\ Typed'
  /\ child'.pc = child.pc /\ (Forked' <=> Forked) /\ (Alive' => Alive)
  /\ child'.pend \subseteq
       child.pend \cup (IF op \in Sends THEN {Signal(Calls[parent.pc])} ELSE {})
  /\ child'.state = "stopped" => child.state = "stopped" /\ child'.why = child.why
  /\ op = "wait-stop" \/ (child.state = "stopped" /\ child.told /\ ~Ends1(Calls[parent.pc]))
       => child'.state = "stopped" /\ child'.told
  /\ op \in Waits => ~(child.state = "stopped" /\ child.told)
  /\ \/ child'.state = "reaped" \/ ~Forked
     \/ op \notin Waits /\ op \in Sends /\ Outstanding' <= Outstanding + 1
     \/ op \notin Waits /\ Outstanding' <= Outstanding
     \/ op \in Waits /\ op \notin Sends /\ Outstanding' + 1 <= Outstanding
  /\ child.state = "reaped" => child'.state = "reaped"
  /\ child'.state = "reaped" => child.state = "reaped" \/ op \in {"wait", "look"}
  /\ parent'.status = "exited" => parent.status = "exited" \/ child'.state = "reaped"
  /\ \/ strays' = strays
     \/ strays' = strays \cup {"all"} /\ prog = "signal_ptrace_stop" /\ ~Forked
  /\ IF op = "add" THEN Alive' => child'.in ELSE child'.in = child.in
  /\ IF op = "freeze" THEN group'.frozen
     ELSE op \in {"thaw", "rmdir"} \/ group'.frozen = group.frozen

(* A child of which nothing the invariants look at changes.                *)
SameChild ==
  /\ child'.state = child.state /\ child'.pc = child.pc /\ child'.pend = child.pend
  /\ child'.why = child.why /\ child'.told = child.told

(* Stops can be counted.                                                   *)
LEMMA OutstandingType ==
  ASSUME Typed
  PROVE  Outstanding \in Nat /\ Cardinality(child.pend) \in Nat
<1>1. child.pend \in SUBSET Signals
  BY DEF Typed, ChildType
<1>2. IsFiniteSet(child.pend)
  BY <1>1, SignalsFinite, FS_Subset
<1>3. Cardinality(child.pend) \in Nat
  BY <1>2, FS_CardinalityType
<1>. QED
  BY <1>3 DEF Outstanding

LEMMA NextOutstandingType ==
  ASSUME Typed'
  PROVE  Outstanding' \in Nat /\ Cardinality(child'.pend) \in Nat
<1>1. child'.pend \in SUBSET Signals
  BY DEF Typed, ChildType
<1>2. IsFiniteSet(child'.pend)
  BY <1>1, SignalsFinite, FS_Subset
<1>3. Cardinality(child'.pend) \in Nat
  BY <1>2, FS_CardinalityType
<1>. QED
  BY <1>3 DEF Outstanding

(* A call that signals nothing and waits for nothing.                      *)
LEMMA QuietEffect ==
  ASSUME Typed, Typed', NEW op, Advances(op), SameChild, op \notin Waits, op # "pause",
         parent'.status = parent.status, strays' = strays,
         IF op = "add" THEN Alive' => child'.in ELSE child'.in = child.in,
         IF op = "freeze" THEN group'.frozen
         ELSE op \in {"thaw", "rmdir"} \/ group'.frozen = group.frozen
  PROVE  Effect(op)
<1>1. Outstanding' = Outstanding /\ Outstanding \in Nat
  <2>1. Cardinality(child.pend) \in Nat
    BY PendCount DEF Typed, ChildType
  <2>. QED
    BY <2>1 DEF SameChild, Outstanding, Untold
<1>. QED
  BY <1>1 DEF Effect, SameChild, Forked, Alive, Waits

LEMMA SeizeEffect ==
  ASSUME Typed, Seize, Alive
  PROVE  Effect("seize")
<1>1. SameChild /\ child'.in = child.in
  BY SeizeTypes DEF Typed, ChildType, SameChild
<1>. QED
  BY <1>1, SeizeTypes, QuietEffect DEF Waits

LEMMA SpeakEffect ==
  ASSUME Typed, Speak
  PROVE  \E op : Effect(op)
<1>1. PICK op : P(op) /\ op \in Says
  BY DEF Speak, Says
<1>2. Advances(op) /\ parent'.status = parent.status
  BY <1>1, PastTypes DEF Speak
<1>3. /\ Typed' /\ UNCHANGED <<child, group, strays>>
  BY QuietTypes
<1>. QED
  BY <1>1, <1>2, <1>3, QuietEffect DEF Waits, Says, SameChild

LEMMA FreezerEffect ==
  ASSUME Typed, Freezer
  PROVE  \E op : Effect(op)
<1>1. PICK op :
           /\ Advances(op) /\ Typed' /\ parent'.status = parent.status /\ strays' = strays
           /\ \/ op = "add" /\ child' = [child EXCEPT !.in = Alive] /\ group' = group
              \/ op = "freeze" /\ group'.frozen /\ child' = child
              \/ op = "thaw" /\ child' = child
  BY FreezerTypes
<1>2. SameChild /\ (IF op = "add" THEN Alive' => child'.in ELSE child'.in = child.in)
  <2>1. CASE child' = child /\ op # "add"
    BY <2>1 DEF SameChild
  <2>2. CASE op = "add" /\ child' = [child EXCEPT !.in = Alive]
    BY <2>2 DEF Typed, ChildType, SameChild, Alive
  <2>. QED
    BY <1>1, <2>1, <2>2
<1>. QED
  BY <1>1, <1>2, QuietEffect DEF Waits

LEMMA RemoveEffect ==
  ASSUME Typed, RemoveFreezer
  PROVE  Effect("rmdir")
<1>1. SameChild /\ child'.in = child.in
  BY RemoveTypes DEF SameChild
<1>. QED
  BY <1>1, RemoveTypes, QuietEffect DEF Waits

(* A signal is under way once, however often it is sent.                   *)
LEMMA SentEffect ==
  ASSUME Typed, Typed', NEW op \in Sends, Advances(op), parent'.status = parent.status,
         NEW sig \in Signals \cup {"CONT", "KILL"}, child' = Sent(sig),
         sig = Signal(Calls[parent.pc]),
         \/ strays' = strays
         \/ strays' = strays \cup {"all"} /\ prog = "signal_ptrace_stop" /\ ~Forked,
         group' = group
  PROVE  Effect(op)
<1>1. /\ Outstanding \in Nat /\ Outstanding' \in Nat
      /\ Cardinality(child.pend) \in Nat /\ Cardinality(child'.pend) \in Nat
  BY OutstandingType, NextOutstandingType
<1>2. /\ child \in ChildType /\ child'.pc = child.pc /\ child'.in = child.in
      /\ (child.state = "stopped") = (child.why # "none")
  BY SentTypes DEF Typed
<1>3. op \notin Waits /\ op \notin {"pause", "add", "freeze", "wait-stop"}
  BY DEF Sends, Waits
<1>4. CASE ~Alive
  <2>1. child' = child
    BY <1>2, <1>4, SentTypes
  <2>2. SameChild
    BY <2>1 DEF SameChild
  <2>3. Outstanding' = Outstanding
    BY <2>1 DEF Outstanding, Untold
  <2>. QED
    BY <1>1, <1>2, <1>3, <2>1, <2>3 DEF Effect, Forked, Alive
<1>5. CASE Alive /\ sig = "KILL"
  <2>1. child'.state = "zombie" /\ child'.pend = {} /\ child'.why = "none"
    BY <1>2, <1>5, SentTypes
  <2>2. Outstanding' = 0
    BY <2>1, FS_EmptySet DEF Outstanding, Untold
  <2>3. Ends1(Calls[parent.pc])
    <3>1. Calls[parent.pc].op = op
      BY CallFacts DEF Advances
    <3>. QED
      BY <1>5, <3>1 DEF Ends1, Signal, Sends
  <2>. QED
    BY <1>1, <1>2, <1>3, <1>5, <2>1, <2>2, <2>3 DEF Effect, Forked, Alive
<1>6. CASE Alive /\ sig # "KILL"
  <2>1. /\ child'.state = child.state /\ child'.why = child.why /\ child'.told = child.told
        /\ child'.pend = IF sig = "CONT" THEN child.pend \ {"STOP"} ELSE child.pend \cup {sig}
    BY <1>2, <1>6, SentTypes
  <2>2. Cardinality(child'.pend) <= Cardinality(child.pend) + 1
    <3>1. child.pend \in SUBSET Signals
      BY <1>2 DEF ChildType
    <3>. QED
      <4>1. Cardinality(child.pend \cup {sig}) <= Cardinality(child.pend) + 1
        BY <3>1, PendCount
      <4>2. \A s : Cardinality(child.pend \ {s}) <= Cardinality(child.pend)
        <5>1. TAKE s
        <5>2. Cardinality(child.pend \ {s}) = IF s \in child.pend THEN Cardinality(child.pend) - 1
                                              ELSE Cardinality(child.pend)
          BY <3>1, PendCount
        <5>. QED
          BY <1>1, <5>2
      <4>. QED
        <5>1. CASE sig = "CONT"
          BY <1>1, <2>1, <4>2, <5>1
        <5>2. CASE sig # "CONT"
          BY <2>1, <4>1, <5>2
        <5>. QED
          BY <5>1, <5>2
  <2>3. Outstanding' <= Outstanding + 1
    BY <1>1, <2>1, <2>2 DEF Outstanding, Untold
  <2>4. child'.pend \subseteq child.pend \cup {Signal(Calls[parent.pc])}
    BY <2>1
  <2>. QED
    <3>1. /\ Alive' <=> Alive
          /\ Forked' <=> Forked
      BY <2>1 DEF Forked, Alive
    <3>3. child'.state \in {"runs", "stopped"} /\ child.state # "reaped"
      BY <1>6, <2>1 DEF Alive
    <3>. QED
      BY <1>2, <1>3, <2>1, <2>3, <2>4, <3>1, <3>3 DEF Effect
<1>. QED
  BY <1>4, <1>5, <1>6

LEMMA KillEffect ==
  ASSUME Typed, KillChild, Alive \/ child.state = "zombie"
  PROVE  Effect("kill")
<1>1. Calls[parent.pc].op = "kill"
  BY CallFacts, KillTypes DEF Advances
<1>2. Arg = Signal(Calls[parent.pc]) /\ "kill" \in Sends
  BY <1>1, KillTypes DEF Signal, Sends
<1>. QED
  BY <1>2, KillTypes, SentEffect

LEMMA UncheckedEffect ==
  ASSUME Typed, KillUnchecked
  PROVE  Effect("kill-stop")
<1>1. Calls[parent.pc].op = "kill-stop"
  BY CallFacts, UncheckedTypes DEF Advances
<1>2. "STOP" = Signal(Calls[parent.pc]) /\ "kill-stop" \in Sends /\ "STOP" \in Signals
  BY <1>1 DEF Signal, Sends, Signals
<1>3. \/ strays' = strays
      \/ strays' = strays \cup {"all"} /\ prog = "signal_ptrace_stop" /\ ~Forked
  BY UncheckedTypes
<1>. QED
  BY <1>2, <1>3, UncheckedTypes, SentEffect

(* The child that is killed, or goes on.                                   *)
LEMMA EndedEffect ==
  ASSUME Typed, Typed', NEW op, Advances(op), parent'.status = parent.status,
         Ends1(Calls[parent.pc]), op \notin Waits, op \notin {"pause", "add", "freeze"},
         UNCHANGED <<group, strays>>,
         child'.pc = child.pc, child'.in = child.in,
         child'.pend \subseteq child.pend,
         \/ child' = child
         \/ Alive /\ child'.state \in {"runs", "zombie"}
         \/ ~Alive /\ child'.state = child.state
  PROVE  Effect(op)
<1>1. Outstanding' <= Outstanding /\ Outstanding \in Nat /\ Outstanding' \in Nat
  <2>1. /\ child.pend \in SUBSET Signals /\ child'.pend \in SUBSET Signals
    BY DEF Typed, ChildType
  <2>2. Cardinality(child'.pend) <= Cardinality(child.pend)
    <3>1. IsFiniteSet(child.pend)
      BY <2>1, SignalsFinite, FS_Subset
    <3>. QED
      BY <3>1, FS_Subset
  <2>3. Cardinality(child'.pend) \in Nat /\ Cardinality(child.pend) \in Nat
    BY <2>1, PendCount
  <2>4. Untold' => Untold
    BY DEF Untold, Alive
  <2>. QED
    BY <2>2, <2>3, <2>4 DEF Outstanding
<1>2. op # "wait-stop"
  BY DEF Waits
<1>3. (Forked' <=> Forked) /\ (Alive' => Alive)
  BY DEF Forked, Alive
<1>5. /\ child'.state = "stopped" => child.state = "stopped" /\ child'.why = child.why
      /\ child.state = "reaped" <=> child'.state = "reaped"
  <2>1. CASE child' = child
    BY <2>1
  <2>2. CASE Alive /\ child'.state \in {"runs", "zombie"}
    BY <2>2 DEF Alive
  <2>3. CASE ~Alive /\ child'.state = child.state
    BY <2>3 DEF Alive
  <2>. QED
    BY <2>1, <2>2, <2>3
<1>. QED
  BY <1>1, <1>2, <1>3, <1>5 DEF Effect

LEMMA RequestEffect ==
  ASSUME Typed, Request
  PROVE  \E op : Effect(op)
<1>1. CASE Advances("ptrace-kill") /\ child' \in {child, Dead}
  <2>1. Ends1(Calls[parent.pc])
    BY <1>1, CallFacts DEF Advances, Ends1
  <2>2. /\ child'.pc = child.pc /\ child'.in = child.in /\ child'.pend \subseteq child.pend
        /\ \/ child' = child
           \/ Alive /\ child'.state \in {"runs", "zombie"}
           \/ ~Alive /\ child'.state = child.state
    <3>1. child \in ChildType
      BY DEF Typed
    <3>2. /\ Dead.pc = child.pc /\ Dead.in = child.in /\ Dead.pend = {}
          /\ Dead.state = IF Alive THEN "zombie" ELSE child.state
      BY <3>1, SentTypes
    <3>3. CASE child' = child
      BY <3>3
    <3>4. CASE child' = Dead
      BY <3>2, <3>4
    <3>. QED
      BY <1>1, <3>3, <3>4
  <2>. QED
    BY <1>1, <2>1, <2>2, RequestTypes, EndedEffect DEF Waits
<1>2. CASE Advances("interrupt") /\ child' = Sent("EVENT")
  <2>1. "EVENT" = Signal(Calls[parent.pc]) /\ "interrupt" \in Sends /\ "EVENT" \in Signals
    BY <1>2, CallFacts DEF Advances, Signal, Sends, Signals
  <2>. QED
    BY <1>2, <2>1, RequestTypes, SentEffect
<1>. QED
  BY <1>1, <1>2, RequestTypes

LEMMA ContinueEffect ==
  ASSUME Typed, Continue
  PROVE  Effect("cont")
<1>1. Ends1(Calls[parent.pc])
  BY ContinueTypes, CallFacts DEF Advances, Ends1
<1>2. /\ child'.pc = child.pc /\ child'.in = child.in /\ child'.pend \subseteq child.pend
      /\ \/ child' = child
         \/ Alive /\ child'.state \in {"runs", "zombie"}
  <2>1. CASE child.state = "stopped"
    <3>1. child \in ChildType /\ child' = [child EXCEPT !.state = "runs", !.why = "none"]
      BY <2>1, ContinueTypes DEF Typed
    <3>. QED
      BY <2>1, <3>1 DEF ChildType, Alive
  <2>2. CASE child.state # "stopped"
    <3>1. child' = child
      BY <2>2, ContinueTypes
    <3>. QED
      BY <3>1
  <2>. QED
    BY <2>1, <2>2
<1>. QED
  BY <1>1, <1>2, ContinueTypes, EndedEffect DEF Waits

(* A wait that goes on has been told of the stop or of the end.            *)
LEMMA WaitEffect ==
  ASSUME Typed, WaitReturns
  PROVE  \/ \E op : Effect(op)
         \/ /\ P("wait-stop") /\ P("wait-stop")' /\ Typed' /\ UNCHANGED <<prog, group, strays>>
            /\ child.state = "zombie" /\ child'.state = "reaped"
            /\ child'.pc = child.pc /\ child'.pend = child.pend /\ child'.in = child.in
            /\ parent'.state = parent.state /\ parent'.pc = parent.pc
<1>1. PICK op \in Waits :
           /\ P(op) /\ Typed' /\ UNCHANGED <<prog, group, strays>>
           /\ \/ /\ Advances(op) /\ child.state = "stopped" /\ ~child.told
                 /\ child' = [child EXCEPT !.told = TRUE] /\ parent'.status = "stopped"
              \/ /\ Advances(op) /\ op # "wait-stop" /\ child.state = "zombie"
                 /\ child' = [child EXCEPT !.state = "reaped"]
              \/ /\ op = "wait-stop" /\ child.state = "zombie"
                 /\ child' = [child EXCEPT !.state = "reaped"]
                 /\ parent' = [parent EXCEPT !.status = "exited"]
  BY WaitTypes
<1>2. op \notin Sends /\ op \notin {"pause", "add", "freeze"}
  BY DEF Waits, Sends
<1>3. Outstanding \in Nat /\ Outstanding' \in Nat /\ Cardinality(child.pend) \in Nat
  BY <1>1, OutstandingType, NextOutstandingType
<1>4. CASE /\ Advances(op) /\ child.state = "stopped" /\ ~child.told
           /\ child' = [child EXCEPT !.told = TRUE] /\ parent'.status = "stopped"
  <2>1. /\ child'.pend = child.pend /\ child'.state = "stopped" /\ child'.told
        /\ child'.pc = child.pc /\ child'.in = child.in /\ child'.why = child.why
    BY <1>4 DEF Typed, ChildType
  <2>2. Outstanding' + 1 = Outstanding
    BY <1>3, <1>4, <2>1 DEF Outstanding, Untold
  <2>3. Effect(op)
    BY <1>1, <1>2, <1>3, <1>4, <2>1, <2>2 DEF Effect, Forked, Alive
  <2>. QED
    BY <2>3
<1>5. CASE /\ Advances(op) /\ op # "wait-stop" /\ child.state = "zombie"
           /\ child' = [child EXCEPT !.state = "reaped"]
  <2>1. /\ child'.pend = child.pend /\ child'.state = "reaped"
        /\ child'.pc = child.pc /\ child'.in = child.in
    BY <1>5 DEF Typed, ChildType
  <2>2. op \in {"wait", "look"}
    BY <1>5 DEF Waits
  <2>3. Effect(op)
    BY <1>1, <1>2, <1>3, <1>5, <2>1, <2>2 DEF Effect, Forked, Alive
  <2>. QED
    BY <2>3
<1>6. CASE /\ op = "wait-stop" /\ child.state = "zombie"
           /\ child' = [child EXCEPT !.state = "reaped"]
           /\ parent' = [parent EXCEPT !.status = "exited"]
  <2>1. /\ child'.pend = child.pend /\ child'.state = "reaped"
        /\ child'.pc = child.pc /\ child'.in = child.in
        /\ parent'.state = parent.state /\ parent'.pc = parent.pc
    BY <1>6 DEF Typed, ChildType, ParentType
  <2>. QED
    BY <1>1, <1>6, <2>1 DEF P
<1>. QED
  BY <1>1, <1>4, <1>5, <1>6

(* waitpid finds no child, and the programs that do not look at what it    *)
(* returns go on.                                                          *)
LEMMA LookEffect ==
  ASSUME Typed, P("look"), parent' = Past, UNCHANGED <<prog, child, group, strays>>,
         child.state \in {"none", "reaped"}
  PROVE  Effect("look")
<1>1. /\ Advances("look") /\ Typed' /\ parent'.status = parent.status
  BY PastTypes, QuietTypes
<1>2. \/ child'.state = "reaped"
      \/ ~Forked
  BY DEF Forked
<1>. QED
  BY <1>1, <1>2 DEF Effect, Forked, Alive, Waits, Sends
-----------------------------------------------------------------------------
(* The invariants over a step to the next call.                            *)

LEMMA EffectCall ==
  ASSUME Typed, NEW op, Effect(op)
  PROVE  /\ parent.state = "runs" /\ parent'.state = "runs" /\ parent.pc \in Nat \ {0}
         /\ parent'.pc = parent.pc + 1 /\ Calls[parent.pc].op = op /\ prog' = prog
         /\ Calls' = Calls /\ Calls = Code(prog) /\ prog \in DOMAIN Programs
         /\ parent.pc \in DOMAIN Calls
  BY CallFacts DEF Effect, Advances, Calls, Typed, ParentType

LEMMA EffectStops ==
  ASSUME Typed, Stops, NEW op, Effect(op)
  PROVE  Stops'
<1>1. /\ parent.state = "runs" /\ parent.pc \in Nat \ {0}
      /\ parent'.pc = parent.pc + 1 /\ Calls[parent.pc].op = op /\ prog' = prog
      /\ Calls' = Calls /\ Calls = Code(prog)
  BY EffectCall
<1>2. /\ MaySee(prog, parent.pc) \subseteq MaySee(prog, parent.pc + 1)
      /\ op \in Sends => Signal(Calls[parent.pc]) \in MaySee(prog, parent.pc + 1)
  BY <1>1, MaySeeNext
<1>3. child'.pend \subseteq MaySee(prog, parent.pc + 1)
  BY <1>1, <1>2 DEF Stops, Effect
<1>4. child'.state = "stopped" => child'.why \in MaySee(prog, parent.pc + 1)
  BY <1>1, <1>2 DEF Stops, Effect
<1>5. Held(Calls, parent.pc + 1) => child'.state = "stopped" /\ child'.told
  <2>1. HAVE Held(Calls, parent.pc + 1)
  <2>2. (Held(Calls, parent.pc) /\ ~Ends1(Calls[parent.pc])) \/ op = "wait-stop"
    BY <1>1, <2>1, HeldNext
  <2>. QED
    BY <1>1, <2>2 DEF Stops, Effect
<1>6. Reached(Calls, parent.pc + 1)
  <2>1. ~Last(Calls, parent.pc)
    BY <1>1 DEF Last, Stops, Effect
  <2>. QED
    BY <1>1, <2>1, OthersNext DEF Stops
<1>. QED
  BY <1>1, <1>3, <1>4, <1>5, <1>6 DEF Stops

(* A call of the parent keeps the ledger.                                  *)
LEMMA EffectLedger ==
  ASSUME Typed, Ledger, NEW op, Effect(op)
  PROVE  Ledger'
<1>1. /\ parent.state = "runs" /\ parent.pc \in Nat \ {0}
      /\ parent'.pc = parent.pc + 1 /\ Calls[parent.pc].op = op /\ prog' = prog /\ Calls' = Calls
  BY EffectCall
<1>2. Own' = Own /\ Own \in Nat
  <2>1. child.pc \in Nat \ {0}
    BY DEF Typed, ChildType
  <2>2. Own' = Own
    BY <1>1 DEF Effect, Own
  <2>. QED
    BY <2>1, <2>2, DoneNext DEF Own
<1>3. Outstanding \in Nat /\ Outstanding' \in Nat
  BY OutstandingType, NextOutstandingType DEF Effect
<1>. DEFINE W(i) == Done(Calls, Waits, i)
            S(i) == Done(Calls, Sends, i)
<1>4. /\ W(parent.pc) \in Nat
      /\ op \in Waits => W(parent.pc + 1) = W(parent.pc) + 1
      /\ op \notin Waits => W(parent.pc + 1) = W(parent.pc)
  <2>1. W(parent.pc + 1) = W(parent.pc) + (IF Calls[parent.pc].op \in Waits THEN 1 ELSE 0)
    BY <1>1, DoneNext
  <2>2. W(parent.pc) \in Nat
    BY <1>1, DoneNext
  <2>. QED
    BY <1>1, <2>1, <2>2
<1>5. /\ S(parent.pc) \in Nat
      /\ op \in Sends => S(parent.pc + 1) = S(parent.pc) + 1
      /\ op \notin Sends => S(parent.pc + 1) = S(parent.pc)
  <2>1. S(parent.pc + 1) = S(parent.pc) + (IF Calls[parent.pc].op \in Sends THEN 1 ELSE 0)
    BY <1>1, DoneNext
  <2>2. S(parent.pc) \in Nat
    BY <1>1, DoneNext
  <2>. QED
    BY <1>1, <2>1, <2>2
<1>6. Forked' => Forked /\ (child.state = "reaped" => child'.state = "reaped")
  BY DEF Effect
<1>7. Forked => \/ child.state = "reaped"
                \/ W(parent.pc) + Outstanding <= S(parent.pc) + Own
  BY <1>1 DEF Ledger
<1>8. Forked' => \/ child'.state = "reaped"
                 \/ W(parent.pc + 1) + Outstanding' <= S(parent.pc + 1) + Own
  <2>1. SUFFICES ASSUME Forked', child'.state # "reaped"
                 PROVE  W(parent.pc + 1) + Outstanding' <= S(parent.pc + 1) + Own
    OBVIOUS
  <2>2. W(parent.pc) + Outstanding <= S(parent.pc) + Own /\ Forked
    BY <1>6, <1>7, <2>1
  <2>3. \/ op \notin Waits /\ op \in Sends /\ Outstanding' <= Outstanding + 1
        \/ op \notin Waits /\ Outstanding' <= Outstanding
        \/ op \in Waits /\ op \notin Sends /\ Outstanding' + 1 <= Outstanding
    BY <2>1, <2>2 DEF Effect
  <2>. HIDE DEF W, S
  <2>4. CASE op \notin Waits /\ op \in Sends /\ Outstanding' <= Outstanding + 1
    BY <1>2, <1>3, <1>4, <1>5, <2>2, <2>4
  <2>5. CASE op \notin Waits /\ Outstanding' <= Outstanding
    BY <1>2, <1>3, <1>4, <1>5, <2>2, <2>5
  <2>6. CASE op \in Waits /\ op \notin Sends /\ Outstanding' + 1 <= Outstanding
    <3>1. W(parent.pc + 1) = W(parent.pc) + 1 /\ S(parent.pc + 1) = S(parent.pc)
      BY <1>4, <1>5, <2>6
    <3>2. W(parent.pc) \in Nat /\ S(parent.pc) \in Nat
      BY <1>4, <1>5
    <3>. QED
      <4>1. \A w, o, s, n, e \in Nat : w + o <= s + n /\ e + 1 <= o => (w + 1) + e <= s + n
        OBVIOUS
      <4>. QED
        BY <1>2, <1>3, <2>2, <2>6, <3>1, <3>2, <4>1
  <2>. QED
    BY <2>3, <2>4, <2>5, <2>6
<1>. QED
  BY <1>1, <1>2, <1>8 DEF Ledger

(* More waits than stops: the ledger does not balance.                     *)
LEMMA WaitedOutFails ==
  ASSUME NEW k \in DOMAIN Programs, NEW i \in Nat \ {0}, NEW p \in Nat \ {0},
         p <= Len(ChildCode(k)), NEW out \in Nat, WaitedOut(k, i),
         Done(Code(k), Waits, i) + out
           <= Done(Code(k), Sends, i) + Done(ChildCode(k), OwnStops(k), p)
  PROVE  FALSE
<1>. DEFINE W == Done(Code(k), Waits, i)
            S == Done(Code(k), Sends, i)
            O == Done(ChildCode(k), OwnStops(k), p)
            E == Done(ChildCode(k), OwnStops(k), End(ChildCode(k)))
<1>1. Len(ChildCode(k)) \in Nat
  <2> DEFINE c == ChildCode(k)
  <2>1. c \in Seq({c[j] : j \in DOMAIN c})
    BY CallsAssumption
  <2>. QED
    BY <2>1
<1>2. End(ChildCode(k)) \in Nat \ {0} /\ p <= End(ChildCode(k))
  BY <1>1 DEF End
<1>3. O <= E
  BY <1>2, DoneGrows
<1>4. W \in Nat /\ S \in Nat /\ O \in Nat /\ E \in Nat
  BY <1>2, DoneNext
<1>5. W > S + E
  BY DEF WaitedOut
<1>6. W + out <= S + O
  OBVIOUS
<1>. HIDE DEF W, S, O, E
<1>. QED
  BY <1>3, <1>4, <1>5, <1>6

(* More waits than stops: one of them has seen the end of the child.       *)
LEMMA WaitedOutReaped ==
  ASSUME Typed, Ledger, parent.state = "runs", Forked, WaitedOut(prog, parent.pc)
  PROVE  child.state = "reaped"
<1>1. /\ prog \in DOMAIN Programs /\ parent.pc \in Nat \ {0} /\ child.pc \in Nat \ {0}
      /\ child.pc <= Len(ChildCode(prog)) /\ Outstanding \in Nat
  BY OutstandingType DEF Typed, ChildType, ParentType
<1>. QED
  BY <1>1, WaitedOutFails DEF Ledger, Own, Calls

(* A call of the parent keeps what is known of the end of its child.       *)
LEMMA EffectReaps ==
  ASSUME Typed, Reaps, NEW op, Effect(op), Ledger'
  PROVE  Reaps'
<1>1. /\ parent.state = "runs" /\ parent'.state = "runs" /\ parent.pc \in Nat \ {0}
      /\ parent'.pc = parent.pc + 1 /\ Calls[parent.pc].op = op /\ prog' = prog /\ Calls' = Calls
      /\ prog \in DOMAIN Programs /\ P(op)
  BY EffectCall DEF Effect, Advances
<1>2. parent'.status = "exited" => child'.state = "reaped"
  BY DEF Reaps, Effect
<1>3. child'.state = "reaped" => MayReap(Calls, parent.pc + 1)
  <2>1. HAVE child'.state = "reaped"
  <2>2. CASE op \in {"wait", "look"}
    BY <1>1, <2>2, OthersNext
  <2>3. CASE child.state = "reaped" /\ op \notin {"wait", "look"}
    <3>1. op # "wait-stop"
      BY <2>1 DEF Effect
    <3>2. MayReap(Calls, parent.pc)
      BY <1>1, <2>3, <3>1 DEF Reaps, P
    <3>. QED
      BY <1>1, <3>2, OthersNext
  <2>. QED
    BY <2>1, <2>2, <2>3 DEF Effect
<1>4. BroadcastOnlyUnforked'
  BY <1>1 DEF BroadcastOnlyUnforked, Reaps, SignalsReachChild, Effect
<1>5. "reaped" \notin strays'
  BY <1>1 DEF StaleOnlyAfterEnd, Reaps, SignalsReachChild, Effect
<1>6. ReapedAtEnd'
  <2>1. SUFFICES ASSUME Forked', P("pause")', prog \in {"signal_ptrace_stop", "signal_ptrace_exit"}
                 PROVE  child'.state = "reaped"
    BY <1>1 DEF ReapedAtEnd
  <2>2. Typed'
    BY DEF Effect
  <2>3. parent'.pc \in 1..End(Code(prog)) /\ Code(prog)[parent'.pc].op = "pause"
    BY <1>1, <2>1, <2>2, CallFacts DEF Typed, ParentType, P, Calls, Code
  <2>4. WaitedOut(prog, parent'.pc)
    BY <2>1, <2>3, EndAssumption
  <2>. QED
    <3>1. /\ prog' = prog /\ parent'.pc \in Nat \ {0} /\ child'.pc \in Nat \ {0}
          /\ child'.pc <= Len(ChildCode(prog)) /\ Outstanding' \in Nat
      BY <1>1, <2>2, NextOutstandingType DEF Typed, ChildType, ParentType
    <3>2. CASE child'.state # "reaped"
      <4>1. Done(Code(prog), Waits, parent'.pc) + Outstanding'
              <= Done(Code(prog), Sends, parent'.pc)
                   + Done(ChildCode(prog), OwnStops(prog), child'.pc)
        BY <1>1, <2>1, <3>1, <3>2 DEF Ledger, Own, Calls
      <4>. QED
        BY <1>1, <2>4, <3>1, <4>1, WaitedOutFails
    <3>. QED
      BY <3>2
<1>. QED
  BY <1>1, <1>2, <1>3, <1>4, <1>5, <1>6 DEF Reaps, SignalsReachChild, StaleOnlyAfterEnd

LEMMA EffectFreezes ==
  ASSUME Typed, Freezes, NEW op, Effect(op)
  PROVE  Freezes'
<1>1. /\ parent.pc \in Nat \ {0}
      /\ parent'.pc = parent.pc + 1 /\ Calls[parent.pc].op = op /\ Calls' = Calls
  BY EffectCall
<1>2. FrozenAt(Calls, parent.pc + 1) => group'.frozen
  BY <1>1, FrozenNext DEF Freezes, Effect
<1>3. AddedAt(Calls, parent.pc + 1) /\ Alive' => child'.in
  BY <1>1, OthersNext DEF Freezes, Effect
<1>. QED
  BY <1>1, <1>2, <1>3 DEF Freezes

LEMMA EffectInv ==
  ASSUME IInv, NEW op, Effect(op)
  PROVE  IInv'
<1>1. Typed' /\ Ledger'
  BY EffectLedger DEF IInv, Effect
<1>. QED
  BY <1>1, EffectStops, EffectReaps, EffectFreezes DEF IInv
-----------------------------------------------------------------------------
(* The other steps.                                                        *)

(* The parent leaves, after any call: of a child that has been waited for  *)
(* only ^C and wait_for_signal do not know; and at its end it has waited.  *)
LEMMA LeavesInv ==
  ASSUME IInv, parent.state = "runs", NEW how \in {"done", "failed", "interrupted"},
         Leaves(how),
         strays' = strays \/ how # "failed" \/ child.state # "reaped" \/ P("wait-stop"),
         how = "done" => strays' = strays /\ parent.pc = End(Calls)
  PROVE  IInv'
<1>1. /\ Typed' /\ parent'.state = how /\ parent'.pc = parent.pc
      /\ parent'.status = parent.status
      /\ child'.pc = child.pc /\ child'.in = child.in
      /\ child'.state = "none" <=> child.state = "none"
      /\ Alive' => Alive
      /\ child.state = "reaped" => child'.state = "reaped"
  BY LeavingTypes DEF IInv
<1>2. /\ prog' = prog /\ Calls' = Calls /\ Calls = Programs[prog].parent
      /\ group' = group /\ parent'.state \notin {"runs", "fork"}
  BY <1>1 DEF Leaves, Calls, Code
<1>3. Stops'
  BY <1>1, <1>2 DEF IInv, Stops
<1>4. Ledger'
  BY <1>2 DEF Ledger
<1>5. Freezes'
  BY <1>1, <1>2 DEF IInv, Freezes
<1>6. Reaps'
  <2>1. parent'.status = "exited" => child'.state = "reaped"
    BY <1>1 DEF IInv, Reaps
  <2>2. BroadcastOnlyUnforked'
    BY <1>1, <1>2 DEF IInv, Reaps, SignalsReachChild, BroadcastOnlyUnforked, Leaves, StrayKill, Forked
  <2>3. StaleOnlyAfterEnd'
    <3>1. "reaped" \notin strays
      BY DEF IInv, Reaps, SignalsReachChild, StaleOnlyAfterEnd
    <3>2. strays' # strays => child.state = "reaped"
      BY DEF Leaves, StrayKill
    <3>. QED
      BY <1>1, <1>2, <3>1, <3>2 DEF StaleOnlyAfterEnd, P
  <2>4. ReapedAtEnd'
    <3>1. SUFFICES ASSUME Forked', how = "done",
                          prog \in {"signal_ptrace_stop", "signal_ptrace_exit"}
                   PROVE  child'.state = "reaped"
      BY <1>1, <1>2 DEF ReapedAtEnd, P
    <3>2. Forked
      BY <1>1, <3>1 DEF Forked
    <3>3. WaitedOut(prog, parent.pc)
      <4>1. End(Code(prog)) \in 1..End(Code(prog))
        BY CallFacts DEF IInv, Calls
      <4>. QED
        BY <3>1, <4>1, EndAssumption DEF Calls
    <3>. QED
      BY <1>1, <3>2, <3>3, WaitedOutReaped DEF IInv
  <2>. QED
    BY <1>2, <2>1, <2>2, <2>3, <2>4 DEF Reaps, SignalsReachChild
<1>. QED
  BY <1>1, <1>3, <1>4, <1>5, <1>6 DEF IInv

(* No call that may fail is made once the child may have been waited for,  *)
(* but for wait_for_signal.                                                *)
LEMMA ErrorInv ==
  ASSUME IInv, NEW op \in {"seize", "kill", "wait", "add", "freeze", "thaw", "wait-stop"},
         P(op), HandleError
  PROVE  IInv'
<1>1. parent.state = "runs"
  BY DEF P
<1>2. Leaves("failed")
  BY <1>1, ErrorTypes DEF IInv
<1>3. child.state # "reaped" \/ P("wait-stop")
  <2>1. CASE op = "wait-stop"
    BY <2>1
  <2>2. CASE op # "wait-stop"
    <3>1. ~P("wait-stop")
      BY <2>2, CallOp
    <3>2. prog \in DOMAIN Programs /\ parent.pc \in DOMAIN Code(prog) /\ Code(prog)[parent.pc].op = op
      BY CallFacts DEF IInv, Typed, Calls
    <3>3. ~MayReap(Code(prog), parent.pc)
      BY <2>2, <3>2, ErrorAssumption DEF IInv, Stops, Calls
    <3>. QED
      BY <1>1, <3>1, <3>3 DEF IInv, Reaps, Calls
  <2>. QED
    BY <2>1, <2>2
<1>. QED
  BY <1>1, <1>2, <1>3, LeavesInv

(* SIGINT reaches the parent, which catches it or does not.                *)
LEMMA InterruptInv ==
  ASSUME IInv, Interrupt \/ InterruptUncaught
  PROVE  IInv'
<1>1. parent.state = "runs" /\ Leaves("interrupted")
  BY InterruptTypes DEF IInv
<1>. QED
  BY <1>1, LeavesInv

(* The parent returns from main.                                           *)
LEMMA ReturnInv ==
  ASSUME IInv, Return
  PROVE  IInv'
<1>1. parent.state = "runs" /\ parent.pc = End(Calls) /\ Leaves("done") /\ strays' = strays
  BY ReturnTypes DEF IInv
<1>. QED
  BY <1>1, LeavesInv

(* fork, whether it succeeds or not.                                       *)
LEMMA ForkInv ==
  ASSUME IInv, Fork
  PROVE  IInv'
<1>1. /\ Typed' /\ parent.pc = 1 /\ parent'.pc = 1 /\ parent'.state = "runs" /\ child.pc = 1
      /\ prog' = prog /\ child'.pend = {} /\ child.pc = child'.pc /\ ~Alive
      /\ parent'.status = parent.status /\ child'.in = child.in /\ child.state = "none"
      /\ child'.state \in {"none", "runs"} /\ UNCHANGED <<group, strays>>
  BY ForkTypes DEF IInv
<1>2. parent.state = "fork" /\ Calls' = Calls
  BY <1>1 DEF Fork, Calls
<1>3. ~Held(Calls, 1) /\ ~FrozenAt(Calls, 1) /\ ~AddedAt(Calls, 1) /\ Reached(Calls, 1)
  BY NothingFirst
<1>4. Stops' /\ Freezes'
  BY <1>1, <1>2, <1>3 DEF Stops, Freezes
<1>5. Ledger'
  <2>1. Done(Calls, Waits, 1) = 0 /\ Done(Calls, Sends, 1) = 0
    BY DoneFirst
  <2>2. Own' \in Nat
    BY <1>1, DoneFirst DEF Own
  <2>3. Outstanding' = 0
    BY <1>1, FS_EmptySet DEF Outstanding, Untold
  <2>. QED
    BY <1>1, <1>2, <2>1, <2>2, <2>3 DEF Ledger
<1>6. Reaps'
  <2>1. strays = {}
    <3>1. "all" \notin strays /\ "reaped" \notin strays
      BY <1>2 DEF IInv, Reaps, SignalsReachChild, StaleOnlyAfterEnd
    <3>. QED
      BY <3>1 DEF IInv, Typed
  <2>2. parent.status # "exited"
    BY <1>1 DEF IInv, Reaps
  <2>3. ReapedAtEnd'
    <3>1. SUFFICES ASSUME Forked', P("pause")', prog \in {"signal_ptrace_stop", "signal_ptrace_exit"}
                   PROVE  child'.state = "reaped"
      BY <1>1 DEF ReapedAtEnd
    <3>2. 1 \in 1..End(Code(prog)) /\ Code(prog)[1].op = "pause"
      BY <1>1, <3>1, CallFacts DEF IInv, P, Calls, Code
    <3>3. WaitedOut(prog, 1)
      BY <3>1, <3>2, EndAssumption
    <3>4. Done(Code(prog), Waits, 1) = 0 /\ Done(Code(prog), Sends, 1) = 0
      BY DoneFirst
    <3>5. Done(ChildCode(prog), OwnStops(prog), 1) = 0 /\ 1 \in Nat \ {0}
      BY DoneFirst
    <3>6. prog \in DOMAIN Programs /\ 1 <= Len(ChildCode(prog))
      BY CallFacts DEF IInv, Typed
    <3>. QED
      BY <3>3, <3>4, <3>5, <3>6, WaitedOutFails
  <2>. QED
    BY <1>1, <2>1, <2>2, <2>3
       DEF Reaps, SignalsReachChild, BroadcastOnlyUnforked, StaleOnlyAfterEnd
<1>. QED
  BY <1>1, <1>4, <1>5, <1>6 DEF IInv

(* A wait that returns.                                                    *)
LEMMA WaitInv ==
  ASSUME IInv, WaitReturns
  PROVE  IInv'
<1>1. CASE \E op : Effect(op)
  BY <1>1, EffectInv
<1>2. CASE /\ P("wait-stop") /\ P("wait-stop")' /\ Typed' /\ UNCHANGED <<prog, group, strays>>
           /\ child.state = "zombie" /\ child'.state = "reaped"
           /\ child'.pc = child.pc /\ child'.pend = child.pend /\ child'.in = child.in
           /\ parent'.state = parent.state /\ parent'.pc = parent.pc
  <2>1. parent.state = "runs" /\ Calls' = Calls
    BY <1>2 DEF P, Calls
  <2>2. Stops' /\ Ledger' /\ Freezes'
    BY <1>2, <2>1 DEF IInv, Stops, Ledger, Freezes, Alive
  <2>3. Reaps'
    <3>1. ~P("pause")'
      BY <1>2 DEF P
    <3>. QED
      BY <1>2, <2>1, <3>1 DEF IInv, Reaps, SignalsReachChild, BroadcastOnlyUnforked,
                              StaleOnlyAfterEnd, ReapedAtEnd, Forked
  <2>. QED
    BY <1>2, <2>2, <2>3 DEF IInv
<1>. QED
  BY <1>1, <1>2, WaitEffect DEF IInv

(* The child runs: it has not been waited for, and is not held.            *)
LEMMA ChildInv ==
  ASSUME IInv, Typed', UNCHANGED <<prog, parent, group, strays>>, child.state = "runs",
         child'.state \in {"runs", "stopped", "zombie"}, child'.in = child.in,
         parent.state = "runs" =>
           /\ child'.pend \subseteq MaySee(prog, parent.pc)
           /\ child'.state = "stopped" => child'.why \in MaySee(prog, parent.pc),
         Outstanding' + Own <= Outstanding + Own', Own \in Nat, Own' \in Nat
  PROVE  IInv'
<1>1. Calls' = Calls /\ (P("pause")' <=> P("pause")) /\ (P("wait-stop")' <=> P("wait-stop"))
  BY DEF Calls, P
<1>2. Stops' /\ Freezes'
  BY <1>1 DEF IInv, Stops, Freezes, Alive
<1>3. Ledger'
  <2>1. SUFFICES ASSUME parent.state = "runs"
                 PROVE  Done(Calls, Waits, parent.pc) + Outstanding'
                          <= Done(Calls, Sends, parent.pc) + Own'
    BY <1>1 DEF Ledger
  <2>2. Done(Calls, Waits, parent.pc) + Outstanding <= Done(Calls, Sends, parent.pc) + Own
    BY <2>1 DEF IInv, Ledger, Forked
  <2>3. Done(Calls, Waits, parent.pc) \in Nat /\ Done(Calls, Sends, parent.pc) \in Nat
    BY DoneNext DEF IInv, Typed, ParentType
  <2>4. Outstanding \in Nat /\ Outstanding' \in Nat
    BY OutstandingType, NextOutstandingType DEF IInv
  <2>. QED
    BY <2>2, <2>3, <2>4
<1>4. Reaps'
  <2>1. parent.status # "exited"
    BY DEF IInv, Reaps
  <2>2. BroadcastOnlyUnforked' /\ StaleOnlyAfterEnd'
    BY DEF IInv, Reaps, SignalsReachChild, BroadcastOnlyUnforked, StaleOnlyAfterEnd, Forked
  <2>3. ReapedAtEnd'
    BY <1>1 DEF IInv, Reaps, SignalsReachChild, ReapedAtEnd, Forked
  <2>. QED
    BY <2>1, <2>2, <2>3 DEF IInv, Reaps, SignalsReachChild
<1>. QED
  BY <1>2, <1>3, <1>4 DEF IInv

(* The child takes a signal.                                               *)
LEMMA TakeInv ==
  ASSUME IInv, TakeSignal
  PROVE  IInv'
<1>1. /\ Typed' /\ UNCHANGED <<prog, parent, group, strays>> /\ child.state = "runs"
      /\ child'.pc = child.pc /\ child'.in = child.in
      /\ \/ child' = Dead /\ child'.state = "zombie"
         \/ \E s \in child.pend :
              /\ child'.state = "stopped" /\ child'.why = s /\ ~child'.told
              /\ child'.pend = child.pend \ {s}
  BY TakeTypes DEF IInv
<1>2. Own' = Own /\ Own \in Nat
  <2>1. child.pc \in Nat \ {0}
    BY DEF IInv, Typed, ChildType
  <2>. QED
    BY <1>1, <2>1, DoneNext DEF Own
<1>3. Outstanding \in Nat /\ Cardinality(child.pend) \in Nat /\ Outstanding = Cardinality(child.pend)
  BY <1>1, OutstandingType DEF IInv, Outstanding, Untold
<1>4. CASE child' = Dead /\ child'.state = "zombie"
  <2>1. child'.pend = {}
    BY <1>4, SentTypes DEF IInv, Typed
  <2>2. Outstanding' = 0
    BY <1>4, <2>1, FS_EmptySet DEF Outstanding, Untold
  <2>. QED
    BY <1>1, <1>2, <1>3, <1>4, <2>1, <2>2, ChildInv
<1>5. CASE \E s \in child.pend :
             /\ child'.state = "stopped" /\ child'.why = s /\ ~child'.told
             /\ child'.pend = child.pend \ {s}
  <2>1. PICK s \in child.pend :
          /\ child'.state = "stopped" /\ child'.why = s /\ ~child'.told
          /\ child'.pend = child.pend \ {s}
    BY <1>5
  <2>2. Cardinality(child.pend \ {s}) = Cardinality(child.pend) - 1
    <3>1. child.pend \in SUBSET Signals
      BY DEF IInv, Typed, ChildType
    <3>. QED
      BY <3>1, PendCount
  <2>3. Outstanding' = Outstanding
    BY <1>3, <2>1, <2>2 DEF Outstanding, Untold
  <2>4. parent.state = "runs" => child.pend \subseteq MaySee(prog, parent.pc)
    BY DEF IInv, Stops
  <2>. QED
    BY <1>1, <1>2, <1>3, <2>1, <2>3, <2>4, ChildInv
<1>. QED
  BY <1>1, <1>4, <1>5

(* A child that stops itself is one its parent traces.                     *)
LEMMA StepsInv ==
  ASSUME IInv, ChildSteps
  PROVE  IInv'
<1>. DEFINE op == ChildCode(prog)[child.pc].op
<1>1. /\ Typed' /\ UNCHANGED <<prog, parent, group, strays>> /\ child.state = "runs"
      /\ child'.in = child.in /\ child.pend = {}
      /\ \/ child' = Dead /\ child'.state = "zombie"
         \/ /\ child'.state = "runs" /\ child'.pc = child.pc + 1
            /\ \/ child'.pend = {}
               \/ op = "raise-stop" /\ child'.pend = {"STOP"}
               \/ /\ op = "exec" /\ child'.pend = {"TRAP"}
                  /\ ChildCode(prog)[1].op = "traceme"
  BY ChildTypes DEF IInv
<1>2. /\ prog \in DOMAIN Programs /\ child.pc \in Nat \ {0} /\ child.pc \in DOMAIN ChildCode(prog)
  <2>1. /\ prog \in DOMAIN Programs /\ child.pc \in Nat \ {0} /\ child.pc <= Len(ChildCode(prog))
    BY DEF IInv, Typed, ChildType
  <2>2. DOMAIN ChildCode(prog) = 1..Len(ChildCode(prog)) /\ Len(ChildCode(prog)) \in Nat
    <3> DEFINE c == ChildCode(prog)
    <3>1. c \in Seq({c[i] : i \in DOMAIN c})
      BY <2>1, CallsAssumption
    <3>. QED
      BY <3>1
  <2>. QED
    BY <2>1, <2>2
<1>3. /\ Own \in Nat
      /\ Done(ChildCode(prog), OwnStops(prog), child.pc + 1)
           = Own + (IF op \in OwnStops(prog) THEN 1 ELSE 0)
  BY <1>2, DoneNext DEF Own
<1>4. Outstanding = 0
  BY <1>1, FS_EmptySet DEF Outstanding, Untold
<1>5. CASE child' = Dead /\ child'.state = "zombie"
  <2>1. child'.pend = {} /\ child'.pc = child.pc
    BY <1>5, SentTypes DEF IInv, Typed
  <2>2. Outstanding' = 0 /\ Own' = Own
    BY <1>1, <1>5, <2>1, FS_EmptySet DEF Outstanding, Untold, Own
  <2>. QED
    BY <1>1, <1>3, <1>4, <1>5, <2>1, <2>2, ChildInv
<1>6. CASE child'.state = "runs" /\ child'.pc = child.pc + 1
  <2>1. Own' = Own + (IF op \in OwnStops(prog) THEN 1 ELSE 0)
    BY <1>1, <1>3, <1>6 DEF Own
  <2>2. CASE child'.pend = {}
    <3>1. Outstanding' = 0
      BY <1>6, <2>2, FS_EmptySet DEF Outstanding, Untold
    <3>2. Own' \in Nat /\ Own <= Own'
      BY <1>3, <2>1
    <3>3. Outstanding' + Own <= Outstanding + Own'
      <4>1. Own \in Nat
        BY <1>3
      <4>2. \A m, n \in Nat : m <= n => 0 + m <= 0 + n
        OBVIOUS
      <4>. QED
        BY <1>4, <3>1, <3>2, <4>1, <4>2
    <3>4. child'.pend \subseteq MaySee(prog, parent.pc)
      BY <2>2
    <3>. QED
      BY <1>1, <1>3, <1>6, <3>2, <3>3, <3>4, ChildInv
  <2>3. CASE \/ op = "raise-stop" /\ child'.pend = {"STOP"}
             \/ /\ op = "exec" /\ child'.pend = {"TRAP"}
                /\ ChildCode(prog)[1].op = "traceme"
    <3>1. ChildCode(prog)[1].op = "traceme"
      BY <1>2, <2>3, OwnStopsAssumption
    <3>2. op \in OwnStops(prog) /\ child'.pend \subseteq MaySee(prog, parent.pc)
      BY <2>3, <3>1 DEF OwnStops, MaySee
    <3>3. Outstanding' = 1
      <4>1. Cardinality(child'.pend) = 1
        BY <2>3, FS_Singleton
      <4>. QED
        BY <1>6, <4>1 DEF Outstanding, Untold
    <3>4. Own' = Own + 1
      BY <2>1, <3>2
    <3>. QED
      BY <1>1, <1>3, <1>4, <1>6, <3>2, <3>3, <3>4, ChildInv
  <2>. QED
    BY <1>1, <1>5, <1>6, <2>2, <2>3
<1>. QED
  BY <1>1, <1>5, <1>6

-----------------------------------------------------------------------------
(* At the start nothing has been sent, waited for or frozen.               *)
LEMMA InitInv ==
  ASSUME Init
  PROVE  IInv
<1>1. prog \in DOMAIN Programs /\ parent.pc = 1 /\ parent.state = "fork" /\ child.state = "none"
  BY DEF Init
<1>2. Len(Code(prog)) \in Nat /\ Len(ChildCode(prog)) \in Nat \ {0}
  <2> DEFINE c == Code(prog)
             d == ChildCode(prog)
  <2>1. /\ c \in Seq({c[i] : i \in DOMAIN c})
        /\ d \in Seq({d[i] : i \in DOMAIN d}) /\ Len(d) > 0
    BY <1>1, CallsAssumption
  <2>2. Len(c) \in Nat
    BY <2>1
  <2>3. Len(d) \in Nat
    BY <2>1
  <2>. QED
    BY <2>1, <2>2, <2>3
<1>3. Typed
  <2>1. parent \in ParentType /\ parent.pc <= End(Calls)
    BY <1>2 DEF Init, ParentType, End, Calls
  <2>2. child \in ChildType /\ child.pc <= Len(ChildCode(prog))
    BY <1>2 DEF Init, ChildType, Signals
  <2>. QED
    BY <2>1, <2>2 DEF Init, Typed
<1>4. ~Held(Calls, 1) /\ ~FrozenAt(Calls, 1) /\ ~AddedAt(Calls, 1) /\ Reached(Calls, 1)
  BY NothingFirst
<1>5. Stops /\ Freezes
  BY <1>4 DEF Init, Stops, Freezes
<1>6. Ledger
  BY <1>1 DEF Ledger
<1>7. Reaps
  BY DEF Init, Reaps, SignalsReachChild, BroadcastOnlyUnforked, StaleOnlyAfterEnd,
         ReapedAtEnd, P, Forked
<1>. QED
  BY <1>3, <1>5, <1>6, <1>7 DEF IInv

(* Every step keeps the invariant.                                         *)
LEMMA NextInv ==
  ASSUME IInv, Next
  PROVE  IInv'
<1>1. CASE Fork
  BY <1>1, ForkInv
<1>2. CASE Seize
  <2>1. CASE Alive
    BY <1>2, <2>1, SeizeEffect, EffectInv DEF IInv
  <2>2. CASE ~Alive
    BY <1>2, <2>2, ErrorInv DEF Seize
  <2>. QED
    BY <2>1, <2>2
<1>3. CASE Request
  BY <1>3, RequestEffect, EffectInv DEF IInv
<1>4. CASE KillChild
  <2>1. CASE Alive \/ child.state = "zombie"
    BY <1>4, <2>1, KillEffect, EffectInv DEF IInv
  <2>2. CASE ~(Alive \/ child.state = "zombie")
    BY <1>4, <2>2, ErrorInv DEF KillChild
  <2>. QED
    BY <2>1, <2>2
<1>5. CASE KillUnchecked
  BY <1>5, UncheckedEffect, EffectInv DEF IInv
<1>6. CASE Continue
  BY <1>6, ContinueEffect, EffectInv DEF IInv
<1>7. CASE WaitReturns
  BY <1>7, WaitInv
<1>8. CASE WaitFails
  <2>1. CASE (P("wait") \/ P("wait-stop")) /\ HandleError
    BY <2>1, ErrorInv
  <2>2. CASE P("look") /\ parent' = Past /\ UNCHANGED <<prog, child, group, strays>>
    BY <1>8, <2>2, LookEffect, EffectInv DEF IInv, WaitFails
  <2>. QED
    BY <1>8, <2>1, <2>2 DEF WaitFails
<1>9. CASE Speak
  BY <1>9, SpeakEffect, EffectInv DEF IInv
<1>10. CASE Freezer
  BY <1>10, FreezerEffect, EffectInv DEF IInv
<1>11. CASE FreezerFails
  BY <1>11, ErrorInv DEF FreezerFails
<1>12. CASE RemoveFreezer
  BY <1>12, RemoveEffect, EffectInv DEF IInv
<1>13. CASE Return
  BY <1>13, ReturnInv
<1>14. CASE ChildStep
  BY <1>14, TakeInv, StepsInv DEF ChildStep
<1>15. CASE Interrupt \/ InterruptUncaught
  BY <1>15, InterruptInv
<1>. QED
  BY <1>1, <1>2, <1>3, <1>4, <1>5, <1>6, <1>7, <1>8, <1>9, <1>10, <1>11, <1>12, <1>13,
     <1>14, <1>15 DEF Next, ParentStep

LEMMA StutterInv ==
  ASSUME IInv, UNCHANGED vars
  PROVE  IInv'
<1>1. /\ prog' = prog /\ parent' = parent /\ child' = child /\ group' = group
      /\ strays' = strays
  BY DEF vars
<1>2. Calls' = Calls /\ Own' = Own /\ Outstanding' = Outstanding
  BY <1>1 DEF Calls, Own, Outstanding, Untold
<1>3. Typed' /\ Stops' /\ Ledger' /\ Freezes'
  BY <1>1, <1>2 DEF IInv, Typed, Stops, Ledger, Freezes, Alive, Forked
<1>4. Reaps'
  BY <1>1, <1>2 DEF IInv, Reaps, SignalsReachChild, BroadcastOnlyUnforked, StaleOnlyAfterEnd,
                    ReapedAtEnd, P, Forked
<1>. QED
  BY <1>3, <1>4 DEF IInv

(* A child stops only for what its parent or it has sent, wait_for_signal  *)
(* holds it, and every wait that returns has been told of a stop of its    *)
(* own or of the end.                                                      *)
THEOREM Invariant == Spec => []IInv
<1>1. Init => IInv
  BY InitInv
<1>2. IInv /\ [Next]_vars => IInv'
  BY NextInv, StutterInv
<1>. QED
  BY <1>1, <1>2, PTL DEF Spec

(* The parent and its child are always in one of the states of TypeOK.     *)
THEOREM TypeCorrect == Spec => []TypeOK
<1>1. IInv => TypeOK
  <2>1. SUFFICES ASSUME IInv
                 PROVE  TypeOK
    OBVIOUS
  <2>2. /\ parent.pc \in 1..Len(Programs[prog].parent) + 1
        /\ child.pc \in 1..Len(Programs[prog].child)
    <3>1. /\ parent.pc \in Nat \ {0} /\ parent.pc <= End(Calls)
          /\ child.pc \in Nat \ {0} /\ child.pc <= Len(ChildCode(prog))
      BY <2>1 DEF IInv, Typed, ParentType, ChildType
    <3>2. /\ Len(Calls) \in Nat /\ End(Calls) = Len(Calls) + 1
          /\ Len(ChildCode(prog)) \in Nat \ {0}
      BY <2>1, CallFacts DEF IInv
    <3>3. parent.pc \in 1..Len(Calls) + 1 /\ child.pc \in 1..Len(ChildCode(prog))
      BY <3>1, <3>2
    <3>. QED
      BY <3>3 DEF Calls, Code, ChildCode
  <2>3. /\ prog \in DOMAIN Programs
        /\ parent.state \in {"fork", "runs", "done", "failed", "interrupted"}
        /\ parent.status \in {"unset", "stopped", "exited"}
        /\ group.dir \in BOOLEAN /\ group.frozen \in BOOLEAN
        /\ strays \subseteq {"all", "reaped"}
    BY <2>1 DEF IInv, Typed, ParentType
  <2>4. /\ child.state \in {"none", "runs", "stopped", "zombie", "reaped"}
        /\ child.traced \in BOOLEAN /\ child.told \in BOOLEAN /\ child.in \in BOOLEAN
        /\ child.why \in Signals \cup {"none"} /\ child.pend \subseteq Signals
        /\ (child.state = "stopped") = (child.why # "none")
    BY <2>1 DEF IInv, Typed, ChildType
  <2>. QED
    BY <2>2, <2>3, <2>4 DEF TypeOK
<1>. QED
  BY <1>1, Invariant, PTL

(* What a parent prints of its child is true then, but for the messages    *)
(* that Untrue names, whichever program it is: each of them follows calls  *)
(* that have made it true.                                                 *)
THEOREM MessagesTrue == Spec => []MessagesAreTrue
<1>1. IInv => MessagesAreTrue
  <2>1. SUFFICES ASSUME IInv, Forked,
                        \/ P("say")
                        \/ P("say-if-stopped") /\ parent.status = "stopped"
                        \/ P("say-if-exited") /\ parent.status = "exited",
                        <<prog, Arg>> \notin Untrue
                 PROVE  True(Arg)
    BY DEF MessagesAreTrue
  <2>2. PICK op \in Says : P(op) /\ (op = "say-if-exited" => parent.status = "exited")
    <3>1. CASE P("say")
      BY <3>1 DEF Says
    <3>2. CASE P("say-if-stopped")
      BY <3>2 DEF Says
    <3>3. CASE P("say-if-exited") /\ parent.status = "exited"
      BY <3>3 DEF Says
    <3>. QED
      BY <2>1, <3>1, <3>2, <3>3
  <2>3. /\ parent.state = "runs" /\ prog \in DOMAIN Programs /\ parent.pc \in DOMAIN Code(prog)
        /\ Code(prog)[parent.pc].op = op /\ Arg = Code(prog)[parent.pc].arg
        /\ Calls = Code(prog)
    <3>1. /\ parent.state = "runs" /\ parent.pc \in DOMAIN Calls /\ Calls[parent.pc].op = op
          /\ prog \in DOMAIN Programs
      BY <2>1, <2>2, CallFacts DEF IInv, Typed
    <3>2. Calls = Code(prog) /\ Arg = Code(prog)[parent.pc].arg
      BY DEF Calls, Arg, Code
    <3>. QED
      BY <3>1, <3>2
  <2>4. Justified(prog, parent.pc)
    BY <2>1, <2>3, MessageAssumption DEF IInv, Stops
  <2>5. \/ Arg = "gone" /\ (op = "say-if-exited" \/ WaitedOut(prog, parent.pc))
        \/ Arg = "frozen" /\ AddedAt(Calls, parent.pc) /\ FrozenAt(Calls, parent.pc)
        \/ /\ Arg = "in-EVENT" /\ Held(Calls, parent.pc)
           /\ MaySee(prog, parent.pc) \subseteq {"EVENT"}
    BY <2>1, <2>3, <2>4 DEF Justified
  <2>6. CASE Arg = "gone" /\ (op = "say-if-exited" \/ WaitedOut(prog, parent.pc))
    <3>1. child.state = "reaped"
      BY <2>1, <2>2, <2>3, <2>6, WaitedOutReaped DEF IInv, Reaps
    <3>. QED
      BY <2>6, <3>1 DEF True, Alive
  <2>7. CASE Arg = "frozen" /\ AddedAt(Calls, parent.pc) /\ FrozenAt(Calls, parent.pc)
    BY <2>1, <2>7 DEF True, IInv, Freezes
  <2>8. CASE /\ Arg = "in-EVENT" /\ Held(Calls, parent.pc)
             /\ MaySee(prog, parent.pc) \subseteq {"EVENT"}
    <3>1. child.state = "stopped" /\ child.why \in MaySee(prog, parent.pc)
      BY <2>1, <2>3, <2>8 DEF IInv, Stops
    <3>. QED
      BY <2>8, <3>1 DEF True
  <2>. QED
    BY <2>5, <2>6, <2>7, <2>8
<1>. QED
  BY <1>1, Invariant, PTL

(* A signal that a parent sends reaches its own child: what all processes  *)
(* get, or a process that is not the child, is sent only after a fork that *)
(* has failed, by ^C, or by wait_for_signal after the child's end; and the *)
(* two programs that end their child have seen it end.                     *)
THEOREM SignalsReach == Spec => []SignalsReachChild
<1>1. IInv => SignalsReachChild
  BY DEF IInv, Reaps
<1>. QED
  BY <1>1, Invariant, PTL
=============================================================================
