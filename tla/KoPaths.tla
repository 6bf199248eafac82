------------------------------ MODULE KoPaths ------------------------------
(***************************************************************************)
(* A check of the source of a kernel module that follows every path of its *)
(* functions.  The discipline of KoSteps knows one set of objects for each *)
(* position of a function, and so refuses code that goes on after a call   *)
(* it has not looked at, or that tests a pointer later.  Here a position   *)
(* has the set of all memories that the module may have there.             *)
(***************************************************************************)
EXTENDS KoSteps

(* What the module owns, and what it has released but still points to.     *)
Memory(h, g) == [held |-> h, gone |-> g]
Nothing      == Memory({}, {})

(* The memories step s leaves when the code goes on behind it.             *)
Passed(s, m) ==
  IF Gains(s)
  THEN {Memory(m.held \cup {s.res}, m.gone \ {s.res})}
       \cup (IF s.op = "get" /\ ~s.checked THEN {m} ELSE {})
  ELSE IF Releases(s) /\ s.res \in m.held
  THEN {Memory(m.held \ {s.res}, m.gone \cup {s.res})}
  ELSE IF s.op = "has" /\ s.res \notin m.held THEN {} ELSE {m}

(* Step s may take its error path.                                         *)
Refused(s, m) ==
  \/ s.op \in {"try", "param"}
  \/ s.op = "get" /\ s.checked
  \/ s.op = "has" /\ s.res \notin m.held

(* The parameters that are known to be passed when c has come to step i.   *)
Known(c, known, i) ==
  known \cup {c[j].res : j \in {k \in 1..(i - 1) : c[k].op = "param"}}

(* Step s does what it is meant to: no stale pointer, no address of 0.     *)
Harmless(s, m, known) ==
  /\ s.op \in {"use", "put"} => s.res \in m.held
  /\ s.op = "putif" => s.res \notin m.gone \ m.held
  /\ s.op = "call" => s.res \in known

(* The memories at each position of c, and at its end, if they are `from'  *)
(* at the first.                                                           *)
Walk(c, from) ==
  LET w[i \in 1..(Len(c) + 1)] ==
        IF i = 1 THEN <<from>>
        ELSE LET before == w[i - 1]
             IN  Append(before, UNION {Passed(c[i - 1], m) : m \in before[i - 1]})
  IN  w[Len(c) + 1]

(* Those with which step i takes its error path.                           *)
Turned(c, w, i) == {m \in w[i] : Refused(c[i], m)}

(* The memories in which c ends, and its error paths that return zero.     *)
Outcomes(c, from, zeros) ==
  LET w == Walk(c, from)
  IN  w[Len(c) + 1] \cup
      UNION {Walk(c[i].undo, Turned(c, w, i))[Len(c[i].undo) + 1] :
               i \in {j \in DOMAIN c : c[j].op \in MayFail /\ c[j].zero \in zeros}}

(* The memories of a module that is live: those init leaves, and those the *)
(* functions it has registered make of them.                               *)
LiveMemories(row) ==
  LET live[h \in 0..Len(row.serve)] ==
        IF h = 0 THEN Outcomes(row.init, {Nothing}, {TRUE})
        ELSE LET before == live[h - 1]
             IN  before \cup Outcomes(row.serve[h], before, BOOLEAN)
  IN  live[Len(row.serve)]

-----------------------------------------------------------------------------
(***************************************************************************)
(* What a module may promise: to leave no object of `free' behind, and, if *)
(* it is `careful', to take no step whose precondition does not hold.      *)
(***************************************************************************)

(* The memories w of code c are closed under its steps.                    *)
Line(c, w, known, promise) ==
  \A i \in DOMAIN c : \A m \in w[i] :
    /\ Passed(c[i], m) \subseteq w[i + 1]
    /\ promise.careful => Harmless(c[i], m, Known(c, known, i))

(* A function may end in memory m, after which the module is live or gone. *)
MayEnd(m, fate, live, promise) ==
  IF fate = "live" THEN m \in live ELSE m.held \cap promise.free = {}

(* Code c does what is promised, and so does each of its error paths.      *)
Path(c, w, known, live, promise, fate, failfate) ==
  /\ Line(c, w, known, promise)
  /\ \A m \in w[Len(c) + 1] : MayEnd(m, fate, live, promise)
  /\ \A i \in DOMAIN c : c[i].op \in MayFail =>
       LET undo == c[i].undo
           u    == Walk(undo, Turned(c, w, i))
       IN  /\ Turned(c, w, i) \subseteq u[1]
           /\ Line(undo, u, Known(c, known, i), promise)
           /\ \A m \in u[Len(undo) + 1] :
                MayEnd(m, IF c[i].zero THEN fate ELSE failfate, live, promise)

PathFrom(c, from, known, live, promise, fate, failfate) ==
  LET w == Walk(c, from)
  IN  from \subseteq w[1] /\ Path(c, w, known, live, promise, fate, failfate)

Keeps(row, promise) ==
  LET live  == LiveMemories(row)
      known == row.script.chk
  IN  /\ PathFrom(row.init, {Nothing}, known, live, promise, "live", "absent")
      /\ \A h \in DOMAIN row.serve :
           PathFrom(row.serve[h], live, known, live, promise, "live", "live")
      /\ PathFrom(row.exit, live, known, live, promise, "absent", "absent")
=============================================================================
