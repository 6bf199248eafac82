------------------------------ MODULE KoSteps ------------------------------
(***************************************************************************)
(* The vocabulary in which the init, handler and exit functions of the     *)
(* kernel test modules are written down.  A function of a module is a      *)
(* sequence of steps; a step names the one object of the kernel it is      *)
(* about.  Two kinds of step exist:                                        *)
(*                                                                         *)
(*   acts        use, call, put and putif run on, whatever they return;    *)
(*   fallible    get, take, try, param and has may find that the object    *)
(*               is not to be had; the code then runs `undo' and returns.  *)
(*                                                                         *)
(* What is kept of the C code is its control: the order of the calls, the  *)
(* checks it makes on their results, what it gives back on each error      *)
(* path, and whether it then returns an error or zero.                     *)
(***************************************************************************)
EXTENDS Naturals, Sequences

(***************************************************************************)
(* use r    dereferences r.                                                *)
(* call p   jumps to the address in module parameter p (0 when the loader  *)
(*          passed none).                                                  *)
(* put r    gives r back; r must be owned.                                 *)
(* putif r  gives r back if it was ever obtained: kfree, proc_remove, the  *)
(*          notifier unregistrations and `if (r)' tolerate a NULL r.       *)
(***************************************************************************)
ActOps == {"use", "call", "put", "putif"}
Act == [op: ActOps, res: STRING]

(***************************************************************************)
(* get r    a call that may fail; `checked' says whether the code looks.   *)
(* take r   a call that always obtains r.                                  *)
(* try w    a call that may fail and obtains nothing.                      *)
(* param p  the module's own test that parameter p was passed.             *)
(* has r    the module's own test of a pointer an unchecked get has left.  *)
(* `zero' says that the error path returns 0, so that the kernel keeps the *)
(* module.                                                                 *)
(***************************************************************************)
MayFail     == {"get", "try", "param", "has"}
FallibleOps == MayFail \cup {"take"}
Fallible == [op: FallibleOps, res: STRING, checked: BOOLEAN, zero: BOOLEAN,
             undo: Seq(Act)]

Step == Act \cup Fallible
Code == Seq(Step)

Use(r)   == [op |-> "use",   res |-> r]
Call(p)  == [op |-> "call",  res |-> p]
Put(r)   == [op |-> "put",   res |-> r]
PutIf(r) == [op |-> "putif", res |-> r]

Test(op, r, u) == [op |-> op, res |-> r, checked |-> TRUE, zero |-> FALSE,
                   undo |-> u]

Get(r, u)   == Test("get", r, u)
Try(w, u)   == Test("try", w, u)
Param(p, u) == Test("param", p, u)
Has(r, u)   == Test("has", r, u)
Take(r)     == Test("take", r, <<>>)
GetAny(r)   == [Get(r, <<>>) EXCEPT !.checked = FALSE]
OrZero(s)   == [s EXCEPT !.zero = TRUE]

(***************************************************************************)
(* The objects owned before step i of code c, when it was entered owning   *)
(* `base' and every step before i succeeded.                               *)
(***************************************************************************)
Gains(s)    == s.op \in {"get", "take"}
Releases(s) == s.op \in {"put", "putif"}

KeptSince(c, r, from, i) ==
  \A j \in from..(i - 1) : ~(Releases(c[j]) /\ c[j].res = r)

Flow(c, base, i) ==
  {r \in base : KeptSince(c, r, 1, i)}
    \cup {c[k].res : k \in {j \in 1..(i - 1) :
                             Gains(c[j]) /\ KeptSince(c, c[j].res, j + 1, i)}}

(***************************************************************************)
(* The discipline.  StepSafe: what step s needs is there when `owned' is   *)
(* what the module owns and `verified' the parameters known to be passed.  *)
(* Straight: a piece of error-path code that ends owning exactly `goal'.   *)
(* Balanced: every step is safe, every error path gives back exactly what  *)
(* was obtained so far, and the straight path ends owning `goal'.          *)
(***************************************************************************)
StepSafe(s, owned, verified) ==
  /\ s.op = "use"  => s.res \in owned
  /\ s.op = "call" => s.res \in verified
  /\ Releases(s)   => s.res \in owned
  /\ Gains(s)      => s.res \notin owned /\ s.checked
  /\ s.op # "has"

CodeSafe(c, base, verified) ==
  \A i \in DOMAIN c : StepSafe(c[i], Flow(c, base, i), verified)

Straight(c, base, verified, goal) ==
  /\ CodeSafe(c, base, verified)
  /\ Flow(c, base, Len(c) + 1) = goal

Balanced(c, base, verified, goal, failgoal) ==
  /\ Straight(c, base, verified, goal)
  /\ \A i \in DOMAIN c : c[i].op \in MayFail =>
       Straight(c[i].undo, Flow(c, base, i), verified,
                IF c[i].zero THEN goal ELSE failgoal)

(***************************************************************************)
(* A test case: the script (or program) that loads the module, and the     *)
(* module's functions.  `chk' holds the parameters the script has found    *)
(* non-zero before it loads; `verdict' is how it decides that loading      *)
(* worked (not at all, by the exit status of insmod, or by looking for     *)
(* "<module>.ko" in the output of lsmod); `finish' is what it does last.   *)
(***************************************************************************)
Verdicts == {"unchecked", "status", "lsmod"}
Finishes == {"rmmod", "reboot"}
ScriptType == [chk: SUBSET STRING, verdict: Verdicts, finish: Finishes]
RowType == [script: ScriptType, init: Code, serve: Seq(Code), exit: Code]

Script(chk, verdict) ==
  [chk |-> chk, verdict |-> verdict, finish |-> "rmmod"]
Row(s, i, h, e) == [script |-> s, init |-> i, serve |-> h, exit |-> e]

(* No script names the module: somebody types insmod and rmmod.            *)
by_hand == Script({}, "unchecked")

LiveSet(row) == Flow(row.init, {}, Len(row.init) + 1)

RowBalanced(row) ==
  LET live == LiveSet(row)
      V    == row.script.chk
  IN  /\ Balanced(row.init, {}, V, live, {})
      /\ \A h \in DOMAIN row.serve : Balanced(row.serve[h], live, V, live, live)
      /\ Straight(row.exit, live, V, {})
      /\ \A i \in DOMAIN row.exit : row.exit[i].op \in ActOps
=============================================================================
