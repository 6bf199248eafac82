---------------------------- MODULE PtraceSource ----------------------------
(***************************************************************************)
(* What the source of the programs of PtracePrograms must be like for      *)
(* their properties to hold: checks of the rows alone, which look at the   *)
(* calls before a call, and the assumption that the programs of the        *)
(* repository pass them.                                                   *)
(***************************************************************************)
EXTENDS PtracePrograms, FiniteSets

Code(k)      == Programs[k].parent
ChildCode(k) == Programs[k].child
Before(i)    == 1..(i - 1)
End(c)       == Len(c) + 1

Says  == {"say", "say-if-stopped", "say-if-exited"}
Waits == {"wait", "wait-stop", "look"}
Sends == {"kill", "kill-stop", "interrupt"}

(* The signals a kill may send, what a message may claim, and the child's  *)
(* last call, which is the only one it does not return from.               *)
ASSUME CallsAssumption ==
  \A k \in DOMAIN Programs :
    /\ Code(k) \in Seq({Code(k)[i] : i \in DOMAIN Code(k)})
    /\ ChildCode(k) \in Seq({ChildCode(k)[i] : i \in DOMAIN ChildCode(k)})
    /\ \A i \in DOMAIN Code(k) : LET s == Code(k)[i] IN
         /\ s.op = "kill" => s.arg \in Signals \cup {"CONT", "KILL"}
         /\ s.op \in Says => s.arg \in {"gone", "runs", "frozen", "in-STOP", "in-EVENT"}
         /\ s.op = "kill-stop" => k = "signal_ptrace_stop"
    /\ Len(ChildCode(k)) > 0
    /\ \A i \in DOMAIN ChildCode(k) :
         ChildCode(k)[i].op = "run" <=> i = Len(ChildCode(k))

-----------------------------------------------------------------------------
(* What has been done before a call.                                       *)

Done(c, ops, i) == Cardinality({j \in Before(i) : c[j].op \in ops})

(* The calls by which a child stops itself: SIGSTOP, and the SIGTRAP of an *)
(* exec after PTRACE_TRACEME.                                              *)
OwnStops(k) ==
  IF ChildCode(k)[1].op = "traceme" THEN {"raise-stop", "exec"} ELSE {"raise-stop"}

(* The signals that may be on their way to the child before call i.        *)
Signal(s) ==
  IF s.op = "interrupt" THEN "EVENT" ELSE IF s.op = "kill-stop" THEN "STOP" ELSE s.arg
MaySee(k, i) ==
  {Signal(Code(k)[j]) : j \in {j \in Before(i) : Code(k)[j].op \in Sends}}
  \cup (IF ChildCode(k)[1].op = "traceme" THEN {"STOP", "TRAP"} ELSE {})

ASSUME OwnStopsAssumption ==
  \A k \in DOMAIN Programs : \A i \in DOMAIN ChildCode(k) :
    ChildCode(k)[i].op = "raise-stop" => ChildCode(k)[1].op = "traceme"

(* wait_for_signal has seen a stop, and nothing has ended it since.        *)
Ends1(s) == s.op \in {"ptrace-kill", "cont"} \/ (s.op = "kill" /\ s.arg = "KILL")
Held(c, i) ==
  \E j \in Before(i) : c[j].op = "wait-stop" /\ \A l \in (j + 1)..(i - 1) : ~Ends1(c[l])

(* A call the parent does not return from: nothing follows it.             *)
Last(c, i)    == c[i].op = "pause" \/ (c[i].op \in Waits /\ Held(c, i))
Reached(c, i) == \A j \in Before(i) : ~Last(c, j)

FrozenAt(c, i) ==
  \E j \in Before(i) :
    c[j].op = "freeze" /\ \A l \in (j + 1)..(i - 1) : c[l].op \notin {"thaw", "rmdir"}
AddedAt(c, i) == \E j \in Before(i) : c[j].op = "add"

(* There have been more waits than stops of the child: one of them has     *)
(* seen its end.                                                           *)
WaitedOut(k, i) ==
  Done(Code(k), Waits, i)
    > Done(Code(k), Sends, i) + Done(ChildCode(k), OwnStops(k), End(ChildCode(k)))

(* The end of the child may have been waited for.                          *)
MayReap(c, i) == \E j \in Before(i) : c[j].op \in {"wait", "look"}

-----------------------------------------------------------------------------
(* A message is printed where the calls before it have made it true.       *)
Justified(k, i) ==
  LET c == Code(k)
      s == c[i]
  IN  \/ <<k, s.arg>> \in Untrue
      \/ s.arg = "gone" /\ (s.op = "say-if-exited" \/ WaitedOut(k, i))
      \/ s.arg = "frozen" /\ AddedAt(c, i) /\ FrozenAt(c, i)
      \/ s.arg = "in-EVENT" /\ Held(c, i) /\ MaySee(k, i) \subseteq {"EVENT"}

ASSUME MessageAssumption ==
  \A k \in DOMAIN Programs : \A i \in DOMAIN Code(k) :
    Code(k)[i].op \in Says /\ Reached(Code(k), i) => Justified(k, i)

(* A call whose failure leads to handle_error, which kills the child, is   *)
(* not made once the child may have been waited for.                       *)
ASSUME ErrorAssumption ==
  \A k \in DOMAIN Programs : \A i \in DOMAIN Code(k) :
    Code(k)[i].op \in {"seize", "kill", "wait", "add", "freeze", "thaw"}
      /\ Reached(Code(k), i) => ~MayReap(Code(k), i)

(* The two programs that wait for the end of their child.                  *)
ASSUME EndAssumption ==
  \A k \in {"signal_ptrace_stop", "signal_ptrace_exit"} :
    \A i \in 1..End(Code(k)) :
      (i = End(Code(k)) \/ Code(k)[i].op = "pause") => WaitedOut(k, i)
=============================================================================
