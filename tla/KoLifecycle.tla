---------------------------- MODULE KoLifecycle ----------------------------
(***************************************************************************)
(* One kernel test module, the script that loads it and the kernel it is   *)
(* loaded into, over several rounds of the script.  The script looks up    *)
(* the addresses it needs, loads the module, reports, and unloads it; the  *)
(* kernel runs the module's init function, the functions it has            *)
(* registered, and its exit function, step by step.  Any call that can     *)
(* fail may fail.                                                          *)
(*                                                                         *)
(* A step whose precondition does not hold (a NULL or stale pointer, a     *)
(* second release, a jump to address 0) is undefined behaviour: it may     *)
(* stop the kernel (`oops') or go unnoticed.                               *)
(***************************************************************************)
EXTENDS KoSteps

CONSTANTS Table,      \* the row of each kernel module
          Exclusive,  \* objects of which the kernel admits one: names in /proc, ...
          TextRes,    \* objects through which the kernel calls module code
          MaxRounds   \* bound on the rounds of the script

ASSUME TableAssumption     == \A k \in DOMAIN Table : Table[k] \in RowType
ASSUME ExclusiveAssumption == Exclusive \subseteq STRING /\ TextRes \subseteq STRING
ASSUME RoundsAssumption    == MaxRounds \in Nat \ {0}

Ko == DOMAIN Table

VARIABLES
  ko,      \* the module under test
  round,   \* the round of the script
  script,  \* where the script is
  kstate,  \* what the kernel knows of the module
  code,    \* the steps the kernel is running for it, ...
  pc,      \* ... the next of them, ...
  entry,   \* ... what the module owned when they began, ...
  after,   \* ... and whether the module stays when they end
  served,  \* the last registered function that has run
  args,    \* the parameters that were passed, not zero
  held,    \* the objects the module owns
  gone,    \* the objects it has given back, to which it still has pointers
  lost,    \* objects that outlive the module that should have released them
  oops     \* the kernel has stopped

script_vars == <<ko, round, script>>
run_vars    == <<code, pc, entry, after>>
data_vars   == <<args, held, gone, lost>>
vars == <<ko, round, script, kstate, code, pc, entry, after, served, args, held,
          gone, lost, oops>>

row == Table[ko]

ScriptStates == {"check", "insmod", "loading", "report", "unloading", "done"}
KStates      == {"absent", "coming", "live", "serving", "going"}
Running      == kstate \in {"coming", "serving", "going"}

TypeOK ==
  /\ ko \in Ko /\ round \in 1..MaxRounds
  /\ script \in ScriptStates /\ kstate \in KStates
  /\ code \in Code /\ pc \in Nat \ {0}
  /\ after \in {"live", "absent"}
  /\ served \in Nat
  /\ \A S \in {entry, args, held, gone, lost} : S \subseteq STRING
  /\ oops \in BOOLEAN

Init ==
  /\ ko \in Ko /\ round = 1
  /\ script = "check" /\ kstate = "absent"
  /\ code = <<>> /\ pc = 1 /\ entry = {} /\ after = "absent" /\ served = 0
  /\ args = {} /\ held = {} /\ gone = {} /\ lost = {}
  /\ oops = FALSE

-----------------------------------------------------------------------------
(* The script.                                                             *)

(* The parameters the module's code jumps to or tests.                     *)
Wanted(c) == {c[i].res : i \in {j \in DOMAIN c : c[j].op \in {"call", "param"}}}
Params    == Wanted(row.init) \cup UNION {Wanted(row.serve[h]) : h \in DOMAIN row.serve}

AddressesFound ==
  /\ ~oops /\ script = "check"
  /\ script' = "insmod"
  /\ \E unchecked \in SUBSET (Params \ row.script.chk) :
       args' = row.script.chk \cup unchecked
  /\ UNCHANGED <<ko, round, kstate, run_vars, served, held, gone, lost, oops>>

AddressMissing ==
  /\ ~oops /\ script = "check" /\ row.script.chk # {}
  /\ script' = "done"
  /\ UNCHANGED <<ko, round, kstate, run_vars, served, data_vars, oops>>

(* Mutants: a script that unloads what failed to load, one that tries again. *)
JudgedSwapped(ok) ==
  CASE row.script.verdict = "unchecked" -> "report"
    [] row.script.verdict = "status"    -> IF ok THEN "done" ELSE "report"
    [] row.script.verdict = "lsmod"     -> "done"
JudgedRetry(ok) ==
  CASE row.script.verdict = "unchecked" -> "report"
    [] row.script.verdict = "status"    -> IF ok THEN "report" ELSE "insmod"
    [] row.script.verdict = "lsmod"     -> "done"

(* Where the script goes when insmod has returned.                         *)
Judged(ok) ==
  CASE row.script.verdict = "unchecked" -> "report"
    [] row.script.verdict = "status"    -> IF ok THEN "report" ELSE "done"
    [] row.script.verdict = "lsmod"     -> "done"

Enter(c, state, stays) ==
  /\ kstate' = state
  /\ code' = c /\ pc' = 1 /\ entry' = held /\ after' = stays

Insmod ==
  /\ ~oops /\ script = "insmod" /\ kstate = "absent"
  /\ script' = "loading"
  /\ Enter(row.init, "coming", "live")
  /\ served' = 0 /\ gone' = {}
  /\ UNCHANGED <<ko, round, args, held, lost, oops>>

(* No file, wrong version, unknown symbol, or the module is loaded already. *)
InsmodRefused ==
  /\ ~oops /\ script = "insmod"
  /\ script' = Judged(FALSE)
  /\ UNCHANGED <<ko, round, kstate, run_vars, served, data_vars, oops>>

Rmmod ==
  /\ ~oops /\ script = "report" /\ kstate = "live" /\ row.script.finish = "rmmod"
  /\ script' = "unloading"
  /\ Enter(row.exit, "going", "absent")
  /\ UNCHANGED <<ko, round, served, data_vars, oops>>

RmmodFails ==
  /\ ~oops /\ script = "report" /\ kstate = "absent" /\ row.script.finish = "rmmod"
  /\ script' = "done"
  /\ UNCHANGED <<ko, round, kstate, run_vars, served, data_vars, oops>>

Reboot ==
  /\ ~oops /\ script = "report" /\ ~Running /\ row.script.finish = "reboot"
  /\ script' = "done" /\ kstate' = "absent"
  /\ held' = {} /\ gone' = {} /\ lost' = {}
  /\ UNCHANGED <<ko, round, run_vars, served, args, oops>>

(* Mutant: the runner does not count.                                      *)
RerunForever ==
  /\ ~oops /\ script = "done"
  /\ round' = round + 1 /\ script' = "check" /\ args' = {}
  /\ UNCHANGED <<ko, kstate, run_vars, served, held, gone, lost, oops>>

Rerun ==
  /\ ~oops /\ script = "done" /\ round < MaxRounds
  /\ round' = round + 1 /\ script' = "check" /\ args' = {}
  /\ UNCHANGED <<ko, kstate, run_vars, served, held, gone, lost, oops>>

-----------------------------------------------------------------------------
(* The module's code, one step at a time.                                  *)

Step1 == code[pc]
AtStep(ops) == ~oops /\ Running /\ pc \in DOMAIN code /\ code[pc].op \in ops

Advance == pc' = pc + 1 /\ UNCHANGED <<code, entry, after>>

(* Mutants: the error path forgets its clean-up, or returns zero.          *)
BackOutForgets(s) ==
  /\ code' = <<>> /\ pc' = 1 /\ entry' = held
  /\ after' = IF kstate = "coming" /\ ~s.zero THEN "absent" ELSE "live"
BackOutZero(s) ==
  /\ code' = s.undo /\ pc' = 1 /\ entry' = held /\ after' = "live"

(* The error path of step s: its clean-up code, then `return'.             *)
BackOut(s) ==
  /\ code' = s.undo /\ pc' = 1 /\ entry' = held
  /\ after' = IF kstate = "coming" /\ ~s.zero THEN "absent" ELSE "live"

StepFrame == UNCHANGED <<script_vars, kstate, served, args, lost>>
DataFrame == UNCHANGED <<held, gone, oops>>

(* Mutant: a name that is taken is given out again.                        *)
AcquireTaken ==
  /\ AtStep({"get", "take"})
  /\ held' = held \cup {Step1.res} /\ gone' = gone \ {Step1.res}
  /\ Advance /\ StepFrame /\ UNCHANGED oops

Acquire ==
  /\ AtStep({"get", "take"})
  /\ Step1.op = "get" => Step1.res \notin Exclusive \cap lost
  /\ held' = held \cup {Step1.res} /\ gone' = gone \ {Step1.res}
  /\ Advance /\ StepFrame /\ UNCHANGED oops

AcquireFails ==
  /\ AtStep({"get"})
  /\ IF Step1.checked THEN BackOut(Step1) ELSE Advance
  /\ StepFrame /\ DataFrame

TryPasses == AtStep({"try"}) /\ Advance /\ StepFrame /\ DataFrame
TryFails  == AtStep({"try"}) /\ BackOut(Step1) /\ StepFrame /\ DataFrame

ParamGuard ==
  /\ AtStep({"param"})
  /\ IF Step1.res \in args THEN Advance ELSE BackOut(Step1)
  /\ StepFrame /\ DataFrame

HasGuard ==
  /\ AtStep({"has"})
  /\ IF Step1.res \in held THEN Advance ELSE BackOut(Step1)
  /\ StepFrame /\ DataFrame

Touch ==
  /\ AtStep({"use"}) /\ Step1.res \in held
  /\ Advance /\ StepFrame /\ DataFrame

CallAddr ==
  /\ AtStep({"call"}) /\ Step1.res \in args
  /\ Advance /\ StepFrame /\ DataFrame

Release ==
  /\ AtStep({"put", "putif"}) /\ Step1.res \in held
  /\ held' = held \ {Step1.res} /\ gone' = gone \cup {Step1.res}
  /\ Advance /\ StepFrame /\ UNCHANGED oops

ReleaseNothing ==
  /\ AtStep({"putif"}) /\ Step1.res \notin held \cup gone
  /\ Advance /\ StepFrame /\ DataFrame

(* The precondition of an act does not hold.                               *)
Missing(s) ==
  \/ s.op \in {"use", "put"} /\ s.res \notin held
  \/ s.op = "putif" /\ s.res \in gone \ held
  \/ s.op = "call"  /\ s.res \notin args

Misstep ==
  /\ AtStep(ActOps) /\ Missing(Step1)
  /\ oops' \in IF Step1.op = "call" THEN {TRUE} ELSE BOOLEAN
  /\ Advance /\ StepFrame /\ UNCHANGED <<held, gone>>

-----------------------------------------------------------------------------
(* The ends of the module's functions.                                     *)

Ended == ~oops /\ pc \notin DOMAIN code

(* The module's memory goes, and with it the only pointers to what it owns. *)
Unmap ==
  /\ kstate' = "absent"
  /\ lost' = lost \cup held /\ held' = {} /\ gone' = {}

InitReturns ==
  /\ Ended /\ kstate = "coming" /\ after = "live"
  /\ kstate' = "live" /\ script' = Judged(TRUE)
  /\ UNCHANGED <<ko, round, run_vars, served, data_vars, oops>>

InitAborts ==
  /\ Ended /\ kstate = "coming" /\ after = "absent"
  /\ Unmap /\ script' = Judged(FALSE)
  /\ UNCHANGED <<ko, round, run_vars, served, args, oops>>

ExitReturns ==
  /\ Ended /\ kstate = "going"
  /\ Unmap /\ script' = "done"
  /\ UNCHANGED <<ko, round, run_vars, served, args, oops>>

(* The kernel calls a function the module has registered: the programs of  *)
(* the script make it do so in the order of the table, each once or never. *)
Serve ==
  /\ ~oops /\ script = "report" /\ kstate = "live"
  /\ \E h \in DOMAIN row.serve :
       h > served /\ served' = h /\ Enter(row.serve[h], "serving", "live")
  /\ UNCHANGED <<script_vars, data_vars, oops>>

ServeReturns ==
  /\ Ended /\ kstate = "serving"
  /\ kstate' = "live"
  /\ UNCHANGED <<script_vars, run_vars, served, data_vars, oops>>

(* The kernel calls through something a module that is gone has left.      *)
LateCallback ==
  /\ ~oops /\ lost \cap TextRes # {}
  /\ oops' = TRUE
  /\ UNCHANGED <<script_vars, kstate, run_vars, served, data_vars>>

Over == oops \/ (script = "done" /\ round = MaxRounds)
Terminated == Over /\ UNCHANGED vars

ScriptStep == \/ AddressesFound \/ AddressMissing \/ Insmod \/ InsmodRefused
              \/ Rmmod \/ RmmodFails \/ Reboot \/ Rerun
CodeStep   == \/ Acquire \/ AcquireFails \/ TryPasses \/ TryFails \/ ParamGuard
              \/ HasGuard \/ Touch \/ CallAddr \/ Release \/ ReleaseNothing \/ Misstep
ReturnStep == InitReturns \/ InitAborts \/ ExitReturns \/ ServeReturns

Next == ScriptStep \/ CodeStep \/ ReturnStep \/ Serve \/ LateCallback \/ Terminated

Spec == Init /\ [][Next]_vars

(* The script is a process and so is the code it makes the kernel run:     *)
(* neither stops half way while it can go on.                              *)
Fairness == WF_vars(ScriptStep \/ CodeStep \/ ReturnStep)
FairSpec == Spec /\ Fairness

-----------------------------------------------------------------------------
(* Properties.                                                             *)

(* The discipline of KoSteps is enough: a module whose functions are       *)
(* Balanced leaves nothing behind and does not stop the kernel, whichever  *)
(* calls fail and however its functions are interleaved with the script;   *)
(* while it is loaded it owns what init has left it.                       *)
BalancedRowsAreSound ==
  RowBalanced(row) =>
    /\ lost = {} /\ ~oops
    /\ kstate = "live" => held = LiveSet(row)

(* A name in /proc, a policy or a pmu that an earlier load has left behind  *)
(* keeps a module that checks its registration from ever loading again,    *)
(* until a reboot.                                                         *)
NamesNeeded ==
  {row.init[i].res : i \in {j \in DOMAIN row.init :
                              row.init[j].op = "get" /\ row.init[j].checked}}
LeakBlocksReload ==
  NamesNeeded \cap Exclusive \cap lost # {} => kstate \in {"absent", "coming"}

(* A script that has ended has unloaded what it loaded, whatever failed on *)
(* the way; the one that looks for "<module>.ko" in the output of lsmod    *)
(* has not.                                                                *)
UnloadedWhenDone ==
  script = "done" => kstate = "absent" \/ row.script.verdict = "lsmod"

(* Every round of the script comes to its end, unless the kernel stops.    *)
EveryRoundEnds ==
  \A r \in 1..MaxRounds : (round = r) ~> ((round = r /\ script = "done") \/ oops)

(* What the contract calls the module's state.                             *)
Contract ==
  INSTANCE KoContract WITH
    Keeps   <- [k \in Ko |-> LiveSet(Table[k])],
    mod     <- IF kstate \in {"live", "serving", "going"} THEN "live" ELSE "absent",
    owned   <- IF kstate = "live" THEN held
               ELSE IF kstate \in {"serving", "going"} THEN LiveSet(row) ELSE {},
    residue <- lost,
    dead    <- oops

(* A module whose functions are Balanced keeps the contract.               *)
KeepsContract == Contract!Spec
=============================================================================
