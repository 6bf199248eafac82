------------------------- MODULE KoLifecycleProofs -------------------------
(***************************************************************************)
(* Proofs about KoLifecycle for every table, disciplined or not, every set *)
(* of exclusive names and every number of rounds: TypeOK; that the         *)
(* discipline RowBalanced is enough; that a script that has ended has      *)
(* unloaded its module; that a name left behind keeps its module from      *)
(* being loaded again; that a module keeps the promises its source passes  *)
(* the check of KoPaths for.  And of the table of this repository, for any *)
(* number of rounds: the two lists of the census.                          *)
(***************************************************************************)
EXTENDS KoCensus, TLAPS

(***************************************************************************)
(* The strengthening.  While the kernel runs code of the module, the code  *)
(* is one of the row's functions or one of their error paths; what the     *)
(* module owns is what Flow computes for the next step, and the rest of    *)
(* the code is still Balanced towards the state the module will be left    *)
(* in.                                                                     *)
(***************************************************************************)
Goal     == IF after = "live" THEN LiveSet(row) ELSE {}
FailGoal == IF kstate = "coming" THEN {} ELSE LiveSet(row)
NoTests(c) == \A i \in DOMAIN c : c[i].op \notin MayFail

RunOK ==
  /\ pc \in 1..(Len(code) + 1)
  /\ held = Flow(code, entry, pc)
  /\ Balanced(code, entry, row.script.chk, Goal, FailGoal)
  /\ after = "absent" => NoTests(code)
  /\ kstate = "serving" => after = "live"
  /\ kstate = "going" => after = "absent"

Places ==
  /\ kstate = "coming"  => script = "loading"
  /\ kstate = "serving" => script = "report"
  /\ kstate = "going"   => script = "unloading"
  /\ script \notin {"check", "done"} => row.script.chk \subseteq args

Clean ==
  /\ lost = {} /\ ~oops
  /\ kstate = "absent" => held = {}
  /\ kstate = "live" => held = LiveSet(row)

Sound == Places /\ Clean /\ (Running => RunOK)

IInv == TypeOK /\ (RowBalanced(row) => Sound)

-----------------------------------------------------------------------------
(* Flow.                                                                   *)

(* Before the first step the module owns what it was entered with.         *)
LEMMA FlowStart ==
  ASSUME NEW c, NEW base
  PROVE  Flow(c, base, 1) = base
BY DEF Flow, KeptSince

(* What a step adds to, or takes from, what is owned before it.            *)
After(s, owned) ==
  IF Gains(s) THEN owned \cup {s.res}
  ELSE IF Releases(s) THEN owned \ {s.res} ELSE owned

(* Nothing is released between two adjacent positions but by the step      *)
(* between them.                                                           *)
LEMMA KeptStep ==
  ASSUME NEW c, NEW r, NEW from \in Nat \ {0}, NEW i \in Nat, from <= i
  PROVE  KeptSince(c, r, from, i + 1) <=>
           KeptSince(c, r, from, i) /\ ~(Releases(c[i]) /\ c[i].res = r)
<1>1. from..((i + 1) - 1) = (from..(i - 1)) \cup {i}
  OBVIOUS
<1>. QED
  BY <1>1 DEF KeptSince

(* Flow is the fold of After along the code.                               *)
LEMMA FlowStep ==
  ASSUME NEW c, NEW base, NEW i \in Nat \ {0}
  PROVE  Flow(c, base, i + 1) = After(c[i], Flow(c, base, i))
<1>. DEFINE Obtained(n) ==
       {c[k].res : k \in {j \in 1..(n - 1) : Gains(c[j]) /\ KeptSince(c, c[j].res, j + 1, n)}}
<1>. DEFINE Kept(n) == {r \in base : KeptSince(c, r, 1, n)}
<1>. DEFINE Dropped(r) == Releases(c[i]) /\ c[i].res = r
<1>1. Kept(i + 1) = {r \in Kept(i) : ~Dropped(r)}
  BY KeptStep
<1>2. 1..((i + 1) - 1) = (1..(i - 1)) \cup {i}
  OBVIOUS
<1>3. \A k \in 1..(i - 1) : KeptSince(c, c[k].res, k + 1, i + 1) <=>
                              KeptSince(c, c[k].res, k + 1, i) /\ ~Dropped(c[k].res)
  BY KeptStep
<1>4. KeptSince(c, c[i].res, i + 1, i + 1)
  BY DEF KeptSince
<1>5. Obtained(i + 1) = {r \in Obtained(i) : ~Dropped(r)}
                          \cup (IF Gains(c[i]) THEN {c[i].res} ELSE {})
  <2>. HIDE DEF Dropped
  <2>1. ASSUME NEW r \in Obtained(i + 1)
        PROVE  r \in {x \in Obtained(i) : ~Dropped(x)}
                       \cup (IF Gains(c[i]) THEN {c[i].res} ELSE {})
    BY <1>2, <1>3, <2>1
  <2>2. ASSUME NEW r \in Obtained(i), ~Dropped(r)
        PROVE  r \in Obtained(i + 1)
    BY <1>2, <1>3, <2>2
  <2>3. Gains(c[i]) => c[i].res \in Obtained(i + 1)
    BY <1>2, <1>4
  <2>. HIDE DEF Obtained
  <2>. QED
    BY <2>1, <2>2, <2>3
<1>6. ~(Gains(c[i]) /\ Releases(c[i]))
  BY DEF Gains, Releases
<1>7. Flow(c, base, i + 1) = Kept(i + 1) \cup Obtained(i + 1)
  BY DEF Flow
<1>8. Flow(c, base, i) = Kept(i) \cup Obtained(i)
  BY DEF Flow
<1>. HIDE DEF Kept, Obtained
<1>. QED
  BY <1>1, <1>5, <1>6, <1>7, <1>8 DEF After

-----------------------------------------------------------------------------
(* Types.                                                                  *)

(* What is in a row.                                                       *)
LEMMA RowTypes ==
  ASSUME ko \in Ko
  PROVE  /\ row.script.chk \subseteq STRING
         /\ row.script.verdict \in Verdicts
         /\ row.init \in Code /\ row.exit \in Code
         /\ \A h \in DOMAIN row.serve : row.serve[h] \in Code /\ h \in Nat
<1>1. row \in RowType
  BY TableAssumption DEF row, Ko
<1>. QED
  BY <1>1 DEF RowType, ScriptType

(* The error path of a step is code without tests.                         *)
LEMMA StepTypes ==
  ASSUME code \in Code, pc \in DOMAIN code
  PROVE  /\ Step1.res \in STRING
         /\ Step1.op \in FallibleOps => Step1.undo \in Code /\ NoTests(Step1.undo)
<1>1. Step1 \in Step
  BY DEF Code, Step1
<1>2. Step1 \in Act => Step1.op \notin FallibleOps /\ Step1.res \in STRING
  BY DEF Act, ActOps, FallibleOps, MayFail
<1>3. ASSUME Step1 \in Fallible
      PROVE  Step1.res \in STRING /\ Step1.undo \in Seq(Act)
  BY <1>3 DEF Fallible
<1>4. ASSUME NEW u \in Seq(Act)
      PROVE  u \in Code /\ NoTests(u)
  <2>1. u \in Code
    BY DEF Code, Step
  <2>2. \A i \in DOMAIN u : u[i] \in Act
    OBVIOUS
  <2>. QED
    BY <2>1, <2>2 DEF NoTests, Act, ActOps, MayFail
<1>. QED
  BY <1>1, <1>2, <1>3, <1>4 DEF Step

(* The parameters of a module have names.                                  *)
LEMMA ParamTypes ==
  ASSUME ko \in Ko
  PROVE  Params \subseteq STRING
<1>1. ASSUME NEW c \in Code
      PROVE  Wanted(c) \subseteq STRING
  <2>1. \A i \in DOMAIN c : c[i].res \in STRING
    BY DEF Code, Step, Act, Fallible
  <2>. QED
    BY <2>1 DEF Wanted
<1>. QED
  BY <1>1, RowTypes DEF Params

(* The script's actions keep the types.                                    *)
LEMMA TypeScript ==
  ASSUME TypeOK, ScriptStep
  PROVE  TypeOK'
<1>. USE DEF TypeOK, ScriptStates, KStates, script_vars, run_vars, data_vars, Ko
<1>1. CASE AddressesFound
  BY <1>1, RowTypes, ParamTypes DEF AddressesFound
<1>2. CASE AddressMissing
  BY <1>2 DEF AddressMissing
<1>3. CASE Insmod
  BY <1>3, RowTypes DEF Insmod, Enter
<1>4. CASE InsmodRefused
  BY <1>4, RowTypes DEF InsmodRefused, Judged, Verdicts
<1>5. CASE Rmmod
  BY <1>5, RowTypes DEF Rmmod, Enter
<1>6. CASE RmmodFails
  BY <1>6 DEF RmmodFails
<1>7. CASE Reboot
  BY <1>7 DEF Reboot
<1>8. CASE Rerun
  BY <1>8, RoundsAssumption DEF Rerun
<1>. QED
  BY <1>1, <1>2, <1>3, <1>4, <1>5, <1>6, <1>7, <1>8 DEF ScriptStep

(* So do the steps of the module's code.                                   *)
LEMMA TypeCode ==
  ASSUME TypeOK, CodeStep
  PROVE  TypeOK'
<1>. USE DEF TypeOK, script_vars, StepFrame, DataFrame, Ko
<1>1. pc \in DOMAIN code
  BY DEF CodeStep, Acquire, AcquireFails, TryPasses, TryFails, ParamGuard, HasGuard,
         Touch, CallAddr, Release, ReleaseNothing, Misstep, AtStep
<1>2. /\ Step1.res \in STRING
      /\ Step1.op \in FallibleOps => Step1.undo \in Code
  BY <1>1, StepTypes
<1>3. ASSUME Advance
      PROVE  code' \in Code /\ pc' \in Nat \ {0} /\ after' \in {"live", "absent"}
             /\ entry' \subseteq STRING
  BY <1>3 DEF Advance
<1>4. ASSUME BackOut(Step1), Step1.op \in FallibleOps
      PROVE  code' \in Code /\ pc' \in Nat \ {0} /\ after' \in {"live", "absent"}
             /\ entry' \subseteq STRING
  BY <1>2, <1>4 DEF BackOut
<1>5. ASSUME AtStep({"get"}) \/ AtStep({"try"}) \/ AtStep({"param"}) \/ AtStep({"has"})
      PROVE  Step1.op \in FallibleOps
  BY <1>5 DEF AtStep, Step1, FallibleOps, MayFail
<1>6. CASE Acquire
  BY <1>2, <1>3, <1>6 DEF Acquire
<1>7. CASE AcquireFails
  BY <1>3, <1>4, <1>5, <1>7 DEF AcquireFails
<1>8. CASE TryPasses
  BY <1>3, <1>8 DEF TryPasses
<1>9. CASE TryFails
  BY <1>4, <1>5, <1>9 DEF TryFails
<1>10. CASE ParamGuard
  BY <1>3, <1>4, <1>5, <1>10 DEF ParamGuard
<1>11. CASE HasGuard
  BY <1>3, <1>4, <1>5, <1>11 DEF HasGuard
<1>12. CASE Touch
  BY <1>3, <1>12 DEF Touch
<1>13. CASE CallAddr
  BY <1>3, <1>13 DEF CallAddr
<1>14. CASE Release
  BY <1>2, <1>3, <1>14 DEF Release
<1>15. CASE ReleaseNothing
  BY <1>3, <1>15 DEF ReleaseNothing
<1>16. CASE Misstep
  BY <1>3, <1>16 DEF Misstep
<1>. QED
  BY <1>6, <1>7, <1>8, <1>9, <1>10, <1>11, <1>12, <1>13, <1>14, <1>15, <1>16
     DEF CodeStep

(* So do the kernel's.                                                     *)
LEMMA TypeKernel ==
  ASSUME TypeOK, ReturnStep \/ Serve \/ LateCallback \/ UNCHANGED vars
  PROVE  TypeOK'
<1>. USE DEF TypeOK, ScriptStates, KStates, script_vars, run_vars, data_vars, Ko
<1>1. CASE InitReturns
  BY <1>1, RowTypes DEF InitReturns, Judged, Verdicts
<1>2. CASE InitAborts
  BY <1>2, RowTypes DEF InitAborts, Unmap, Judged, Verdicts
<1>3. CASE ExitReturns
  BY <1>3 DEF ExitReturns, Unmap
<1>4. CASE ServeReturns
  BY <1>4 DEF ServeReturns
<1>5. CASE Serve
  BY <1>5, RowTypes DEF Serve, Enter
<1>6. CASE LateCallback
  BY <1>6 DEF LateCallback
<1>7. CASE UNCHANGED vars
  BY <1>7 DEF vars
<1>. QED
  BY <1>1, <1>2, <1>3, <1>4, <1>5, <1>6, <1>7 DEF ReturnStep

(* The initial states are of the types.                                    *)
LEMMA TypeInit == Init => TypeOK
<1>1. 1 \in 1..MaxRounds
  BY RoundsAssumption
<1>2. <<>> \in Code
  BY DEF Code
<1>3. Init => pc \in Nat \ {0} /\ after \in {"live", "absent"} /\ served \in Nat
  BY DEF Init
<1>4. Init => oops \in BOOLEAN
  BY Zenon DEF Init
<1>. QED
  BY <1>1, <1>2, <1>3, <1>4 DEF Init, TypeOK, ScriptStates, KStates

(* Every step keeps them.                                                  *)
LEMMA TypeNext == TypeOK /\ [Next]_vars => TypeOK'
BY TypeScript, TypeCode, TypeKernel DEF Next, Terminated

(* Every variable keeps its type.                                          *)
THEOREM TypeCorrect == Spec => []TypeOK
BY TypeInit, TypeNext, PTL DEF Spec

-----------------------------------------------------------------------------
(* The discipline is enough.                                               *)

(* What a step of balanced code may rely on, and what it leaves.           *)
LEMMA StepOK ==
  ASSUME TypeOK, RunOK, Running, pc \in DOMAIN code
  PROVE  /\ StepSafe(Step1, held, row.script.chk)
         /\ After(Step1, held) = Flow(code, entry, pc + 1)
         /\ pc + 1 \in 1..(Len(code) + 1)
<1>. USE DEF TypeOK, RunOK, Step1
<1>1. Len(code) \in Nat /\ DOMAIN code = 1..Len(code)
  BY DEF Code
<1>2. StepSafe(Step1, held, row.script.chk)
  BY DEF Balanced, Straight, CodeSafe
<1>3. After(Step1, held) = Flow(code, entry, pc + 1)
  BY FlowStep
<1>. QED
  BY <1>1, <1>2, <1>3

(* A step that succeeds leaves the rest of the code balanced.              *)
LEMMA AdvanceOK ==
  ASSUME TypeOK, RunOK, Running, pc \in DOMAIN code,
         Advance, UNCHANGED <<ko, kstate>>, held' = After(Step1, held)
  PROVE  RunOK'
<1>1. held' = Flow(code', entry', pc') /\ pc' \in 1..(Len(code') + 1)
  BY StepOK DEF Advance
<1>2. row' = row /\ Goal' = Goal /\ FailGoal' = FailGoal
  BY DEF row, Goal, FailGoal, Advance
<1>. QED
  BY <1>1, <1>2 DEF RunOK, Advance, NoTests

(* A step that fails leaves an error path that gives back what was         *)
(* obtained so far.                                                        *)
LEMMA BackOutOK ==
  ASSUME TypeOK, RunOK, Running, pc \in DOMAIN code, Step1.op \in MayFail,
         BackOut(Step1), UNCHANGED <<ko, kstate, held>>
  PROVE  RunOK'
<1>. USE DEF TypeOK
<1>1. /\ Step1.undo \in Code /\ NoTests(Step1.undo)
      /\ code' = Step1.undo /\ pc' = 1 /\ entry' = held
  BY StepTypes DEF BackOut, FallibleOps
<1>2. after = "live" /\ kstate # "going"
  BY DEF RunOK, NoTests, Step1
<1>3. row' = row /\ FailGoal' = FailGoal
  BY DEF row, FailGoal
<1>4. Straight(Step1.undo, held, row.script.chk,
               IF Step1.zero THEN Goal ELSE FailGoal)
  BY DEF RunOK, Balanced, Step1
<1>5. (IF Step1.zero THEN Goal ELSE FailGoal) = Goal'
  <2>1. CASE kstate = "coming" /\ ~Step1.zero
    BY <1>3, <2>1 DEF BackOut, Goal, FailGoal
  <2>2. CASE ~(kstate = "coming" /\ ~Step1.zero)
    BY <1>2, <1>3, <2>2 DEF BackOut, Goal, FailGoal
  <2>. QED
    BY <2>1, <2>2
<1>6. Balanced(code', entry', row'.script.chk, Goal', FailGoal')
  BY <1>1, <1>3, <1>4, <1>5 DEF Balanced, NoTests
<1>7. held' = Flow(code', entry', pc') /\ pc' \in 1..(Len(code') + 1)
  BY <1>1, FlowStart DEF Code
<1>8. /\ kstate' = "serving" => after' = "live"
      /\ kstate' = "going" => after' = "absent"
  BY <1>2 DEF BackOut
<1>. QED
  BY <1>1, <1>6, <1>7, <1>8 DEF RunOK

(* The steps of balanced code go as planned: none of them misses what it   *)
(* needs.                                                                  *)
LEMMA CodeSound ==
  ASSUME TypeOK, Sound, CodeStep
  PROVE  Sound'
<1>1. Running /\ pc \in DOMAIN code
  BY DEF CodeStep, Acquire, AcquireFails, TryPasses, TryFails, ParamGuard, HasGuard,
         Touch, CallAddr, Release, ReleaseNothing, Misstep, AtStep
<1>2. /\ RunOK
      /\ row.script.chk \subseteq args
  BY <1>1 DEF Sound, Places, Running
<1>3. StepSafe(Step1, held, row.script.chk)
  BY <1>1, <1>2, StepOK
<1>4. UNCHANGED <<ko, script, kstate, args, lost>> /\ row' = row
  BY DEF CodeStep, Acquire, AcquireFails, TryPasses, TryFails, ParamGuard, HasGuard,
         Touch, CallAddr, Release, ReleaseNothing, Misstep, StepFrame, script_vars, row
<1>. DEFINE Passes == Advance /\ UNCHANGED oops /\ held' = After(Step1, held)
            Fails  == BackOut(Step1) /\ Step1.op \in MayFail /\ UNCHANGED <<held, oops>>
<1>5. Passes \/ Fails
  <2>. USE DEF AtStep, Step1, After, Gains, Releases, DataFrame, MayFail
  <2>1. CASE Acquire
    BY <2>1 DEF Acquire
  <2>2. CASE AcquireFails
    BY <1>3, <2>2 DEF AcquireFails, StepSafe
  <2>3. CASE TryPasses
    BY <2>3 DEF TryPasses
  <2>4. CASE TryFails
    BY <2>4 DEF TryFails
  <2>5. CASE ParamGuard
    BY <2>5 DEF ParamGuard
  <2>6. CASE HasGuard
    BY <1>3, <2>6 DEF HasGuard, StepSafe
  <2>7. CASE Touch
    BY <2>7 DEF Touch
  <2>8. CASE CallAddr
    BY <2>8 DEF CallAddr
  <2>9. CASE Release
    BY <2>9 DEF Release
  <2>10. CASE ReleaseNothing
    BY <1>3, <2>10 DEF ReleaseNothing, StepSafe
  <2>11. CASE Misstep
    BY <1>2, <1>3, <2>11 DEF Misstep, Missing, StepSafe
  <2>. QED
    BY <2>1, <2>2, <2>3, <2>4, <2>5, <2>6, <2>7, <2>8, <2>9, <2>10, <2>11 DEF CodeStep
<1>6. RunOK'
  BY <1>1, <1>2, <1>4, <1>5, AdvanceOK, BackOutOK
<1>7. Clean' /\ Places'
  BY <1>1, <1>4, <1>5 DEF Sound, Clean, Places, Running
<1>. QED
  BY <1>6, <1>7 DEF Sound

(* Entering one of a balanced row's functions starts balanced code.        *)
LEMMA EnterOK ==
  ASSUME NEW c \in Code, NEW state, NEW stays, Enter(c, state, stays),
         UNCHANGED <<ko, held>>,
         Balanced(c, held, row.script.chk, IF stays = "live" THEN LiveSet(row) ELSE {},
                  IF state = "coming" THEN {} ELSE LiveSet(row)),
         stays = "absent" => NoTests(c),
         state = "serving" => stays = "live",
         state = "going" => stays = "absent"
  PROVE  RunOK'
<1>1. row' = row
  BY DEF row
<1>2. held' = Flow(code', entry', pc') /\ pc' \in 1..(Len(code') + 1)
  BY FlowStart DEF Enter, Code
<1>. QED
  BY <1>1, <1>2 DEF RunOK, Enter, Goal, FailGoal

(* The script starts balanced functions, from the state they expect.       *)
LEMMA ScriptSound ==
  ASSUME TypeOK, RowBalanced(row), Sound, ScriptStep
  PROVE  Sound'
<1>. USE DEF script_vars, run_vars, data_vars
<1>0. ko \in Ko /\ row.init \in Code /\ row.exit \in Code
  BY RowTypes DEF TypeOK
<1>1. ASSUME script \in {"check", "insmod", "report", "done"}, ~Running,
             UNCHANGED <<ko, kstate, held, lost, oops>>,
             script' \notin {"check", "done"} => row.script.chk \subseteq args'
      PROVE  Sound'
  BY <1>1 DEF Sound, Places, Clean, Running, row
<1>2. script \in {"check", "insmod", "done"} => ~Running
  BY DEF Sound, Places, Running
<1>3. CASE AddressesFound
  BY <1>1, <1>2, <1>3 DEF AddressesFound
<1>4. CASE AddressMissing
  BY <1>1, <1>2, <1>4 DEF AddressMissing
<1>5. CASE Insmod
  <2>1. held = {} /\ row.script.chk \subseteq args
    BY <1>5 DEF Insmod, Sound, Clean, Places
  <2>2. RunOK'
    BY <1>0, <1>5, <2>1, EnterOK DEF Insmod, RowBalanced
  <2>. QED
    BY <1>5, <2>1, <2>2 DEF Insmod, Enter, Sound, Places, Clean, row
<1>6. CASE InsmodRefused
  BY <1>1, <1>2, <1>6 DEF InsmodRefused, Sound, Places
<1>7. CASE Rmmod
  <2>1. held = LiveSet(row) /\ row.script.chk \subseteq args
    BY <1>7 DEF Rmmod, Sound, Clean, Places
  <2>2. NoTests(row.exit)
    BY DEF RowBalanced, NoTests, ActOps, MayFail
  <2>3. Balanced(row.exit, held, row.script.chk, {}, LiveSet(row))
    BY <2>1, <2>2 DEF RowBalanced, Balanced, NoTests
  <2>4. RunOK'
    BY <1>0, <1>7, <2>2, <2>3, EnterOK DEF Rmmod
  <2>. QED
    BY <1>7, <2>1, <2>4 DEF Rmmod, Enter, Sound, Places, Clean, row
<1>8. CASE RmmodFails
  BY <1>1, <1>8 DEF RmmodFails, Running
<1>9. CASE Reboot
  BY <1>9 DEF Reboot, Sound, Places, Clean, Running
<1>10. CASE Rerun
  BY <1>1, <1>2, <1>10 DEF Rerun
<1>. QED
  BY <1>3, <1>4, <1>5, <1>6, <1>7, <1>8, <1>9, <1>10 DEF ScriptStep

(* A balanced function that returns has left what it was to leave.         *)
LEMMA KernelSound ==
  ASSUME TypeOK, RowBalanced(row), Sound,
         ReturnStep \/ Serve \/ LateCallback \/ UNCHANGED vars
  PROVE  Sound'
<1>. USE DEF script_vars, run_vars, data_vars
<1>1. ASSUME Ended, Running
      PROVE  held = Goal
  <2>1. pc = Len(code) + 1
    BY <1>1 DEF Ended, Sound, RunOK, TypeOK, Code
  <2>. QED
    BY <1>1, <2>1 DEF Sound, RunOK, Balanced, Straight
<1>2. CASE InitReturns
  <2>1. held = LiveSet(row) /\ row.script.chk \subseteq args
    BY <1>1, <1>2 DEF InitReturns, Running, Goal, Sound, Places
  <2>. QED
    BY <1>2, <2>1 DEF InitReturns, Sound, Places, Clean, Running, row
<1>3. CASE InitAborts
  <2>1. held = {} /\ row.script.chk \subseteq args
    BY <1>1, <1>3 DEF InitAborts, Running, Goal, Sound, Places
  <2>. QED
    BY <1>3, <2>1 DEF InitAborts, Unmap, Sound, Places, Clean, Running, row
<1>4. CASE ExitReturns
  <2>1. held = {}
    BY <1>1, <1>4 DEF ExitReturns, Running, Goal, Sound, RunOK
  <2>. QED
    BY <1>4, <2>1 DEF ExitReturns, Unmap, Sound, Places, Clean, Running
<1>5. CASE ServeReturns
  <2>1. held = LiveSet(row) /\ script = "report"
    BY <1>1, <1>5 DEF ServeReturns, Running, Goal, Sound, RunOK, Places
  <2>. QED
    BY <1>5, <2>1 DEF ServeReturns, Sound, Places, Clean, Running, row
<1>6. CASE Serve
  <2>1. PICK h \in DOMAIN row.serve : Enter(row.serve[h], "serving", "live")
    BY <1>6 DEF Serve
  <2>2. held = LiveSet(row)
    BY <1>6 DEF Serve, Sound, Clean
  <2>3. row.serve[h] \in Code
    BY RowTypes DEF TypeOK
  <2>4. Balanced(row.serve[h], held, row.script.chk, LiveSet(row), LiveSet(row))
    BY <2>2 DEF RowBalanced
  <2>5. RunOK'
    BY <1>6, <2>1, <2>3, <2>4, EnterOK DEF Serve
  <2>. QED
    BY <1>6, <2>1, <2>2, <2>5 DEF Serve, Enter, Sound, Places, Clean, row
<1>7. CASE LateCallback
  BY <1>7 DEF LateCallback, Sound, Clean
<1>8. CASE UNCHANGED vars
  BY <1>8 DEF vars, Sound, Places, Clean, Running, RunOK, Goal, FailGoal, row
<1>. QED
  BY <1>2, <1>3, <1>4, <1>5, <1>6, <1>7, <1>8 DEF ReturnStep

(* The module under test stays the same.                                   *)
LEMMA SameRow ==
  ASSUME [Next]_vars
  PROVE  row' = row /\ ko' = ko
BY DEF Next, Terminated, vars, ScriptStep, CodeStep, ReturnStep, AddressesFound,
       AddressMissing, Insmod, InsmodRefused, Rmmod, RmmodFails, Reboot, Rerun,
       Acquire, AcquireFails, TryPasses, TryFails, ParamGuard, HasGuard, Touch,
       CallAddr, Release, ReleaseNothing, Misstep, StepFrame, InitReturns, InitAborts,
       ExitReturns, ServeReturns, Serve, LateCallback, script_vars, row

(* The strengthened invariant.                                             *)
THEOREM Strengthened == Spec => []IInv
<1>1. Init => IInv
  <2>1. Init => Sound
    BY DEF Init, Sound, Places, Clean, Running
  <2>. QED
    BY <2>1, TypeInit DEF IInv
<1>2. IInv /\ [Next]_vars => IInv'
  <2>. SUFFICES ASSUME IInv, [Next]_vars PROVE IInv'
    OBVIOUS
  <2>1. TypeOK'
    BY TypeNext DEF IInv
  <2>2. RowBalanced(row') => RowBalanced(row)
    BY SameRow
  <2>3. ASSUME RowBalanced(row) PROVE Sound'
    BY <2>3, CodeSound, ScriptSound, KernelSound DEF IInv, Next, Terminated
  <2>. QED
    BY <2>1, <2>2, <2>3 DEF IInv
<1>. QED
  BY <1>1, <1>2, PTL DEF Spec

(* A module whose functions are Balanced leaves nothing behind and does    *)
(* not stop the kernel, whichever calls fail.                              *)
THEOREM BalancedRowsSound == Spec => []BalancedRowsAreSound
<1>1. IInv => BalancedRowsAreSound
  BY DEF IInv, Sound, Clean, BalancedRowsAreSound
<1>. QED
  BY <1>1, Strengthened, PTL

-----------------------------------------------------------------------------
(* The contract.                                                           *)

Mod   == IF kstate \in {"live", "serving", "going"} THEN "live" ELSE "absent"
Owned == IF kstate = "live" THEN held
         ELSE IF kstate \in {"serving", "going"} THEN LiveSet(row) ELSE {}

(* A table of balanced modules keeps the contract: every step is a load,   *)
(* an unload or nothing the contract can see.                              *)
THEOREM ContractKept ==
  ASSUME \A k \in Ko : RowBalanced(Table[k])
  PROVE  Spec => KeepsContract
<1>1. Init => Contract!Init
  BY DEF Init, Contract!Init
<1>2. IInv /\ IInv' /\ [Next]_vars => [Contract!Next]_(Contract!vars)
  <2>. SUFFICES ASSUME IInv, IInv', [Next]_vars
                PROVE  [Contract!Next]_(Contract!vars)
    OBVIOUS
  <2>1. ko' = ko /\ row' = row
    BY SameRow
  <2>2. Sound /\ Sound'
    BY <2>1 DEF IInv, TypeOK, row
  <2>3. lost = {} /\ lost' = {} /\ oops = FALSE /\ oops' = FALSE
    BY <2>2 DEF Sound, Clean
  <2>4. /\ Owned = IF Mod = "live" THEN LiveSet(row) ELSE {}
        /\ Owned' = IF Mod' = "live" THEN LiveSet(row) ELSE {}
    <3>1. Owned = IF Mod = "live" THEN LiveSet(row) ELSE {}
      BY <2>2 DEF Owned, Mod, Sound, Clean
    <3>2. (kstate' = "live" => held' = LiveSet(row)) /\ LiveSet(row') = LiveSet(row)
      BY <2>1, <2>2 DEF Sound, Clean
    <3>3. Owned' = IF Mod' = "live" THEN LiveSet(row) ELSE {}
      BY <3>2 DEF Owned, Mod
    <3>. QED
      BY <3>1, <3>3
  <2>5. [k \in Ko |-> LiveSet(Table[k])][ko] = LiveSet(row)
    BY DEF IInv, TypeOK, row
  <2>6. CASE Mod' = Mod
    BY <2>1, <2>3, <2>4, <2>6 DEF Contract!vars, Mod, Owned
  <2>7. CASE Mod = "absent" /\ Mod' = "live"
    BY <2>1, <2>3, <2>4, <2>5, <2>7 DEF Contract!Next, Contract!Load, Mod, Owned
  <2>8. CASE Mod = "live" /\ Mod' = "absent"
    BY <2>1, <2>3, <2>4, <2>8 DEF Contract!Next, Contract!Unload, Mod, Owned
  <2>9. Mod \in {"absent", "live"} /\ Mod' \in {"absent", "live"}
    BY DEF Mod
  <2>. QED
    BY <2>6, <2>7, <2>8, <2>9
<1>. QED
  BY <1>1, <1>2, Strengthened, PTL DEF Spec, KeepsContract, Contract!Spec

-----------------------------------------------------------------------------
(* The script knows whether the module is loaded.                          *)

(***************************************************************************)
(* The strengthening.  Before it loads and when it is done, the script has *)
(* nothing loaded, unless it has not looked; and the kernel calls a        *)
(* registered function only in between.                                    *)
(***************************************************************************)
Knows ==
  /\ script \in {"check", "insmod", "done"} =>
       kstate = "absent" \/ row.script.verdict = "lsmod"
  /\ kstate = "serving" => script = "report"

(* Every step keeps it.                                                    *)
LEMMA KnowsNext ==
  ASSUME TypeOK, Knows, [Next]_vars
  PROVE  Knows'
<1>. USE DEF Knows, TypeOK, script_vars, run_vars, data_vars
<1>0. row' = row /\ row.script.verdict \in Verdicts
  BY SameRow, RowTypes
<1>1. CASE ScriptStep
  <2>1. CASE AddressesFound \/ AddressMissing \/ Insmod \/ Rmmod \/ Rerun
    BY <1>0, <2>1 DEF AddressesFound, AddressMissing, Insmod, Rmmod, Rerun, Enter
  <2>2. CASE InsmodRefused
    BY <1>0, <2>2 DEF InsmodRefused, Judged, Verdicts
  <2>3. CASE RmmodFails \/ Reboot
    BY <1>0, <2>3 DEF RmmodFails, Reboot, Running
  <2>. QED
    BY <1>1, <2>1, <2>2, <2>3 DEF ScriptStep
<1>2. CASE CodeStep
  <2>1. UNCHANGED <<script, kstate>>
    BY <1>2 DEF CodeStep, Acquire, AcquireFails, TryPasses, TryFails, ParamGuard,
       HasGuard, Touch, CallAddr, Release, ReleaseNothing, Misstep, StepFrame
  <2>. QED
    BY <1>0, <2>1
<1>3. CASE ReturnStep
  BY <1>0, <1>3 DEF ReturnStep, InitReturns, InitAborts, ExitReturns, ServeReturns,
     Unmap, Judged, Verdicts
<1>4. CASE Serve \/ LateCallback \/ UNCHANGED vars
  BY <1>0, <1>4 DEF Serve, LateCallback, Enter, vars
<1>. QED
  BY <1>1, <1>2, <1>3, <1>4 DEF Next, Terminated

(* A script that has ended has unloaded what it loaded, whatever failed,   *)
(* unless it decides by the output of lsmod.                               *)
THEOREM Unloaded == Spec => []UnloadedWhenDone
<1>1. Init => Knows
  BY DEF Init, Knows
<1>2. Knows => UnloadedWhenDone
  BY DEF Knows, UnloadedWhenDone
<1>. QED
  BY <1>1, <1>2, KnowsNext, TypeCorrect, PTL DEF Spec

-----------------------------------------------------------------------------
(* A name that is taken.                                                   *)

(* No error path of init returns zero.                                     *)
Honest(r) == \A i \in DOMAIN r.init : r.init[i].op \in MayFail => ~r.init[i].zero

Taken  == Exclusive \cap lost
Needs(s) == s.op = "get" /\ s.checked

(***************************************************************************)
(* The strengthening.  As long as no call has failed the kernel runs init  *)
(* itself, and has obtained every name init has come past; an error path   *)
(* has no tests.                                                           *)
(***************************************************************************)
InitRun ==
  /\ code = row.init /\ pc \in 1..(Len(code) + 1)
  /\ \A i \in 1..(pc - 1) : Needs(code[i]) => code[i].res \notin Taken

Obtained ==
  /\ kstate \in {"live", "serving", "going"} => NamesNeeded \cap Taken = {}
  /\ kstate = "coming" /\ after = "live" => InitRun
  /\ kstate = "coming" /\ after = "absent" => NoTests(code)

(* init goes on to its next step.                                          *)
LEMMA ObtainedAdvance ==
  ASSUME TypeOK, Obtained, pc \in DOMAIN code, Advance, UNCHANGED <<ko, kstate, lost>>,
         Needs(Step1) => Step1.res \notin Taken
  PROVE  Obtained'
<1>1. row' = row /\ Taken' = Taken /\ NamesNeeded' = NamesNeeded
  BY DEF row, Taken, NamesNeeded
<1>2. code' = code /\ pc' = pc + 1 /\ after' = after
  BY DEF Advance
<1>3. Len(code) \in Nat /\ DOMAIN code = 1..Len(code) /\ pc \in Nat
  BY DEF TypeOK, Code
<1>4. ASSUME InitRun
      PROVE  InitRun'
  <2>1. 1..(pc' - 1) = (1..(pc - 1)) \cup {pc}
    BY <1>2, <1>3
  <2>2. \A i \in 1..(pc' - 1) : Needs(code[i]) => code[i].res \notin Taken
    BY <1>4, <2>1 DEF InitRun, Step1
  <2>3. pc' \in 1..(Len(code') + 1)
    BY <1>2, <1>3
  <2>. QED
    BY <1>1, <1>2, <1>4, <2>2, <2>3 DEF InitRun
<1>. QED
  BY <1>1, <1>2, <1>4 DEF Obtained, NoTests

(* A call fails, and init returns an error.                                *)
LEMMA ObtainedBackOut ==
  ASSUME TypeOK, Honest(row), Obtained, pc \in DOMAIN code, Step1.op \in MayFail,
         BackOut(Step1), UNCHANGED <<ko, kstate, lost>>
  PROVE  Obtained'
<1>1. row' = row /\ Taken' = Taken /\ NamesNeeded' = NamesNeeded
  BY DEF row, Taken, NamesNeeded
<1>2. ASSUME kstate = "coming"
      PROVE  after' = "absent" /\ NoTests(code')
  <2>1. after = "live"
    BY <1>2 DEF Obtained, NoTests, Step1, TypeOK
  <2>2. ~Step1.zero
    BY <1>2, <2>1 DEF Obtained, InitRun, Honest, Step1
  <2>. QED
    BY <1>2, <2>2, StepTypes DEF BackOut, TypeOK, FallibleOps
<1>. QED
  BY <1>1, <1>2 DEF Obtained

(* The steps of the module's code.                                         *)
LEMMA ObtainedCode ==
  ASSUME TypeOK, Honest(row), Obtained, CodeStep
  PROVE  Obtained'
<1>1. pc \in DOMAIN code /\ UNCHANGED <<ko, kstate, lost>>
  BY DEF CodeStep, Acquire, AcquireFails, TryPasses, TryFails, ParamGuard, HasGuard,
         Touch, CallAddr, Release, ReleaseNothing, Misstep, AtStep, StepFrame, script_vars
<1>. USE DEF AtStep, Step1, Needs, MayFail, ActOps
<1>2. CASE Acquire
  BY <1>1, <1>2, ObtainedAdvance DEF Acquire, Taken
<1>3. CASE AcquireFails
  <2>1. CASE Step1.checked
    BY <1>1, <1>3, <2>1, ObtainedBackOut DEF AcquireFails
  <2>2. CASE ~Step1.checked
    BY <1>1, <1>3, <2>2, ObtainedAdvance DEF AcquireFails
  <2>. QED
    BY <2>1, <2>2
<1>4. CASE TryPasses \/ Touch \/ CallAddr \/ Release \/ ReleaseNothing \/ Misstep
  BY <1>1, <1>4, ObtainedAdvance
     DEF TryPasses, Touch, CallAddr, Release, ReleaseNothing, Misstep
<1>5. CASE TryFails
  BY <1>1, <1>5, ObtainedBackOut DEF TryFails
<1>6. CASE ParamGuard
  BY <1>1, <1>6, ObtainedAdvance, ObtainedBackOut DEF ParamGuard
<1>7. CASE HasGuard
  BY <1>1, <1>7, ObtainedAdvance, ObtainedBackOut DEF HasGuard
<1>. QED
  BY <1>2, <1>3, <1>4, <1>5, <1>6, <1>7 DEF CodeStep

(* init has come to its end: it has obtained every name it needs.          *)
LEMMA ObtainedAll ==
  ASSUME TypeOK, InitRun, Ended
  PROVE  NamesNeeded \cap Taken = {}
<1>1. DOMAIN code = 1..Len(code) /\ Len(code) \in Nat
  BY DEF TypeOK, Code
<1>2. pc = Len(code) + 1
  BY <1>1 DEF InitRun, Ended
<1>3. \A i \in DOMAIN row.init : Needs(row.init[i]) => row.init[i].res \notin Taken
  BY <1>1, <1>2 DEF InitRun
<1>. QED
  BY <1>3 DEF NamesNeeded, Needs

(* The other steps.                                                        *)
LEMMA ObtainedOther ==
  ASSUME TypeOK, Obtained, [Next]_vars, ~CodeStep
  PROVE  Obtained'
<1>. USE DEF script_vars, run_vars, data_vars
<1>0. row' = row /\ (lost' = lost => Taken' = Taken)
  BY SameRow DEF Taken
<1>1. NamesNeeded' = NamesNeeded
  BY <1>0 DEF NamesNeeded
<1>2. CASE Insmod
  <2>1. row.init \in Code
    BY RowTypes DEF TypeOK
  <2>2. code' = row.init /\ pc' = 1 /\ after' = "live" /\ kstate' = "coming"
    BY <1>2 DEF Insmod, Enter
  <2>3. 1 \in 1..(Len(row.init) + 1) /\ 1..(1 - 1) = {}
    BY <2>1 DEF Code
  <2>4. InitRun'
    BY <1>0, <2>2, <2>3 DEF InitRun
  <2>. QED
    BY <2>2, <2>4 DEF Obtained
<1>3. CASE InitReturns
  <2>1. NamesNeeded \cap Taken = {}
    BY <1>3, ObtainedAll DEF InitReturns, Obtained
  <2>. QED
    BY <1>0, <1>1, <1>3, <2>1 DEF InitReturns, Obtained
<1>4. CASE InitAborts \/ ExitReturns \/ Reboot
  BY <1>4 DEF InitAborts, ExitReturns, Reboot, Unmap, Obtained
<1>5. CASE Rmmod \/ ServeReturns \/ Serve
  BY <1>0, <1>1, <1>5 DEF Rmmod, ServeReturns, Serve, Enter, Obtained
<1>6. CASE \/ AddressesFound \/ AddressMissing \/ InsmodRefused \/ RmmodFails \/ Rerun
           \/ LateCallback \/ UNCHANGED vars
  <2>1. UNCHANGED <<kstate, code, pc, after, lost>>
    BY <1>6 DEF AddressesFound, AddressMissing, InsmodRefused, RmmodFails, Rerun,
       LateCallback, vars
  <2>2. InitRun' = InitRun
    BY <1>0, <2>1 DEF InitRun
  <2>. QED
    BY <1>0, <1>1, <2>1, <2>2 DEF Obtained, NoTests
<1>. QED
  BY <1>2, <1>3, <1>4, <1>5, <1>6 DEF Next, Terminated, ScriptStep, ReturnStep

(* A name that an earlier load has left behind keeps a module from loading *)
(* again, if no error path of its init returns zero.                       *)
THEOREM LeakBlocks == Spec => [](Honest(row) => LeakBlocksReload)
<1>. DEFINE Inv == TypeOK /\ (Honest(row) => Obtained)
<1>1. Init => Inv
  BY TypeInit DEF Init, Obtained
<1>2. Inv /\ [Next]_vars => Inv'
  <2>. SUFFICES ASSUME Inv, [Next]_vars PROVE Inv'
    OBVIOUS
  <2>1. TypeOK' /\ row' = row
    BY TypeNext, SameRow
  <2>2. ASSUME Honest(row) PROVE Obtained'
    BY <2>2, ObtainedCode, ObtainedOther
  <2>. QED
    BY <2>1, <2>2
<1>3. Inv => (Honest(row) => LeakBlocksReload)
  <2>. SUFFICES ASSUME TypeOK, Obtained PROVE LeakBlocksReload
    OBVIOUS
  <2>1. kstate \notin {"absent", "coming"} => NamesNeeded \cap Taken = {}
    BY DEF TypeOK, KStates, Obtained
  <2>2. NamesNeeded \cap Exclusive \cap lost = NamesNeeded \cap Taken
    BY DEF Taken
  <2>. QED
    BY <2>1, <2>2 DEF LeakBlocksReload
<1>. QED
  BY <1>1, <1>2, <1>3, PTL DEF Spec

-----------------------------------------------------------------------------
(* A module keeps its promises.                                            *)

Now == Memory(held, gone)

(* What is to become of the module when the code that runs has ended, and  *)
(* when one of its error paths has.                                        *)
Fate     == IF kstate = "coming" THEN after
            ELSE IF kstate = "serving" THEN "live" ELSE "absent"
FailFate == IF kstate = "serving" THEN "live" ELSE "absent"

(***************************************************************************)
(* The strengthening.  While the kernel runs code of the module, there are *)
(* memories for each of its positions, closed under its steps and with the *)
(* ends that were promised, and the memory of the module is one of those   *)
(* at its position.                                                        *)
(***************************************************************************)
OnTrack(promise) ==
  \E w, known :
    /\ pc \in 1..(Len(code) + 1)
    /\ Now \in w[pc]
    /\ Known(code, known, pc) \subseteq args
    /\ Path(code, w, known, LiveMemories(row), promise, Fate, FailFate)

Faithful(promise) ==
  /\ lost \cap promise.free = {}
  /\ promise.careful => ~oops
  /\ kstate = "absent" => held = {}
  /\ kstate = "live" => Now \in LiveMemories(row)
  /\ kstate = "coming" /\ after = "absent" => NoTests(code)
  /\ Running => OnTrack(promise)

(* What is careful also leaves nothing the kernel would call.              *)
Coherent(promise) == promise.careful => TextRes \subseteq promise.free

(* The script is where the kernel's state allows, whatever the module.     *)
LEMMA PlacesNext ==
  ASSUME TypeOK, Places, [Next]_vars
  PROVE  Places'
<1>. USE DEF Places, TypeOK, script_vars, run_vars, data_vars
<1>0. row' = row /\ row.script.verdict \in Verdicts
  BY SameRow, RowTypes
<1>1. CASE ScriptStep
  <2>1. CASE AddressesFound
    BY <1>0, <2>1 DEF AddressesFound
  <2>2. CASE AddressMissing \/ Insmod \/ Rmmod \/ Rerun
    BY <1>0, <2>2 DEF AddressMissing, Insmod, Rmmod, Rerun, Enter
  <2>3. CASE InsmodRefused
    BY <1>0, <2>3 DEF InsmodRefused, Judged, Verdicts
  <2>4. CASE RmmodFails \/ Reboot
    BY <1>0, <2>4 DEF RmmodFails, Reboot, Running
  <2>. QED
    BY <1>1, <2>1, <2>2, <2>3, <2>4 DEF ScriptStep
<1>2. CASE CodeStep
  <2>1. UNCHANGED <<script, kstate, args>>
    BY <1>2 DEF CodeStep, Acquire, AcquireFails, TryPasses, TryFails, ParamGuard,
       HasGuard, Touch, CallAddr, Release, ReleaseNothing, Misstep, StepFrame
  <2>. QED
    BY <1>0, <2>1
<1>3. CASE ReturnStep
  BY <1>0, <1>3 DEF ReturnStep, InitReturns, InitAborts, ExitReturns, ServeReturns,
     Unmap, Judged, Verdicts
<1>4. CASE Serve \/ LateCallback \/ UNCHANGED vars
  BY <1>0, <1>4 DEF Serve, LateCallback, Enter, vars
<1>. QED
  BY <1>1, <1>2, <1>3, <1>4 DEF Next, Terminated

(* A parameter is known behind the step that tests it.                     *)
LEMMA KnownNext ==
  ASSUME NEW c, NEW known, NEW i \in Nat \ {0}
  PROVE  Known(c, known, i + 1) =
           Known(c, known, i) \cup (IF c[i].op = "param" THEN {c[i].res} ELSE {})
<1>1. 1..((i + 1) - 1) = (1..(i - 1)) \cup {i}
  OBVIOUS
<1>. QED
  BY <1>1 DEF Known

(* The code goes on to its next step.                                      *)
LEMMA TrackAdvance ==
  ASSUME NEW promise, TypeOK, OnTrack(promise), pc \in DOMAIN code, Advance,
         UNCHANGED <<ko, kstate, args>>, Now' \in Passed(Step1, Now),
         Step1.op = "param" => Step1.res \in args
  PROVE  OnTrack(promise)'
<1>1. /\ code' = code /\ pc' = pc + 1 /\ after' = after
      /\ row' = row /\ Fate' = Fate /\ FailFate' = FailFate
  BY DEF Advance, row, Fate, FailFate
<1>2. Len(code) \in Nat /\ DOMAIN code = 1..Len(code) /\ pc \in Nat \ {0}
  BY DEF TypeOK, Code
<1>3. PICK w, known :
        /\ Now \in w[pc]
        /\ Known(code, known, pc) \subseteq args
        /\ Path(code, w, known, LiveMemories(row), promise, Fate, FailFate)
  BY DEF OnTrack
<1>4. Now' \in w[pc']
  BY <1>1, <1>3 DEF Path, Line, Step1
<1>5. Known(code, known, pc + 1) \subseteq args
  BY <1>2, <1>3, KnownNext DEF Step1
<1>6. pc' \in 1..(Len(code') + 1)
  BY <1>1, <1>2
<1>. QED
  BY <1>1, <1>3, <1>4, <1>5, <1>6 DEF OnTrack

(* The code goes over to an error path.                                    *)
LEMMA TrackBackOut ==
  ASSUME NEW promise, TypeOK, OnTrack(promise), Running, pc \in DOMAIN code,
         kstate = "coming" /\ after = "absent" => NoTests(code),
         Step1.op \in MayFail, Refused(Step1, Now), BackOut(Step1),
         UNCHANGED <<ko, kstate, args, held, gone>>
  PROVE  OnTrack(promise)' /\ NoTests(code')
<1>1. /\ Step1.undo \in Code /\ NoTests(Step1.undo)
      /\ code' = Step1.undo /\ pc' = 1 /\ row' = row /\ Now' = Now
  BY StepTypes DEF BackOut, FallibleOps, MayFail, TypeOK, row, Now
<1>2. PICK w, known :
        /\ Now \in w[pc]
        /\ Known(code, known, pc) \subseteq args
        /\ Path(code, w, known, LiveMemories(row), promise, Fate, FailFate)
  BY DEF OnTrack
<1>. DEFINE u == Walk(Step1.undo, Turned(code, w, pc))
            k == Known(code, known, pc)
<1>3. Now \in u[1]
  BY <1>2 DEF Turned, Path, Step1
<1>4. /\ Line(Step1.undo, u, k, promise)
      /\ \A m \in u[Len(Step1.undo) + 1] :
           MayEnd(m, IF Step1.zero THEN Fate ELSE FailFate, LiveMemories(row), promise)
  BY <1>2 DEF Path, Step1
<1>5. (IF Step1.zero THEN Fate ELSE FailFate) = Fate'
  <2>1. kstate = "coming" => after = "live"
    BY DEF NoTests, Step1, TypeOK
  <2>. QED
    BY <2>1 DEF Fate, FailFate, BackOut, Running
<1>6. Known(code', k, pc') \subseteq args'
  BY <1>1, <1>2 DEF Known
<1>7. Path(code', u, k, LiveMemories(row'), promise, Fate', FailFate')
  BY <1>1, <1>4, <1>5 DEF Path, NoTests
<1>8. pc' \in 1..(Len(code') + 1)
  BY <1>1 DEF Code
<1>. QED
  BY <1>1, <1>3, <1>6, <1>7, <1>8 DEF OnTrack

(* A step of the module's code.  One that is undefined breaks no promise   *)
(* but that of a careful module, which has none.                           *)
LEMMA FaithfulCode ==
  ASSUME NEW promise, TypeOK, Faithful(promise), CodeStep
  PROVE  Faithful(promise)'
<1>1. /\ Running /\ pc \in DOMAIN code /\ UNCHANGED <<ko, kstate, args, lost>>
      /\ Running' /\ OnTrack(promise)
  BY DEF CodeStep, Acquire, AcquireFails, TryPasses, TryFails, ParamGuard, HasGuard,
         Touch, CallAddr, Release, ReleaseNothing, Misstep, AtStep, StepFrame,
         script_vars, Running, Faithful
<1>. USE DEF AtStep, Step1
<1>2. ASSUME Advance, Now' \in Passed(Step1, Now), oops' = oops,
             Step1.op = "param" => Step1.res \in args
      PROVE  Faithful(promise)'
  BY <1>1, <1>2, TrackAdvance DEF Faithful, Advance, NoTests, Running
<1>3. ASSUME BackOut(Step1), Step1.op \in MayFail, Refused(Step1, Now), DataFrame
      PROVE  Faithful(promise)'
  BY <1>1, <1>3, TrackBackOut DEF Faithful, Running, DataFrame
<1>4. DataFrame => Now' = Now /\ oops' = oops
  BY DEF DataFrame, Now
<1>5. CASE Acquire
  <2>1. Now' \in Passed(Step1, Now)
    BY <1>5 DEF Acquire, Passed, Gains, Now, Memory
  <2>. QED
    BY <1>2, <1>5, <2>1 DEF Acquire
<1>6. CASE AcquireFails
  <2>1. CASE Step1.checked
    BY <1>3, <1>6, <2>1 DEF AcquireFails, Refused, MayFail
  <2>2. CASE ~Step1.checked
    <3>1. Now \in Passed(Step1, Now)
      BY <1>6, <2>2 DEF AcquireFails, Passed, Gains
    <3>. QED
      BY <1>2, <1>4, <1>6, <2>2, <3>1 DEF AcquireFails
  <2>. QED
    BY <2>1, <2>2
<1>7. CASE TryPasses \/ Touch \/ CallAddr
  <2>1. Now \in Passed(Step1, Now)
    BY <1>7 DEF TryPasses, Touch, CallAddr, Passed, Gains, Releases
  <2>. QED
    BY <1>2, <1>4, <1>7, <2>1 DEF TryPasses, Touch, CallAddr
<1>8. CASE TryFails
  BY <1>3, <1>8 DEF TryFails, Refused, MayFail
<1>9. CASE ParamGuard
  <2>1. Now \in Passed(Step1, Now)
    BY <1>9 DEF ParamGuard, Passed, Gains, Releases
  <2>2. Step1.op \in MayFail /\ Refused(Step1, Now)
    BY <1>9 DEF ParamGuard, MayFail, Refused
  <2>. QED
    BY <1>2, <1>3, <1>4, <1>9, <2>1, <2>2 DEF ParamGuard
<1>10. CASE HasGuard
  <2>1. Step1.res \in held => Now \in Passed(Step1, Now)
    BY <1>10 DEF HasGuard, Passed, Gains, Releases, Now, Memory
  <2>2. Step1.op \in MayFail /\ (Step1.res \notin held => Refused(Step1, Now))
    BY <1>10 DEF HasGuard, MayFail, Refused, Now, Memory
  <2>. QED
    BY <1>2, <1>3, <1>4, <1>10, <2>1, <2>2 DEF HasGuard
<1>11. CASE Release \/ ReleaseNothing
  <2>1. Now' \in Passed(Step1, Now)
    BY <1>11 DEF Release, ReleaseNothing, DataFrame, Passed, Gains, Releases, Now, Memory
  <2>. QED
    BY <1>2, <1>4, <1>11, <2>1 DEF Release, ReleaseNothing
<1>12. CASE Misstep
  <2>1. Now' \in Passed(Step1, Now) /\ Advance /\ Step1.op # "param"
    BY <1>12 DEF Misstep, Missing, Passed, Gains, Releases, Now, Memory, ActOps
  <2>2. ~promise.careful
    <3>1. PICK w, known :
            /\ Now \in w[pc]
            /\ Known(code, known, pc) \subseteq args
            /\ Line(code, w, known, promise)
      BY <1>1 DEF OnTrack, Path
    <3>2. promise.careful => Harmless(Step1, Now, Known(code, known, pc))
      BY <1>1, <3>1 DEF Line, Step1
    <3>. QED
      BY <1>12, <3>1, <3>2 DEF Misstep, Missing, Harmless, Now, Memory, ActOps
  <2>3. OnTrack(promise)'
    BY <1>1, <2>1, TrackAdvance
  <2>. QED
    BY <1>1, <2>1, <2>2, <2>3 DEF Faithful, Advance, NoTests, Running
<1>. QED
  BY <1>5, <1>6, <1>7, <1>8, <1>9, <1>10, <1>11, <1>12 DEF CodeStep

(* The kernel begins to run a function of a module that keeps its promise. *)
LEMMA TrackEnter ==
  ASSUME NEW promise, NEW c \in Code, NEW from, NEW state, NEW stays,
         Enter(c, state, stays), UNCHANGED ko, Now' \in from, row.script.chk \subseteq args',
         PathFrom(c, from, row.script.chk, LiveMemories(row), promise, Fate', FailFate')
  PROVE  OnTrack(promise)'
<1>1. code' = c /\ pc' = 1 /\ row' = row
  BY DEF Enter, row
<1>. DEFINE w == Walk(c, from)
            chk == row.script.chk
<1>2. Now' \in w[1] /\ Path(c, w, chk, LiveMemories(row), promise, Fate', FailFate')
  BY DEF PathFrom
<1>3. Known(c, chk, 1) \subseteq args'
  BY DEF Known
<1>4. 1 \in 1..(Len(c) + 1)
  BY DEF Code
<1>. QED
  BY <1>1, <1>2, <1>3, <1>4 DEF OnTrack

(* A function of the module has come to its end.                           *)
LEMMA TrackEnd ==
  ASSUME NEW promise, TypeOK, OnTrack(promise), Ended
  PROVE  MayEnd(Now, Fate, LiveMemories(row), promise)
<1>1. pc = Len(code) + 1
  BY DEF OnTrack, Ended, TypeOK, Code
<1>. QED
  BY <1>1 DEF OnTrack, Path

(* The steps of script and kernel.                                         *)
LEMMA FaithfulOther ==
  ASSUME NEW promise, Coherent(promise), TypeOK, Places, Keeps(row, promise),
         Faithful(promise), [Next]_vars, ~CodeStep
  PROVE  Faithful(promise)'
<1>. USE DEF script_vars, run_vars, data_vars
<1>0. /\ row' = row /\ ko \in Ko /\ row.init \in Code /\ row.exit \in Code
      /\ \A h \in DOMAIN row.serve : row.serve[h] \in Code
  BY SameRow, RowTypes DEF TypeOK
<1>1. CASE Insmod
  <2>1. /\ Enter(row.init, "coming", "live") /\ Now' = Nothing
        /\ UNCHANGED <<ko, args, lost, oops>> /\ row.script.chk \subseteq args'
    BY <1>1 DEF Insmod, Faithful, Now, Nothing, Places
  <2>2. Fate' = "live" /\ FailFate' = "absent" /\ kstate' = "coming" /\ after' = "live"
    BY <2>1 DEF Enter, Fate, FailFate
  <2>3. PathFrom(row.init, {Nothing}, row.script.chk, LiveMemories(row), promise,
                 "live", "absent")
    BY DEF Keeps
  <2>4. OnTrack(promise)'
    BY <1>0, <2>1, <2>2, <2>3, TrackEnter
  <2>. QED
    BY <2>1, <2>2, <2>4 DEF Faithful
<1>2. CASE Rmmod
  <2>1. /\ Enter(row.exit, "going", "absent") /\ Now' \in LiveMemories(row)
        /\ UNCHANGED <<ko, args, lost, oops, held>> /\ row.script.chk \subseteq args'
    BY <1>2 DEF Rmmod, Faithful, Now, Places
  <2>2. Fate' = "absent" /\ FailFate' = "absent" /\ kstate' = "going"
    BY <2>1 DEF Enter, Fate, FailFate
  <2>3. PathFrom(row.exit, LiveMemories(row), row.script.chk, LiveMemories(row), promise,
                 "absent", "absent")
    BY DEF Keeps
  <2>4. OnTrack(promise)'
    BY <1>0, <2>1, <2>2, <2>3, TrackEnter
  <2>. QED
    BY <2>1, <2>2, <2>4 DEF Faithful
<1>3. CASE Serve
  <2>1. PICK h \in DOMAIN row.serve : Enter(row.serve[h], "serving", "live")
    BY <1>3 DEF Serve
  <2>2. /\ Now' \in LiveMemories(row) /\ UNCHANGED <<ko, args, lost, oops, held>>
        /\ row.script.chk \subseteq args'
    BY <1>3 DEF Serve, Faithful, Now, Places
  <2>3. Fate' = "live" /\ FailFate' = "live" /\ kstate' = "serving"
    BY <2>1 DEF Enter, Fate, FailFate
  <2>4. PathFrom(row.serve[h], LiveMemories(row), row.script.chk, LiveMemories(row), promise,
                 "live", "live")
    BY DEF Keeps
  <2>5. OnTrack(promise)'
    BY <1>0, <2>1, <2>2, <2>3, <2>4, TrackEnter
  <2>. QED
    BY <2>2, <2>3, <2>5 DEF Faithful
<1>4. CASE InitReturns \/ ServeReturns
  <2>1. Now \in LiveMemories(row)
    BY <1>4, TrackEnd DEF InitReturns, ServeReturns, Faithful, Running, Fate, MayEnd
  <2>2. /\ kstate' = "live" /\ ~Running' /\ UNCHANGED <<held, gone, lost, oops>>
    BY <1>4 DEF InitReturns, ServeReturns, Running
  <2>3. (Now \in LiveMemories(row))'
    BY <1>0, <2>1, <2>2 DEF Now
  <2>. QED
    BY <2>2, <2>3 DEF Faithful
<1>5. CASE InitAborts \/ ExitReturns
  <2>1. held \cap promise.free = {}
    BY <1>5, TrackEnd
       DEF InitAborts, ExitReturns, Faithful, Running, Fate, MayEnd, Now, Memory
  <2>2. /\ kstate' = "absent" /\ ~Running' /\ held' = {} /\ oops' = oops
        /\ lost' = lost \cup held
    BY <1>5 DEF InitAborts, ExitReturns, Unmap, Running
  <2>. QED
    BY <2>1, <2>2 DEF Faithful
<1>6. CASE Reboot
  BY <1>6 DEF Reboot, Faithful, Running
<1>7. CASE LateCallback
  <2>1. ~promise.careful
    BY <1>7 DEF LateCallback, Coherent, Faithful
  <2>2. UNCHANGED <<ko, kstate, code, pc, after, args, held, gone, lost>>
    BY <1>7 DEF LateCallback
  <2>3. OnTrack(promise)' = OnTrack(promise)
    BY <1>0, <2>2 DEF OnTrack, Now, Fate, FailFate
  <2>. QED
    BY <1>0, <2>1, <2>2, <2>3 DEF Faithful, Running, Now, NoTests
<1>8. CASE \/ AddressesFound \/ AddressMissing \/ InsmodRefused \/ RmmodFails \/ Rerun
           \/ UNCHANGED vars
  <2>1. UNCHANGED <<ko, kstate, code, pc, after, held, gone, lost, oops>>
    BY <1>8 DEF AddressesFound, AddressMissing, InsmodRefused, RmmodFails, Rerun, vars
  <2>2. Running => args' = args
    BY <1>8 DEF AddressesFound, AddressMissing, InsmodRefused, RmmodFails, Rerun, vars,
       Places, Running
  <2>3. Running /\ OnTrack(promise) => OnTrack(promise)'
    BY <1>0, <2>1, <2>2 DEF OnTrack, Now, Fate, FailFate
  <2>. QED
    BY <1>0, <2>1, <2>3 DEF Faithful, Running, Now, NoTests
<1>. QED
  BY <1>1, <1>2, <1>3, <1>4, <1>5, <1>6, <1>7, <1>8
     DEF Next, Terminated, ScriptStep, ReturnStep

(* The inductive invariant of both promises together.                      *)
Kept(promise) == Keeps(row, promise) => Faithful(promise)
AllKept == TypeOK /\ Places /\ Kept(NothingLeft) /\ Kept(NoHarm)

(* A module that passes the check for a promise begins without a breach ... *)
LEMMA KeptInit ==
  ASSUME NEW promise, Init
  PROVE  Kept(promise)
BY DEF Init, Kept, Faithful, Running

(* ... and no step breaks the promise.                                     *)
LEMMA KeptNext ==
  ASSUME NEW promise, Coherent(promise), TypeOK, Places, Kept(promise), [Next]_vars
  PROVE  Kept(promise)'
<1>1. row' = row
  BY SameRow
<1>2. ASSUME Keeps(row, promise) PROVE Faithful(promise)'
  BY <1>2, FaithfulCode, FaithfulOther DEF Kept
<1>. QED
  BY <1>1, <1>2 DEF Kept

(* Both promises are kept by every module that passes their checks, for    *)
(* every table, every number of rounds and every set of registrations.     *)
THEOREM PathsSound == Spec => []PromisesKept
<1>1. Coherent(NothingLeft) /\ Coherent(NoHarm)
  BY DEF NothingLeft, NoHarm, Coherent
<1>2. Init => AllKept
  BY TypeInit, KeptInit DEF AllKept, Init, Places
<1>3. AllKept /\ [Next]_vars => AllKept'
  <2>1. AllKept /\ [Next]_vars => Kept(NothingLeft)' /\ Kept(NoHarm)'
    BY <1>1, KeptNext DEF AllKept
  <2>. QED
    BY <2>1, TypeNext, PlacesNext DEF AllKept
<1>4. AllKept => PromisesKept
  BY DEF AllKept, Kept, TypeOK, Faithful, PromisesKept, Now, NothingLeft, NoHarm
<1>. QED
  BY <1>2, <1>3, <1>4, PTL DEF Spec

-----------------------------------------------------------------------------
(* The census of this repository.                                          *)

(* No module but those of the lists leaves anything behind or can stop the *)
(* kernel, in any number of rounds and whatever names are exclusive.       *)
THEOREM Census ==
  ASSUME Table = KoTable, TextRes = MCTextRes
  PROVE  Spec => []CensusHolds
<1>1. TypeOK /\ PromisesKept => NothingLeftBehind
  BY LeakyAssumption DEF TypeOK, Ko, PromisesKept, NothingLeftBehind, row
<1>2. TypeOK /\ PromisesKept => KernelSurvives
  BY CarelessAssumption DEF TypeOK, Ko, PromisesKept, KernelSurvives, NoHarm, row
<1>. QED
  BY <1>1, <1>2, TypeCorrect, PathsSound, PTL DEF CensusHolds
=============================================================================
