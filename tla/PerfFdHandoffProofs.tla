------------------------ MODULE PerfFdHandoffProofs ------------------------
(***************************************************************************)
(* Proofs about PerfFdHandoff for any set of programs and any number of    *)
(* loads of the module.                                                    *)
(***************************************************************************)
EXTENDS PerfFdHandoff, TLAPS

(***************************************************************************)
(* The strengthening.  A program in the handler is writing; one that has   *)
(* opened the file has it of a module that is there, and that rmmod turns  *)
(* it away from unless it is in the handler already; the shared variable   *)
(* refers to the event of a program whose handler is still to release it,  *)
(* or to one that has been released, and to nobody only while no handler   *)
(* uses it; an event is released before its program ends only by a handler *)
(* that has run to its end; and whatever used a released event met two     *)
(* such programs, or a closed descriptor.                                  *)
(* Came is stable: a program that has come to the handler, or past it,     *)
(* stays so.                                                               *)
(***************************************************************************)
Past(p) == prog[p] \in {"served", "exit", "dead"}
Came(p) == handler[p] # "idle" \/ Past(p)

Inside  == /\ proc => mod = "live"
           /\ \A p \in Procs :
                /\ handler[p] # "idle" => prog[p] = "write"
                /\ prog[p] = "write" => mod = "live" \/ (mod = "going" /\ handler[p] # "idle")
Stored  == \A p \in Procs : p \in event => InUse(p) \/ (Past(p) /\ perf[p] = "freed")
Held    == \A p \in Procs : InUse(p) => event # {}
Freed   == (\E p \in Procs : perf[p] = "freed") => \E r \in Procs : Past(r)
Damage  == corrupt => \/ \E p \in Procs : prog[p] = "dead"
                      \/ \E p, q \in Procs : p # q /\ Came(p) /\ Came(q)

IInv == TypeOK /\ Inside /\ Stored /\ Held /\ Freed /\ Damage /\ SwappedNotForgotten

-----------------------------------------------------------------------------
(* What a step of program p does to the others: nothing, and p itself      *)
(* stays Came when it was.                                                 *)
Onward == \A q \in Procs : /\ Past(q) => Past(q)'
                           /\ Came(q) => Came(q)'
                           /\ prog[q] = "dead" => prog'[q] = "dead"

(* Whatever keeps Came stable keeps the damage explained.                  *)
LEMMA DamageKept ==
  ASSUME Damage, Onward, corrupt' = corrupt
  PROVE  Damage'
BY DEF Damage, Onward

(* The user of an event that has been released is not alone: the handler   *)
(* of another program has come to its end.                                 *)
LEMMA DamageExplained ==
  ASSUME IInv, Onward, NEW p \in Procs, handler[p] # "idle", Uses(event)
  PROVE  Damage'
<1>1. CASE corrupt' = corrupt
  BY <1>1, DamageKept DEF IInv
<1>2. CASE \E q \in event : perf[q] = "freed"
  <2>1. PICK r \in Procs : Past(r)
    BY <1>2 DEF IInv, Freed, TypeOK
  <2>2. prog[p] = "write"
    BY DEF IInv, Inside
  <2>3. p # r
    BY <2>1, <2>2 DEF Past
  <2>4. Came(p)' /\ Came(r)'
    BY <2>1 DEF Onward, Came
  <2>. QED
    BY <2>3, <2>4 DEF Damage
<1>3. corrupt' = corrupt \/ \E q \in event : perf[q] = "freed"
  BY Zenon DEF Uses, IInv, TypeOK
<1>. QED
  BY <1>1, <1>2, <1>3

(* No event is forgotten by a step that leaves the users of released       *)
(* events in their handlers and serves nobody whose event is live.         *)
LEMMA SwapKept ==
  ASSUME SwappedNotForgotten, corrupt => corrupt',
         \A q \in Procs : InUse(q) /\ perf[q] = "freed" => InUse(q)' /\ perf'[q] = "freed",
         \A q \in Procs : prog'[q] = "served" /\ perf'[q] = "live"
                           => prog[q] = "served" /\ perf[q] = "live"
  PROVE  SwappedNotForgotten'
BY DEF SwappedNotForgotten

-----------------------------------------------------------------------------
(* The steps of a program outside the handler.                             *)

LEMMA InductiveProgram ==
  ASSUME IInv, NEW p \in Procs,
         Open(p) \/ SeesProc(p) \/ Fopen(p) \/ WriteRefused(p) \/ Kill(p)
  PROVE  IInv'
<1>. USE DEF IInv, TypeOK, Goes
<1>0. UNCHANGED <<handler, event, mod, proc, loads, corrupt>>
  BY DEF Open, SeesProc, Fopen, WriteRefused, Kill
<1>1. TypeOK'
  BY <1>0 DEF Open, SeesProc, Fopen, WriteRefused, Kill, ProgStates
<1>2. handler[p] = "idle" /\ prog[p] \notin {"exit", "dead"}
  BY DEF Open, SeesProc, Fopen, WriteRefused, Kill, Inside
<1>3. /\ \A q \in Procs \ {p} : prog'[q] = prog[q] /\ perf'[q] = perf[q]
      /\ prog[p] = "served" => prog'[p] = "exit"
      /\ prog'[p] # "served"
      /\ prog[p] # "start" => perf'[p] = perf[p]
  BY DEF Open, SeesProc, Fopen, WriteRefused, Kill, ProgStates
<1>4. Onward
  BY <1>0, <1>2, <1>3 DEF Onward, Past, Came
<1>5. Inside' /\ Stored'
  <2>1. prog'[p] = "write" => mod = "live"
    BY <1>2 DEF Open, SeesProc, Fopen, WriteRefused, Kill, Inside
  <2>2. Stored'
    BY <1>0, <1>2, <1>3 DEF Stored, InUse, Past
  <2>3. (proc => mod = "live")'
    BY <1>0 DEF Inside
  <2>4. ASSUME NEW q \in Procs
        PROVE  (/\ handler[q] # "idle" => prog[q] = "write"
                /\ prog[q] = "write" => mod = "live" \/ (mod = "going" /\ handler[q] # "idle"))'
    <3>1. handler'[q] = handler[q] /\ mod' = mod
      BY <1>0
    <3>2. CASE q = p
      BY <1>2, <2>1, <3>1, <3>2
    <3>3. CASE q # p
      BY <1>3, <3>1, <3>3 DEF Inside
    <3>. QED
      BY <3>2, <3>3
  <2>. QED
    BY <2>2, <2>3, <2>4 DEF Inside
<1>6. perf'[p] = "freed" => perf[p] = "freed"
  BY DEF Open, SeesProc, Fopen, WriteRefused, Kill
<1>7. Freed'
  BY <1>3, <1>4, <1>6 DEF Freed, Onward
<1>8. Held'
  BY <1>0 DEF Held, InUse
<1>9. Damage'
  BY <1>0, <1>4, DamageKept
<1>10. SwappedNotForgotten'
  <2>1. ~InUse(p)
    BY <1>2 DEF InUse
  <2>. QED
    BY <1>0, <1>3, <2>1, SwapKept DEF InUse
<1>. QED
  BY <1>1, <1>5, <1>7, <1>8, <1>9, <1>10

(* close(fd): the program is dead, which explains whatever it has hit.     *)
LEMMA InductiveClose ==
  ASSUME IInv, NEW p \in Procs, Close(p)
  PROVE  IInv'
<1>. USE DEF IInv, TypeOK, Goes, Close
<1>1. corrupt' \in BOOLEAN
  BY Zenon
<1>2. TypeOK'
  BY <1>1 DEF ProgStates
<1>3. prog'[p] = "dead" /\ \A q \in Procs \ {p} : prog'[q] = prog[q] /\ perf'[q] = perf[q]
  OBVIOUS
<1>4. Onward
  BY <1>3 DEF Onward, Past, Came
<1>5. Inside' /\ Stored' /\ Held'
  BY <1>3, <1>4 DEF Inside, Stored, Held, InUse, Past
<1>6. Freed' /\ Damage'
  BY <1>3 DEF Freed, Damage, Past
<1>7. SwappedNotForgotten'
  <2>1. corrupt => corrupt'
    BY Zenon
  <2>2. perf'[p] = "freed" /\ UNCHANGED handler
    OBVIOUS
  <2>. QED
    BY <1>3, <2>1, <2>2, SwapKept DEF InUse
<1>. QED
  BY <1>2, <1>5, <1>6, <1>7

(* The write handler.                                                      *)
LEMMA InductiveHandler ==
  ASSUME IInv, NEW p \in Procs, Write(p) \/ HandlerStep(p)
  PROVE  IInv'
<1>. USE DEF IInv, TypeOK, HandlerGoes
<1>1. CASE Write(p)
  <2>1. TypeOK'
    BY <1>1 DEF Write, HandlerStates
  <2>2. Onward
    BY <1>1 DEF Write, Onward, Past, Came
  <2>3. Damage'
    BY <1>1, <2>2, DamageKept DEF Write
  <2>4. Stored'
    BY <1>1 DEF Write, Stored, InUse, Past
  <2>5. Inside'
    BY <1>1 DEF Write, Inside
  <2>6. Freed' /\ Held'
    BY <1>1 DEF Write, Freed, Held, InUse, Past
  <2>7. SwappedNotForgotten'
    BY <1>1, SwapKept DEF Write, InUse
  <2>. QED
    BY <2>1, <2>3, <2>4, <2>5, <2>6, <2>7
<1>2. CASE Store(p)
  <2>1. TypeOK'
    BY <1>2 DEF Store, HandlerStates
  <2>2. Onward
    BY <1>2 DEF Store, Onward, Past, Came
  <2>3. Damage'
    BY <1>2, <2>2, DamageKept DEF Store
  <2>4. Stored'
    BY <1>2 DEF Store, Stored, InUse
  <2>5. SwappedNotForgotten'
    BY <1>2, SwapKept DEF Store, InUse
  <2>6. Inside' /\ Freed' /\ Held'
    BY <1>2 DEF Store, Inside, Freed, Held, Past
  <2>. QED
    BY <2>1, <2>3, <2>4, <2>5, <2>6
<1>3. CASE PrintEvent(p) \/ BeginFails(p)
  <2>1. corrupt' \in BOOLEAN
    BY <1>3, Zenon DEF PrintEvent, BeginFails, Uses
  <2>2. TypeOK'
    BY <1>3, <2>1 DEF PrintEvent, BeginFails, HandlerStates
  <2>3. Onward
    BY <1>3 DEF PrintEvent, BeginFails, Onward, Past, Came
  <2>4. Damage'
    BY <1>3, <2>3, DamageExplained DEF PrintEvent, BeginFails
  <2>5. Stored'
    BY <1>3 DEF PrintEvent, BeginFails, Stored, InUse, Past
  <2>6. Inside' /\ Freed' /\ Held'
    BY <1>3 DEF PrintEvent, BeginFails, Inside, Freed, Held, InUse, Past
  <2>7. SwappedNotForgotten'
    <3>1. corrupt => corrupt'
      BY <1>3, Zenon DEF PrintEvent, BeginFails, Uses
    <3>. QED
      BY <1>3, <3>1, SwapKept DEF PrintEvent, BeginFails, InUse
  <2>. QED
    BY <2>2, <2>4, <2>5, <2>6, <2>7
<1>4. CASE ReleaseEvent(p)
  <2>1. corrupt' \in BOOLEAN
    BY <1>4, Zenon DEF ReleaseEvent, Uses
  <2>2. TypeOK'
    BY <1>4, <2>1 DEF ReleaseEvent, HandlerStates, ProgStates
  <2>3. prog'[p] = "served" /\ \A q \in Procs \ {p} : prog'[q] = prog[q]
    BY <1>4 DEF ReleaseEvent
  <2>4. handler'[p] = "idle" /\ \A q \in Procs \ {p} : handler'[q] = handler[q]
    BY <1>4 DEF ReleaseEvent
  <2>5. prog[p] = "write"
    BY <1>4 DEF ReleaseEvent, Inside
  <2>6. Onward
    BY <2>3, <2>4, <2>5 DEF Onward, Past, Came
  <2>7. Damage'
    BY <1>4, <2>6, DamageExplained DEF ReleaseEvent
  <2>8. Inside'
    BY <1>4, <2>3, <2>4 DEF ReleaseEvent, Inside
  <2>9. Freed'
    BY <1>4, <2>3 DEF ReleaseEvent, Freed, Past
  <2>10. \A q \in Procs : perf'[q] = IF q \in event THEN "freed" ELSE perf[q]
    BY <1>4 DEF ReleaseEvent
  <2>11. event' = event /\ InUse(p)
    BY <1>4 DEF ReleaseEvent, InUse
  <2>12. Stored' /\ Held'
    BY <2>3, <2>4, <2>10, <2>11 DEF Stored, Held, InUse, Past
  <2>13. PICK x \in Procs : event = {x}
    BY <2>11 DEF Held
  <2>14. SwappedNotForgotten'
    <3>1. CASE perf[x] = "freed"
      <4>1. corrupt'
        BY <1>4, <2>13, <3>1, Zenon DEF ReleaseEvent, Uses
      <4>. QED
        BY <4>1 DEF SwappedNotForgotten
    <3>2. CASE perf[x] # "freed" /\ x # p
      <4>1. InUse(x)' /\ perf'[x] = "freed"
        BY <2>4, <2>10, <2>13, <3>2 DEF Stored, InUse
      <4>. QED
        BY <4>1 DEF SwappedNotForgotten
    <3>3. CASE perf[x] # "freed" /\ x = p
      <4>1. corrupt => corrupt'
        BY <1>4, Zenon DEF ReleaseEvent, Uses
      <4>2. \A q \in Procs \ {p} : prog'[q] = prog[q] /\ perf'[q] = perf[q] /\ handler'[q] = handler[q]
        BY <2>3, <2>4, <2>10, <2>13, <3>3
      <4>3. perf'[p] = "freed" /\ perf[p] # "freed"
        BY <2>10, <2>13, <3>3
      <4>. QED
        BY <4>1, <4>2, <4>3, SwapKept DEF InUse
    <3>. QED
      BY <3>1, <3>2, <3>3
  <2>. QED
    BY <2>2, <2>7, <2>8, <2>9, <2>12, <2>14
<1>. QED
  BY <1>1, <1>2, <1>3, <1>4 DEF HandlerStep

(* insmod and rmmod.                                                       *)
LEMMA InductiveModule ==
  ASSUME IInv, Insmod \/ Rmmod \/ RmmodReturns
  PROVE  IInv'
<1>. USE LoadsAssumption DEF IInv, TypeOK
<1>1. UNCHANGED <<perf, handler, corrupt>>
  BY DEF Insmod, Rmmod, RmmodReturns
<1>2. TypeOK'
  <2>1. proc' \in BOOLEAN /\ corrupt' \in BOOLEAN
    BY <1>1, Zenon DEF Insmod, Rmmod, RmmodReturns
  <2>2. mod' \in {"absent", "live", "going"} /\ loads' \in 0..MaxLoads
    BY DEF Insmod, Rmmod, RmmodReturns
  <2>3. prog' \in [Procs -> ProgStates]
    BY DEF Insmod, Rmmod, RmmodReturns, ProgStates
  <2>4. event' \in {{}} \cup {{p} : p \in Procs}
    BY DEF Insmod, Rmmod, RmmodReturns
  <2>. QED
    BY <1>1, <2>1, <2>2, <2>3, <2>4
<1>3. \A q \in Procs : \/ prog'[q] = prog[q]
                       \/ prog[q] = "write" /\ handler[q] = "idle" /\ prog'[q] = "refused"
  BY DEF Insmod, Rmmod, RmmodReturns
<1>4. Onward
  BY <1>1, <1>3 DEF Onward, Past, Came
<1>5. Inside'
  BY <1>1, <1>3 DEF Inside, Insmod, Rmmod, RmmodReturns
<1>6. event' = event \/ event' = {}
  BY DEF Insmod, Rmmod, RmmodReturns
<1>7. Stored' /\ Freed'
  BY <1>1, <1>3, <1>4, <1>6 DEF Stored, Freed, Onward, InUse, Past
<1>8. Damage'
  BY <1>1, <1>4, DamageKept
<1>9. Held'
  BY <1>1 DEF Held, InUse, Inside, Insmod, Rmmod, RmmodReturns
<1>10. SwappedNotForgotten'
  BY <1>1, <1>3, SwapKept DEF InUse
<1>. QED
  BY <1>2, <1>5, <1>7, <1>8, <1>9, <1>10

(* Every step keeps the invariant.                                         *)
LEMMA Inductive == IInv /\ [Next]_vars => IInv'
<1>. SUFFICES ASSUME IInv, [Next]_vars PROVE IInv'
  OBVIOUS
<1>1. ASSUME NEW p \in Procs, ProgStep(p) \/ Kill(p)
      PROVE  IInv'
  BY <1>1, InductiveProgram, InductiveClose, InductiveHandler DEF ProgStep
<1>2. CASE UNCHANGED vars
  <2>. USE <1>2 DEF vars, IInv
  <2>1. TypeOK'
    BY DEF TypeOK
  <2>2. Inside' /\ Stored' /\ Held' /\ Freed' /\ SwappedNotForgotten'
    BY DEF Inside, Stored, Held, Freed, SwappedNotForgotten, InUse, Past
  <2>3. Onward
    BY DEF Onward, Came, Past
  <2>. QED
    BY <2>1, <2>2, <2>3, DamageKept
<1>. QED
  BY <1>1, <1>2, InductiveModule DEF Next

(* The strengthened invariant.                                             *)
THEOREM Strengthened == Spec => []IInv
<1>1. Init => IInv
  <2>1. Init => proc \in BOOLEAN /\ corrupt \in BOOLEAN /\ ~corrupt
    BY Zenon DEF Init
  <2>2. Init => TypeOK
    BY <2>1, LoadsAssumption DEF Init, TypeOK, ProgStates, HandlerStates
  <2>. QED
    BY <2>1, <2>2 DEF Init, IInv, Inside, Stored, Held, Freed, Damage, SwappedNotForgotten, InUse
<1>. QED
  BY <1>1, Inductive, PTL DEF Spec

(* Type correctness, for any programs.                                     *)
THEOREM TypeCorrect == Spec => []TypeOK
<1>1. IInv => TypeOK
  BY DEF IInv
<1>. QED
  BY <1>1, Strengthened, PTL

(* rmmod waits for every writer in the module's code.                      *)
THEOREM MappedHandler == Spec => []HandlerRunsMapped
<1>1. IInv => HandlerRunsMapped
  BY DEF IInv, Inside, HandlerRunsMapped
<1>. QED
  BY <1>1, Strengthened, PTL

(* An event that its own handler has not released was swapped for another, *)
(* not lost.                                                               *)
THEOREM NoEventForgotten == Spec => []SwappedNotForgotten
<1>1. IInv => SwappedNotForgotten
  BY DEF IInv
<1>. QED
  BY <1>1, Strengthened, PTL

(* A released event is used by a close or where two writers meet.          *)
THEOREM TwoForDamage == Spec => []DamageNeedsTwo
<1>1. ASSUME IInv, corrupt, \A p \in Procs : prog[p] # "dead"
      PROVE  \E p, q \in Procs : p # q /\ {prog[p], prog[q]} \subseteq {"write", "served", "exit"}
  <2>1. PICK p \in Procs, q \in Procs : p # q /\ Came(p) /\ Came(q)
    BY <1>1 DEF IInv, Damage
  <2>2. prog[p] \in {"write", "served", "exit"} /\ prog[q] \in {"write", "served", "exit"}
    BY <1>1, <2>1 DEF IInv, Inside, Came, Past
  <2>. QED
    BY <2>1, <2>2
<1>2. IInv => DamageNeedsTwo
  BY <1>1, Zenon DEF DamageNeedsTwo
<1>. QED
  BY <1>2, Strengthened, PTL
=============================================================================
