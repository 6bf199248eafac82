---------------------------- MODULE SignalSource ----------------------------
(***************************************************************************)
(* What the source of the programs of SignalProgramTable must be like for  *)
(* the properties of SignalPrograms to hold: the calls of main in order,   *)
(* and what is certain, and what is possible, before each of them; checks  *)
(* of that outline; and the assumption that the programs pass them.        *)
(***************************************************************************)
EXTENDS SignalPrograms

Code(k) == SignalPrograms[k].main
Kind(k) == SignalPrograms[k].kind
End(k)  == Len(Code(k)) + 1
Waiting == {"pause", "suspend", "sigwait", "sleep", "nap"}
Dying   == {"exit", "count", "third", "stop"}     \* these handlers may end the program

(* The signals a started program, and the parent of a forked child, gets   *)
(* from the other process.                                                 *)
PeerSigs(k) ==
  UNION {Code(k)[i].sigs : i \in {i \in DOMAIN Code(k) : Code(k)[i].op = "kill" /\ Code(k)[i].arg = "peer"}}
Foreign(k) ==
  LET c == SignalPrograms[k].peer IN UNION {c[i].sigs : i \in {i \in DOMAIN c : c[i].op = "kill"}}

-----------------------------------------------------------------------------
(* The outline of main: mask, saved mask and handlers before a call; due,  *)
(* what main may have sent itself and not got yet, and late, what may come *)
(* at any moment from then on; sent, what main has sent itself for sure,   *)
(* so that it is pending or caught, held, what is pending for sure, and    *)
(* sure, what has been caught; what has been printed; the tasks started.   *)

Origin ==
  [mask |-> {}, old |-> {}, disp |-> [s \in Signals |-> "default"], due |-> {}, late |-> {"INT"},
   sent |-> {}, held |-> {}, sure |-> {}, shown |-> <<>>, started |-> {}]

ToSelf(c) == IF c.op = "kill" /\ c.arg \in {"process", "thread"} THEN c.sigs ELSE {}

(* Signals sent to main alone cannot be taken by another thread.           *)
ToMain(k, c) == IF Kind(k) = "threads" /\ c.arg # "thread" THEN {} ELSE ToSelf(c)

(* The handlers that can end a sigsuspend.                                 *)
Wakers(o, c) == {s \in (o.due \cup o.late) \ c.sigs : o.disp[s] \notin {"default", "ignore"}}

MaskAfter(o, c) ==
  CASE c.op = "block"   -> o.mask \cup c.sigs
    [] c.op = "unblock" -> o.mask \ c.sigs
    [] c.op = "setmask" -> o.old
    [] OTHER            -> o.mask

DispAfter(o, c) ==
  IF c.op = "on" THEN [s \in Signals |-> IF s \in c.sigs THEN c.arg ELSE o.disp[s]] ELSE o.disp

(* Before a call that does not wait, what is not blocked is delivered.     *)
DueAfter(o, c) == IF c.op \in Waiting THEN o.due ELSE (o.due \cap o.mask) \cup ToSelf(c)

LateAfter(k, o, c) ==
  o.late \cup (IF c.op = "arm" THEN c.sigs ELSE {})
         \cup (IF c.op = "on" /\ c.arg = "resend" THEN {"USR1"} ELSE {})
         \cup (IF c.op = "start" THEN Foreign(k) ELSE {})

SentAfter(o, c) ==
  {s \in IF c.op = "sigwait" THEN o.sent \ c.sigs ELSE o.sent \cup ToSelf(c) :
     DispAfter(o, c)[s] # "ignore"}

HeldAfter(k, o, c) ==
  IF c.op = "sigwait" THEN o.held \ c.sigs
  ELSE (o.held \cup (ToMain(k, c) \cap o.mask)) \cap MaskAfter(o, c)

SureAfter(o, c) ==
  IF c.op = "suspend" /\ c.refused = "never" /\ \E s \in Signals : Wakers(o, c) = {s}
  THEN o.sure \cup Wakers(o, c) ELSE o.sure

ShownAfter(o, c) ==
  IF c.op = "show"
  THEN LET shows == CASE c.arg = "pending"                 -> o.held
                      [] c.arg = "mask"                    -> o.mask
                      [] c.arg \in {"old", "old as mask"} -> o.old
                      [] OTHER                             -> c.sigs
       IN  Append(o.shown, [shows |-> shows, says |-> IF c.arg \in AsMask THEN o.mask ELSE shows])
  ELSE o.shown

After(k, o, c) ==
  [mask |-> MaskAfter(o, c), old |-> IF c.op \in {"block", "unblock"} THEN o.mask ELSE o.old,
   disp |-> DispAfter(o, c), due |-> DueAfter(o, c), late |-> LateAfter(k, o, c),
   sent |-> SentAfter(o, c), held |-> HeldAfter(k, o, c), sure |-> SureAfter(o, c),
   shown |-> ShownAfter(o, c),
   started |-> IF c.op = "start" THEN o.started \cup {c.arg} ELSE o.started]

Outline(k) ==
  LET o[i \in 1..End(k)] == IF i = 1 THEN Origin ELSE After(k, o[i - 1], Code(k)[i - 1])
  IN  o

(* What the recursion says; a check that holds skips the pause after it,   *)
(* and the pause comes back to it.                                         *)
ASSUME OutlineAssumption ==
  \A k \in DOMAIN SignalPrograms :
    LET o == Outline(k)
        c == Code(k)
    IN  /\ o[1] = Origin
        /\ \A i \in 1..End(k) : "INT" \in o[i].late
        /\ \A i \in DOMAIN c :
             /\ o[i + 1] = After(k, o[i], c[i])
             /\ c[i].op = "check" => o[i + 2] = o[i + 1]
             /\ c[i].op \in Waiting /\ c[i].arg = "back" =>
                  /\ o[i].due \subseteq o[i - 1].due
                  /\ \A part \in DOMAIN Origin \ {"due"} : o[i - 1][part] = o[i][part]

-----------------------------------------------------------------------------
(* The calls.                                                              *)

MainOps == {"on", "block", "unblock", "setmask", "show", "kill", "check", "pidfd", "seteuid",
            "arm", "timer", "start", "join"} \cup Waiting
PeerOps == {"on", "block", "setmask", "sleep", "pause", "kill", "wild"}

ASSUME CallsAssumption ==
  \A k \in DOMAIN SignalPrograms :
    /\ Kind(k) \in {"alone", "threads", "fork", "started"}
    /\ \A t \in Tasks : LET c == SignalPrograms[k][t] IN
         /\ c \in Seq({c[i] : i \in DOMAIN c}) /\ Len(c) <= 12
         /\ \A i \in DOMAIN c :
              /\ c[i].sigs \subseteq Signals
              /\ c[i].op \in IF t = "main" THEN MainOps ELSE PeerOps
              /\ c[i].op = "on" => c[i].arg \in Handlers
              /\ c[i].op \in Waiting /\ c[i].arg = "back" => i > 1
    /\ \A i \in DOMAIN Code(k) : LET c == Code(k)[i] IN
         /\ c.op = "arm" => c.sigs \subseteq {"ALRM", "RTMIN"}
         /\ c.op = "join" => c.arg \in Tasks
         /\ c.op = "check" => i < Len(Code(k))
         /\ c.op = "kill" => c.arg \in {"process", "thread", "peer"}
         /\ c.refused = "on" => c.op \in {"start", "pause", "suspend", "sigwait"}
         /\ c.op = "start" => /\ c.arg \in {"peer", "third"} \ Outline(k)[i].started
                              /\ Kind(k) \in {"threads", "fork"}
                              /\ Kind(k) = "fork" => c.arg = "peer"

(* The other tasks and processes: what they may do to main.                *)
ASSUME PeersAssumption ==
  \A k \in DOMAIN SignalPrograms : \A t \in {"peer", "third"} :
    \A i \in DOMAIN SignalPrograms[k][t] : LET c == SignalPrograms[k][t][i] IN
      /\ c.arg # "back"
      /\ c.op = "on"   => Kind(k) = "started" /\ c.arg # "resend"
      /\ c.op = "kill" => Kind(k) = "fork" /\ t = "peer" /\ c.arg = "parent"
      /\ c.op = "wild" => Kind(k) = "threads" /\ <<k, "main", "SEGV">> \in DiesOf

ASSUME HandlersAssumption ==
  \A k \in DOMAIN SignalPrograms : \A i \in DOMAIN Code(k) : LET c == Code(k)[i] IN
    c.op = "on" => /\ Kind(k) = "threads" => c.arg = "note"
                   /\ c.arg = "resend" => Kind(k) = "alone"

-----------------------------------------------------------------------------
(* No signal kills that is not meant to: a handler is there, or main       *)
(* blocks it, also while it waits, and there is no other thread.           *)
ASSUME FatalAssumption ==
  \A k \in DOMAIN SignalPrograms :
    /\ \A s \in PeerSigs(k) : <<k, "peer", s>> \in DiesOf
    /\ \A i \in 1..End(k) : LET o == Outline(k)[i] IN
         \A s \in (o.due \cup o.late) \ {"INT"} :
           \/ <<k, "main", s>> \in DiesOf
           \/ o.disp[s] # "default"
           \/ /\ Kind(k) # "threads" /\ s \in o.mask
              /\ (i < End(k) /\ Code(k)[i].op = "suspend") => s \in Code(k)[i].sigs

(* The child's signal comes to its parent, which takes it and does not     *)
(* leave before, and which can get that signal from the child alone.       *)
ASSUME AnswerAssumption ==
  \A k \in DOMAIN SignalPrograms : \A j \in DOMAIN SignalPrograms[k].peer :
    SignalPrograms[k].peer[j].op = "kill" =>
      /\ k = "syscall_rt_sigtimedwait"
      /\ \A j2 \in DOMAIN SignalPrograms[k].peer : SignalPrograms[k].peer[j2].op = "kill" => j2 = j
      /\ Foreign(k) \cap {"INT", "ALRM", "RTMIN"} = {}
      /\ \A i \in 1..End(k) : /\ Outline(k)[i].due \cap Foreign(k) = {}
                              /\ Outline(k)[i].disp = [s \in Signals |-> "default"]
      /\ \E w \in DOMAIN Code(k) : Code(k)[w].op = "sigwait"
      /\ \A i \in DOMAIN Code(k) : LET c == Code(k)[i] IN
           /\ c.op # "check"
           /\ c.op = "sigwait" => c.arg = "result" /\ c.refused = "exit" /\ c.sigs \subseteq Foreign(k)

(* What is sent is not ignored, what is held stays so while main waits.    *)
ASSUME SentAssumption ==
  \A k \in DOMAIN SignalPrograms :
    /\ \A i \in 1..End(k) : LET o == Outline(k)[i] IN
         /\ \A s \in o.sent : o.disp[s] # "ignore"
         /\ o.held \subseteq o.mask
         /\ \A s \in Signals : o.disp[s] = "resend" => "USR1" \in o.late
    /\ \A i \in DOMAIN Code(k) :
         Code(k)[i].op = "suspend" => Outline(k)[i].held \subseteq Code(k)[i].sigs

(* A program that ends well has got the signals it is there for.           *)
ASSUME MeantAssumption ==
  \A k \in DOMAIN Meant :
    /\ Meant[k] \subseteq Outline(k)[End(k)].sure
         \cup (Outline(k)[End(k)].sent \ Outline(k)[End(k)].mask)
    /\ \A i \in 1..End(k) : \A s \in Signals :
         Outline(k)[i].disp[s] \in Dying => Meant[k] \subseteq {s}

(* The limit is used up when the timer is created.                         *)
ASSUME LimitAssumption ==
  \A i \in DOMAIN Code("syscall_time_create") :
    LET c == Code("syscall_time_create")[i] IN
      /\ c.op = "timer" => c.arg = "limited" /\ Outline("syscall_time_create")[i].held # {}

(* What is printed is what the label says, but for the mislabelled report, *)
(* and what is said to be pending is all that can be.                      *)
ASSUME ShownAssumption ==
  \A k \in DOMAIN SignalPrograms :
    /\ \A i \in 1..End(k) :
         AsLabelled(k, Outline(k)[i].shown)
    /\ \A i \in DOMAIN Code(k) : LET o == Outline(k)[i] IN
         Code(k)[i].op = "show" /\ Code(k)[i].arg = "pending"
           => (o.due \cup o.late) \cap o.mask \subseteq o.held
=============================================================================
