----------------------------- MODULE PerfSource -----------------------------
(***************************************************************************)
(* What the source of the perf programs must be like for their properties  *)
(* to hold: checks of the rows alone, which look at the steps before a     *)
(* step, and the assumption that the programs of the repository pass them. *)
(***************************************************************************)
EXTENDS PerfPrograms

Rows       == {PerfPrograms[k] : k \in DOMAIN PerfPrograms}
Before(i)  == 1..(i - 1)
EventOps   == {"open", "close", "on", "on group", "off", "off group", "refresh", "read"}
MainOnly   == {"fork", "wait all", "wait one", "handler", "owner", "async", "raise",
               "map", "unmap", "snapshot", "drain"}

StepOK(s) ==
  /\ s.op \in EventOps => s.ev \in 0..5
  /\ s.op = "open"  => s.leader \in 0..5 /\ s.with \in SUBSET STRING
  /\ s.op = "read"  => s.n \in Nat /\ s.of \in 1..5
  /\ s.op = "map"   => s.n \in Nat
  /\ s.op = "index" => s.n \in Nat /\ s.of \in Nat
  /\ s.op = "fork"  => s.n \in 1..4
  /\ s.op = "print" => s.vars \subseteq 1..5
  /\ s.op = "drain" => s.labels \in Seq(STRING) /\ s.stated \in BOOLEAN

(* Main opens events 1 to 5, a child only its own.                         *)
ASSUME StepsAssumption ==
  \A row \in Rows :
    /\ row.main \in Seq({row.main[i] : i \in DOMAIN row.main})
    /\ row.kid \in Seq({row.kid[i] : i \in DOMAIN row.kid})
    /\ \A i \in DOMAIN row.main :
         StepOK(row.main[i]) /\ row.main[i].op # "stray off"
         /\ (row.main[i].op \in EventOps => row.main[i].ev # 0)
         /\ (row.main[i].op = "open" => row.main[i].leader # 0)
    /\ \A i \in DOMAIN row.kid :
         StepOK(row.kid[i]) /\ row.kid[i].op \notin MainOnly
         /\ (row.kid[i].op = "open" => row.kid[i].ev = 0 /\ row.kid[i].leader = 0)

-----------------------------------------------------------------------------
(* Descriptors.                                                            *)

Opens(s, e)  == s.op = "open" /\ s.ev = e
Closes(s, e) == s.op = "close" /\ s.ev = e

(* A process that began with descriptors of `base' has one of e at step i. *)
HeldAt(c, base, e, i) ==
  \/ e \in base /\ \A j \in Before(i) : ~Closes(c[j], e)
  \/ \E j \in Before(i) : Opens(c[j], e) /\ \A k \in (j + 1)..(i - 1) : ~Closes(c[k], e)

(* What main has opened, it has open when it forks.                        *)
Inherited(row) == {row.main[i].ev : i \in {j \in DOMAIN row.main : row.main[j].op = "open"}}

(* Code c uses what it has, and opens no event twice.                      *)
UsesHeld(c, base) ==
  /\ \A i \in DOMAIN c :
       /\ c[i].op \in EventOps \ {"open"} => HeldAt(c, base, c[i].ev, i)
       /\ c[i].op = "raise" => HeldAt(c, base, 1, i)
  /\ \A i, j \in DOMAIN c : c[i].op = "open" /\ Opens(c[j], c[i].ev) => i = j

ForksWithAll(row) ==
  \A i \in DOMAIN row.main : row.main[i].op = "fork" =>
    /\ \A e \in Inherited(row) : HeldAt(row.main, {}, e, i)
    /\ \A j \in DOMAIN row.main : row.main[j].op = "fork" /\ row.main[j].n = row.main[i].n => i = j

ASSUME DescriptorsAssumption ==
  \A row \in Rows :
    UsesHeld(row.main, {}) /\ UsesHeld(row.kid, Inherited(row)) /\ ForksWithAll(row)

-----------------------------------------------------------------------------
(* Children.                                                               *)

(* Behind step i no child of main is alive.                                *)
WaitedAt(c, i) ==
  \E j \in Before(i) :
    /\ \A k \in DOMAIN c : c[k].op = "fork" => k < j
    /\ \/ c[j].op = "wait all"
       \/ c[j].op = "wait one"
          /\ \A k, l \in DOMAIN c : c[k].op = "fork" /\ c[l].op = "fork" => k = l

(* Main reads, closes and ends when its children have.                     *)
ASSUME WaitAssumption ==
  \A row \in Rows :
    (\E i \in DOMAIN row.main : row.main[i].op = "fork") =>
      /\ WaitedAt(row.main, Len(row.main) + 1)
      /\ \A i \in DOMAIN row.main :
           row.main[i].op \in {"read", "close"} => WaitedAt(row.main, i)

-----------------------------------------------------------------------------
(* Values.                                                                 *)

LedBy(c, e, l) == \E i \in DOMAIN c : Opens(c[i], e) /\ c[i].leader = l

(* Step j enables event e when its leader is enabled.                      *)
TurnsOn(c, e, j) ==
  \/ Opens(c[j], e) /\ c[j].leader = e /\ "on" \in c[j].with
  \/ c[j].op \in {"on", "refresh"} /\ c[j].ev = e /\ LedBy(c, e, e)
  \/ /\ c[j].op = "on group" /\ HeldAt(c, {}, e, j)
     /\ LedBy(c, c[j].ev, c[j].ev) /\ LedBy(c, e, c[j].ev)

TurnedOn(c, e, i) == \E j \in Before(i) : TurnsOn(c, e, j)

GroupOn(c, e, i) ==
  \A l, m \in 0..5 : LedBy(c, e, l) /\ LedBy(c, m, l) => TurnedOn(c, m, i)

ReadAtZero == {"ctest_perf_event_sibling", "ctest_perf_event_pinned"}

(* What is read has been turned on: by main for an event a child has       *)
(* inherited, before it forked.                                            *)
ASSUME TurnedOnAssumption ==
  \A k \in DOMAIN PerfPrograms \ ReadAtZero :
    LET row == PerfPrograms[k] IN
    /\ \A i \in DOMAIN row.main :
         /\ row.main[i].op = "read"  => GroupOn(row.main, row.main[i].ev, i)
         /\ row.main[i].op = "raise" => GroupOn(row.main, 1, i)
    /\ \A i \in DOMAIN row.kid : row.kid[i].op = "read" =>
         IF row.kid[i].ev = 0 THEN GroupOn(row.kid, 0, i)
         ELSE \A f \in DOMAIN row.main :
                row.main[f].op = "fork" => GroupOn(row.main, row.kid[i].ev, f)

Overrun(s, p) == s.op = "index" /\ p + s.n >= s.of

(* The n words that are read are what an event that c opens has to give.   *)
Suffices(c, e, n) ==
  \A i \in DOMAIN c : Opens(c[i], e) =>
    "group" \notin c[i].with /\ n >= 1 + (IF "id" \in c[i].with THEN 1 ELSE 0)

(* Step j reads variable v, or process p damages its memory with it.       *)
ReadsAt(row, c, p, v, j) ==
  \/ Overrun(c[j], p)
  \/ /\ c[j].op = "read" /\ c[j].of = v
     /\ Suffices(IF c[j].ev = 0 THEN row.kid ELSE row.main, c[j].ev, c[j].n)

ReadBefore(row, c, p, v, i) == \E j \in Before(i) : ReadsAt(row, c, p, v, j)

ASSUME ReadAssumption ==
  \A k \in DOMAIN PerfPrograms \ PrintsUnread :
    LET row == PerfPrograms[k] IN
    /\ \A i \in DOMAIN row.main : row.main[i].op = "print" =>
         \A v \in row.main[i].vars : ReadBefore(row, row.main, 0, v, i)
    /\ \A i \in DOMAIN row.kid : row.kid[i].op = "print" =>
         \A v \in row.kid[i].vars, p \in Kids : ReadBefore(row, row.kid, p, v, i)

-----------------------------------------------------------------------------
(* Harm.                                                                   *)

(* Only two programs write behind an array themselves, and of four         *)
(* children only the last; a handler is there before SIGIO has an owner.   *)
ASSUME HarmAssumption ==
  \A k \in DOMAIN PerfPrograms :
    LET row == PerfPrograms[k] IN
    /\ \A i \in DOMAIN row.main :
         /\ Overrun(row.main[i], 0) =>
              k \in {"ctest_perf_event_pending", "ctest_perf_event_min_heap"}
         /\ row.main[i].op = "owner" => \E j \in Before(i) : row.main[j].op = "handler"
    /\ \A i \in DOMAIN row.kid, p \in 1..3 : ~Overrun(row.kid[i], p)

Sharing == {"ctest_perf_event_herit", "ctest_perf_event_pinned", "ctest_perf_event_sync_child"}

(* A child turns off or closes the event of another only in these.         *)
ASSUME OwnersAssumption ==
  \A k \in DOMAIN PerfPrograms \ Sharing : \A i \in DOMAIN PerfPrograms[k].kid :
    LET s == PerfPrograms[k].kid[i] IN
    s.op # "stray off" /\ (s.op \in EventOps => s.ev = 0)

-----------------------------------------------------------------------------
(* The mapped buffer.                                                      *)

(* Before step i, event 1 has been turned off for good.                    *)
QuietAt(c, i) ==
  \E j \in Before(i) :
    /\ c[j].op = "off" /\ c[j].ev = 1
    /\ \A k \in (j + 1)..Len(c) : c[k].op \notin {"open", "on", "on group", "refresh"}

Fits(s, fields) ==
  \A i \in DOMAIN s.labels :
    (s.stated => i <= Len(fields)) => i <= Len(fields) /\ s.labels[i] = fields[i]

Mislabelled == {"ctest_perf_event_sample_regs", "ctest_perf_event_sample_regs_intr",
                "ctest_perf_sample_stack_user", "ctest_perf_sample_data_pgsize"}

(* Who drains the buffer has one event and no child, and takes the head    *)
(* when the event is off; its labels are those of the sample.              *)
Drains(c) == \E i \in DOMAIN c : c[i].op = "drain"

ASSUME DrainAssumption ==
  \A k \in DOMAIN PerfPrograms :
    LET c == PerfPrograms[k].main IN
    Drains(c) =>
      /\ \A i \in DOMAIN c :
           /\ c[i].op \notin {"fork", "raise"} /\ (c[i].op = "open" => c[i].ev = 1)
           /\ c[i].op = "snapshot" => QuietAt(c, i)
           /\ c[i].op = "drain" => \E j \in Before(i) : c[j].op = "snapshot"
      /\ k \notin Mislabelled =>
           \A i, j \in DOMAIN c : c[i].op = "drain" /\ c[j].op = "open" =>
             \A fields \in Samples(c[j].with) : Fits(c[i], fields)
=============================================================================
