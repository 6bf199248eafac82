------------------------- MODULE CgroupScriptsProofs -------------------------
(***************************************************************************)
(* Theorems about CgroupScripts, for any number of rounds: from the checks *)
(* of CgroupSource follow the properties of the run.                       *)
(***************************************************************************)
EXTENDS CgroupSource, FiniteSetTheorems, TLAPS

(* The types, MaxRounds unbounded.                                         *)
ShellType == [script: Scripts, round: 1..MaxRounds, pc: Nat \ {0},
              status: {"runs", "done", "ended-early"}, ok: BOOLEAN, found: SUBSET Helpers,
              listed: SUBSET (Helpers \X {"parent", "child"}), at: SUBSET Dirs, forked: BOOLEAN]
FsType == [dirs: SUBSET Dirs, frozen: SUBSET Cgroups, threaded: SUBSET Cgroups,
           limits: SUBSET (Cgroups \X Kinds), mounts: [Plain -> Nat], cpu1: BOOLEAN]
RecType == [parent: {"none", "clone", "runs", "waits", "dying", "gone"},
            child: {"none", "runs", "dying", "gone"}, home: SUBSET Dirs, at: SUBSET Dirs]

Typed ==
  /\ system \in {"v1", "v2"} /\ shell \in ShellType
  /\ Runnable(shell.script) /\ shell.pc <= End(Row1)
  /\ fs \in FsType /\ helper \in [Helpers -> RecType] /\ excuses \subseteq Excuses

Running == shell.status = "runs"
Cloned(c, n, i) == \E j \in Before(i) : About(c[j], {"clone"}, n)

(* A helper is nothing before it is started; its child is there when the   *)
(* parent has forked.                                                      *)
Numbers ==
  /\ \A h \in Helpers :
       /\ h > 3 * shell.round => helper[h] = None
       /\ helper[h].parent = "none" => helper[h] = None
       /\ helper[h].parent = "runs" => helper[h].child = "none"
       /\ helper[h].child = "none" => helper[h].at = {}
  /\ \A n \in 1..3 :
       /\ Running /\ ~StartedAt(Row1, n, shell.pc) => helper[Number(n)] = None
       /\ Cloned(Row1, n, shell.pc) => helper[Number(n)].parent # "runs"
       /\ Running /\ helper[Number(n)].parent = "clone" => Cloned(Row1, n, shell.pc)

(* What pgrep has found has been forked; and it has found all, or missed.  *)
Findings ==
  /\ \A h \in shell.found :
       /\ helper[h].parent # "runs"
       /\ \E n \in 1..3 : h = Number(n) /\ FoundAt(Row1, n, shell.pc)
  /\ "missed" \notin excuses =>
       \A n \in 1..3 : FoundAt(Row1, n, shell.pc) => Number(n) \in shell.found

(* Shell and processes are in the cgroups their script says, unless a      *)
(* cgroup.kill was refused.                                                *)
ShellPlaced ==
  /\ shell.at \cap Empty = {}
  /\ \A d \in Dirs :
       /\ d \in shell.at => MayBeIn(Row1, d, shell.pc)
       /\ IsIn(Row1, d, shell.pc) => d \in shell.at

ChildPlaced(n, h) ==
  helper[h].child = "runs" => \A d \in Dirs :
    /\ Running /\ d \in helper[h].at =>
         /\ "threaded" \in excuses \/ MayHold(Row1, n, d, shell.pc)
         /\ h \in shell.found \/ Cloned(Row1, n, shell.pc)
    /\ Holds(Row1, n, d, shell.pc) /\ h \in shell.found => d \in helper[h].at
    /\ Born(Row1, n, d, shell.pc) => d \in helper[h].at

Places ==
  /\ \A h \in Helpers : (helper[h].home \cup helper[h].at) \cap Empty = {}
  /\ ShellPlaced
  /\ \A n \in 1..3 :
       /\ Running /\ shell.script \notin Limiting => helper[Number(n)].home = {}
       /\ ChildPlaced(n, Number(n))

Quiet(h) == helper[h].child # "runs" /\ helper[h].parent # "runs"

(* What the script has killed is dying or gone.                            *)
Killings ==
  /\ excuses \cap {"missed", "threaded"} = {} =>
       \A n \in 1..3 :
         KilledAt(Row1, n, shell.pc) \/ KilledWith(Row1, n, shell.pc) => Quiet(Number(n))
  /\ "missed" \notin excuses =>
       (Swept(Row1, shell.pc) => \A h \in Forked : Quiet(h))
  /\ ListedAt(Row1, shell.pc) => \A h \in Helpers :
       helper[h].parent \in {"runs", "waits"} => <<h, "parent">> \in shell.listed
  /\ /\ ~Running /\ excuses \cap {"missed", "threaded", "gave-up", "interrupted"} = {}
     /\ ~(shell.script \in StopsShort /\ "stopped" \in excuses)
     => \A h \in Ours : Quiet(h)
  /\ shell.status = "done" /\ shell.script = "test_cgroup_ns" /\ "missed" \notin excuses =>
       \A h \in Forked : Quiet(h)

(* In a full cgroup a helper waits for its end, and pgrep for room.        *)
Refusals ==
  /\ \A d \in Cgroups, kind \in Kinds :
       Limited(Row1, d, kind, shell.pc) => <<d, kind>> \in fs.limits
  /\ shell.script \in Limiting /\ shell.status # "ended-early" =>
       /\ ~shell.forked
       /\ \A h \in Ours :
            \/ helper[h] = None
            \/ /\ Running /\ shell.pc \in DOMAIN Row1 /\ Row1[shell.pc].op = "find"
               /\ Crowded(Row1, shell.pc)
               /\ helper[h].parent = "runs" /\ "Example" \in helper[h].home

(* Directories are there when they were made, and gone when removed.       *)
Directories ==
  /\ system = "v2" => "root" \in fs.dirs
  /\ Deep \notin fs.dirs /\ OwnGroupsEmptied
  /\ \A d \in Dirs :
       /\ Present(Row1, d, shell.pc) => d \in fs.dirs
       /\ Cleared(Row1, d, shell.pc) /\ (d \in Empty \/ excuses \subseteq {"missed"}) =>
            d \notin fs.dirs
  /\ shell.status = "done" /\ excuses \subseteq {"missed"} => Named \cap fs.dirs \subseteq Kept

(* A script that looks for v1 on v2 does not get further.                  *)
Guards ==
  system = "v2" =>
    /\ fs.dirs \cap V1Only = {}
    /\ LooksFor(Row1) => shell.pc = 1 /\ \A h \in Ours : helper[h] = None

Machine ==
  /\ CpuBack(Row1, shell.pc) => fs.cpu1
  /\ \A d \in Cgroups : Thawed(Row1, d, shell.pc) => d \notin fs.frozen
  /\ \A m \in Plain :
       /\ fs.mounts[m] <= shell.round
       /\ Running /\ (\A j \in Before(shell.pc) : ~(Row1[j].op = "mount" /\ m \in Row1[j].on))
          => fs.mounts[m] < shell.round
       /\ Running /\ shell.round = 1 /\ "refused" \notin excuses =>
            fs.mounts[m] = IF MountedAt(Row1, m, shell.pc) THEN 1 ELSE 0
  /\ MachineRestored

IInv ==
  /\ Typed /\ Numbers /\ Findings /\ Places /\ Killings /\ Refusals /\ Directories
  /\ Guards /\ Machine

-----------------------------------------------------------------------------
(* What has been done before a line, and what before the next one.         *)

(* A directory that is there at the next line was there and is not         *)
(* removed, or is made or seen by this line.                               *)
LEMMA PresentNext ==
  ASSUME NEW c, NEW d, NEW i \in Nat \ {0}, Present(c, d, i + 1)
  PROVE  \/ Present(c, d, i) /\ ~Removes(c[i], d)
         \/ c[i].op \in {"guard", "make"} /\ d \in c[i].on
<1>1. PICK j \in 1..i : /\ c[j].op \in {"guard", "make"} /\ d \in c[j].on
                        /\ \A k \in (j + 1)..i : ~Removes(c[k], d)
  BY DEF Present, Before
<1>2. CASE j < i
  BY <1>1, <1>2 DEF Present, Before
<1>. QED
  BY <1>1, <1>2

(* One that is gone at the next line was gone and is not made, or is       *)
(* removed by this line.                                                   *)
LEMMA ClearedNext ==
  ASSUME NEW c, NEW d, NEW i \in Nat \ {0}, Cleared(c, d, i + 1)
  PROVE  (Cleared(c, d, i) /\ ~Adds(c[i], d)) \/ Removes(c[i], d)
<1>1. PICK j \in 1..i : /\ Removes(c[j], d)
                        /\ \A k \in (j + 1)..i : ~Adds(c[k], d)
  BY DEF Cleared, Before
<1>2. CASE j < i
  BY <1>1, <1>2 DEF Cleared, Before
<1>. QED
  BY <1>1, <1>2

(* A limit in force at the next line was in force, or is set by this line. *)
LEMMA LimitedNext ==
  ASSUME NEW c, NEW d, NEW kind, NEW i \in Nat \ {0}, Limited(c, d, kind, i + 1)
  PROVE  \/ Limited(c, d, kind, i) /\ ~Removes(c[i], d)
         \/ c[i].op = kind /\ d \in c[i].on /\ Present(c, d, i)
<1>1. PICK j \in 1..i : /\ c[j].op = kind /\ d \in c[j].on /\ Present(c, d, j)
                        /\ \A k \in (j + 1)..i : ~Removes(c[k], d)
  BY DEF Limited, Before
<1>2. CASE j < i
  BY <1>1, <1>2 DEF Limited, Before
<1>. QED
  BY <1>1, <1>2

(* Where the shell may be at the next line: where it was, or where it      *)
(* goes.                                                                   *)
LEMMA MayBeInNext ==
  ASSUME NEW c, NEW d, NEW i \in Nat \ {0},
         \/ MayBeIn(c, d, i) /\ c[i].op # "join"
         \/ c[i].op = "join" /\ d \in c[i].on
  PROVE  MayBeIn(c, d, i + 1)
<1>1. CASE MayBeIn(c, d, i) /\ c[i].op # "join"
  <2>1. PICK j \in 1..(i - 1) : /\ c[j].op = "join" /\ d \in c[j].on
                                /\ \A k \in (j + 1)..(i - 1) : c[k].op # "join"
    BY <1>1 DEF MayBeIn, Before
  <2>2. \A k \in (j + 1)..i : c[k].op # "join"
    BY <1>1, <2>1
  <2>. QED
    BY <2>1, <2>2 DEF MayBeIn, Before
<1>2. CASE c[i].op = "join" /\ d \in c[i].on
  BY <1>2 DEF MayBeIn, Before
<1>. QED
  BY <1>1, <1>2

(* Where the shell surely is at the next line.                             *)
LEMMA IsInNext ==
  ASSUME NEW c, NEW d, NEW i \in Nat \ {0}, IsIn(c, d, i + 1)
  PROVE  \/ IsIn(c, d, i) /\ c[i].op # "join"
         \/ c[i].op = "join" /\ d \in c[i].on /\ Present(c, d, i)
<1>1. PICK j \in 1..i : /\ c[j].op = "join" /\ d \in c[j].on /\ Present(c, d, j)
                        /\ \A k \in (j + 1)..i : c[k].op # "join"
  BY DEF IsIn, Before
<1>2. CASE j < i
  BY <1>1, <1>2 DEF IsIn, Before
<1>. QED
  BY <1>1, <1>2

(* What has been started, found and cloned at the next line.               *)
LEMMA StartedNext ==
  ASSUME NEW c, NEW n, NEW i \in Nat \ {0}
  PROVE  /\ StartedAt(c, n, i + 1) <=> StartedAt(c, n, i) \/ Starts(c[i], n)
         /\ FoundAt(c, n, i + 1) <=> FoundAt(c, n, i) \/ About(c[i], {"find"}, n)
         /\ Cloned(c, n, i + 1) <=> Cloned(c, n, i) \/ About(c[i], {"clone"}, n)
<1>1. Before(i + 1) = Before(i) \cup {i}
  BY DEF Before
<1>. QED
  BY <1>1 DEF StartedAt, FoundAt, Cloned

(* A child that was born in a cgroup, or is born by this line.             *)
LEMMA BornNext ==
  ASSUME NEW c, NEW n, NEW d, NEW i \in Nat \ {0}, Born(c, n, d, i + 1)
  PROVE  Born(c, n, d, i) \/ (About(c[i], {"clone"}, n) /\ d \in c[i].on)
<1>1. Before(i + 1) = Before(i) \cup {i}
  BY DEF Before
<1>. QED
  BY <1>1 DEF Born

(* A child may be where it was, unless this line kills it, or where it is  *)
(* put.                                                                    *)
LEMMA MayHoldNext ==
  ASSUME NEW c, NEW n, NEW d, NEW i \in Nat \ {0},
         \/ /\ MayHold(c, n, d, i)
            /\ ~About(c[i], {"kill"}, n) /\ ~(c[i].op = "cgroup.kill" /\ d \in c[i].on)
         \/ About(c[i], {"put", "put-thread", "clone"}, n) /\ d \in c[i].on
  PROVE  MayHold(c, n, d, i + 1)
<1>1. CASE /\ MayHold(c, n, d, i)
           /\ ~About(c[i], {"kill"}, n) /\ ~(c[i].op = "cgroup.kill" /\ d \in c[i].on)
  <2>1. PICK j \in 1..(i - 1) :
          /\ About(c[j], {"put", "put-thread", "clone"}, n) /\ d \in c[j].on
          /\ \A k \in (j + 1)..(i - 1) :
               ~About(c[k], {"kill"}, n) /\ ~(c[k].op = "cgroup.kill" /\ d \in c[k].on)
    BY <1>1 DEF MayHold, Before
  <2>2. \A k \in (j + 1)..i :
          ~About(c[k], {"kill"}, n) /\ ~(c[k].op = "cgroup.kill" /\ d \in c[k].on)
    BY <1>1, <2>1
  <2>. QED
    BY <2>1, <2>2 DEF MayHold, Before
<1>2. CASE About(c[i], {"put", "put-thread", "clone"}, n) /\ d \in c[i].on
  BY <1>2 DEF MayHold, Before
<1>. QED
  BY <1>1, <1>2

(* A child is surely where it was put last.                                *)
LEMMA HoldsNext ==
  ASSUME NEW c, NEW n, NEW d, NEW i \in Nat \ {0}, Holds(c, n, d, i + 1)
  PROVE  \/ Holds(c, n, d, i) /\ ~About(c[i], {"put", "put-thread"}, n)
         \/ About(c[i], {"put"}, n) /\ d \in c[i].on /\ Present(c, d, i)
<1>1. PICK j \in 1..i : /\ About(c[j], {"put"}, n) /\ d \in c[j].on /\ Present(c, d, j)
                        /\ \A k \in (j + 1)..i : ~About(c[k], {"put", "put-thread"}, n)
  BY DEF Holds, Before
<1>2. CASE j < i
  BY <1>1, <1>2 DEF Holds, Before
<1>. QED
  BY <1>1, <1>2

(* The list of helpers is good until one is started.                       *)
LEMMA ListedNext ==
  ASSUME NEW c, NEW i \in Nat \ {0}, ListedAt(c, i + 1)
  PROVE  (ListedAt(c, i) /\ c[i].op # "start") \/ c[i].op = "list"
<1>1. PICK j \in 1..i : c[j].op = "list" /\ \A k \in (j + 1)..i : c[k].op # "start"
  BY DEF ListedAt, Before
<1>2. CASE j < i
  BY <1>1, <1>2 DEF ListedAt, Before
<1>. QED
  BY <1>1, <1>2

(* All helpers have been killed by the list, until one is started.         *)
LEMMA SweptNext ==
  ASSUME NEW c, NEW i \in Nat \ {0}, Swept(c, i + 1)
  PROVE  /\ \/ Swept(c, i) /\ c[i].op # "start"
            \/ c[i].op = "kill-listed" /\ ListedAt(c, i)
         /\ \A k \in DOMAIN c : c[k].op # "clone"
<1>1. PICK j \in 1..i : /\ c[j].op = "kill-listed" /\ ListedAt(c, j)
                        /\ \A k \in (j + 1)..i : c[k].op # "start"
                        /\ \A k \in DOMAIN c : c[k].op # "clone"
  BY DEF Swept, Before
<1>2. CASE j < i
  <2>1. j \in 1..(i - 1) /\ \A k \in (j + 1)..(i - 1) : c[k].op # "start"
    BY <1>1, <1>2
  <2>2. Swept(c, i)
    BY <1>1, <2>1 DEF Swept, Before
  <2>3. c[i].op # "start"
    BY <1>1, <1>2
  <2>4. \A k \in DOMAIN c : c[k].op # "clone"
    BY <1>1
  <2>. QED
    BY <2>2, <2>3, <2>4
<1>. QED
  BY <1>1, <1>2

(* A child has been killed before this line, or is killed by it.           *)
LEMMA KilledNext ==
  ASSUME NEW c, NEW n, NEW i \in Nat \ {0}, KilledAt(c, n, i + 1)
  PROVE  FoundAt(c, n, i + 1) /\ (About(c[i], {"kill"}, n) \/
           \E j \in Before(i) : About(c[j], {"kill"}, n))
<1>1. Before(i + 1) = Before(i) \cup {i}
  BY DEF Before
<1>. QED
  BY <1>1 DEF KilledAt

(* The same for the kill of a cgroup.                                      *)
LEMMA KilledWithNext ==
  ASSUME NEW c, NEW n, NEW i \in Nat \ {0}, KilledWith(c, n, i + 1)
  PROVE  \/ KilledWith(c, n, i)
         \/ /\ c[i].op = "cgroup.kill"
            /\ \E d \in c[i].on : \/ Born(c, n, d, i)
                                  \/ FoundAt(c, n, i) /\ Holds(c, n, d, i)
<1>1. Before(i + 1) = Before(i) \cup {i}
  BY DEF Before
<1>. QED
  BY <1>1 DEF KilledWith

(* When cpu1 is back and a cgroup thawed, at the next line.                *)
LEMMA MachineCodeNext ==
  ASSUME NEW c, NEW d, NEW i \in Nat \ {0}
  PROVE  /\ CpuBack(c, i + 1) => (CpuBack(c, i) /\ c[i].op # "cpu-off") \/ c[i].op = "cpu-on"
         /\ Thawed(c, d, i + 1) =>
              \/ Thawed(c, d, i) /\ ~(c[i].op = "freeze" /\ d \in c[i].on)
              \/ c[i].op = "thaw" /\ d \in c[i].on
<1>1. ASSUME CpuBack(c, i + 1)
      PROVE  (CpuBack(c, i) /\ c[i].op # "cpu-off") \/ c[i].op = "cpu-on"
  <2>1. PICK j \in 1..i : c[j].op = "cpu-on" /\ \A k \in (j + 1)..i : c[k].op # "cpu-off"
    BY <1>1 DEF CpuBack, Before
  <2>2. CASE j < i
    BY <2>1, <2>2 DEF CpuBack, Before
  <2>. QED
    BY <2>1, <2>2
<1>2. ASSUME Thawed(c, d, i + 1)
      PROVE  \/ Thawed(c, d, i) /\ ~(c[i].op = "freeze" /\ d \in c[i].on)
             \/ c[i].op = "thaw" /\ d \in c[i].on
  <2>1. PICK j \in 1..i : /\ c[j].op = "thaw" /\ d \in c[j].on
                          /\ \A k \in (j + 1)..i : ~(c[k].op = "freeze" /\ d \in c[k].on)
    BY <1>2 DEF Thawed, Before
  <2>2. CASE j < i
    BY <2>1, <2>2 DEF Thawed, Before
  <2>. QED
    BY <2>1, <2>2
<1>. QED
  BY <1>1, <1>2

(* When a directory is mounted on, at the next line.                       *)
LEMMA MountedNext ==
  ASSUME NEW c, NEW d, NEW i \in Nat \ {0}
  PROVE  MountedAt(c, d, i + 1) <=>
           \/ MountedAt(c, d, i) /\ ~(c[i].op = "umount" /\ d \in c[i].on)
           \/ c[i].op = "mount" /\ d \in c[i].on
<1>1. ASSUME MountedAt(c, d, i + 1)
      PROVE  \/ MountedAt(c, d, i) /\ ~(c[i].op = "umount" /\ d \in c[i].on)
             \/ c[i].op = "mount" /\ d \in c[i].on
  <2>1. PICK j \in 1..i : /\ c[j].op = "mount" /\ d \in c[j].on
                          /\ \A k \in (j + 1)..i : ~(c[k].op = "umount" /\ d \in c[k].on)
    BY <1>1 DEF MountedAt, Before
  <2>2. CASE j < i
    BY <2>1, <2>2 DEF MountedAt, Before
  <2>. QED
    BY <2>1, <2>2
<1>2. ASSUME MountedAt(c, d, i), ~(c[i].op = "umount" /\ d \in c[i].on)
      PROVE  MountedAt(c, d, i + 1)
  <2>1. PICK j \in 1..(i - 1) :
          /\ c[j].op = "mount" /\ d \in c[j].on
          /\ \A k \in (j + 1)..(i - 1) : ~(c[k].op = "umount" /\ d \in c[k].on)
    BY <1>2 DEF MountedAt, Before
  <2>2. \A k \in (j + 1)..i : ~(c[k].op = "umount" /\ d \in c[k].on)
    BY <1>2, <2>1
  <2>. QED
    BY <2>1, <2>2 DEF MountedAt, Before
<1>3. ASSUME c[i].op = "mount", d \in c[i].on
      PROVE  MountedAt(c, d, i + 1)
  BY <1>3 DEF MountedAt, Before
<1>. QED
  BY <1>1, <1>2, <1>3

(* Before the first line, nothing has been done.                           *)
LEMMA AtFirst ==
  ASSUME NEW c, NEW d, NEW n, NEW kind
  PROVE  /\ ~Present(c, d, 1) /\ ~Cleared(c, d, 1) /\ ~Limited(c, d, kind, 1)
         /\ ~MayBeIn(c, d, 1) /\ ~IsIn(c, d, 1) /\ ~StartedAt(c, n, 1) /\ ~FoundAt(c, n, 1)
         /\ ~Cloned(c, n, 1) /\ ~Born(c, n, d, 1) /\ ~MayHold(c, n, d, 1)
         /\ ~Holds(c, n, d, 1) /\ ~ListedAt(c, 1) /\ ~Swept(c, 1) /\ ~KilledAt(c, n, 1)
         /\ ~KilledWith(c, n, 1) /\ ~CpuBack(c, 1) /\ ~Thawed(c, d, 1) /\ ~MountedAt(c, d, 1)
<1>1. Before(1) = {}
  BY DEF Before
<1>. QED
  BY <1>1 DEF Present, Cleared, Limited, MayBeIn, IsIn, StartedAt, FoundAt, Cloned, Born,
     MayHold, Holds, ListedAt, Swept, KilledAt, KilledWith, CpuBack, Thawed, MountedAt

-----------------------------------------------------------------------------
(* Types.                                                                  *)

(* The shell is at a line of its script, or just behind the last one.      *)
LEMMA RowFacts ==
  ASSUME Typed
  PROVE  /\ shell.script \in Scripts /\ Row1 = Code(shell.script)
         /\ Len(Row1) \in Nat /\ DOMAIN Row1 = 1..Len(Row1)
         /\ \A i \in DOMAIN Row1 : StepOK(Row1[i])
         /\ shell.pc \in Nat \ {0} /\ shell.pc <= Len(Row1) + 1
<1>1. shell.script \in Scripts /\ Row1 = Code(shell.script) /\ shell.pc \in Nat \ {0}
  BY DEF Typed, ShellType, Row1, Code
<1>2. Row1 \in Seq({Row1[i] : i \in DOMAIN Row1}) /\ \A i \in DOMAIN Row1 : StepOK(Row1[i])
  BY <1>1, StepsAssumption
<1>. QED
  BY <1>1, <1>2 DEF Typed, End

(* A line that names one directory is about that.                          *)
LEMMA LineFacts ==
  ASSUME Typed, shell.pc <= Len(Row1)
  PROVE  /\ shell.pc \in DOMAIN Row1 /\ StepOK(At)
         /\ At.op \in OneDir => Dir \in Dirs /\ At.on = {Dir}
         /\ At.op \in {"mount", "umount"} => Dir \in Plain
         /\ At.on \subseteq Dirs /\ At.who \subseteq 1..3
         /\ At.op \in Kinds \cup {"freeze", "threaded"} => At.on \subseteq Cgroups
<1>1. shell.pc \in DOMAIN Row1 /\ StepOK(At)
  BY RowFacts DEF At
<1>2. ASSUME At.op \in OneDir PROVE Dir \in Dirs /\ At.on = {Dir}
  <2>1. PICK d \in Dirs : At.on = {d}
    BY <1>1, <1>2 DEF StepOK
  <2>. QED
    BY <2>1 DEF Dir
<1>3. At.op \in {"mount", "umount"} => Dir \in Plain
  BY <1>1, <1>2 DEF StepOK, OneDir
<1>. QED
  BY <1>1, <1>2, <1>3 DEF StepOK

(* A script has three helpers of its own, numbered by its round.           *)
LEMMA HelperNumbers ==
  ASSUME Typed
  PROVE  /\ shell.round \in Nat \ {0} /\ MaxRounds \in Nat \ {0}
         /\ \A n \in 1..3 : Number(n) \in Helpers /\ Number(n) \in Ours
         /\ \A n, m \in 1..3 : Number(n) = Number(m) => n = m
         /\ \A h \in Ours : \E n \in 1..3 : h = Number(n)
         /\ shell.pc <= Len(Row1) => Whose \subseteq Helpers
<1>1. shell.round \in 1..MaxRounds /\ MaxRounds \in Nat \ {0}
  BY MaxRoundsAssumption DEF Typed, ShellType
<1>2. \A n \in 1..3 : Number(n) \in Helpers
  BY <1>1 DEF Number, Helpers
<1>3. shell.pc <= Len(Row1) => At.who \subseteq 1..3
  BY LineFacts
<1>. QED
  BY <1>1, <1>2, <1>3 DEF Ours, Whose, Number

(* The shell goes on to the next line, or ends.                            *)
Advances ==
  /\ Running /\ shell.pc \in DOMAIN Row1 /\ shell' \in ShellType
  /\ shell'.script = shell.script /\ shell'.round = shell.round
  /\ shell'.status = "runs" /\ shell'.pc = shell.pc + 1
  /\ system' = system

Halts ==
  /\ Running /\ system' = system /\ fs' = fs /\ helper' = helper
  /\ \/ shell.pc = End(Row1) /\ shell' = Ended("done") /\ excuses' = excuses
     \/ /\ shell.pc \in DOMAIN Row1 /\ shell' = Ended("ended-early")
        /\ \/ /\ At.op \in {"start", "find"} /\ ~Room(shell.at, 1)
              /\ excuses' = excuses \cup {"gave-up"}
           \/ /\ At.op = "need" /\ ~(Whose \subseteq shell.found)
              /\ excuses' = excuses \cup {"stopped"}
           \/ At.op \in {"or-exit", "guard"} /\ excuses' = excuses \cup {"stopped"}

Acts(op) == Runs(op) /\ Advances

(* A step to the next line advances the shell.                             *)
LEMMA NextLine ==
  ASSUME Typed, NEW op, Runs(op), system' = system, NEW sh \in ShellType,
         sh.script = shell.script, sh.round = shell.round, sh.status = "runs",
         sh.pc = shell.pc + 1, shell' = sh
  PROVE  Acts(op)
BY LineFacts DEF Runs, Advances, Acts, Running

(* Past does so, with either exit status.                                  *)
LEMMA PastTyped ==
  ASSUME Typed, Running
  PROVE  /\ \A ok \in BOOLEAN : LET sh == [Past(shell) EXCEPT !.ok = ok] IN
              /\ sh \in ShellType /\ sh.script = shell.script /\ sh.round = shell.round
              /\ sh.status = "runs" /\ sh.pc = shell.pc + 1
         /\ LET sh == Past(shell) IN
              /\ sh \in ShellType /\ sh.script = shell.script /\ sh.round = shell.round
              /\ sh.status = "runs" /\ sh.pc = shell.pc + 1
<1>1. shell \in ShellType /\ shell.status = "runs"
  BY DEF Typed, Running
<1>2. Past(shell) \in ShellType
  BY <1>1 DEF ShellType, Past
<1>3. /\ Past(shell).script = shell.script /\ Past(shell).round = shell.round
      /\ Past(shell).status = "runs" /\ Past(shell).pc = shell.pc + 1
  BY <1>1 DEF ShellType, Past
<1>. QED
  BY <1>2, <1>3 DEF ShellType

-----------------------------------------------------------------------------
(* The lines of a script, by what they change: helpers, what the shell     *)
(* knows and where it is, the file system, or nothing.                     *)

SameKnow == /\ shell'.found = shell.found /\ shell'.listed = shell.listed
            /\ shell'.at = shell.at /\ shell'.forked = shell.forked

HelperLine ==
  /\ Advances /\ SameKnow /\ fs' = fs
  /\ \/ StartHelper \/ KillFound \/ KillGroup \/ KillListed \/ PutChild \/ CloneInto

KnowLine ==
  /\ Advances /\ fs' = fs /\ helper' = helper
  /\ FindChild \/ ListHelpers \/ Join \/ RunForking

FsLine ==
  /\ Advances /\ SameKnow /\ helper' = helper
  /\ \/ MakeDir \/ TryDir \/ SkipTry \/ RemoveDirs \/ Mount \/ Umount \/ Rename \/ Freeze
     \/ Thaw \/ MakeThreaded \/ SetLimit \/ CpuHotplug

IdleLine ==
  /\ Advances /\ SameKnow /\ UNCHANGED <<fs, helper, excuses>>
  /\ At.op \in {"address", "file", "load", "need", "or-exit", "guard", "check"}
  /\ At.op = "guard" => Dir \in fs.dirs

(* So does every action that ends with Next1.                              *)
LEMMA NextOne ==
  ASSUME Typed, NEW op, Runs(op), system' = system, NEW ok \in BOOLEAN, Next1(ok)
  PROVE  Advances /\ SameKnow /\ At.op = op
<1>1. Running
  BY DEF Runs, Running
<1>2. Advances
  BY <1>1, PastTyped, NextLine DEF Next1, Acts
<1>3. shell \in ShellType
  BY DEF Typed
<1>. QED
  BY <1>2, <1>3 DEF Next1, Past, SameKnow, Runs, ShellType

(* The actions that change a helper.                                       *)
LEMMA HelperLines ==
  ASSUME Typed, StartHelper \/ KillFound \/ KillGroup \/ KillListed \/ PutChild \/ CloneInto
  PROVE  HelperLine
<1>1. CASE StartHelper \/ KillFound \/ KillGroup \/ KillListed \/ PutChild
  <2>1. \E op : Runs(op) /\ Next1(TRUE) /\ system' = system /\ fs' = fs
    BY <1>1 DEF StartHelper, KillFound, KillGroup, KillListed, PutChild
  <2>. QED
    BY <1>1, <2>1, NextOne DEF HelperLine
<1>2. CASE CloneInto
  <2>1. (Dir \in fs.dirs /\ Room({Dir}, 1)) \in BOOLEAN
    BY DEF Room
  <2>2. \E ok \in BOOLEAN : Next1(ok)
    BY <1>2, <2>1 DEF CloneInto
  <2>3. Runs("clone") /\ system' = system /\ fs' = fs
    BY <1>2 DEF CloneInto
  <2>. QED
    BY <1>2, <2>2, <2>3, NextOne DEF HelperLine
<1>. QED
  BY <1>1, <1>2

(* A process that moves is in known cgroups.                               *)
LEMMA MovedType ==
  ASSUME NEW at \in SUBSET Dirs, NEW d \in Dirs
  PROVE  Moved(at, d) \in SUBSET Dirs
BY DEF Moved

(* The actions that change what the shell knows, or its place.             *)
LEMMA KnowLines ==
  ASSUME Typed, FindChild \/ ListHelpers \/ Join \/ RunForking
  PROVE  KnowLine
<1>0. shell \in ShellType
  BY DEF Typed
<1>1. CASE FindChild
  <2>. DEFINE seen == {h \in Whose : Lives(helper[h].child)}
              sh   == [Past(shell) EXCEPT !.found = @ \cup seen, !.ok = seen # {}]
  <2>1. Runs("find") /\ shell' = sh /\ system' = system /\ fs' = fs /\ helper' = helper
    BY <1>1 DEF FindChild
  <2>2. seen \subseteq Helpers
    BY <2>1, HelperNumbers DEF Runs
  <2>3. Past(shell) \in ShellType /\ Past(shell).pc = shell.pc + 1
        /\ Past(shell).script = shell.script /\ Past(shell).round = shell.round
        /\ Past(shell).status = "runs"
    BY <2>1, PastTyped DEF Runs, Running
  <2>4. /\ sh \in ShellType /\ sh.script = shell.script /\ sh.round = shell.round
        /\ sh.status = "runs" /\ sh.pc = shell.pc + 1
    BY <2>2, <2>3 DEF ShellType
  <2>. QED
    BY <1>1, <2>1, <2>4, NextLine DEF KnowLine, Acts
<1>2. CASE ListHelpers
  <2>. DEFINE list == {<<h, "parent">> : h \in {h \in Helpers : Lives(helper[h].parent)}}
                      \cup {<<h, "child">> : h \in {h \in Forked : Lives(helper[h].child)}}
              sh   == [Past(shell) EXCEPT !.listed = list]
  <2>1. /\ Runs("list") /\ shell' = sh /\ system' = system /\ fs' = fs /\ helper' = helper
    BY <1>2 DEF ListHelpers
  <2>2. list \subseteq Helpers \X {"parent", "child"}
    BY DEF Forked
  <2>3. Past(shell) \in ShellType /\ Past(shell).pc = shell.pc + 1
        /\ Past(shell).script = shell.script /\ Past(shell).round = shell.round
        /\ Past(shell).status = "runs"
    BY <2>1, PastTyped DEF Runs, Running
  <2>4. /\ sh \in ShellType /\ sh.script = shell.script /\ sh.round = shell.round
        /\ sh.status = "runs" /\ sh.pc = shell.pc + 1
    BY <2>2, <2>3 DEF ShellType
  <2>. QED
    BY <1>2, <2>1, <2>4, NextLine DEF KnowLine, Acts
<1>3. CASE Join
  <2>. DEFINE place == IF Dir \in fs.dirs THEN Moved(shell.at, Dir) ELSE shell.at
              sh    == [Past(shell) EXCEPT !.at = place]
  <2>1. /\ Runs("join") /\ shell' = sh /\ system' = system /\ fs' = fs /\ helper' = helper
    BY <1>0, <1>3 DEF Join, Past, ShellType
  <2>2. place \in SUBSET Dirs
    <3>1. Dir \in Dirs /\ shell.at \in SUBSET Dirs
      BY <1>0, <2>1, LineFacts DEF Runs, OneDir, ShellType
    <3>. QED
      BY <3>1, MovedType
  <2>3. Past(shell) \in ShellType /\ Past(shell).pc = shell.pc + 1
        /\ Past(shell).script = shell.script /\ Past(shell).round = shell.round
        /\ Past(shell).status = "runs"
    BY <2>1, PastTyped DEF Runs, Running
  <2>4. /\ sh \in ShellType /\ sh.script = shell.script /\ sh.round = shell.round
        /\ sh.status = "runs" /\ sh.pc = shell.pc + 1
    BY <2>2, <2>3 DEF ShellType
  <2>. QED
    BY <1>3, <2>1, <2>4, NextLine DEF KnowLine, Acts
<1>4. CASE RunForking
  <2>. DEFINE f  == shell.forked \/ Room(shell.at, 2)
              sh == [Past(shell) EXCEPT !.forked = f]
  <2>1. /\ Runs("run-forking") /\ shell' = sh /\ system' = system /\ fs' = fs /\ helper' = helper
    BY <1>0, <1>4 DEF RunForking, Past, ShellType
  <2>2. f \in BOOLEAN
    BY <1>0 DEF Room, ShellType
  <2>3. Past(shell) \in ShellType /\ Past(shell).pc = shell.pc + 1
        /\ Past(shell).script = shell.script /\ Past(shell).round = shell.round
        /\ Past(shell).status = "runs"
    BY <2>1, PastTyped DEF Runs, Running
  <2>4. /\ sh \in ShellType /\ sh.script = shell.script /\ sh.round = shell.round
        /\ sh.status = "runs" /\ sh.pc = shell.pc + 1
    BY <2>2, <2>3 DEF ShellType
  <2>. QED
    BY <1>4, <2>1, <2>4, NextLine DEF KnowLine, Acts
<1>. QED
  BY <1>1, <1>2, <1>3, <1>4

(* The actions that change the file system.                                *)
LEMMA FsLines ==
  ASSUME Typed, MakeDir \/ TryDir \/ SkipTry \/ RemoveDirs \/ Mount \/ Umount \/ Rename \/ Freeze
                \/ Thaw \/ MakeThreaded \/ SetLimit \/ CpuHotplug
  PROVE  FsLine
<1>1. /\ \E op : Runs(op)
      /\ system' = system /\ helper' = helper
  BY DEF MakeDir, TryDir, SkipTry, RemoveDirs, Mount, Umount, Rename, Freeze, Thaw, MakeThreaded, SetLimit,
     CpuHotplug
<1>2. \E ok \in BOOLEAN : Next1(ok)
  <2>1. CASE MakeDir \/ SkipTry \/ Mount \/ Umount \/ Rename \/ Freeze \/ Thaw \/ MakeThreaded \/ SetLimit
             \/ CpuHotplug
    BY <2>1 DEF MakeDir, SkipTry, Mount, Umount, Rename, Freeze, Thaw, MakeThreaded, SetLimit, CpuHotplug
  <2>2. CASE TryDir
    <3>1. Allowed(Dir) \in BOOLEAN
      BY DEF Allowed
    <3>. QED
      BY <2>2, <3>1 DEF TryDir
  <2>3. CASE RemoveDirs
    BY <2>3 DEF RemoveDirs
  <2>. QED
    BY <2>1, <2>2, <2>3
<1>. QED
  BY <1>1, <1>2, NextOne DEF FsLine

(* The actions that change neither, and those that end the script.         *)
LEMMA OtherLines ==
  ASSUME Typed, GivesUp \/ NeedChild \/ Attempt \/ OrExits \/ GuardDir \/ CheckV1 \/ EndOfScript
  PROVE  IdleLine \/ Halts
<1>1. CASE Attempt \/ CheckV1
  <2>1. /\ \E op \in {"address", "file", "load", "check"} : Runs(op)
        /\ \E ok \in BOOLEAN : Next1(ok)
        /\ UNCHANGED <<system, fs, helper, excuses>>
    BY <1>1 DEF Attempt, CheckV1
  <2>. QED
    BY <2>1, NextOne DEF IdleLine
<1>2. ASSUME NEW op \in {"need", "or-exit", "guard"}, Runs(op), Next1(TRUE),
             UNCHANGED <<system, fs, helper, excuses>>, op = "guard" => Dir \in fs.dirs
      PROVE  IdleLine
  BY <1>2, NextOne DEF IdleLine
<1>3. ASSUME NEW op, NEW why, Runs(op), EndsEarly(why), UNCHANGED <<system, fs, helper>>,
             \/ /\ op \in {"start", "find"} /\ ~Room(shell.at, 1) /\ why = "gave-up"
             \/ op = "need" /\ ~(Whose \subseteq shell.found) /\ why = "stopped"
             \/ op \in {"or-exit", "guard"} /\ why = "stopped"
      PROVE  Halts
  BY <1>3, LineFacts DEF Halts, EndsEarly, Runs, Running
<1>4. CASE GivesUp
  <2>1. PICK op \in {"start", "find"} : Runs(op)
    BY <1>4 DEF GivesUp
  <2>. QED
    BY <1>3, <1>4, <2>1 DEF GivesUp
<1>5. CASE NeedChild
  BY <1>2, <1>3, <1>5 DEF NeedChild
<1>6. CASE OrExits
  BY <1>2, <1>3, <1>6 DEF OrExits
<1>7. CASE GuardDir
  BY <1>2, <1>3, <1>7 DEF GuardDir
<1>8. CASE EndOfScript
  BY <1>8, RowFacts DEF EndOfScript, Halts, Running, End
<1>. QED
  BY <1>1, <1>4, <1>5, <1>6, <1>7, <1>8

(* Every step of the shell is of one of the groups.                        *)
LEMMA ShellGroups ==
  ASSUME Typed, ShellStep
  PROVE  HelperLine \/ KnowLine \/ FsLine \/ IdleLine \/ Halts
BY HelperLines, KnowLines, FsLines, OtherLines DEF ShellStep

(* A helper is of its type, and stays so when it is buried.                *)
LEMMA RecFacts ==
  ASSUME Typed, NEW h \in Helpers
  PROVE  /\ helper[h] \in RecType /\ None \in RecType
         /\ Buried(helper[h]) \in RecType
BY DEF Typed, RecType, None, Buried

(* A killed process is in one of its states.                               *)
LEMMA StruckType ==
  ASSUME NEW hit
  PROVE  /\ \A s \in {"none", "clone", "runs", "waits", "dying", "gone"} :
              Struck(s, hit) \in {"none", "clone", "runs", "waits", "dying", "gone"}
         /\ \A s \in {"none", "runs", "dying", "gone"} :
              Struck(s, hit) \in {"none", "runs", "dying", "gone"}
BY DEF Struck

(* Types after a line about helpers.                                       *)
LEMMA HelperTypes ==
  ASSUME Typed, HelperLine
  PROVE  helper' \in [Helpers -> RecType] /\ excuses' \subseteq Excuses
<1>0. /\ helper \in [Helpers -> RecType] /\ excuses \subseteq Excuses /\ shell.at \in SUBSET Dirs
      /\ shell.pc <= Len(Row1)
  <2>1. shell.pc \in DOMAIN Row1 /\ DOMAIN Row1 = 1..Len(Row1) /\ Len(Row1) \in Nat
    BY RowFacts DEF HelperLine, Advances
  <2>. QED
    BY <2>1 DEF Typed, ShellType
<1>1. CASE StartHelper
  <2>1. [None EXCEPT !.parent = "runs", !.home = shell.at] \in RecType
    BY <1>0 DEF None, RecType
  <2>. QED
    BY <1>0, <1>1, <2>1 DEF StartHelper
<1>2. CASE KillFound \/ KillGroup \/ KillListed
  <2>1. \A h \in Helpers : \A p, c :
          [helper[h] EXCEPT !.child = Struck(@, c)] \in RecType
          /\ [helper[h] EXCEPT !.parent = Struck(@, p), !.child = Struck(@, c)] \in RecType
    BY <1>0, StruckType DEF RecType
  <2>2. excuses' \subseteq Excuses
    BY <1>0, <1>2 DEF KillFound, KillGroup, KillListed, Excuses
  <2>3. CASE KillFound
    BY <2>1, <2>2, <2>3 DEF KillFound
  <2>4. CASE KillGroup
    <3>1. CASE Dir \in fs.threaded
      BY <1>0, <2>2, <2>4, <3>1 DEF KillGroup
    <3>2. CASE Dir \notin fs.threaded
      <4>1. helper' = [h \in Helpers |->
              [helper[h] EXCEPT !.parent = Struck(@, Dir \in helper[h].home),
                                !.child = Struck(@, Dir \in helper[h].at)]]
        BY <2>4, <3>2 DEF KillGroup
      <4>. QED
        BY <2>1, <2>2, <4>1
    <3>. QED
      BY <3>1, <3>2
  <2>5. CASE KillListed
    BY <2>1, <2>2, <2>5 DEF KillListed
  <2>. QED
    BY <1>2, <2>3, <2>4, <2>5
<1>3. CASE PutChild
  <2>1. Dir \in Dirs
    BY <1>0, <1>3, LineFacts DEF PutChild, Runs, OneDir
  <2>2. \A h \in Helpers : [helper[h] EXCEPT !.at = Moved(@, Dir)] \in RecType
    BY <1>0, <2>1, MovedType DEF RecType
  <2>. QED
    BY <1>0, <1>3, <2>2 DEF PutChild
<1>4. CASE CloneInto
  <2>1. Dir \in Dirs
    BY <1>0, <1>4, LineFacts DEF CloneInto, Runs, OneDir
  <2>2. [None EXCEPT !.parent = "clone", !.child = "runs", !.at = {Dir}] \in RecType
    BY <2>1 DEF None, RecType
  <2>. QED
    BY <1>0, <1>4, <2>2 DEF CloneInto
<1>. QED
  BY <1>1, <1>2, <1>3, <1>4 DEF HelperLine

(* Types after a line by which the shell learns something.                 *)
LEMMA KnowTypes ==
  ASSUME Typed, KnowLine
  PROVE  excuses' \subseteq Excuses
BY DEF KnowLine, FindChild, ListHelpers, Join, RunForking, Typed, Excuses

(* Types after a line about the file system.                               *)
LEMMA FsTypes ==
  ASSUME Typed, FsLine
  PROVE  fs' \in FsType /\ excuses' \subseteq Excuses
<1>0. fs \in FsType /\ excuses \subseteq Excuses /\ shell.pc <= Len(Row1)
  <2>1. shell.pc \in DOMAIN Row1 /\ DOMAIN Row1 = 1..Len(Row1) /\ Len(Row1) \in Nat
    BY RowFacts DEF FsLine, Advances
  <2>. QED
    BY <2>1 DEF Typed
<1>1. /\ fs.dirs \subseteq Dirs /\ fs.frozen \subseteq Cgroups
      /\ fs.limits \subseteq Cgroups \X Kinds /\ fs.mounts \in [Plain -> Nat]
      /\ fs.cpu1 \in BOOLEAN
  BY <1>0 DEF FsType
<1>t. fs.threaded \subseteq Cgroups
  BY <1>0 DEF FsType
<1>2. \A D \in SUBSET Dirs : [fs EXCEPT !.dirs = D] \in FsType
  BY <1>0 DEF FsType
<1>3. CASE MakeDir \/ TryDir \/ SkipTry \/ Rename
  <2>1. Dir \in Dirs
    BY <1>0, <1>3, LineFacts DEF MakeDir, TryDir, SkipTry, Rename, Runs, OneDir
  <2>2. CASE MakeDir
    <3>1. fs.dirs \cup {Dir} \cup {Parent[d] : d \in {Dir} \cap DOMAIN Parent} \in SUBSET Dirs
      BY <1>1, <2>1, EmptyAssumption
    <3>2. fs' = [fs EXCEPT !.dirs =
                   fs.dirs \cup {Dir} \cup {Parent[d] : d \in {Dir} \cap DOMAIN Parent}]
      BY <2>2 DEF MakeDir
    <3>. QED
      BY <1>0, <1>2, <2>2, <3>1, <3>2 DEF MakeDir
  <2>3. CASE TryDir \/ SkipTry
    <3>1. fs.dirs \cup {Dir} \in SUBSET Dirs
      BY <1>1, <2>1
    <3>. QED
      BY <1>0, <1>2, <2>3, <3>1 DEF TryDir, SkipTry
  <2>4. CASE Rename
    <3>1. (fs.dirs \ {Dir}) \cup {"memory/Example2"} \in SUBSET Dirs
      BY <1>1, EmptyAssumption
    <3>. QED
      BY <1>0, <1>2, <2>4, <3>1 DEF Rename
  <2>. QED
    BY <1>3, <2>2, <2>3, <2>4
<1>4. CASE RemoveDirs
  <2>1. \E gone : /\ fs' = [fs EXCEPT !.dirs = @ \ gone, !.frozen = @ \ gone,
                                     !.threaded = @ \ gone,
                                     !.limits = {l \in @ : l[1] \notin gone}]
                  /\ excuses' \subseteq excuses \cup {"occupied", "raced", "left-over"}
    BY <1>4 DEF RemoveDirs
  <2>2. PICK gone : fs' = [fs EXCEPT !.dirs = @ \ gone, !.frozen = @ \ gone,
                                   !.threaded = @ \ gone,
                                   !.limits = {l \in @ : l[1] \notin gone}]
    BY <2>1
  <2>3. /\ fs.dirs \ gone \in SUBSET Dirs /\ fs.frozen \ gone \in SUBSET Cgroups
        /\ fs.threaded \ gone \in SUBSET Cgroups
        /\ {l \in fs.limits : l[1] \notin gone} \in SUBSET (Cgroups \X Kinds)
    BY <1>1, <1>t
  <2>4. fs' \in FsType
    BY <1>0, <2>2, <2>3 DEF FsType
  <2>. QED
    BY <1>0, <2>1, <2>4 DEF Excuses
<1>5. CASE Mount \/ Umount
  <2>1. Dir \in Plain
    BY <1>0, <1>5, LineFacts DEF Mount, Umount, Runs
  <2>2. /\ excuses' \subseteq Excuses
        /\ \/ fs' = fs
           \/ \E n \in Nat : fs' = [fs EXCEPT !.mounts[Dir] = n]
    <3>1. fs.mounts[Dir] \in Nat
      BY <1>1, <2>1
    <3>2. fs.mounts[Dir] + 1 \in Nat /\ (fs.mounts[Dir] > 0 => fs.mounts[Dir] - 1 \in Nat)
      BY <3>1
    <3>3. excuses' \subseteq Excuses
      BY <1>0, <1>5 DEF Mount, Umount, Excuses
    <3>4. CASE Mount
      BY <3>2, <3>3, <3>4 DEF Mount
    <3>5. CASE Umount
      BY <3>2, <3>3, <3>5 DEF Umount
    <3>. QED
      BY <1>5, <3>4, <3>5
  <2>3. \A n \in Nat : [fs EXCEPT !.mounts[Dir] = n] \in FsType
    BY <1>0, <1>1, <2>1 DEF FsType
  <2>. QED
    BY <1>0, <2>2, <2>3
<1>6. CASE Freeze \/ Thaw \/ MakeThreaded
  <2>1. Freeze \/ MakeThreaded => At.on \subseteq Cgroups
    BY <1>0, LineFacts DEF Freeze, MakeThreaded, Runs
  <2>2. CASE Freeze \/ Thaw
    BY <1>0, <1>1, <2>1, <2>2 DEF Freeze, Thaw, FsType
  <2>3. CASE MakeThreaded
    <3>1. fs.threaded \cup {d \in At.on \cap fs.dirs : Population(d) = 0} \in SUBSET Cgroups
      BY <1>t, <2>1, <2>3
    <3>. QED
      BY <1>0, <2>3, <3>1 DEF MakeThreaded, FsType
  <2>. QED
    BY <1>6, <2>2, <2>3
<1>7. CASE SetLimit
  <2>1. PICK kind \in Kinds :
          Runs(kind) /\ fs' = [fs EXCEPT !.limits = @ \cup ((At.on \cap fs.dirs) \X {kind})]
    BY <1>7 DEF SetLimit, Kinds
  <2>2. At.on \subseteq Cgroups
    BY <1>0, <2>1, LineFacts DEF Runs
  <2>3. fs.limits \cup ((At.on \cap fs.dirs) \X {kind}) \subseteq Cgroups \X Kinds
    BY <1>1, <2>1, <2>2
  <2>4. excuses' = excuses
    BY <1>7 DEF SetLimit
  <2>. QED
    BY <1>0, <1>1, <2>1, <2>3, <2>4 DEF FsType
<1>8. CASE CpuHotplug
  BY <1>0, <1>1, <1>8 DEF CpuHotplug, FsType
<1>. QED
  BY <1>3, <1>4, <1>5, <1>6, <1>7, <1>8 DEF FsLine

(* Types of a shell that begins or has ended.                              *)
LEMMA ShellTypes ==
  ASSUME Typed
  PROVE  /\ \A status \in {"runs", "done", "ended-early"} : Ended(status) \in ShellType
         /\ \A s \in Scripts, n \in 1..MaxRounds : Fresh(s, n) \in ShellType
<1>1. \A s \in Scripts, n \in 1..MaxRounds : Fresh(s, n) \in ShellType
  BY DEF ShellType, Fresh
<1>2. shell.script \in Scripts /\ shell.round \in 1..MaxRounds /\ shell.forked \in BOOLEAN
  BY DEF Typed, ShellType
<1>3. ASSUME NEW status \in {"runs", "done", "ended-early"}
      PROVE  Ended(status) \in ShellType
  <2>. DEFINE r == Fresh(shell.script, shell.round)
  <2>1. r \in ShellType
    BY <1>1, <1>2
  <2>2. [r EXCEPT !.status = status, !.forked = shell.forked] \in ShellType
    BY <1>2, <2>1 DEF ShellType
  <2>. QED
    BY <2>2 DEF Ended
<1>. QED
  BY <1>1, <1>3

(* Types after a step of a helper.                                         *)
LEMMA HelperStepTypes ==
  ASSUME Typed, NEW h \in Helpers, HelperStep(h)
  PROVE  Typed'
<1>1. UNCHANGED <<system, shell, fs, excuses>>
  BY DEF HelperStep, HelperForks, ChildDies, ParentEnds
<1>2. helper' \in [Helpers -> RecType]
  <2>0. helper \in [Helpers -> RecType] /\ None \in RecType /\ helper[h] \in RecType
    BY RecFacts DEF Typed
  <2>1. CASE HelperForks(h)
    BY <2>0, <2>1 DEF HelperForks, RecType
  <2>2. CASE ChildDies(h)
    <3>1. [helper[h] EXCEPT !.child = "gone", !.at = {}] \in RecType
      BY <2>0 DEF RecType
    <3>2. Buried([helper[h] EXCEPT !.child = "gone", !.at = {}]) \in RecType
      BY <2>0, <3>1 DEF Buried
    <3>. QED
      BY <2>0, <2>2, <3>2 DEF ChildDies
  <2>3. CASE ParentEnds(h)
    <3>1. [helper[h] EXCEPT !.parent = "gone", !.home = {}] \in RecType
      BY <2>0 DEF RecType
    <3>2. Buried([helper[h] EXCEPT !.parent = "gone", !.home = {}]) \in RecType
      BY <2>0, <3>1 DEF Buried
    <3>. QED
      BY <2>0, <2>3, <3>2 DEF ParentEnds
  <2>. QED
    BY <2>1, <2>2, <2>3 DEF HelperStep
<1>. QED
  BY <1>1, <1>2 DEF Typed, Runnable, Row1

(* Where a script begins, or has ended, it is at its first line.           *)
Rests == /\ shell'.pc = 1 /\ shell'.found = {} /\ shell'.listed = {} /\ shell'.at = {}
         /\ shell' \in ShellType /\ UNCHANGED <<system, fs, helper>>

(* The end of a script, an interruption and the start of the next script.  *)
LEMMA RestFacts ==
  ASSUME Typed, Halts \/ Interrupt \/ NextScript
  PROVE  /\ Rests /\ excuses' \subseteq Excuses
         /\ Runnable(shell.script)' /\ shell'.pc <= End(Row1)'
         /\ Halts \/ Interrupt =>
              /\ shell'.script = shell.script /\ shell'.round = shell.round
              /\ shell'.forked = shell.forked /\ shell'.status # "runs"
              /\ excuses \subseteq excuses' /\ Row1' = Row1
         /\ NextScript =>
              /\ shell'.round = shell.round + 1 /\ shell'.status = "runs"
              /\ shell'.forked = FALSE /\ excuses' = {}
<1>0. shell \in ShellType /\ MaxRounds \in Nat /\ excuses \subseteq Excuses
      /\ Runnable(shell.script)
  BY MaxRoundsAssumption DEF Typed
<1>1. ASSUME NEW status \in {"done", "ended-early"}, shell' = Ended(status),
             UNCHANGED <<system, fs, helper>>
      PROVE  /\ Rests /\ Runnable(shell.script)' /\ shell'.pc <= End(Row1)'
             /\ shell'.script = shell.script /\ shell'.round = shell.round
             /\ shell'.forked = shell.forked /\ shell'.status # "runs" /\ Row1' = Row1
  <2>1. Ended(status) \in ShellType
    BY ShellTypes
  <2>2. /\ shell'.pc = 1 /\ shell'.found = {} /\ shell'.listed = {} /\ shell'.at = {}
        /\ shell'.script = shell.script /\ shell'.round = shell.round
        /\ shell'.forked = shell.forked /\ shell'.status # "runs"
    BY <1>1 DEF Ended, Fresh
  <2>3. Runnable(shell.script)' /\ Row1' = Row1
    BY <1>0, <1>1, <2>2 DEF Runnable, Row1
  <2>4. End(Row1)' = Len(Row1) + 1 /\ Len(Row1) \in Nat
    BY <2>3, RowFacts DEF End
  <2>. QED
    BY <1>1, <2>1, <2>2, <2>3, <2>4 DEF Rests
<1>2. CASE Halts
  <2>1. PICK status \in {"done", "ended-early"} : shell' = Ended(status)
    BY <1>2 DEF Halts
  <2>2. excuses \subseteq excuses' /\ excuses' \subseteq Excuses
    BY <1>0, <1>2 DEF Halts, Excuses
  <2>3. UNCHANGED <<system, fs, helper>>
    BY <1>2 DEF Halts
  <2>4. ~NextScript
    BY <1>2 DEF Halts, NextScript, Running
  <2>. QED
    BY <1>1, <2>1, <2>2, <2>3, <2>4
<1>3. CASE Interrupt
  <2>1. shell' = Ended("ended-early") /\ UNCHANGED <<system, fs, helper>>
        /\ excuses' = excuses \cup {"interrupted"} /\ shell.status = "runs"
    BY <1>3 DEF Interrupt, EndsEarly
  <2>2. ~NextScript
    BY <2>1 DEF NextScript
  <2>. QED
    BY <1>0, <1>1, <2>1, <2>2 DEF Excuses
<1>4. CASE NextScript
  <2>1. PICK s \in Scripts : Runnable(s) /\ shell' = Fresh(s, shell.round + 1)
    BY <1>4 DEF NextScript, Scripts
  <2>2. shell.round + 1 \in 1..MaxRounds
    BY <1>0, <1>4 DEF NextScript, ShellType
  <2>3. Fresh(s, shell.round + 1) \in ShellType
    BY <2>2, ShellTypes
  <2>4. /\ shell'.pc = 1 /\ shell'.found = {} /\ shell'.listed = {} /\ shell'.at = {}
        /\ shell'.script = s /\ shell'.round = shell.round + 1 /\ shell'.status = "runs"
        /\ shell'.forked = FALSE
    BY <2>1 DEF Fresh
  <2>5. UNCHANGED <<system, fs, helper>> /\ excuses' = {} /\ shell.status # "runs"
    BY <1>4 DEF NextScript
  <2>6. Runnable(shell.script)' /\ Row1' = Code(s)
    BY <2>1, <2>4, <2>5 DEF Runnable, Row1, Code
  <2>7. Code(s) \in Seq({Code(s)[i] : i \in DOMAIN Code(s)})
    BY StepsAssumption
  <2>8. Len(Code(s)) \in Nat /\ End(Row1)' = Len(Code(s)) + 1
    BY <2>6, <2>7 DEF End
  <2>9. ~Halts /\ ~Interrupt
    BY <2>5 DEF Halts, Interrupt, Running
  <2>. QED
    BY <2>1, <2>3, <2>4, <2>5, <2>6, <2>8, <2>9 DEF Rests
<1>. QED
  BY <1>2, <1>3, <1>4

(* Every step keeps the types.                                             *)
LEMMA TypedNext ==
  ASSUME Typed, [Next]_vars
  PROVE  Typed'
<1>1. ASSUME Advances, fs' \in FsType, helper' \in [Helpers -> RecType], excuses' \subseteq Excuses
      PROVE  Typed'
  <2>1. Row1' = Row1
    BY <1>1 DEF Advances, Row1
  <2>2. shell'.pc <= End(Row1)
    BY <1>1, RowFacts DEF Advances, End
  <2>3. Runnable(shell.script)'
    BY <1>1 DEF Advances, Typed, Runnable
  <2>. QED
    BY <1>1, <2>1, <2>2, <2>3 DEF Typed, Advances
<1>2. CASE HelperLine \/ KnowLine \/ FsLine \/ IdleLine
  <2>1. fs \in FsType /\ helper \in [Helpers -> RecType] /\ excuses \subseteq Excuses
    BY DEF Typed
  <2>2. CASE HelperLine
    BY <1>1, <2>1, <2>2, HelperTypes DEF HelperLine
  <2>3. CASE KnowLine
    BY <1>1, <2>1, <2>3, KnowTypes DEF KnowLine
  <2>4. CASE FsLine
    BY <1>1, <2>1, <2>4, FsTypes DEF FsLine
  <2>5. CASE IdleLine
    BY <1>1, <2>1, <2>5 DEF IdleLine
  <2>. QED
    BY <1>2, <2>2, <2>3, <2>4, <2>5
<1>3. CASE Halts \/ Interrupt \/ NextScript
  BY <1>3, RestFacts DEF Typed, Rests
<1>4. CASE \E h \in Helpers : HelperStep(h)
  BY <1>4, HelperStepTypes
<1>5. CASE UNCHANGED vars
  BY <1>5 DEF vars, Typed, Runnable, Row1
<1>. QED
  BY <1>2, <1>3, <1>4, <1>5, ShellGroups DEF Next

-----------------------------------------------------------------------------
(* What becomes of one helper.                                             *)

Begins(h) == /\ At.op = "start" /\ h \in Whose
             /\ helper'[h] = [parent |-> "runs", child |-> "none", home |-> shell.at, at |-> {}]

IsBorn(h) == /\ At.op = "clone" /\ h \in Whose /\ Dir \in fs.dirs
             /\ helper'[h] = [parent |-> "clone", child |-> "runs", home |-> {}, at |-> {Dir}]

IsPut(h) == /\ At.op \in {"put", "put-thread"} /\ h \in Whose \cap shell.found
            /\ Lives(helper[h].child)
            /\ helper'[h] = [helper[h] EXCEPT !.at = Moved(@, Dir)]

Weakened(h) ==
  /\ helper'[h].home = helper[h].home /\ helper'[h].at = helper[h].at
  /\ helper'[h].parent = helper[h].parent
     \/ (helper[h].parent \in {"runs", "waits"} /\ helper'[h].parent = "dying")
  /\ helper'[h].child = helper[h].child
     \/ (helper[h].child = "runs" /\ helper'[h].child = "dying")
  /\ helper[h] = None => helper'[h] = None

(* What a line about helpers does to one of them.                          *)
LEMMA HelperMoves ==
  ASSUME Typed, HelperLine, NEW h \in Helpers
  PROVE  \/ helper'[h] = helper[h] /\ At.op \notin {"kill", "cgroup.kill", "kill-listed"}
         \/ Begins(h) \/ IsBorn(h) \/ IsPut(h)
         \/ Weakened(h) /\ At.op \in {"kill", "cgroup.kill", "kill-listed"}
<1>0. helper[h] \in RecType
  BY RecFacts
<1>1. CASE StartHelper
  BY <1>1 DEF StartHelper, Begins, None, Runs
<1>2. CASE KillFound \/ KillGroup \/ KillListed
  <2>1. ASSUME NEW p \in BOOLEAN, NEW c \in BOOLEAN,
               \/ helper'[h] = [helper[h] EXCEPT !.child = Struck(@, c)]
               \/ helper'[h] = [helper[h] EXCEPT !.parent = Struck(@, p), !.child = Struck(@, c)]
        PROVE  Weakened(h)
    <3>. DEFINE q == Struck(helper[h].parent, p)
    <3>. DEFINE r == Struck(helper[h].child, c)
    <3>0. /\ q \in {"none", "clone", "runs", "waits", "dying", "gone"}
          /\ r \in {"none", "runs", "dying", "gone"}
      BY <1>0, StruckType DEF RecType
    <3>4. \/ helper'[h] = [helper[h] EXCEPT !.child = r]
          \/ helper'[h] = [helper[h] EXCEPT !.parent = q, !.child = r]
      BY <2>1
    <3>. HIDE DEF q, r
    <3>5. /\ helper'[h].home = helper[h].home /\ helper'[h].at = helper[h].at
          /\ helper'[h].parent \in {helper[h].parent, q} /\ helper'[h].child = r
          /\ helper'[h] \in RecType
      BY <1>0, <3>0, <3>4 DEF RecType
    <3>1. /\ helper'[h].home = helper[h].home /\ helper'[h].at = helper[h].at
          /\ helper'[h].parent \in {helper[h].parent, Struck(helper[h].parent, p)}
          /\ helper'[h].child = Struck(helper[h].child, c)
          /\ helper'[h] \in RecType
      BY <3>5 DEF q, r
    <3>2. helper[h].child # "waits"
      BY <1>0 DEF RecType
    <3>3. ASSUME helper[h] = None PROVE helper'[h] = None
      <4>1. /\ helper'[h].parent = "none" /\ helper'[h].child = "none"
            /\ helper'[h].home = {} /\ helper'[h].at = {}
        BY <3>1, <3>3 DEF None, Struck
      <4>. QED
        BY <3>1, <4>1 DEF None, RecType
    <3>. QED
      BY <3>1, <3>2, <3>3 DEF Weakened, Struck
  <2>2. CASE KillFound
    <3>1. (h \in Whose \cap shell.found) \in BOOLEAN
      OBVIOUS
    <3>. QED
      BY <2>1, <2>2, <3>1 DEF KillFound, Runs
  <2>3. CASE KillGroup
    <3>1. (Dir \in helper[h].home) \in BOOLEAN /\ (Dir \in helper[h].at) \in BOOLEAN
      OBVIOUS
    <3>2. CASE Dir \in fs.threaded
      BY <1>0, <2>3, <3>2 DEF KillGroup, Runs, Weakened
    <3>3. CASE Dir \notin fs.threaded
      BY <2>1, <2>3, <3>1, <3>3 DEF KillGroup, Runs
    <3>. QED
      BY <3>2, <3>3
  <2>4. CASE KillListed
    <3>1. /\ (<<h, "parent">> \in shell.listed) \in BOOLEAN
          /\ (<<h, "child">> \in shell.listed) \in BOOLEAN
      OBVIOUS
    <3>. QED
      BY <2>1, <2>4, <3>1 DEF KillListed, Runs
  <2>. QED
    BY <1>2, <2>2, <2>3, <2>4
<1>3. CASE PutChild
  BY <1>3 DEF PutChild, IsPut, Runs
<1>4. CASE CloneInto
  BY <1>4 DEF CloneInto, IsBorn, None, Runs
<1>. QED
  BY <1>1, <1>2, <1>3, <1>4 DEF HelperLine

ForksNow(h) == /\ helper[h].parent = "runs" /\ Room(helper[h].home, 1)
               /\ helper'[h] = [parent |-> "waits", child |-> "runs",
                                home |-> helper[h].home, at |-> helper[h].home]
DiesNow(h)  == /\ helper[h].child = "dying"
               /\ helper'[h] = [helper[h] EXCEPT !.child = "gone", !.at = {}]
EndsNow(h)  == /\ helper[h].parent \in {"waits", "dying"}
               /\ helper'[h] = [helper[h] EXCEPT !.parent = "gone", !.home = {}]

(* What a step of a helper does to it; the other helpers stay.             *)
LEMMA HelperStepMoves ==
  ASSUME Typed, NEW h \in Helpers, HelperStep(h)
  PROVE  /\ UNCHANGED <<system, shell, fs, excuses>>
         /\ \A g \in Helpers \ {h} : helper'[g] = helper[g]
         /\ helper'[h] = None \/ ForksNow(h) \/ DiesNow(h) \/ EndsNow(h)
         /\ helper[h] # None
<1>0. helper[h] \in RecType /\ helper \in [Helpers -> RecType]
  BY RecFacts DEF Typed
<1>1. CASE HelperForks(h)
  <2>1. CASE Room(helper[h].home, 1)
    <3>1. helper' = [helper EXCEPT ![h].parent = "waits", ![h].child = "runs",
                                   ![h].at = helper[h].home]
      BY <1>1, <2>1 DEF HelperForks
    <3>2. helper'[h] = [helper[h] EXCEPT !.parent = "waits", !.child = "runs",
                                         !.at = helper[h].home]
      BY <1>0, <3>1
    <3>3. helper'[h] = [parent |-> "waits", child |-> "runs",
                        home |-> helper[h].home, at |-> helper[h].home]
      BY <1>0, <3>2 DEF RecType
    <3>. QED
      BY <1>0, <1>1, <2>1, <3>1, <3>3 DEF HelperForks, ForksNow, None
  <2>2. CASE ~Room(helper[h].home, 1)
    BY <1>0, <1>1, <2>2 DEF HelperForks, None
  <2>. QED
    BY <2>1, <2>2
<1>2. CASE ChildDies(h)
  BY <1>0, <1>2 DEF ChildDies, Buried, DiesNow, None
<1>3. CASE ParentEnds(h)
  BY <1>0, <1>3 DEF ParentEnds, Buried, EndsNow, None
<1>. QED
  BY <1>1, <1>2, <1>3 DEF HelperStep

(* What every step of the shell within a script keeps.                     *)
LEMMA LineKeeps ==
  ASSUME Typed, Advances
  PROVE  /\ Row1' = Row1 /\ Running /\ Running' /\ shell.pc \in DOMAIN Row1 /\ Row1[shell.pc] = At
         /\ shell'.pc = shell.pc + 1 /\ shell.pc \in Nat \ {0} /\ shell.pc <= Len(Row1)
         /\ shell'.round = shell.round /\ shell'.script = shell.script /\ system' = system
         /\ \A n \in 1..3 : Number(n)' = Number(n)
         /\ Ours' = Ours
         /\ \A n \in 1..3 : Number(n) \in Whose <=> n \in At.who
<1>1. Row1' = Row1 /\ \A n \in 1..3 : Number(n)' = Number(n)
  BY DEF Advances, Row1, Number
<1>2. shell.pc <= Len(Row1)
  BY RowFacts DEF Advances
<1>3. Ours' = Ours
  BY DEF Ours, Number, Advances
<1>4. \A n \in 1..3 : Number(n) \in Whose <=> n \in At.who
  BY <1>2, HelperNumbers, LineFacts DEF Whose
<1>. QED
  BY <1>1, <1>2, <1>3, <1>4, RowFacts DEF Advances, Running, At

-----------------------------------------------------------------------------
(* Numbers: what a helper is before it is started.                         *)

(* A line about helpers starts each of them once.                          *)
LEMMA NumbersHelperLine ==
  ASSUME Typed, Numbers, HelperLine
  PROVE  Numbers'
<1>0. /\ Row1' = Row1 /\ Running /\ shell.pc \in DOMAIN Row1 /\ Row1[shell.pc] = At
      /\ shell'.pc = shell.pc + 1 /\ shell.pc \in Nat \ {0}
      /\ shell'.round = shell.round
      /\ \A n \in 1..3 : Number(n)' = Number(n) /\ Number(n) \in Helpers
      /\ \A n \in 1..3 : Number(n) \in Whose <=> n \in At.who
      /\ shell.round \in Nat
  BY LineKeeps, HelperNumbers DEF HelperLine
<1>1. ASSUME NEW n \in 1..3
      PROVE  /\ StartedAt(Row1, n, shell.pc + 1) <=> StartedAt(Row1, n, shell.pc) \/ Starts(At, n)
             /\ Cloned(Row1, n, shell.pc + 1) <=>
                  Cloned(Row1, n, shell.pc) \/ About(At, {"clone"}, n)
  BY <1>0, StartedNext
<1>2. ASSUME NEW h \in Helpers, Number(1) # h, Number(2) # h, Number(3) # h
      PROVE  ~(h \in Whose)
  BY <1>2, LineFacts, RowFacts, <1>0 DEF Whose
<1>3. ASSUME NEW h \in Helpers
      PROVE  /\ h > 3 * shell.round => helper'[h] = None
             /\ helper'[h].parent = "none" => helper'[h] = None
             /\ helper'[h].parent = "runs" => helper'[h].child = "none"
             /\ helper'[h].child = "none" => helper'[h].at = {}
  <2>1. helper[h] \in RecType
    BY RecFacts
  <2>2. /\ h > 3 * shell.round => helper[h] = None
        /\ helper[h].parent = "none" => helper[h] = None
        /\ helper[h].parent = "runs" => helper[h].child = "none"
        /\ helper[h].child = "none" => helper[h].at = {}
    BY DEF Numbers
  <2>3. h > 3 * shell.round => h \notin Whose
    BY <1>0, <1>2 DEF Number, Helpers
  <2>4. CASE Begins(h) \/ IsBorn(h)
    BY <2>3, <2>4 DEF Begins, IsBorn
  <2>5. CASE IsPut(h)
    BY <2>1, <2>2, <2>3, <2>5 DEF IsPut, RecType, None, Lives
  <2>6. CASE Weakened(h)
    BY <2>1, <2>2, <2>6 DEF Weakened
  <2>7. CASE helper'[h] = helper[h]
    BY <2>2, <2>7
  <2>. QED
    BY <2>4, <2>5, <2>6, <2>7, HelperMoves
<1>4. ASSUME NEW n \in 1..3
      PROVE  /\ ~StartedAt(Row1, n, shell.pc + 1) => helper'[Number(n)] = None
             /\ Cloned(Row1, n, shell.pc + 1) => helper'[Number(n)].parent # "runs"
             /\ helper'[Number(n)].parent = "clone" => Cloned(Row1, n, shell.pc + 1)
  <2>. DEFINE h == Number(n)
  <2>1. h \in Helpers /\ helper[h] \in RecType
    BY <1>0, RecFacts
  <2>2. /\ ~StartedAt(Row1, n, shell.pc) => helper[h] = None
        /\ Cloned(Row1, n, shell.pc) => helper[h].parent # "runs"
        /\ helper[h].parent = "clone" => Cloned(Row1, n, shell.pc)
    BY <1>0 DEF Numbers
  <2>3. CASE Begins(h)
    <3>1. n \in At.who /\ Starts(At, n)
      BY <1>0, <2>3 DEF Begins, Starts, About
    <3>2. ~Cloned(Row1, n, shell.pc + 1)
      <4>1. ASSUME NEW j \in Before(shell.pc + 1), About(Row1[j], {"clone"}, n) PROVE FALSE
        <5>1. j \in DOMAIN Row1 /\ Starts(Row1[j], n)
          BY <1>0, <4>1, RowFacts DEF Before, Starts, About
        <5>2. j = shell.pc
          BY <1>0, <3>1, <5>1, RowFacts, OrderAssumption
        <5>. QED
          BY <1>0, <2>3, <4>1, <5>2 DEF Begins, About
      <4>. QED
        BY <4>1 DEF Cloned
    <3>. QED
      BY <1>1, <2>3, <3>1, <3>2 DEF Begins
  <2>4. CASE IsBorn(h)
    BY <1>0, <1>1, <2>4 DEF IsBorn, Starts, About
  <2>5. CASE IsPut(h)
    <3>1. helper[h] # None
      BY <2>5 DEF IsPut, None, Lives
    <3>2. helper'[h].parent = helper[h].parent
      BY <2>1, <2>5 DEF IsPut, RecType
    <3>. QED
      BY <1>0, <1>1, <2>2, <2>5, <3>1, <3>2 DEF IsPut, About
  <2>6. CASE Weakened(h) /\ At.op \in {"kill", "cgroup.kill", "kill-listed"}
    BY <1>1, <2>2, <2>6 DEF Weakened, About, None
  <2>7. CASE helper'[h] = helper[h]
    <3>1. ASSUME About(At, {"clone"}, n) PROVE helper[h] = None
      <4>1. ASSUME NEW j \in Before(shell.pc), Starts(Row1[j], n) PROVE FALSE
        BY <1>0, <3>1, <4>1, RowFacts, OrderAssumption DEF Starts, About, Before
      <4>. QED
        BY <2>2, <4>1 DEF StartedAt
    <3>. QED
      BY <1>1, <2>2, <2>7, <3>1 DEF None
  <2>. QED
    BY <2>1, <2>3, <2>4, <2>5, <2>6, <2>7, HelperMoves
<1>5. \A h \in Helpers :
        /\ h > 3 * shell'.round => helper'[h] = None
        /\ helper'[h].parent = "none" => helper'[h] = None
        /\ helper'[h].parent = "runs" => helper'[h].child = "none"
        /\ helper'[h].child = "none" => helper'[h].at = {}
  BY <1>0, <1>3
<1>6. \A n \in 1..3 : LET m == Number(n)' IN
        /\ Running' /\ ~StartedAt(Row1', n, shell'.pc) => helper'[m] = None
        /\ Cloned(Row1', n, shell'.pc) => helper'[m].parent # "runs"
        /\ Running' /\ helper'[m].parent = "clone" => Cloned(Row1', n, shell'.pc)
  BY <1>0, <1>4
<1>. QED
  BY <1>5, <1>6 DEF Numbers, StartedAt, Cloned, Before

(* Which lines are of which group.                                         *)
LEMMA LineOps ==
  /\ HelperLine => At.op \in {"start", "kill", "cgroup.kill", "kill-listed", "put",
                              "put-thread", "clone"}
  /\ KnowLine => At.op \in {"find", "list", "join", "run-forking"}
  /\ FsLine => At.op \in {"make", "try", "try-if-made", "remove", "mount", "umount", "rename",
                          "freeze", "thaw", "threaded", "limit", "depth", "descendants", "cpu-off", "cpu-on"}
<1>1. HelperLine => At.op \in {"start", "kill", "cgroup.kill", "kill-listed", "put",
                              "put-thread", "clone"}
  BY DEF HelperLine, StartHelper, KillFound, KillGroup, KillListed, PutChild, CloneInto, Runs
<1>2. KnowLine => At.op \in {"find", "list", "join", "run-forking"}
  BY DEF KnowLine, FindChild, ListHelpers, Join, RunForking, Runs
<1>3. FsLine => At.op \in {"make", "try", "try-if-made", "remove", "mount", "umount", "rename",
                          "freeze", "thaw", "threaded", "limit", "depth", "descendants", "cpu-off", "cpu-on"}
  BY DEF FsLine, MakeDir, TryDir, SkipTry, RemoveDirs, Mount, Umount, Rename, Freeze, Thaw,
     MakeThreaded, SetLimit, CpuHotplug, Runs
<1>. QED
  BY <1>1, <1>2, <1>3

(* The other lines leave the helpers alone.                                *)
LEMMA NumbersOtherLine ==
  ASSUME Typed, Numbers, Advances, helper' = helper, At.op # "clone"
  PROVE  Numbers'
<1>0. /\ Row1' = Row1 /\ Running /\ shell'.pc = shell.pc + 1 /\ shell.pc \in Nat \ {0}
      /\ shell'.round = shell.round /\ Row1[shell.pc] = At
      /\ \A n \in 1..3 : Number(n)' = Number(n)
  BY LineKeeps
<1>1. ASSUME NEW n \in 1..3
      PROVE  /\ StartedAt(Row1, n, shell.pc) => StartedAt(Row1, n, shell.pc + 1)
             /\ Cloned(Row1, n, shell.pc + 1) <=> Cloned(Row1, n, shell.pc)
  BY <1>0, StartedNext DEF About
<1>2. \A h \in Helpers :
        /\ h > 3 * shell'.round => helper'[h] = None
        /\ helper'[h].parent = "none" => helper'[h] = None
        /\ helper'[h].parent = "runs" => helper'[h].child = "none"
        /\ helper'[h].child = "none" => helper'[h].at = {}
  BY <1>0 DEF Numbers
<1>3. \A n \in 1..3 : LET m == Number(n)' IN
        /\ Running' /\ ~StartedAt(Row1', n, shell'.pc) => helper'[m] = None
        /\ Cloned(Row1', n, shell'.pc) => helper'[m].parent # "runs"
        /\ Running' /\ helper'[m].parent = "clone" => Cloned(Row1', n, shell'.pc)
  BY <1>0, <1>1 DEF Numbers
<1>. QED
  BY <1>2, <1>3 DEF Numbers, StartedAt, Cloned, Before

(* The helpers of the next script have not been started.                   *)
LEMMA NumbersRest ==
  ASSUME Typed, Numbers, Halts \/ Interrupt \/ NextScript
  PROVE  Numbers'
<1>0. /\ helper' = helper /\ shell'.pc = 1 /\ shell'.round \in {shell.round, shell.round + 1}
      /\ shell.round \in Nat \ {0} /\ MaxRounds \in Nat /\ shell'.round \in 1..MaxRounds
      /\ shell'.round = shell.round => ~Running'
  <2>1. /\ helper' = helper /\ shell'.pc = 1 /\ shell' \in ShellType
    BY RestFacts DEF Rests
  <2>2. shell.round \in Nat \ {0} /\ MaxRounds \in Nat /\ shell'.round \in 1..MaxRounds
    BY <2>1, HelperNumbers DEF ShellType
  <2>3. \/ shell'.round = shell.round /\ shell'.status # "runs"
        \/ shell'.round = shell.round + 1
    BY RestFacts
  <2>. QED
    BY <2>1, <2>2, <2>3 DEF Running
<1>1. \A n : ~StartedAt(Row1, n, 1)' /\ ~Cloned(Row1, n, 1)'
  BY AtFirst
<1>2. \A h \in Helpers :
        /\ h > 3 * shell'.round => helper'[h] = None
        /\ helper'[h].parent = "none" => helper'[h] = None
        /\ helper'[h].parent = "runs" => helper'[h].child = "none"
        /\ helper'[h].child = "none" => helper'[h].at = {}
  BY <1>0 DEF Numbers, Helpers
<1>3. ASSUME NEW n \in 1..3, Running' PROVE helper'[Number(n)'] = None
  <2>1. Number(n)' = n + 3 * shell.round
    BY <1>0, <1>3 DEF Number
  <2>2. Number(n)' \in Helpers /\ Number(n)' > 3 * shell.round
    BY <1>0, <1>3, <2>1 DEF Helpers
  <2>. QED
    BY <1>0, <2>2 DEF Numbers
<1>4. \A n \in 1..3 : LET m == Number(n)' IN
        /\ Running' /\ ~StartedAt(Row1', n, shell'.pc) => helper'[m] = None
        /\ Cloned(Row1', n, shell'.pc) => helper'[m].parent # "runs"
        /\ Running' /\ helper'[m].parent = "clone" => Cloned(Row1', n, shell'.pc)
  BY <1>0, <1>1, <1>3 DEF None, StartedAt, Cloned, Before
<1>. QED
  BY <1>2, <1>4 DEF Numbers, StartedAt, Cloned, Before

(* A step of a helper neither starts nor clones one.                       *)
LEMMA NumbersHelperStep ==
  ASSUME Typed, Numbers, NEW g \in Helpers, HelperStep(g)
  PROVE  Numbers'
<1>0. UNCHANGED <<system, shell, fs, excuses>>
  BY HelperStepMoves
<1>1. ASSUME NEW h \in Helpers
      PROVE  /\ helper[h] = None => helper'[h] = None
             /\ helper'[h].parent = "none" => helper'[h] = None
             /\ helper'[h].parent = "runs" => helper'[h].child = "none"
             /\ helper'[h].child = "none" => helper'[h].at = {}
             /\ helper'[h].parent \in {"runs", "clone"} => helper'[h].parent = helper[h].parent
  <2>1. CASE h = g
    <3>0. /\ helper[g] \in RecType
          /\ helper[g].parent = "none" => helper[g] = None
          /\ helper[g].parent = "runs" => helper[g].child = "none"
          /\ helper[g].child = "none" => helper[g].at = {}
      BY RecFacts DEF Numbers
    <3>1. CASE helper'[g] = None
      BY <2>1, <3>1 DEF None
    <3>2. CASE ForksNow(g)
      BY <2>1, <3>2, HelperStepMoves DEF ForksNow
    <3>3. CASE DiesNow(g)
      <4>1. /\ helper'[h].parent = helper[g].parent /\ helper'[h].child = "gone"
            /\ helper'[h].at = {}
        BY <2>1, <3>0, <3>3 DEF DiesNow, RecType
      <4>2. helper[g] # None /\ helper[g].parent \notin {"none", "runs"}
        BY <3>0, <3>3 DEF DiesNow, None
      <4>. QED
        BY <2>1, <4>1, <4>2
    <3>4. CASE EndsNow(g)
      <4>1. /\ helper'[h].parent = "gone" /\ helper'[h].child = helper[g].child
            /\ helper'[h].at = helper[g].at
        BY <2>1, <3>0, <3>4 DEF EndsNow, RecType
      <4>2. helper[g] # None
        BY <3>4 DEF EndsNow, None
      <4>. QED
        BY <2>1, <3>0, <4>1, <4>2
    <3>. QED
      BY <3>1, <3>2, <3>3, <3>4, HelperStepMoves
  <2>2. CASE h # g
    BY <2>2, HelperStepMoves DEF Numbers, None
  <2>. QED
    BY <2>1, <2>2
<1>2. \A n \in 1..3 : Number(n)' = Number(n) /\ Number(n) \in Helpers
  BY <1>0, HelperNumbers DEF Number
<1>3. Row1' = Row1 /\ Running' = Running /\ shell' = shell
  BY <1>0 DEF Row1, Running
<1>4. \A n \in 1..3 : LET m == Number(n) IN
        /\ Running /\ ~StartedAt(Row1, n, shell.pc) => helper'[m] = None
        /\ Cloned(Row1, n, shell.pc) => helper'[m].parent # "runs"
        /\ Running /\ helper'[m].parent = "clone" => Cloned(Row1, n, shell.pc)
  BY <1>1, <1>2 DEF Numbers
<1>5. \A h \in Helpers :
        /\ h > 3 * shell.round => helper'[h] = None
        /\ helper'[h].parent = "none" => helper'[h] = None
        /\ helper'[h].parent = "runs" => helper'[h].child = "none"
        /\ helper'[h].child = "none" => helper'[h].at = {}
  BY <1>1 DEF Numbers
<1>. QED
  BY <1>2, <1>3, <1>4, <1>5 DEF Numbers, StartedAt, Cloned, Before

(* Nothing is excused twice, or forgotten within a script.                 *)
LEMMA ExcusesGrow ==
  HelperLine \/ KnowLine \/ FsLine \/ IdleLine => excuses \subseteq excuses'
<1>1. HelperLine => excuses \subseteq excuses'
  BY DEF HelperLine, StartHelper, KillFound, KillGroup, KillListed, PutChild, CloneInto
<1>2. KnowLine => excuses \subseteq excuses'
  BY DEF KnowLine, FindChild, ListHelpers, Join, RunForking
<1>3. FsLine => excuses \subseteq excuses'
  BY DEF FsLine, MakeDir, TryDir, SkipTry, RemoveDirs, Mount, Umount, Rename, Freeze, Thaw,
     MakeThreaded, SetLimit, CpuHotplug
<1>. QED
  BY <1>1, <1>2, <1>3 DEF IdleLine

(* No step of a helper is one of the shell's.                              *)
LEMMA HelperStepKeeps ==
  ASSUME Typed, NEW g \in Helpers, HelperStep(g)
  PROVE  /\ UNCHANGED <<system, shell, fs, excuses>> /\ Row1' = Row1
         /\ Ours' = Ours /\ Running' = Running
         /\ \A n \in 1..3 : Number(n)' = Number(n) /\ Number(n) \in Helpers
<1>1. UNCHANGED <<system, shell, fs, excuses>>
  BY HelperStepMoves
<1>. QED
  BY <1>1, HelperNumbers DEF Row1, Ours, Number, Running

(* What a step of a helper may do to any of them.                          *)
LEMMA HelperStepFields ==
  ASSUME Typed, Numbers, NEW g \in Helpers, HelperStep(g), NEW h \in Helpers
  PROVE  \/ helper'[h] = helper[h] \/ helper'[h] = None
         \/ /\ helper[h].parent = "runs" /\ Room(helper[h].home, 1) /\ h = g
            /\ helper'[h].parent = "waits" /\ helper'[h].child = "runs"
            /\ helper'[h].home = helper[h].home /\ helper'[h].at = helper[h].home
         \/ /\ helper'[h].parent = helper[h].parent /\ helper'[h].child = "gone"
            /\ helper'[h].home = helper[h].home /\ helper'[h].at = {} /\ helper[h].child = "dying"
         \/ /\ helper'[h].parent = "gone" /\ helper'[h].child = helper[h].child
            /\ helper'[h].home = {} /\ helper'[h].at = helper[h].at
            /\ helper[h].parent \in {"waits", "dying"}
<1>0. helper[g] \in RecType
  BY RecFacts
<1>1. CASE h = g
  <2>1. CASE ForksNow(g)
    BY <1>1, <2>1 DEF ForksNow
  <2>2. CASE DiesNow(g)
    BY <1>0, <1>1, <2>2 DEF DiesNow, RecType
  <2>3. CASE EndsNow(g)
    BY <1>0, <1>1, <2>3 DEF EndsNow, RecType
  <2>. QED
    BY <1>1, <2>1, <2>2, <2>3, HelperStepMoves
<1>2. CASE h # g
  BY <1>2, HelperStepMoves
<1>. QED
  BY <1>1, <1>2

-----------------------------------------------------------------------------
(* Findings: what pgrep has seen.                                          *)

(* A line of a script other than find.                                     *)
LEMMA FindingsOtherLine ==
  ASSUME Typed, Findings, Advances, shell'.found = shell.found, At.op # "find",
         excuses \subseteq excuses',
         \A h \in shell.found : helper'[h].parent = "runs" => helper[h].parent = "runs"
  PROVE  Findings'
<1>0. /\ Row1' = Row1 /\ shell'.pc = shell.pc + 1 /\ shell.pc \in Nat \ {0}
      /\ Row1[shell.pc] = At /\ \A n \in 1..3 : Number(n)' = Number(n)
  BY LineKeeps
<1>1. \A n \in 1..3 : FoundAt(Row1, n, shell.pc + 1) <=> FoundAt(Row1, n, shell.pc)
  BY <1>0, StartedNext DEF About
<1>2. \A h \in shell'.found :
        /\ helper'[h].parent # "runs"
        /\ \E n \in 1..3 : h = Number(n)' /\ FoundAt(Row1', n, shell'.pc)
  BY <1>0, <1>1 DEF Findings
<1>3. "missed" \notin excuses' =>
        \A n \in 1..3 : FoundAt(Row1', n, shell'.pc) => Number(n)' \in shell'.found
  BY <1>0, <1>1 DEF Findings
<1>. QED
  BY <1>2, <1>3 DEF Findings, FoundAt, Before

(* No line starts a helper again whose child has been found.               *)
LEMMA FindingsHelperLine ==
  ASSUME Typed, Findings, HelperLine
  PROVE  Findings'
<1>0. /\ shell.pc \in DOMAIN Row1 /\ Row1[shell.pc] = At /\ shell.pc \in Nat
      /\ \A n \in 1..3 : Number(n) \in Helpers /\ (Number(n) \in Whose <=> n \in At.who)
      /\ Row1 = Code(shell.script) /\ shell.script \in Scripts
      /\ Len(Row1) \in Nat /\ DOMAIN Row1 = 1..Len(Row1)
  BY LineKeeps, HelperNumbers, RowFacts DEF HelperLine
<1>1. ASSUME NEW h \in shell.found, helper'[h].parent = "runs"
      PROVE  helper[h].parent = "runs"
  <2>1. PICK n \in 1..3 : h = Number(n) /\ FoundAt(Row1, n, shell.pc)
    BY DEF Findings
  <2>2. h \in Helpers
    BY <1>0, <2>1
  <2>3. CASE Begins(h)
    <3>1. Starts(At, n)
      BY <1>0, <2>1, <2>3 DEF Begins, Starts, About
    <3>2. PICK j \in Before(shell.pc) : About(Row1[j], {"find"}, n)
      BY <2>1 DEF FoundAt
    <3>3. j \in DOMAIN Row1 /\ j < shell.pc
      BY <1>0 DEF Before
    <3>. QED
      BY <1>0, <3>1, <3>2, <3>3, OrderAssumption
  <2>4. CASE IsBorn(h)
    BY <1>1, <2>4 DEF IsBorn
  <2>5. CASE IsPut(h)
    BY <1>1, <2>2, <2>5, RecFacts DEF IsPut, RecType
  <2>6. CASE Weakened(h)
    BY <1>1, <2>6 DEF Weakened
  <2>. QED
    BY <1>1, <2>2, <2>3, <2>4, <2>5, <2>6, HelperMoves
<1>2. excuses \subseteq excuses' /\ At.op # "find"
  BY ExcusesGrow, LineOps
<1>. QED
  BY <1>1, <1>2, FindingsOtherLine DEF HelperLine, SameKnow

(* pgrep finds a child that has been forked, or the script has missed it.  *)
LEMMA FindingsKnowLine ==
  ASSUME Typed, Numbers, Findings, KnowLine
  PROVE  Findings'
<1>1. CASE FindChild
  <2>0. /\ Row1' = Row1 /\ shell'.pc = shell.pc + 1 /\ shell.pc \in Nat \ {0}
        /\ Row1[shell.pc] = At /\ \A n \in 1..3 : Number(n)' = Number(n)
        /\ \A n \in 1..3 : Number(n) \in Whose <=> n \in At.who
        /\ At.op = "find" /\ helper' = helper /\ shell.pc <= Len(Row1) /\ Whose \subseteq Helpers
    BY <1>1, LineKeeps, HelperNumbers DEF KnowLine, FindChild, Runs
  <2>. DEFINE seen == {h \in Whose : Lives(helper[h].child)}
  <2>1. /\ shell'.found = shell.found \cup seen
        /\ excuses' = IF seen = {} THEN excuses \cup {"missed"} ELSE excuses
    BY <1>1 DEF FindChild, Past, Typed, ShellType
  <2>2. \A n \in 1..3 : FoundAt(Row1, n, shell.pc + 1) <=>
                          FoundAt(Row1, n, shell.pc) \/ n \in At.who
    BY <2>0, StartedNext DEF About
  <2>3. PICK m \in 1..3 : At.who = {m}
    BY <2>0, LineFacts DEF StepOK, OneChild
  <2>4. Whose = {Number(m)}
    BY <2>3 DEF Whose
  <2>5. ASSUME NEW h \in seen
        PROVE  helper[h].parent # "runs" /\ \E n \in 1..3 : h = Number(n) /\ n \in At.who
    BY <2>0, <2>3, <2>4 DEF Numbers, Lives
  <2>6. \A h \in shell'.found :
          /\ helper'[h].parent # "runs"
          /\ \E n \in 1..3 : h = Number(n)' /\ FoundAt(Row1', n, shell'.pc)
    BY <2>0, <2>1, <2>2, <2>5 DEF Findings
  <2>7. ASSUME "missed" \notin excuses', NEW n \in 1..3, FoundAt(Row1, n, shell.pc + 1)
        PROVE  Number(n) \in shell'.found
    <3>1. seen = Whose /\ "missed" \notin excuses
      BY <2>1, <2>4, <2>7
    <3>. QED
      BY <2>0, <2>1, <2>2, <2>7, <3>1 DEF Findings
  <2>. QED
    BY <2>0, <2>6, <2>7 DEF Findings, FoundAt, Before
<1>2. CASE ListHelpers \/ Join \/ RunForking
  <2>1. shell'.found = shell.found /\ At.op # "find"
    BY <1>2 DEF ListHelpers, Join, RunForking, Past, Runs, Typed, ShellType
  <2>. QED
    BY <2>1, FindingsOtherLine, ExcusesGrow DEF KnowLine
<1>. QED
  BY <1>1, <1>2 DEF KnowLine

(* Every step keeps Findings.                                              *)
LEMMA FindingsNext ==
  ASSUME Typed, Numbers, Findings, [Next]_vars
  PROVE  Findings'
<1>1. CASE HelperLine \/ KnowLine
  BY <1>1, FindingsHelperLine, FindingsKnowLine
<1>2. CASE FsLine \/ IdleLine
  <2>1. Advances /\ shell'.found = shell.found /\ At.op # "find" /\ helper' = helper
    BY <1>2, LineOps DEF FsLine, IdleLine, SameKnow
  <2>. QED
    BY <1>2, <2>1, FindingsOtherLine, ExcusesGrow
<1>3. CASE Halts \/ Interrupt \/ NextScript
  <2>1. shell'.found = {} /\ shell'.pc = 1
    BY <1>3, RestFacts DEF Rests
  <2>2. \A n : ~FoundAt(Row1', n, 1)
    BY AtFirst
  <2>. QED
    BY <2>1, <2>2 DEF Findings, FoundAt, Before
<1>4. ASSUME NEW g \in Helpers, HelperStep(g) PROVE Findings'
  <2>1. \A h \in Helpers : helper'[h].parent = "runs" => helper[h].parent = "runs"
    BY <1>4, HelperStepFields DEF None
  <2>2. shell.found \subseteq Helpers
    BY DEF Typed, ShellType
  <2>. QED
    BY <1>4, <2>1, <2>2, HelperStepKeeps DEF Findings, FoundAt, Before
<1>5. CASE UNCHANGED vars
  BY <1>5 DEF vars, Findings, FoundAt, Before, Row1, Number
<1>. QED
  BY <1>1, <1>2, <1>3, <1>4, <1>5, ShellGroups DEF Next

(* Every step keeps Numbers.                                               *)
LEMMA NumbersNext ==
  ASSUME Typed, Numbers, [Next]_vars
  PROVE  Numbers'
<1>1. CASE HelperLine
  BY <1>1, NumbersHelperLine
<1>2. CASE KnowLine \/ FsLine \/ IdleLine
  BY <1>2, NumbersOtherLine, LineOps DEF KnowLine, FsLine, IdleLine
<1>3. CASE Halts \/ Interrupt \/ NextScript
  BY <1>3, NumbersRest
<1>4. CASE \E g \in Helpers : HelperStep(g)
  BY <1>4, NumbersHelperStep
<1>5. CASE UNCHANGED vars
  BY <1>5 DEF vars, Numbers, StartedAt, Cloned, Before, Row1, Number, Running
<1>. QED
  BY <1>1, <1>2, <1>3, <1>4, <1>5, ShellGroups DEF Next

-----------------------------------------------------------------------------
(* Places: who is in which cgroup.                                         *)

(* What a put and the kills do to those they are meant for.                *)
LEMMA PutFacts ==
  ASSUME Typed, HelperLine, NEW h \in Helpers, At.op = "put", h \in Whose \cap shell.found,
         Lives(helper[h].child), Dir \in fs.dirs
  PROVE  IsPut(h)
<1>1. PutChild
  BY DEF HelperLine, StartHelper, KillFound, KillGroup, KillListed, CloneInto, Runs
<1>. QED
  BY <1>1 DEF PutChild, IsPut, Runs

(* The three kills hit what they name.                                     *)
LEMMA KillFacts ==
  ASSUME Typed, HelperLine, NEW h \in Helpers
  PROVE  /\ At.op = "kill" /\ h \in Whose \cap shell.found => helper'[h].child # "runs"
         /\ At.op = "cgroup.kill" /\ Dir \in helper[h].at /\ "threaded" \notin excuses' =>
              helper'[h].child # "runs"
         /\ At.op = "kill-listed" /\ <<h, "parent">> \in shell.listed =>
              helper'[h].parent \notin {"runs", "waits"}
         /\ At.op = "kill-listed" /\ <<h, "child">> \in shell.listed => helper'[h].child # "runs"
         /\ At.op = "kill-listed" /\ "missed" \notin excuses' =>
              helper'[h].child # "runs" \/ h \notin Forked
<1>0. helper[h] \in RecType
  BY RecFacts
<1>1. ASSUME At.op = "kill", h \in Whose \cap shell.found PROVE helper'[h].child # "runs"
  <2>1. KillFound
    BY <1>1 DEF HelperLine, StartHelper, KillGroup, KillListed, PutChild, CloneInto, Runs
  <2>2. helper'[h] = [helper[h] EXCEPT !.child = Struck(@, TRUE)]
    BY <1>1, <2>1 DEF KillFound
  <2>. QED
    BY <1>0, <2>2 DEF Struck, RecType
<1>2. ASSUME At.op = "cgroup.kill", Dir \in helper[h].at, "threaded" \notin excuses'
      PROVE  helper'[h].child # "runs"
  <2>1. KillGroup
    BY <1>2 DEF HelperLine, StartHelper, KillFound, KillListed, PutChild, CloneInto, Runs
  <2>2. helper'[h] = [helper[h] EXCEPT !.parent = Struck(@, Dir \in helper[h].home),
                                       !.child = Struck(@, TRUE)]
    BY <1>2, <2>1 DEF KillGroup
  <2>. QED
    BY <1>0, <2>2 DEF Struck, RecType
<1>3. ASSUME At.op = "kill-listed"
      PROVE  /\ <<h, "parent">> \in shell.listed => helper'[h].parent \notin {"runs", "waits"}
             /\ <<h, "child">> \in shell.listed => helper'[h].child # "runs"
             /\ "missed" \notin excuses' => helper'[h].child # "runs" \/ h \notin Forked
  <2>1. KillListed
    BY <1>3 DEF HelperLine, StartHelper, KillFound, KillGroup, PutChild, CloneInto, Runs
  <2>2. helper'[h] = [helper[h] EXCEPT !.parent = Struck(@, <<h, "parent">> \in shell.listed),
                                       !.child = Struck(@, <<h, "child">> \in shell.listed)]
    BY <2>1 DEF KillListed
  <2>3. /\ helper'[h].parent = Struck(helper[h].parent, <<h, "parent">> \in shell.listed)
        /\ helper'[h].child = Struck(helper[h].child, <<h, "child">> \in shell.listed)
    BY <1>0, <2>2 DEF RecType
  <2>4. /\ <<h, "parent">> \in shell.listed => helper'[h].parent \notin {"runs", "waits"}
        /\ <<h, "child">> \in shell.listed => helper'[h].child # "runs"
        /\ helper'[h].child = "runs" => helper[h].child = "runs"
    BY <2>3 DEF Struck
  <2>5. excuses' = IF \E g \in Forked : helper[g].child = "runs" /\ <<g, "child">> \notin shell.listed
                   THEN excuses \cup {"missed"} ELSE excuses
    BY <2>1 DEF KillListed
  <2>. QED
    BY <2>4, <2>5
<1>. QED
  BY <1>1, <1>2, <1>3

(* Nobody enters the empty cgroups.                                        *)
LEMMA EmptyHelperLine ==
  ASSUME Typed, Places, HelperLine, NEW h \in Helpers
  PROVE  (helper'[h].home \cup helper'[h].at) \cap Empty = {}
<1>0. /\ helper[h] \in RecType /\ (helper[h].home \cup helper[h].at) \cap Empty = {}
      /\ shell.at \cap Empty = {}
  BY RecFacts DEF Places, ShellPlaced
<1>1. CASE Begins(h)
  BY <1>0, <1>1 DEF Begins
<1>2. ASSUME At.op \in {"put", "put-thread", "clone"} PROVE Dir \notin Empty
  <2>1. shell.pc \in DOMAIN Row1 /\ At = Row1[shell.pc] /\ shell.pc <= Len(Row1)
        /\ Row1 = Code(shell.script) /\ shell.script \in Scripts
    BY LineKeeps, RowFacts DEF HelperLine
  <2>2. At.on \cap Empty = {} /\ At.on = {Dir}
    BY <1>2, <2>1, EmptyAssumption, LineFacts DEF OneDir
  <2>. QED
    BY <2>2
<1>3. CASE IsBorn(h)
  BY <1>2, <1>3 DEF IsBorn
<1>4. CASE IsPut(h)
  BY <1>0, <1>2, <1>4 DEF IsPut, Moved, RecType
<1>5. CASE Weakened(h)
  BY <1>0, <1>5 DEF Weakened
<1>. QED
  BY <1>0, <1>1, <1>3, <1>4, <1>5, HelperMoves

(* The script's order of lines about one helper, before the line it is at. *)
LEMMA OrderFacts ==
  ASSUME Typed, shell.pc \in DOMAIN Row1, NEW n \in 1..3
  PROVE  /\ Starts(At, n) => ~StartedAt(Row1, n, shell.pc) /\ ~FoundAt(Row1, n, shell.pc)
         /\ About(At, {"clone"}, n) => \A d : ~Holds(Row1, n, d, shell.pc)
         /\ Cloned(Row1, n, shell.pc) =>
              ~About(At, {"find", "put", "put-thread", "kill"}, n)
         /\ About(At, {"find"}, n) => \A d : ~Holds(Row1, n, d, shell.pc)
         /\ \A d : Born(Row1, n, d, shell.pc) => Cloned(Row1, n, shell.pc)
         /\ \A d : Holds(Row1, n, d, shell.pc) => ~Starts(At, n)
         /\ Cloned(Row1, n, shell.pc) => StartedAt(Row1, n, shell.pc)
<1>0. /\ Row1 = Code(shell.script) /\ shell.script \in Scripts /\ DOMAIN Row1 = 1..Len(Row1)
      /\ Len(Row1) \in Nat /\ At = Row1[shell.pc] /\ shell.pc \in Nat
  BY RowFacts DEF At
<1>1. \A j \in Before(shell.pc) : j \in DOMAIN Row1 /\ j # shell.pc /\ ~(shell.pc < j)
  BY <1>0 DEF Before
<1>2. \A j \in DOMAIN Row1 :
        /\ Starts(At, n) /\ Starts(Row1[j], n) => shell.pc = j
        /\ Starts(At, n) /\ About(Row1[j], {"find"}, n) => shell.pc < j
        /\ About(At, {"find"}, n) /\ About(Row1[j], {"put", "put-thread", "kill"}, n) =>
             shell.pc < j
        /\ About(At, {"clone"}, n) => ~About(Row1[j], {"find", "put", "put-thread", "kill"}, n)
        /\ About(Row1[j], {"clone"}, n) => ~About(At, {"find", "put", "put-thread", "kill"}, n)
  BY <1>0, OrderAssumption
<1>3. ASSUME NEW d, Holds(Row1, n, d, shell.pc)
      PROVE  \E j \in Before(shell.pc) : About(Row1[j], {"put", "put-thread", "kill"}, n)
  BY <1>3 DEF Holds, About
<1>4. Starts(At, n) => ~StartedAt(Row1, n, shell.pc) /\ ~FoundAt(Row1, n, shell.pc)
  BY <1>1, <1>2 DEF StartedAt, FoundAt
<1>5. About(At, {"clone"}, n) => \A d : ~Holds(Row1, n, d, shell.pc)
  BY <1>1, <1>2, <1>3 DEF About
<1>6. /\ Cloned(Row1, n, shell.pc) => ~About(At, {"find", "put", "put-thread", "kill"}, n)
      /\ \A d : Born(Row1, n, d, shell.pc) => Cloned(Row1, n, shell.pc)
      /\ Cloned(Row1, n, shell.pc) => StartedAt(Row1, n, shell.pc)
  BY <1>1, <1>2 DEF Cloned, Born, StartedAt, Starts, About
<1>7. About(At, {"find"}, n) => \A d : ~Holds(Row1, n, d, shell.pc)
  BY <1>1, <1>2, <1>3
<1>8. ASSUME NEW d, Holds(Row1, n, d, shell.pc), Starts(At, n) PROVE FALSE
  <2>1. PICK j \in Before(shell.pc) : About(Row1[j], {"put"}, n)
    BY <1>8 DEF Holds
  <2>2. FoundAt(Row1, n, j)
    BY <1>0, <1>1, <2>1, OrderAssumption DEF About
  <2>3. FoundAt(Row1, n, shell.pc)
    BY <1>0, <1>1, <2>2 DEF FoundAt, Before
  <2>. QED
    BY <1>4, <1>8, <2>3
<1>. QED
  BY <1>4, <1>5, <1>6, <1>7, <1>8

(* A child is where its script has put it, after a line about helpers:     *)
(* that a put and a cgroup.kill of a directory that is there hit the child *)
(* is what Holds and Born promise.                                         *)
LEMMA PlacedHelperLine ==
  ASSUME Typed, Numbers, Findings, Places, Directories, HelperLine, NEW n \in 1..3
  PROVE  /\ shell.script \notin Limiting => helper'[Number(n)].home = {}
         /\ ChildPlaced(n, Number(n))'
<1>. DEFINE h == Number(n)
<1>. DEFINE i == shell.pc
<1>0. /\ Row1' = Row1 /\ Running /\ i \in DOMAIN Row1 /\ Row1[i] = At
      /\ shell'.pc = i + 1 /\ i \in Nat \ {0} /\ i <= Len(Row1)
      /\ Number(n)' = h /\ h \in Helpers /\ (h \in Whose <=> n \in At.who)
      /\ shell'.found = shell.found /\ helper[h] \in RecType
      /\ Row1 = Code(shell.script) /\ shell.script \in Scripts /\ excuses \subseteq excuses'
  BY LineKeeps, HelperNumbers, RecFacts, RowFacts, ExcusesGrow DEF HelperLine, SameKnow
<1>1. /\ helper[h].child = "runs" => \A d \in Dirs :
           /\ d \in helper[h].at =>
                /\ "threaded" \in excuses \/ MayHold(Row1, n, d, i)
                /\ h \in shell.found \/ Cloned(Row1, n, i)
           /\ Holds(Row1, n, d, i) /\ h \in shell.found => d \in helper[h].at
           /\ Born(Row1, n, d, i) => d \in helper[h].at
      /\ shell.script \notin Limiting => helper[h].home = {}
  BY <1>0 DEF Places, ChildPlaced
<1>2. SUFFICES /\ shell.script \notin Limiting => helper'[h].home = {}
               /\ helper'[h].child = "runs" => \A d \in Dirs :
                    /\ d \in helper'[h].at =>
                         /\ "threaded" \in excuses' \/ MayHold(Row1, n, d, i + 1)
                         /\ h \in shell.found \/ Cloned(Row1, n, i + 1)
                    /\ Holds(Row1, n, d, i + 1) /\ h \in shell.found => d \in helper'[h].at
                    /\ Born(Row1, n, d, i + 1) => d \in helper'[h].at
  BY <1>0 DEF ChildPlaced, MayHold, Holds, Born, Cloned, Before, Present
<1>3. /\ Starts(At, n) => ~FoundAt(Row1, n, i) /\ ~StartedAt(Row1, n, i)
      /\ About(At, {"clone"}, n) => \A d : ~Holds(Row1, n, d, i)
      /\ Cloned(Row1, n, i) => ~About(At, {"find", "put", "put-thread", "kill"}, n)
      /\ \A d : Born(Row1, n, d, i) => Cloned(Row1, n, i)
      /\ Cloned(Row1, n, i) => StartedAt(Row1, n, i)
  BY <1>0, OrderFacts
<1>4. Cloned(Row1, n, i) => Cloned(Row1, n, i + 1)
  BY <1>0, StartedNext
<1>5. At.op \in {"put", "put-thread", "clone"} => At.on = {Dir}
  BY <1>0, LineFacts DEF OneDir
<1>6. h \in shell.found => FoundAt(Row1, n, i)
  BY <1>0, HelperNumbers DEF Findings
<1>7. CASE Begins(h)
  <2>1. shell.script \notin Limiting => shell.at = {}
    <3>1. ASSUME shell.script \notin Limiting, NEW d \in Dirs, d \in shell.at PROVE FALSE
      <4>1. MayBeIn(Row1, d, i)
        BY <3>1 DEF Places, ShellPlaced
      <4>2. PICK j \in Before(i) : Row1[j].op = "join"
        BY <4>1 DEF MayBeIn
      <4>. QED
        BY <1>0, <1>7, <3>1, <4>2, LimitAssumption DEF Begins
    <3>2. shell.at \subseteq Dirs
      BY DEF Typed, ShellType
    <3>. QED
      BY <3>1, <3>2
  <2>. QED
    BY <1>7, <2>1 DEF Begins
<1>8. CASE IsBorn(h)
  <2>1. About(At, {"clone"}, n) /\ Starts(At, n)
    BY <1>0, <1>8 DEF IsBorn, About, Starts
  <2>2. \A d \in {Dir} : MayHold(Row1, n, d, i + 1)
    BY <1>0, <1>5, <2>1, MayHoldNext DEF About
  <2>3. Cloned(Row1, n, i + 1)
    BY <1>0, <2>1, StartedNext
  <2>4. \A d : Born(Row1, n, d, i + 1) => d \in {Dir}
    BY <1>0, <1>3, <1>5, <2>1, BornNext DEF About
  <2>5. h \notin shell.found
    BY <1>3, <1>6, <2>1
  <2>. QED
    BY <1>8, <2>2, <2>3, <2>4, <2>5 DEF IsBorn
<1>9. CASE IsPut(h)
  <2>1. /\ About(At, {"put", "put-thread"}, n) /\ At.op \notin {"kill", "cgroup.kill", "clone"}
        /\ h \in shell.found /\ ~Cloned(Row1, n, i) /\ At.on = {Dir}
    BY <1>0, <1>3, <1>5, <1>9 DEF IsPut, About
  <2>2. /\ helper'[h].home = helper[h].home /\ helper'[h].child = helper[h].child
        /\ helper'[h].at = Moved(helper[h].at, Dir)
    BY <1>0, <1>9 DEF IsPut, RecType
  <2>3. ASSUME NEW d \in Dirs, d \in helper'[h].at, helper[h].child = "runs",
               "threaded" \notin excuses'
        PROVE  MayHold(Row1, n, d, i + 1)
    <3>1. CASE d = Dir
      BY <1>0, <2>1, <3>1, MayHoldNext DEF About
    <3>2. CASE d \in helper[h].at
      <4>1. MayHold(Row1, n, d, i)
        BY <1>0, <1>1, <2>3, <3>2
      <4>. QED
        BY <1>0, <2>1, <4>1, MayHoldNext DEF About
    <3>. QED
      BY <2>2, <2>3, <3>1, <3>2 DEF Moved
  <2>4. ASSUME NEW d, Holds(Row1, n, d, i + 1) PROVE d = Dir
    BY <1>0, <2>1, <2>4, HoldsNext
  <2>5. \A d : ~Born(Row1, n, d, i + 1)
    BY <1>0, <1>3, <2>1, BornNext DEF About
  <2>. QED
    BY <1>1, <2>1, <2>2, <2>3, <2>4, <2>5 DEF Moved
<1>10. CASE Weakened(h) /\ At.op \in {"kill", "cgroup.kill", "kill-listed"}
  <2>1. /\ helper'[h].home = helper[h].home /\ helper'[h].at = helper[h].at
        /\ helper'[h].child = "runs" => helper[h].child = "runs"
        /\ ~About(At, {"put"}, n) /\ ~About(At, {"clone"}, n)
    BY <1>10 DEF Weakened, About
  <2>2. ASSUME helper'[h].child = "runs", NEW d \in Dirs, d \in helper'[h].at,
               "threaded" \notin excuses'
        PROVE  MayHold(Row1, n, d, i + 1)
    <3>1. MayHold(Row1, n, d, i) /\ (h \in shell.found \/ Cloned(Row1, n, i))
      BY <1>0, <1>1, <2>1, <2>2
    <3>2. ~About(At, {"kill"}, n)
      BY <1>0, <1>3, <2>2, <3>1, KillFacts DEF About
    <3>3. ~(At.op = "cgroup.kill" /\ d \in At.on)
      BY <1>0, <2>1, <2>2, KillFacts, LineFacts DEF OneDir
    <3>. QED
      BY <1>0, <3>1, <3>2, <3>3, MayHoldNext
  <2>3. \A d : Holds(Row1, n, d, i + 1) => Holds(Row1, n, d, i)
    BY <1>0, <2>1, HoldsNext
  <2>4. \A d : Born(Row1, n, d, i + 1) => Born(Row1, n, d, i)
    BY <1>0, <2>1, BornNext
  <2>. QED
    BY <1>1, <1>4, <2>1, <2>2, <2>3, <2>4
<1>11. CASE helper'[h] = helper[h] /\ At.op \notin {"kill", "cgroup.kill", "kill-listed"}
  <2>1. ASSUME NEW d, MayHold(Row1, n, d, i) PROVE MayHold(Row1, n, d, i + 1)
    BY <1>0, <1>11, <2>1, MayHoldNext DEF About
  <2>2. ASSUME helper[h].child = "runs", NEW d \in Dirs, Holds(Row1, n, d, i + 1), h \in shell.found
        PROVE  d \in helper[h].at
    <3>1. CASE Holds(Row1, n, d, i)
      BY <1>1, <2>2, <3>1
    <3>2. CASE About(At, {"put"}, n) /\ d \in At.on /\ Present(Row1, d, i)
      <4>1. At.op = "put" /\ h \in Whose /\ d = Dir
        BY <1>0, <1>5, <3>2 DEF About
      <4>2. Dir \in fs.dirs
        BY <3>2, <4>1 DEF Directories
      <4>3. IsPut(h)
        BY <1>0, <2>2, <4>1, <4>2, PutFacts DEF Lives
      <4>. QED
        BY <1>0, <1>11, <4>1, <4>3 DEF IsPut, Moved, RecType
    <3>. QED
      BY <1>0, <2>2, <3>1, <3>2, HoldsNext
  <2>3. ASSUME helper[h].child = "runs", NEW d \in Dirs, Born(Row1, n, d, i + 1)
        PROVE  d \in helper[h].at
    <3>1. CASE Born(Row1, n, d, i)
      BY <1>1, <2>3, <3>1
    <3>2. CASE About(At, {"clone"}, n)
      <4>1. helper[h] = None
        BY <1>0, <1>3, <3>2 DEF Numbers, Starts, About
      <4>. QED
        BY <2>3, <4>1 DEF None
    <3>. QED
      BY <1>0, <2>3, <3>1, <3>2, BornNext
  <2>. QED
    BY <1>0, <1>1, <1>4, <1>11, <2>1, <2>2, <2>3
<1>. QED
  BY <1>0, <1>7, <1>8, <1>9, <1>10, <1>11, HelperMoves

(* Who counts for pids.max and for rmdir.                                  *)
LEMMA PopulationFacts ==
  ASSUME Typed, NEW d
  PROVE  /\ Population(d) \in Nat
         /\ Running /\ d \in shell.at => Population(d) >= 1
         /\ \A h \in Helpers : /\ Running /\ d \in shell.at
                               /\ Lives(helper[h].parent) /\ d \in helper[h].home
                               => Population(d) >= 2
         /\ Population(d) > 0 =>
              \/ Running /\ d \in shell.at
              \/ \E h \in Helpers : \/ Lives(helper[h].parent) /\ d \in helper[h].home
                                    \/ Lives(helper[h].child) /\ d \in helper[h].at
<1>. DEFINE P == {h \in Helpers : Lives(helper[h].parent) /\ d \in helper[h].home}
            C == {h \in Helpers : Lives(helper[h].child) /\ d \in helper[h].at}
<1>1. IsFiniteSet(Helpers)
  BY MaxRoundsAssumption, FS_Interval DEF Helpers
<1>2. IsFiniteSet(P) /\ IsFiniteSet(C)
  BY <1>1, FS_Subset
<1>3. /\ Cardinality(P) \in Nat /\ (Cardinality(P) = 0 <=> P = {})
      /\ Cardinality(C) \in Nat /\ (Cardinality(C) = 0 <=> C = {})
  BY <1>2, FS_CardinalityType, FS_EmptySet
<1>4. Population(d) = Cardinality(P) + Cardinality(C) + (IF Running /\ d \in shell.at THEN 1 ELSE 0)
  BY DEF Population, Running
<1>. HIDE DEF P, C
<1>5. ASSUME NEW h \in Helpers, Lives(helper[h].parent) /\ d \in helper[h].home
      PROVE  Cardinality(P) >= 1
  <2>1. P # {}
    BY <1>5 DEF P
  <2>. QED
    BY <1>3, <2>1
<1>6. \A h \in Helpers : /\ Running /\ d \in shell.at
                         /\ Lives(helper[h].parent) /\ d \in helper[h].home
                         => Population(d) >= 2
  BY <1>3, <1>4, <1>5
<1>7. Population(d) > 0 => (Running /\ d \in shell.at) \/ P # {} \/ C # {}
  BY <1>3, <1>4
<1>. QED
  BY <1>3, <1>4, <1>6, <1>7 DEF P, C

(* In the full cgroup of a script that has set a limit no helper forks.    *)
LEMMA NoRoom ==
  ASSUME Typed, Places, Refusals, Running, shell.script \in Limiting, NEW h \in Ours,
         helper[h].parent = "runs"
  PROVE  ~Room(helper[h].home, 1)
<1>1. h \in Helpers
  BY HelperNumbers
<1>2. Crowded(Row1, shell.pc) /\ "Example" \in helper[h].home
  BY DEF Refusals, Running, None
<1>3. "Example" \in Cgroups /\ "Example" \in Dirs
  BY LimitAssumption DEF Dirs
<1>4. "Example" \in shell.at /\ <<"Example", "limit">> \in fs.limits
  BY <1>2, <1>3 DEF Crowded, Places, ShellPlaced, Refusals, Kinds
<1>5. Population("Example") >= 2 /\ Population("Example") \in Nat
  BY <1>1, <1>2, <1>4, PopulationFacts DEF Lives
<1>. QED
  BY <1>2, <1>4, <1>5 DEF Room

(* The shell's own place.                                                  *)
LEMMA ShellPlacedLine ==
  ASSUME Typed, Places, Advances, shell'.at = shell.at, At.op # "join"
  PROVE  ShellPlaced'
<1>0. Row1' = Row1 /\ shell'.pc = shell.pc + 1 /\ shell.pc \in Nat \ {0} /\ Row1[shell.pc] = At
  BY LineKeeps
<1>1. \A d \in Dirs : /\ MayBeIn(Row1, d, shell.pc) => MayBeIn(Row1, d, shell.pc + 1)
                      /\ IsIn(Row1, d, shell.pc + 1) => IsIn(Row1, d, shell.pc)
  BY <1>0, MayBeInNext, IsInNext
<1>. QED
  BY <1>0, <1>1 DEF Places, ShellPlaced, MayBeIn, IsIn, Before, Present

(* A join leaves the shell in one cgroup, for all it joins are of one      *)
(* hierarchy.                                                              *)
LEMMA ShellPlacedJoin ==
  ASSUME Typed, Places, Directories, Advances, Join
  PROVE  ShellPlaced'
<1>. DEFINE i == shell.pc
<1>0. /\ Row1' = Row1 /\ shell'.pc = i + 1 /\ i \in Nat \ {0} /\ Row1[i] = At
      /\ i \in DOMAIN Row1 /\ Row1 = Code(shell.script) /\ shell.script \in Scripts
      /\ At.op = "join" /\ i <= Len(Row1)
  BY LineKeeps, RowFacts DEF Join, Runs
<1>1. At.on = {Dir} /\ Dir \in Dirs
  BY <1>0, LineFacts DEF OneDir
<1>2. shell'.at = IF Dir \in fs.dirs THEN Moved(shell.at, Dir) ELSE shell.at
  BY DEF Join, Past, Typed, ShellType
<1>3. shell.at \subseteq Dirs /\ \A d \in shell.at : MayBeIn(Row1, d, i)
  BY DEF Typed, ShellType, Places, ShellPlaced
<1>4. Dir \notin Empty
  BY <1>0, <1>1, EmptyAssumption
<1>5. \A d \in shell.at :
        /\ Dir \in fs.dirs
        /\ Hierarchy(Dir) = Hierarchy(d)
  <2>1. SUFFICES ASSUME NEW d \in shell.at
                 PROVE  Dir \in fs.dirs /\ Hierarchy(Dir) = Hierarchy(d)
    OBVIOUS
  <2>2. PICK j \in Before(i) : Row1[j].op = "join" /\ d \in Row1[j].on
    BY <1>3 DEF MayBeIn
  <2>3. /\ Present(Row1, Dir, i) \/ (CgroupScripts[shell.script].system = "v2" /\ Dir = "root")
        /\ CgroupScripts[shell.script].system = "v2" \/ Hierarchy1(Dir) = Hierarchy1(d)
    BY <1>0, <1>1, <2>2, JoinAssumption
  <2>4. CgroupScripts[shell.script].system = "v2" => system = "v2"
    BY <1>0, GuardAssumption DEF Typed, Runnable
  <2>5. Dir \in fs.dirs
    BY <1>1, <2>3, <2>4 DEF Directories
  <2>6. Hierarchy(Dir) = Hierarchy(d)
    BY <2>3, <2>4 DEF Hierarchy, Hierarchy1
  <2>. QED
    BY <2>5, <2>6
<1>6. \A d \in shell'.at : d = Dir
  BY <1>2, <1>5 DEF Moved
<1>7. MayBeIn(Row1, Dir, i + 1)
  BY <1>0, <1>1, MayBeInNext
<1>8. ASSUME NEW d \in Dirs, IsIn(Row1, d, i + 1) PROVE d \in shell'.at
  <2>1. d = Dir /\ Present(Row1, Dir, i)
    <3>1. \/ IsIn(Row1, d, i) /\ Row1[i].op # "join"
          \/ Row1[i].op = "join" /\ d \in Row1[i].on /\ Present(Row1, d, i)
      BY <1>0, <1>8, IsInNext
    <3>2. d \in At.on /\ Present(Row1, d, i)
      BY <1>0, <3>1
    <3>3. d = Dir
      BY <1>1, <3>2
    <3>. QED
      BY <3>2, <3>3
  <2>2. Dir \in fs.dirs
    BY <1>1, <2>1 DEF Directories
  <2>. QED
    BY <1>2, <2>1, <2>2 DEF Moved
<1>9. \A d \in Dirs : /\ d \in shell'.at => MayBeIn(Row1, d, i + 1)
                      /\ IsIn(Row1, d, i + 1) => d \in shell'.at
  BY <1>6, <1>7, <1>8
<1>10. shell'.at \cap Empty = {}
  BY <1>4, <1>6
<1>. QED
  BY <1>0, <1>9, <1>10 DEF ShellPlaced, MayBeIn, IsIn, Before, Present

(* A line that leaves the helpers alone.                                   *)
LEMMA PlacedOtherLine ==
  ASSUME Typed, Places, KnowLine \/ FsLine \/ IdleLine, NEW n \in 1..3
  PROVE  ChildPlaced(n, Number(n))'
<1>. DEFINE h == Number(n)
<1>. DEFINE i == shell.pc
<1>0. /\ Advances /\ helper' = helper /\ excuses \subseteq excuses'
      /\ At.op \notin {"kill", "cgroup.kill", "clone", "put", "put-thread"}
  BY LineOps, ExcusesGrow DEF KnowLine, FsLine, IdleLine
<1>1. /\ Row1' = Row1 /\ Running /\ i \in DOMAIN Row1 /\ Row1[i] = At
      /\ shell'.pc = i + 1 /\ i \in Nat \ {0} /\ Number(n)' = h
      /\ h \in Whose <=> n \in At.who
  BY <1>0, LineKeeps
<1>2. helper[h].child = "runs" => \A d \in Dirs :
        /\ d \in helper[h].at =>
             /\ "threaded" \in excuses \/ MayHold(Row1, n, d, i)
             /\ h \in shell.found \/ Cloned(Row1, n, i)
        /\ Holds(Row1, n, d, i) /\ h \in shell.found => d \in helper[h].at
        /\ Born(Row1, n, d, i) => d \in helper[h].at
  BY <1>1 DEF Places, ChildPlaced
<1>3. \A d : /\ MayHold(Row1, n, d, i) => MayHold(Row1, n, d, i + 1)
             /\ Holds(Row1, n, d, i + 1) => Holds(Row1, n, d, i)
             /\ Born(Row1, n, d, i + 1) => Born(Row1, n, d, i)
  BY <1>0, <1>1, MayHoldNext, HoldsNext, BornNext DEF About
<1>4. Cloned(Row1, n, i) => Cloned(Row1, n, i + 1)
  BY <1>1, StartedNext
<1>5. /\ shell.found \subseteq shell'.found
      /\ \A d : Holds(Row1, n, d, i) /\ h \in shell'.found => h \in shell.found
  <2>1. CASE FindChild
    <3>1. shell'.found = shell.found \cup {g \in Whose : Lives(helper[g].child)} /\ At.op = "find"
      BY <2>1 DEF FindChild, Past, Runs, Typed, ShellType
    <3>2. About(At, {"find"}, n) => \A d : ~Holds(Row1, n, d, i)
      BY <1>1, OrderFacts
    <3>. QED
      BY <1>1, <3>1, <3>2 DEF About
  <2>2. CASE ListHelpers \/ Join \/ RunForking \/ FsLine \/ IdleLine
    <3>1. shell'.found = shell.found
      BY <2>2 DEF ListHelpers, Join, RunForking, Past, FsLine, IdleLine, SameKnow, Typed, ShellType
    <3>. QED
      BY <3>1
  <2>. QED
    BY <2>1, <2>2 DEF KnowLine
<1>6. helper'[h].child = "runs" => \A d \in Dirs :
        /\ d \in helper'[h].at =>
             /\ "threaded" \in excuses' \/ MayHold(Row1, n, d, i + 1)
             /\ h \in shell'.found \/ Cloned(Row1, n, i + 1)
        /\ Holds(Row1, n, d, i + 1) /\ h \in shell'.found => d \in helper'[h].at
        /\ Born(Row1, n, d, i + 1) => d \in helper'[h].at
  BY <1>0, <1>2, <1>3, <1>4, <1>5
<1>. QED
  BY <1>1, <1>6 DEF ChildPlaced, MayHold, Holds, Born, Cloned, Before, Present

(* A child is forked into the cgroup of its parent: into none, or not at   *)
(* all, or after its script has ended.                                     *)
LEMMA PlacedHelperStep ==
  ASSUME Typed, Numbers, Findings, Places, Refusals, NEW g \in Helpers, HelperStep(g)
  PROVE  Places'
<1>0. /\ shell' = shell /\ Row1' = Row1 /\ Running' = Running /\ excuses' = excuses
      /\ \A n \in 1..3 : Number(n)' = Number(n) /\ Number(n) \in Helpers /\ Number(n) \in Ours
  BY HelperStepKeeps, HelperNumbers
<1>1. ASSUME NEW h \in Helpers
      PROVE  /\ (helper'[h].home \cup helper'[h].at) \cap Empty = {}
             /\ helper[h].home = {} => helper'[h].home = {}
  BY HelperStepFields DEF Places, None
<1>2. ShellPlaced'
  BY <1>0 DEF Places, ShellPlaced, MayBeIn, IsIn, Before, Present
<1>3. ASSUME NEW n \in 1..3, helper'[Number(n)].child = "runs"
      PROVE  \A d \in Dirs :
               /\ Running /\ d \in helper'[Number(n)].at =>
                    /\ "threaded" \in excuses \/ MayHold(Row1, n, d, shell.pc)
                    /\ Number(n) \in shell.found \/ Cloned(Row1, n, shell.pc)
               /\ Holds(Row1, n, d, shell.pc) /\ Number(n) \in shell.found =>
                    d \in helper'[Number(n)].at
               /\ Born(Row1, n, d, shell.pc) => d \in helper'[Number(n)].at
  <2>. DEFINE h == Number(n)
  <2>0. h \in Helpers /\ h \in Ours
    BY <1>0
  <2>1. helper[h].child = "runs" => \A d \in Dirs :
          /\ Running /\ d \in helper[h].at =>
               /\ "threaded" \in excuses \/ MayHold(Row1, n, d, shell.pc)
               /\ h \in shell.found \/ Cloned(Row1, n, shell.pc)
          /\ Holds(Row1, n, d, shell.pc) /\ h \in shell.found => d \in helper[h].at
          /\ Born(Row1, n, d, shell.pc) => d \in helper[h].at
    BY DEF Places, ChildPlaced
  <2>2. CASE helper[h].child = "runs" /\ helper'[h].at = helper[h].at
    BY <2>1, <2>2
  <2>3. CASE /\ helper[h].parent = "runs" /\ Room(helper[h].home, 1)
             /\ helper'[h].at = helper[h].home
    <3>1. Running => helper[h].home = {}
      BY <2>0, <2>3, NoRoom DEF Places
    <3>2. h \notin shell.found
      BY <2>3 DEF Findings
    <3>3. ~Cloned(Row1, n, shell.pc)
      BY <2>3 DEF Numbers
    <3>4. \A d : Born(Row1, n, d, shell.pc) => Cloned(Row1, n, shell.pc)
      BY DEF Born, Cloned
    <3>. QED
      BY <2>3, <3>1, <3>2, <3>3, <3>4
  <2>. QED
    BY <1>3, <2>0, <2>2, <2>3, HelperStepFields DEF None
<1>4. \A n \in 1..3 :
        /\ Running /\ shell.script \notin Limiting => helper'[Number(n)].home = {}
        /\ helper'[Number(n)].child = "runs" => \A d \in Dirs :
             /\ Running /\ d \in helper'[Number(n)].at =>
                  /\ "threaded" \in excuses \/ MayHold(Row1, n, d, shell.pc)
                  /\ Number(n) \in shell.found \/ Cloned(Row1, n, shell.pc)
             /\ Holds(Row1, n, d, shell.pc) /\ Number(n) \in shell.found =>
                  d \in helper'[Number(n)].at
             /\ Born(Row1, n, d, shell.pc) => d \in helper'[Number(n)].at
  BY <1>0, <1>1, <1>3 DEF Places
<1>. QED
  BY <1>0, <1>1, <1>2, <1>4 DEF Places, ChildPlaced, MayHold, Holds, Born, Cloned, Before, Present

(* Between scripts nobody of the new script is anywhere.                   *)
LEMMA PlacedRest ==
  ASSUME Typed, Numbers, Places, Halts \/ Interrupt \/ NextScript
  PROVE  Places'
<1>0. /\ helper' = helper /\ shell'.pc = 1 /\ shell'.at = {} /\ shell'.found = {}
      /\ Running' => NextScript
  BY RestFacts DEF Rests, Running
<1>1. \A n, d : /\ ~MayBeIn(Row1', d, 1) /\ ~IsIn(Row1', d, 1) /\ ~MayHold(Row1', n, d, 1)
                /\ ~Holds(Row1', n, d, 1) /\ ~Born(Row1', n, d, 1)
  BY AtFirst
<1>2. ShellPlaced'
  BY <1>0, <1>1 DEF ShellPlaced, MayBeIn, IsIn, Before, Present
<1>3. ASSUME NEW n \in 1..3, Running'
      PROVE  helper'[Number(n)'] = None
  <2>1. /\ Numbers' /\ ~StartedAt(Row1', n, 1)
    BY NumbersRest, AtFirst
  <2>. QED
    BY <1>0, <1>3, <2>1 DEF Numbers, StartedAt, Before
<1>4. \A n \in 1..3 :
        /\ Running' /\ shell'.script \notin Limiting => helper'[Number(n)'].home = {}
        /\ ChildPlaced(n, Number(n))'
  BY <1>0, <1>1, <1>3 DEF None, ChildPlaced, MayHold, Holds, Born, Before, Present
<1>5. \A h \in Helpers : (helper'[h].home \cup helper'[h].at) \cap Empty = {}
  BY <1>0 DEF Places
<1>. QED
  BY <1>2, <1>4, <1>5 DEF Places

(* Every step keeps Places.                                                *)
LEMMA PlacesNext ==
  ASSUME Typed, Numbers, Findings, Places, Refusals, Directories, [Next]_vars
  PROVE  Places'
<1>1. CASE HelperLine
  <2>1. Advances /\ shell'.at = shell.at /\ At.op # "join"
    BY <1>1, LineOps DEF HelperLine, SameKnow
  <2>2. ShellPlaced'
    BY <2>1, ShellPlacedLine
  <2>3. /\ shell'.script = shell.script /\ \A n \in 1..3 : Number(n)' = Number(n)
    BY <2>1, LineKeeps
  <2>. QED
    BY <1>1, <2>2, <2>3, EmptyHelperLine, PlacedHelperLine DEF Places
<1>2. CASE KnowLine \/ FsLine \/ IdleLine
  <2>1. Advances /\ helper' = helper
    BY <1>2 DEF KnowLine, FsLine, IdleLine
  <2>2. ShellPlaced'
    <3>1. CASE Join
      BY <2>1, <3>1, ShellPlacedJoin
    <3>2. CASE FindChild \/ ListHelpers \/ RunForking \/ FsLine \/ IdleLine
      <4>1. shell'.at = shell.at
        BY <3>2 DEF FindChild, ListHelpers, RunForking, Past, FsLine, IdleLine, SameKnow,
           Typed, ShellType
      <4>2. At.op # "join"
        BY <3>2, LineOps DEF FindChild, ListHelpers, RunForking, Runs, IdleLine
      <4>. QED
        BY <2>1, <4>1, <4>2, ShellPlacedLine
    <3>. QED
      BY <1>2, <3>1, <3>2 DEF KnowLine
  <2>3. /\ shell'.script = shell.script /\ \A n \in 1..3 : Number(n)' = Number(n)
        /\ Running' = Running
    BY <2>1, LineKeeps
  <2>4. \A n \in 1..3 : ChildPlaced(n, Number(n))'
    BY <1>2, PlacedOtherLine
  <2>. QED
    BY <2>1, <2>2, <2>3, <2>4 DEF Places
<1>3. CASE Halts \/ Interrupt \/ NextScript
  BY <1>3, PlacedRest
<1>4. CASE \E g \in Helpers : HelperStep(g)
  BY <1>4, PlacedHelperStep
<1>5. CASE UNCHANGED vars
  <2>1. /\ shell' = shell /\ helper' = helper /\ Row1' = Row1 /\ Running' = Running
        /\ excuses' = excuses /\ \A n \in 1..3 : Number(n)' = Number(n)
    BY <1>5 DEF vars, Row1, Number, Running
  <2>2. ShellPlaced'
    BY <2>1 DEF Places, ShellPlaced, MayBeIn, IsIn, Before, Present
  <2>3. \A n \in 1..3 : ChildPlaced(n, Number(n))'
    BY <2>1 DEF Places, ChildPlaced, MayHold, Holds, Born, Cloned, Before, Present
  <2>. QED
    BY <2>1, <2>2, <2>3 DEF Places
<1>. QED
  BY <1>1, <1>2, <1>3, <1>4, <1>5, ShellGroups DEF Next

-----------------------------------------------------------------------------
(* Refusals: the limit, and who waits behind it.                           *)

(* In a cgroup that is full nothing can be forked.                         *)
LEMMA FullFacts ==
  ASSUME Typed, Places, Refusals, Running, Crowded(Row1, shell.pc)
  PROVE  /\ "Example" \in shell.at /\ ~Room(shell.at, 2)
         /\ \A h \in Helpers : Lives(helper[h].parent) /\ "Example" \in helper[h].home =>
              ~Room(shell.at, 1)
<1>1. "Example" \in Cgroups /\ "Example" \in Dirs
  BY LimitAssumption DEF Dirs
<1>2. "Example" \in shell.at /\ <<"Example", "limit">> \in fs.limits
  BY <1>1 DEF Crowded, Places, ShellPlaced, Refusals, Kinds
<1>3. /\ Population("Example") >= 1 /\ Population("Example") \in Nat
      /\ \A h \in Helpers : Lives(helper[h].parent) /\ "Example" \in helper[h].home =>
           Population("Example") >= 2
  BY <1>2, PopulationFacts
<1>. QED
  BY <1>2, <1>3 DEF Room

LimitsKept ==
  \A d \in Cgroups, kind \in Kinds :
    Limited(Row1, d, kind, shell.pc) => <<d, kind>> \in fs.limits

(* A limit stays until its directory is removed.                           *)
LEMMA LimitsLine ==
  ASSUME Typed, Refusals, Directories, HelperLine \/ KnowLine \/ FsLine \/ IdleLine
  PROVE  LimitsKept'
<1>. DEFINE i == shell.pc
<1>0. /\ Row1' = Row1 /\ shell'.pc = i + 1 /\ i \in Nat \ {0} /\ Row1[i] = At
      /\ Advances /\ i <= Len(Row1)
  BY LineKeeps DEF HelperLine, KnowLine, FsLine, IdleLine
<1>1. SUFFICES ASSUME NEW d \in Cgroups, NEW kind \in Kinds, Limited(Row1, d, kind, i + 1)
               PROVE  <<d, kind>> \in fs'.limits
  BY <1>0 DEF LimitsKept, Limited, Before, Present
<1>2. CASE Limited(Row1, d, kind, i) /\ ~Removes(At, d)
  <2>1. <<d, kind>> \in fs.limits
    BY <1>2 DEF Refusals
  <2>2. CASE RemoveDirs
    <3>1. d \notin At.on
      BY <1>2, <2>2 DEF RemoveDirs, Runs, Removes
    <3>2. PICK gone \in SUBSET At.on :
            fs' = [fs EXCEPT !.dirs = @ \ gone, !.frozen = @ \ gone,
                             !.threaded = @ \ gone,
                             !.limits = {l \in @ : l[1] \notin gone}]
      BY <2>2 DEF RemoveDirs
    <3>3. fs'.limits = {l \in fs.limits : l[1] \notin gone}
      BY <3>2 DEF Typed, FsType
    <3>. QED
      BY <2>1, <3>1, <3>3
  <2>3. CASE ~RemoveDirs
    <3>1. fs.limits \subseteq fs'.limits
      <4>1. CASE FsLine
        BY <2>3, <4>1 DEF FsLine, MakeDir, TryDir, SkipTry, Mount, Umount, Rename, Freeze, Thaw,
           MakeThreaded, SetLimit, CpuHotplug, Typed, FsType
      <4>2. CASE HelperLine \/ KnowLine \/ IdleLine
        BY <4>2 DEF HelperLine, KnowLine, IdleLine
      <4>. QED
        BY <4>1, <4>2
    <3>. QED
      BY <2>1, <3>1
  <2>. QED
    BY <2>2, <2>3
<1>3. CASE At.op = kind /\ d \in At.on /\ Present(Row1, d, i)
  <2>1. d \in fs.dirs
    BY <1>3 DEF Directories, Dirs
  <2>2. FsLine
    BY <1>3, LineOps DEF Kinds, IdleLine
  <2>3. SetLimit
    BY <1>3, <2>2 DEF FsLine, MakeDir, TryDir, SkipTry, RemoveDirs, Mount, Umount, Rename,
       Freeze, Thaw, MakeThreaded, CpuHotplug, Runs, Kinds
  <2>4. fs'.limits = fs.limits \cup ((At.on \cap fs.dirs) \X {kind})
    BY <1>3, <2>3 DEF SetLimit, Runs, Typed, FsType
  <2>. QED
    BY <1>3, <2>1, <2>4
<1>. QED
  BY <1>0, <1>1, <1>2, <1>3, LimitedNext

Refused ==
  shell.script \in Limiting /\ shell.status # "ended-early" =>
    /\ ~shell.forked
    /\ \A h \in Ours :
         \/ helper[h] = None
         \/ /\ Running /\ shell.pc \in DOMAIN Row1 /\ Row1[shell.pc].op = "find"
            /\ Crowded(Row1, shell.pc)
            /\ helper[h].parent = "runs" /\ "Example" \in helper[h].home

(* Only pgrep follows a start in a full cgroup, and it finds no room.      *)
LEMMA RefusedLine ==
  ASSUME Typed, Places, Refusals, HelperLine \/ KnowLine \/ FsLine \/ IdleLine
  PROVE  Refused'
<1>. DEFINE i == shell.pc
<1>0. /\ Row1' = Row1 /\ shell'.pc = i + 1 /\ i \in Nat \ {0} /\ Row1[i] = At /\ Running /\ Running'
      /\ Advances /\ i <= Len(Row1) /\ i \in DOMAIN Row1 /\ Ours' = Ours
      /\ shell'.script = shell.script
      /\ Row1 = Code(shell.script) /\ shell.script \in Scripts
      /\ \A h \in Ours : h \in Helpers
  BY LineKeeps, RowFacts, HelperNumbers DEF HelperLine, KnowLine, FsLine, IdleLine
<1>1. SUFFICES ASSUME shell.script \in Limiting
               PROVE  /\ ~shell'.forked
                      /\ \A h \in Ours :
                           \/ helper'[h] = None
                           \/ /\ i + 1 \in DOMAIN Row1 /\ Row1[i + 1].op = "find"
                              /\ Crowded(Row1, i + 1)
                              /\ helper'[h].parent = "runs" /\ "Example" \in helper'[h].home
  <2>1. Crowded(Row1, shell.pc)' <=> Crowded(Row1, i + 1)
    BY <1>0 DEF Crowded, IsIn, Limited, Before, Present
  <2>. QED
    BY <1>0, <2>1 DEF Refused
<1>2. /\ ~shell.forked
      /\ \A h \in Ours :
           \/ helper[h] = None
           \/ /\ At.op = "find" /\ Crowded(Row1, i)
              /\ helper[h].parent = "runs" /\ "Example" \in helper[h].home
  BY <1>0, <1>1 DEF Refusals, Running
<1>3. \A h \in Ours : helper[h] = None
  <2>1. CASE At.op # "find"
    BY <1>2, <2>1
  <2>2. CASE At.op = "find"
    <3>1. FindChild
      BY <2>2, LineOps DEF KnowLine, ListHelpers, Join, RunForking, Runs, IdleLine
    <3>2. Room(shell.at, 1)
      BY <3>1 DEF FindChild
    <3>. QED
      BY <1>0, <1>2, <3>2, FullFacts DEF Lives
  <2>. QED
    BY <2>1, <2>2
<1>4. ~shell'.forked
  <2>1. CASE RunForking /\ KnowLine
    <3>1. Crowded(Row1, i)
      BY <1>0, <1>1, <2>1, LimitAssumption DEF RunForking, Runs
    <3>2. shell'.forked = (shell.forked \/ Room(shell.at, 2))
      BY <2>1 DEF RunForking, Past, Typed, ShellType
    <3>. QED
      BY <1>0, <1>2, <3>1, <3>2, FullFacts
  <2>2. CASE HelperLine \/ FsLine \/ IdleLine
    BY <1>2, <2>2 DEF HelperLine, FsLine, IdleLine, SameKnow
  <2>3. CASE FindChild \/ ListHelpers \/ Join
    BY <1>2, <2>3 DEF FindChild, ListHelpers, Join, Past, Typed, ShellType
  <2>. QED
    BY <2>1, <2>2, <2>3 DEF KnowLine
<1>5. ASSUME NEW h \in Ours, helper'[h] # None
      PROVE  /\ i + 1 \in DOMAIN Row1 /\ Row1[i + 1].op = "find" /\ Crowded(Row1, i + 1)
             /\ helper'[h].parent = "runs" /\ "Example" \in helper'[h].home
  <2>1. HelperLine
    BY <1>3, <1>5 DEF KnowLine, FsLine, IdleLine
  <2>2. At.op # "clone"
    BY <1>0, <1>1, LimitAssumption
  <2>3. Begins(h)
    <3>1. h \in Helpers /\ helper[h] = None
      BY <1>0, <1>3
    <3>2. ~IsBorn(h) /\ ~IsPut(h) /\ ~Weakened(h)
      BY <1>5, <2>2, <3>1 DEF IsBorn, IsPut, Weakened, None, Lives
    <3>. QED
      BY <1>5, <2>1, <3>1, <3>2, HelperMoves
  <2>4. /\ Crowded(Row1, i) /\ i + 1 \in DOMAIN Row1 /\ Row1[i + 1].op = "find"
        /\ Crowded(Row1, i + 1)
    BY <1>0, <1>1, <2>3, LimitAssumption DEF Begins
  <2>5. "Example" \in shell.at
    BY <1>0, <2>4, FullFacts
  <2>. QED
    BY <2>3, <2>4, <2>5 DEF Begins
<1>. QED
  BY <1>4, <1>5

(* A script that ends, or begins, has no helper waiting.                   *)
LEMMA RefusedRest ==
  ASSUME Typed, Numbers, Refusals, Halts \/ Interrupt \/ NextScript
  PROVE  Refused'
<1>0. /\ helper' = helper /\ shell'.pc = 1
  BY RestFacts DEF Rests
<1>1. CASE Halts \/ Interrupt
  <2>0. /\ shell'.script = shell.script /\ shell'.round = shell.round
        /\ shell'.forked = shell.forked
    BY <1>1, RestFacts
  <2>1. CASE shell' = Ended("ended-early")
    BY <2>1 DEF Refused, Ended, Fresh
  <2>2. CASE shell.pc = End(Row1) /\ Running
    <3>1. shell.pc \notin DOMAIN Row1 /\ shell.status # "ended-early"
      BY <2>2, RowFacts DEF End, Running
    <3>2. Ours' = Ours
      BY <2>0 DEF Ours, Number
    <3>. QED
      BY <1>0, <2>0, <3>1, <3>2 DEF Refused, Refusals
  <2>. QED
    BY <1>1, <2>1, <2>2 DEF Halts, Interrupt, EndsEarly
<1>2. CASE NextScript
  <2>1. /\ shell'.forked = FALSE /\ Running' /\ Numbers'
    BY <1>2, RestFacts, NumbersRest DEF Running
  <2>2. \A n \in 1..3 : ~StartedAt(Row1', n, 1)
    BY AtFirst
  <2>3. \A n \in 1..3 : helper'[Number(n)'] = None
    BY <1>0, <2>1, <2>2 DEF Numbers, StartedAt, Before
  <2>4. \A h \in Ours' : helper'[h] = None
    BY <2>3 DEF Ours
  <2>. QED
    BY <2>1, <2>4 DEF Refused
<1>. QED
  BY <1>1, <1>2

(* Every step keeps Refusals.                                              *)
LEMMA RefusalsNext ==
  ASSUME Typed, Numbers, Places, Refusals, Directories, [Next]_vars
  PROVE  Refusals'
<1>0. Refusals' <=> LimitsKept' /\ Refused'
  BY DEF Refusals, LimitsKept, Refused
<1>1. CASE HelperLine \/ KnowLine \/ FsLine \/ IdleLine
  BY <1>0, <1>1, LimitsLine, RefusedLine
<1>2. CASE Halts \/ Interrupt \/ NextScript
  <2>1. shell'.pc = 1 /\ \A d, kind : ~Limited(Row1', d, kind, 1)
    BY <1>2, RestFacts, AtFirst DEF Rests
  <2>2. LimitsKept'
    BY <2>1 DEF LimitsKept, Limited, Before, Present
  <2>. QED
    BY <1>0, <1>2, <2>2, RefusedRest
<1>3. ASSUME NEW g \in Helpers, HelperStep(g) PROVE Refusals'
  <2>1. /\ shell' = shell /\ fs' = fs /\ Row1' = Row1 /\ Running' = Running /\ Ours' = Ours
        /\ \A h \in Ours : h \in Helpers
    BY <1>3, HelperStepKeeps, HelperNumbers
  <2>2. ASSUME shell.script \in Limiting, shell.status # "ended-early", NEW h \in Ours
        PROVE  helper'[h] = None \/ helper'[h] = helper[h]
    <3>1. CASE helper[h] = None
      <4>1. h # g
        BY <1>3, <3>1, HelperStepMoves
      <4>. QED
        BY <1>3, <2>1, <4>1, HelperStepMoves
    <3>2. CASE Running /\ helper[h].parent = "runs"
      <4>1. ~Room(helper[h].home, 1)
        BY <2>2, <3>2, NoRoom
      <4>2. helper[h].child = "none"
        BY <2>1, <3>2 DEF Numbers
      <4>. QED
        BY <1>3, <2>1, <3>2, <4>1, <4>2, HelperStepFields
    <3>. QED
      BY <2>2, <3>1, <3>2 DEF Refusals
  <2>3. Refused'
    BY <2>1, <2>2 DEF Refusals, Refused, Crowded, IsIn, Limited, Before, Present
  <2>4. LimitsKept'
    BY <2>1 DEF Refusals, LimitsKept, Limited, Before, Present
  <2>. QED
    BY <1>0, <2>3, <2>4
<1>4. CASE UNCHANGED vars
  <2>1. /\ shell' = shell /\ fs' = fs /\ helper' = helper /\ Row1' = Row1 /\ Running' = Running
        /\ Ours' = Ours
    BY <1>4 DEF vars, Row1, Ours, Number, Running
  <2>. QED
    BY <2>1 DEF Refusals, Crowded, IsIn, Limited, Before, Present
<1>. QED
  BY <1>1, <1>2, <1>3, <1>4, ShellGroups DEF Next

-----------------------------------------------------------------------------
(* Directories: what is there and what is not.                             *)

(* A line changes the directories it names.                                *)
LEMMA DirsChange ==
  ASSUME Typed, FsLine
  PROVE  /\ \A d \in fs'.dirs \ fs.dirs : Adds(At, d)
         /\ \A d \in fs.dirs \ fs'.dirs : Removes(At, d)
         /\ At.op = "make" => Dir \in fs'.dirs
         /\ At.op \in {"try", "try-if-made"} /\ ~Allowed(Dir) => fs'.dirs = fs.dirs
<1>0. /\ fs.dirs \subseteq Dirs /\ fs \in FsType
      /\ At.op \in OneDir => At.on = {Dir}
  <2>1. shell.pc <= Len(Row1)
    BY LineKeeps DEF FsLine
  <2>. QED
    BY <2>1, LineFacts DEF Typed, FsType
<1>1. CASE MakeDir
  <2>1. fs'.dirs = fs.dirs \cup {Dir} \cup {Parent[d] : d \in {Dir} \cap DOMAIN Parent}
    BY <1>0, <1>1 DEF MakeDir, FsType
  <2>2. At.op = "make" /\ At.on = {Dir}
    BY <1>0, <1>1 DEF MakeDir, Runs, OneDir
  <2>. QED
    BY <2>1, <2>2 DEF Adds
<1>2. CASE TryDir \/ SkipTry
  <2>1. /\ At.op \in {"try", "try-if-made"} /\ At.on = {Dir}
        /\ fs'.dirs = IF TryDir /\ Allowed(Dir) THEN fs.dirs \cup {Dir} ELSE fs.dirs
    <3>1. At.op \in {"try", "try-if-made"} /\ At.on = {Dir}
      BY <1>0, <1>2 DEF TryDir, SkipTry, Runs, OneDir
    <3>2. CASE TryDir
      BY <1>0, <3>1, <3>2 DEF TryDir, FsType
    <3>3. CASE SkipTry
      <4>1. ~TryDir
        BY <3>3 DEF SkipTry, TryDir, Runs
      <4>. QED
        BY <3>1, <3>3, <4>1 DEF SkipTry
    <3>. QED
      BY <1>2, <3>2, <3>3
  <2>. QED
    BY <2>1 DEF Adds
<1>3. CASE RemoveDirs
  <2>1. PICK gone \in SUBSET At.on :
          fs' = [fs EXCEPT !.dirs = @ \ gone, !.frozen = @ \ gone,
                           !.threaded = @ \ gone,
                           !.limits = {l \in @ : l[1] \notin gone}]
    BY <1>3 DEF RemoveDirs
  <2>2. fs'.dirs = fs.dirs \ gone
    BY <1>0, <2>1 DEF FsType
  <2>. QED
    BY <1>3, <2>2 DEF RemoveDirs, Runs, Removes
<1>4. CASE Rename
  <2>1. At.op = "rename" /\ At.on = {Dir}
    BY <1>0, <1>4 DEF Rename, Runs, OneDir
  <2>2. fs'.dirs \in {fs.dirs, (fs.dirs \ {Dir}) \cup {"memory/Example2"}}
    BY <1>0, <1>4 DEF Rename, FsType
  <2>. QED
    BY <2>1, <2>2 DEF Adds, Removes
<1>5. CASE Mount \/ Umount \/ Freeze \/ Thaw \/ MakeThreaded \/ SetLimit \/ CpuHotplug
  <2>1. fs'.dirs = fs.dirs
    BY <1>0, <1>5 DEF Mount, Umount, Freeze, Thaw, MakeThreaded, SetLimit, CpuHotplug, FsType
  <2>2. At.op \notin {"make", "try", "try-if-made"}
    BY <1>5 DEF Mount, Umount, Freeze, Thaw, MakeThreaded, SetLimit, CpuHotplug, Runs
  <2>. QED
    BY <2>1, <2>2
<1>. QED
  BY <1>1, <1>2, <1>3, <1>4, <1>5 DEF FsLine

(* What rmdir leaves, and why.                                             *)
Left == {d \in At.on \cap fs.dirs :
           Population(d) > 0 \/ Below(d) # {} \/ (d \in Plain /\ fs.mounts[d] > 0)}

(* What is left has been left for another's sake, and is not one of the    *)
(* cgroups nobody enters.                                                  *)
LEMMA RemoveFacts ==
  ASSUME Typed, Numbers, Places, Refusals, Directories, RemoveDirs, Running,
         shell.pc \in DOMAIN Row1
  PROVE  /\ fs'.dirs = fs.dirs \ (At.on \ Left)
         /\ "occupied" \in excuses' => "threaded" \in excuses'
         /\ Left # {} => ~(excuses' \subseteq {"missed"})
         /\ Left \cap Empty = {}
<1>. DEFINE i == shell.pc
<1>0. /\ At.op = "remove" /\ At = Row1[i] /\ Row1 = Code(shell.script) /\ shell.script \in Scripts
      /\ i \in DOMAIN Row1 /\ Named = Names(Row1)
      /\ \A h \in Ours : h \in Helpers /\ \E n \in 1..3 : h = Number(n)
  BY RowFacts, HelperNumbers DEF RemoveDirs, Runs, At, Named, Names
<1>1. /\ fs \in FsType /\ shell.at \subseteq Dirs /\ fs.dirs \subseteq Dirs /\ shell.at \cap Empty = {}
      /\ \A h \in Helpers : (helper[h].home \cup helper[h].at) \cap Empty = {}
  BY DEF Typed, ShellType, FsType, Places, ShellPlaced
<1>2. \A d \in At.on :
        /\ ~MayBeIn(Row1, d, i)
        /\ shell.script \in Limiting \/ \A n \in 1..3 : ~MayHold(Row1, n, d, i)
        /\ \A e \in Names(Row1) \ (Plain \cup {Deep}) :
             e \in DOMAIN Parent /\ Parent[e] = d => e \in Empty /\ Cleared(Row1, e, i)
  BY <1>0, RemoveAssumption
<1>3. shell.at \cap Left = {}
  BY <1>1, <1>2 DEF Places, ShellPlaced, Left
<1>4. ASSUME NEW h \in Ours, "threaded" \notin excuses
      PROVE  /\ ~(helper[h].child = "runs" /\ helper[h].at \cap Left # {})
             /\ ~(helper[h].parent \in {"runs", "waits"} /\ helper[h].home \cap Left # {})
  <2>1. CASE shell.script \in Limiting
    <3>1. helper[h] = None
      BY <1>0, <2>1 DEF Refusals, Running
    <3>. QED
      BY <3>1 DEF None
  <2>2. CASE shell.script \notin Limiting
    <3>1. PICK n \in 1..3 : h = Number(n)
      BY <1>0
    <3>2. helper[h].home = {}
      BY <2>2, <3>1 DEF Places
    <3>3. helper[h].child = "runs" => \A d \in Dirs : d \in helper[h].at => MayHold(Row1, n, d, i)
      BY <1>4, <3>1 DEF Places, ChildPlaced
    <3>. QED
      BY <1>1, <1>2, <2>2, <3>2, <3>3 DEF Left
  <2>. QED
    BY <2>1, <2>2
<1>5. ASSUME NEW d \in Left PROVE (Below(d) \cap Named) \ Plain = {}
  <2>1. SUFFICES ASSUME NEW e \in (Below(d) \cap Named) \ Plain PROVE FALSE
    OBVIOUS
  <2>2. e \in fs.dirs /\ e \in DOMAIN Parent /\ Parent[e] = d
    BY DEF Below
  <2>3. e # Deep
    BY <2>2 DEF Directories
  <2>4. e \in Empty /\ Cleared(Row1, e, i)
    BY <1>0, <1>2, <2>2, <2>3 DEF Left
  <2>. QED
    BY <1>1, <2>2, <2>4 DEF Directories
<1>6. (\/ shell.at \cap Left # {}
       \/ \E h \in Ours :
            \/ helper[h].child = "runs" /\ helper[h].at \cap Left # {}
            \/ helper[h].parent \in {"runs", "waits"} /\ helper[h].home \cap Left # {}
       \/ \E d \in Left : (Below(d) \cap Named) \ Plain # {})
      => "threaded" \in excuses
  BY <1>3, <1>4, <1>5
<1>7. /\ fs' = [fs EXCEPT !.dirs = @ \ ((At.on \cap fs.dirs) \ Left),
                          !.frozen = @ \ ((At.on \cap fs.dirs) \ Left),
                          !.threaded = @ \ ((At.on \cap fs.dirs) \ Left),
                          !.limits = {l \in @ : l[1] \notin (At.on \cap fs.dirs) \ Left}]
      /\ \/ Left = {} /\ excuses' = excuses
         \/ /\ Left # {}
            /\ \E why \in {"occupied", "raced", "left-over"} :
                 /\ excuses' = excuses \cup {why}
                 /\ why = "occupied" => "threaded" \in excuses
  BY <1>6 DEF RemoveDirs, Left
<1>8. fs'.dirs = fs.dirs \ ((At.on \cap fs.dirs) \ Left)
  BY <1>1, <1>7 DEF FsType
<1>9. ASSUME NEW d \in Left, d \in Empty PROVE FALSE
  <2>1. ~(Population(d) > 0)
    BY <1>1, <1>9, PopulationFacts
  <2>2. Below(d) = {}
    <3>1. \A e \in Below(d) : e = Deep /\ e \in fs.dirs
      BY <1>9, EmptyAssumption DEF Below
    <3>. QED
      BY <3>1 DEF Directories
  <2>3. d \notin Plain
    BY <1>9, EmptyAssumption
  <2>. QED
    BY <2>1, <2>2, <2>3 DEF Left
<1>10. "occupied" \in excuses => "threaded" \in excuses
  BY DEF Directories, OwnGroupsEmptied
<1>. QED
  BY <1>7, <1>8, <1>9, <1>10

(* A line makes and removes the directories it names.                      *)
LEMMA DirectoriesLine ==
  ASSUME Typed, Numbers, Places, Refusals, Directories,
         HelperLine \/ KnowLine \/ FsLine \/ IdleLine
  PROVE  Directories'
<1>. DEFINE i == shell.pc
<1>0. /\ Row1' = Row1 /\ shell'.pc = i + 1 /\ i \in Nat \ {0} /\ Row1[i] = At /\ Running /\ Running'
      /\ Advances /\ i \in DOMAIN Row1 /\ system' = system /\ i <= Len(Row1)
      /\ Row1 = Code(shell.script) /\ shell.script \in Scripts /\ excuses \subseteq excuses'
      /\ StepOK(At)
  BY LineKeeps, LineFacts, ExcusesGrow, RowFacts DEF HelperLine, KnowLine, FsLine, IdleLine
<1>1. /\ \A d \in fs'.dirs \ fs.dirs : Adds(At, d)
      /\ \A d \in fs.dirs \ fs'.dirs : Removes(At, d)
      /\ FsLine \/ fs' = fs
  BY DirsChange DEF HelperLine, KnowLine, IdleLine
<1>2. system = "v2" => "root" \in fs'.dirs
  <2>1. "root" \in Base
    BY DEF Base
  <2>2. ~Removes(At, "root")
    BY <1>0, <2>1 DEF StepOK, Removes
  <2>. QED
    BY <1>1, <2>2 DEF Directories
<1>3. Deep \notin fs'.dirs
  <2>1. Deep \notin fs.dirs
    BY DEF Directories
  <2>2. ASSUME Deep \in fs'.dirs PROVE FALSE
    <3>1. Adds(At, Deep) /\ FsLine
      BY <1>1, <2>1, <2>2
    <3>2. At.op \in {"try", "try-if-made"} /\ Limited(Row1, "Example3", "depth", i)
      BY <1>0, <3>1, DirsAssumption
    <3>3. <<"Example3", "depth">> \in fs.limits
      BY <3>2, DirsAssumption DEF Refusals, Kinds
    <3>4. Dir = Deep
      BY <1>0, <3>1, <3>2, LineFacts DEF Adds, OneDir
    <3>5. ~Allowed(Dir)
      BY <3>3, <3>4 DEF Allowed, Deep
    <3>. QED
      BY <2>1, <2>2, <3>1, <3>2, <3>5, DirsChange
  <2>. QED
    BY <2>2
<1>4. OwnGroupsEmptied'
  <2>1. CASE RemoveDirs
    BY <1>0, <2>1, RemoveFacts DEF OwnGroupsEmptied
  <2>2. CASE ~RemoveDirs
    <3>1. excuses' \subseteq excuses \cup {"missed", "refused", "threaded"}
      <4>1. CASE HelperLine
        BY <4>1 DEF HelperLine, StartHelper, KillFound, KillGroup, KillListed, PutChild, CloneInto
      <4>2. CASE KnowLine
        BY <4>2 DEF KnowLine, FindChild, ListHelpers, Join, RunForking
      <4>3. CASE FsLine
        BY <2>2, <4>3 DEF FsLine, MakeDir, TryDir, SkipTry, Mount, Umount, Rename, Freeze, Thaw,
           MakeThreaded, SetLimit, CpuHotplug
      <4>4. CASE IdleLine
        BY <4>4 DEF IdleLine
      <4>. QED
        BY <4>1, <4>2, <4>3, <4>4
    <3>. QED
      BY <1>0, <3>1 DEF Directories, OwnGroupsEmptied
  <2>. QED
    BY <2>1, <2>2
<1>5. ASSUME NEW d \in Dirs, Present(Row1, d, i + 1) PROVE d \in fs'.dirs
  <2>1. CASE Present(Row1, d, i) /\ ~Removes(At, d)
    BY <1>1, <2>1 DEF Directories
  <2>2. CASE At.op = "make" /\ d \in At.on
    <3>1. FsLine
      BY <2>2, LineOps DEF IdleLine
    <3>. QED
      BY <1>0, <2>2, <3>1, DirsChange, LineFacts DEF OneDir
  <2>3. CASE At.op = "guard" /\ d \in At.on
    <3>1. IdleLine
      BY <2>3, LineOps
    <3>. QED
      BY <1>0, <2>3, <3>1, LineFacts DEF IdleLine, OneDir
  <2>. QED
    BY <1>0, <1>5, <2>1, <2>2, <2>3, PresentNext
<1>6. ASSUME NEW d \in Dirs, Cleared(Row1, d, i + 1), d \in Empty \/ excuses' \subseteq {"missed"}
      PROVE  d \notin fs'.dirs
  <2>1. CASE Cleared(Row1, d, i) /\ ~Adds(At, d)
    BY <1>0, <1>1, <1>6, <2>1 DEF Directories
  <2>2. CASE At.op = "remove" /\ d \in At.on
    <3>1. FsLine
      BY <2>2, LineOps DEF IdleLine
    <3>2. RemoveDirs
      BY <2>2, <3>1 DEF FsLine, MakeDir, TryDir, SkipTry, Mount, Umount, Rename, Freeze, Thaw,
           MakeThreaded, SetLimit, CpuHotplug, Runs
    <3>3. d \notin Left
      BY <1>0, <1>6, <3>2, RemoveFacts
    <3>. QED
      BY <1>0, <2>2, <3>2, <3>3, RemoveFacts
  <2>3. CASE At.op = "rename" /\ d \in At.on
    <3>1. FsLine
      BY <2>3, LineOps DEF IdleLine
    <3>2. Rename
      BY <2>3, <3>1 DEF FsLine, MakeDir, TryDir, SkipTry, RemoveDirs, Mount, Umount, Freeze, Thaw,
           MakeThreaded, SetLimit, CpuHotplug, Runs
    <3>3. d = Dir
      BY <1>0, <2>3, LineFacts DEF OneDir
    <3>4. "memory/Example2" \in Dirs /\ Cleared(Row1, "memory/Example2", i) /\ d \notin Empty
      BY <1>0, <2>3, EmptyAssumption, DirsAssumption
    <3>5. "memory/Example2" \notin fs.dirs
      BY <1>0, <1>6, <3>4 DEF Directories
    <3>6. Dir \in fs.dirs => fs'.dirs = (fs.dirs \ {Dir}) \cup {"memory/Example2"}
      BY <3>2, <3>5 DEF Rename, Typed, FsType
    <3>7. Dir \notin fs.dirs => fs'.dirs = fs.dirs
      BY <3>2 DEF Rename
    <3>. QED
      BY <3>3, <3>5, <3>6, <3>7
  <2>. QED
    BY <1>0, <1>6, <2>1, <2>2, <2>3, ClearedNext DEF Removes
<1>7. shell'.status # "done"
  BY <1>0 DEF Running
<1>8. \A d \in Dirs :
        /\ Present(Row1, d, i + 1) => d \in fs'.dirs
        /\ Cleared(Row1, d, i + 1) /\ (d \in Empty \/ excuses' \subseteq {"missed"}) =>
             d \notin fs'.dirs
  BY <1>5, <1>6
<1>. QED
  BY <1>0, <1>2, <1>3, <1>4, <1>7, <1>8 DEF Directories, Present, Cleared, Before

(* Every step keeps Directories.                                           *)
LEMMA DirectoriesNext ==
  ASSUME Typed, Numbers, Places, Refusals, Directories, [Next]_vars
  PROVE  Directories'
<1>1. CASE HelperLine \/ KnowLine \/ FsLine \/ IdleLine
  BY <1>1, DirectoriesLine
<1>2. CASE Halts \/ Interrupt \/ NextScript
  <2>1. /\ fs' = fs /\ system' = system /\ shell'.pc = 1
    BY <1>2, RestFacts DEF Rests
  <2>2. \A d : ~Present(Row1', d, 1) /\ ~Cleared(Row1', d, 1)
    BY AtFirst
  <2>3. OwnGroupsEmptied'
    BY <1>2 DEF Halts, Interrupt, EndsEarly, NextScript, Directories, OwnGroupsEmptied
  <2>4. ASSUME shell'.status = "done", excuses' \subseteq {"missed"}
        PROVE  Named' \cap fs.dirs \subseteq Kept
    <3>1. Halts /\ shell.pc = End(Row1) /\ excuses' = excuses
      BY <1>2, <2>4 DEF Halts, Interrupt, EndsEarly, NextScript, Ended, Fresh
    <3>2. Row1' = Row1
      BY <3>1, RestFacts
    <3>3. Named' = Names(Row1) /\ Row1 = Code(shell.script) /\ shell.script \in Scripts
      BY <3>2, RowFacts DEF Named, Names
    <3>4. ASSUME NEW d \in Names(Row1) \cap fs.dirs PROVE d \in Kept
      <4>1. d \in Dirs /\ d # Deep
        BY DEF Typed, FsType, Directories
      <4>2. d \in Kept \/ Cleared(Row1, d, shell.pc)
        BY <3>1, <3>3, <4>1, DirsAssumption
      <4>. QED
        BY <2>4, <3>1, <4>1, <4>2 DEF Directories
    <3>. QED
      BY <3>3, <3>4
  <2>. QED
    BY <2>1, <2>2, <2>3, <2>4 DEF Directories, Present, Cleared, Before
<1>3. ASSUME NEW g \in Helpers, HelperStep(g) PROVE Directories'
  <2>1. /\ UNCHANGED <<system, shell, fs, excuses>> /\ Row1' = Row1
    BY <1>3, HelperStepKeeps
  <2>. QED
    BY <2>1 DEF Directories, OwnGroupsEmptied, Named, Present, Cleared, Before
<1>4. CASE UNCHANGED vars
  <2>1. /\ UNCHANGED <<system, shell, fs, excuses>> /\ Row1' = Row1
    BY <1>4 DEF vars, Row1
  <2>. QED
    BY <2>1 DEF Directories, OwnGroupsEmptied, Named, Present, Cleared, Before
<1>. QED
  BY <1>1, <1>2, <1>3, <1>4, ShellGroups DEF Next

-----------------------------------------------------------------------------
(* Killings: what has been killed forks no more and runs no more.          *)

(* No line wakes a quiet helper, but that which starts it.                 *)
LEMMA QuietLine ==
  ASSUME Typed, HelperLine, NEW h \in Helpers, ~(At.op \in {"start", "clone"} /\ h \in Whose)
  PROVE  /\ Quiet(h) => Quiet(h)'
         /\ helper'[h].parent = "runs" => helper[h].parent = "runs"
         /\ helper'[h].parent = "waits" => helper[h].parent = "waits"
         /\ helper'[h].child = "runs" => helper[h].child = "runs"
         /\ helper'[h].parent = "clone" <=> helper[h].parent = "clone"
<1>0. helper[h] \in RecType
  BY RecFacts
<1>1. CASE IsPut(h)
  BY <1>0, <1>1 DEF IsPut, Quiet, RecType
<1>2. CASE Weakened(h)
  BY <1>0, <1>2 DEF Weakened, Quiet
<1>3. CASE helper'[h] = helper[h]
  BY <1>3 DEF Quiet
<1>. QED
  BY <1>1, <1>2, <1>3, HelperMoves DEF Begins, IsBorn

(* No helper wakes itself.                                                 *)
LEMMA QuietStep ==
  ASSUME Typed, Numbers, NEW g \in Helpers, HelperStep(g), NEW h \in Helpers
  PROVE  /\ Quiet(h) => Quiet(h)'
         /\ helper'[h].parent \in {"runs", "waits"} => helper[h].parent \in {"runs", "waits"}
         /\ h \in Forked' => h \in Forked \/ Quiet(h)'
BY HelperStepFields DEF Quiet, None, Forked

(* What the kills of this script have hit.                                 *)
Hit(n, i) == KilledAt(Row1, n, i) \/ KilledWith(Row1, n, i)

(* What is killed by its number or with its cgroup is quiet from then on.  *)
LEMMA HitLine ==
  ASSUME Typed, Numbers, Findings, Places, Killings,
         HelperLine \/ KnowLine \/ FsLine \/ IdleLine,
         excuses' \cap {"missed", "threaded"} = {}, NEW n \in 1..3, Hit(n, shell.pc + 1)
  PROVE  Quiet(Number(n))'
<1>. DEFINE i == shell.pc
            h == Number(n)
<1>0. /\ i \in Nat \ {0} /\ Row1[i] = At /\ Running /\ i \in DOMAIN Row1 /\ i <= Len(Row1)
      /\ h \in Helpers /\ (h \in Whose <=> n \in At.who)
      /\ Row1 = Code(shell.script) /\ shell.script \in Scripts /\ excuses \subseteq excuses'
      /\ Number(n)' = Number(n)
      /\ Len(Row1) \in Nat /\ DOMAIN Row1 = 1..Len(Row1)
  BY LineKeeps, RowFacts, ExcusesGrow, HelperNumbers DEF HelperLine, KnowLine, FsLine, IdleLine
<1>1. /\ Hit(n, i) => Quiet(h)
      /\ FoundAt(Row1, n, i) => h \in shell.found /\ helper[h].parent # "runs"
      /\ Cloned(Row1, n, i) => helper[h].parent # "runs"
  BY <1>0 DEF Killings, Hit, Findings, Numbers
<1>2. FoundAt(Row1, n, i + 1) <=> FoundAt(Row1, n, i) \/ About(At, {"find"}, n)
  BY <1>0, StartedNext
<1>3. ~Starts(At, n)
  <2>1. SUFFICES ASSUME Starts(At, n) PROVE FALSE
    OBVIOUS
  <2>2. ~FoundAt(Row1, n, i) /\ ~StartedAt(Row1, n, i)
    BY <1>0, <2>1, OrderFacts
  <2>3. ~FoundAt(Row1, n, i + 1)
    BY <1>2, <2>1, <2>2 DEF Starts, About
  <2>4. KilledWith(Row1, n, i)
    BY <1>0, <2>1, <2>3, KilledNext, KilledWithNext DEF Hit, Starts, About
  <2>5. PICK j \in Before(i) : (\E d : Born(Row1, n, d, j)) \/ FoundAt(Row1, n, j)
    BY <2>4 DEF KilledWith
  <2>6. StartedAt(Row1, n, i) \/ FoundAt(Row1, n, i)
    BY <1>0, <2>5 DEF Born, StartedAt, FoundAt, Before, Starts, About
  <2>. QED
    BY <2>2, <2>6
<1>4. Quiet(h) => Quiet(h)'
  <2>1. CASE HelperLine
    BY <1>0, <1>3, <2>1, QuietLine DEF Starts, About
  <2>2. CASE KnowLine \/ FsLine \/ IdleLine
    BY <1>0, <2>2 DEF KnowLine, FsLine, IdleLine, Quiet
  <2>. QED
    BY <2>1, <2>2
<1>5. ASSUME HelperLine, helper[h].parent # "runs", helper'[h].child # "runs" PROVE Quiet(h)'
  BY <1>0, <1>3, <1>5, QuietLine DEF Quiet, Starts, About
<1>6. CASE KilledAt(Row1, n, i + 1)
  <2>1. FoundAt(Row1, n, i + 1)
    BY <1>0, <1>6, KilledNext
  <2>2. CASE About(At, {"kill"}, n)
    <3>1. HelperLine /\ h \in Whose /\ At.op = "kill"
      BY <1>0, <2>2, LineOps DEF About, IdleLine
    <3>2. FoundAt(Row1, n, i)
      BY <1>2, <2>1, <2>2 DEF About
    <3>3. helper'[h].child # "runs"
      BY <1>0, <1>1, <3>1, <3>2, KillFacts
    <3>. QED
      BY <1>1, <1>5, <3>1, <3>2, <3>3
  <2>3. CASE \E j \in Before(i) : About(Row1[j], {"kill"}, n)
    <3>1. PICK j \in Before(i) : About(Row1[j], {"kill"}, n)
      BY <2>3
    <3>2. j \in DOMAIN Row1 /\ ~(i < j)
      BY <1>0 DEF Before
    <3>3. ~About(At, {"find"}, n)
      BY <1>0, <3>1, <3>2, OrderAssumption DEF About
    <3>4. KilledAt(Row1, n, i)
      BY <1>2, <2>1, <2>3, <3>3 DEF KilledAt
    <3>. QED
      BY <1>1, <1>4, <3>4 DEF Hit
  <2>. QED
    BY <1>0, <1>6, <2>2, <2>3, KilledNext
<1>7. CASE KilledWith(Row1, n, i + 1)
  <2>1. CASE KilledWith(Row1, n, i)
    BY <1>1, <1>4, <2>1 DEF Hit
  <2>2. ASSUME At.op = "cgroup.kill",
               NEW d \in At.on, \/ Born(Row1, n, d, i)
                                \/ FoundAt(Row1, n, i) /\ Holds(Row1, n, d, i)
        PROVE  Quiet(h)'
    <3>1. HelperLine
      BY <2>2, LineOps DEF IdleLine
    <3>2. d = Dir /\ Dir \in Dirs
      BY <1>0, <2>2, LineFacts DEF OneDir
    <3>3. Born(Row1, n, d, i) => Cloned(Row1, n, i)
      BY DEF Born, Cloned
    <3>4. helper[h].child = "runs" => Dir \in helper[h].at
      BY <1>1, <2>2, <3>2 DEF Places, ChildPlaced
    <3>5. helper[h].child # "runs" => helper'[h].child # "runs"
      BY <1>0, <1>3, <3>1, QuietLine DEF Starts, About
    <3>6. helper'[h].child # "runs"
      BY <1>0, <2>2, <3>1, <3>4, <3>5, KillFacts
    <3>. QED
      BY <1>1, <1>5, <2>2, <3>1, <3>3, <3>6
  <2>. QED
    BY <1>0, <1>7, <2>1, <2>2, KilledWithNext
<1>. QED
  BY <1>6, <1>7 DEF Hit

(* What is killed by the list is quiet, and the rest had been.             *)
LEMMA SweptLine ==
  ASSUME Typed, Numbers, Killings, HelperLine \/ KnowLine \/ FsLine \/ IdleLine,
         "missed" \notin excuses', Swept(Row1, shell.pc + 1), NEW h \in Forked'
  PROVE  Quiet(h)'
<1>. DEFINE i == shell.pc
<1>0. /\ i \in Nat \ {0} /\ Row1[i] = At /\ i \in DOMAIN Row1 /\ excuses \subseteq excuses'
      /\ h \in Helpers
  BY LineKeeps, ExcusesGrow DEF HelperLine, KnowLine, FsLine, IdleLine, Forked
<1>1. /\ \/ Swept(Row1, i) /\ At.op # "start"
         \/ At.op = "kill-listed" /\ ListedAt(Row1, i)
      /\ At.op # "clone"
  BY <1>0, SweptNext
<1>2. /\ Swept(Row1, i) => (h \in Forked => Quiet(h))
      /\ ListedAt(Row1, i) /\ helper[h].parent \in {"runs", "waits"} =>
           <<h, "parent">> \in shell.listed
  BY <1>0 DEF Killings
<1>3. CASE HelperLine
  <2>1. At.op \notin {"start", "clone"}
    BY <1>1
  <2>2. h \in Forked
    BY <1>0, <1>3, <2>1, QuietLine DEF Forked
  <2>3. CASE Swept(Row1, i)
    BY <1>0, <1>2, <1>3, <2>1, <2>2, <2>3, QuietLine
  <2>4. CASE At.op = "kill-listed" /\ ListedAt(Row1, i)
    BY <1>0, <1>2, <1>3, <2>1, <2>2, <2>4, KillFacts, QuietLine DEF Quiet
  <2>. QED
    BY <1>1, <2>3, <2>4
<1>4. CASE KnowLine \/ FsLine \/ IdleLine
  <2>1. helper' = helper
    BY <1>4 DEF KnowLine, FsLine, IdleLine
  <2>2. At.op # "kill-listed"
    BY <1>4, LineOps DEF IdleLine
  <2>. QED
    BY <1>1, <1>2, <2>1, <2>2 DEF Forked, Quiet
<1>. QED
  BY <1>3, <1>4

(* The list names every helper that runs.                                  *)
LEMMA ListedLine ==
  ASSUME Typed, Killings, HelperLine \/ KnowLine \/ FsLine \/ IdleLine,
         ListedAt(Row1, shell.pc + 1), NEW h \in Helpers,
         helper'[h].parent \in {"runs", "waits"}
  PROVE  <<h, "parent">> \in shell'.listed
<1>. DEFINE i == shell.pc
<1>0. i \in Nat \ {0} /\ Row1[i] = At
  BY LineKeeps DEF HelperLine, KnowLine, FsLine, IdleLine
<1>1. (ListedAt(Row1, i) /\ At.op # "start") \/ At.op = "list"
  BY <1>0, ListedNext
<1>2. ListedAt(Row1, i) /\ helper[h].parent \in {"runs", "waits"} => <<h, "parent">> \in shell.listed
  BY DEF Killings
<1>3. CASE HelperLine
  <2>1. At.op \notin {"list", "start"}
    BY <1>1, <1>3, LineOps
  <2>2. CASE At.op = "clone" /\ h \in Whose
    <3>1. helper'[h] = helper[h]
      BY <2>2, <1>3, HelperMoves DEF Begins, IsBorn, IsPut
    <3>. QED
      BY <1>1, <1>2, <1>3, <2>1, <3>1 DEF HelperLine, SameKnow
  <2>3. CASE ~(At.op = "clone" /\ h \in Whose)
    BY <1>1, <1>2, <1>3, <2>1, <2>3, QuietLine DEF HelperLine, SameKnow
  <2>. QED
    BY <2>2, <2>3
<1>4. CASE ListHelpers /\ KnowLine
  <2>1. {<<x, "parent">> : x \in {x \in Helpers : Lives(helper[x].parent)}} \subseteq shell'.listed
    BY <1>4 DEF ListHelpers, Past, Typed, ShellType
  <2>2. helper' = helper
    BY <1>4 DEF KnowLine
  <2>. QED
    BY <2>1, <2>2 DEF Lives
<1>5. CASE FindChild \/ Join \/ RunForking \/ FsLine \/ IdleLine
  <2>1. shell'.listed = shell.listed /\ helper' = helper
    BY <1>5 DEF FindChild, Join, RunForking, Past, FsLine, IdleLine, SameKnow, Typed, ShellType
  <2>2. At.op # "list"
    BY <1>5, LineOps DEF FindChild, Join, RunForking, Runs, IdleLine
  <2>. QED
    BY <1>1, <1>2, <2>1, <2>2
<1>. QED
  BY <1>3, <1>4, <1>5 DEF KnowLine

(* Where a script ends, what it has started is quiet.                      *)
LEMMA EndQuiet ==
  ASSUME Typed, Numbers, Findings, Killings, Refusals, Halts,
         excuses' \cap {"missed", "threaded", "gave-up", "interrupted"} = {},
         ~(shell.script \in StopsShort /\ "stopped" \in excuses'), NEW h \in Ours
  PROVE  Quiet(h)
<1>. DEFINE i == shell.pc
<1>0. /\ Row1 = Code(shell.script) /\ shell.script \in Scripts /\ i \in Nat \ {0} /\ Running
      /\ Len(Row1) \in Nat /\ DOMAIN Row1 = 1..Len(Row1) /\ i \in 1..End(Row1)
      /\ h \in Helpers /\ At = Row1[i] /\ excuses \subseteq excuses'
  <2>1. Len(Row1) \in Nat /\ DOMAIN Row1 = 1..Len(Row1) /\ i \in Nat \ {0} /\ i <= Len(Row1) + 1
    BY RowFacts
  <2>. QED
    BY <2>1, RowFacts, RestFacts, HelperNumbers DEF Halts, At, End
<1>1. PICK n \in 1..3 : h = Number(n)
  BY HelperNumbers
<1>2. excuses \cap {"missed", "threaded"} = {} /\ "missed" \notin excuses
  BY <1>0
<1>3. \/ i = End(Row1)
      \/ i \in DOMAIN Row1 /\ At.op = "need" /\ ~(Whose \subseteq shell.found)
      \/ i \in DOMAIN Row1 /\ At.op \in {"or-exit", "guard"} /\ shell.script \notin StopsShort
  BY DEF Halts
<1>4. CASE shell.script \in Limiting
  <2>1. i = End(Row1)
    BY <1>0, <1>3, <1>4, LimitAssumption
  <2>2. i \notin DOMAIN Row1
    BY <1>0, <2>1 DEF End
  <2>3. helper[h] = None
    BY <1>0, <1>4, <2>2 DEF Refusals, Running
  <2>. QED
    BY <2>3 DEF Quiet, None
<1>5. ASSUME shell.script \notin Limiting, At.op = "need", i \in DOMAIN Row1
      PROVE Whose \subseteq shell.found
  <2>1. SUFFICES ASSUME NEW m \in At.who PROVE Number(m) \in shell.found
    BY DEF Whose
  <2>2. m \in 1..3
    BY <1>0, <1>5, LineFacts
  <2>3. FoundAt(Row1, m, i)
    BY <1>0, <1>5, <2>2, OrderAssumption DEF About
  <2>. QED
    BY <1>2, <2>2, <2>3 DEF Findings
<1>6. CASE /\ shell.script \notin Limiting
           /\ \/ i = End(Row1)
              \/ Row1[i].op \in {"or-exit", "guard"} /\ shell.script \notin StopsShort
  <2>1. CASE ~StartedAt(Row1, n, i)
    BY <1>0, <1>1, <2>1 DEF Numbers, Quiet, None
  <2>2. CASE StartedAt(Row1, n, i)
    <3>1. Struckdown(Row1, n, i)
      BY <1>0, <1>6, <2>2, KillAssumption
    <3>2. CASE KilledAt(Row1, n, i) \/ KilledWith(Row1, n, i)
      BY <1>1, <1>2, <3>2 DEF Killings
    <3>3. CASE Swept(Row1, i)
      <4>1. ~Cloned(Row1, n, i)
        BY <1>0, <3>3 DEF Swept, Cloned, About, Before, End
      <4>2. h \in Forked
        BY <1>0, <1>1, <4>1 DEF Numbers, Forked
      <4>. QED
        BY <1>2, <3>3, <4>2 DEF Killings
    <3>. QED
      BY <3>1, <3>2, <3>3 DEF Struckdown
  <2>. QED
    BY <2>1, <2>2
<1>. QED
  BY <1>0, <1>3, <1>4, <1>5, <1>6

(* Every step keeps Killings.                                              *)
LEMMA KillingsNext ==
  ASSUME Typed, Numbers, Findings, Places, Killings, Refusals, [Next]_vars
  PROVE  Killings'
<1>1. CASE HelperLine \/ KnowLine \/ FsLine \/ IdleLine
  <2>0. /\ Row1' = Row1 /\ shell'.pc = shell.pc + 1 /\ Running'
        /\ \A n \in 1..3 : Number(n)' = Number(n)
    BY <1>1, LineKeeps DEF HelperLine, KnowLine, FsLine, IdleLine
  <2>1. /\ excuses' \cap {"missed", "threaded"} = {} =>
             \A n \in 1..3 : Hit(n, shell.pc + 1) => Quiet(Number(n))'
        /\ "missed" \notin excuses' =>
             (Swept(Row1, shell.pc + 1) => \A h \in Forked' : Quiet(h)')
    BY <1>1, HitLine, SweptLine
  <2>2. ListedAt(Row1, shell.pc + 1) => \A h \in Helpers :
          helper'[h].parent \in {"runs", "waits"} => <<h, "parent">> \in shell'.listed
    BY <1>1, ListedLine
  <2>3. /\ \A n \in 1..3 : (KilledAt(Row1, n, shell.pc) \/ KilledWith(Row1, n, shell.pc))' <=>
                             Hit(n, shell.pc + 1)
        /\ Swept(Row1, shell.pc)' <=> Swept(Row1, shell.pc + 1)
        /\ ListedAt(Row1, shell.pc)' <=> ListedAt(Row1, shell.pc + 1)
    BY <2>0 DEF Hit, KilledAt, KilledWith, Swept, ListedAt, FoundAt, Born, Holds, Present, Before
  <2>4. shell'.status = "runs"
    BY <2>0 DEF Running
  <2>. QED
    BY <2>0, <2>1, <2>2, <2>3, <2>4 DEF Killings
<1>2. CASE Halts \/ Interrupt \/ NextScript
  <2>1. /\ helper' = helper /\ shell'.pc = 1
        /\ ~Running' => /\ Halts \/ Interrupt
                        /\ Ours' = Ours
    <3>1. CASE NextScript
      BY <3>1, RestFacts DEF Rests, Running
    <3>2. CASE Halts \/ Interrupt
      BY <3>2, RestFacts DEF Rests, Ours, Number
    <3>. QED
      BY <1>2, <3>1, <3>2
  <2>2. \A n : /\ ~KilledAt(Row1', n, 1) /\ ~KilledWith(Row1', n, 1) /\ ~Swept(Row1', 1)
               /\ ~ListedAt(Row1', 1)
    BY AtFirst
  <2>3. /\ \A n \in 1..3 : ~(KilledAt(Row1, n, shell.pc) \/ KilledWith(Row1, n, shell.pc))'
        /\ ~Swept(Row1, shell.pc)' /\ ~ListedAt(Row1, shell.pc)'
    BY <2>1, <2>2 DEF KilledAt, KilledWith, Swept, ListedAt, FoundAt, Born, Holds, Present, Before
  <2>4. ASSUME ~Running', excuses' \cap {"missed", "threaded", "gave-up", "interrupted"} = {},
               ~(shell'.script \in StopsShort /\ "stopped" \in excuses'), NEW h \in Ours
        PROVE  Quiet(h)'
    <3>1. Halts
      BY <2>1, <2>4 DEF Interrupt, EndsEarly
    <3>. QED
      BY <2>1, <2>4, <3>1, RestFacts, EndQuiet DEF Quiet
  <2>5. ASSUME shell'.status = "done", shell'.script = "test_cgroup_ns", "missed" \notin excuses',
               NEW h \in Forked'
        PROVE  Quiet(h)'
    <3>1. Halts /\ shell.pc = End(Row1) /\ excuses' = excuses
      <4>1. shell'.status = "done"
        BY <2>5
      <4>. QED
        BY <1>2, <4>1, RestFacts DEF Halts, Interrupt, EndsEarly, Ended, Fresh
    <3>2. shell.script = "test_cgroup_ns" /\ Row1 = Code(shell.script) /\ shell.script \in Scripts
      BY <2>5, <3>1, RestFacts, RowFacts
    <3>3. Swept(Row1, shell.pc)
      BY <3>1, <3>2, KillAssumption DEF Limiting
    <3>. QED
      BY <2>1, <2>5, <3>1, <3>3 DEF Killings, Quiet, Forked
  <2>. QED
    BY <2>1, <2>3, <2>4, <2>5 DEF Killings
<1>3. ASSUME NEW g \in Helpers, HelperStep(g) PROVE Killings'
  <2>1. /\ UNCHANGED <<shell, excuses>> /\ Row1' = Row1 /\ Ours' = Ours /\ Running' = Running
        /\ \A n \in 1..3 : Number(n)' = Number(n) /\ Number(n) \in Helpers
        /\ \A h \in Ours : h \in Helpers
    BY <1>3, HelperStepKeeps, HelperNumbers
  <2>2. \A h \in Helpers :
          /\ Quiet(h) => Quiet(h)'
          /\ helper'[h].parent \in {"runs", "waits"} => helper[h].parent \in {"runs", "waits"}
          /\ h \in Forked' => h \in Forked \/ Quiet(h)'
    BY <1>3, QuietStep
  <2>3. Forked' \subseteq Helpers
    BY DEF Forked, Helpers
  <2>4. /\ \A n \in 1..3 : (KilledAt(Row1, n, shell.pc) \/ KilledWith(Row1, n, shell.pc))' <=>
                             Hit(n, shell.pc)
        /\ Swept(Row1, shell.pc)' <=> Swept(Row1, shell.pc)
        /\ ListedAt(Row1, shell.pc)' <=> ListedAt(Row1, shell.pc)
    BY <2>1 DEF Hit, KilledAt, KilledWith, Swept, ListedAt, FoundAt, Born, Holds, Present, Before
  <2>5. Killings => /\ excuses \cap {"missed", "threaded"} = {} =>
                         \A n \in 1..3 : Hit(n, shell.pc) => Quiet(Number(n))
                    /\ "missed" \notin excuses =>
                         (Swept(Row1, shell.pc) => \A h \in Forked : Quiet(h))
                    /\ ListedAt(Row1, shell.pc) => \A h \in Helpers :
                         helper[h].parent \in {"runs", "waits"} => <<h, "parent">> \in shell.listed
                    /\ /\ ~Running
                       /\ excuses \cap {"missed", "threaded", "gave-up", "interrupted"} = {}
                       /\ ~(shell.script \in StopsShort /\ "stopped" \in excuses)
                       => \A h \in Ours : Quiet(h)
                    /\ shell.status = "done" /\ shell.script = "test_cgroup_ns"
                         /\ "missed" \notin excuses => \A h \in Forked : Quiet(h)
    BY DEF Killings, Hit
  <2>. QED
    BY <2>1, <2>2, <2>3, <2>4, <2>5 DEF Killings
<1>4. CASE UNCHANGED vars
  <2>1. /\ UNCHANGED <<shell, excuses, helper>> /\ Row1' = Row1 /\ Ours' = Ours /\ Running' = Running
        /\ \A n \in 1..3 : Number(n)' = Number(n)
    BY <1>4 DEF vars, Row1, Ours, Number, Running
  <2>. QED
    BY <2>1 DEF Killings, Quiet, Forked, KilledAt, KilledWith, Swept, ListedAt, FoundAt, Born,
       Holds, Present, Before
<1>. QED
  BY <1>1, <1>2, <1>3, <1>4, ShellGroups DEF Next

-----------------------------------------------------------------------------
(* Guards: a script on the wrong system.                                   *)

(* Every step keeps Guards.                                                *)
LEMMA GuardsNext ==
  ASSUME Typed, Numbers, Guards, [Next]_vars
  PROVE  Guards'
<1>1. CASE HelperLine \/ KnowLine \/ FsLine \/ IdleLine
  <2>. DEFINE i == shell.pc
  <2>0. /\ Row1' = Row1 /\ Row1[i] = At /\ i <= Len(Row1) /\ system' = system
        /\ Row1 = Code(shell.script) /\ shell.script \in Scripts /\ i \in DOMAIN Row1
    BY <1>1, LineKeeps, RowFacts DEF HelperLine, KnowLine, FsLine, IdleLine
  <2>1. ASSUME system = "v2", LooksFor(Row1) PROVE FALSE
    <3>1. At.op = "guard" /\ At.on \subseteq V1Only
      BY <2>0, <2>1 DEF Guards, LooksFor
    <3>2. IdleLine
      BY <1>1, <3>1, LineOps
    <3>3. Dir \in fs.dirs /\ Dir \in V1Only
      BY <2>0, <3>1, <3>2, LineFacts DEF IdleLine, OneDir
    <3>. QED
      BY <2>1, <3>3 DEF Guards
  <2>2. ASSUME system = "v2" PROVE fs'.dirs \cap V1Only = {}
    <3>1. CgroupScripts[shell.script].system \in {"any", "v2"} \/ shell.script \in Guarded
      BY <2>2 DEF Typed, Runnable
    <3>2. \A d \in V1Only : ~Adds(At, d)
      BY <2>0, <2>1, <2>2, <3>1, GuardAssumption
    <3>3. \A d \in fs'.dirs \ fs.dirs : Adds(At, d)
      BY <1>1, DirsChange DEF HelperLine, KnowLine, IdleLine
    <3>. QED
      BY <2>2, <3>2, <3>3 DEF Guards
  <2>. QED
    BY <2>0, <2>1, <2>2 DEF Guards, LooksFor
<1>2. CASE Halts \/ Interrupt \/ NextScript
  <2>1. /\ helper' = helper /\ fs' = fs /\ system' = system /\ shell'.pc = 1
    BY <1>2, RestFacts DEF Rests
  <2>2. CASE Halts \/ Interrupt
    <3>1. Row1' = Row1 /\ Ours' = Ours
      BY <2>2, RestFacts DEF Ours, Number
    <3>. QED
      BY <2>1, <3>1 DEF Guards, LooksFor
  <2>3. CASE NextScript
    <3>1. Running' /\ Numbers' /\ \A n \in 1..3 : ~StartedAt(Row1', n, 1)
      BY <2>3, RestFacts, NumbersRest, AtFirst DEF Running
    <3>2. \A n \in 1..3 : helper'[Number(n)'] = None
      BY <2>1, <3>1 DEF Numbers, StartedAt, Before
    <3>3. \A h \in Ours' : helper'[h] = None
      BY <3>2 DEF Ours
    <3>. QED
      BY <2>1, <3>3 DEF Guards
  <2>. QED
    BY <1>2, <2>2, <2>3
<1>3. ASSUME NEW g \in Helpers, HelperStep(g) PROVE Guards'
  <2>1. /\ UNCHANGED <<system, shell, fs>> /\ Row1' = Row1 /\ Ours' = Ours
        /\ \A h \in Ours : h \in Helpers
    BY <1>3, HelperStepKeeps, HelperNumbers
  <2>2. \A h \in Helpers : helper[h] = None => helper'[h] = None
    BY <1>3, HelperStepMoves
  <2>. QED
    BY <2>1, <2>2 DEF Guards, LooksFor
<1>4. CASE UNCHANGED vars
  BY <1>4 DEF vars, Guards, LooksFor, Row1, Ours, Number
<1>. QED
  BY <1>1, <1>2, <1>3, <1>4, ShellGroups DEF Next

-----------------------------------------------------------------------------
(* Machine: processor, frozen cgroups and mounts.                          *)

(* Whether a line before line i mounts on m.                               *)
Tried(c, m, i) == \E j \in Before(i) : c[j].op = "mount" /\ m \in c[j].on

Mounts(m) ==
  /\ fs.mounts[m] <= shell.round
  /\ Running /\ ~Tried(Row1, m, shell.pc) => fs.mounts[m] < shell.round
  /\ Running /\ shell.round = 1 /\ "refused" \notin excuses =>
       fs.mounts[m] = IF MountedAt(Row1, m, shell.pc) THEN 1 ELSE 0

MachineByParts ==
  /\ CpuBack(Row1, shell.pc) => fs.cpu1
  /\ \A d \in Cgroups : Thawed(Row1, d, shell.pc) => d \notin fs.frozen
  /\ \A m \in Plain : Mounts(m)
  /\ MachineRestored

(* Machine, mount by mount.                                                *)
LEMMA MachineParts == (Machine <=> MachineByParts) /\ (Machine' <=> MachineByParts')
BY DEF Machine, MachineByParts, Mounts, Tried

(* What a line of the file system leaves alone, besides directories.       *)
LEMMA FsChange ==
  ASSUME Typed, FsLine
  PROVE  /\ CpuHotplug \/ fs'.cpu1 = fs.cpu1
         /\ Freeze \/ fs'.frozen \subseteq fs.frozen
         /\ Mount \/ Umount \/ fs'.mounts = fs.mounts
<1>0. fs \in FsType
  BY DEF Typed
<1>1. CASE MakeDir \/ TryDir \/ SkipTry \/ Rename
  BY <1>0, <1>1 DEF MakeDir, TryDir, SkipTry, Rename, FsType
<1>2. CASE RemoveDirs
  <2>1. PICK gone : fs' = [fs EXCEPT !.dirs = @ \ gone, !.frozen = @ \ gone,
                                     !.threaded = @ \ gone,
                                     !.limits = {l \in @ : l[1] \notin gone}]
    BY <1>2 DEF RemoveDirs
  <2>. QED
    BY <1>0, <2>1 DEF FsType
<1>3. CASE Mount \/ Umount \/ Freeze \/ Thaw \/ MakeThreaded \/ SetLimit \/ CpuHotplug
  BY <1>0, <1>3 DEF Mount, Umount, Freeze, Thaw, MakeThreaded, SetLimit, CpuHotplug, FsType
<1>. QED
  BY <1>1, <1>2, <1>3 DEF FsLine

(* A directory is mounted at most once by each script.                     *)
LEMMA MountsLine ==
  ASSUME Typed, Machine, HelperLine \/ KnowLine \/ FsLine \/ IdleLine, NEW m \in Plain
  PROVE  Mounts(m)'
<1>. DEFINE i == shell.pc
<1>0. /\ Row1' = Row1 /\ shell'.pc = i + 1 /\ i \in Nat \ {0} /\ Row1[i] = At /\ Running /\ Running'
      /\ i \in DOMAIN Row1 /\ i <= Len(Row1) /\ shell'.round = shell.round
      /\ Row1 = Code(shell.script) /\ shell.script \in Scripts /\ excuses \subseteq excuses'
      /\ Len(Row1) \in Nat /\ DOMAIN Row1 = 1..Len(Row1)
  BY LineKeeps, RowFacts, ExcusesGrow DEF HelperLine, KnowLine, FsLine, IdleLine
<1>1. /\ fs.mounts[m] <= shell.round
      /\ ~Tried(Row1, m, i) => fs.mounts[m] < shell.round
      /\ shell.round = 1 /\ "refused" \notin excuses =>
           fs.mounts[m] = IF MountedAt(Row1, m, i) THEN 1 ELSE 0
      /\ fs \in FsType /\ fs.mounts \in [Plain -> Nat] /\ fs.mounts[m] \in Nat /\ shell.round \in Nat
  BY <1>0, MachineParts, HelperNumbers DEF MachineByParts, Mounts, Typed, FsType
<1>2. /\ Tried(Row1, m, i + 1) <=> Tried(Row1, m, i) \/ (At.op = "mount" /\ m \in At.on)
      /\ MountedAt(Row1, m, i + 1) <=>
           \/ MountedAt(Row1, m, i) /\ ~(At.op = "umount" /\ m \in At.on)
           \/ At.op = "mount" /\ m \in At.on
  <2>1. Before(i + 1) = Before(i) \cup {i}
    BY <1>0 DEF Before
  <2>2. Tried(Row1, m, i + 1) <=> Tried(Row1, m, i) \/ (At.op = "mount" /\ m \in At.on)
    BY <1>0, <2>1 DEF Tried
  <2>. QED
    BY <1>0, <2>2, MountedNext
<1>3. SUFFICES /\ fs'.mounts[m] <= shell.round
               /\ ~Tried(Row1, m, i + 1) => fs'.mounts[m] < shell.round
               /\ shell.round = 1 /\ "refused" \notin excuses' =>
                    fs'.mounts[m] = IF MountedAt(Row1, m, i + 1) THEN 1 ELSE 0
  BY <1>0 DEF Mounts, Tried, MountedAt, Before
<1>4. CASE FsLine /\ (Mount \/ Umount)
  <2>0. Dir \in Plain /\ At.on = {Dir}
    BY <1>0, <1>4, LineFacts DEF Mount, Umount, Runs, OneDir
  <2>1. CASE Mount /\ fs' # fs
    <3>0. At.op = "mount"
      BY <2>1 DEF Mount, Runs
    <3>1. /\ fs' = [fs EXCEPT !.mounts[Dir] = @ + 1] /\ excuses' = excuses
      BY <2>1 DEF Mount
    <3>2. fs'.mounts = [fs.mounts EXCEPT ![Dir] = @ + 1]
      BY <1>1, <3>1 DEF FsType
    <3>3. CASE m = Dir
      <4>1. ~Tried(Row1, m, i)
        <5>1. SUFFICES ASSUME NEW j \in Before(i), Row1[j].op = "mount", m \in Row1[j].on
                       PROVE  FALSE
          BY DEF Tried
        <5>2. j \in DOMAIN Row1 /\ j # i
          BY <1>0 DEF Before
        <5>3. Row1[i].on \cap Row1[j].on # {}
          BY <1>0, <2>0, <3>3, <5>1
        <5>. QED
          BY <1>0, <3>0, <5>1, <5>2, <5>3, MachineAssumption
      <4>2. ~MountedAt(Row1, m, i)
        BY <4>1 DEF MountedAt, Tried
      <4>3. fs'.mounts[m] = fs.mounts[m] + 1
        BY <1>1, <2>0, <3>2, <3>3
      <4>4. At.op = "mount" /\ m \in At.on
        BY <2>0, <3>0, <3>3
      <4>. QED
        BY <1>1, <1>2, <3>1, <4>1, <4>2, <4>3, <4>4
    <3>4. CASE m # Dir
      <4>1. fs'.mounts[m] = fs.mounts[m]
        BY <1>1, <3>2, <3>4
      <4>2. m \notin At.on
        BY <2>0, <3>4
      <4>. QED
        BY <1>1, <1>2, <3>1, <4>1, <4>2
    <3>. QED
      BY <3>3, <3>4
  <2>2. CASE Umount /\ fs' # fs
    <3>0. At.op = "umount" /\ fs.mounts[Dir] > 0
      BY <2>2 DEF Umount, Runs
    <3>1. /\ fs' = [fs EXCEPT !.mounts[Dir] = @ - 1] /\ excuses' = excuses
      BY <2>2 DEF Umount
    <3>2. fs'.mounts = [fs.mounts EXCEPT ![Dir] = @ - 1]
      BY <1>1, <3>1 DEF FsType
    <3>3. CASE m = Dir
      <4>1. fs'.mounts[m] = fs.mounts[m] - 1 /\ fs.mounts[m] > 0
        BY <1>1, <2>0, <3>0, <3>2, <3>3
      <4>2. ~MountedAt(Row1, m, i + 1)
        BY <1>2, <2>0, <3>0, <3>3
      <4>. QED
        BY <1>1, <1>2, <3>1, <4>1, <4>2
    <3>4. CASE m # Dir
      <4>1. fs'.mounts[m] = fs.mounts[m]
        BY <1>1, <3>2, <3>4
      <4>2. m \notin At.on
        BY <2>0, <3>4
      <4>. QED
        BY <1>1, <1>2, <3>1, <4>1, <4>2
    <3>. QED
      BY <3>3, <3>4
  <2>3. CASE fs' = fs
    <3>1. "refused" \in excuses'
      <4>1. CASE Mount
        <5>1. [fs EXCEPT !.mounts[Dir] = @ + 1] # fs
          BY <1>1, <2>0 DEF FsType
        <5>. QED
          BY <2>3, <4>1, <5>1 DEF Mount
      <4>2. CASE Umount
        <5>1. [fs EXCEPT !.mounts[Dir] = @ - 1] # fs
          BY <1>1, <2>0 DEF FsType
        <5>. QED
          BY <2>3, <4>2, <5>1 DEF Umount
      <4>. QED
        BY <1>4, <4>1, <4>2
    <3>. QED
      BY <1>1, <1>2, <2>3, <3>1
  <2>. QED
    BY <1>4, <2>1, <2>2, <2>3
<1>5. CASE ~(FsLine /\ (Mount \/ Umount))
  <2>1. fs'.mounts = fs.mounts
    BY <1>5, FsChange DEF HelperLine, KnowLine, IdleLine
  <2>2. At.op \notin {"mount", "umount"}
    <3>1. CASE FsLine
      BY <1>5, <3>1 DEF FsLine, MakeDir, TryDir, SkipTry, RemoveDirs, Rename, Freeze, Thaw,
         MakeThreaded, SetLimit, CpuHotplug, Runs
    <3>2. CASE HelperLine \/ KnowLine \/ IdleLine
      BY <3>2, LineOps DEF IdleLine
    <3>. QED
      BY <3>1, <3>2
  <2>. QED
    BY <1>0, <1>1, <1>2, <2>1, <2>2
<1>. QED
  BY <1>4, <1>5

(* A line keeps Machine.                                                   *)
LEMMA MachineLine ==
  ASSUME Typed, Machine, HelperLine \/ KnowLine \/ FsLine \/ IdleLine
  PROVE  Machine'
<1>. DEFINE i == shell.pc
<1>0. /\ Row1' = Row1 /\ shell'.pc = i + 1 /\ i \in Nat \ {0} /\ Row1[i] = At /\ Running'
  BY LineKeeps DEF HelperLine, KnowLine, FsLine, IdleLine
<1>1. /\ CpuBack(Row1, i) => fs.cpu1
      /\ \A d \in Cgroups : Thawed(Row1, d, i) => d \notin fs.frozen
      /\ fs \in FsType
  BY DEF Machine, Typed
<1>2. ASSUME CpuBack(Row1, i + 1) PROVE fs'.cpu1
  <2>1. (CpuBack(Row1, i) /\ At.op # "cpu-off") \/ At.op = "cpu-on"
    BY <1>0, <1>2, MachineCodeNext
  <2>2. CASE CpuHotplug /\ FsLine
    <3>1. fs'.cpu1 = (At.op = "cpu-on") /\ At.op \in {"cpu-off", "cpu-on"}
      BY <1>1, <2>2 DEF CpuHotplug, Runs, FsType
    <3>. QED
      BY <2>1, <3>1
  <2>3. CASE ~(CpuHotplug /\ FsLine)
    <3>1. fs'.cpu1 = fs.cpu1
      BY <2>3, FsChange DEF HelperLine, KnowLine, IdleLine
    <3>2. At.op # "cpu-on"
      <4>1. CASE FsLine
        BY <2>3, <4>1 DEF FsLine, MakeDir, TryDir, SkipTry, RemoveDirs, Mount, Umount, Rename,
           Freeze, Thaw, MakeThreaded, SetLimit, Runs
      <4>2. CASE HelperLine \/ KnowLine \/ IdleLine
        BY <4>2, LineOps DEF IdleLine
      <4>. QED
        BY <4>1, <4>2
    <3>. QED
      BY <1>1, <2>1, <3>1, <3>2
  <2>. QED
    BY <2>2, <2>3
<1>3. ASSUME NEW d \in Cgroups, Thawed(Row1, d, i + 1) PROVE d \notin fs'.frozen
  <2>1. \/ Thawed(Row1, d, i) /\ ~(At.op = "freeze" /\ d \in At.on)
        \/ At.op = "thaw" /\ d \in At.on
    BY <1>0, <1>3, MachineCodeNext
  <2>2. CASE Freeze /\ FsLine
    <3>1. fs'.frozen = fs.frozen \cup (At.on \cap fs.dirs) /\ At.op = "freeze"
      BY <1>1, <2>2 DEF Freeze, Runs, FsType
    <3>. QED
      BY <1>1, <2>1, <3>1
  <2>3. CASE ~(Freeze /\ FsLine)
    <3>1. fs'.frozen \subseteq fs.frozen
      BY <2>3, FsChange DEF HelperLine, KnowLine, IdleLine
    <3>2. CASE At.op = "thaw" /\ d \in At.on
      <4>1. FsLine
        BY <3>2, LineOps DEF IdleLine
      <4>2. Thaw
        BY <3>2, <4>1 DEF FsLine, MakeDir, TryDir, SkipTry, RemoveDirs, Mount, Umount, Rename,
           Freeze, MakeThreaded, SetLimit, CpuHotplug, Runs
      <4>3. fs'.frozen = fs.frozen \ At.on
        BY <1>1, <4>2 DEF Thaw, FsType
      <4>. QED
        BY <3>2, <4>3
    <3>. QED
      BY <1>1, <2>1, <3>1, <3>2
  <2>. QED
    BY <2>2, <2>3
<1>4. \A m \in Plain : Mounts(m)'
  BY MountsLine
<1>5. MachineRestored'
  BY <1>0 DEF MachineRestored, Running
<1>6. /\ CpuBack(Row1, shell.pc)' <=> CpuBack(Row1, i + 1)
      /\ \A d : Thawed(Row1, d, shell.pc)' <=> Thawed(Row1, d, i + 1)
  BY <1>0 DEF CpuBack, Thawed, Before
<1>. QED
  BY <1>0, <1>2, <1>3, <1>4, <1>5, <1>6, MachineParts DEF MachineByParts

(* Every step keeps Machine.                                               *)
LEMMA MachineNext ==
  ASSUME Typed, Machine, [Next]_vars
  PROVE  Machine'
<1>1. CASE HelperLine \/ KnowLine \/ FsLine \/ IdleLine
  BY <1>1, MachineLine
<1>2. CASE Halts \/ Interrupt \/ NextScript
  <2>1. /\ fs' = fs /\ shell'.pc = 1 /\ shell.round \in Nat \ {0} /\ fs \in FsType
        /\ shell'.round \in {shell.round, shell.round + 1}
        /\ shell'.round = shell.round => ~Running' /\ Row1' = Row1 /\ ~NextScript
    <3>1. fs' = fs /\ shell'.pc = 1 /\ shell.round \in Nat \ {0} /\ fs \in FsType
      BY <1>2, RestFacts, HelperNumbers DEF Rests, Typed
    <3>2. CASE NextScript
      BY <3>1, <3>2, RestFacts
    <3>3. CASE ~NextScript
      BY <1>2, <3>1, <3>3, RestFacts DEF Running
    <3>. QED
      BY <3>1, <3>2, <3>3
  <2>2. /\ ~CpuBack(Row1, shell.pc)'
        /\ \A d : ~Thawed(Row1, d, shell.pc)'
    BY <2>1, AtFirst DEF CpuBack, Thawed, Before
  <2>3. ASSUME NEW m \in Plain PROVE Mounts(m)'
    <3>1. fs.mounts[m] <= shell.round /\ fs.mounts[m] \in Nat
      BY <2>1 DEF Machine, FsType
    <3>2. fs.mounts[m] <= shell'.round /\ (Running' => fs.mounts[m] < shell'.round /\ shell'.round # 1)
      BY <2>1, <3>1
    <3>. QED
      BY <2>1, <3>2 DEF Mounts
  <2>4. ASSUME shell'.status = "done"
        PROVE  /\ Uses("cpu-off")' => fs.cpu1
               /\ Uses("freeze")' => fs.frozen \cap Named' = {}
               /\ (shell'.round = 1 /\ "refused" \notin excuses') => \A m \in Plain : fs.mounts[m] = 0
    <3>1. Halts /\ shell.pc = End(Row1) /\ excuses' = excuses
      BY <1>2, <2>4, RestFacts DEF Halts, Interrupt, EndsEarly, Ended, Fresh
    <3>2. /\ Row1' = Row1 /\ Row1 = Code(shell.script) /\ shell.script \in Scripts
          /\ shell'.round = shell.round /\ Running
      BY <3>1, RestFacts, RowFacts DEF Halts
    <3>3. Uses("cpu-off")' => fs.cpu1
      BY <3>1, <3>2, MachineAssumption DEF Uses, Machine
    <3>4. ASSUME Uses("freeze")' PROVE fs.frozen \cap Named' = {}
      <4>1. Named' = Names(Row1)
        BY <3>2 DEF Named, Names
      <4>2. \A d \in Names(Row1) : Thawed(Row1, d, shell.pc)
        BY <3>1, <3>2, <3>4, MachineAssumption DEF Uses
      <4>3. fs.frozen \subseteq Cgroups
        BY <2>1 DEF FsType
      <4>. QED
        BY <4>1, <4>2, <4>3 DEF Machine
    <3>5. \A d \in Plain : ~MountedAt(Row1, d, shell.pc)
      BY <3>1, <3>2, MachineAssumption
    <3>6. (shell'.round = 1 /\ "refused" \notin excuses') => \A m \in Plain : fs.mounts[m] = 0
      BY <3>1, <3>2, <3>5 DEF Machine
    <3>. QED
      BY <3>3, <3>4, <3>6
  <2>5. MachineRestored'
    BY <2>1, <2>4 DEF MachineRestored, Uses, Named
  <2>. QED
    BY <2>1, <2>2, <2>3, <2>5, MachineParts DEF MachineByParts
<1>3. CASE UNCHANGED vars \/ \E g \in Helpers : HelperStep(g)
  <2>1. UNCHANGED <<system, shell, fs, excuses>> /\ Row1' = Row1 /\ Running' = Running
    BY <1>3, HelperStepKeeps DEF vars, Row1, Running
  <2>. QED
    BY <2>1 DEF Machine, MachineRestored, Uses, Named, CpuBack, Thawed, MountedAt, Before
<1>. QED
  BY <1>1, <1>2, <1>3, ShellGroups DEF Next

-----------------------------------------------------------------------------
(* The inductive invariant, and what follows.                              *)

(* Before the first script all parts hold.                                 *)
LEMMA InitIInv ==
  ASSUME Init
  PROVE  IInv
<1>0. PICK s \in Scripts : Runnable(s) /\ shell = Fresh(s, 1)
  BY DEF Init, Scripts
<1>1. /\ shell.script = s /\ shell.round = 1 /\ shell.pc = 1 /\ shell.status = "runs"
      /\ shell.found = {} /\ shell.listed = {} /\ shell.at = {} /\ shell.forked = FALSE
      /\ Running /\ Row1 = Code(s)
  BY <1>0 DEF Fresh, Running, Row1, Code
<1>2. /\ helper = [h \in Helpers |-> None] /\ excuses = {} /\ system \in {"v1", "v2"}
      /\ fs.dirs = (IF system = "v2" THEN {"root"} ELSE Base) /\ fs.frozen = {}
      /\ fs.limits = {} /\ fs.mounts = [m \in Plain |-> 0] /\ fs.cpu1 = TRUE
      /\ fs = [dirs |-> IF system = "v2" THEN {"root"} ELSE Base, frozen |-> {},
               threaded |-> {}, limits |-> {}, mounts |-> [m \in Plain |-> 0], cpu1 |-> TRUE]
  BY DEF Init
<1>3. 1 \in 1..MaxRounds /\ \A n \in 1..3 : Number(n) \in Helpers
  BY <1>1, MaxRoundsAssumption DEF Number, Helpers
<1>4. \A h \in Ours : h \in Helpers
  BY <1>3 DEF Ours
<1>5. Typed
  <2>1. shell \in ShellType
    BY <1>0, <1>3 DEF ShellType, Fresh
  <2>2. Code(s) \in Seq({Code(s)[i] : i \in DOMAIN Code(s)})
    BY <1>0, StepsAssumption
  <2>3. shell.pc <= End(Row1)
    BY <1>1, <2>2 DEF End
  <2>4. fs \in FsType
    BY <1>2 DEF FsType, Dirs, Base
  <2>5. helper \in [Helpers -> RecType]
    BY <1>2 DEF None, RecType
  <2>. QED
    BY <1>0, <1>1, <1>2, <2>1, <2>3, <2>4, <2>5 DEF Typed
<1>6. \A d, n, kind :
        /\ ~Present(Row1, d, 1) /\ ~Cleared(Row1, d, 1) /\ ~Limited(Row1, d, kind, 1)
        /\ ~MayBeIn(Row1, d, 1) /\ ~IsIn(Row1, d, 1) /\ ~StartedAt(Row1, n, 1)
        /\ ~FoundAt(Row1, n, 1) /\ ~Cloned(Row1, n, 1) /\ ~Born(Row1, n, d, 1)
        /\ ~Holds(Row1, n, d, 1) /\ ~ListedAt(Row1, 1) /\ ~Swept(Row1, 1)
        /\ ~KilledAt(Row1, n, 1) /\ ~KilledWith(Row1, n, 1) /\ ~CpuBack(Row1, 1)
        /\ ~Thawed(Row1, d, 1) /\ ~MountedAt(Row1, d, 1)
  BY AtFirst
<1>7. Numbers
  BY <1>1, <1>2, <1>3, <1>6 DEF Numbers, None
<1>8. Findings
  BY <1>1, <1>6 DEF Findings
<1>9. Places
  BY <1>1, <1>2, <1>3, <1>6 DEF Places, ShellPlaced, ChildPlaced, None
<1>10. Killings
  BY <1>1, <1>2, <1>6 DEF Killings, None
<1>11. Refusals
  BY <1>1, <1>2, <1>4, <1>6 DEF Refusals
<1>12. Directories
  <2>1. Deep \notin fs.dirs
    BY <1>2, EmptyAssumption DEF Base
  <2>. QED
    BY <1>1, <1>2, <1>6, <2>1 DEF Directories, OwnGroupsEmptied
<1>13. Guards
  BY <1>1, <1>2, <1>4 DEF Guards, V1Only
<1>14. Machine
  BY <1>1, <1>2, <1>6 DEF Machine, MachineRestored
<1>. QED
  BY <1>5, <1>7, <1>8, <1>9, <1>10, <1>11, <1>12, <1>13, <1>14 DEF IInv

(* Every step keeps all parts.                                             *)
LEMMA NextIInv ==
  ASSUME IInv, [Next]_vars
  PROVE  IInv'
BY TypedNext, NumbersNext, FindingsNext, PlacesNext, KillingsNext, RefusalsNext,
   DirectoriesNext, GuardsNext, MachineNext DEF IInv

(* IInv holds throughout.                                                  *)
THEOREM Invariant == Spec => []IInv
<1>1. Init => IInv
  BY InitIInv
<1>2. IInv /\ [Next]_vars => IInv'
  BY NextIInv
<1>. QED
  BY <1>1, <1>2, PTL DEF Spec

(* Type correctness; the mounts are bounded because each script mounts a   *)
(* directory once.                                                         *)
THEOREM TypeCorrect == Spec => []TypeOK
<1>1. ASSUME IInv PROVE TypeOK
  <2>0. Typed /\ Machine
    BY <1>1 DEF IInv
  <2>1. /\ system \in {"v1", "v2"} /\ shell \in ShellType /\ fs \in FsType
        /\ helper \in [Helpers -> RecType] /\ excuses \subseteq Excuses
        /\ MaxRounds \in Nat
    BY <2>0, MaxRoundsAssumption DEF Typed
  <2>2. /\ shell.pc \in 1 .. Len(CgroupScripts[shell.script].steps) + 1
    BY <2>0, RowFacts DEF Row1
  <2>3. /\ shell.script \in DOMAIN CgroupScripts /\ shell.round \in 1..MaxRounds
        /\ shell.status \in {"runs", "done", "ended-early"}
        /\ shell.ok \in BOOLEAN /\ shell.forked \in BOOLEAN
        /\ shell.found \subseteq Helpers /\ shell.at \subseteq Dirs
        /\ shell.listed \subseteq Helpers \X {"parent", "child"}
    BY <2>1 DEF ShellType, Scripts
  <2>4. /\ fs.dirs \subseteq Dirs /\ fs.frozen \subseteq Cgroups /\ fs.cpu1 \in BOOLEAN
        /\ fs.threaded \subseteq Cgroups
        /\ fs.limits \subseteq Cgroups \X {"limit", "depth", "descendants"}
    BY <2>1 DEF FsType, Kinds
  <2>5. fs.mounts \in [Plain -> 0..MaxRounds]
    <3>1. fs.mounts \in [Plain -> Nat]
      BY <2>1 DEF FsType
    <3>2. \A m \in Plain : fs.mounts[m] <= shell.round
      BY <2>0 DEF Machine
    <3>3. \A m \in Plain : fs.mounts[m] \in 0..MaxRounds
      BY <2>1, <2>3, <3>1, <3>2
    <3>. QED
      BY <3>1, <3>3
  <2>6. \A h \in Helpers :
          /\ helper[h].parent \in {"none", "clone", "runs", "waits", "dying", "gone"}
          /\ helper[h].child \in {"none", "runs", "dying", "gone"}
          /\ helper[h].home \subseteq Dirs /\ helper[h].at \subseteq Dirs
    BY <2>1 DEF RecType
  <2>. QED
    BY <2>1, <2>2, <2>3, <2>4, <2>5, <2>6 DEF TypeOK
<1>. QED
  BY <1>1, Invariant, PTL

(* Whatever is still there after a script has been missed by pgrep or ps,  *)
(* or is in a cgroup an earlier script has left threaded, or its script    *)
(* did not get to its kill; a limit is kept.  Of the exits a script takes  *)
(* by itself only that of test_cgroup_cpuset_mem_allowed.sh:39-42 comes    *)
(* between the fork and the kill.                                          *)
THEOREM ProcessesKept == Spec => []ProcessesAsMeant
<1>1. ASSUME IInv PROVE ProcessesAsMeant
  <2>0. Typed /\ Numbers /\ Killings /\ Refusals
    BY <1>1 DEF IInv
  <2>1. \A h \in Ours : h \in Helpers
    BY <2>0, HelperNumbers
  <2>2. ASSUME Settled, NEW h \in Helpers, Quiet(h) PROVE ~ChildLives(h)
    <3>1. helper[h].child \in {"none", "runs", "dying", "gone"}
      BY <2>0, RecFacts DEF RecType
    <3>2. helper[h].child # "dying" /\ helper[h].child # "runs"
      BY <2>2 DEF Settled, Quiet
    <3>. QED
      BY <3>1, <3>2 DEF ChildLives, Lives
  <2>3. LostOnlyIfMissed
    <3>1. SUFFICES ASSUME Settled, NEW h \in Ours,
                          excuses \cap {"missed", "threaded", "gave-up", "interrupted"} = {},
                          ~(shell.script \in StopsShort /\ "stopped" \in excuses)
                   PROVE  ~ChildLives(h)
      BY DEF LostOnlyIfMissed
    <3>2. Quiet(h)
      BY <2>0, <3>1 DEF Killings, Settled, Running
    <3>. QED
      BY <2>1, <2>2, <3>1, <3>2
  <2>4. NsSweeps
    <3>1. SUFFICES ASSUME Settled, shell.script = "test_cgroup_ns", shell.status = "done",
                          excuses = {}, NEW h \in Forked
                   PROVE  ~ChildLives(h)
      BY DEF NsSweeps
    <3>2. Quiet(h) /\ h \in Helpers
      BY <2>0, <3>1 DEF Killings, Forked
    <3>. QED
      BY <2>2, <3>1, <3>2
  <2>5. LimitRefusesFork
    <3>1. SUFFICES ASSUME shell.script \in Limiting, shell.status # "ended-early"
                   PROVE  ~shell.forked /\ \A h \in Ours : helper[h].child = "none"
      BY DEF LimitRefusesFork, Limiting
    <3>2. ~shell.forked /\ \A h \in Ours : helper[h] = None \/ helper[h].parent = "runs"
      BY <2>0, <3>1 DEF Refusals
    <3>. QED
      BY <2>0, <2>1, <3>2 DEF Numbers, None
  <2>. QED
    BY <2>3, <2>4, <2>5 DEF ProcessesAsMeant
<1>. QED
  BY <1>1, Invariant, PTL

(* A script that has ended has removed its directories, and has tried none *)
(* that it was using.                                                      *)
THEOREM DirsRemoved == Spec => []DirsGo
<1>1. IInv => DirsGo
  BY DEF IInv, Directories, DirsGo, DirsGoUnlessExcused, OwnGroupsEmptied
<1>. QED
  BY <1>1, Invariant, PTL

(* A script that has ended has brought cpu1 back, thawed and unmounted;    *)
(* one that finds the wrong hierarchy has done nothing.                    *)
THEOREM MachineBack == Spec => []MachineKept
<1>1. ASSUME IInv PROVE MachineKept
  <2>0. Typed /\ Guards /\ Machine
    BY <1>1 DEF IInv
  <2>1. MachineRestored
    BY <2>0 DEF Machine
  <2>2. ASSUME system = "v2", shell.script \in Guarded \ {"test_cgroup_v1"}
        PROVE  Named \cap fs.dirs = {} /\ \A h \in Ours : helper[h] = None
    <3>1. shell.script \in Scripts /\ Row1 = Code(shell.script) /\ Named = Names(Row1)
      BY <2>0, RowFacts DEF Named, Names
    <3>2. LooksFor(Row1) /\ Named \subseteq V1Only
      BY <2>2, <3>1, GuardAssumption
    <3>. QED
      BY <2>0, <2>2, <3>2 DEF Guards
  <2>. QED
    BY <2>1, <2>2 DEF MachineKept, GuardedScriptsStop
<1>. QED
  BY <1>1, Invariant, PTL
=============================================================================
