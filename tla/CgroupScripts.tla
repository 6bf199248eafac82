--------------------------- MODULE CgroupScripts ---------------------------
(***************************************************************************)
(* The scripts of CgroupScriptTable, one after the other, against the      *)
(* processes they start.  A helper (cgroup_fork_process) forks a child     *)
(* when it comes to run, its child runs until it is killed, and a killed   *)
(* process is gone some time after kill has returned.  What a script       *)
(* leaves, the next one finds.  The first script may be interrupted.       *)
(***************************************************************************)
EXTENDS CgroupScriptTable, Naturals, FiniteSets, TLC

CONSTANT MaxRounds   \* how many scripts are run
ASSUME MaxRoundsAssumption == MaxRounds \in Nat \ {0}

VARIABLES
  system,   \* "v1" or "v2", as run_all.sh finds it
  shell,    \* the script that runs: where it is, what it knows, its cgroups
  fs,       \* directories, mounts, attributes; cpu1
  helper,   \* the helpers of all rounds: parent, child, their cgroups
  excuses   \* what has gone wrong in this round

vars == <<system, shell, fs, helper, excuses>>

Helpers   == 1 .. 3 * MaxRounds
Base      == {"root", "cpu", "memory", "freezer", "cpuset", "debug", "perf_event"}
Parent    ==
  "Example/g1" :> "Example" @@ "Example3/3/1" :> "Example3/3"
  @@ [d \in {"Example3/1", "Example3/2", "Example3/3"} |-> "Example3"]
  @@ [d \in {"Example", "Example2", "Example3"} |-> "root"]
  @@ "cpu/Example1" :> "cpu" @@ "freezer/Example" :> "freezer"
  @@ "cpuset/Example" :> "cpuset" @@ "debug/Example" :> "debug"
  @@ [d \in {"memory/Example", "memory/Example2"} |-> "memory"]
  @@ [d \in {"perf_event/Example", "perf_event/perf_test"} |-> "perf_event"]
  @@ "/tmp/cgroup/memory" :> "/tmp/cgroup"
Plain     == {"/tmp/Example", "/tmp/cgroup", "/tmp/cpuset", "/tmp/cgroup/memory"}
Cgroups   == DOMAIN Parent \ Plain
Dirs      == Base \cup Cgroups \cup Plain
Excuses   == {"missed", "raced", "occupied", "left-over", "refused", "stopped", "gave-up",
              "threaded", "interrupted"}
None      == [parent |-> "none", child |-> "none", home |-> {}, at |-> {}]

(* The scripts that are started by hand on the wrong system, too, because  *)
(* they look for the hierarchy they need.                                  *)
Guarded == {"test_cgroup_v1", "test_cgroup_v1_freezer", "test_cgroup_v1_debug",
            "test_debug_inforead", "test_legacy_freezing_read"}

Runnable(s) == CgroupScripts[s].system \in {"any", system} \/ s \in Guarded

TypeOK ==
  /\ system \in {"v1", "v2"}
  /\ shell.script \in DOMAIN CgroupScripts /\ shell.round \in 1..MaxRounds
  /\ shell.pc \in 1 .. Len(CgroupScripts[shell.script].steps) + 1
  /\ shell.status \in {"runs", "done", "ended-early"}
  /\ shell.ok \in BOOLEAN /\ shell.forked \in BOOLEAN
  /\ shell.found \subseteq Helpers /\ shell.at \subseteq Dirs
  /\ shell.listed \subseteq Helpers \X {"parent", "child"}
  /\ fs.dirs \subseteq Dirs /\ fs.frozen \subseteq Cgroups /\ fs.threaded \subseteq Cgroups
  /\ fs.cpu1 \in BOOLEAN
  /\ fs.limits \subseteq Cgroups \X {"limit", "depth", "descendants"}
  /\ fs.mounts \in [Plain -> 0..MaxRounds]
  /\ \A h \in Helpers :
       /\ helper[h].parent \in {"none", "clone", "runs", "waits", "dying", "gone"}
       /\ helper[h].child \in {"none", "runs", "dying", "gone"}
       /\ helper[h].home \subseteq Dirs /\ helper[h].at \subseteq Dirs
  /\ excuses \subseteq Excuses

Fresh(s, n) ==
  [script |-> s, round |-> n, pc |-> 1, status |-> "runs", ok |-> TRUE, found |-> {},
   listed |-> {}, at |-> {}, forked |-> FALSE]

Init ==
  /\ system \in {"v1", "v2"}
  /\ \E s \in {s \in DOMAIN CgroupScripts : Runnable(s)} : shell = Fresh(s, 1)
  /\ fs = [dirs |-> IF system = "v2" THEN {"root"} ELSE Base, frozen |-> {}, threaded |-> {},
           limits |-> {}, mounts |-> [m \in Plain |-> 0], cpu1 |-> TRUE]
  /\ helper = [h \in Helpers |-> None]
  /\ excuses = {}

-----------------------------------------------------------------------------
(* Processes and cgroups.                                                  *)

Row1      == CgroupScripts[shell.script].steps
At        == Row1[shell.pc]
Dir       == CHOOSE d \in At.on : TRUE
Number(n) == n + 3 * (shell.round - 1)
Whose     == {Number(n) : n \in At.who}
Ours      == {Number(n) : n \in 1..3}
Named     == UNION {Row1[i].on : i \in DOMAIN Row1} \ Base

Lives(state) == state \in {"runs", "waits", "dying"}

(* A process is in one cgroup of each hierarchy.                           *)
Hierarchy(d)  ==
  IF system = "v2" THEN "v2" ELSE IF d \in DOMAIN Parent THEN Parent[d] ELSE d
Moved(at, d)  == {e \in at : Hierarchy(e) # Hierarchy(d)} \cup {d}

Population(d) ==
  Cardinality({h \in Helpers : Lives(helper[h].parent) /\ d \in helper[h].home})
  + Cardinality({h \in Helpers : Lives(helper[h].child) /\ d \in helper[h].at})
  + (IF shell.status = "runs" /\ d \in shell.at THEN 1 ELSE 0)

(* pids.max is 2 wherever it is set.                                       *)
Room(at, n) == \A d \in at : <<d, "limit">> \in fs.limits => Population(d) + n <= 2

-----------------------------------------------------------------------------
(* cgroup_fork_process.                                                    *)

(* When both processes are gone nothing is left of a helper.               *)
Buried(rec) ==
  IF rec.parent \in {"gone", "clone"} /\ rec.child \in {"none", "gone"} THEN None ELSE rec

HelperForks(h) ==
  /\ helper[h].parent = "runs"
  /\ IF Room(helper[h].home, 1)
     THEN helper' = [helper EXCEPT ![h].parent = "waits", ![h].child = "runs",
                                   ![h].at = helper[h].home]
     ELSE helper' = [helper EXCEPT ![h] = None]
  /\ UNCHANGED <<system, shell, fs, excuses>>

(* A process in a frozen v1 cgroup does not die before it is thawed.       *)
ChildDies(h) ==
  /\ helper[h].child = "dying" /\ helper[h].at \cap fs.frozen \subseteq {"Example"}
  /\ helper' = [helper EXCEPT ![h] = Buried([@ EXCEPT !.child = "gone", !.at = {}])]
  /\ UNCHANGED <<system, shell, fs, excuses>>

(* wait(NULL) returns; or the parent itself was killed.                    *)
ParentEnds(h) ==
  /\ \/ helper[h].parent = "waits" /\ helper[h].child = "gone"
     \/ helper[h].parent = "dying"
  /\ helper' = [helper EXCEPT ![h] = Buried([@ EXCEPT !.parent = "gone", !.home = {}])]
  /\ UNCHANGED <<system, shell, fs, excuses>>

-----------------------------------------------------------------------------
(* The shell takes a step.                                                 *)

Runs(op) ==
  /\ shell.status = "runs" /\ shell.pc <= Len(Row1)
  /\ At.op = op

(* Mutant of Past: a line is skipped.                                      *)
PastTwo(sh) == [sh EXCEPT !.pc = @ + 2]

Past(sh)  == [sh EXCEPT !.pc = @ + 1]
Next1(ok) == shell' = [Past(shell) EXCEPT !.ok = ok]

(* What a shell knows, and its place in a cgroup, go with it.              *)
Ended(status) ==
  [Fresh(shell.script, shell.round) EXCEPT !.status = status, !.forked = shell.forked]
EndsEarly(why) ==
  /\ shell' = Ended("ended-early")
  /\ excuses' = excuses \cup {why}

StartHelper ==
  /\ Runs("start") /\ Room(shell.at, 1) /\ Next1(TRUE)
  /\ helper' = [h \in Helpers |->
       IF h \in Whose THEN [None EXCEPT !.parent = "runs", !.home = shell.at] ELSE helper[h]]
  /\ UNCHANGED <<system, fs, excuses>>

(* pgrep prints the child if it has been forked and is not reaped yet.     *)
FindChild ==
  /\ Runs("find") /\ Room(shell.at, 1)
  /\ LET seen == {h \in Whose : Lives(helper[h].child)}
     IN  /\ shell' = [Past(shell) EXCEPT !.found = @ \cup seen, !.ok = seen # {}]
         /\ excuses' = IF seen = {} THEN excuses \cup {"missed"} ELSE excuses
  /\ UNCHANGED <<system, fs, helper>>

(* bash tries to fork for fifteen seconds, and gives up: the script ends.  *)
GivesUp ==
  /\ Runs("start") \/ Runs("find")
  /\ ~ Room(shell.at, 1) /\ EndsEarly("gave-up")
  /\ UNCHANGED <<system, fs, helper>>

NeedChild ==
  /\ Runs("need")
  /\ IF Whose \subseteq shell.found
     THEN Next1(TRUE) /\ UNCHANGED excuses
     ELSE EndsEarly("stopped")
  /\ UNCHANGED <<system, fs, helper>>

Struck(state, hit) == IF hit /\ state \in {"runs", "waits"} THEN "dying" ELSE state

(* Mutant of KillFound: only the first of the processes is killed.         *)
KillFoundOne ==
  /\ Runs("kill") /\ Next1(TRUE)
  /\ helper' = [h \in Helpers |->
       [helper[h] EXCEPT !.child =
          Struck(@, h \in Whose \cap shell.found /\ \A g \in Whose : h <= g)]]
  /\ UNCHANGED <<system, fs, excuses>>

(* kill without an argument when nothing was found.                        *)
KillFound ==
  /\ Runs("kill") /\ Next1(TRUE)
  /\ helper' = [h \in Helpers |->
       [helper[h] EXCEPT !.child = Struck(@, h \in Whose \cap shell.found)]]
  /\ UNCHANGED <<system, fs, excuses>>

(* The kernel refuses cgroup.kill in a threaded cgroup, and nobody looks.  *)
KillGroup ==
  /\ Runs("cgroup.kill") /\ Next1(TRUE)
  /\ IF Dir \in fs.threaded
     THEN UNCHANGED helper /\ excuses' = excuses \cup {"threaded"}
     ELSE /\ helper' = [h \in Helpers |->
               [helper[h] EXCEPT !.parent = Struck(@, Dir \in helper[h].home),
                                 !.child = Struck(@, Dir \in helper[h].at)]]
          /\ UNCHANGED excuses
  /\ UNCHANGED <<system, fs>>

(* ps -ef of the helpers by their name, and later kill -9 of what it       *)
(* listed.  The child of ctest_cgroupv2_clone_into has another name.       *)
Forked == {h \in Helpers : helper[h].parent # "clone"}

ListHelpers ==
  /\ Runs("list")
  /\ shell' = [Past(shell) EXCEPT !.listed =
       {<<h, "parent">> : h \in {h \in Helpers : Lives(helper[h].parent)}}
       \cup {<<h, "child">> : h \in {h \in Forked : Lives(helper[h].child)}}]
  /\ UNCHANGED <<system, fs, helper, excuses>>

KillListed ==
  /\ Runs("kill-listed") /\ Next1(TRUE)
  /\ helper' = [h \in Helpers |->
       [helper[h] EXCEPT !.parent = Struck(@, <<h, "parent">> \in shell.listed),
                         !.child = Struck(@, <<h, "child">> \in shell.listed)]]
  /\ excuses' = IF \E h \in Forked : helper[h].child = "runs" /\ <<h, "child">> \notin shell.listed
                THEN excuses \cup {"missed"} ELSE excuses
  /\ UNCHANGED <<system, fs>>

(* An empty line, a process that is gone or a directory that is not there  *)
(* is refused, and nobody looks; so is a thread, if the cgroup it comes    *)
(* from does not share the domain of the threaded one it is to go to.      *)
PutChild ==
  /\ Runs("put") \/ Runs("put-thread")
  /\ Next1(TRUE)
  /\ \/ helper' = [h \in Helpers |->
          IF h \in Whose \cap shell.found /\ Lives(helper[h].child) /\ Dir \in fs.dirs
             /\ (At.op = "put-thread" => Dir \in fs.threaded)
          THEN [helper[h] EXCEPT !.at = Moved(@, Dir)] ELSE helper[h]]
     \/ At.op = "put-thread" /\ UNCHANGED helper
  /\ UNCHANGED <<system, fs, excuses>>

(* Mutant of Join: the shell is still counted where it was.                *)
JoinStays ==
  /\ Runs("join")
  /\ shell' = [Past(shell) EXCEPT !.at = IF Dir \in fs.dirs THEN @ \cup {Dir} ELSE @]
  /\ UNCHANGED <<system, fs, helper, excuses>>

Join ==
  /\ Runs("join")
  /\ shell' = [Past(shell) EXCEPT !.at = IF Dir \in fs.dirs THEN Moved(@, Dir) ELSE @]
  /\ UNCHANGED <<system, fs, helper, excuses>>

(* ctest_cgroupv2_clone_into: the child is born in the cgroup.             *)
CloneInto ==
  /\ Runs("clone")
  /\ LET born == Dir \in fs.dirs /\ Room({Dir}, 1)
     IN  /\ helper' = [h \in Helpers |->
              IF h \in Whose /\ born
              THEN [None EXCEPT !.parent = "clone", !.child = "runs", !.at = {Dir}]
              ELSE helper[h]]
         /\ Next1(born)
  /\ UNCHANGED <<system, fs, excuses>>

(* A program that forks is run and waited for; it needs room for itself    *)
(* and for the child.                                                      *)
RunForking ==
  /\ Runs("run-forking")
  /\ shell' = [Past(shell) EXCEPT !.forked = @ \/ Room(shell.at, 2)]
  /\ UNCHANGED <<system, fs, helper, excuses>>

-----------------------------------------------------------------------------
(* Directories, mounts and attributes.                                     *)

Known(d) == d \notin DOMAIN Parent \/ Parent[d] \in fs.dirs

MakeDir ==
  /\ Runs("make") /\ Next1(TRUE)
  /\ fs' = [fs EXCEPT !.dirs = @ \cup {Dir} \cup {Parent[d] : d \in {Dir} \cap DOMAIN Parent}]
  /\ UNCHANGED <<system, helper, excuses>>

Below(d) == {e \in fs.dirs \cap DOMAIN Parent : Parent[e] = d}

Allowed(d) ==
  /\ d \notin fs.dirs /\ Known(d)
  /\ <<"Example3", "descendants">> \in fs.limits =>
       Cardinality(fs.dirs \cap {"Example3/1", "Example3/2", "Example3/3", "Example3/3/1"}) < 2
  /\ <<"Example3", "depth">> \in fs.limits => d # "Example3/3/1"

TryDir ==
  /\ Runs("try") \/ (Runs("try-if-made") /\ shell.ok)
  /\ fs' = IF Allowed(Dir) THEN [fs EXCEPT !.dirs = @ \cup {Dir}] ELSE fs
  /\ Next1(Allowed(Dir))
  /\ UNCHANGED <<system, helper, excuses>>

SkipTry ==
  /\ Runs("try-if-made") /\ ~ shell.ok /\ Next1(FALSE)
  /\ UNCHANGED <<system, fs, helper, excuses>>

(* rmdir refuses a cgroup with a process in it, also a dying one, and a    *)
(* directory with something below it or mounted on it.                     *)
RemoveDirs ==
  /\ Runs("remove")
  /\ LET left == {d \in At.on \cap fs.dirs :
                    Population(d) > 0 \/ Below(d) # {} \/ (d \in Plain /\ fs.mounts[d] > 0)}
         gone == (At.on \cap fs.dirs) \ left
         own  == \/ shell.at \cap left # {}
                 \/ \E h \in Ours :
                      \/ helper[h].child = "runs" /\ helper[h].at \cap left # {}
                      \/ helper[h].parent \in {"runs", "waits"} /\ helper[h].home \cap left # {}
                 \/ \E d \in left : (Below(d) \cap Named) \ Plain # {}
         raced == \E h \in Helpers : helper[h].child = "dying" /\ helper[h].at \cap left # {}
     IN  /\ fs' = [fs EXCEPT !.dirs = @ \ gone, !.frozen = @ \ gone,
                             !.threaded = @ \ gone, !.limits = {l \in @ : l[1] \notin gone}]
         /\ excuses' = excuses \cup
              (IF left = {} THEN {} ELSE
               {IF own THEN "occupied" ELSE IF raced THEN "raced" ELSE "left-over"})
         /\ Next1(left = {})
  /\ UNCHANGED <<system, helper>>

(* The v1 controllers cannot be mounted where v2 has them.                 *)
Mount ==
  /\ Runs("mount")
  /\ \/ /\ Dir \in fs.dirs /\ ~ (system = "v2" /\ Dir = "/tmp/cgroup/memory")
        /\ fs' = [fs EXCEPT !.mounts[Dir] = @ + 1]
        /\ Next1(TRUE) /\ UNCHANGED excuses
     \/ Next1(FALSE) /\ excuses' = excuses \cup {"refused"} /\ UNCHANGED fs
  /\ UNCHANGED <<system, helper>>

Umount ==
  /\ Runs("umount")
  /\ \/ /\ fs.mounts[Dir] > 0 /\ \A d \in Below(Dir) : fs.mounts[d] = 0
        /\ fs' = [fs EXCEPT !.mounts[Dir] = @ - 1]
        /\ Next1(TRUE) /\ UNCHANGED excuses
     \/ Next1(FALSE) /\ excuses' = excuses \cup {"refused"} /\ UNCHANGED fs
  /\ UNCHANGED <<system, helper>>

(* mv within the hierarchy; onto a directory that is there it is refused.  *)
Rename ==
  /\ Runs("rename") /\ Next1(TRUE)
  /\ fs' = IF Dir \in fs.dirs /\ "memory/Example2" \notin fs.dirs
           THEN [fs EXCEPT !.dirs = (@ \ {Dir}) \cup {"memory/Example2"}]
           ELSE fs
  /\ UNCHANGED <<system, helper, excuses>>

Freeze ==
  /\ Runs("freeze") /\ Next1(TRUE)
  /\ fs' = [fs EXCEPT !.frozen = @ \cup (At.on \cap fs.dirs)]
  /\ UNCHANGED <<system, helper, excuses>>

(* Mutant of Thaw: what is written does not thaw.                          *)
ThawNothing ==
  /\ Runs("thaw") /\ Next1(TRUE)
  /\ UNCHANGED <<system, fs, helper, excuses>>

Thaw ==
  /\ Runs("thaw") /\ Next1(TRUE)
  /\ fs' = [fs EXCEPT !.frozen = @ \ At.on]
  /\ UNCHANGED <<system, helper, excuses>>

(* A cgroup with a process in it is not made threaded; a threaded one      *)
(* stays so until it is removed.                                           *)
MakeThreaded ==
  /\ Runs("threaded") /\ Next1(TRUE)
  /\ fs' = [fs EXCEPT !.threaded = @ \cup {d \in At.on \cap fs.dirs : Population(d) = 0}]
  /\ UNCHANGED <<system, helper, excuses>>

SetLimit ==
  /\ \E kind \in {"limit", "depth", "descendants"} :
       /\ Runs(kind)
       /\ fs' = [fs EXCEPT !.limits = @ \cup ((At.on \cap fs.dirs) \X {kind})]
  /\ Next1(TRUE)
  /\ UNCHANGED <<system, helper, excuses>>

(* Mutant of CpuHotplug: 0 is written both times.                          *)
CpuHotplugOnce ==
  /\ Runs("cpu-off") \/ Runs("cpu-on")
  /\ Next1(TRUE)
  /\ fs' = [fs EXCEPT !.cpu1 = FALSE]
  /\ UNCHANGED <<system, helper, excuses>>

CpuHotplug ==
  /\ Runs("cpu-off") \/ Runs("cpu-on")
  /\ Next1(TRUE)
  /\ fs' = [fs EXCEPT !.cpu1 = (At.op = "cpu-on")]
  /\ UNCHANGED <<system, helper, excuses>>

-----------------------------------------------------------------------------
(* Checks, and the end of a script.                                        *)

(* An address that kallsyms may hide; a module file that may be missing,   *)
(* or that insmod may refuse.                                              *)
Attempt ==
  /\ Runs("address") \/ Runs("file") \/ Runs("load")
  /\ \E ok \in BOOLEAN : Next1(ok)
  /\ UNCHANGED <<system, fs, helper, excuses>>

OrExits ==
  /\ Runs("or-exit")
  /\ IF shell.ok THEN Next1(TRUE) /\ UNCHANGED excuses ELSE EndsEarly("stopped")
  /\ UNCHANGED <<system, fs, helper>>

GuardDir ==
  /\ Runs("guard")
  /\ IF Dir \in fs.dirs THEN Next1(TRUE) /\ UNCHANGED excuses ELSE EndsEarly("stopped")
  /\ UNCHANGED <<system, fs, helper>>

(* check_cgroup_v1, whose result line 36 never sees.                       *)
CheckV1 ==
  /\ Runs("check") /\ Next1(TRUE)
  /\ UNCHANGED <<system, fs, helper, excuses>>

EndOfScript ==
  /\ shell.status = "runs" /\ shell.pc > Len(Row1)
  /\ shell' = Ended("done")
  /\ UNCHANGED <<system, fs, helper, excuses>>

(* Somebody stops the run and starts again.                                *)
Interrupt ==
  /\ shell.round < MaxRounds /\ shell.status = "runs"
  /\ EndsEarly("interrupted")
  /\ UNCHANGED <<system, fs, helper>>

NextScript ==
  /\ shell.round < MaxRounds /\ shell.status # "runs"
  /\ \E s \in {s \in DOMAIN CgroupScripts : Runnable(s)} : shell' = Fresh(s, shell.round + 1)
  /\ excuses' = {}
  /\ UNCHANGED <<system, fs, helper>>

ShellStep ==
  \/ StartHelper \/ FindChild \/ GivesUp \/ NeedChild \/ KillFound \/ KillGroup \/ ListHelpers
  \/ KillListed \/ PutChild \/ Join \/ CloneInto \/ RunForking \/ MakeDir \/ TryDir \/ SkipTry
  \/ RemoveDirs \/ Mount \/ Umount \/ Rename \/ Freeze \/ Thaw \/ MakeThreaded \/ SetLimit
  \/ CpuHotplug \/ Attempt \/ OrExits \/ GuardDir \/ CheckV1 \/ EndOfScript

HelperStep(h) == HelperForks(h) \/ ChildDies(h) \/ ParentEnds(h)

Next == ShellStep \/ NextScript \/ Interrupt \/ \E h \in Helpers : HelperStep(h)

(* Something goes on as long as the shell or a helper can run, or a killed *)
(* process can die.                                                        *)
Fairness == WF_vars(ShellStep \/ \E h \in Helpers : HelperStep(h))

Spec == Init /\ [][Next]_vars /\ Fairness

-----------------------------------------------------------------------------
(* Properties.                                                             *)

Uses(op)     == \E i \in DOMAIN Row1 : Row1[i].op = op
ChildLives(h) == Lives(helper[h].child)

(* The script is over, every helper has forked or failed to, and every     *)
(* killed process is gone.                                                 *)
Settled ==
  /\ shell.status # "runs"
  /\ \A h \in Helpers :
       /\ helper[h].parent \notin {"runs", "dying"} /\ helper[h].child # "dying"
       /\ helper[h].parent = "waits" => helper[h].child = "runs"

(* The script that looks for its module between its fork and its kill.     *)
StopsShort == {"test_cgroup_cpuset_mem_allowed"}

(* A script leaves a child running only if pgrep or ps came before the     *)
(* fork of one of its helpers, if the script before it has left the cgroup *)
(* it kills threaded, if it was interrupted or could not start pgrep, or   *)
(* if it is the one that exits, without its kill, when a file is missing.  *)
LostOnlyIfMissed ==
  (Settled /\ \E h \in Ours : ChildLives(h))
  => \/ excuses \cap {"missed", "threaded", "gave-up", "interrupted"} # {}
     \/ shell.script \in StopsShort /\ "stopped" \in excuses

(* What a script keeps on purpose, or forgets: the renamed directory of    *)
(* test_cgroup_v1.sh, and all that perf_events_cgroup.sh makes.            *)
Kept == {"memory/Example2", "perf_event/perf_test"}

(* A script that ran to its end has removed the directories it names, also *)
(* those it found there, unless a process it had just killed was still in  *)
(* one of them, one was in use before, or a mount or umount was refused.   *)
DirsGoUnlessExcused ==
  (Settled /\ shell.status = "done" /\ excuses \subseteq {"missed"})
  => Named \cap fs.dirs \subseteq Kept

(* No script tries to remove a directory while it is itself in it, while   *)
(* a process it has started, and not yet killed, is in it, or while there  *)
(* is a cgroup of its own below it; unless its cgroup.kill was refused.    *)
OwnGroupsEmptied == "occupied" \in excuses => "threaded" \in excuses

(* A script that ran to its end has brought cpu1 back, thawed its cgroup   *)
(* and, if nothing was refused, undone the mounts it found undone.         *)
MachineRestored ==
  shell.status = "done" =>
    /\ Uses("cpu-off") => fs.cpu1
    /\ Uses("freeze") => fs.frozen \cap Named = {}
    /\ (shell.round = 1 /\ "refused" \notin excuses) => \A m \in Plain : fs.mounts[m] = 0

(* The two scripts that set pids.max count on a fork that fails: as long   *)
(* as the shell has not been ended, which makes room in the cgroup, no     *)
(* process it has started there has a child; also after it has left the    *)
(* cgroup, for pgrep could not be started while the helper was there.      *)
LimitRefusesFork ==
  (/\ shell.script \in {"test_cgroup_v2_pids", "test_perf_event_free_task"}
   /\ shell.status # "ended-early")
  => ~ shell.forked /\ \A h \in Ours : helper[h].child = "none"

(* Where the hierarchy they need is not there, the scripts that look for   *)
(* it make nothing and start nothing.  test_cgroup_v1.sh is the exception  *)
(* of V1CheckStops.                                                        *)
GuardedScriptsStop ==
  (system = "v2" /\ shell.script \in Guarded \ {"test_cgroup_v1"}) =>
    Named \cap fs.dirs = {} /\ \A h \in Ours : helper[h] = None

(* test_cgroup_ns.sh ends with no helper left, also of earlier scripts, if *)
(* none of them forked after ps had listed them.                           *)
NsSweeps ==
  (Settled /\ shell.script = "test_cgroup_ns" /\ shell.status = "done" /\ excuses = {})
  => \A h \in Forked : ~ ChildLives(h)

(* Processes: who is still there after a script, and who may not be there  *)
(* because of the limit it has set.                                        *)
ProcessesAsMeant == LostOnlyIfMissed /\ NsSweeps /\ LimitRefusesFork

(* Directories: removed at the end, and never tried while in own use.      *)
DirsGo == DirsGoUnlessExcused /\ OwnGroupsEmptied

(* The rest of the machine: brought back by the scripts that change it,    *)
(* untouched by those that find the wrong hierarchy.                       *)
MachineKept == MachineRestored /\ GuardedScriptsStop

(* Every script ends, and all it has killed is gone at last.               *)
Settles == <>[]Settled

(* test_cgroup_v1.sh:39: without v1 hierarchies the script says so and     *)
(* exits.                                                                  *)
V1CheckStops ==
  (shell.script = "test_cgroup_v1" /\ system = "v2") => shell.pc = 1
=============================================================================
