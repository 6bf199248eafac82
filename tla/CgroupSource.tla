---------------------------- MODULE CgroupSource ----------------------------
(***************************************************************************)
(* What the source of the cgroup and CPU scripts must be like for their    *)
(* properties to hold: checks of the rows alone, which look at the lines   *)
(* before a line, and the assumption that the scripts of the repository    *)
(* pass them.                                                              *)
(***************************************************************************)
EXTENDS CgroupScripts

Scripts   == DOMAIN CgroupScripts
Code(k)   == CgroupScripts[k].steps
Before(i) == 1..(i - 1)
End(c)    == Len(c) + 1

Kinds    == {"limit", "depth", "descendants"}
OneDir   == {"put", "put-thread", "join", "clone", "cgroup.kill", "make", "try",
             "try-if-made", "threaded", "mount", "umount", "rename", "guard"}
OneChild == {"start", "find", "put", "put-thread", "clone"}

StepOK(s) ==
  /\ s.on \subseteq Dirs /\ s.who \subseteq 1..3
  /\ s.op \in OneDir => \E d \in Dirs : s.on = {d}
  /\ s.op \in OneChild => \E n \in 1..3 : s.who = {n}
  /\ s.op \in {"mount", "umount"} => s.on \subseteq Plain
  /\ s.op \in Kinds \cup {"freeze", "threaded"} => s.on \subseteq Cgroups
  /\ s.op \in {"remove", "rename"} => s.on \cap Base = {}

ASSUME StepsAssumption ==
  \A k \in Scripts :
    /\ CgroupScripts[k].system \in {"v1", "v2", "any"}
    /\ Code(k) \in Seq({Code(k)[i] : i \in DOMAIN Code(k)})
    /\ \A i \in DOMAIN Code(k) : StepOK(Code(k)[i])

-----------------------------------------------------------------------------
(* Directories.                                                            *)

Adds(s, d) ==
  \/ s.op \in {"make", "try", "try-if-made"} /\ d \in s.on
  \/ s.op = "make" /\ \E e \in s.on \cap DOMAIN Parent : d = Parent[e]
  \/ s.op = "rename" /\ d = "memory/Example2"
Removes(s, d) == s.op \in {"remove", "rename"} /\ d \in s.on

(* At line i directory d has been made or seen, and not removed.           *)
Present(c, d, i) ==
  \E j \in Before(i) :
    /\ c[j].op \in {"guard", "make"} /\ d \in c[j].on
    /\ \A k \in (j + 1)..(i - 1) : ~Removes(c[k], d)

(* At line i directory d has been removed, and not made again.             *)
Cleared(c, d, i) ==
  \E j \in Before(i) :
    /\ Removes(c[j], d)
    /\ \A k \in (j + 1)..(i - 1) : ~Adds(c[k], d)

(* At line i a limit is set of a directory that is there.                  *)
Limited(c, d, kind, i) ==
  \E j \in Before(i) :
    /\ c[j].op = kind /\ d \in c[j].on /\ Present(c, d, j)
    /\ \A k \in (j + 1)..(i - 1) : ~Removes(c[k], d)

Names(c) == UNION {c[i].on : i \in DOMAIN c} \ Base

(* Below the only level that test_cgroup_v2_rw_dep.sh may make.            *)
Deep == "Example3/3/1"

(* A script removes what it names; it makes a directory below another only *)
(* if that is allowed, and renames to a name it has cleared.               *)
ASSUME DirsAssumption ==
  /\ "Example3" \in Cgroups
  /\ \A k \in Scripts : LET c == Code(k) IN
       /\ \A d \in Names(c) \ (Kept \cup {Deep}) : Cleared(c, d, End(c))
       /\ \A i \in DOMAIN c :
            /\ c[i].op = "rename" => Cleared(c, "memory/Example2", i)
            /\ Adds(c[i], Deep) =>
                 c[i].op \in {"try", "try-if-made"} /\ Limited(c, "Example3", "depth", i)

V1Only     == {"freezer", "debug", "freezer/Example", "debug/Example"}
LooksFor(c) == Len(c) > 0 /\ c[1].op = "guard" /\ c[1].on \subseteq V1Only

(* What may be started on v2 makes nothing of v1 before it has looked.     *)
ASSUME GuardAssumption ==
  \A k \in Scripts : LET c == Code(k) IN
    /\ k \in Guarded => CgroupScripts[k].system = "v1"
    /\ CgroupScripts[k].system \in {"any", "v2"} \/ k \in Guarded =>
         LooksFor(c) \/ \A i \in DOMAIN c : \A d \in V1Only : ~Adds(c[i], d)
    /\ k \in Guarded \ {"test_cgroup_v1"} => LooksFor(c) /\ Names(c) \subseteq V1Only

-----------------------------------------------------------------------------
(* The place of the shell, and its limit.                                  *)

Hierarchy1(d) == IF d \in DOMAIN Parent THEN Parent[d] ELSE d

(* At line i the shell may be in cgroup d, or is surely in it.             *)
MayBeIn(c, d, i) ==
  \E j \in Before(i) :
    /\ c[j].op = "join" /\ d \in c[j].on
    /\ \A k \in (j + 1)..(i - 1) : c[k].op # "join"

IsIn(c, d, i) ==
  \E j \in Before(i) :
    /\ c[j].op = "join" /\ d \in c[j].on /\ Present(c, d, j)
    /\ \A k \in (j + 1)..(i - 1) : c[k].op # "join"

(* A second cgroup the shell joins is there, and in the same hierarchy.    *)
ASSUME JoinAssumption ==
  \A k \in Scripts : LET c == Code(k) IN
    \A i \in DOMAIN c : c[i].op = "join" =>
      \A j \in Before(i) : c[j].op = "join" =>
        \A d \in c[i].on, e \in c[j].on :
          /\ Present(c, d, i) \/ (CgroupScripts[k].system = "v2" /\ d = "root")
          /\ CgroupScripts[k].system = "v2" \/ Hierarchy1(d) = Hierarchy1(e)

Limiting == {"test_cgroup_v2_pids", "test_perf_event_free_task"}
Crowded(c, i) == IsIn(c, "Example", i) /\ Limited(c, "Example", "limit", i)

(* The two scripts that count on a fork that fails fork in a cgroup that   *)
(* is full, and nothing but pgrep follows.  The others never start a       *)
(* helper in a cgroup.                                                     *)
ASSUME LimitAssumption ==
  /\ "Example" \in Cgroups
  /\ \A k \in Scripts : LET c == Code(k) IN
       \A i \in DOMAIN c :
         /\ k \in Limiting =>
              /\ c[i].op \notin {"clone", "need", "or-exit", "guard"}
              /\ c[i].op \in {"start", "run-forking"} => Crowded(c, i)
              /\ c[i].op = "start" =>
                   i + 1 \in DOMAIN c /\ c[i + 1].op = "find" /\ Crowded(c, i + 1)
         /\ k \notin Limiting /\ c[i].op = "start" => \A j \in Before(i) : c[j].op # "join"

-----------------------------------------------------------------------------
(* Helpers.                                                                *)

About(s, ops, n) == s.op \in ops /\ n \in s.who
Starts(s, n)     == About(s, {"start", "clone"}, n)
StartedAt(c, n, i) == \E j \in Before(i) : Starts(c[j], n)
FoundAt(c, n, i)   == \E j \in Before(i) : About(c[j], {"find"}, n)

(* A helper is started once, then its child is found, then it is put and   *)
(* killed.  A child that is born in its cgroup is only killed with that.   *)
ASSUME OrderAssumption ==
  \A k \in Scripts : LET c == Code(k) IN
    \A i, j \in DOMAIN c, n \in 1..3 :
      /\ Starts(c[i], n) /\ Starts(c[j], n) => i = j
      /\ Starts(c[i], n) /\ About(c[j], {"find"}, n) => i < j
      /\ About(c[i], {"find"}, n) /\ About(c[j], {"put", "put-thread", "kill"}, n) => i < j
      /\ About(c[i], {"put", "put-thread", "kill", "need"}, n) => FoundAt(c, n, i)
      /\ About(c[i], {"clone"}, n) =>
           ~About(c[j], {"find", "put", "put-thread", "kill"}, n)

(* At line i child n may be in cgroup d, or is surely in it.               *)
MayHold(c, n, d, i) ==
  \E j \in Before(i) :
    /\ About(c[j], {"put", "put-thread", "clone"}, n) /\ d \in c[j].on
    /\ \A k \in (j + 1)..(i - 1) :
         ~About(c[k], {"kill"}, n) /\ ~(c[k].op = "cgroup.kill" /\ d \in c[k].on)

Holds(c, n, d, i) ==
  \E j \in Before(i) :
    /\ About(c[j], {"put"}, n) /\ d \in c[j].on /\ Present(c, d, j)
    /\ \A k \in (j + 1)..(i - 1) : ~About(c[k], {"put", "put-thread"}, n)

Born(c, n, d, i) == \E j \in Before(i) : About(c[j], {"clone"}, n) /\ d \in c[j].on

(* Nobody is ever in these, and nothing but Deep is below them.            *)
Empty == {"Example/g1", "Example3/1", "Example3/2", "Example3/3"}

ASSUME EmptyAssumption ==
  /\ "memory/Example2" \in Dirs
  /\ \A e \in DOMAIN Parent :
       Parent[e] \in Dirs \ {Deep} /\ (Parent[e] \in Empty => e = Deep)
  /\ Empty \cap (Plain \cup Base) = {} /\ Deep \notin Base
  /\ \A k \in Scripts : \A i \in DOMAIN Code(k) :
       Code(k)[i].op \in {"put", "put-thread", "join", "clone", "rename"} =>
         Code(k)[i].on \cap Empty = {}

(* A directory is removed when nobody that the script knows of is in it,   *)
(* and what the script has made below it is gone.                          *)
ASSUME RemoveAssumption ==
  \A k \in Scripts : LET c == Code(k) IN
    \A i \in DOMAIN c : c[i].op = "remove" => \A d \in c[i].on :
      /\ ~MayBeIn(c, d, i)
      /\ k \in Limiting \/ \A n \in 1..3 : ~MayHold(c, n, d, i)
      /\ \A e \in Names(c) \ (Plain \cup {Deep}) :
           e \in DOMAIN Parent /\ Parent[e] = d => e \in Empty /\ Cleared(c, e, i)

(* Before line i child n has been killed: by its number, with the cgroup   *)
(* it is in, or by the list of all helpers.                                *)
ListedAt(c, i) ==
  \E j \in Before(i) :
    /\ c[j].op = "list"
    /\ \A k \in (j + 1)..(i - 1) : c[k].op # "start"

Swept(c, i) ==
  \E j \in Before(i) :
    /\ c[j].op = "kill-listed" /\ ListedAt(c, j)
    /\ \A k \in (j + 1)..(i - 1) : c[k].op # "start"
    /\ \A k \in DOMAIN c : c[k].op # "clone"

KilledAt(c, n, i) == FoundAt(c, n, i) /\ \E j \in Before(i) : About(c[j], {"kill"}, n)

KilledWith(c, n, i) ==
  \E j \in Before(i) :
    /\ c[j].op = "cgroup.kill"
    /\ \E d \in c[j].on :
         \/ Born(c, n, d, j)
         \/ FoundAt(c, n, j) /\ Holds(c, n, d, j)

Struckdown(c, n, i) == KilledAt(c, n, i) \/ KilledWith(c, n, i) \/ Swept(c, i)

(* Where a script may end, it has killed what it has started; at its last  *)
(* line also the one that may exit before.                                 *)
ASSUME KillAssumption ==
  \A k \in Scripts \ Limiting : LET c == Code(k) IN
    /\ \A i \in 1..End(c), n \in 1..3 :
         /\ i = End(c) \/ (k \notin StopsShort /\ c[i].op \in {"or-exit", "guard"})
         /\ StartedAt(c, n, i)
         => Struckdown(c, n, i)
    /\ k = "test_cgroup_ns" => Swept(c, End(c))

-----------------------------------------------------------------------------
(* The rest of the machine.                                                *)

CpuBack(c, i) ==
  \E j \in Before(i) :
    c[j].op = "cpu-on" /\ \A k \in (j + 1)..(i - 1) : c[k].op # "cpu-off"

Thawed(c, d, i) ==
  \E j \in Before(i) :
    /\ c[j].op = "thaw" /\ d \in c[j].on
    /\ \A k \in (j + 1)..(i - 1) : ~(c[k].op = "freeze" /\ d \in c[k].on)

MountedAt(c, d, i) ==
  \E j \in Before(i) :
    /\ c[j].op = "mount" /\ d \in c[j].on
    /\ \A k \in (j + 1)..(i - 1) : ~(c[k].op = "umount" /\ d \in c[k].on)

(* A script that takes cpu1 off brings it back; one that freezes thaws     *)
(* what it names; each directory is mounted once, and unmounted.           *)
ASSUME MachineAssumption ==
  \A k \in Scripts : LET c == Code(k) IN
    /\ (\E i \in DOMAIN c : c[i].op = "cpu-off") => CpuBack(c, End(c))
    /\ (\E i \in DOMAIN c : c[i].op = "freeze") => \A d \in Names(c) : Thawed(c, d, End(c))
    /\ \A i, j \in DOMAIN c :
         c[i].op = "mount" /\ c[j].op = "mount" /\ c[i].on \cap c[j].on # {} => i = j
    /\ \A d \in Plain : ~MountedAt(c, d, End(c))
=============================================================================
