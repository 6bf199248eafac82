------------------------- MODULE CgroupScriptTable -------------------------
(***************************************************************************)
(* The shell scripts that build cgroups, as rows of steps.  Most of them   *)
(* start cgroup_fork_process in the background, look for the child it      *)
(* forks, move that child about, kill it and remove what they made.        *)
(*                                                                         *)
(* A row says which system the runner starts the script on, and its steps: *)
(* what each does (op), the directories it does it to (on) and the helpers *)
(* it is about (who).  Directories are named as below the mount point:     *)
(* "Example" of cgroup v2, "cpu/Example1" of the v1 hierarchy cpu.  Left   *)
(* out are the files a script only prints, and what it writes to files     *)
(* that no later step depends on (cpuset masks and partitions, pressure    *)
(* thresholds, cpuset enabled in subtree_control, which refuses nothing    *)
(* because it is a threaded controller).                                   *)
(***************************************************************************)

EXTENDS Sequences

To(op, d)     == [op |-> op, on |-> {d}, who |-> {}]
Of(op, who)   == [op |-> op, on |-> {}, who |-> who]
Do(op)        == [op |-> op, on |-> {}, who |-> {}]
Row(on, steps) == [system |-> on, steps |-> steps]

Start(n)   == Of("start", {n})     \* ./cgroup_fork_process &
Find(n)    == Of("find", {n})      \* CPID=$(pgrep -P $PID)
Need(n)    == Of("need", {n})      \* [ -z "$CPID" ] and exit 1
Kill(who)  == Of("kill", who)      \* kill -9 $CPID
Put(n, d)  == [op |-> "put", on |-> {d}, who |-> {n}]   \* echo $CPID > cgroup.procs
Make(d)    == To("make", d)        \* mkdir -p where there is no such directory
Try(d)     == To("try", d)         \* mkdir
Remove(d)  == To("remove", d)      \* rmdir
Guard(d)   == To("guard", d)       \* [ -d ... ] or exit 1
OrExit     == Do("or-exit")        \* [ $? -eq 0 ] or exit 1
Load       == Do("load")           \* insmod
Threaded(d) == To("threaded", d)   \* echo threaded > cgroup.type

(* echo 0 and echo 1 to cpu1/online, as six scripts do.                    *)
cpu_hotplug == <<Do("cpu-off"), Do("cpu-on")>>

-----------------------------------------------------------------------------
(* cgroup v2.                                                              *)

(* The module file is looked for when the child runs already.              *)
test_cgroup_cpuset_mem_allowed == Row("v2",
  <<Start(1), Find(1), Need(1), Do("file"), OrExit, Load, Kill({1})>>)

test_cgroup_freezer == Row("v2",
  <<Start(1), Find(1), Need(1), Make("Example"), Put(1, "Example"),
    To("freeze", "Example"), To("thaw", "Example"), Kill({1}), Remove("Example")>>)

test_cgroup_v2 == Row("v2",
  <<Make("/tmp/Example"), To("mount", "/tmp/Example"), OrExit,
    To("umount", "/tmp/Example"), OrExit, Remove("/tmp/Example"),
    Start(1), Find(1), Need(1), Make("Example"), Put(1, "root"), Put(1, "Example"),
    Kill({1}), Remove("Example")>>)

test_cgroup_v2_threaded == Row("v2",
  <<Make("Example2"), Threaded("Example2"), Start(1), Find(1), Need(1),
    Put(1, "Example2"), Kill({1}), Remove("Example2")>>)

test_cgroup_v2_rebuild == Row("v2",
  <<Start(1), Find(1), Make("Example"), Put(1, "Example")>> \o cpu_hotplug
  \o <<Kill({1}), Remove("Example")>>)

test_cgroup_cpuset == Row("v2",
  <<Start(1), Find(1), Make("Example"), Put(1, "Example")>> \o cpu_hotplug
  \o <<Kill({1}), Make("Example/g1"), Remove("Example/g1"), Remove("Example")>>)

test_cgroup_v2_rstat == Row("v2",
  <<Make("Example"), Start(1), Find(1), Put(1, "Example"), Kill({1}), Remove("Example")>>)

(* The shell itself counts against pids.max.                               *)
test_cgroup_v2_pids == Row("v2",
  <<Make("Example"), To("limit", "Example"), To("join", "Example"), Start(1), Find(1),
    Put(1, "Example"), To("join", "root"), Remove("Example")>>)

(* Depth 1 and two descendants at most; the directory below the first one  *)
(* is tried only if that one was made.                                     *)
test_cgroup_v2_rw_dep == Row("v2",
  <<Make("Example3"), To("depth", "Example3"), Try("Example3/3"),
    To("try-if-made", "Example3/3/1"), To("descendants", "Example3"),
    Try("Example3/1"), Try("Example3/2"),
    [op |-> "remove", on |-> {"Example3/1", "Example3/2", "Example3/3"}, who |-> {}],
    Remove("Example3")>>)

(* ctest_cgroup_poll, started here, only waits two seconds for a file.     *)
test_cgroup_v2_rw_pressure == Row("v2", <<Make("Example"), Remove("Example")>>)

test_cgroup_misc == Row("v2", <<Load, Try("Example"), Remove("Example")>>)

(* The helpers are listed by ps and killed by xargs.                       *)
test_cgroup_ns == Row("v2",
  <<Start(1), Start(2), Do("list"), Do("kill-listed")>>)

test_cgroup_get_from_file == Row("v2",
  <<Make("Example"), [op |-> "clone", on |-> {"Example"}, who |-> {1}],
    To("cgroup.kill", "Example"), Remove("Example")>>)

test_cgroupv2_kill == Row("v2",
  <<Make("Example"), Start(1), Find(1), Put(1, "Example"), To("cgroup.kill", "Example"),
    Remove("Example")>>)

(* cgroup.threads takes a thread only of the same threaded domain.         *)
test_cgroupv2_threads_rw == Row("v2",
  <<Make("Example"), Threaded("Example"), Start(1), Find(1),
    [op |-> "put-thread", on |-> {"Example"}, who |-> {1}], Kill({1}), Remove("Example")>>)

test_cgroupv2_cpuset_initfs == Row("v2",
  <<Make("/tmp/cpuset"), To("mount", "/tmp/cpuset"), To("umount", "/tmp/cpuset"),
    Remove("/tmp/cpuset")>>)

test_cgroupv2_reconfigure == Row("v2",
  <<Make("/tmp/cgroup"), To("mount", "/tmp/cgroup"), To("umount", "/tmp/cgroup"),
    Remove("/tmp/cgroup")>>)

test_cgroupv2_irq_pressure_rw == Row("v2", <<Make("Example"), Remove("Example")>>)

test_cgroupv2_finalize_control == Row("v2",
  <<Make("Example"), Do("address"), OrExit, Load, OrExit, Remove("Example")>>)

(* The event program is run in a cgroup where it cannot fork.              *)
test_perf_event_free_task == Row("v2",
  <<Make("Example"), To("limit", "Example"), To("join", "Example"), Do("run-forking"),
    To("join", "root"), Remove("Example")>>)

-----------------------------------------------------------------------------
(* cgroup v1.                                                              *)

(* cgroup_v1_used is local to check_cgroup_v1: at line 36 it is empty, and *)
(* an empty command succeeds.                                              *)
check_cgroup_v1 == Do("check")

test_cgroup_v1 == Row("v1",
  <<check_cgroup_v1, Make("cpu/Example1"), Make("memory/Example2"),
    Start(1), Find(1), Need(1), Put(1, "cpu/Example1"),
    Start(2), Find(2), Need(2), Put(2, "memory/Example2"), Put(2, "cpu/Example1"),
    Kill({1, 2}),
    [op |-> "remove", on |-> {"cpu/Example1", "memory/Example2"}, who |-> {}],
    Make("/tmp/cgroup"), To("mount", "/tmp/cgroup"), OrExit,
    Make("/tmp/cgroup/memory"), To("mount", "/tmp/cgroup/memory"), OrExit,
    Make("memory/Example"),
    Start(3), Find(3), Need(3), Put(3, "memory/Example"), Put(3, "memory"),
    To("rename", "memory/Example"), Kill({3}),
    To("umount", "/tmp/cgroup/memory"), Remove("/tmp/cgroup/memory"),
    To("umount", "/tmp/cgroup"), Remove("/tmp/cgroup")>>)

test_cgroup_v1_attach_task == Row("v1",
  <<Do("file"), OrExit, Start(1), Find(1), Need(1), Start(2), Find(2), Need(2), Load,
    Kill({1, 2})>>)

test_cgroup_v1_freezer == Row("v1",
  <<Guard("freezer"), Make("freezer/Example"), Start(1), Find(1), Put(1, "freezer/Example"),
    To("freeze", "freezer/Example"), To("thaw", "freezer/Example"), Kill({1}),
    Remove("freezer/Example")>>)

test_cgroup_v1_cpuset == Row("v1",
  <<Make("cpuset/Example"), Start(1), Find(1), Put(1, "cpuset/Example")>> \o cpu_hotplug
  \o <<Kill({1}), Remove("cpuset/Example")>>)

test_cgroup_v1_rebuild == Row("v1",
  <<Make("cpuset/Example"), Start(1), Find(1), Put(1, "cpuset")>> \o cpu_hotplug
  \o <<Kill({1}), Remove("cpuset/Example")>>)

test_cgroupv1_tasks_write == Row("v1",
  <<Make("cpuset/Example"), Start(1), Find(1), Put(1, "cpuset/Example"), Kill({1}),
    Remove("cpuset/Example")>>)

test_debug_inforead == Row("v1",
  <<Guard("debug"), Make("debug/Example"), Remove("debug/Example")>>)

test_legacy_freezing_read == Row("v1",
  <<Guard("freezer"), Make("freezer/Example"), Remove("freezer/Example")>>)

test_cgroup_v1_debug == Row("v1", <<Guard("debug")>>)

-----------------------------------------------------------------------------
(* Any system.                                                             *)

(* The shell joins the cgroup its program counts the events of.            *)
test_perf_event_min_heap == Row("any",
  <<Guard("perf_event"), Try("perf_event/Example"), To("join", "perf_event/Example"),
    To("join", "perf_event"), Remove("perf_event/Example")>>)

(* Ten directories perf_test_1 to perf_test_10, of which one stands for    *)
(* all; nothing removes them.  mkdir -p makes perf_event too, on v2.       *)
perf_events_cgroup == Row("any", <<Make("perf_event/perf_test")>>)

test_signal_send_sig == Row("any", <<Start(1), Find(1), Need(1), Load, Kill({1})>>)

perf_cpux_exit == Row("any", cpu_hotplug)

-----------------------------------------------------------------------------

CgroupScripts ==
  [test_cgroup_cpuset_mem_allowed |-> test_cgroup_cpuset_mem_allowed,
   test_cgroup_freezer |-> test_cgroup_freezer,
   test_cgroup_v2 |-> test_cgroup_v2,
   test_cgroup_v2_threaded |-> test_cgroup_v2_threaded,
   test_cgroup_v2_rebuild |-> test_cgroup_v2_rebuild,
   test_cgroup_cpuset |-> test_cgroup_cpuset,
   test_cgroup_v2_rstat |-> test_cgroup_v2_rstat,
   test_cgroup_v2_pids |-> test_cgroup_v2_pids,
   test_cgroup_v2_rw_dep |-> test_cgroup_v2_rw_dep,
   test_cgroup_v2_rw_pressure |-> test_cgroup_v2_rw_pressure,
   test_cgroup_misc |-> test_cgroup_misc,
   test_cgroup_ns |-> test_cgroup_ns,
   test_cgroup_get_from_file |-> test_cgroup_get_from_file,
   test_cgroupv2_kill |-> test_cgroupv2_kill,
   test_cgroupv2_threads_rw |-> test_cgroupv2_threads_rw,
   test_cgroupv2_cpuset_initfs |-> test_cgroupv2_cpuset_initfs,
   test_cgroupv2_reconfigure |-> test_cgroupv2_reconfigure,
   test_cgroupv2_irq_pressure_rw |-> test_cgroupv2_irq_pressure_rw,
   test_cgroupv2_finalize_control |-> test_cgroupv2_finalize_control,
   test_perf_event_free_task |-> test_perf_event_free_task,
   test_cgroup_v1 |-> test_cgroup_v1,
   test_cgroup_v1_attach_task |-> test_cgroup_v1_attach_task,
   test_cgroup_v1_freezer |-> test_cgroup_v1_freezer,
   test_cgroup_v1_cpuset |-> test_cgroup_v1_cpuset,
   test_cgroup_v1_rebuild |-> test_cgroup_v1_rebuild,
   test_cgroupv1_tasks_write |-> test_cgroupv1_tasks_write,
   test_debug_inforead |-> test_debug_inforead,
   test_legacy_freezing_read |-> test_legacy_freezing_read,
   test_cgroup_v1_debug |-> test_cgroup_v1_debug,
   test_perf_event_min_heap |-> test_perf_event_min_heap,
   perf_events_cgroup |-> perf_events_cgroup,
   test_signal_send_sig |-> test_signal_send_sig,
   perf_cpux_exit |-> perf_cpux_exit]
=============================================================================
