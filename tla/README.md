# Work-code: specifications, checks and proofs

Work-code is a collection of tests for the Linux kernel's perf, signal and
cgroup code. A test is usually a pair: a small kernel module that calls one
kernel function on purpose, and a shell script that looks the function's
address up in `/proc/kallsyms`, loads the module, reports and unloads it.
Around them are user programs that make the kernel do something worth
covering, runners that go through whole directories, and tools that
post-process coverage data or VectorCAST projects.

The tests are the system here. Whether a kernel function is correct is not a
question this project asks; whether a test leaves the machine in the state it
found it in, reports what happened, and ends, is. That matters because the
runners execute a hundred of these tests in one boot of one kernel: what one
test leaves behind is the initial state of the next.

## 1. Inventory

### Kernel test modules

`PerfEvents_Test/CORE`, `CORE/events`, `PerfEvents_Test` and
`cgroupTest/{code,supp}` hold about a hundred single-file modules.

* State: the objects the module owns (perf events, pages, /proc entries,
  notifier and pmu registrations, references to cgroups, tasks and pids), and the
  addresses passed as `module_param`.
* Operations: the init function, called in the context of `insmod`; functions
  the kernel calls while the module is loaded (write handlers, event callbacks,
  notifiers); the exit function, called by `rmmod`.
* Interactions: with the kernel through calls that may fail; with the script
  through `insmod`'s exit status and the module's parameters; with other tests
  through what is left behind, above all names only one owner may have.
* Hard: partial failure. An init function makes up to seven calls that may
  fail, each with its own error path, and almost none of these paths has ever
  been run.
* Correct when: init obtains everything or nothing, exit gives everything
  back, nothing is used before it is obtained or after it is released, no
  registration outlives the code it points to.

### Module-loading scripts, runners and `open_socket.c`

* State: the looked-up addresses, the exit status of the last command, `$PID`
  and `$CPID` of helper processes.
* Operations: look up and compare with zero; `insmod`; a verdict (none, by
  exit status, by a `grep` over `lsmod`); run a program that exercises the
  module; `rmmod`, or a reboot.
* Hard: a verdict that is wrong; a script that ends early with the module
  loaded; the same script run a second time.
* Correct when: what the script says of the module is true, and every round
  ends with the module unloaded.

### Kernel threads

Four modules start a thread (`ctest_task_join_stop.c`, `ko_perf_min_heap.c`,
`ko_perf_output_read_one.c`) or a work item that starts one
(`ctest_signal_exit_signals.c`).

* Hard: the thread runs concurrently with init and exit. `kthread_stop` may
  come before the thread has started or after it has ended by itself.
* Correct when: exit returns only after the thread has left the module's code,
  and always returns.

### Perf descriptor hand-over

`create_perf_event.c` opens an event, polls for `/proc/perf_fd`, writes its
descriptor number there and sleeps; `perf_ringbuffer_aux_op_fd.c` is the module
behind that file. Its write handler runs in the writer, keeps the event in one
static variable, and releases it on failure.

* Hard: several writers, one variable; two owners of one event; removal of the
  module during a write or between `access`, `fopen` and `fclose`.
* Correct when: an event is released once, and by its owner.

### Signal and timer programs

Twenty-seven programs (`signal_*.c`, `syscall_*.c`, four of `CORE/events`) send
themselves, a thread, a parent or another program signals.

* State: handlers and pending signals of the process; mask and pending signals of
  each thread; an alarm or timer; real and effective user.
* Operations: `sigaction`, `sigprocmask`, `kill` and its relatives, `alarm`,
  `timer_create`, `pause`, `sigsuspend`, `sigtimedwait`, `sleep`, `fork`,
  `pthread_create`, `pidfd_open`.
* Interactions: through signals only; `sleep` stands for synchronisation.
* Hard: the lost wake-up between `alarm` and `pause`; a child that signals after 4
  seconds against a timeout of 5; a process-wide signal that either of two threads
  may take; a sender that races the receiver's `sigaction`.
* Correct when: no program dies of a signal it is there to handle, what it prints
  of masks and pending signals is so, and it ends. `run_all.sh` waits for each of
  them, so one that hangs ends the whole run.

### Programs that trace, stop or freeze a child

Seven programs (`signal_get_sig.c`, `signal_ptrace_*.c`, `signal_thread_exit.c`).

* State: where parent and child are; whether the child is traced, stopped and
  why, and whether the parent has been told; what is pending for it; the cgroup
  `my_freezer`.
* Operations: `ptrace`, `kill`, `waitpid`, writes to the freezer, `handle_error`,
  the SIGINT handler.
* Hard: the child ends, or calls `exec`, before the parent gets to it; `fork`
  fails and `kill(-1)` follows; ^C at any moment, which five of the programs catch
  and which ends the parent of the other two; an error after the freeze.
* Correct when: what the parent says of the child is so, its signals go to its
  child and nobody else, and neither is left stopped, frozen or waiting.

### Programs that open perf events

Thirty-three programs (`ctest_perf_*.c`, `perf_*.c`).

* State: events and who has a descriptor of them; the values read so far; the
  mapped buffer with its head and tail; the owner of SIGIO and the count.
* Operations: `perf_event_open`, `mmap`, the `ioctl`s, `read`, `fork`, `wait`,
  the loop over the records, the handler.
* Interactions: children inherit descriptors and counters; the kernel writes
  records while the program reads them.
* Hard: one child more than the array has room for; a `read` with too small a
  buffer that nobody checks; the first of two processes turns the event off
  under the other; a sample whose layout is not what the labels say.
* Correct when: what is printed was read, counted and final; records are whole;
  nothing is written beyond an array; the program ends.

### cgroup and CPU scripts, and the fork helper

Thirty-three scripts make cgroups, start `cgroup_fork_process`, look for its
child with `pgrep -P`, move it about, kill it and remove what they made.

* State: directories, limits, frozen groups, mounts, cpu1; the processes of the
  helpers and the cgroups they are in; what the shell has found.
* Hard: `pgrep` before the `fork`; `rmdir` before a killed process is gone; the
  shell itself counts against `pids.max`; an interrupt between the two halves of
  a change; what one script leaves, the next one finds.
* Correct when: processes, directories and settings are as before, unless
  something outside the script went wrong that the script does not check.

### VectorCAST value tools

`tool/Set_Return.py` and `tool/Set_ACT_Return.py`: nested loops over environments,
cases and XML files, in which `dat_path`, `lines` and `prefix` keep the value of an
earlier file when the current one does not assign them.

* Correct when: each case has its value in its own DAT file and no file has what
  belongs to another.

### What is left out

Section 5 says what and why. `PROJECT.json` lists the components with their
files, and under `hazards` the places where this code is hard to test, with the
property that covers each.

## 2. Modules

| module | what it is |
| --- | --- |
| `KoSteps` | the vocabulary of steps a module's function is written in, and the discipline `RowBalanced` |
| `KoCoreTable`, `KoSignalTable`, `KoCgroupTable` | one definition per kernel module and per script: the translation of the source |
| `KoLifecycle` | script, kernel and one module as a state machine that runs the steps |
| `KoContract` | the abstract specification of a loadable module |
| `KoPaths` | a check of a module's source along every path, error paths included |
| `KoPromises` | `KoLifecycle` with what that check promises (`PromisesKept`) |
| `MCKoLifecycle` | the instance for TLC: the whole table, and the census of its modules |
| `KoCensus` | the census as assumptions about the table: every module that is not in a list passes the check |
| `KoLifecycleProofs` | theorems about `KoLifecycle`: the discipline and the contract, unloading, names left behind, the promises, the census |
| `KthreadLifetime`, `KthreadLifetimeProofs`, `MCKthreadLifetime` | kernel threads, theorems, instance |
| `PerfFdHandoff`, `PerfFdHandoffProofs`, `MCPerfFdHandoff` | the descriptor hand-over, theorems, instance |
| `SignalProgramTable` | one definition per signal program: its system calls |
| `SignalPrograms` | tasks, processes, clock and kernel that run them, and their properties |
| `SignalSource` | the calls of each program's main in outline, and checks of that outline, as assumptions that TLC evaluates on the table |
| `SignalProgramsProofs` | theorems about `SignalPrograms`, from those checks |
| `PtracePrograms` | the seven programs with a traced, stopped or frozen child: rows, parent, child |
| `PtraceSource` | checks of the rows alone, as assumptions that TLC evaluates on the seven programs |
| `PtraceProgramsProofs` | theorems about `PtracePrograms`, from those checks |
| `PerfProgramTable` | one definition per perf program: what it and its children do |
| `PerfPrograms` | processes, events, ring buffer and SIGIO that run them |
| `PerfSource` | checks of the rows alone, as assumptions that TLC evaluates on the table |
| `PerfProgramsProofs` | theorems about `PerfPrograms`, for every buffer and every bound |
| `CgroupScriptTable` | one definition per cgroup or CPU script: its steps |
| `CgroupScripts` | scripts in a row against file system, helpers and interrupts |
| `CgroupSource` | checks of the lines of the scripts alone, as assumptions that TLC evaluates on the table |
| `CgroupScriptsProofs` | theorems about `CgroupScripts`, for any number of scripts in a row |
| `SetReturn`, `SetReturnProofs`, `MCSetReturn` | both VectorCAST tools, theorems, instance |

Modules meet through what outlives a test. `KoLifecycle` composes script, module
and kernel, with `KoContract` as what the three together promise;
`CgroupScripts` composes scripts with the helpers of this and of the last
script; the program modules compose a program with its relatives and with
the part of the kernel it talks to.

### From C to a row

An init, handler or exit function becomes a sequence of steps, each about one
object of the kernel. What is kept is the control: the order of calls, which
results are checked, what each error path gives back and in what order, and
whether it returns an error or zero. So

    event = perf_event_create_kernel_counter(...);
    if (IS_ERR(event)) return PTR_ERR(event);
    pages = alloc_pages_exact(...);
    if (!pages) { perf_event_release_kernel(event); return -ENOMEM; }

is `<<Get("event", <<>>), Get("pages", <<Put("event")>>)>>`. `GetAny` is a call
whose result is not checked; `OrZero` an error path that returns 0, after which
the kernel keeps the module; `Call("addr1")` a jump to an address passed as a
parameter; `Has` a later test of a pointer; `PutIf` a release that tolerates
NULL. A call with several failure points that share one error path is one `Try`.
What the model leaves out of a function is attribute values, logging, and
computation on data it owns.

A script becomes the set of parameters it has compared with zero, the kind of
verdict, and how it ends (`rmmod`, or `reboot`). `by_hand` stands for a module
no script names.

### KoLifecycle

| variable | in the code |
| --- | --- |
| `script` | the line of the script |
| `kstate` | the kernel's state of the module: absent, coming (init runs), live, serving (a registered function runs), going (exit runs) |
| `code`, `pc`, `entry`, `after` | the function the kernel runs for the module |
| `args` | parameters that are not zero |
| `held` | what the module owns |
| `gone` | what it has released but still points to |
| `lost` | what outlives the module though nothing points to it any more |
| `oops` | the kernel has stopped |

Actions of the script are `AddressesFound`, `AddressMissing`, `Insmod`,
`InsmodRefused`, `Rmmod`, `RmmodFails`, `Reboot`, `Rerun`; of the module's code
one per kind of step (`Acquire`, `AcquireFails`, `TryPasses`, `TryFails`,
`ParamGuard`, `HasGuard`, `Touch`, `CallAddr`, `Release`, `ReleaseNothing`,
`Misstep`), and of the kernel the returns of the functions, `Serve`, and
`LateCallback`, a call through something that a removed module has left
registered. A step whose precondition does not hold is undefined behaviour:
`Misstep` lets the kernel stop or go on. A jump to an address that was never
passed is a jump to 0 and always stops it.

Every call that can fail may fail in every round. One exception is the
kernel's: a name that is taken (`Exclusive`) is refused until reboot.

### KthreadLifetime

`loader` is the position of `insmod`/`rmmod` in init and exit, `work` the work
item, `thread` the thread from creation over running to zombie and freed. The
kernel's `kthread()` tests the stop flag before it calls the function, which is
why a thread may end without having run; `kthread_stop` takes a reference
(`pinned`) through a pointer that may be stale (`corrupt`).

### PerfFdHandoff

`prog[p]`, `perf[p]` and `handler[p]` are the program (asleep for good as "served"
or "sleep", after a write that was served or refused), its event and the write
handler running in it; `event` is the module's static variable. `mod` and `proc`
are the module and its file. A file that was open when the module left refuses
the write, even when the module is back. Since `create_perf_event` never maps a
buffer, `perf_aux_output_begin` has none to find: the model has the failing
branch only.

### SignalPrograms

A program is a row of system calls per task (`main`, `peer`, `third`). `task[t]` is
where a task is, its mode, mask, the mask it has saved, and what is pending for it
alone; `proc[p]` the handlers, the signals pending for the process, its timers, the
handler's counter and the user. `peer` is a thread, a forked child or a second
program, by the row's `kind`; a thread shares the handlers and the shared pending
set of `main`, a child gets a copy of the handlers and the mask.

Actions are one per kind of call (`InstallHandler`, `Block`, `Kill`, `Start`,
`FallAsleep`, ...), `Refused` for a call that fails, one per handler (`Noted`,
`Resends`, `Exits`, `Counts`, `Stops`) and the kernel's: `Kills` (default action),
`GoesOff` (alarm, timer), `TimeIsUp`, `Take` (sigtimedwait). A task runs only when
nothing is deliverable to it, as a system call returns only after its signals
have been handled; a signal handled in the step before `FallAsleep` is lost as a
wake-up. `sigsuspend` replaces the mask while the task sleeps. `Interrupt` is one
SIGINT from outside at any moment: some programs install a handler for it. Sleeps,
alarms and timeouts are not ordered by their lengths.

Left out: `setpgid`, which limits `kill(0)` to the program itself; the restart of
the interrupted sleep inside `handle_signal` of `syscall_restart_syscall.c`, which
only delays; handlers interrupted by other handlers, which here do nothing that
another one could see half done.

### PtracePrograms

A row has the calls of the parent after its `fork` and those of the child. `child`
is the child process: `why` is what it has stopped for ("STOP" and other
signals, "EVENT" for an event of PTRACE_SEIZE), `told` whether a wait has
reported that, `pend` the signals on their way, `in` whether it is in the
frozen group. `strays` collects signals that reach a process other than the
child: "all" from `kill(-1)` after a failed `fork`, "reaped" when the number
may have been given to another process. The actions are named after the calls;
`HandleError` is the function of that name, with what it kills and whether it
waits. `Interrupt` is a SIGINT at any moment after the fork where it is caught:
`sigint_handler` kills the child, if `fork` has already returned its number.
`InterruptUncaught` is the same in `signal_ptrace_stop` and `signal_thread_exit`,
where nobody catches it: the parent dies, and the child goes on, dies of its own
SIGINT when the signal came from the terminal (`Struck`), or stops.
PTRACE_TRACEME and `exec` are assumed to succeed. A second thread of the child is not
told apart from the first, since `exec` ends it.

### PerfPrograms

`proc[p]` is main (0) or a child: its position, the counters it holds (each
"unset", "zero" or "counted"), whether it has written beyond an array
(`smashed`). `event[e]` is an event: who has a descriptor (`fds`), whether it is
enabled, whether it has counted, its group leader, what a sample holds (`with`).
`ring` is the buffer in words, with records from tail to head. `Fails` is any call
that can fail and is checked; a call that fails unnoticed leaves what it would
have assigned. `Overflow` writes a record if there is room, or counts it as
lost, and raises SIGIO; `Deliver` runs the handler.

A process that has written beyond an array may crash at any later step, its
later reads may be lost, or it goes on as if nothing had happened: the three
outcomes the builds show. The measured work is one step in which every enabled
event counts. What `write_backward` writes is not modelled, since nobody reads it.
SIGUSR1 of `sigtrap` is handled in the step that raises it. Two calls are
always refused, because the buffer is there with another size:
`ctest_perf_aux_sample.c:75` and the eight pages of `perf_event_open_test.c`.

Some of what the programs get wrong is no property here, being a matter of a
message: `perf_fasync_tst.c:93` says 10 signals after waiting for 5 (`:86`);
`ctest_perf_event_min_heap.c:109` and `ctest_perf_event_cgroup_addheap.c:115`,
`:125`, `:136` speak of a group leader where each event is its own;
`ctest_perf_event_sample_regs.c:96` prints the word of the ABI as X0.

### CgroupScripts

`shell` is the script that runs: its line, whether the last command succeeded,
the children it has found or listed, the cgroups it is in itself. `fs` is what
outlives it: directories, limits, frozen and threaded groups, mounts, cpu1. `helper[h]` is a
helper with its child, each running, dying, or gone, and the cgroups of both.
`excuses` is a history variable: what has gone wrong in this round that the
script could not, or did not, prevent, such as "missed" for a `pgrep` that came
before the fork or "raced" for an `rmdir` that met a dying process. The
properties say of which excuses each kind of left-over needs one. A line "or exit" is of
its own (`OrExits`), so that where it stands counts: `test_cgroup_cpuset_mem_allowed.sh:39`
looks for its module when the child already runs, and a missing file leaves the child
behind. `LostOnlyIfMissed` names this script (`StopsShort`); every other one has killed
what it has started wherever it may exit.

`MakeThreaded` is `echo threaded > cgroup.type`. A cgroup with a process in it is not made
threaded, a threaded one stays so until it is removed, and the kernel then refuses
`cgroup.kill`. `test_cgroupv2_threads_rw.sh` makes `Example` threaded and, when its `rmdir`
meets the dying child, leaves it to the next script: `test_cgroupv2_kill.sh` then kills
nobody and cannot remove the directory (excuses "threaded", then "occupied").

`Interrupt` ends the first script at any line. Then any script that fits the
system starts (`NextScript`); scripts that look for their hierarchy are started on
the wrong one, too. Left out are files a script only prints, and what it writes to
attributes that no step of any script depends on. Of `cgroup.subtree_control` that holds
because the root may hold processes whatever it enables, and below the root only `cpuset`
is ever enabled, a controller of threads, for which no move is refused.

### SetReturn

`xml[f]` is what never changes of XML file `f`: the case it names, whether its
name has a number, whether it has the two tags, and which DAT file has its number
(`Dat(f)`). `R-<n>.XML` has the number of the file whose run it reports, so XML files of one
case may share a DAT file (`NumbersFit`), which is then visited once for each: what the
first has created the second finds and modifies. That files of different cases do not
share a number is assumed of VectorCAST.
`dat[f]` is the DAT file named after `f`, a sequence of lines, each with the file whose prefix it
has and, when a run has reported its value, the case that ran. `mem` is `dat_path`,
`lines` and `prefix` as the last assignment left them. The order in which `rglob`
finds files is any order (`todo`). The retry replaces the last line of `mem.lines`
and writes them to `mem.dat`, whatever those are. A run of clicast may succeed,
fail with a value, or fail without one.

The line "the directory does not exist, skipping" of both tools is never printed: a
missing directory has no `param.xml`, and that ends the tool before
(`NoGlobalId`).

## 3. Runs

| run | shows | distinct states |
| --- | --- | --- |
| `ko_lifecycle` | every module, every failure, two rounds | 16,248 |
| `ko_contract` | the disciplined modules implement `KoContract` | 1,584 |
| `ko_failure_report` | violation: `test_signal_copy_form_user32.sh:33` claims a failure that was none | |
| `kthread_lifetime` | the four modules with threads, loaded twice | 183 |
| `perf_fd_handoff` | three programs, the module loaded twice | 38,392 |
| `signal_programs` | the 27 signal programs, as either user | 2,209 |
| `ptrace_programs` | the seven programs with a traced child | 486 |
| `perf_programs` | the 33 perf programs | 92,105 |
| `perf_group_enabled` | violation: `ctest_perf_event_sibling.c:80`, siblings are not enabled | |
| `cgroup_scripts` | any two of 33 scripts in a row, on v1 and on v2 | 426,098 |
| `cgroup_v1_check` | violation: `test_cgroup_v1.sh:39`, the script goes on without v1 | |
| `set_return` | both VectorCAST tools over two environments | 986,240 |

What the properties say. Several are conjunctions of named parts, each with its
own comment in the module.

* `BalancedRowsAreSound`: the discipline of `KoSteps`, a check of the source
  alone, is enough for a module to leave nothing behind and never stop the kernel.
* `CensusHolds`: its parts are `NothingLeftBehind` and `KernelSurvives`. `Leaky` lists the
  modules that can leave something behind, `Careless` those that can use what
  they do not own, `Dangling` those after which the kernel may call unmapped code;
  no other module can, whichever calls fail. The lists were found by TLC
  and are kept as the statement: a change to any of the other modules that
  forgets a release breaks the run.
* `PromisesKept`: what the check of `KoPaths` finds of the source is so when the
  module runs. The census follows for every module that passes; `ko_contract` has
  TLC evaluate that all but the listed ones do.
* `LeakBlocksReload`: a leaked name makes a module that checks its registration
  unloadable until reboot.
* `UnloadedWhenDone`, `EveryRoundEnds`: scripts clean up and end.
* `KeepsContract`: refinement of `KoContract`. `mod` is "live" while the
  module is live, serving or going, `owned` is `held` while it is live and the
  module's live set while one of its functions is half way.
* `RunsMappedCode`, `LateStopsAreOfOnceThreads`, `LoaderReturns`: see section 1.
* `HandlerRunsMapped`, `SwappedNotForgotten`, `DamageNeedsTwo`,
  `NobodyWaitsForEver`: the handler's code stays mapped; an event that is still
  live when its own handler has returned was swapped for another, which has been
  used after its release or will be by a handler it was released under; a freed
  event is used only after a close or when two programs have reached the shared
  variable; and neither writers nor `rmmod` wait for ever.
* `SignalsHitTarget`: the census of programs that die of their own signals, and
  `kill(getppid())` hits a stranger only after the parent has given up.
  `PurposeMet`: success is reported only after the handler has run, and the limit
  is used up when the timer is created. `ReportsAsLabelled`: a
  report records what is printed and what its message names in that state, the
  pending signals or the mask. They are the same, also with a second thread taking
  signals, with one exception by name (`Mislabelled`): `signal_sigprocmask.c:45` says
  "Blocked signals after SIG_UNBLOCK" and `:46` prints SIGUSR1, which is not
  blocked then; the property says that this report is always false. The run is of `SignalSource`, so that TLC also evaluates the
  assumptions about the rows from which these are proved. `ProgramsEnd`: all end but for the lost wake-ups of
  `syscall_signal_pause` and `signal_sigsuspend`, a receiver whose sender failed,
  and thread 1 of `signal_ptrace_nopermission`.
* `MessagesAreTrue`: what the ptrace programs say of the child is so, but for the
  five messages of `Untrue`. `SignalsReachChild`: `kill(-1)` only after a
  failed fork, a reaped child signalled only by ^C or by an error path, the end of
  the child waited for. `ChildGoesToo`, `ParentEnds`: no child is left stopped or
  frozen, but for a child of `signal_ptrace_stop` or `signal_thread_exit` whose parent
  has died of ^C before the child's SIGSTOP, or before the SIGTRAP of an `exec` that
  the process which has inherited the child is told of (`LeftStopped`); of the
  parents two can wait for ever. The run is of `PtraceSource`, for the same
  reason.
* `PrintsFinalCounts`: which programs print a value they have not read or
  that has not counted, and none prints one that still grows. `RecordsAsLabelled`:
  no record is split by the end of the buffer, and which four programs print a
  field under the label of another. `OnlyKnownHarm`, `OnlyOwnerDisables`,
  `ProgramsEnd`: see section 1. The run is of `PerfSource`, so that TLC also evaluates
  the assumptions about the table from which these are proved.
* `ProcessesAsMeant`, `DirsGo`, `MachineKept`: a script that ends leaves processes,
  directories, mounts, frozen groups or a switched-off CPU only with one of the
  named excuses, and never meets its own processes in what it removes unless its
  `cgroup.kill` was refused; `Settles`: every script ends and all it has killed is gone. The run is
  of `CgroupSource`, whose assumptions TLC evaluates on the 33 scripts.
* `ValuesBelong`: a value is in the DAT file of its own case unless an XML file
  had no number, or the DAT file no value to begin with; no later case undoes
  an earlier one; and the second tool dies only before the first value is seen.

### Findings

Three runs end in a violation, and the three statements they violate are quoted in
`PROJECT.json`: a script that reports a failed load of a module that is loaded; a
check for v1 whose result is lost with a local variable; a comment that
says siblings are enabled with their leader.

### Bounds

* `MaxRounds = 2` of `KoLifecycle`: what the first round leaves behind meets the
  second; all state but `lost`, a set that only grows (or is emptied by a reboot), is
  reset between rounds, so a third round starts in a state the second has started in.
  The census, the discipline and the promises are proved for any number of rounds.
* `MaxLoads = 2`: a thread, a work item, or an open file of the first load meets
  the second.
* Three programs in `PerfFdHandoff`: the shared variable holds one event, so two
  writers are enough to exchange it; the third can exchange it once more before
  either has released it.
* `SignalPrograms` and `PtracePrograms` have no constants: the rows are finite,
  the only loop (`while (1) pause()`) ends with the fifth tick of the timer
  (`Ticks`, from `timer_handler`), and one SIGINT from outside ends or wakes what
  it reaches. Everything but the liveness of the two is also proved, from checks of the
  rows, so that a search of the state space is not the only evidence.
* `RingWords = 8`: a sample has up to four words, so the buffer goes round,
  fills up, and loses records. `Refresh = 2`: one overflow that leaves the event
  enabled, one that turns it off. `MaxLost = 2`: one lost record and several are
  told apart, nothing more is. Everything but `ProgramsEnd` is proved for all values of
  the three.
* `MaxRounds = 2` of `CgroupScripts`: a script meets what any other has left.
  Each script starts at most three helpers. Everything but `Settles` is proved for any
  number of scripts in a row.
* `Dirs = <<2, 1>>` in `MCSetReturn`: two cases in one environment, so that one can
  meet what another has left, and an environment that comes after.
* Handlers are served once each per load, in the order of the table, which is that
  of the programs the scripts run.

### Fairness

`KoLifecycle` and `KthreadLifetime` assume that processes and the kernel code
they run go on: weak fairness of the script's and module's steps, of loader,
worker and thread. Nothing is assumed of `Serve`, `LateCallback` or the choice
between success and failure of a call. `LoaderReturns` also needs that a
running loop thread sees its stop flag, which its loop tests in every
iteration. In `PerfFdHandoff` each program and a started `rmmod` are fair;
`Insmod`, `Rmmod` and `Kill` are what people do and need never happen. In
`SignalPrograms` every task that can run is scheduled, sleeps and alarms end and
signals are delivered; SIGINT need not come. In `PtracePrograms` parent and child
are scheduled. In `PerfPrograms` some process that can go on does, an enabled event
overflows at last and a raised SIGIO is delivered; `perf_fasync_tst` counts on
CPU 0 alone, so for that program this assumes a CPU 0 that is not idle for ever. In
`CgroupScripts` something goes on as long as the shell or a helper can run or a
killed process can die; nobody need interrupt or start the next script.
`SetReturn` assumes nothing and no liveness is stated of it.

A program that polls, or sleeps, for ever, a script or a tool that has come to
its end has no next step: the cfgs of `PerfFdHandoff`, `SignalPrograms`,
`PtracePrograms`, `PerfPrograms`, `CgroupScripts` and `SetReturn` switch deadlock
checking off, and the liveness properties tell an end from a hang. The others have
it on, with a `Terminated` action for the end of the last round.

## 4. Proofs

For every table of modules and any bound, TLAPS proves of `KoLifecycle`

* `TypeCorrect`: `Spec => []TypeOK`;
* `BalancedRowsSound`: `Spec => []BalancedRowsAreSound`;
* `ContractKept`: if every row is `RowBalanced`, `Spec => KeepsContract`.

`BalancedRowsAreSound` is not inductive: that the module's memory holds the
right objects at the end of a function depends on where in the function it is.
The invariant that is, `IInv`, says that a balanced module is `Sound`: the script
is where the kernel's state allows (`Places`), nothing is lost (`Clean`), and while
a function runs, `held` is exactly `Flow(code, entry, pc)`, the objects that a
straight run of the code up to `pc` owns, and the remaining code is itself
balanced towards the goal of the function (`RunOK`). `FlowStep` says how
`Flow` changes from a position to the next; `AdvanceOK` and `BackOutOK` that a
step, and a failing step that goes over to its error path, keep `RunOK`;
`CodeSound`, `ScriptSound` and `KernelSound` put the actions together.
`Contract` steps are the two in which `kstate` enters and leaves "live"; all others
stutter. The assumptions are that the table has the types of `RowType` and
that the bound is a positive natural number; TLC checks both on the real table.

`Unloaded` proves `UnloadedWhenDone` for every table from `Knows`:
before it loads and when it is done the script has nothing loaded. `LeakBlocks` is
about tables with undisciplined rows too: `Obtained` says that a live module has
obtained every name its init checks, which a row can break only with an error path
that returns zero, hence the hypothesis `Honest(row)`; a name that an earlier load
has left cannot have been obtained.

The discipline knows one set of objects for each position, and so says nothing of a
module that goes on after a call it has not looked at, or tests a pointer later.
`KoPaths` gives each position the set of all memories (what is owned, what is released
but still pointed to) that some path leads to: `Walk` follows a function, `Outcomes`
adds its error paths, `LiveMemories` closes that under the functions the module has
registered, and `Keeps(row, promise)` checks that no step of any path breaks the
promise: to leave no object of a set behind, and to take no step whose precondition
does not hold. The invariant `Faithful` says that a module that passes has kept its
promise so far and is on track: while a function runs, there are memories for each
position of its code, closed under the steps and with the ends that were promised, and
the module's own is among those of its position. From it come

* `PathsSound`: `Spec => []PromisesKept`, for every table, every number of rounds and
  every set of exclusive registrations;
* `Census`: `Spec => []CensusHolds` for the table of this repository. That each
  module which is not listed passes the check is `LeakyAssumption` and
  `CarelessAssumption` of `KoCensus`, closed formulas about the table that TLC
  evaluates; the prover never runs the check.

Of `KthreadLifetime`, `TypeCorrect`, `MappedCode` and `LateStops` are proved from an
invariant that ties the loader's position to what the thread may be doing: nothing
of the module is active before init has started it, and a loop thread is active and
not yet told to stop until `kthread_stop` is called. `UnstoppedAssumption` says
that only a thread running the kernel's own code is left without a stopper,
which is what makes the theorem true; TLC evaluates it on the four modules.

Of `PerfFdHandoff`, for any set of programs and any number of loads, `TypeCorrect`,
`MappedHandler`, `NoEventForgotten` and `TwoForDamage`. `DamageNeedsTwo` is not
inductive: who used a released event may be long past the handler. `Came(p)`, that
program `p` has come to the handler or past it, is stable, and the invariant says
that the shared variable refers to the event of a handler that has yet to release
it or to an event that has been released (which is what makes
`SwappedNotForgotten` inductive), that an event is released before its program ends
only by a handler that has run to its end, and that damage met two such programs or
a closed descriptor.

Of `SetReturn`, for any environments and any number of files, `TypeCorrect` and
`Belong`. `ValuesBelong` speaks of files; what makes it inductive is the same
said of memory. `Fits(f, s)` is what the lines `s` may be as the content of DAT file
`f`; `MemFits` that the lines left over fit the file `dat_path` names if that had a
value; `Source` that a case that is found is the case of `dat_path`, or has an XML
file without a number; `Done` that files the search has passed have their value.
`MatchWrites` says of the four ways to treat a matching file that what they write
fits; `CaseGoesOn` takes a case to the next with whatever the retry wrote.

Of `PerfPrograms`, for every size of the buffer and every bound, `TypeCorrect`,
`HarmIsKnown` (`OnlyKnownHarm`), `CountsAreFinal` (`PrintsFinalCounts`),
`LabelsAreRight` (`RecordsAsLabelled`) and the action property `OwnersDisable`
(`OnlyOwnerDisables`). The rows enter through the assumptions of `PerfSource`, each a check
of the steps before a step, which TLC evaluates on the 33 programs: a program uses
descriptors it has (`DescriptorsAssumption`), waits for its children before it reads
(`WaitAssumption`), turns on what it reads (`TurnedOnAssumption`), reads into a
variable before it prints it (`ReadAssumption`), and so on. What the proof adds is that the
order of a program's own steps is enough whatever its relatives, the kernel and
failing calls do in between. The invariant `IInv` has one part per kind of state:

* `Descriptors`: a running process has exactly the descriptors its code says at its
  position (`HeldAt`); so an event that somebody reads is there.
* `Opened`: an event is as its opener has opened it, and has counted if the opener's
  code has turned it on. Without it a `read` could find a zero.
* `Children`: a child was forked by an earlier step, and none is alive behind the
  `wait`; so a value that is printed grows no more.
* `ValuesOK`: a variable that the code has read has a value, unless the process has
  written beyond an array, which only a step that can do so explains.
* `SignalsOK`: SIGIO has a handler before it has an owner; so it kills nobody.
* `RingOK`: the records are contiguous from tail to head, and nothing is added once
  somebody takes records out; so a record is whole and was written under the format
  the program has asked for.

Each part has lemmas per group of actions, since an action disturbs two or three
parts. `OwnersDisable` needs the invariant too: that the process which
turns an event off is its opener follows from who has a descriptor.

Of `CgroupScripts`, for any number of scripts in a row, `TypeCorrect`, `ProcessesKept`
(`ProcessesAsMeant`), `DirsRemoved` (`DirsGo`) and `MachineBack` (`MachineKept`). The
scripts enter through the assumptions of `CgroupSource`: each looks at the lines before a
line, such as that a `rmdir` comes after the kill of what was put into the directory
(`RemoveAssumption`) or that where a script may exit it has killed what it has started
(`KillAssumption`, which exempts the exit of `StopsShort` by name). TLC finds them true of the table. That a script's own order of lines is
enough, whatever earlier scripts have left, wherever they were interrupted, whenever
helpers fork and die and whichever commands fail, is what is proved. The invariant
`Invariant` shows ties what has come before line `shell.pc` to the state:

* `Numbers`: a helper that the script has not yet started is nothing, so helpers of
  different scripts do not meet under one number.
* `Findings`: what `pgrep` has printed has been forked, and it has printed all or has
  missed one; so a kill by number reaches everyone or there is an excuse.
* `Places`: shell and children are in the cgroups the lines so far may have put them in
  (`MayBeIn`, `MayHold`), and surely in some (`IsIn`, `Holds`); the first shows that
  an `rmdir` does not meet the script itself, the second that `cgroup.kill` meets the
  child.
* `Killings`: whom a line has killed neither runs nor forks any more, also by the list that
  `ps` has printed earlier; and it stays so after the end of the script.
* `Refusals`: a limit once set of a directory that is there holds; a helper that was started
  in the full cgroup waits for its fork with two processes in it, until its fork is refused
  or the script gives up, so that there is never room.
* `Directories`: what was made and not removed is there (`Present`), what was removed and
  not made again is gone (`Cleared`) if no `rmdir` was refused; of the leaf cgroups the
  latter holds without that condition, since nobody ever is in one.
* `Guards`: on v2 no directory of v1 appears, so what looks for one ends at its first line.
* `Machine`: cpu1, frozen groups and mounts as the lines so far leave them; a directory
  has at most one mount per script, which is what makes its number of mounts bounded.

TLC checked the conjunction as an invariant of one and of two scripts in a row before
it was proved. Each part has a lemma per group of actions that can disturb it; the
lemmas `PresentNext`, `ClearedNext` and their kin say what a line adds to what has
come before.

Of `SignalPrograms`, `TypeCorrect`, `TargetHit` (`SignalsHitTarget`), `Purpose`
(`PurposeMet`) and `Labels` (`ReportsAsLabelled`). TLC's search of the 27 programs is
complete; what the proof adds is the reason, as checks of a program's text. `SignalSource`
computes for each program an outline of `main`: before each call, the mask, the saved mask
and the handlers; `due` and `late`, the signals it may have sent itself and not got yet
and those that may come at any moment from then on; `sent`, `held` and `sure`, those that
must be pending or caught, must be pending, and must have been caught; what has been
printed and which tasks have been started. The checks are of outlines: wherever a
signal may come it has a handler or is blocked, also by the mask of a `sigsuspend`, unless
the program is in the list of those that die (`FatalAssumption`); what is printed as pending
is all that may be and must be (`ShownAssumption`); at the end of `main`, what it is
there for has been sent and is no longer blocked (`MeantAssumption`), and so on. The
invariant `IInv` ties the state to the outline at `main`'s position:

* `Follows`: mask, saved mask, handlers and what was printed are those of the outline.
* `Comes`: what is pending is in `due` or `late`; what is in `sent` is pending or caught; what
  is in `held` is pending, for `main` alone if there are threads that could take it.
* `Others`: which tasks there are, and that they and the other process can do no more to
  `main` than the outline counts with. `Live`: the tasks of a process that has ended are dead.
* `Answer`: the parent does not pass its `sigtimedwait` with success before the child has
  signalled it; without it nothing keeps the child from signalling a stranger.
* `Goals`: the parts of the properties that stay so once a process has ended, which is why
  they are in the invariant and do not only follow from it.

The proof has three levels: what an effect does to the state (`Delivered`, `ProcessEnds`,
`MainReturns`, `MainStays`, `PeerGoes`), what an action keeps (`KillKeeps`, `StartKeeps`,
`TakeKeeps`, ...), and the actions together (`NextKeeps`). The hard case is a wait: main may be
woken with its call unfinished, finished, or, where a handler sets a flag that the
program looks at, one call back, so a check that holds has the outline of the pause after it
(`OutlineAssumption`).

Of `PtracePrograms`, `TypeCorrect`, `MessagesTrue` (`MessagesAreTrue`) and `SignalsReach`
(`SignalsReachChild`), from the checks of `PtraceSource`. Why is the child gone when the parent
says so? No call names it: the parent counts waits. `Ledger` makes that an invariant: unless
the child has been waited for, the waits that have returned and the stops of which
the parent has not been told are no more than the signals sent and the stops the child has
raised itself. Where more waits have returned than there can be stops
(`WaitedOut`, a check of the row) one of them has seen the end. `Stops` says that a stop that
`wait_for_signal` has seen lasts until a call that ends it (`Held`), and that the child
stops only for signals in `MaySee`, so that a stop said to be an event is one. `Freezes` does the
same for the frozen group (`FrozenAt`, `AddedAt`). `Reaps` says after which waits the
child's number may be another's; `ErrorAssumption`, that no call before `handle_error` comes
after such a wait, is what keeps that function from killing a stranger.

In both, the rows are constants of the modules. `CallsAssumption`, `MessageAssumption` and the
others are closed formulas about them that TLC evaluates in the two runs, and the
proofs use nothing else of a row: a program added to a table is covered when it passes.

Model-checked only: all liveness (`EveryRoundEnds`, `LoaderReturns`,
`NobodyWaitsForEver`, both `ProgramsEnd`, `ParentEnds`, `ChildGoesToo`, `Settles`), since
fairness and ENABLED are beyond the prover. Every invariant of the passing runs is also
proved.
No module here declares a RECURSIVE operator
and nothing is proved by induction over data: `Flow` is defined without recursion
for that reason, and of `Walk` the proof uses only what `Keeps` checks of its result.

## 5. Not modelled

* Scripts that only show attributes: mounts and reads that change nothing.
* Programs of one pass: single-process programs of one or two system calls about
  which nothing is promised but their return value (alternate stack, epoll, 32-bit
  sigpending, bpf, netlink, move_pages).
* The memory of the process whose policy `ctest_cgroup_cpuset_vma_alloc.c` changes
  and, after it has given the lock back, restores: what a fault in between sees is
  decided inside the kernel. The module's own calls are modelled.
* The order of a runner's list. `run_all.sh` ends at the first module that cannot be
  removed, so what comes after it in the list never runs; which tests those are
  depends on the list, nothing else does.
* Message text beyond what section 2 names, and values of attributes.
* Stub and test-case tools of VectorCAST and the coverage tools: text in, text out,
  with no state between files.
* `CORE/shell` is the kernel's own perf test suite; `*.mod.c`, `*.cmd`,
  `modules.order` are written by the build.

What could follow: `PtracePrograms` with two threads in the child; `KoLifecycle`
over several modules at once, so that a name leaked by one blocks another;
a refinement of `CgroupScripts` to a contract of a script like that of
`KoContract`.
