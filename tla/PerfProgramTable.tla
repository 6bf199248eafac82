------------------------- MODULE PerfProgramTable -------------------------
(***************************************************************************)
(* The user programs that open performance events, as rows of steps: what  *)
(* main does, and what each child it forks does (kid).  Events are         *)
(* numbered from 1 in the order main opens them; 0 is the child_fd of a    *)
(* child.  Counters are numbered as the variables they are read into.      *)
(* Kept are the calls, which failures end the program, and the attributes  *)
(* a later step depends on (with); left out are what is counted and the    *)
(* reset of a counter that has not counted yet.                            *)
(***************************************************************************)
EXTENDS Sequences, Integers

Do(op)          == [op |-> op, ev |-> 0, n |-> 0, of |-> 0]
To(op, e)       == [op |-> op, ev |-> e, n |-> 0, of |-> 0]
Row(main, kid)  == [main |-> main, kid |-> kid]
Alone(main)     == Row(main, <<>>)

Try             == Do("try")            \* a call whose failure ends the program
Work            == Do("work")           \* the code that is measured
Open(e, attr)   == [op |-> "open", ev |-> e, leader |-> e, with |-> attr]
Member(e, l, attr) == [op |-> "open", ev |-> e, leader |-> l, with |-> attr]
On(e)           == To("on", e)          \* ioctl ENABLE
OnGroup(e)      == To("on group", e)    \* the same with PERF_IOC_FLAG_GROUP
Off(e)          == To("off", e)
OffGroup(e)     == To("off group", e)
Read(e, n, v)   == [op |-> "read", ev |-> e, n |-> n, of |-> v]  \* n words, from counter v on
Show(vs)        == [op |-> "print", vars |-> vs]
Close(e)        == To("close", e)
Map(e, pages)   == [op |-> "map", ev |-> e, n |-> pages, of |-> 0]
Index(i, len)   == [op |-> "index", ev |-> 0, n |-> i, of |-> len] \* a[i] = ..., of a[len]
Fork(k)         == [op |-> "fork", ev |-> 0, n |-> k, of |-> 0]
WaitAll         == Do("wait all")       \* while (wait(NULL) > 0)
WaitOne         == Do("wait one")       \* wait(NULL)
(* From data_tail to data_head, each word of a sample as what it is taken  *)
(* for; up to the length the sample itself states, or all of them.         *)
Drain(labels)   == [op |-> "drain", labels |-> labels, stated |-> FALSE]
DrainStated(labels) == [op |-> "drain", labels |-> labels, stated |-> TRUE]
Snapshot        == Do("snapshot")       \* data_head = header->data_head

Each(op(_), es) == [i \in 1..Len(es) |-> op(es[i])]
Times(n, step)  == [i \in 1..n |-> step]

-----------------------------------------------------------------------------
(* One event, counted and read.                                            *)

(* A file descriptor of the root cgroup, and the group format.  The eight  *)
(* bytes that are read do not hold what that format has.                   *)
cgroup_count == Alone(
  <<Try, Open(1, {"wide", "group", "ip"}), On(1), Work, Off(1), Read(1, 1, 1), Show({1}),
    Close(1)>>)

ctest_perf_event_cgroup       == cgroup_count
ctest_perf_event_freq         == cgroup_count
ctest_perf_event_freq_account == cgroup_count

perf_event_set_clock_tst == Alone(
  <<Open(1, {}), On(1), Work, Off(1), Read(1, 1, 1), Show({1}), Close(1)>>)

perf_event_period_tst == Alone(
  <<Open(1, {"ip"}), Try, On(1), Work, Read(1, 1, 1), Show({1}), Off(1), Close(1)>>)

(* The id of the tracepoint first; without a filter, in the end.           *)
perf_ios_set_filter == Alone(
  <<Try, Open(1, {"tracepoint"}), On(1), Work, Off(1), Read(1, 1, 1), Show({1}), Close(1)>>)

ctest_perf_event_addr_filters == Alone(
  <<Open(1, {"wide"}), To("filter", 1), On(1), Work, Off(1), Read(1, 1, 1), Show({1}),
    Close(1)>>)

(* The BPF object is opened, loaded and attached.                          *)
ctest_perf_event_bpf == Alone(
  <<Open(1, {"wide", "raw"}), Try, Try, Try, On(1), Work, Off(1), Close(1)>>)

(* The descriptor goes to a module; insmod and rmmod are not looked at.    *)
perf_event_enable == Alone(<<Open(1, {"wide", "on"}), Work, Close(1)>>)

-----------------------------------------------------------------------------
(* Groups.                                                                 *)

(* Siblings are opened disabled; the leader alone is enabled.              *)
ctest_perf_event_sibling == Alone(
  <<Open(1, {}), Member(2, 1, {}), Member(3, 1, {}), On(1), Work, Off(1),
    Read(1, 1, 1), Read(2, 1, 2), Read(3, 1, 3), Show({1, 2, 3}),
    Close(1), Close(2), Close(3)>>)

(* leader[e]: the event that event e is opened as a member of.             *)
GroupOfFive(leader) ==
  [i \in 1..10 |-> IF i % 2 = 1
                   THEN Member((i + 1) \div 2, leader[(i + 1) \div 2], {"group", "id"})
                   ELSE Index(i \div 2, 5)]   \* id[e - 1] and id[e]

(* IOC_ID writes eight bytes: id[i] and id[i + 1], of five.  Then the      *)
(* group is read into counter_results, which holds five.                   *)
ctest_perf_event_pending == Alone(
  GroupOfFive([e \in 1..5 |-> 1])
  \o <<OnGroup(1), Work, OffGroup(1), Read(1, 11, 1), Show(1..5)>>
  \o Each(Close, <<1, 2, 3, 4, 5>>))

(* The same, but every event is a leader of its own.                       *)
ctest_perf_event_min_heap == Alone(
  <<Try, Try>> \o GroupOfFive([e \in 1..5 |-> e])
  \o <<OnGroup(1), Work, OffGroup(1), Read(1, 11, 1), Show(1..5)>>
  \o Each(Close, <<1, 2, 3, 4, 5>>))

(* Four cgroups, four events, each enabled on its own.                     *)
ctest_perf_event_cgroup_addheap == Alone(
  Times(4, Try) \o [i \in 1..4 |-> Open(i, {"wide", "group", "ip"})]
  \o Each(On, <<1, 2, 3, 4>>) \o <<Work>> \o Each(Off, <<1, 2, 3, 4>>)
  \o [i \in 1..4 |-> Read(i, 1, i)] \o <<Show(1..4)>> \o Each(Close, <<4, 3, 2, 1>>))

-----------------------------------------------------------------------------
(* Samples in a mapped buffer of a control page and eight data pages.      *)

Sampled(type, drain) == Alone(
  <<Try, Open(1, {"wide", "group", type}), Map(1, 9), On(1), Work, Off(1), Snapshot, drain,
    Do("unmap"), Close(1)>>)

ctest_perf_event_mmap        == Sampled("ip", Drain(<<"ip">>))
ctest_perf_sample_data_pgsize == Sampled("code page size", Drain(<<"data page size">>))
ctest_perf_sample_phys_addr  == Sampled("phys addr", Drain(<<"phys addr">>))
ctest_perf_event_sample_regs == Sampled("regs", Drain(<<"x0", "x1">>))
ctest_perf_event_sample_regs_intr == Sampled("regs", Drain(<<"x0", "x1">>))
ctest_perf_sample_stack_user == Sampled("stack", Drain(<<"stack", "stack">>))
ctest_perf_sample_callchain  == Sampled("callchain", DrainStated(<<"nr", "caller">>))

ctest_perf_event_overflow == Alone(
  <<Try, Open(1, {"wide", "group", "ip"}), Map(1, 9), On(1), To("refresh", 1), Work, Off(1),
    Snapshot, Drain(<<"ip">>), Do("unmap"), Close(1)>>)

(* The buffer is written from its end and not read.                        *)
ctest_perf_write_backward == Alone(
  <<Try, Open(1, {"wide", "group", "backward"}), Map(1, 9), On(1), To("refresh", 1), Work,
    Off(1), Do("unmap"), Close(1)>>)

(* The auxiliary buffer is a second mapping of the data, of four pages.    *)
ctest_perf_aux_sample == Alone(
  <<Try, Open(1, {"wide", "group", "aux"}), Map(1, 9), Map(1, 4), On(1), Work, Off(1), Snapshot,
    Drain(<<>>), Do("unmap"), Do("unmap"), Close(1)>>)

perf_event_open_test == Alone(
  <<Open(1, {"ip"}), Try, Map(1, 8), On(1), Work, Off(1), Do("unmap"), Close(1)>>)

-----------------------------------------------------------------------------
(* Signals.                                                                *)

ctest_perf_fasync == Alone(
  <<Do("handler"), Open(1, {"wide", "group", "ip"}), Do("owner"), Do("async"), On(1), Work,
    Off(1), Read(1, 1, 1), Show({1}), Close(1)>>)

(* Mutant of perf_fasync_tst: nobody owns the descriptor.                  *)
fasync_tst_unowned == Alone(
  <<Do("handler"), Open(1, {"wide", "ip"}), Do("async"), On(1), Do("spin"), Close(1)>>)

(* It spins until five signals have been handled (and says ten).           *)
perf_fasync_tst == Alone(
  <<Do("handler"), Open(1, {"wide", "ip"}), Do("async"), Do("owner"), On(1), Do("spin"),
    Close(1)>>)

(* SIGUSR1 to itself ten times; its handler stops and restarts the event   *)
(* in turn.                                                                *)
ctest_perf_event_sigtrap == Alone(
  <<Open(1, {"unmapped"}), Do("handler"), On(1)>> \o Times(10, Do("raise"))
  \o <<Off(1), Read(1, 1, 1), Show({1}), Close(1)>>)

-----------------------------------------------------------------------------
(* Parents and children.                                                   *)

(* Parent and child go through the same tail, on the same event.           *)
shared_tail == <<Read(1, 1, 1), Show({1}), Off(1), Close(1)>>

ctest_perf_event_herit == Row(
  <<Open(1, {"inherit"}), On(1), Fork(1), WaitOne>> \o shared_tail, <<Work>> \o shared_tail)

(* enable_on_exec, and nobody calls exec.                                  *)
ctest_perf_event_pinned == Row(
  <<Open(1, {"inherit"}), Fork(1), WaitOne>> \o shared_tail, <<Work>> \o shared_tail)

(* The child turns off child_fd, which has no value.                       *)
ctest_perf_event_sync_child == Row(
  <<Open(1, {"inherit", "on"}), On(1), Fork(1), Work, WaitAll>> \o shared_tail,
  <<Work, Do("stray off")>>)

(* Four children, numbered from 1: each sets up pe[i] of pe[4], opens its  *)
(* own event and has its id written to id[i] and id[i + 1] of id[5] (the   *)
(* number of the child is added to the index).                             *)
loaded_kid(attr) ==
  <<Index(0, 4), Open(0, attr), Index(1, 5), On(0), Read(0, 1, 1), Show({1}),
    Off(0), Close(0)>>

four_kids(attr) == Row(
  <<Open(1, {"inherit"}), On(1)>> \o [k \in 1..4 |-> Fork(k)] \o <<Work, WaitAll>>
  \o shared_tail, loaded_kid(attr))

ctest_perf_event_herit_clone == four_kids({"on"})
ctest_perf_event_switch      == four_kids({"on"})
ctest_perf_event_syn_stat    == four_kids({"on", "inherit"})

-----------------------------------------------------------------------------

PerfPrograms ==
  [ctest_perf_event_cgroup |-> ctest_perf_event_cgroup,
   ctest_perf_event_freq |-> ctest_perf_event_freq,
   ctest_perf_event_freq_account |-> ctest_perf_event_freq_account,
   perf_event_set_clock_tst |-> perf_event_set_clock_tst,
   perf_event_period_tst |-> perf_event_period_tst,
   perf_ios_set_filter |-> perf_ios_set_filter,
   ctest_perf_event_addr_filters |-> ctest_perf_event_addr_filters,
   ctest_perf_event_bpf |-> ctest_perf_event_bpf,
   perf_event_enable |-> perf_event_enable,
   ctest_perf_event_sibling |-> ctest_perf_event_sibling,
   ctest_perf_event_pending |-> ctest_perf_event_pending,
   ctest_perf_event_min_heap |-> ctest_perf_event_min_heap,
   ctest_perf_event_cgroup_addheap |-> ctest_perf_event_cgroup_addheap,
   ctest_perf_event_mmap |-> ctest_perf_event_mmap,
   ctest_perf_sample_data_pgsize |-> ctest_perf_sample_data_pgsize,
   ctest_perf_sample_phys_addr |-> ctest_perf_sample_phys_addr,
   ctest_perf_event_sample_regs |-> ctest_perf_event_sample_regs,
   ctest_perf_event_sample_regs_intr |-> ctest_perf_event_sample_regs_intr,
   ctest_perf_sample_stack_user |-> ctest_perf_sample_stack_user,
   ctest_perf_sample_callchain |-> ctest_perf_sample_callchain,
   ctest_perf_event_overflow |-> ctest_perf_event_overflow,
   ctest_perf_write_backward |-> ctest_perf_write_backward,
   ctest_perf_aux_sample |-> ctest_perf_aux_sample,
   perf_event_open_test |-> perf_event_open_test,
   ctest_perf_fasync |-> ctest_perf_fasync,
   perf_fasync_tst |-> perf_fasync_tst,
   ctest_perf_event_sigtrap |-> ctest_perf_event_sigtrap,
   ctest_perf_event_herit |-> ctest_perf_event_herit,
   ctest_perf_event_pinned |-> ctest_perf_event_pinned,
   ctest_perf_event_sync_child |-> ctest_perf_event_sync_child,
   ctest_perf_event_herit_clone |-> ctest_perf_event_herit_clone,
   ctest_perf_event_switch |-> ctest_perf_event_switch,
   ctest_perf_event_syn_stat |-> ctest_perf_event_syn_stat]
=============================================================================
