--------------------------- MODULE KoCgroupTable ---------------------------
(***************************************************************************)
(* The kernel modules of cgroupTest/code and cgroupTest/supp and what      *)
(* loads them, one definition per file, in the vocabulary of KoSteps.      *)
(***************************************************************************)
EXTENDS KoSteps

supp_run_all                       == Script({}, "unchecked")
open_socket                        == Script({"sockfd"}, "status")
test_cgroup_cancel_fork_sh         == Script({"addr", "addr2"}, "status")
test_cgroup_cpuset_mem_allowed_sh  == Script({"pid"}, "unchecked")
test_cgroup_get_fromf_sh           == Script({}, "unchecked")
test_cgroup_get_from_id_sh         == Script({"addr"}, "status")
test_cgroup_misc_sh                == Script({}, "unchecked")
test_cgroup_parse_float_sh         == Script({"addr"}, "status")
test_cgroup_path_kfs_id_sh         == Script({"addr"}, "status")
test_cgroup_v1_attach_task_sh      == Script({"pid_from", "pid_to"}, "unchecked")
test_cgroupv1_stats_build_sh       == Script({"addr"}, "status")
test_cpuset_fallback_sh            == Script({"addr"}, "status")
test_cpuset_spread_node_sh         == Script({"addr"}, "status")
test_cpuset_mems_sh                == Script({"addr1", "addr2"}, "status")
test_task_cgroup_path_sh           == Script({"pid"}, "status")
test_cgroupv2_e_css_sh             == Script({"addr"}, "status")
test_cgroupv2_finalize_control_sh  == Script({"addr"}, "status")
test_pids_cancel_attach_sh         == Script({"addr"}, "status")

(* addr2 charges the fork, addr cancels it.                                *)
ctest_cgroup_cancel_fork ==
  Row(test_cgroup_cancel_fork_sh,
      <<Call("addr2"), Get("fork_charge", <<>>), Call("addr"), Put("fork_charge")>>,
      <<>>,
      <<>>)

ctest_cgroup_cpuset_vma_alloc ==
  Row(test_cgroup_cpuset_mem_allowed_sh,
      <<Param("pid", <<>>), Try("task", <<>>),
        Take("mmap_lock"),
        Try("vma", <<Put("mmap_lock")>>),
        Get("pol", <<Put("mmap_lock")>>),
        Take("vma_policy"),
        Get("folio", <<Put("mmap_lock"), Put("vma_policy"), Put("pol")>>),
        Put("folio"), Put("mmap_lock"), Put("vma_policy"), Put("pol")>>,
      <<>>,
      <<>>)

(***************************************************************************)
(* init keeps /proc/cgfd when /proc/cgpath cannot be created; the path     *)
(* handler keeps its buffer when the cgroup is not found.                  *)
(***************************************************************************)
ctest_cgroup_get_from_file ==
  Row(test_cgroup_get_fromf_sh,
      <<Get("proc_cgfd", <<>>), Get("proc_cgpath", <<>>)>>,
      << <<Get("kbuf", <<>>), Try("copy_from_user", <<Put("kbuf")>>),
           Try("kstrtoint", <<Put("kbuf")>>), Put("kbuf"),
           Get("cgrp", <<>>), Put("cgrp")>>,
         <<Get("kbuf_fpath", <<>>), Try("copy_from_user", <<Put("kbuf_fpath")>>),
           Get("cgrp_fp", <<>>), Put("cgrp_fp"), Put("kbuf_fpath")>> >>,
      <<PutIf("proc_cgfd"), PutIf("proc_cgpath")>>)

(* css_from_id is called only through a pointer that is not NULL.          *)
ctest_cgroup_get_from_id ==
  Row(test_cgroup_get_from_id_sh, <<Get("cgrp", <<>>), Put("cgrp")>>, <<>>, <<>>)

(* Neither the charge nor the later uncharge is checked.                   *)
ctest_cgroup_misc ==
  Row(test_cgroup_misc_sh, <<GetAny("misc_charge"), PutIf("misc_charge")>>, <<>>, <<>>)

(* Both call only through a pointer that is not NULL.                      *)
ctest_cgroup_parse_float == Row(test_cgroup_parse_float_sh, <<>>, <<>>, <<>>)
ctest_cgroup_path_kfs_id == Row(test_cgroup_path_kfs_id_sh, <<>>, <<>>, <<>>)

(* sk_clone_lock returns the new socket locked; nothing unlocks it.        *)
ctest_cgroup_sk_clone ==
  Row(open_socket,
      <<Param("sockfd", <<>>),
        Get("file", <<>>), Try("is_socket", <<Put("file")>>), Put("file"),
        Try("sk", <<>>),
        Take("preempt_off"),
        Get("new_sk", <<Put("preempt_off")>>), Take("new_sk_lock"),
        Put("new_sk"), Put("preempt_off")>>,
      <<>>,
      <<>>)

ctest_cgroup_v1_attach_task ==
  Row(test_cgroup_v1_attach_task_sh,
      <<Param("pid_from", <<>>), Param("pid_to", <<>>), Try("tasks", <<>>),
        Try("attach", <<>>)>>,
      <<>>,
      <<>>)

(***************************************************************************)
(* The result of my_cgroupstats_build is dropped: whatever fails in it,    *)
(* the file is closed and init returns 0.                                  *)
(***************************************************************************)
ctest_cgroupv1_stats_build ==
  Row(test_cgroupv1_stats_build_sh,
      <<Param("addr", <<>>),
        Get("file", <<>>),
        OrZero(Get("stats", <<Put("file")>>)),
        OrZero(Try("dentry", <<Put("file")>>)),
        Call("addr"),
        Put("stats"), Put("file")>>,
      <<>>,
      <<>>)

ctest_cpuset_fallback ==
  Row(test_cpuset_fallback_sh, <<Param("addr", <<>>), Call("addr")>>, <<>>, <<>>)

ctest_cpuset_mem_spread_node == Row(test_cpuset_spread_node_sh, <<Call("addr")>>, <<>>, <<>>)

ctest_cpuset_mems ==
  Row(test_cpuset_mems_sh,
      <<Param("addr1", <<>>), Param("addr2", <<>>), Call("addr1"), Call("addr2")>>,
      <<>>,
      <<>>)

(* The reference find_get_pid takes is passed on and never put.            *)
ctest_task_cgroup_path ==
  Row(test_task_cgroup_path_sh,
      <<Param("pid", <<>>), GetAny("pid_ref"), Get("task", <<>>),
        Get("buf", <<Put("task")>>), Put("buf"), Put("task")>>,
      <<>>,
      <<>>)

cgroupv2_e_css == Row(test_cgroupv2_e_css_sh, <<Call("addr")>>, <<>>, <<>>)

cgroupv2_finalize_control ==
  Row(test_cgroupv2_finalize_control_sh,
      <<Get("cgrp", <<>>), Call("addr"), Put("cgrp")>>, <<>>, <<>>)

cgroupv2_rm_cftypes ==
  Row(supp_run_all, <<Get("blkcg_policy", <<>>), Put("blkcg_policy")>>, <<>>, <<>>)

(* INIT_LIST_HEAD writes through tset.csets, which nothing has set.        *)
pids_cancel_attach ==
  Row(test_pids_cancel_attach_sh, <<Use("tset_csets"), Call("addr")>>, <<>>, <<>>)

CgroupTable ==
  [ctest_cgroup_cancel_fork |-> ctest_cgroup_cancel_fork,
   ctest_cgroup_cpuset_vma_alloc |-> ctest_cgroup_cpuset_vma_alloc,
   ctest_cgroup_get_from_file |-> ctest_cgroup_get_from_file,
   ctest_cgroup_get_from_id |-> ctest_cgroup_get_from_id,
   ctest_cgroup_misc |-> ctest_cgroup_misc,
   ctest_cgroup_parse_float |-> ctest_cgroup_parse_float,
   ctest_cgroup_path_kfs_id |-> ctest_cgroup_path_kfs_id,
   ctest_cgroup_sk_clone |-> ctest_cgroup_sk_clone,
   ctest_cgroup_v1_attach_task |-> ctest_cgroup_v1_attach_task,
   ctest_cgroupv1_stats_build |-> ctest_cgroupv1_stats_build,
   ctest_cpuset_fallback |-> ctest_cpuset_fallback,
   ctest_cpuset_mem_spread_node |-> ctest_cpuset_mem_spread_node,
   ctest_cpuset_mems |-> ctest_cpuset_mems,
   ctest_task_cgroup_path |-> ctest_task_cgroup_path,
   cgroupv2_e_css |-> cgroupv2_e_css,
   cgroupv2_finalize_control |-> cgroupv2_finalize_control,
   cgroupv2_rm_cftypes |-> cgroupv2_rm_cftypes,
   pids_cancel_attach |-> pids_cancel_attach]
=============================================================================
