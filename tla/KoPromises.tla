---------------------------- MODULE KoPromises ----------------------------
(* KoLifecycle, and what the check of KoPaths says of it.                  *)
EXTENDS KoLifecycle, KoPaths

NothingLeft == [free |-> STRING, careful |-> FALSE]
NoHarm      == [free |-> TextRes, careful |-> TRUE]

(* A module whose source passes the check of all its paths keeps what it   *)
(* has promised, whichever calls fail and in whatever order the kernel and *)
(* the script act, also after another round; and what it owns while it is  *)
(* live is one of the memories the check has found.                        *)
PromisesKept ==
  /\ lost # {} => ~Keeps(row, NothingLeft)
  /\ oops => ~Keeps(row, NoHarm)
  /\ kstate = "live" /\ Memory(held, gone) \notin LiveMemories(row) =>
       ~Keeps(row, NothingLeft) /\ ~Keeps(row, NoHarm)
=============================================================================
