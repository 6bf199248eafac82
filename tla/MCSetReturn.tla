----------------------------- MODULE MCSetReturn -----------------------------
(***************************************************************************)
(* Two environments, with two XML files and with one: the second case of   *)
(* the first environment and the only one of the second both come after    *)
(* another file has left its values in the tools' variables; or the first  *)
(* environment has one case, and two XML files with one number for it.     *)
(***************************************************************************)
EXTENDS SetReturn

TwoThenOne == <<2, 1>>
==============================================================================
