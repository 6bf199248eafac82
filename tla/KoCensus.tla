----------------------------- MODULE KoCensus -----------------------------
(***************************************************************************)
(* The lists of MCKoLifecycle against the source: every module that is not *)
(* in them passes the check of KoPaths.                                    *)
(***************************************************************************)
EXTENDS MCKoLifecycle

ASSUME LeakyAssumption ==
  \A k \in DOMAIN KoTable :
    k \notin Leaky \cup {"notifier_until_reboot"} => Keeps(KoTable[k], NothingLeft)

ASSUME CarelessAssumption ==
  \A k \in DOMAIN KoTable :
    k \notin Careless \cup Dangling =>
      Keeps(KoTable[k], [free |-> MCTextRes, careful |-> TRUE])
=============================================================================
