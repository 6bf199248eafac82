----------------------------- MODULE KoContract -----------------------------
(***************************************************************************)
(* What a kernel test module promises whoever loads it.  Loading either    *)
(* changes nothing or leaves the module in place owning exactly what it is *)
(* meant to keep; unloading gives all of it back.  Nothing outlives the    *)
(* module and the kernel stays up.                                         *)
(***************************************************************************)
CONSTANT Keeps    \* what each module owns while it is loaded

VARIABLES ko,       \* the module
          mod,      \* "absent" or "live"
          owned,    \* what it owns
          residue,  \* what is left of earlier loads
          dead      \* the kernel has stopped

vars == <<ko, mod, owned, residue, dead>>

Init == /\ ko \in DOMAIN Keeps
        /\ mod = "absent" /\ owned = {}
        /\ residue = {} /\ dead = FALSE

Load == /\ mod = "absent"
        /\ mod' = "live" /\ owned' = Keeps[ko]
        /\ UNCHANGED <<ko, residue, dead>>

Unload == /\ mod = "live"
          /\ mod' = "absent" /\ owned' = {}
          /\ UNCHANGED <<ko, residue, dead>>

Next == Load \/ Unload
Spec == Init /\ [][Next]_vars
=============================================================================
