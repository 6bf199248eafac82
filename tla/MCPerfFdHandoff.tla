-------------------------- MODULE MCPerfFdHandoff --------------------------
(* Three programs and a module that is loaded twice.                         *)
EXTENDS PerfFdHandoff

CONSTANTS p1, p2, p3
MCProcs == {p1, p2, p3}
=============================================================================
