----------------------------- MODULE MCSandbox -----------------------------
(***************************************************************************)
(* Small instances of Sandbox.                                             *)
(***************************************************************************)
EXTENDS Sandbox, TLC

\* What may go wrong before there is a task.
Early == {"setup", "create", "newtask"}

\* Early, then one way at a time to fail with a task; a delete may fail after a
\* Kill that failed.
MCFaultSets == {Early, {"wait"}, {"start"}, {"stream"}, {"kill"}, {"kill", "delete"}}

MCNoFaults == {{}}

\* Executions and ids are only compared with each other.
Symmetry == Permutations(Execs) \cup Permutations(Ids)
=============================================================================
