--------------------------- MODULE MCProjectLifecycle ---------------------------
(***************************************************************************)
(* ProjectLifecycle on small instances: two runs in flight, a grace period *)
(* and a retention of one tick.                                            *)
(***************************************************************************)
EXTENDS ProjectLifecycle, TLC

\* Runs are interchangeable.  Used by the runs that check no liveness.
RunSymmetry == Permutations(Runs)
================================================================================
