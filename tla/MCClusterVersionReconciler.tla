-------------------- MODULE MCClusterVersionReconciler --------------------
(* Instantiation of ClusterVersionReconciler for TLC.                      *)
EXTENDS ClusterVersionReconciler

CONSTANT RVMod   \* resourceVersions are compared modulo RVMod

ASSUME RVMod > MaxEnv + 1

MCLabelTexts == {"empty", "kv", "malformed"}

(* resourceVersions modulo RVMod: between a Get and the write that uses   *)
(* its resourceVersion at most MaxEnv + 1 other writes (edits and one CA  *)
(* injection) can hit the object, so no stale version comes round again.  *)
MCNextRV(n) == (n + 1) % RVMod

(* For the run that checks the inductive invariant with the unbounded     *)
(* resourceVersions of the specification.                                 *)
RVBounded == \A r \in Obj : store[r].rv <= RVMod
=============================================================================
