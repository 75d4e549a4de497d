----------------------- MODULE MCMaintenanceAdmission -----------------------
(* Instances of MaintenanceAdmission for TLC; the values are in the cfgs. *)
EXTENDS MaintenanceAdmission, TLC

\* Recovery pods are interchangeable (sound for safety properties only).
RecovererSymmetry == Permutations(Recoverers)

\* What the last operation does after it was opened is left to the runs with
\* one operation.
LastOperationOpens == cm.op.slot = MaxSlot => cm.phase = "PAUSE_INTENT"

\* Store GC and CI jobs are explored side by side, not together; writes that
\* fail or take effect late are left to the runs without store GC.
GcOrCi ==
  \/ faults = 0 /\ \A g \in GcPods : obj[g] = "none"
  \/ /\ \A j \in Jobs : job[j].status = "none"
     /\ \A p \in PutPods : put[p] = "none" \/ pc[p] = "put_wait"
     /\ \A p \in PutPods : pc[p] \notin {"unknown", "put_get"}
     /\ clock.stage = 0 \/ cm.phase # "IDLE"
=============================================================================
