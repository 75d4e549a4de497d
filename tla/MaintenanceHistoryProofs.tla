----------------------- MODULE MaintenanceHistoryProofs -----------------------
(***************************************************************************)
(* Proofs about the course of an operation in MaintenanceAdmission: what a *)
(* save may do to the operation that is there, and what its outcome says   *)
(* in the end.                                                             *)
(*                                                                         *)
(* Every save starts from the current state (Copied of IInv), so the       *)
(* properties follow from what each phase implies of the operation         *)
(* (OpInv) and from what a coordinator that opens a new one has seen of    *)
(* the old one (Opening).  Only AlertNeverRestored needs the CronJob       *)
(* policy Forbid: with one recovery pod at a time nobody is past its first *)
(* read when the state goes to ALERT without an unresolved write (Alone).  *)
(***************************************************************************)
EXTENDS MaintenanceAdmissionProofs

OpInv ==
  /\ cm.phase = "IDLE" => cm.op.slot = 0
  /\ cm.op.claimed => cm.phase \in {"CLAIMED", "CLOSING", "RESTORING", "DONE", "ALERT"}
  /\ cm.op.write = "unknown" => cm.phase \in {"CLOSING", "ALERT"}
  /\ cm.op.outcome = "cleanup-succeeded" => cm.op.claimed
  /\ cm.phase \in {"RESTORING", "DONE"} /\ cm.op.claimed =>
       cm.op.worker \in Workers /\ pc[cm.op.worker] \in Ended
  /\ OutcomeHonest

\* The operation before has been restored and its holder has stopped.
Closed(s) == cm.op.slot # 0 =>
  cm.op.slot < s /\ cm.phase = "DONE" /\ cm.op.holder \in Pods /\ pc[cm.op.holder] \in Ended

Opening(p) == p \in Coords /\ pc[p] \in {"c_baseline", "c_intent"} /\ fresh[p] => Closed(Slot(p))

\* The inductive invariant, on top of IInv.
HInv == OpInv /\ \A p \in Pods : Opening(p)

\* What holds in addition when recovery pods do not overlap.
Alone ==
  /\ \A q, r \in RecoveryPods : Active(q) /\ Active(r) => q = r
  /\ cm.phase = "ALERT" /\ cm.op.write # "unknown" =>
       \A r \in RecoveryPods : Active(r) => pc[r] = "r_read"

-----------------------------------------------------------------------------
(* What a save does to the phase and the operation.                          *)

Writes(phase, op) == cm'.phase = phase /\ cm'.op = op

Opens(p) == p \in Coords /\ pc[p] = "c_intent" /\ Writes("PAUSE_INTENT", NewOperation(Slot(p)))
Drains == cm.phase = "PAUSE_INTENT" /\ Writes("DRAINING", [cm.op EXCEPT !.write = "none"])
Admits(p) == cm.phase = "DRAINING" /\
  Writes("ADMITTED", [cm.op EXCEPT !.worker = Worker(Slot(p)), !.outcome = "admitted"])
Closes == cm.phase = "DRAINING" /\ Writes("CLOSING", [cm.op EXCEPT !.outcome = "drain-timeout"])
Claims(p) == p \in Workers /\ cm.phase = "ADMITTED" /\ Writes("CLAIMED", [cm.op EXCEPT !.claimed = TRUE])
Doubts == Writes("ALERT", [cm.op EXCEPT !.write = "unknown", !.outcome = "alert"])
Keeps == cm.phase \in {"IDLE", "DONE"} /\ Writes(cm.phase, cm.op)
\* The saves of recover: heartbeat and GC slot, seal, restore, done, alert.
Beats == Writes(cm.phase, cm.op)
Seals == Writes("CLOSING", cm.op)
Restores(p) == /\ cm.op.write = "none" /\ OwnersStopped(cm.op)
               /\ Writes("RESTORING", [cm.op EXCEPT !.holder = p, !.write = "restore",
                                                    !.outcome = RestoreOutcome(cm.op)])
Finishes == cm.phase = "RESTORING" /\ Writes("DONE", [cm.op EXCEPT !.write = "none", !.restored = TRUE])
Alerts(p) == pc'[p] = "ended" /\ (Writes("ALERT", cm.op) \/ Writes("ALERT", [cm.op EXCEPT !.outcome = "alert"]))

RecoverCourse(p) == p \in RecoveryPods /\ pc[p] # "r_read" /\
  (Beats \/ Seals \/ Restores(p) \/ Finishes \/ Alerts(p))
Course(p) == Opens(p) \/ Drains \/ Admits(p) \/ Closes \/ Claims(p) \/ Doubts \/ Keeps \/ RecoverCourse(p)

\* The copy a save starts from is the current state.
LEMMA FreshCopy ==
  ASSUME IInv, NEW p \in Pods, pc[p] \in Saving, fresh[p]
  PROVE  /\ st[p].phase = cm.phase /\ st[p].op = cm.op /\ st[p] \in State /\ cm \in State
         /\ cm.op \in Operation /\ cm.phase \in Phases /\ Known(p)
BY DEF IInv, TypeOK, Own, Copied, Loaded, State

\* With, read field by field.
LEMMA WithFields ==
  ASSUME NEW s \in State, NEW ph, NEW o
  PROVE  With(s, ph, o).phase = ph /\ With(s, ph, o).op = o
BY DEF With, State

\* A save of coordinate: intent, draining, admission or close.
LEMMA CoordCourse ==
  ASSUME IInv, NEW p \in Coords, CoordSave(p)
  PROVE  Course(p)
<1> p \in Pods BY PodKinds
<1>1. CASE CoordIntent(p)
  <2>1. pc[p] = "c_intent" /\ fresh[p] /\ cm' = With(st[p], "PAUSE_INTENT", NewOperation(Slot(p)))
    BY <1>1 DEF CoordIntent, Save
  <2>2. st[p] \in State
    BY <2>1, FreshCopy DEF Saving
  <2> QED BY <2>1, <2>2, WithFields DEF Course, Opens, Writes
<1>2. CASE CoordDraining(p)
  <2>1. pc[p] = "c_draining" /\ fresh[p] /\ cm' = With(st[p], "DRAINING", [st[p].op EXCEPT !.write = "none"])
    BY <1>2 DEF CoordDraining, Save
  <2>2. st[p] \in State /\ st[p].op = cm.op /\ cm.phase = "PAUSE_INTENT"
    BY <2>1, FreshCopy DEF Saving, Known
  <2> QED BY <2>1, <2>2, WithFields DEF Course, Drains, Writes
<1>3. CASE CoordAdmit(p)
  <2>1. /\ pc[p] = "c_admit" /\ fresh[p]
        /\ cm' = With(st[p], "ADMITTED", [st[p].op EXCEPT !.worker = Worker(Slot(p)), !.outcome = "admitted"])
    BY <1>3 DEF CoordAdmit, Save
  <2>2. st[p] \in State /\ st[p].op = cm.op /\ cm.phase = "DRAINING"
    BY <2>1, FreshCopy DEF Saving, Known, Scanned
  <2> QED BY <2>1, <2>2, WithFields DEF Course, Admits, Writes
<1>4. CASE CoordClose(p)
  <2>1. /\ pc[p] = "c_close" /\ fresh[p]
        /\ cm' = With(st[p], "CLOSING", [st[p].op EXCEPT !.outcome = "drain-timeout"])
    BY <1>4 DEF CoordClose, SaveAndRefuse
  <2>2. st[p] \in State /\ st[p].op = cm.op /\ cm.phase = "DRAINING"
    BY <2>1, FreshCopy DEF Saving, Known
  <2> QED BY <2>1, <2>2, WithFields DEF Course, Closes, Writes
<1> QED BY <1>1, <1>2, <1>3, <1>4 DEF CoordSave

\* A save after a failed PUT, a claim of the worker or of store GC.
LEMMA ClientCourse ==
  ASSUME IInv, NEW p \in Pods,
         \/ p \in PutPods /\ UnknownAlert(p)
         \/ p \in Workers /\ WorkerClaim(p)
         \/ p \in GcPods /\ GcClaim(p)
  PROVE  Course(p)
<1>1. CASE p \in PutPods /\ UnknownAlert(p)
  <2>1. /\ pc[p] = "unknown_alert" /\ fresh[p]
        /\ cm' = With(st[p], "ALERT", [st[p].op EXCEPT !.write = "unknown", !.outcome = "alert"])
    BY <1>1 DEF UnknownAlert, SaveAndRefuse
  <2>2. st[p] \in State /\ st[p].op = cm.op
    BY <2>1, FreshCopy DEF Saving
  <2> QED BY <2>1, <2>2, WithFields DEF Course, Doubts, Writes
<1>2. CASE p \in Workers /\ WorkerClaim(p)
  <2>1. /\ pc[p] = "w_claim" /\ fresh[p]
        /\ cm' = With(st[p], "CLAIMED", [st[p].op EXCEPT !.claimed = TRUE])
    BY <1>2 DEF WorkerClaim, Save
  <2>2. st[p] \in State /\ st[p].op = cm.op /\ cm.phase = "ADMITTED"
    BY <2>1, FreshCopy DEF Saving, Known
  <2> QED BY <1>2, <2>1, <2>2, WithFields DEF Course, Claims, Writes
<1>3. CASE p \in GcPods /\ GcClaim(p)
  <2>1. pc[p] = "g_claim" /\ fresh[p] /\ cm' = [st[p] EXCEPT !.gc = p]
    BY <1>3 DEF GcClaim, Save
  <2>2. st[p] \in State /\ st[p].op = cm.op /\ st[p].phase = cm.phase /\ cm.phase \in {"IDLE", "DONE"}
    BY <2>1, FreshCopy DEF Saving, Known
  <2>3. cm'.phase = st[p].phase /\ cm'.op = st[p].op
    BY <2>1, <2>2 DEF State
  <2> QED BY <2>2, <2>3 DEF Course, Keeps, Writes
<1> QED BY <1>1, <1>2, <1>3

\* A save of recover.
LEMMA RecoveryCourse ==
  ASSUME IInv, NEW p \in RecoveryPods, RecoverSave(p)
  PROVE  Course(p)
<1> p \in Pods BY PodKinds
<1>0. pc[p] \in Saving /\ fresh[p]
  BY DEF RecoverSave, RecoverHeartbeat, RecoverGcClear, RecoverSeal, RecoverRestore, RecoverDone,
         RecoverAlert, Save, SaveAndRefuse, Saving
<1>c. st[p] \in State /\ st[p].op = cm.op /\ st[p].phase = cm.phase /\ cm.op \in Operation /\ Known(p)
  BY <1>0, FreshCopy
<1>r. pc[p] # "r_read"
  BY <1>0 DEF Saving
<1>1. CASE RecoverHeartbeat(p) \/ RecoverGcClear(p)
  <2>1. cm' = [st[p] EXCEPT !.beat = TRUE] \/ cm' = [st[p] EXCEPT !.gc = None]
    BY <1>1 DEF RecoverHeartbeat, RecoverGcClear, Save
  <2>2. cm'.phase = st[p].phase /\ cm'.op = st[p].op
    BY <1>c, <2>1 DEF State
  <2> QED BY <1>c, <1>r, <2>2 DEF Course, RecoverCourse, Beats, Writes
<1>2. CASE RecoverSeal(p)
  <2>1. cm' = With(st[p], "CLOSING", st[p].op)
    BY <1>2 DEF RecoverSeal, Save
  <2> QED BY <1>c, <1>r, <2>1, WithFields DEF Course, RecoverCourse, Seals, Writes
<1>3. CASE RecoverRestore(p)
  <2>1. /\ pc[p] = "r_restore"
        /\ cm' = With(st[p], "RESTORING", [st[p].op EXCEPT !.holder = p, !.write = "restore",
                                                        !.outcome = RestoreOutcome(st[p].op)])
    BY <1>3 DEF RecoverRestore, Save
  <2>2. cm.op.write = "none" /\ OwnersStopped(cm.op)
    BY <1>c, <2>1 DEF Known
  <2> QED BY <1>c, <1>r, <2>1, <2>2, WithFields DEF Course, RecoverCourse, Restores, Writes
<1>4. CASE RecoverDone(p)
  <2>1. /\ pc[p] = "r_done"
        /\ cm' = With(st[p], "DONE", [st[p].op EXCEPT !.write = "none", !.restored = TRUE])
    BY <1>4 DEF RecoverDone, Save
  <2>2. cm.phase = "RESTORING"
    BY <1>c, <2>1 DEF Known
  <2> QED BY <1>c, <1>r, <2>1, <2>2, WithFields DEF Course, RecoverCourse, Finishes, Writes
<1>5. CASE RecoverAlert(p)
  <2>1. /\ pc' = [pc EXCEPT ![p] = "ended"]
        /\ cm' = With(st[p], "ALERT", IF st[p].op.slot = 0 THEN st[p].op
                                      ELSE [st[p].op EXCEPT !.outcome = "alert"])
    BY <1>5 DEF RecoverAlert, SaveAndRefuse
  <2>2. pc'[p] = "ended"
    BY <2>1 DEF IInv, TypeOK
  <2>3. Writes("ALERT", IF cm.op.slot = 0 THEN cm.op ELSE [cm.op EXCEPT !.outcome = "alert"])
    BY <1>c, <2>1, WithFields DEF Writes
  <2> QED BY <1>r, <2>2, <2>3 DEF Course, RecoverCourse, Alerts
<1> QED BY <1>1, <1>2, <1>3, <1>4, <1>5 DEF RecoverSave

\* A save: its writer was at work with a fresh version, which everyone else
\* loses.
LEMMA CommitEffect ==
  ASSUME IInv, NEW p \in Pods, CommitStep(p)
  PROVE  /\ Course(p) /\ Active(p) /\ pc'[p] \notin {"c_baseline", "c_intent", "off"}
         /\ pc[p] = "c_intent" => fresh[p]
         /\ \A q \in Pods : q # p => pc'[q] = pc[q] /\ ~fresh'[q]
<1>1. Course(p)
  BY CoordCourse, ClientCourse, RecoveryCourse DEF CommitStep
<1>2. PICK s, n : /\ Save(p, s, n) \/ (SaveAndRefuse(p, s) /\ n = "ended")
                  /\ pc[p] \in Saving /\ n \notin {"c_baseline", "c_intent", "off"}
  <2>1. CASE CoordSave(p)
    BY <2>1 DEF CoordSave, CoordIntent, CoordDraining, CoordAdmit, CoordClose, Saving
  <2>2. CASE UnknownAlert(p) \/ WorkerClaim(p) \/ GcClaim(p)
    BY <2>2 DEF UnknownAlert, WorkerClaim, GcClaim, Saving
  <2>3. CASE RecoverSave(p)
    BY <2>3 DEF RecoverSave, RecoverHeartbeat, RecoverGcClear, RecoverSeal, RecoverRestore, RecoverDone,
                RecoverAlert, Saving
  <2> QED BY <2>1, <2>2, <2>3 DEF CommitStep
<1>3. fresh[p] /\ pc' = [pc EXCEPT ![p] = n] /\ \A q \in Pods : q # p => ~fresh'[q]
  BY <1>2 DEF Save, SaveAndRefuse
<1>4. DOMAIN pc = Pods
  BY DEF IInv, TypeOK
<1> QED BY <1>1, <1>2, <1>3, <1>4 DEF Active, Saving, Ended

\* A save takes the operation from one phase's conditions to the next one's.
LEMMA CourseKeeps ==
  ASSUME IInv, OpInv, NEW p \in Pods, Course(p), Active(p),
         \A q \in Pods : q # p => pc'[q] = pc[q]
  PROVE  OpInv'
<1>0. cm.op \in Operation /\ Workers \subseteq Pods
  BY PodKinds DEF IInv, TypeOK, State
<1>s. \A w \in Workers : pc[w] \in Ended => pc'[w] = pc[w]
  BY <1>0 DEF Active
<1>1. CASE Opens(p)
  <2>1. cm'.phase = "PAUSE_INTENT" /\ ~cm'.op.claimed /\ cm'.op.write = "pause" /\ cm'.op.outcome = "pause-intent"
    BY <1>1 DEF Opens, Writes, NewOperation, NoOp
  <2> QED BY <2>1 DEF OpInv, OutcomeHonest
<1>2. CASE Drains \/ Admits(p) \/ Closes
  <2>1. /\ cm'.phase \in {"DRAINING", "ADMITTED", "CLOSING"} /\ cm'.op.claimed = cm.op.claimed
        /\ cm'.op.write \in {cm.op.write, "none"}
        /\ cm'.op.outcome \in {cm.op.outcome, "admitted", "drain-timeout"}
        /\ cm.phase \in {"PAUSE_INTENT", "DRAINING"}
    BY <1>0, <1>2 DEF Drains, Admits, Closes, Writes, Operation
  <2> QED BY <2>1 DEF OpInv, OutcomeHonest
<1>3. CASE Claims(p) \/ Doubts \/ Seals \/ Alerts(p)
  <2>1. /\ cm'.phase \in {"CLAIMED", "ALERT", "CLOSING"} /\ (cm.op.claimed => cm'.op.claimed)
        /\ cm'.phase = "CLAIMED" => cm.phase = "ADMITTED" /\ cm'.op.write = cm.op.write
        /\ cm'.op.outcome \in {cm.op.outcome, "alert"}
    BY <1>0, <1>3 DEF Claims, Doubts, Seals, Alerts, Writes, Operation
  <2> QED BY <2>1 DEF OpInv, OutcomeHonest
<1>4. CASE Keeps \/ Beats
  <2>1. cm'.phase = cm.phase /\ cm'.op = cm.op
    BY <1>4 DEF Keeps, Beats, Writes
  <2> QED BY <1>s, <2>1 DEF OpInv, OutcomeHonest
<1>5. CASE Restores(p)
  <2>1. /\ cm'.phase = "RESTORING" /\ cm'.op.claimed = cm.op.claimed /\ cm'.op.worker = cm.op.worker
        /\ cm'.op.write = "restore" /\ cm'.op.outcome = RestoreOutcome(cm.op)
    BY <1>0, <1>5 DEF Restores, Writes, Operation
  <2>2. cm.op.claimed => cm.op.worker \in Workers /\ pc[cm.op.worker] \in Ended
    BY <1>5 DEF Restores, OwnersStopped
  <2>3. CASE cm.op.claimed
    <3>1. pc'[cm.op.worker] = pc[cm.op.worker]
      BY <1>s, <2>2, <2>3
    <3>2. /\ pc[cm.op.worker] = "cleaned" => cm'.op.outcome = "cleanup-succeeded"
          /\ pc[cm.op.worker] # "cleaned" => cm'.op.outcome = "cleanup-failed"
      BY <2>1, <2>3 DEF RestoreOutcome
    <3> QED BY <2>1, <2>2, <2>3, <3>1, <3>2 DEF OpInv, OutcomeHonest
  <2>4. CASE ~cm.op.claimed
    <3>1. cm'.op.outcome \in {"worker-unclaimed", "coordinator-failed", cm.op.outcome}
      BY <2>1, <2>4 DEF RestoreOutcome
    <3> QED BY <2>1, <2>4, <3>1 DEF OpInv, OutcomeHonest
  <2> QED BY <1>0, <2>3, <2>4 DEF Operation
<1>6. CASE Finishes
  <2>1. /\ cm.phase = "RESTORING" /\ cm'.phase = "DONE" /\ cm'.op.write = "none"
        /\ cm'.op.claimed = cm.op.claimed /\ cm'.op.worker = cm.op.worker
        /\ cm'.op.outcome = cm.op.outcome
    BY <1>0, <1>6 DEF Finishes, Writes, Operation
  <2> QED BY <1>s, <2>1 DEF OpInv, OutcomeHonest
<1> QED BY <1>1, <1>2, <1>3, <1>4, <1>5, <1>6 DEF Course, RecoverCourse

\* A step that saves nothing, by a pod that has not stopped or is not needed.
LEMMA QuietStep ==
  ASSUME IInv, HInv, NEW p \in Pods, cm' = cm,
         \A q \in Pods : q # p => pc'[q] = pc[q] /\ fresh'[q] = fresh[q],
         pc[p] \notin Ended \/ (p \notin Workers /\ cm.op.holder # p), Opening(p)'
  PROVE  HInv'
<1>1. \A w \in Workers : w \in Pods
  BY PodKinds
<1>2. OpInv'
  BY <1>1 DEF HInv, OpInv, OutcomeHonest
<1>3. ASSUME NEW q \in Pods, q # p PROVE Opening(q)'
  <2>1. Closed(Slot(q)) => Closed(Slot(q))'
    BY DEF Closed
  <2> QED BY <1>3, <2>1 DEF HInv, Opening
<1> QED BY <1>2, <1>3 DEF HInv

-----------------------------------------------------------------------------
(* Steps that do not save.                                                   *)

Moves(p, n) == /\ pc' = [pc EXCEPT ![p] = n]
               /\ \A q \in Pods : q # p => fresh'[q] = fresh[q]

\* How a process gets to the point where it opens an operation.
Approaches(p) == p \in Coords /\
  \/ pc[p] = "c_read" /\ MayOpen(p)
  \/ pc[p] = "c_baseline" /\ fresh' = fresh

\* A step of a process at work; at its first read recovery stops at ALERT.
Local(p, n) == /\ Moves(p, n) /\ Active(p)
               /\ n \in {"c_baseline", "c_intent"} => Approaches(p)
               /\ pc[p] = "r_read" /\ cm.phase = "ALERT" => n = "ended"
               /\ n \notin {"off", "r_read"}

\* Going on, rereading, looking around and ending are such moves.
LEMMA Movements ==
  ASSUME IInv, NEW p \in Pods, NEW n
  PROVE  Goto(p, n) \/ Forget(p, n) \/ End(p, n) \/ Snapshot(p, n) \/ Read(p, n) => Moves(p, n)
BY DEF IInv, TypeOK, Goto, Forget, End, Snapshot, Read, Moves

\* The steps of coordinate between two saves.
LEMMA CoordLocal ==
  ASSUME IInv, NEW p \in Coords, CoordStep(p)
  PROVE  \E n : Local(p, n)
<1> p \in Pods BY PodKinds
<1>1. CASE CoordSnapshot(p)
  BY <1>1, Movements DEF CoordSnapshot, Refuse, Local, Active, Ended
<1>2. CASE CoordRead(p)
  BY <1>2, Movements DEF CoordRead, Refuse, Local, Active, Ended, Approaches
<1>3. CASE CoordBaseline(p)
  <2>1. Goto(p, "c_intent") => fresh' = fresh
    BY DEF Goto
  <2> QED BY <1>3, <2>1, Movements DEF CoordBaseline, Return, Local, Active, Ended, Approaches
<1>4. CASE CoordLoop(p)
  BY <1>4, Movements DEF CoordLoop, Refuse, Local, Active, Ended
<1>5. CASE CoordObserve(p)
  <2>1. Forget(p, "c_loop") \/ (pc' = [pc EXCEPT ![p] = "c_runner"] /\ fresh' = fresh)
    BY <1>5 DEF CoordObserve
  <2>2. \E n \in {"c_loop", "c_runner"} : Moves(p, n)
    BY <2>1, Movements DEF Moves
  <2> QED BY <1>5, <2>2 DEF CoordObserve, Local, Active, Ended
<1>6. CASE CoordRunner(p)
  BY <1>6, Movements DEF CoordRunner, Local, Active, Ended
<1>7. CASE CoordScan(p)
  BY <1>7, Movements DEF CoordScan, Scan, Local, Active, Ended
<1>8. CASE CoordTimeout(p)
  BY <1>8, Movements DEF CoordTimeout, Refuse, Local, Active, Ended
<1> QED BY <1>1, <1>2, <1>3, <1>4, <1>5, <1>6, <1>7, <1>8 DEF CoordStep

\* The PUT to GitLab and its acknowledgement, for both of its issuers.
LEMMA PutLocal ==
  ASSUME IInv, NEW p \in Pods, AckStep(p) \/ PutStep(p)
  PROVE  \E n : Local(p, n)
<1>1. CASE PutReadBack(p)
  BY <1>1, Movements DEF PutReadBack, Local, Active, Ended
<1>2. CASE UnknownRead(p) \/ AckRead(p)
  BY <1>2, Movements DEF UnknownRead, AckRead, Refuse, Local, Active, Ended
<1>3. CASE PutSend(p) \/ PutAnswered(p) \/ PutFails(p)
  BY <1>3, Movements DEF PutSend, PutAnswered, PutFails, Local, Active, Ended
<1> QED BY <1>1, <1>2, <1>3 DEF AckStep, PutStep

\* The steps of recover between two saves.
LEMMA RecoverLocal ==
  ASSUME IInv, NEW p \in RecoveryPods, RecoverStep(p)
  PROVE  \E n : Local(p, n)
<1> p \in Pods BY PodKinds
<1>1. CASE RecoverRead(p) \/ RecoverProbe(p)
  BY <1>1, Movements DEF RecoverRead, RecoverProbe, Refuse, Local, Active, Ended
<1>2. CASE RecoverReread(p) \/ RecoverGc(p)
  BY <1>2, Movements DEF RecoverReread, RecoverGc, Return, Local, Active, Ended
<1>3. CASE RecoverSnapshot(p)
  BY <1>3, Movements DEF RecoverSnapshot, Local, Active, Ended
<1>4. CASE RecoverDecide(p) \/ RecoverJudge(p)
  <2>1. \A op, t : Verdict(op, t) \in {"ended", "alert", "r_restore"}
    BY DEF Verdict
  <2>2. pc[p] \in {"r_decide", "r_judge"} /\ \E n \in {"ended", "alert", "r_restore", "r_seal"} : Moves(p, n)
    <3>1. CASE RecoverDecide(p)
      BY <2>1, <3>1, Movements DEF RecoverDecide, Refuse, Return
    <3>2. CASE RecoverJudge(p)
      BY <2>1, <3>2, Movements DEF RecoverJudge, Return
    <3> QED BY <1>4, <3>1, <3>2
  <2> QED BY <2>2 DEF Local, Active, Ended
<1> QED BY <1>1, <1>2, <1>3, <1>4 DEF RecoverStep

\* The steps of the worker and of store GC.
LEMMA ClientLocal ==
  ASSUME IInv, NEW p \in Pods, WorkerStep(p) \/ GcStep(p)
  PROVE  \E n : Local(p, n)
<1>1. CASE WorkerRead(p) \/ WorkerCheck(p)
  BY <1>1, Movements DEF WorkerRead, WorkerCheck, Refuse, Local, Active, Ended
<1>2. CASE WorkerGate(p) \/ WorkerDelete(p)
  BY <1>2, Movements DEF WorkerGate, WorkerDelete, Refuse, Local, Active, Ended
<1>3. CASE GcGate(p)
  BY <1>3, Movements DEF GcGate, Refuse, Local, Active, Ended
<1>4. CASE GcRead(p) \/ GcWork(p)
  BY <1>4, Movements DEF GcRead, GcWork, Refuse, Return, Local, Active, Ended
<1> QED BY <1>1, <1>2, <1>3, <1>4 DEF WorkerStep, GcStep

\* Conflicts and readbacks of Store.save.
LEMMA StoreLocal ==
  ASSUME IInv, NEW p \in Pods, StoreStep(p)
  PROVE  \E n : Local(p, n)
<1>1. CASE Conflict(p)
  BY <1>1, Movements DEF Conflict, Refuse, Saving, Local, Active, Ended
<1>2. ASSUME NEW at \in Control, NEW next \in Control, ReadBack(p, at, next),
             at \notin Ended \cup {"off", "r_read"}, next \notin {"c_baseline", "c_intent", "off", "r_read"}
      PROVE  \E n : Local(p, n)
  BY <1>2, Movements DEF ReadBack, Refuse, Return, Local, Active, Ended
<1> QED BY <1>1, <1>2 DEF StoreStep, Control, Ended, Saving

\* A step that saves nothing and is no local move leaves the processes alone,
\* starts one, or reuses a forgotten identity.
Idles == cm' = cm /\ pc' = pc /\ fresh' = fresh
Starts(p) == /\ cm' = cm /\ pc[p] = "off" /\ fresh' = fresh
             /\ \E n : pc' = [pc EXCEPT ![p] = n] /\ n \notin {"c_baseline", "c_intent"}
             /\ p \in RecoveryPods => /\ Forbid => \A q \in RecoveryPods : ~Active(q)
                                      /\ pc'[p] = "r_read"
Recycles(p) == /\ cm' = cm /\ pc[p] \in Ended /\ p \notin Workers /\ cm.op.holder # p
               /\ fresh' = fresh /\ pc' = [pc EXCEPT ![p] = "off"]

\* What a step does to the ConfigMap and to the control points.
LEMMA StepKinds ==
  ASSUME IInv, [Next]_vars
  PROVE  \/ Idles
         \/ \E p \in Pods : \/ CommitStep(p) \/ Starts(p) \/ Recycles(p)
                            \/ cm' = cm /\ \E n : Local(p, n)
<1>1. ASSUME NEW p \in Pods, ThinkStep(p) PROVE cm' = cm /\ \E n : Local(p, n)
  BY <1>1, CoordLocal, PutLocal, RecoverLocal, ClientLocal, StoreLocal DEF ThinkStep
<1>2. ASSUME NEW p \in Pods, RequestStep(p) PROVE cm' = cm /\ \E n : Local(p, n)
  BY <1>2, PutLocal DEF RequestStep
<1>3. ASSUME NEW p \in Pods, StartStep(p) PROVE Starts(p)
  <2>1. cm' = cm /\ obj[p] = "none" /\ \E n \in {"c_snapshot", "w_read", "r_read", "g_gate"} : Goto(p, n)
    BY <1>3 DEF StartStep, StartCoord, StartWorker, StartRecovery, StartGc, Start
  <2>2. pc[p] = "off"
    BY <2>1 DEF IInv, Own, Stopped
  <2>3. p \in RecoveryPods => StartRecovery(p)
    BY <1>3, PodKinds DEF StartStep
  <2>4. DOMAIN pc = Pods
    BY DEF IInv, TypeOK
  <2> QED BY <2>1, <2>2, <2>3, <2>4 DEF Starts, Goto, StartRecovery, Start
<1>4. ASSUME NEW p \in Pods, RecycleStep(p) PROVE Recycles(p)
  BY <1>4, PodKinds DEF RecycleStep, Recycle, Recycles
<1>5. ASSUME NEW p \in Pods, ReportStep(p) PROVE Idles
  BY <1>5 DEF ReportStep, local, Idles
<1>6. ASSUME NEW p \in Pods, FaultStep(p) PROVE Idles \/ (cm' = cm /\ \E n : Local(p, n))
  <2>1. CASE Abort(p) /\ UNCHANGED cm
    BY <2>1, Movements DEF Abort, Refuse, Local
  <2>2. CASE UNCHANGED <<cm, local>>
    BY <2>2 DEF local, Idles
  <2> QED BY <1>6, <2>1, <2>2 DEF FaultStep
<1>7. TimeStep \/ GitLabStep \/ UNCHANGED vars => Idles
  BY DEF TimeStep, GitLabStep, vars, local, Idles
<1> QED BY <1>1, <1>2, <1>3, <1>4, <1>5, <1>6, <1>7 DEF Next, ProcessStep

-----------------------------------------------------------------------------
(* The invariant is inductive.                                               *)

\* The initial states satisfy the invariant.
LEMMA InitHInv == Init => HInv
BY DEF Init, InitialState, NoOp, HInv, OpInv, OutcomeHonest, Opening

\* A move of p opens nothing but what MayOpen allows.
LEMMA LocalHInv ==
  ASSUME IInv, HInv, NEW p \in Pods, NEW n, Local(p, n), cm' = cm
  PROVE  HInv'
<1>1. pc'[p] = n /\ \A q \in Pods : q # p => pc'[q] = pc[q] /\ fresh'[q] = fresh[q]
  BY DEF Local, Moves, IInv, TypeOK
<1>2. pc[p] \notin Ended
  BY DEF Local, Active
<1>3. Closed(Slot(p)) => Closed(Slot(p))'
  BY <1>1, <1>2 DEF Closed
<1>4. Opening(p)'
  <2> SUFFICES ASSUME p \in Coords, n \in {"c_baseline", "c_intent"}, fresh'[p]
               PROVE  Closed(Slot(p))'
    BY <1>1 DEF Opening
  <2>1. CASE MayOpen(p)
    <3>1. cm.op.slot # 0 => cm.phase = "DONE" /\ cm.op.slot < Slot(p) /\ cm.op.holder \in snap[p]
      BY <2>1 DEF MayOpen, HInv, OpInv
    <3>2. \A q \in snap[p] : q \in Pods /\ pc[q] \in Ended
      BY DEF IInv, TypeOK, Own, Stopped
    <3> QED BY <1>3, <3>1, <3>2 DEF Closed
  <2>2. CASE pc[p] = "c_baseline" /\ fresh' = fresh
    BY <1>3, <2>2 DEF HInv, Opening
  <2> QED BY <2>1, <2>2 DEF Local, Approaches
<1> QED BY <1>1, <1>2, <1>4, QuietStep

\* Every step preserves the invariant.
LEMMA NextHInv == IInv /\ HInv /\ [Next]_vars => HInv'
<1> SUFFICES ASSUME IInv, HInv, [Next]_vars PROVE HInv'
  OBVIOUS
<1>0. pc \in [Pods -> Control] /\ fresh \in [Pods -> BOOLEAN]
  BY DEF IInv, TypeOK
<1>1. ASSUME NEW p \in Pods, CommitStep(p) PROVE HInv'
  <2>1. OpInv'
    BY <1>1, CommitEffect, CourseKeeps DEF HInv
  <2>2. \A q \in Pods : ~(pc'[q] \in {"c_baseline", "c_intent"} /\ fresh'[q])
    BY <1>1, CommitEffect
  <2> QED BY <2>1, <2>2 DEF HInv, Opening
<1>2. ASSUME NEW p \in Pods, Starts(p) PROVE HInv'
  <2>1. pc'[p] \notin {"c_baseline", "c_intent"} /\ \A q \in Pods : q # p => pc'[q] = pc[q] /\ fresh'[q] = fresh[q]
    BY <1>0, <1>2 DEF Starts
  <2>2. Opening(p)'
    BY <2>1 DEF Opening
  <2> QED BY <1>2, <2>1, <2>2, QuietStep DEF Starts, Ended
<1>3. ASSUME NEW p \in Pods, Recycles(p) PROVE HInv'
  <2>1. pc'[p] = "off" /\ \A q \in Pods : q # p => pc'[q] = pc[q] /\ fresh'[q] = fresh[q]
    BY <1>0, <1>3 DEF Recycles
  <2>2. Opening(p)'
    BY <2>1 DEF Opening
  <2> QED BY <1>3, <2>1, <2>2, QuietStep DEF Recycles
<1>4. CASE Idles
  BY <1>4 DEF Idles, HInv, OpInv, OutcomeHonest, Opening, Closed
<1> QED BY <1>1, <1>2, <1>3, <1>4, StepKinds, LocalHInv

-----------------------------------------------------------------------------
(* Recovery pods that do not overlap.                                        *)

\* At first no recovery pod runs.
LEMMA InitAlone == Init => Alone
BY PodKinds DEF Init, InitialState, Alone, Active

\* A recovery pod starts only when no other runs, and is the only one that
\* could raise ALERT or carry on past it.
LEMMA NextAlone == Forbid /\ IInv /\ Alone /\ [Next]_vars => Alone'
<1> SUFFICES ASSUME Forbid, IInv, Alone, [Next]_vars PROVE Alone'
  OBVIOUS
<1>0. pc \in [Pods -> Control] /\ RecoveryPods \subseteq Pods
  BY PodKinds DEF IInv, TypeOK
<1>1. ASSUME NEW p \in Pods, CommitStep(p) PROVE Alone'
  <2>1. Course(p) /\ Active(p) /\ \A q \in Pods : q # p => pc'[q] = pc[q]
    BY <1>1, CommitEffect
  <2>2. \A r \in RecoveryPods : Active(r)' => Active(r)
    BY <1>0, <2>1 DEF Active
  <2>3. ASSUME cm'.phase = "ALERT", cm'.op.write # "unknown", NEW r \in RecoveryPods, Active(r)'
        PROVE  pc'[r] = "r_read"
    <3>1. cm.op \in Operation
      BY DEF IInv, TypeOK, State
    <3>2. RecoverCourse(p) /\ (Beats \/ Alerts(p))
      BY <2>1, <2>3, <3>1
      DEF Course, RecoverCourse, Opens, Drains, Admits, Closes, Claims, Doubts, Keeps, Seals, Restores,
          Finishes, Writes, Operation
    <3>3. CASE Beats
      BY <2>1, <2>3, <3>2, <3>3 DEF Beats, Writes, RecoverCourse, Alone
    <3>4. CASE Alerts(p)
      BY <2>1, <2>2, <2>3, <3>2, <3>4 DEF Alerts, RecoverCourse, Alone, Active, Ended
    <3> QED BY <3>2, <3>3, <3>4
  <2> QED BY <2>2, <2>3 DEF Alone
<1>2. ASSUME NEW p \in Pods, NEW n, Local(p, n), cm' = cm PROVE Alone'
  <2>1. Active(p) /\ pc'[p] = n /\ \A q \in Pods : q # p => pc'[q] = pc[q]
    BY <1>0, <1>2 DEF Local, Moves
  <2>2. \A r \in RecoveryPods : Active(r)' => Active(r)
    BY <1>0, <2>1 DEF Active
  <2> QED BY <1>0, <1>2, <2>1, <2>2 DEF Alone, Local, Active, Ended
<1>3. ASSUME NEW p \in Pods, Starts(p) PROVE Alone'
  BY <1>0, <1>3 DEF Starts, Alone, Active
<1>4. ASSUME NEW p \in Pods, Recycles(p) PROVE Alone'
  BY <1>0, <1>4 DEF Recycles, Alone, Active
<1>5. CASE Idles
  BY <1>5 DEF Idles, Alone, Active
<1> QED BY <1>1, <1>2, <1>3, <1>4, <1>5, StepKinds

-----------------------------------------------------------------------------
(* Theorems *)

\* What each phase says of the operation, and what a coordinator that is
\* about to open the next one has seen of it, holds in every reachable state.
THEOREM HistoryInvariance == Spec => []HInv
BY InitHInv, NextHInv, Invariance, PTL DEF Spec

\* recover never records a success the claimed worker did not have, nor hides one.
THEOREM OutcomesHonest == Spec => []OutcomeHonest
<1>1. HInv => OutcomeHonest BY DEF HInv, OpInv
<1> QED BY <1>1, HistoryInvariance, PTL

\* No save of coordinate, recover, the worker or store GC undoes a claim of
\* the operation, and none claims it once recover has sealed it.
THEOREM ClaimsLatched == Spec => ClaimLatchKept
<1> DEFINE Latched == cm'.op.slot = cm.op.slot =>
             /\ cm.op.claimed => cm'.op.claimed /\ cm'.op.worker = cm.op.worker
             /\ ~cm.op.claimed /\ cm'.op.claimed => cm.phase = "ADMITTED"
<1>1. ASSUME IInv, HInv, [Next]_vars PROVE [Latched]_cm
  <2> SUFFICES ASSUME NEW p \in Pods, CommitStep(p) PROVE Latched
    BY <1>1, StepKinds DEF Idles, Starts, Recycles
  <2>0. Course(p) /\ cm.op \in Operation
    BY <1>1, CommitEffect DEF IInv, TypeOK, State
  <2>1. CASE Opens(p)
    <3>1. cm'.op.slot = Slot(p) /\ ~cm'.op.claimed
      BY <2>1 DEF Opens, Writes, NewOperation, NoOp
    <3>2. cm.op.slot # 0 => cm.op.slot < Slot(p)
      BY <1>1, <2>1, CommitEffect DEF Opens, HInv, Opening, Closed
    <3>3. Slot(p) \in Nat \ {0}
      BY <2>1, PodKinds, MaxSlotAssumption DEF Opens, Slots
    <3>4. cm.op.slot \in Nat
      BY <2>0, MaxSlotAssumption DEF Operation, Slots
    <3> QED BY <3>1, <3>2, <3>3, <3>4
  <2>2. CASE Admits(p)
    <3>1. ~cm.op.claimed
      BY <1>1, <2>2 DEF Admits, HInv, OpInv
    <3> QED BY <2>0, <2>2, <3>1 DEF Admits, Writes, Operation
  <2>3. CASE Claims(p)
    BY <2>0, <2>3 DEF Claims, Writes, Operation
  <2>4. CASE Drains \/ Closes \/ Doubts \/ Keeps
    BY <2>0, <2>4 DEF Drains, Closes, Doubts, Keeps, Writes, Operation
  <2>5. CASE RecoverCourse(p)
    BY <2>0, <2>5 DEF RecoverCourse, Beats, Seals, Restores, Finishes, Alerts, Writes, Operation
  <2> QED BY <2>0, <2>1, <2>2, <2>3, <2>4, <2>5 DEF Course
<1> QED BY <1>1, Invariance, HistoryInvariance, PTL DEF Spec, ClaimLatchKept

\* coordinate opens an operation only over a restored one whose restoration
\* holder has stopped, and only for a later slot.
THEOREM OperationsApart == Spec => OperationsDoNotOverlap
<1> DEFINE Apart == cm'.op.slot # cm.op.slot =>
             /\ cm'.op.slot > cm.op.slot
             /\ cm.op.slot # 0 => cm.phase = "DONE" /\ pc[cm.op.holder] \in Ended
<1>1. ASSUME IInv, HInv, [Next]_vars PROVE [Apart]_cm
  <2> SUFFICES ASSUME NEW p \in Pods, CommitStep(p) PROVE Apart
    BY <1>1, StepKinds DEF Idles, Starts, Recycles
  <2>0. Course(p) /\ cm.op \in Operation
    BY <1>1, CommitEffect DEF IInv, TypeOK, State
  <2>1. CASE Opens(p)
    <3>1. cm'.op.slot = Slot(p)
      BY <2>1 DEF Opens, Writes, NewOperation, NoOp
    <3>2. Closed(Slot(p))
      BY <1>1, <2>1, CommitEffect DEF Opens, HInv, Opening
    <3>3. Slot(p) \in Nat \ {0}
      BY <2>1, PodKinds, MaxSlotAssumption DEF Opens, Slots
    <3> QED BY <3>1, <3>2, <3>3 DEF Closed
  <2>2. CASE ~Opens(p)
    <3>1. cm'.op.slot = cm.op.slot
      BY <2>0, <2>2
      DEF Course, Drains, Admits, Closes, Claims, Doubts, Keeps, RecoverCourse, Beats, Seals, Restores,
          Finishes, Alerts, Writes, Operation
    <3> QED BY <3>1
  <2> QED BY <2>1, <2>2
<1> QED BY <1>1, Invariance, HistoryInvariance, PTL DEF Spec, OperationsDoNotOverlap

\* Where the CronJob forbids overlapping recovery pods, an operation that was
\* ever in ALERT is never restored: recover refuses it at its first read, and
\* a seal that slips past keeps the unresolved write that leads back to ALERT.
THEOREM AlertsStay == Forbid => (Spec => AlertNeverRestored)
<1> SUFFICES ASSUME Forbid PROVE Spec => AlertNeverRestored
  OBVIOUS
<1> DEFINE Stays == cm.phase = "ALERT" \/ cm.op.write = "unknown" =>
             /\ cm'.phase = "ALERT" \/ cm'.op.write = "unknown"
             /\ cm'.phase \notin {"RESTORING", "DONE"}
<1>1. ASSUME IInv, HInv, Alone, [Next]_vars PROVE [Stays]_cm
  <2> SUFFICES ASSUME NEW p \in Pods, CommitStep(p), cm.phase = "ALERT" \/ cm.op.write = "unknown"
               PROVE  /\ cm'.phase = "ALERT" \/ cm'.op.write = "unknown"
                      /\ cm'.phase \notin {"RESTORING", "DONE"}
    BY <1>1, StepKinds DEF Idles, Starts, Recycles
  <2>0. Course(p) /\ Active(p) /\ cm.op \in Operation
    BY <1>1, CommitEffect DEF IInv, TypeOK, State
  <2>1. cm.phase \in {"CLOSING", "ALERT"}
    BY <1>1 DEF HInv, OpInv
  <2>2. ~Opens(p)
    <3>1. ASSUME Opens(p) PROVE cm.phase \in {"IDLE", "DONE"}
      BY <1>1, <3>1, CommitEffect, FreshCopy DEF Opens, Saving, Known
    <3> QED BY <2>1, <3>1
  <2>3. p \in RecoveryPods /\ pc[p] # "r_read" => cm.op.write = "unknown"
    BY <1>1, <2>0 DEF Alone
  <2>4. CASE Doubts
    BY <2>0, <2>4 DEF Doubts, Writes, Operation
  <2>5. CASE RecoverCourse(p)
    BY <2>0, <2>1, <2>3, <2>5 DEF RecoverCourse, Beats, Seals, Restores, Finishes, Alerts, Writes, Operation
  <2> QED BY <2>0, <2>1, <2>2, <2>4, <2>5 DEF Course, Drains, Admits, Closes, Claims, Keeps
<1>2. Spec => []Alone
  BY InitAlone, NextAlone, Invariance, PTL DEF Spec
<1> QED BY <1>1, <1>2, Invariance, HistoryInvariance, PTL DEF Spec, AlertNeverRestored
===============================================================================
