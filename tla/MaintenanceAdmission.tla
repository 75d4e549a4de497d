------------------------ MODULE MaintenanceAdmission ------------------------
(***************************************************************************)
(* The runner-2 maintenance admission protocol of                          *)
(* infrastructure/shared-services/gitlab-runner/ci/maintenance-admission.py *)
(* and of its client, the cache-retention worker.                          *)
(*                                                                         *)
(* Hourly, a coordinator pod pauses the GitLab runner, waits for accepted  *)
(* CI work to drain and admits one privileged worker pod; the worker       *)
(* claims the admission and deletes cache directories; a minutely recovery *)
(* pod seals the operation, waits for its owners to retire and unpauses    *)
(* the runner.  A store-GC pod shares the same lock.  All they share is    *)
(* one ConfigMap, updated by compare-and-swap on its resourceVersion, and  *)
(* the only proof that a pod has stopped is its terminal pod object.       *)
(*                                                                         *)
(* A step is the code between two remote calls.  A pod may die between any *)
(* two steps (Abort, which also stands for every exception that ends the   *)
(* process), and a GitLab PUT may take effect after its issuer has died.   *)
(***************************************************************************)
EXTENDS Naturals

CONSTANTS MaxSlot,      \* number of hourly slots considered
          Recoverers,   \* identities of recovery pods, reused once forgotten
          Collectors,   \* identities of store-GC pods, reused once forgotten
          Jobs,         \* CI jobs runner 2 may accept
          Forbid,       \* TRUE: recovery pods never overlap (CronJob policy)
          Mortal,       \* kinds of pods whose processes may die
          Deletable,    \* kinds of pods whose objects may be deleted
          MaxFaults     \* number of such deaths and deletions

ASSUME MaxSlotAssumption == MaxSlot \in Nat \ {0}
ASSUME ForbidAssumption == Forbid \in BOOLEAN
ASSUME MaxFaultsAssumption == MaxFaults \in Nat

Slots == 1..MaxSlot

(***************************************************************************)
(* Pod identities.  There is one coordinator and one worker pod per slot   *)
(* (backoffLimit 0), so their identity is the slot; an operation's id is   *)
(* made from its slot and coordinator, hence is its slot too.              *)
(***************************************************************************)
Coord(s) == <<"coord", s>>
Worker(s) == <<"worker", s>>
Slot(p) == p[2]
Coords == {"coord"} \X Slots
Workers == {"worker"} \X Slots
RecoveryPods == {"recovery"} \X Recoverers
GcPods == {"gc"} \X Collectors
Pods == Coords \cup Workers \cup RecoveryPods \cup GcPods
None == <<"none", "none">>

VARIABLES
  cm,       \* the ConfigMap's state.json: phase, operation, gc_holder, heartbeat
  gcLate,   \* gc_holder was claimed at least 2700 s ago
  clock,    \* current slot and how far into it the time is
  paused,   \* GitLab: runner 2 is paused
  put,      \* GitLab: the runner PUT each pod has under way
  job,      \* GitLab status and CI pod of each job of runner 2
  obj,      \* Kubernetes: the pod objects
  faults,   \* deaths and deletions so far
  pc,       \* control point of each pod's process
  st,       \* the state each process last read, as a base for its next save
  fresh,    \* the resourceVersion each process holds is still the current one
  snap      \* pods each process saw terminal in its last snapshot

local == <<pc, st, fresh, snap>>
gitlab == <<paused, put, job>>
vars == <<cm, gcLate, clock, gitlab, obj, faults, local>>

Phases == {"IDLE", "PAUSE_INTENT", "DRAINING", "ADMITTED", "CLAIMED",
           "CLOSING", "RESTORING", "DONE", "ALERT"}
Outcomes == {"none", "pause-intent", "admitted", "drain-timeout",
             "cleanup-succeeded", "cleanup-failed", "worker-unclaimed",
             "coordinator-failed", "alert"}
Operation == [slot : Slots \cup {0}, worker : Workers \cup {None}, claimed : BOOLEAN,
              holder : RecoveryPods \cup {None}, restored : BOOLEAN,
              write : {"none", "pause", "restore", "unknown"}, outcome : Outcomes]
State == [phase : Phases, op : Operation, gc : GcPods \cup {None}, beat : BOOLEAN]

\* No operation yet; slot 0 stands for null.
NoOp == [slot |-> 0, worker |-> None, claimed |-> FALSE, holder |-> None,
         restored |-> FALSE, write |-> "none", outcome |-> "none"]
InitialState == [phase |-> "IDLE", op |-> NoOp, gc |-> None, beat |-> FALSE]
With(s, phase, op) == [s EXCEPT !.phase = phase, !.op = op]

\* Ends of a process.  Only the worker's exit status is ever looked at.
Ended == {"ended", "cleaned"}
\* Control points at which a process is about to save.
Saving == {"c_intent", "c_draining", "c_admit", "c_close", "r_heartbeat", "r_gc_clear",
           "r_seal", "r_restore", "r_done", "alert", "unknown_alert", "w_claim", "g_claim"}
Control == {"off"} \cup Ended \cup Saving \cup
  {"c_snapshot", "c_read", "c_baseline", "c_intent_saved", "c_draining_saved", "c_loop",
   "c_observe", "c_runner", "c_scan_pending", "c_scan_running", "c_scan_canceling",
   "c_admit_saved", "c_timeout", "put", "put_wait", "put_get", "unknown", "ack",
   "r_read", "r_probe", "r_heartbeat_saved", "r_reread", "r_gc", "r_gc_cleared",
   "r_reread_gc", "r_snapshot", "r_decide", "r_sealed", "r_judge", "r_restore_saved",
   "r_done_saved", "w_read", "w_claimed", "w_check", "w_gate", "w_delete",
   "g_gate", "g_read", "g_claimed", "g_regate", "g_work"}

(***************************************************************************)
(* Time.  A slot is divided at the deadlines the code compares with:       *)
(* 0 = up to 90 s, 1 = until drain_by (1200 s), 2 = until cleanup_by       *)
(* (1800 s), 3 = until recover_by (2700 s), 4 = until the next slot.       *)
(***************************************************************************)
DrainBy == 2
CleanupBy == 3
RecoverBy == 4
Past(slot, deadline) == slot < clock.slot \/ clock.stage >= deadline

Init ==
  /\ cm = InitialState
  /\ gcLate = FALSE
  /\ clock = [slot |-> 1, stage |-> 0]
  /\ paused \in BOOLEAN
  /\ put = [p \in Pods |-> "none"]
  /\ job = [j \in Jobs |-> [status |-> "none", pod |-> FALSE]]
  /\ obj = [p \in Pods |-> "none"]
  /\ faults = 0
  /\ pc = [p \in Pods |-> "off"]
  /\ st = [p \in Pods |-> InitialState]
  /\ fresh = [p \in Pods |-> FALSE]
  /\ snap = [p \in Pods |-> {}]

-----------------------------------------------------------------------------
(* Steps of a process, and the ConfigMap store *)

Active(p) == pc[p] \notin {"off"} \cup Ended

Goto(p, next) ==
  /\ pc' = [pc EXCEPT ![p] = next]
  /\ UNCHANGED <<st, fresh, snap>>

\* Going on without the copy of the state: the next save rereads first.
Forget(p, next) ==
  /\ pc' = [pc EXCEPT ![p] = next]
  /\ st' = [st EXCEPT ![p] = InitialState]
  /\ fresh' = [fresh EXCEPT ![p] = FALSE]
  /\ UNCHANGED snap

\* The process ends; nothing it remembers matters any more.
End(p, status) ==
  /\ pc' = [pc EXCEPT ![p] = status]
  /\ st' = [st EXCEPT ![p] = InitialState]
  /\ fresh' = [fresh EXCEPT ![p] = FALSE]
  /\ snap' = [snap EXCEPT ![p] = {}]

Refuse(p) == End(p, "ended")
Return(p) == End(p, "ended")

\* Pods whose object proves that every container has terminated.
Terminal == {p \in Pods : obj[p] = "terminal"}

Snapshot(p, next) ==
  /\ pc' = [pc EXCEPT ![p] = next]
  /\ snap' = [snap EXCEPT ![p] = Terminal]
  /\ UNCHANGED <<st, fresh>>

\* validate: what every read and every save requires of the state.
Validate(s) ==
  /\ s.op.slot = 0 => s.phase \in {"IDLE", "ALERT"}
  /\ s.op.claimed => s.op.worker # None
  /\ s.phase \in {"ADMITTED", "CLAIMED"} => s.op.worker # None /\ s.op.write = "none"
  /\ s.phase = "CLAIMED" => s.op.claimed
  /\ s.phase = "DONE" => s.op.restored /\ s.op.write = "none"

\* Store.read, continuing at next.
Read(p, next) ==
  /\ Validate(cm)
  /\ st' = [st EXCEPT ![p] = cm]
  /\ fresh' = [fresh EXCEPT ![p] = TRUE]
  /\ pc' = [pc EXCEPT ![p] = next]
  /\ UNCHANGED snap

\* The PUT of Store.save: it succeeds only on the version that was read.
\* Only recover's seal still needs its snapshot afterwards.
Save(p, state, next) ==
  /\ fresh[p]
  /\ Validate(state)
  /\ cm' = state
  /\ fresh' = [q \in Pods |-> q = p]
  /\ st' = [st EXCEPT ![p] = InitialState]
  /\ pc' = [pc EXCEPT ![p] = next]
  /\ snap' = [snap EXCEPT ![p] = IF next = "r_sealed" THEN @ ELSE {}]

\* A save that ends the process whatever its readback says.
SaveAndRefuse(p, state) ==
  /\ fresh[p]
  /\ Validate(state)
  /\ cm' = state
  /\ fresh' = [q \in Pods |-> FALSE]
  /\ st' = [st EXCEPT ![p] = InitialState]
  /\ pc' = [pc EXCEPT ![p] = "ended"]
  /\ snap' = [snap EXCEPT ![p] = {}]

\* HTTP 409: the state was written since it was read; a save never retries.
Conflict(p) == pc[p] \in Saving /\ ~fresh[p] /\ Refuse(p)

\* The readback of Store.save: another process's write in between refuses,
\* although this process's own write is committed.
ReadBack(p, at, next) ==
  /\ pc[p] = at
  /\ \/ fresh[p] /\ next # "ended" /\ Forget(p, next)
     \/ fresh[p] /\ next = "ended" /\ Return(p)
     \/ ~fresh[p] /\ Refuse(p)

StoreStep(p) ==
  \/ Conflict(p)
  \/ ReadBack(p, "c_intent_saved", "put")
  \/ ReadBack(p, "c_draining_saved", "c_loop")
  \/ ReadBack(p, "c_admit_saved", "ended")
  \/ ReadBack(p, "r_heartbeat_saved", "r_reread")
  \/ ReadBack(p, "r_gc_cleared", "r_reread_gc")
  \/ ReadBack(p, "r_sealed", "r_judge")
  \/ ReadBack(p, "r_restore_saved", "put")
  \/ ReadBack(p, "r_done_saved", "ended")
  \/ ReadBack(p, "w_claimed", "w_check")
  \/ ReadBack(p, "g_claimed", "g_regate")

-----------------------------------------------------------------------------
(* coordinate(): pause, drain, admit *)

\* Snapshot and schedule check: a start more than 90 s late is refused.
CoordSnapshot(p) ==
  LET onTime == clock.slot = Slot(p) /\ clock.stage = 0 IN
  /\ pc[p] = "c_snapshot"
  /\ \/ onTime /\ Snapshot(p, "c_read")
     \/ ~onTime /\ Refuse(p)

\* Mutant: the previous restoration holder may still be running.
MayOpenNoHolder(p) == cm.phase \in {"IDLE", "DONE"} /\ cm.beat /\ cm.op.slot < Slot(p)

\* The previous operation is closed and its restoration holder has retired.
MayOpen(p) ==
  /\ cm.phase \in {"IDLE", "DONE"}
  /\ cm.beat
  /\ cm.op.slot # 0 => /\ cm.op.slot < Slot(p)
                       /\ cm.op.holder # None
                       /\ cm.op.holder \in snap[p]

CoordRead(p) ==
  /\ pc[p] = "c_read"
  /\ \/ MayOpen(p) /\ Read(p, "c_baseline")
     \/ Refuse(p)  \* not closed, or the heartbeat is older than 150 s

\* A runner that is already paused is somebody else's: no write at all.
CoordBaseline(p) ==
  /\ pc[p] = "c_baseline"
  /\ \/ paused /\ Return(p)
     \/ ~paused /\ Goto(p, "c_intent")

\* Mutant: the operation is stamped with the next slot.
NewOperationNext(s) == [NoOp EXCEPT !.slot = s + 1, !.write = "pause", !.outcome = "pause-intent"]

NewOperation(s) == [NoOp EXCEPT !.slot = s, !.write = "pause", !.outcome = "pause-intent"]

CoordIntent(p) ==
  /\ pc[p] = "c_intent"
  /\ Save(p, With(st[p], "PAUSE_INTENT", NewOperation(Slot(p))), "c_intent_saved")

CoordDraining(p) ==
  /\ pc[p] = "c_draining"
  /\ Save(p, With(st[p], "DRAINING", [st[p].op EXCEPT !.write = "none"]), "c_draining_saved")

\* One turn of the drain loop, until drain_by: read and require ownership.
CoordLoop(p) ==
  LET mine == cm.phase = "DRAINING" /\ cm.op.slot = Slot(p)
      late == Past(Slot(p), DrainBy) IN
  /\ pc[p] = "c_loop"
  /\ \/ ~late /\ mine /\ Read(p, "c_observe")
     \/ ~late /\ ~mine /\ Refuse(p)
     \/ late /\ Goto(p, "c_timeout")

CiPodsIdle == \A j \in Jobs : ~job[j].pod

\* Mutant: a GC pod that is missing counts as retired.
CoordObserveMissingGc(p) ==
  /\ pc[p] = "c_observe"
  /\ CiPodsIdle /\ obj[Worker(Slot(p))] = "live"
  /\ st[p].gc # None => obj[st[p].gc] # "live"
  /\ pc' = [pc EXCEPT ![p] = "c_runner"]
  /\ st' = [st EXCEPT ![p] = [@ EXCEPT !.gc = None]]
  /\ UNCHANGED <<fresh, snap>>

\* retire_gc, ci_drained and the search for this slot's worker all look at
\* the same snapshot, which is older than the GitLab answers that follow it.
CoordObserve(p) ==
  LET idle == /\ st[p].gc = None \/ st[p].gc \in Terminal
              /\ CiPodsIdle
              /\ obj[Worker(Slot(p))] = "live" IN
  /\ pc[p] = "c_observe"
  /\ \/ /\ idle
        /\ pc' = [pc EXCEPT ![p] = "c_runner"]
        /\ st' = [st EXCEPT ![p] = [@ EXCEPT !.gc = None]]
        /\ UNCHANGED <<fresh, snap>>
     \/ ~idle /\ Forget(p, "c_loop")

CoordRunner(p) ==
  /\ pc[p] = "c_runner"
  /\ \/ paused /\ Goto(p, "c_scan_pending")
     \/ ~paused /\ Forget(p, "c_loop")

\* drained(): one query per group of nonterminal statuses.
Scan(p, at, status, next) ==
  LET busy == \E j \in Jobs : job[j].status = status IN
  /\ pc[p] = at
  /\ \/ busy /\ Forget(p, "c_loop")
     \/ ~busy /\ Goto(p, next)

\* Mutant: the statuses are queried against the direction jobs move in.
CoordScanReversed(p) ==
  \/ Scan(p, "c_scan_pending", "canceling", "c_scan_running")
  \/ Scan(p, "c_scan_running", "running", "c_scan_canceling")
  \/ Scan(p, "c_scan_canceling", "pending", "c_admit")

\* The order follows the life of a job: pre-execution, running, canceling.
CoordScan(p) ==
  \/ Scan(p, "c_scan_pending", "pending", "c_scan_running")
  \/ Scan(p, "c_scan_running", "running", "c_scan_canceling")
  \/ Scan(p, "c_scan_canceling", "canceling", "c_admit")

CoordAdmit(p) ==
  /\ pc[p] = "c_admit"
  /\ Save(p, With(st[p], "ADMITTED", [st[p].op EXCEPT !.worker = Worker(Slot(p)),
                                                   !.outcome = "admitted"]), "c_admit_saved")

CoordTimeout(p) ==
  /\ pc[p] = "c_timeout"
  /\ \/ cm.phase = "DRAINING" /\ Read(p, "c_close")
     \/ cm.phase # "DRAINING" /\ Refuse(p)

CoordClose(p) ==
  /\ pc[p] = "c_close"
  /\ SaveAndRefuse(p, With(st[p], "CLOSING", [st[p].op EXCEPT !.outcome = "drain-timeout"]))

CoordStep(p) ==
  \/ CoordSnapshot(p) \/ CoordRead(p) \/ CoordBaseline(p) \/ CoordLoop(p)
  \/ CoordObserve(p) \/ CoordRunner(p) \/ CoordScan(p) \/ CoordTimeout(p)
CoordSave(p) == CoordIntent(p) \/ CoordDraining(p) \/ CoordAdmit(p) \/ CoordClose(p)

-----------------------------------------------------------------------------
(* The PUT to GitLab: coordinate pauses, recover unpauses, alike *)

PutPods == Coords \cup RecoveryPods
Pausing(p) == p \in Coords

PutSend(p) ==
  /\ pc[p] = "put"
  /\ put' = [put EXCEPT ![p] = "sent"]
  /\ Goto(p, "put_wait")

PutAnswered(p) ==
  /\ pc[p] = "put_wait" /\ put[p] = "applied"
  /\ put' = [put EXCEPT ![p] = "none"]
  /\ Goto(p, "put_get")

\* Mutant: a PUT without an answer is taken for a success.
PutFailsAck(p) ==
  pc[p] \in {"put_wait", "put_get"} /\ UNCHANGED put /\ Goto(p, "ack")

\* Any exception of the PUT or of its readback: timeout, HTTP error, alarm.
PutFails(p) ==
  /\ pc[p] \in {"put_wait", "put_get"}
  /\ put' = [put EXCEPT ![p] = IF @ = "applied" THEN "none" ELSE @]
  /\ Goto(p, "unknown")

PutReadBack(p) ==
  /\ pc[p] = "put_get"
  /\ Goto(p, IF paused = Pausing(p) THEN "ack" ELSE "unknown")

UnknownRead(p) == pc[p] = "unknown" /\ Read(p, "unknown_alert")

UnknownAlert(p) ==
  /\ pc[p] = "unknown_alert"
  /\ SaveAndRefuse(p, With(st[p], "ALERT", [st[p].op EXCEPT !.write = "unknown",
                                                         !.outcome = "alert"]))

Owns(p) ==
  IF Pausing(p) THEN cm.phase = "PAUSE_INTENT" /\ cm.op.slot = Slot(p)
                ELSE cm.phase = "RESTORING" /\ cm.op.holder = p

\* The acknowledged write is recorded only by an issuer that still owns it.
AckRead(p) ==
  /\ pc[p] = "ack"
  /\ \/ Owns(p) /\ Read(p, IF Pausing(p) THEN "c_draining" ELSE "r_done")
     \/ ~Owns(p) /\ Refuse(p)

PutStep(p) == PutSend(p) \/ PutAnswered(p) \/ PutFails(p)
AckStep(p) == PutReadBack(p) \/ UnknownRead(p) \/ AckRead(p)

-----------------------------------------------------------------------------
(* recover(): heartbeat, seal, wait for retirement, restore *)

\* Mutant: recover does not stop at ALERT.
RecoverReadAlert(p) == pc[p] = "r_read" /\ Read(p, "r_probe")

RecoverRead(p) ==
  /\ pc[p] = "r_read"
  /\ \/ cm.phase # "ALERT" /\ Read(p, "r_probe")
     \/ cm.phase = "ALERT" /\ Refuse(p)

\* A heartbeat certifies that token and API work; if they do not, an open
\* operation is alerted (and a closed one only fails this run: Abort).
RecoverProbe(p) ==
  /\ pc[p] = "r_probe"
  /\ \/ Goto(p, "r_heartbeat")
     \/ st[p].op.slot # 0 /\ st[p].phase # "DONE" /\ Goto(p, "alert")

RecoverHeartbeat(p) ==
  pc[p] = "r_heartbeat" /\ Save(p, [st[p] EXCEPT !.beat = TRUE], "r_heartbeat_saved")

\* The second read; after a GC slot was cleared, the third.
RecoverReread(p) ==
  /\ pc[p] \in {"r_reread", "r_reread_gc"}
  /\ \/ pc[p] = "r_reread" /\ cm.gc # None /\ Read(p, "r_gc")
     \/ /\ pc[p] = "r_reread_gc" \/ cm.gc = None
        /\ \/ cm.phase \in {"IDLE", "DONE"} /\ Return(p)
           \/ cm.phase \notin {"IDLE", "DONE"} /\ Read(p, "r_snapshot")

\* Mutant: a GC pod that is missing counts as retired.
RecoverGcMissing(p) == pc[p] = "r_gc" /\ obj[st[p].gc] # "live" /\ Goto(p, "r_gc_clear")

\* retire_gc: only a terminal pod object releases the slot.
RecoverGc(p) ==
  /\ pc[p] = "r_gc"
  /\ \/ st[p].gc \in Terminal /\ Goto(p, "r_gc_clear")
     \/ st[p].gc \notin Terminal /\ gcLate /\ Goto(p, "alert")
     \/ st[p].gc \notin Terminal /\ ~gcLate /\ Return(p)

RecoverGcClear(p) ==
  pc[p] = "r_gc_clear" /\ Save(p, [st[p] EXCEPT !.gc = None], "r_gc_cleared")

RecoverSnapshot(p) == pc[p] = "r_snapshot" /\ Snapshot(p, "r_decide")

\* The operation still has time and nobody it waits for has ended.
TooEarly(s, terminal) ==
  \/ /\ s.phase \in {"PAUSE_INTENT", "DRAINING"}
     /\ ~Past(s.op.slot, DrainBy)
     /\ Coord(s.op.slot) \notin terminal
  \/ /\ s.phase \in {"ADMITTED", "CLAIMED"}
     /\ ~Past(s.op.slot, CleanupBy)
     /\ ~(s.op.claimed /\ s.op.worker \in terminal)

\* Mutant: the coordinator may still be running.
RetiredNoCoord(op, terminal) ==
  (op.claimed => op.worker \in terminal) /\ (op.holder # None => op.holder \in terminal)

\* Coordinator, claimed worker and earlier holder are proved to have stopped.
Retired(op, terminal) ==
  /\ Coord(op.slot) \in terminal
  /\ op.claimed => op.worker \in terminal
  /\ op.holder # None => op.holder \in terminal

\* Mutant: an unresolved remote write does not stop the restoration.
VerdictIgnoresWrite(op, terminal) == IF Retired(op, terminal) THEN "r_restore" ELSE "ended"

\* What recover does once the operation is sealed: wait, alert or restore.
Verdict(op, terminal) ==
  IF ~Retired(op, terminal) THEN "ended"
  ELSE IF op.write # "none" THEN "alert" ELSE "r_restore"

\* Mutant: there is no recovery horizon.
HorizonNever(s) == FALSE

HorizonExceeded(s) == Past(s.op.slot, RecoverBy)

RecoverDecide(p) ==
  LET s == st[p]
      open == s.op.slot # 0 /\ ~HorizonExceeded(s)
      proceed == open /\ ~TooEarly(s, snap[p])
      verdict == Verdict(s.op, snap[p]) IN
  /\ pc[p] = "r_decide"
  /\ \/ s.op.slot = 0 /\ Refuse(p)
     \/ s.op.slot # 0 /\ ~open /\ Goto(p, "alert")
     \/ open /\ ~proceed /\ Return(p)
     \/ proceed /\ s.phase # "RESTORING" /\ Goto(p, "r_seal")
     \/ proceed /\ s.phase = "RESTORING" /\ verdict # "ended" /\ Goto(p, verdict)
     \/ proceed /\ s.phase = "RESTORING" /\ verdict = "ended" /\ Return(p)

\* Mutant: the seal erases the claim.
RecoverSealErases(p) ==
  pc[p] = "r_seal" /\ Save(p, With(st[p], "CLOSING", [st[p].op EXCEPT !.claimed = FALSE]), "r_sealed")

\* The seal races the worker's claim; it keeps the claim latch.
RecoverSeal(p) == pc[p] = "r_seal" /\ Save(p, With(st[p], "CLOSING", st[p].op), "r_sealed")

\* Read again and judge with the snapshot taken before the seal.
RecoverJudge(p) ==
  LET verdict == Verdict(cm.op, snap[p]) IN
  /\ pc[p] = "r_judge"
  /\ \/ verdict # "ended" /\ Read(p, verdict)
     \/ verdict = "ended" /\ Return(p)

\* Mutant: any terminated worker counts as a success.
RestoreOutcomeBlind(op) == IF op.claimed THEN "cleanup-succeeded" ELSE op.outcome

RestoreOutcome(op) ==
  CASE op.claimed /\ pc[op.worker] = "cleaned" -> "cleanup-succeeded"
    [] op.claimed /\ pc[op.worker] # "cleaned" -> "cleanup-failed"
    [] ~op.claimed /\ op.outcome = "admitted" -> "worker-unclaimed"
    [] ~op.claimed /\ op.outcome = "pause-intent" -> "coordinator-failed"
    [] OTHER -> op.outcome

RecoverRestore(p) ==
  /\ pc[p] = "r_restore"
  /\ Save(p, With(st[p], "RESTORING", [st[p].op EXCEPT !.holder = p, !.write = "restore",
                                     !.outcome = RestoreOutcome(st[p].op)]), "r_restore_saved")

RecoverDone(p) ==
  /\ pc[p] = "r_done"
  /\ Save(p, With(st[p], "DONE", [st[p].op EXCEPT !.write = "none", !.restored = TRUE]),
          "r_done_saved")

\* alert(): record ALERT and fail.
RecoverAlert(p) ==
  /\ pc[p] = "alert"
  /\ SaveAndRefuse(p, With(st[p], "ALERT",
         IF st[p].op.slot = 0 THEN st[p].op ELSE [st[p].op EXCEPT !.outcome = "alert"]))

RecoverStep(p) ==
  \/ RecoverRead(p) \/ RecoverProbe(p) \/ RecoverReread(p) \/ RecoverGc(p)
  \/ RecoverSnapshot(p) \/ RecoverDecide(p) \/ RecoverJudge(p)
RecoverSave(p) ==
  \/ RecoverHeartbeat(p) \/ RecoverGcClear(p) \/ RecoverSeal(p)
  \/ RecoverRestore(p) \/ RecoverDone(p) \/ RecoverAlert(p)

-----------------------------------------------------------------------------
(* The worker (WorkerFence and cache-retention) and store GC *)

\* api_gate: no active CI pod, no other maintenance pod in the namespace.
ApiGate(p) ==
  /\ CiPodsIdle
  /\ obj[p] = "live"
  /\ \A q \in (Workers \cup GcPods) \ {p} : obj[q] # "live"

\* WorkerFence.claim polls, for 1200 s from its start, until it is admitted
\* or the operation is closed.
WorkerRead(p) ==
  LET mine == cm.op.worker = p
      inTime == ~Past(cm.op.slot, CleanupBy)
      admitted == mine /\ inTime /\ cm.phase = "ADMITTED" /\ cm.gc = None
      waiting == /\ mine => inTime /\ cm.phase \in {"PAUSE_INTENT", "DRAINING"}
                 /\ cm.phase \notin {"ALERT", "CLOSING", "RESTORING"} IN
  /\ pc[p] = "w_read"
  /\ \/ admitted /\ Read(p, "w_claim")
     \/ ~admitted /\ (~waiting \/ Past(Slot(p), DrainBy)) /\ Refuse(p)

WorkerClaim(p) ==
  /\ pc[p] = "w_claim"
  /\ Save(p, With(st[p], "CLAIMED", [st[p].op EXCEPT !.claimed = TRUE]), "w_claimed")

\* WorkerFence.check, the first half of the gate before every candidate.
WorkerCheck(p) ==
  LET held == /\ cm.phase = "CLAIMED" /\ cm.op.slot = Slot(p) /\ cm.op.worker = p
              /\ cm.op.claimed /\ cm.op.write = "none" /\ ~Past(cm.op.slot, CleanupBy) IN
  /\ pc[p] = "w_check"
  /\ \/ held /\ Goto(p, "w_gate")
     \/ ~held /\ Refuse(p)

WorkerGate(p) ==
  /\ pc[p] = "w_gate"
  /\ \/ ApiGate(p) /\ Goto(p, "w_delete")
     \/ ~ApiGate(p) /\ Refuse(p)

\* A candidate is removed: on to the next one, done, or short of the target.
WorkerDelete(p) ==
  pc[p] = "w_delete" /\ (Goto(p, "w_check") \/ End(p, "cleaned") \/ Refuse(p))

WorkerStep(p) == WorkerRead(p) \/ WorkerCheck(p) \/ WorkerGate(p) \/ WorkerDelete(p)

\* gc_claim: the gate before the claim, the claim, and the gate after it.
GcGate(p) ==
  /\ pc[p] \in {"g_gate", "g_regate"}
  /\ \/ ApiGate(p) /\ Goto(p, IF pc[p] = "g_gate" THEN "g_read" ELSE "g_work")
     \/ ~ApiGate(p) /\ Refuse(p)

GcRead(p) ==
  LET free == cm.phase \in {"IDLE", "DONE"} /\ cm.gc = None IN
  /\ pc[p] = "g_read"
  /\ \/ free /\ Read(p, "g_claim")
     \/ ~free /\ Refuse(p)

GcClaim(p) ==
  /\ pc[p] = "g_claim"
  /\ Save(p, [st[p] EXCEPT !.gc = p], "g_claimed")
  /\ gcLate' = FALSE

\* The Podman prune commands end.
GcWork(p) == pc[p] = "g_work" /\ Return(p)

GcStep(p) == GcGate(p) \/ GcRead(p) \/ GcWork(p)

-----------------------------------------------------------------------------
(* The environment: time, GitLab, Kubernetes *)

Tick ==
  \/ clock.stage < RecoverBy /\ clock' = [clock EXCEPT !.stage = @ + 1]
  \/ /\ clock.stage = RecoverBy /\ clock.slot < MaxSlot
     /\ clock' = [slot |-> clock.slot + 1, stage |-> 0]

GcAges == cm.gc # None /\ ~gcLate /\ gcLate' = TRUE

\* A PUT takes effect, whether or not its issuer still waits, or is lost.
GitLabPut(p) ==
  /\ put[p] = "sent"
  /\ \/ /\ paused' = Pausing(p)
        /\ put' = [put EXCEPT ![p] = IF pc[p] = "put_wait" THEN "applied" ELSE "none"]
     \/ /\ put' = [put EXCEPT ![p] = "none"]
        /\ UNCHANGED paused

\* The life of a CI job: only an unpaused runner accepts one, its status
\* only moves forward, and its pod may outlive its status.
JobStep(j) ==
  LET status == job[j].status
      pod == job[j].pod
      Becomes(newStatus, newPod) == job' = [job EXCEPT ![j] = [status |-> newStatus, pod |-> newPod]] IN
  \/ ~paused /\ status = "none" /\ ~pod /\ Becomes("pending", FALSE)
  \/ status = "pending" /\ Becomes("running", pod)
  \/ status = "running" /\ ~pod /\ Becomes("running", TRUE)
  \/ status = "running" /\ Becomes("canceling", pod)
  \/ status # "none" /\ Becomes("none", pod)
  \/ status = "none" /\ pod /\ Becomes("none", FALSE)

Start(p, at) ==
  /\ obj[p] = "none"
  /\ obj' = [obj EXCEPT ![p] = "live"]
  /\ Goto(p, at)

StartCoord(p) == clock.slot = Slot(p) /\ Start(p, "c_snapshot")
StartWorker(p) == clock.slot = Slot(p) /\ Start(p, "w_read")
StartRecovery(p) ==
  /\ Forbid => \A q \in RecoveryPods : ~Active(q)
  /\ Start(p, "r_read")
StartGc(p) == Start(p, "g_gate")

Fault(p, kinds) == p[1] \in kinds /\ faults < MaxFaults /\ faults' = faults + 1

\* A process dies: an exception, its deadline, its node.
Abort(p) == Active(p) /\ Fault(p, Mortal) /\ Refuse(p)

\* The kubelet reports that all containers of a pod have terminated.
Report(p) ==
  pc[p] \in Ended /\ obj[p] = "live" /\ obj' = [obj EXCEPT ![p] = "terminal"]

\* A pod object is deleted, even though its process may still be running.
Delete(p) ==
  /\ Fault(p, Deletable)
  /\ obj[p] \in {"live", "terminal"}
  /\ obj' = [obj EXCEPT ![p] = "gone"]

\* An identity nobody remembers stands for the next new pod.
Recycle(p) ==
  /\ pc[p] \in Ended /\ obj[p] # "live" /\ put[p] # "sent"
  /\ cm.op.holder # p /\ cm.gc # p
  /\ \A q \in Pods : st[q].op.holder # p /\ st[q].gc # p
  /\ pc' = [pc EXCEPT ![p] = "off"]
  /\ obj' = [obj EXCEPT ![p] = "none"]
  /\ put' = [put EXCEPT ![p] = "none"]
  /\ snap' = [q \in Pods |-> snap[q] \ {p}]
  /\ UNCHANGED <<st, fresh>>

-----------------------------------------------------------------------------
(* Next: the actions above, grouped by what they leave alone *)

\* Observations and decisions of a process: nothing outside it changes.
ThinkStep(p) ==
  /\ \/ p \in Coords /\ CoordStep(p)
     \/ p \in PutPods /\ AckStep(p)
     \/ p \in RecoveryPods /\ RecoverStep(p)
     \/ p \in Workers /\ WorkerStep(p)
     \/ p \in GcPods /\ GcStep(p)
     \/ StoreStep(p)
  /\ UNCHANGED <<cm, gcLate, clock, gitlab, obj, faults>>

\* Saves of the ConfigMap.
CommitStep(p) ==
  /\ \/ p \in Coords /\ CoordSave(p) /\ UNCHANGED gcLate
     \/ p \in PutPods /\ UnknownAlert(p) /\ UNCHANGED gcLate
     \/ p \in RecoveryPods /\ RecoverSave(p) /\ UNCHANGED gcLate
     \/ p \in Workers /\ WorkerClaim(p) /\ UNCHANGED gcLate
     \/ p \in GcPods /\ GcClaim(p)
  /\ UNCHANGED <<clock, gitlab, obj, faults>>

\* Requests to GitLab.
RequestStep(p) ==
  p \in PutPods /\ PutStep(p) /\ UNCHANGED <<cm, gcLate, clock, paused, job, obj, faults>>

ProcessStep(p) == ThinkStep(p) \/ CommitStep(p) \/ RequestStep(p)

StartStep(p) ==
  /\ \/ p \in Coords /\ StartCoord(p)
     \/ p \in Workers /\ StartWorker(p)
     \/ p \in RecoveryPods /\ StartRecovery(p)
     \/ p \in GcPods /\ StartGc(p)
  /\ UNCHANGED <<cm, gcLate, clock, gitlab, faults>>

RecycleStep(p) ==
  /\ p \in RecoveryPods \cup GcPods /\ Recycle(p)
  /\ UNCHANGED <<cm, gcLate, clock, paused, job, faults>>

ReportStep(p) == Report(p) /\ UNCHANGED <<cm, gcLate, clock, gitlab, faults, local>>

FaultStep(p) ==
  \/ Abort(p) /\ UNCHANGED <<cm, gcLate, clock, gitlab, obj>>
  \/ Delete(p) /\ UNCHANGED <<cm, gcLate, clock, gitlab, local>>

TimeStep ==
  \/ Tick /\ UNCHANGED <<cm, gcLate, gitlab, obj, faults, local>>
  \/ GcAges /\ UNCHANGED <<cm, clock, gitlab, obj, faults, local>>

GitLabStep ==
  \/ (\E p \in PutPods : GitLabPut(p)) /\ UNCHANGED <<cm, gcLate, clock, job, obj, faults, local>>
  \/ (\E j \in Jobs : JobStep(j)) /\ UNCHANGED <<cm, gcLate, clock, paused, put, obj, faults, local>>

Next ==
  \/ \E p \in Pods : ProcessStep(p) \/ StartStep(p) \/ RecycleStep(p) \/ ReportStep(p) \/ FaultStep(p)
  \/ TimeStep
  \/ GitLabStep

Spec == Init /\ [][Next]_vars

(***************************************************************************)
(* Fairness: time passes; a recovery process that runs takes its next step *)
(* (remote calls time out after 5 s, an alarm ends it after 45 s); the     *)
(* CronJob controller keeps starting recovery pods and the kubelet reports *)
(* their ends.  Nothing is assumed of the coordinator, the worker, store   *)
(* GC, GitLab or CI jobs: recovery is independent of them.                 *)
(***************************************************************************)
RecoveryKeepsRunning ==
  \E p \in RecoveryPods : ProcessStep(p) \/ StartStep(p) \/ ReportStep(p) \/ RecycleStep(p)

Fairness == WF_vars(TimeStep) /\ WF_vars(RecoveryKeepsRunning)

FairSpec == Spec /\ Fairness

-----------------------------------------------------------------------------
(* Properties *)

\* The variables hold values of the protocol's types.
TypeOK ==
  /\ cm \in State
  /\ gcLate \in BOOLEAN
  /\ clock \in [slot : Slots, stage : 0..RecoverBy]
  /\ paused \in BOOLEAN
  /\ put \in [Pods -> {"none", "sent", "applied"}]
  /\ job \in [Jobs -> [status : {"none", "pending", "running", "canceling"}, pod : BOOLEAN]]
  /\ obj \in [Pods -> {"none", "live", "terminal", "gone"}]
  /\ faults \in 0..MaxFaults
  /\ pc \in [Pods -> Control]
  /\ st \in [Pods -> State]
  /\ fresh \in [Pods -> BOOLEAN]
  /\ snap \in [Pods -> SUBSET Pods]

\* While the worker removes a candidate (remove_tree, uv cache clean) the
\* runner is paused, no job of it is active, no CI pod is up and store GC is
\* not at work: whatever died, was deleted or is late, and even past
\* cleanup_by or in ALERT.
CleanupExclusive ==
  \A w \in Workers : pc[w] = "w_delete" =>
    /\ paused
    /\ \A j \in Jobs : job[j].status = "none" /\ ~job[j].pod
    /\ \A g \in GcPods : pc[g] # "g_work"

\* A PUT that may still take effect on GitLab is never forgotten: as long as
\* it is under way, whether or not its issuer still runs, the operation of
\* its issuer is the current one and records an unresolved write ("a GET is
\* not proof a late PUT cannot commit", module docstring).
LateWriteRecorded ==
  \A p \in PutPods : put[p] = "sent" =>
    /\ cm.op.write # "none"
    /\ IF Pausing(p) THEN cm.op.slot = Slot(p) ELSE cm.op.holder = p

\* Unpausing is requested only when the coordinator and the claimed worker
\* of the operation have stopped (recover's terminal() checks).
RestoreAfterRetirement ==
  \A r \in RecoveryPods : put[r] = "sent" \/ pc[r] \in {"put", "put_wait", "put_get"} =>
    /\ cm.op.slot # 0
    /\ pc[Coord(cm.op.slot)] \in Ended
    /\ cm.op.claimed => pc[cm.op.worker] \in Ended

\* DONE means what it says: the runner accepts jobs again.
DoneMeansRestored == cm.phase = "DONE" => ~paused

\* Store GC works only while it holds the gc_holder slot, even if its pod
\* object was deleted: a missing pod never frees the slot (retire_gc).
GcHoldsSlot == \A g \in GcPods : pc[g] \in {"g_regate", "g_work"} => cm.gc = g

\* The recorded outcome of a restored operation tells whether the claimed
\* cleanup really ended well ("failed cleanup remains cleanup-failed").
OutcomeHonest ==
  cm.phase \in {"RESTORING", "DONE"} =>
    /\ cm.op.outcome = "cleanup-succeeded" <=>
         cm.op.claimed /\ pc[cm.op.worker] = "cleaned"
    /\ cm.op.claimed => cm.op.outcome \in {"cleanup-succeeded", "cleanup-failed"}

\* "Never erase claim latch": within an operation a claim is never undone,
\* and no claim gets past the seal of recover.
ClaimLatchKept ==
  [][cm'.op.slot = cm.op.slot =>
       /\ cm.op.claimed => cm'.op.claimed /\ cm'.op.worker = cm.op.worker
       /\ ~cm.op.claimed /\ cm'.op.claimed => cm.phase = "ADMITTED"]_cm

\* The next operation starts only over a restored one whose restoration
\* holder has stopped.
OperationsDoNotOverlap ==
  [][cm'.op.slot # cm.op.slot =>
       /\ cm'.op.slot > cm.op.slot
       /\ cm.op.slot # 0 => cm.phase = "DONE" /\ pc[cm.op.holder] \in Ended]_cm

\* An operation that was ever in ALERT is never restored automatically
\* ("operator reconciliation required"): whatever process writes next, the
\* state stays in ALERT or keeps the unresolved write that leads back to it.
AlertNeverRestored ==
  [][cm.phase = "ALERT" \/ cm.op.write = "unknown" =>
       /\ cm'.phase = "ALERT" \/ cm'.op.write = "unknown"
       /\ cm'.phase \notin {"RESTORING", "DONE"}]_cm

\* ALERT is a latch: no process takes the state out of it.  TLC refutes it, as
\* recover rereads the state without looking at ALERT again (see the README).
AlertLatched == [][cm.phase = "ALERT" => cm'.phase = "ALERT"]_cm

\* Every operation is eventually restored or handed to the operator.
OpenOperationResolves ==
  (cm.phase \notin {"IDLE", "DONE", "ALERT"}) ~> (cm.phase \in {"DONE", "ALERT"})

=============================================================================
