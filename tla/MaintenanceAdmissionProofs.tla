---------------------- MODULE MaintenanceAdmissionProofs ----------------------
(***************************************************************************)
(* Proofs about MaintenanceAdmission for every number of slots, pods, jobs *)
(* and faults, whether or not recovery pods overlap (Forbid is not used).  *)
(*                                                                         *)
(* The inductive invariant follows the protocol's own argument: a process  *)
(* whose version is fresh works on the current state (Copied), so what it  *)
(* knew when it read still holds when its save succeeds (Known); terminal  *)
(* pod objects prove that processes have stopped (Stopped); a write to     *)
(* GitLab that is still possible keeps the operation of its issuer open    *)
(* (PauseOpen, RestoreOpen); hence the runner stays paused and idle while  *)
(* a claimed worker runs (WorkerAlone).                                    *)
(*                                                                         *)
(* Own(p) is what a process may rely on itself, Held(p) what it requires   *)
(* of the shared state: a step that does not save can only disturb the     *)
(* part of the process that takes it (FrameInv), and a save takes the      *)
(* fresh version from everyone else (SaveFrame).                           *)
(***************************************************************************)
EXTENDS MaintenanceAdmission, TLAPS

\* Control points at which st[p] is the copy a process last read ...
Scanned == {"c_runner", "c_scan_pending", "c_scan_running", "c_scan_canceling", "c_admit"}
Loaded == Saving \cup Scanned \cup {"c_baseline", "c_observe", "r_probe", "r_gc", "r_snapshot", "r_decide"}
\* ... at which a pause or an unpause is about to be sent, under way or unrecorded ...
Requesting == {"c_intent_saved", "r_restore_saved", "put", "put_wait", "put_get",
               "unknown", "unknown_alert", "ack", "c_draining", "r_done"}
\* ... and at which a worker holds its claim, or store GC its slot.
AtWork == {"w_claimed", "w_check", "w_gate", "w_delete"}
GcAtWork == {"g_claimed", "g_regate", "g_work"}

Demanding == Requesting \cup AtWork \cup GcAtWork

NoActiveJob == \A j \in Jobs : job[j].status = "none"
OwnersStopped(op) ==
  /\ op.slot \in Slots /\ pc[Coord(op.slot)] \in Ended
  /\ op.claimed => op.worker \in Workers /\ pc[op.worker] \in Ended

Copied(p) == fresh[p] /\ pc[p] \in Loaded =>
  /\ st[p].phase = cm.phase /\ st[p].op = cm.op
  /\ pc[p] \notin Scanned => st[p].gc = cm.gc

Stopped(p) ==
  /\ obj[p] = "terminal" => pc[p] \in Ended
  /\ obj[p] = "none" => pc[p] = "off"
  /\ \A q \in snap[p] : pc[q] \in Ended

Known(p) ==
  /\ pc[p] \in {"c_baseline", "c_intent"} => st[p].phase \in {"IDLE", "DONE"}
  /\ pc[p] = "c_draining" => st[p].phase = "PAUSE_INTENT" /\ st[p].op.slot = Slot(p)
  /\ pc[p] \in Scanned \cup {"c_observe", "c_close"} => st[p].phase = "DRAINING"
  /\ pc[p] \in Scanned => st[p].gc = None
  /\ pc[p] = "r_gc" => st[p].gc \in GcPods
  /\ pc[p] = "r_gc_clear" => st[p].gc \in GcPods /\ pc[st[p].gc] \in Ended
  /\ pc[p] = "r_restore" => st[p].op.write = "none" /\ OwnersStopped(st[p].op)
  /\ pc[p] = "r_done" => st[p].phase = "RESTORING" /\ st[p].op.holder = p
  /\ pc[p] = "w_claim" => st[p].phase = "ADMITTED" /\ st[p].op.worker = p /\ st[p].gc = None
  /\ pc[p] = "g_claim" => st[p].phase \in {"IDLE", "DONE"} /\ st[p].gc = None

\* Admission sees the GC that had the slot retired ...
GcRetired(p) == fresh[p] /\ pc[p] \in Scanned => cm.gc = None \/ pc[cm.gc] \in Ended

\* ... and knows what the queries of drained() have established so far.
Drained(p) == fresh[p] => \A j \in Jobs :
  /\ pc[p] = "c_scan_running" => job[j].status # "pending"
  /\ pc[p] = "c_scan_canceling" => job[j].status \notin {"pending", "running"}
  /\ pc[p] = "c_admit" => job[j].status = "none"

Own(p) == Copied(p) /\ Stopped(p) /\ Known(p) /\ GcRetired(p) /\ Drained(p)

\* The slot belongs to the GC that works.
GcSlot(p) == p \in GcPods /\ pc[p] \in GcAtWork => cm.gc = p

PauseOpen(p) == p \in Coords =>
  /\ put[p] = "sent" \/ pc[p] \in Requesting =>
       /\ cm.op.slot = Slot(p) /\ cm.op.write # "none"
       /\ cm.phase \in {"PAUSE_INTENT", "CLOSING", "ALERT"}
  /\ pc[p] \in {"put_get", "ack", "c_draining"} => put[p] # "sent"
  /\ pc[p] \in {"ack", "c_draining"} /\ cm.phase = "PAUSE_INTENT" => paused

RestoreOpen(p) == p \in RecoveryPods =>
  /\ put[p] = "sent" \/ pc[p] \in Requesting =>
       /\ cm.op.holder = p /\ cm.op.write # "none"
       /\ cm.phase \in {"RESTORING", "CLOSING", "ALERT"}
       /\ OwnersStopped(cm.op)
  /\ pc[p] \in {"put_get", "ack", "r_done"} => put[p] # "sent"
  /\ pc[p] \in {"ack", "r_done"} /\ cm.phase = "RESTORING" => ~paused

WorkerAlone(p) == p \in Workers /\ pc[p] \in AtWork =>
  /\ cm.op.worker = p /\ cm.op.claimed
  /\ cm.phase \in {"CLAIMED", "CLOSING", "ALERT"}
  /\ cm.gc = None /\ paused /\ NoActiveJob
  /\ pc[p] = "w_delete" => CiPodsIdle

Held(p) == GcSlot(p) /\ PauseOpen(p) /\ RestoreOpen(p) /\ WorkerAlone(p)

RunnerPaused ==
  /\ cm.phase \in {"DRAINING", "ADMITTED", "CLAIMED"} => paused
  /\ cm.phase \in {"ADMITTED", "CLAIMED"} => NoActiveJob
  /\ cm.phase = "DONE" => ~paused

\* The inductive invariant.
IInv == TypeOK /\ RunnerPaused /\ \A p \in Pods : Own(p) /\ Held(p)

-----------------------------------------------------------------------------
(* Types *)

\* The initial state document and its null operation are well-typed.
LEMMA InitialStateType == InitialState \in State /\ NoOp \in Operation
BY DEF InitialState, NoOp, State, Operation, Phases, Outcomes

\* The four kinds of pods are disjoint and a slot's pods are determined by it.
LEMMA PodKinds ==
  /\ Coords \subseteq Pods /\ Workers \subseteq Pods
  /\ RecoveryPods \subseteq Pods /\ GcPods \subseteq Pods
  /\ \A p \in Coords : p \notin Workers \cup RecoveryPods \cup GcPods
  /\ \A p \in Workers : p \notin Coords \cup RecoveryPods \cup GcPods
  /\ \A p \in RecoveryPods : p \notin Coords \cup Workers \cup GcPods
  /\ \A p \in GcPods : p \notin Coords \cup Workers \cup RecoveryPods
  /\ \A p \in Coords : Slot(p) \in Slots /\ p = Coord(Slot(p)) /\ Worker(Slot(p)) \in Workers
  /\ \A s : Coord(s) \in Pods => s \in Slots
  /\ \A s \in Slots : Coord(s) \in Coords /\ Slot(Coord(s)) = s
  /\ None \notin Pods /\ 0 \notin Slots
BY DEF Pods, Coords, Workers, RecoveryPods, GcPods, Coord, Worker, Slot, None, Slots

\* With replaces phase and operation and keeps the GC holder.
LEMMA WithType ==
  ASSUME NEW s \in State, NEW ph \in Phases, NEW o \in Operation
  PROVE  /\ With(s, ph, o) \in State
         /\ With(s, ph, o).phase = ph /\ With(s, ph, o).op = o /\ With(s, ph, o).gc = s.gc
BY DEF With, State

\* A step of p leaves everything of the other pods alone.
Others(p) == \A q \in Pods \ {p} :
  /\ pc'[q] = pc[q] /\ st'[q] = st[q] /\ fresh'[q] = fresh[q] /\ snap'[q] = snap[q]
  /\ put'[q] = put[q] /\ obj'[q] = obj[q]

-----------------------------------------------------------------------------
(* Frames *)

\* A step of p that does not save preserves what the others know and require.
LEMMA FrameInv ==
  ASSUME IInv, NEW p \in Pods, Others(p), pc[p] \notin Ended,
         UNCHANGED <<cm, paused, job>>, TypeOK', Own(p)', Held(p)'
  PROVE  IInv'
<1>1. \A q \in Pods \ {p} : Own(q)'
  <2> SUFFICES ASSUME NEW q \in Pods \ {p} PROVE Own(q)'
    OBVIOUS
  <2>0. Own(q) BY DEF IInv
  <2>1. pc'[q] = pc[q] /\ st'[q] = st[q] /\ fresh'[q] = fresh[q] /\ snap'[q] = snap[q] /\ obj'[q] = obj[q]
    BY DEF Others
  <2>2. \A x \in Pods : pc[x] \in Ended => pc'[x] \in Ended
    BY DEF Others
  <2>3. Copied(q)' BY <2>0, <2>1 DEF Own, Copied
  <2>4. Stopped(q)' BY <2>0, <2>1, <2>2 DEF Own, Stopped, IInv, TypeOK
  <2>5. Known(q)'
    BY <2>0, <2>1, <2>2, PodKinds DEF Own, Known, OwnersStopped, IInv, TypeOK
  <2>6. GcRetired(q)' BY <2>0, <2>1, <2>2, PodKinds DEF Own, GcRetired, IInv, TypeOK, State
  <2>7. Drained(q)' BY <2>0, <2>1 DEF Own, Drained
  <2> QED BY <2>3, <2>4, <2>5, <2>6, <2>7 DEF Own
<1>2. \A q \in Pods \ {p} : Held(q)'
  <2> SUFFICES ASSUME NEW q \in Pods \ {p} PROVE Held(q)'
    OBVIOUS
  <2>0. Held(q) BY DEF IInv
  <2>1. pc'[q] = pc[q] /\ put'[q] = put[q]
    BY DEF Others
  <2>2. \A x \in Pods : pc[x] \in Ended => pc'[x] \in Ended
    BY DEF Others
  <2>3. OwnersStopped(cm.op) => OwnersStopped(cm.op)'
    BY <2>2, PodKinds DEF OwnersStopped
  <2> QED BY <2>0, <2>1, <2>3
    DEF Held, GcSlot, PauseOpen, RestoreOpen, WorkerAlone, NoActiveJob, CiPodsIdle
<1>3. RunnerPaused' BY DEF IInv, RunnerPaused, NoActiveJob
<1> QED BY <1>1, <1>2, <1>3 DEF IInv

\* A process at work has a live pod object or a deleted one.
LEMMA AliveObj ==
  ASSUME IInv, NEW p \in Pods, Active(p)
  PROVE  obj[p] \notin {"none", "terminal"} /\ pc[p] \notin Ended
BY DEF IInv, Own, Stopped, Active, Ended

\* Whoever has stopped stays stopped when p, which has not, takes a step.
LEMMA StaysStopped ==
  ASSUME IInv, NEW p \in Pods, pc[p] \notin Ended, \A q \in Pods \ {p} : pc'[q] = pc[q], cm' = cm
  PROVE  /\ \A x \in Pods : pc[x] \in Ended => pc'[x] \in Ended
         /\ \A op : OwnersStopped(op) => OwnersStopped(op)'
BY PodKinds DEF OwnersStopped

\* Without a demand of its own, a process only keeps its request open.
LEMMA NothingHeld ==
  ASSUME IInv, NEW p \in Pods, UNCHANGED <<cm, paused, put, job>>, pc'[p] \notin Demanding,
         OwnersStopped(cm.op) => OwnersStopped(cm.op)'
  PROVE  Held(p)'
BY
DEF IInv, Held, GcSlot, PauseOpen, RestoreOpen, WorkerAlone, Demanding, Requesting, AtWork, GcAtWork

\* What is known concerns only the copy of the state that was read.
LEMMA NothingKnown ==
  ASSUME NEW p \in Pods, pc'[p] \notin Loaded
  PROVE  Copied(p)' /\ Known(p)' /\ GcRetired(p)' /\ Drained(p)'
BY DEF Copied, Known, GcRetired, Drained, Loaded, Scanned, Saving

\* A process that ends, or dies, leaves the invariant true.
LEMMA EndInv ==
  ASSUME IInv, NEW p \in Pods, Active(p), NEW e \in Ended, End(p, e),
         UNCHANGED <<cm, gcLate, clock, gitlab, obj>>, faults' \in 0..MaxFaults
  PROVE  IInv'
<1>1. TypeOK'
  BY InitialStateType DEF IInv, TypeOK, End, gitlab, Control
<1>2. Others(p) BY DEF IInv, TypeOK, End, Others, gitlab
<1>3. pc'[p] = e /\ st'[p] = InitialState /\ fresh'[p] = FALSE /\ snap'[p] = {}
  BY DEF IInv, TypeOK, End
<1>4. pc'[p] \notin Loaded \cup Demanding
  BY <1>3 DEF Ended, Loaded, Saving, Scanned, Demanding, Requesting, AtWork, GcAtWork
<1>5. Own(p)'
  BY <1>3, <1>4, NothingKnown, AliveObj DEF Own, Stopped
<1>6. Held(p)'
  BY <1>2, <1>4, AliveObj, StaysStopped, NothingHeld DEF Others, gitlab
<1> QED BY <1>1, <1>2, <1>5, <1>6, AliveObj, FrameInv DEF gitlab

\* Moving on, remembering what was read.
LEMMA GotoInv ==
  ASSUME IInv, NEW p \in Pods, Active(p), NEW n \in Control, Goto(p, n),
         UNCHANGED <<cm, gcLate, clock, paused, job, obj, faults>>,
         put' \in [Pods -> {"none", "sent", "applied"}],
         \A q \in Pods \ {p} : put'[q] = put[q], n \notin Demanding => put' = put,
         pc'[p] = n /\ st'[p] = st[p] /\ fresh'[p] = fresh[p] /\ n \in Loaded /\
           (\A op : OwnersStopped(op) => OwnersStopped(op)') /\
           (\A x \in Pods : pc[x] \in Ended => pc'[x] \in Ended)
           => Copied(p)' /\ Known(p)' /\ GcRetired(p)' /\ Drained(p)',
         pc'[p] = n /\ n \in Demanding /\ (OwnersStopped(cm.op) => OwnersStopped(cm.op)')
           => Held(p)'
  PROVE  IInv'
<1>1. TypeOK' BY DEF IInv, TypeOK, Goto
<1>2. Others(p) BY DEF IInv, TypeOK, Goto, Others
<1>3. pc'[p] = n /\ st'[p] = st[p] /\ fresh'[p] = fresh[p] /\ snap'[p] = snap[p]
  BY DEF IInv, TypeOK, Goto
<1>4. /\ \A x \in Pods : pc[x] \in Ended => pc'[x] \in Ended
      /\ \A op : OwnersStopped(op) => OwnersStopped(op)'
  BY <1>2, AliveObj, StaysStopped DEF Others
<1>5. Stopped(p)' BY <1>1, <1>3, <1>4, AliveObj DEF IInv, TypeOK, Own, Stopped
<1>6. Own(p)' BY <1>3, <1>4, <1>5, NothingKnown DEF Own
<1>7. Held(p)' BY <1>3, <1>4, NothingHeld
<1> QED BY <1>1, <1>2, <1>6, <1>7, AliveObj, FrameInv

\* Moving on, forgetting what was read.
LEMMA ForgetInv ==
  ASSUME IInv, NEW p \in Pods, Active(p), NEW n \in Control \ Loaded, Forget(p, n),
         UNCHANGED <<cm, gcLate, clock, gitlab, obj, faults>>,
         pc'[p] = n /\ n \in Demanding /\ (OwnersStopped(cm.op) => OwnersStopped(cm.op)')
           => Held(p)'
  PROVE  IInv'
<1>1. TypeOK' BY InitialStateType DEF IInv, TypeOK, Forget, gitlab
<1>2. Others(p) BY DEF IInv, TypeOK, Forget, Others, gitlab
<1>3. pc'[p] = n /\ st'[p] = InitialState /\ fresh'[p] = FALSE /\ snap'[p] = snap[p]
  BY DEF IInv, TypeOK, Forget
<1>4. /\ \A x \in Pods : pc[x] \in Ended => pc'[x] \in Ended
      /\ \A op : OwnersStopped(op) => OwnersStopped(op)'
  BY <1>2, AliveObj, StaysStopped DEF Others
<1>5. Stopped(p)' BY <1>1, <1>3, <1>4, AliveObj DEF IInv, TypeOK, Own, Stopped
<1>6. Own(p)' BY <1>3, <1>5, NothingKnown DEF Own
<1>7. Held(p)' BY <1>3, <1>4, NothingHeld DEF gitlab
<1> QED BY <1>1, <1>2, <1>6, <1>7, AliveObj, FrameInv DEF gitlab

\* Store.read: the process works on the current version.
LEMMA ReadInv ==
  ASSUME IInv, NEW p \in Pods, Active(p), NEW n \in Control, Read(p, n),
         UNCHANGED <<cm, gcLate, clock, gitlab, obj, faults>>, n \notin Scanned,
         pc'[p] = n /\ st'[p] = cm /\ (\A op : OwnersStopped(op) => OwnersStopped(op)')
           => Known(p)',
         pc'[p] = n /\ n \in Demanding /\ (OwnersStopped(cm.op) => OwnersStopped(cm.op)')
           => Held(p)'
  PROVE  IInv'
<1>1. TypeOK' BY DEF IInv, TypeOK, Read, gitlab
<1>2. Others(p) BY DEF IInv, TypeOK, Read, Others, gitlab
<1>3. pc'[p] = n /\ st'[p] = cm /\ fresh'[p] = TRUE /\ snap'[p] = snap[p]
  BY DEF IInv, TypeOK, Read
<1>4. /\ \A x \in Pods : pc[x] \in Ended => pc'[x] \in Ended
      /\ \A op : OwnersStopped(op) => OwnersStopped(op)'
  BY <1>2, AliveObj, StaysStopped DEF Others
<1>5. Stopped(p)' BY <1>1, <1>3, <1>4, AliveObj DEF IInv, TypeOK, Own, Stopped
<1>6. Copied(p)' /\ GcRetired(p)' /\ Drained(p)'
  BY <1>3 DEF Copied, GcRetired, Drained, Scanned
<1>7. Held(p)' BY <1>3, <1>4, NothingHeld DEF gitlab
<1> QED BY <1>1, <1>2, <1>3, <1>4, <1>5, <1>6, <1>7, AliveObj, FrameInv DEF Own, gitlab

\* snapshot_all: every pod seen terminal has stopped.
LEMMA SnapshotInv ==
  ASSUME IInv, NEW p \in Pods, Active(p), NEW n \in Control, Snapshot(p, n),
         UNCHANGED <<cm, gcLate, clock, gitlab, obj, faults>>, n \notin Demanding,
         pc'[p] = n /\ st'[p] = st[p] /\ fresh'[p] = fresh[p] /\ n \in Loaded
           => Copied(p)' /\ Known(p)' /\ GcRetired(p)' /\ Drained(p)'
  PROVE  IInv'
<1>0. Terminal \in SUBSET Pods BY DEF Terminal
<1>1. TypeOK' BY <1>0 DEF IInv, TypeOK, Snapshot, gitlab
<1>2. Others(p) BY DEF IInv, TypeOK, Snapshot, Others, gitlab
<1>3. pc'[p] = n /\ st'[p] = st[p] /\ fresh'[p] = fresh[p] /\ snap'[p] = Terminal
  BY DEF IInv, TypeOK, Snapshot
<1>4. /\ \A x \in Pods : pc[x] \in Ended => pc'[x] \in Ended
      /\ \A op : OwnersStopped(op) => OwnersStopped(op)'
  BY <1>2, AliveObj, StaysStopped DEF Others
<1>5. Stopped(p)' BY <1>1, <1>3, <1>4, AliveObj DEF IInv, TypeOK, Own, Stopped, Terminal
<1>6. Own(p)' BY <1>3, <1>5, NothingKnown DEF Own
<1>7. Held(p)' BY <1>3, <1>4, NothingHeld DEF gitlab
<1> QED BY <1>1, <1>2, <1>6, <1>7, AliveObj, FrameInv DEF gitlab

-----------------------------------------------------------------------------
(* Steps that do not save *)

\* A step from at to next that only stays on the drain loop's path.
LEMMA ScanInv ==
  ASSUME IInv, NEW p \in Coords, NEW at, NEW status, NEW next, Scan(p, at, status, next),
         UNCHANGED <<cm, gcLate, clock, gitlab, obj, faults>>,
         \/ at = "c_scan_pending" /\ status = "pending" /\ next = "c_scan_running"
         \/ at = "c_scan_running" /\ status = "running" /\ next = "c_scan_canceling"
         \/ at = "c_scan_canceling" /\ status = "canceling" /\ next = "c_admit"
  PROVE  IInv'
<1> p \in Pods BY PodKinds
<1>0. Own(p) /\ TypeOK BY DEF IInv
<1>1. Active(p) BY DEF Scan, Active, Ended
<1>2. CASE Forget(p, "c_loop")
  BY <1>1, <1>2, ForgetInv
  DEF Control, Loaded, Scanned, Saving, Demanding, Requesting, AtWork, GcAtWork
<1>3. CASE Goto(p, next) /\ \A j \in Jobs : job[j].status # status
  <2>1. next \in Control /\ next \notin Demanding
    BY DEF Control, Saving, Demanding, Requesting, AtWork, GcAtWork
  <2>2. pc'[p] = next /\ st'[p] = st[p] /\ fresh'[p] = fresh[p] => Copied(p)' /\ Known(p)'
    BY <1>0 DEF Own, Copied, Known, Loaded, Saving, Scanned, Scan
  <2>3. ASSUME pc'[p] = next, fresh'[p] = fresh[p], \A x \in Pods : pc[x] \in Ended => pc'[x] \in Ended
        PROVE  GcRetired(p)' /\ Drained(p)'
    <3>1. GcRetired(p)'
      BY <1>0, <2>3, PodKinds DEF Own, GcRetired, Loaded, Saving, Scanned, Scan, TypeOK, State
    <3>2. Drained(p)'
      BY <1>0, <1>3, <2>3 DEF Own, Drained, Loaded, Saving, Scanned, Scan, gitlab, TypeOK
    <3> QED BY <3>1, <3>2
  <2>4. put' \in [Pods -> {"none", "sent", "applied"}] /\ put' = put
    BY <1>0 DEF gitlab, TypeOK
  <2> QED BY <1>1, <1>3, <2>1, <2>2, <2>3, <2>4, GotoInv DEF gitlab
<1> QED BY <1>2, <1>3 DEF Scan

\* What the coordinator observes and decides preserves the invariant.
LEMMA CoordStepInv ==
  ASSUME IInv, NEW p \in Coords, CoordStep(p), UNCHANGED <<cm, gcLate, clock, gitlab, obj, faults>>
  PROVE  IInv'
<1> p \in Pods BY PodKinds
<1>0. Own(p) /\ Held(p) /\ TypeOK /\ RunnerPaused /\ faults' \in 0..MaxFaults
  BY DEF IInv, TypeOK
<1>a. put' \in [Pods -> {"none", "sent", "applied"}] /\ put' = put /\ paused' = paused /\ job' = job
  BY <1>0 DEF gitlab, TypeOK
<1>b. ASSUME Active(p), Refuse(p) \/ Return(p) PROVE IInv'
  BY <1>0, <1>b, EndInv DEF Refuse, Return, Ended
<1>1. CASE CoordSnapshot(p)
  <2>1. Active(p) BY <1>1 DEF CoordSnapshot, Active, Ended
  <2>2. ASSUME Snapshot(p, "c_read") PROVE IInv'
    BY <2>1, <2>2, SnapshotInv
    DEF Control, Loaded, Scanned, Saving, Demanding, Requesting, AtWork, GcAtWork
  <2> QED BY <1>1, <1>b, <2>1, <2>2 DEF CoordSnapshot
<1>2. CASE CoordRead(p)
  <2>1. Active(p) BY <1>2 DEF CoordRead, Active, Ended
  <2>2. ASSUME MayOpen(p), Read(p, "c_baseline") PROVE IInv'
    <3>1. pc'[p] = "c_baseline" /\ st'[p] = cm => Known(p)'
      BY <2>2 DEF Known, MayOpen, Scanned
    <3> QED BY <3>1, <2>1, <2>2, ReadInv
      DEF Control, Scanned, Demanding, Requesting, AtWork, GcAtWork
  <2> QED BY <1>2, <1>b, <2>1, <2>2 DEF CoordRead
<1>3. CASE CoordBaseline(p)
  <2>1. Active(p) BY <1>3 DEF CoordBaseline, Active, Ended
  <2>2. ASSUME Goto(p, "c_intent") PROVE IInv'
    <3>1. pc'[p] = "c_intent" /\ st'[p] = st[p] /\ fresh'[p] = fresh[p]
            => Copied(p)' /\ Known(p)' /\ GcRetired(p)' /\ Drained(p)'
      BY <1>0, <1>3 DEF CoordBaseline, Own, Copied, Known, GcRetired, Drained, Loaded, Scanned
    <3> QED BY <3>1, <1>a, <2>1, <2>2, GotoInv
      DEF Control, Saving, Demanding, Requesting, AtWork, GcAtWork
  <2> QED BY <1>3, <1>b, <2>1, <2>2 DEF CoordBaseline
<1>4. CASE CoordLoop(p)
  <2>1. Active(p) BY <1>4 DEF CoordLoop, Active, Ended
  <2>2. ASSUME cm.phase = "DRAINING", Read(p, "c_observe") PROVE IInv'
    <3>1. pc'[p] = "c_observe" /\ st'[p] = cm => Known(p)'
      BY <2>2 DEF Known, Scanned
    <3> QED BY <3>1, <2>1, <2>2, ReadInv
      DEF Control, Scanned, Demanding, Requesting, AtWork, GcAtWork
  <2>3. ASSUME Goto(p, "c_timeout") PROVE IInv'
    BY <1>a, <2>1, <2>3, GotoInv
    DEF Control, Loaded, Scanned, Saving, Demanding, Requesting, AtWork, GcAtWork
  <2> QED BY <1>4, <1>b, <2>1, <2>2, <2>3 DEF CoordLoop
<1>5. CASE CoordObserve(p)
  <2>1. Active(p) /\ pc[p] = "c_observe" BY <1>5 DEF CoordObserve, Active, Ended
  <2>2. ASSUME Forget(p, "c_loop") PROVE IInv'
    BY <2>1, <2>2, ForgetInv
    DEF Control, Loaded, Scanned, Saving, Demanding, Requesting, AtWork, GcAtWork
  <2>3. ASSUME st[p].gc = None \/ st[p].gc \in Terminal, pc' = [pc EXCEPT ![p] = "c_runner"],
               st' = [st EXCEPT ![p] = [@ EXCEPT !.gc = None]], UNCHANGED <<fresh, snap>>
        PROVE  IInv'
    <3> DEFINE s == [st[p] EXCEPT !.gc = None]
    <3>1. s \in State /\ s.phase = st[p].phase /\ s.op = st[p].op /\ s.gc = None
      BY <1>0 DEF TypeOK, State
    <3>2. st' = [st EXCEPT ![p] = s] BY <2>3
    <3> HIDE DEF s
    <3>3. TypeOK' BY <1>0, <2>3, <3>1, <3>2 DEF TypeOK, gitlab, Control
    <3>4. Others(p) BY <1>0, <2>3 DEF TypeOK, Others, gitlab
    <3>5. pc'[p] = "c_runner" /\ st'[p] = s /\ fresh'[p] = fresh[p] /\ snap'[p] = snap[p]
      BY <1>0, <2>3, <3>2 DEF TypeOK
    <3>6. /\ \A x \in Pods : pc[x] \in Ended => pc'[x] \in Ended
          /\ \A op : OwnersStopped(op) => OwnersStopped(op)'
      BY <2>1, <3>4, AliveObj, StaysStopped DEF Others
    <3>7. Stopped(p)' BY <1>0, <2>1, <3>3, <3>5, <3>6, AliveObj DEF TypeOK, Own, Stopped
    <3>8. Copied(p)' /\ Known(p)' /\ Drained(p)'
      BY <1>0, <2>1, <3>1, <3>5 DEF Own, Copied, Known, Drained, Loaded, Saving, Scanned
    <3>9. \A x \in Terminal : pc[x] \in Ended /\ x \in Pods BY DEF IInv, Own, Stopped, Terminal
    <3>10. GcRetired(p)'
      BY <1>0, <2>1, <2>3, <3>5, <3>6, <3>9 DEF Own, Copied, GcRetired, Loaded, Scanned
    <3>11. Held(p)' BY <1>a, <3>5, <3>6, NothingHeld DEF Demanding, Requesting, AtWork, GcAtWork
    <3> QED BY <2>1, <3>3, <3>4, <3>7, <3>8, <3>10, <3>11, <1>a, AliveObj, FrameInv DEF Own
  <2> QED BY <1>5, <2>2, <2>3 DEF CoordObserve
<1>6. CASE CoordRunner(p)
  <2>1. Active(p) BY <1>6 DEF CoordRunner, Active, Ended
  <2>2. ASSUME Goto(p, "c_scan_pending"), pc[p] = "c_runner" PROVE IInv'
    <3>1. pc'[p] = "c_scan_pending" /\ st'[p] = st[p] /\ fresh'[p] = fresh[p]
            => Copied(p)' /\ Known(p)' /\ Drained(p)'
      BY <1>0, <2>2 DEF Own, Copied, Known, Drained, Loaded, Scanned
    <3>2. pc'[p] = "c_scan_pending" /\ fresh'[p] = fresh[p] /\ (\A x \in Pods : pc[x] \in Ended => pc'[x] \in Ended)
            => GcRetired(p)'
      BY <1>0, <2>2, PodKinds DEF Own, GcRetired, Scanned, TypeOK, State
    <3> QED BY <3>1, <3>2, <1>a, <2>1, <2>2, GotoInv
      DEF Control, Demanding, Requesting, AtWork, GcAtWork
  <2>3. ASSUME Forget(p, "c_loop") PROVE IInv'
    BY <2>1, <2>3, ForgetInv
    DEF Control, Loaded, Scanned, Saving, Demanding, Requesting, AtWork, GcAtWork
  <2> QED BY <1>6, <2>2, <2>3 DEF CoordRunner
<1>7. CASE CoordScan(p)
  BY <1>7, ScanInv DEF CoordScan
<1>8. CASE CoordTimeout(p)
  <2>1. Active(p) BY <1>8 DEF CoordTimeout, Active, Ended
  <2>2. ASSUME cm.phase = "DRAINING", Read(p, "c_close") PROVE IInv'
    <3>1. pc'[p] = "c_close" /\ st'[p] = cm => Known(p)'
      BY <2>2 DEF Known, Scanned
    <3> QED BY <3>1, <2>1, <2>2, ReadInv
      DEF Control, Saving, Scanned, Demanding, Requesting, AtWork, GcAtWork
  <2> QED BY <1>8, <1>b, <2>1, <2>2 DEF CoordTimeout
<1> QED BY <1>1, <1>2, <1>3, <1>4, <1>5, <1>6, <1>7, <1>8 DEF CoordStep

\* The answers to a PUT preserve the invariant.
LEMMA AckStepInv ==
  ASSUME IInv, NEW p \in PutPods, AckStep(p), UNCHANGED <<cm, gcLate, clock, gitlab, obj, faults>>
  PROVE  IInv'
<1> p \in Pods BY PodKinds DEF PutPods
<1>0. Own(p) /\ Held(p) /\ TypeOK /\ RunnerPaused /\ faults' \in 0..MaxFaults
  BY DEF IInv, TypeOK
<1>a. put' \in [Pods -> {"none", "sent", "applied"}] /\ put' = put /\ paused' = paused /\ job' = job
  BY <1>0 DEF gitlab, TypeOK
<1>b. ASSUME Active(p), Refuse(p) PROVE IInv'
  BY <1>0, <1>b, EndInv DEF Refuse, Ended
<1>1. CASE PutReadBack(p)
  <2>1. Active(p) BY <1>1 DEF PutReadBack, Active, Ended
  <2>2. ASSUME NEW n \in {"ack", "unknown"}, Goto(p, n), n = "ack" => paused = Pausing(p) PROVE IInv'
    <3>1. pc'[p] = n /\ (OwnersStopped(cm.op) => OwnersStopped(cm.op)') => Held(p)'
      BY <1>0, <1>1, <1>a, <2>2, PodKinds
     
        DEF PutReadBack, Held, GcSlot, PauseOpen, RestoreOpen, WorkerAlone, Requesting, AtWork,
        GcAtWork, Pausing
    <3> QED BY <3>1, <1>a, <2>1, <2>2, GotoInv
      DEF Control, Loaded, Saving, Scanned, Demanding, Requesting
  <2> QED BY <1>1, <2>2 DEF PutReadBack
<1>2. CASE UnknownRead(p)
  <2>1. Active(p) BY <1>2 DEF UnknownRead, Active, Ended
  <2>2. pc'[p] = "unknown_alert" /\ (OwnersStopped(cm.op) => OwnersStopped(cm.op)') => Held(p)'
      BY <1>0, <1>2, <1>a
     
        DEF UnknownRead, Held, GcSlot, PauseOpen, RestoreOpen, WorkerAlone, Requesting, AtWork,
        GcAtWork
  <2>3. pc'[p] = "unknown_alert" => Known(p)' BY DEF Known, Scanned
  <2> QED BY <1>2, <2>1, <2>2, <2>3, ReadInv DEF UnknownRead, Control, Saving, Scanned
<1>3. CASE AckRead(p)
  <2>1. Active(p) BY <1>3 DEF AckRead, Active, Ended
  <2> DEFINE n == IF Pausing(p) THEN "c_draining" ELSE "r_done"
  <2>2. ASSUME Owns(p), Read(p, n) PROVE IInv'
    <3>1. pc'[p] = n /\ (OwnersStopped(cm.op) => OwnersStopped(cm.op)') => Held(p)'
      BY <1>0, <1>3, <1>a
      DEF AckRead, Held, GcSlot, PauseOpen, RestoreOpen, WorkerAlone, Requesting, AtWork, GcAtWork
    <3>2. pc'[p] = n /\ st'[p] = cm => Known(p)'
      BY <2>2, PodKinds DEF Owns, Known, Scanned
    <3> QED BY <2>1, <2>2, <3>1, <3>2, ReadInv DEF Control, Saving, Scanned
  <2> QED BY <1>3, <1>b, <2>1, <2>2 DEF AckRead
<1> QED BY <1>1, <1>2, <1>3 DEF AckStep

\* Sending a PUT and receiving its answer or its failure preserve the invariant.
LEMMA PutStepInv ==
  ASSUME IInv, NEW p \in PutPods, PutStep(p), UNCHANGED <<cm, gcLate, clock, paused, job, obj, faults>>
  PROVE  IInv'
<1> p \in Pods BY PodKinds DEF PutPods
<1>0. Own(p) /\ Held(p) /\ TypeOK /\ RunnerPaused BY DEF IInv
<1>1. PICK n \in {"put_wait", "put_get", "unknown"} :
        /\ Goto(p, n) /\ pc[p] \in {"put", "put_wait", "put_get"}
        /\ \E v \in {"none", "sent"} : put' = [put EXCEPT ![p] = v]
        /\ n = "put_get" => put' = [put EXCEPT ![p] = "none"]
  BY <1>0 DEF PutStep, PutSend, PutAnswered, PutFails, TypeOK
<1>2. Active(p) BY <1>1 DEF Active, Ended
<1>3. /\ put' \in [Pods -> {"none", "sent", "applied"}] /\ \A q \in Pods \ {p} : put'[q] = put[q]
      /\ n = "put_get" => put'[p] # "sent"
  BY <1>0, <1>1 DEF TypeOK
<1>4. pc'[p] = n /\ (OwnersStopped(cm.op) => OwnersStopped(cm.op)') => Held(p)'
  BY <1>0, <1>1, <1>3, PodKinds
  DEF Held, GcSlot, PauseOpen, RestoreOpen, WorkerAlone, Requesting, AtWork, GcAtWork, Pausing
<1> QED BY <1>1, <1>2, <1>3, <1>4, GotoInv
  DEF Control, Loaded, Saving, Scanned, Demanding, Requesting

\* What recover observes and decides preserves the invariant.
LEMMA RecoverStepInv ==
  ASSUME IInv, NEW p \in RecoveryPods, RecoverStep(p), UNCHANGED <<cm, gcLate, clock, gitlab, obj, faults>>
  PROVE  IInv'
<1> p \in Pods BY PodKinds
<1>0. Own(p) /\ Held(p) /\ TypeOK /\ RunnerPaused /\ faults' \in 0..MaxFaults
  BY DEF IInv, TypeOK
<1>a. put' \in [Pods -> {"none", "sent", "applied"}] /\ put' = put /\ paused' = paused /\ job' = job
  BY <1>0 DEF gitlab, TypeOK
<1>b. ASSUME Active(p), Refuse(p) \/ Return(p) PROVE IInv'
  BY <1>0, <1>b, EndInv DEF Refuse, Return, Ended
<1>c. ASSUME Active(p), pc[p] \in Loaded \ Scanned, NEW n \in {"r_heartbeat", "alert", "r_seal", "r_decide"},
             Goto(p, n) \/ Snapshot(p, n)
      PROVE  IInv'
  <2>1. pc'[p] = n /\ st'[p] = st[p] /\ fresh'[p] = fresh[p]
          => Copied(p)' /\ Known(p)' /\ GcRetired(p)' /\ Drained(p)'
    BY <1>0, <1>c DEF Own, Copied, Known, GcRetired, Drained, Loaded, Scanned
  <2> QED BY <2>1, <1>a, <1>c, GotoInv, SnapshotInv
    DEF Control, Saving, Demanding, Requesting, AtWork, GcAtWork
<1>d. \A op \in Operation : Retired(op, snap[p]) => OwnersStopped(op)
  <2> SUFFICES ASSUME NEW op \in Operation, Retired(op, snap[p]) PROVE OwnersStopped(op)
    OBVIOUS
  <2>1. snap[p] \subseteq Pods /\ \A q \in snap[p] : pc[q] \in Ended
    BY <1>0 DEF TypeOK, Own, Stopped
  <2>2. op.slot \in Slots /\ pc[Coord(op.slot)] \in Ended BY <2>1, PodKinds DEF Retired
  <2>3. op.claimed => op.worker \in Workers BY <2>1, PodKinds DEF Retired, Operation
  <2> QED BY <2>1, <2>2, <2>3 DEF OwnersStopped, Retired
<1>1. CASE RecoverRead(p)
  <2>1. Active(p) BY <1>1 DEF RecoverRead, Active, Ended
  <2>2. ASSUME Read(p, "r_probe") PROVE IInv'
    BY <2>1, <2>2, ReadInv DEF Control, Known, Scanned, Demanding, Requesting, AtWork, GcAtWork
  <2> QED BY <1>1, <1>b, <2>1, <2>2 DEF RecoverRead
<1>2. CASE RecoverProbe(p)
  BY <1>2, <1>c DEF RecoverProbe, Active, Ended, Loaded, Scanned
<1>3. CASE RecoverReread(p)
  <2>1. Active(p) BY <1>3 DEF RecoverReread, Active, Ended
  <2>2. ASSUME Read(p, "r_gc"), cm.gc # None PROVE IInv'
    <3>1. pc'[p] = "r_gc" /\ st'[p] = cm => Known(p)'
      BY <1>0, <2>2 DEF Known, Scanned, TypeOK, State
    <3> QED BY <3>1, <2>1, <2>2, ReadInv
      DEF Control, Scanned, Demanding, Requesting, AtWork, GcAtWork
  <2>3. ASSUME Read(p, "r_snapshot") PROVE IInv'
    BY <2>1, <2>3, ReadInv DEF Control, Known, Scanned, Demanding, Requesting, AtWork, GcAtWork
  <2> QED BY <1>3, <1>b, <2>1, <2>2, <2>3 DEF RecoverReread
<1>4. CASE RecoverGc(p)
  <2>1. Active(p) /\ pc[p] \in Loaded \ Scanned BY <1>4
    DEF RecoverGc, Active, Ended, Loaded, Scanned
  <2>2. ASSUME st[p].gc \in Terminal, Goto(p, "r_gc_clear") PROVE IInv'
    <3>1. pc[st[p].gc] \in Ended /\ st[p].gc \in GcPods
      BY <1>0, <1>4, <2>2 DEF RecoverGc, IInv, Own, Known, Stopped, Terminal
    <3>2. pc'[p] = "r_gc_clear" /\ st'[p] = st[p] /\ fresh'[p] = fresh[p] /\
          (\A x \in Pods : pc[x] \in Ended => pc'[x] \in Ended)
            => Copied(p)' /\ Known(p)' /\ GcRetired(p)' /\ Drained(p)'
      BY <1>0, <2>1, <3>1, PodKinds DEF Own, Copied, Known, GcRetired, Drained, Scanned
    <3> QED BY <3>2, <1>a, <2>1, <2>2, GotoInv
      DEF Control, Saving, Demanding, Requesting, AtWork, GcAtWork
  <2> QED BY <1>4, <1>b, <1>c, <2>1, <2>2 DEF RecoverGc
<1>5. CASE RecoverSnapshot(p)
  BY <1>5, <1>c DEF RecoverSnapshot, Active, Ended, Loaded, Scanned
<1>6. CASE RecoverDecide(p)
  <2>1. Active(p) /\ pc[p] \in Loaded \ Scanned BY <1>6
    DEF RecoverDecide, Active, Ended, Loaded, Scanned
  <2>2. ASSUME Goto(p, "r_restore"), Verdict(st[p].op, snap[p]) = "r_restore" PROVE IInv'
    <3>1. st[p].op.write = "none" /\ OwnersStopped(st[p].op)
      BY <1>0, <1>d, <2>2 DEF Verdict, TypeOK, State
    <3>2. pc'[p] = "r_restore" /\ st'[p] = st[p] /\ fresh'[p] = fresh[p] /\
          (\A op : OwnersStopped(op) => OwnersStopped(op)')
            => Copied(p)' /\ GcRetired(p)' /\ Drained(p)'
      BY <1>0, <2>1, <3>1 DEF Own, Copied, GcRetired, Drained, Scanned
    <3>3. pc'[p] = "r_restore" /\ st'[p] = st[p] /\ OwnersStopped(st[p].op)' => Known(p)'
      BY <3>1 DEF Known, Scanned, OwnersStopped
    <3> QED BY <3>1, <3>2, <3>3, <1>a, <2>1, <2>2, GotoInv
      DEF Control, Saving, Demanding, Requesting, AtWork, GcAtWork
  <2>3. Verdict(st[p].op, snap[p]) \in {"ended", "alert", "r_restore"} BY DEF Verdict
  <2> QED BY <1>6, <1>b, <1>c, <2>1, <2>2, <2>3 DEF RecoverDecide
<1>7. CASE RecoverJudge(p)
  <2>1. Active(p) BY <1>7 DEF RecoverJudge, Active, Ended
  <2>2. ASSUME Read(p, "r_restore"), Verdict(cm.op, snap[p]) = "r_restore" PROVE IInv'
    <3>1. cm.op.write = "none" /\ OwnersStopped(cm.op)
      BY <1>0, <1>d, <2>2 DEF Verdict, TypeOK, State
    <3>2. pc'[p] = "r_restore" /\ st'[p] = cm /\ OwnersStopped(cm.op)' => Known(p)'
      BY <3>1 DEF Known, Scanned, OwnersStopped
    <3> QED BY <3>1, <3>2, <2>1, <2>2, ReadInv
      DEF Control, Saving, Scanned, Demanding, Requesting, AtWork, GcAtWork
  <2>3. ASSUME Read(p, "alert") PROVE IInv'
    BY <2>1, <2>3, ReadInv
    DEF Control, Known, Saving, Scanned, Demanding, Requesting, AtWork, GcAtWork
  <2>4. Verdict(cm.op, snap[p]) \in {"ended", "alert", "r_restore"} BY DEF Verdict
  <2> QED BY <1>7, <1>b, <2>1, <2>2, <2>3, <2>4 DEF RecoverJudge
<1> QED BY <1>1, <1>2, <1>3, <1>4, <1>5, <1>6, <1>7 DEF RecoverStep

\* What the worker observes and decides preserves the invariant.
LEMMA WorkerStepInv ==
  ASSUME IInv, NEW p \in Workers, WorkerStep(p), UNCHANGED <<cm, gcLate, clock, gitlab, obj, faults>>
  PROVE  IInv'
<1> p \in Pods BY PodKinds
<1>0. Own(p) /\ Held(p) /\ TypeOK /\ RunnerPaused /\ faults' \in 0..MaxFaults
  BY DEF IInv, TypeOK
<1>a. put' \in [Pods -> {"none", "sent", "applied"}] /\ put' = put /\ paused' = paused /\ job' = job
  BY <1>0 DEF gitlab, TypeOK
<1>b. ASSUME Active(p), NEW e \in Ended, End(p, e) PROVE IInv'
  BY <1>0, <1>b, EndInv
<1>c. ASSUME Active(p), pc[p] \in AtWork, NEW n \in AtWork, n = "w_delete" => CiPodsIdle, Goto(p, n) PROVE IInv'
  <2>1. pc'[p] = n => Held(p)'
    BY <1>0, <1>a, <1>c, PodKinds
   
      DEF Held, GcSlot, PauseOpen, RestoreOpen, WorkerAlone, NoActiveJob, CiPodsIdle, Requesting,
      AtWork, GcAtWork
  <2> QED BY <2>1, <1>a, <1>c, GotoInv DEF Control, Loaded, Saving, Scanned, AtWork, Demanding
<1>1. CASE WorkerRead(p)
  <2>1. Active(p) BY <1>1 DEF WorkerRead, Active, Ended
  <2>2. ASSUME cm.op.worker = p, cm.phase = "ADMITTED", cm.gc = None, Read(p, "w_claim") PROVE IInv'
    <3>1. pc'[p] = "w_claim" /\ st'[p] = cm => Known(p)' BY <2>2 DEF Known, Scanned
    <3> QED BY <3>1, <2>1, <2>2, ReadInv
      DEF Control, Saving, Scanned, Demanding, Requesting, AtWork, GcAtWork
  <2> QED BY <1>1, <1>b, <2>1, <2>2 DEF WorkerRead, Refuse, Ended
<1>2. CASE WorkerCheck(p)
  BY <1>2, <1>b, <1>c DEF WorkerCheck, Active, Refuse, Ended, AtWork
<1>3. CASE WorkerGate(p)
  BY <1>3, <1>b, <1>c DEF WorkerGate, ApiGate, Active, Refuse, Ended, AtWork
<1>4. CASE WorkerDelete(p)
  BY <1>4, <1>b, <1>c DEF WorkerDelete, Active, Refuse, Ended, AtWork
<1> QED BY <1>1, <1>2, <1>3, <1>4 DEF WorkerStep

\* What store GC observes and decides preserves the invariant.
LEMMA GcStepInv ==
  ASSUME IInv, NEW p \in GcPods, GcStep(p), UNCHANGED <<cm, gcLate, clock, gitlab, obj, faults>>
  PROVE  IInv'
<1> p \in Pods BY PodKinds
<1>0. Own(p) /\ Held(p) /\ TypeOK /\ RunnerPaused /\ faults' \in 0..MaxFaults
  BY DEF IInv, TypeOK
<1>a. put' \in [Pods -> {"none", "sent", "applied"}] /\ put' = put /\ paused' = paused /\ job' = job
  BY <1>0 DEF gitlab, TypeOK
<1>b. ASSUME Active(p), Refuse(p) \/ Return(p) PROVE IInv'
  BY <1>0, <1>b, EndInv DEF Refuse, Return, Ended
<1>1. CASE GcGate(p)
  <2>1. Active(p) BY <1>1 DEF GcGate, Active, Ended
  <2>2. ASSUME Goto(p, "g_read") PROVE IInv'
    BY <1>a, <2>1, <2>2, GotoInv
    DEF Control, Loaded, Scanned, Saving, Demanding, Requesting, AtWork, GcAtWork
  <2>3. ASSUME pc[p] = "g_regate", Goto(p, "g_work") PROVE IInv'
    <3>1. pc'[p] = "g_work" => Held(p)'
      BY <1>0, <1>a, <2>3, PodKinds
      DEF Held, GcSlot, PauseOpen, RestoreOpen, WorkerAlone, GcAtWork
    <3> QED BY <3>1, <1>a, <2>1, <2>3, GotoInv
      DEF Control, Loaded, Saving, Scanned, GcAtWork, Demanding
  <2> QED BY <1>1, <1>b, <2>1, <2>2, <2>3 DEF GcGate
<1>2. CASE GcRead(p)
  <2>1. Active(p) BY <1>2 DEF GcRead, Active, Ended
  <2>2. ASSUME cm.phase \in {"IDLE", "DONE"}, cm.gc = None, Read(p, "g_claim") PROVE IInv'
    <3>1. pc'[p] = "g_claim" /\ st'[p] = cm => Known(p)' BY <2>2 DEF Known, Scanned
    <3> QED BY <3>1, <2>1, <2>2, ReadInv
      DEF Control, Saving, Scanned, Demanding, Requesting, AtWork, GcAtWork
  <2> QED BY <1>2, <1>b, <2>1, <2>2 DEF GcRead
<1>3. CASE GcWork(p)
  BY <1>3, <1>b DEF GcWork, Active, Ended
<1> QED BY <1>1, <1>2, <1>3 DEF GcStep

\* A readback confirms a save or ends the process.
LEMMA ReadBackInv ==
  ASSUME IInv, NEW p \in Pods, NEW at, NEW next, ReadBack(p, at, next),
         UNCHANGED <<cm, gcLate, clock, gitlab, obj, faults>>,
         at \notin {"off"} \cup Ended, next \in Control \ Loaded,
         next \in Requesting => at \in Requesting, next \in AtWork => at \in AtWork,
         next \in GcAtWork => at \in GcAtWork, 
         next \notin {"put_get", "ack", "c_draining", "r_done", "w_delete"}
  PROVE  IInv'
<1>0. Own(p) /\ Held(p) /\ TypeOK /\ faults' \in 0..MaxFaults BY DEF IInv, TypeOK
<1>1. Active(p) /\ pc[p] = at BY DEF ReadBack, Active
<1>2. ASSUME Refuse(p) \/ Return(p) PROVE IInv'
  BY <1>0, <1>1, <1>2, EndInv DEF Refuse, Return, Ended
<1>3. ASSUME Forget(p, next) PROVE IInv'
  <2>1. put' = put /\ paused' = paused /\ job' = job BY DEF gitlab
  <2>2. pc'[p] = next /\ (OwnersStopped(cm.op) => OwnersStopped(cm.op)') => Held(p)'
    BY <1>0, <1>1, <2>1 DEF Held, GcSlot, PauseOpen, RestoreOpen, WorkerAlone, NoActiveJob
  <2> QED BY <1>1, <1>3, <2>2, ForgetInv
<1> QED BY <1>2, <1>3 DEF ReadBack

\* Conflicts and readbacks preserve the invariant.
LEMMA StoreStepInv ==
  ASSUME IInv, NEW p \in Pods, StoreStep(p), UNCHANGED <<cm, gcLate, clock, gitlab, obj, faults>>
  PROVE  IInv'
<1>0. TypeOK /\ faults' \in 0..MaxFaults BY DEF IInv, TypeOK
<1>1. CASE Conflict(p)
  BY <1>0, <1>1, EndInv DEF Conflict, Active, Saving, Refuse, Ended
<1>2. CASE \E next \in {"put"} : ReadBack(p, "c_intent_saved", next) \/ ReadBack(p, "r_restore_saved", next)
  BY <1>2, ReadBackInv DEF Control, Loaded, Saving, Scanned, Requesting, AtWork, GcAtWork, Ended
<1>3. CASE ReadBack(p, "c_draining_saved", "c_loop")
  BY <1>3, ReadBackInv DEF Control, Loaded, Saving, Scanned, Requesting, AtWork, GcAtWork, Ended
<1>4. CASE ReadBack(p, "c_admit_saved", "ended") \/ ReadBack(p, "r_done_saved", "ended")
  BY <1>4, ReadBackInv DEF Control, Loaded, Saving, Scanned, Requesting, AtWork, GcAtWork, Ended
<1>5. CASE ReadBack(p, "r_heartbeat_saved", "r_reread")
  BY <1>5, ReadBackInv DEF Control, Loaded, Saving, Scanned, Requesting, AtWork, GcAtWork, Ended
<1>6. CASE ReadBack(p, "r_gc_cleared", "r_reread_gc")
  BY <1>6, ReadBackInv DEF Control, Loaded, Saving, Scanned, Requesting, AtWork, GcAtWork, Ended
<1>7. CASE ReadBack(p, "r_sealed", "r_judge")
  BY <1>7, ReadBackInv DEF Control, Loaded, Saving, Scanned, Requesting, AtWork, GcAtWork, Ended
<1>8. CASE ReadBack(p, "w_claimed", "w_check")
  BY <1>8, ReadBackInv DEF Control, Loaded, Saving, Scanned, Requesting, AtWork, GcAtWork, Ended
<1>9. CASE ReadBack(p, "g_claimed", "g_regate")
  BY <1>9, ReadBackInv DEF Control, Loaded, Saving, Scanned, Requesting, AtWork, GcAtWork, Ended
<1> QED BY <1>1, <1>2, <1>3, <1>4, <1>5, <1>6, <1>7, <1>8, <1>9 DEF StoreStep

-----------------------------------------------------------------------------
(* Saves *)

\* The save of s by p, which continues at n.
Saved(p, s, n) == Save(p, s, n) \/ (n = "ended" /\ SaveAndRefuse(p, s))

\* What holds of the processes after such a save, seen from q.
AfterSave(p, s, n, q) ==
  /\ pc'[p] = n /\ cm' = s
  /\ q # p => pc'[q] = pc[q]
  /\ \A op : OwnersStopped(op) => OwnersStopped(op)'

\* What a process that saves knows: its copy is the current state.
LEMMA SaveCopied ==
  ASSUME IInv, NEW p \in Pods, pc[p] \in Saving, NEW s, NEW n, Saved(p, s, n)
  PROVE  /\ st[p].phase = cm.phase /\ st[p].op = cm.op
         /\ pc[p] \notin Scanned => st[p].gc = cm.gc
         /\ st[p] \in State /\ cm \in State
BY DEF IInv, TypeOK, Own, Copied, Saved, Save, SaveAndRefuse, Loaded

\* After a save only what everyone requires of the new state is left to show.
LEMMA SaveInv ==
  ASSUME IInv, NEW p \in Pods, pc[p] \in Saving, NEW s \in State, NEW n \in Control \ Loaded, Saved(p, s, n),
         UNCHANGED <<clock, gitlab, obj, faults>>, gcLate' \in BOOLEAN,
         cm' = s => RunnerPaused', \A q \in Pods : AfterSave(p, s, n, q) => Held(q)'
  PROVE  IInv'
<1>0. Active(p) BY DEF Active, Saving, Ended
<1>1. TypeOK'
  <2>1. CASE Save(p, s, n) BY <2>1, InitialStateType DEF IInv, TypeOK, Save, gitlab
  <2>2. CASE SaveAndRefuse(p, s) /\ n = "ended"
    BY <2>2, InitialStateType DEF IInv, TypeOK, SaveAndRefuse, gitlab
  <2> QED BY <2>1, <2>2 DEF Saved
<1>2. /\ pc'[p] = n /\ cm' = s
      /\ \A q \in Pods \ {p} : pc'[q] = pc[q] /\ st'[q] = st[q] /\ ~fresh'[q] /\ snap'[q] = snap[q]
      /\ snap'[p] = snap[p] \/ (snap'[p] = {})
  <2>1. CASE Save(p, s, n) BY <2>1 DEF IInv, TypeOK, Save
  <2>2. CASE SaveAndRefuse(p, s) /\ n = "ended" BY <2>2 DEF IInv, TypeOK, SaveAndRefuse
  <2> QED BY <2>1, <2>2 DEF Saved
<1>3. \A x \in Pods : pc[x] \in Ended => pc'[x] \in Ended
  BY <1>0, <1>2, AliveObj
<1>4. \A op : OwnersStopped(op) => OwnersStopped(op)'
  BY <1>3, PodKinds DEF OwnersStopped
<1>5. \A q \in Pods : Stopped(q)'
  BY <1>0, <1>1, <1>2, <1>3, AliveObj DEF IInv, TypeOK, Own, Stopped
<1>6. \A q \in Pods \ {p} : Copied(q)' /\ GcRetired(q)' /\ Drained(q)'
  BY <1>2 DEF Copied, GcRetired, Drained
<1>7. \A q \in Pods \ {p} : Known(q)'
  <2> SUFFICES ASSUME NEW q \in Pods \ {p} PROVE Known(q)'
    OBVIOUS
  <2>1. Known(q) /\ pc'[q] = pc[q] /\ st'[q] = st[q] BY <1>2 DEF IInv, Own
  <2>2. OwnersStopped(st[q].op) => OwnersStopped(st[q].op)'
    BY <2>1, <1>3, PodKinds DEF OwnersStopped
  <2> QED BY <2>1, <2>2, <1>3, PodKinds DEF Known
<1>8. Copied(p)' /\ Known(p)' /\ GcRetired(p)' /\ Drained(p)' BY <1>2, NothingKnown
<1>9. \A q \in Pods : Held(q)' BY <1>2, <1>4 DEF AfterSave
<1>10. RunnerPaused' BY <1>2
<1> QED BY <1>10, <1>1, <1>5, <1>6, <1>7, <1>8, <1>9 DEF IInv, Own


\* The coordinator's saves preserve the invariant.
LEMMA CoordSaveInv ==
  ASSUME IInv, NEW p \in Coords, CoordSave(p), UNCHANGED <<gcLate, clock, gitlab, obj, faults>>
  PROVE  IInv'
<1> p \in Pods BY PodKinds DEF PutPods
<1>0. /\ Own(p) /\ Held(p) /\ TypeOK /\ RunnerPaused /\ gcLate \in BOOLEAN
      /\ st[p] \in State /\ st[p].op \in Operation
  BY DEF IInv, TypeOK, State
<1>a. put' = put /\ paused' = paused /\ job' = job BY DEF gitlab
<1>c. \A q \in Pods : Held(q) BY DEF IInv
<1>1. CASE CoordIntent(p)
  <2> DEFINE o == NewOperation(Slot(p))
             s == With(st[p], "PAUSE_INTENT", o)
  <2>1. o \in Operation /\ o.slot = Slot(p)
        /\ o.write = "pause"
    BY PodKinds, InitialStateType DEF Operation, NewOperation, NoOp, Outcomes
  <2>a. "PAUSE_INTENT" \in Phases BY DEF Phases
  <2> HIDE DEF o
  <2>2. s \in State /\ s.phase = "PAUSE_INTENT" /\ s.op = o /\ s.gc = st[p].gc
    BY <1>0, <2>1, <2>a, WithType
  <2>3. Saved(p, s, "c_intent_saved") /\ pc[p] = "c_intent" BY <1>1 DEF CoordIntent, Saved, o
  <2> HIDE DEF s
  <2>4. cm.phase \in {"IDLE", "DONE"} /\ s.gc = cm.gc
    BY <1>0, <2>1, <2>2, <2>3, SaveCopied DEF Own, Known, Saving, Scanned
  <2>5. ASSUME NEW q \in Pods, AfterSave(p, s, "c_intent_saved", q) PROVE Held(q)'
    <3>1. GcSlot(q)'
      BY <1>a, <1>c, <2>2, <2>3, <2>4, <2>5, PodKinds DEF AfterSave, Held, GcSlot, GcAtWork, Ended
    <3>2. WorkerAlone(q)'
      BY <1>0, <1>a, <1>c, <2>1, <2>2, <2>3, <2>4, <2>5, PodKinds
     
        DEF AfterSave, Held, WorkerAlone, AtWork, RunnerPaused, NoActiveJob, CiPodsIdle,
        OwnersStopped, Ended
    <3>3. PauseOpen(q)'
      BY <1>a, <1>c, <2>1, <2>2, <2>3, <2>4, <2>5, PodKinds
      DEF AfterSave, Held, PauseOpen, Requesting
    <3>4. RestoreOpen(q)'
      BY <1>a, <1>c, <2>1, <2>2, <2>3, <2>4, <2>5, PodKinds
      DEF AfterSave, Held, RestoreOpen, Requesting, OwnersStopped
    <3> QED BY <3>1, <3>2, <3>3, <3>4 DEF Held
  <2>6. cm' = s => RunnerPaused'
    BY <1>0, <1>a, <2>2, <2>4 DEF RunnerPaused, NoActiveJob
  <2> QED BY <1>0, <2>2, <2>3, <2>5, <2>6, SaveInv DEF Control, Saving, Loaded, Scanned, Ended
<1>2. CASE CoordDraining(p)
  <2> DEFINE o == [st[p].op EXCEPT !.write = "none"]
             s == With(st[p], "DRAINING", o)
  <2>1. o \in Operation /\ o.slot = st[p].op.slot /\ o.claimed = st[p].op.claimed
        /\ o.worker = st[p].op.worker
    BY <1>0 DEF Operation
  <2>a. "DRAINING" \in Phases BY DEF Phases
  <2> HIDE DEF o
  <2>2. s \in State /\ s.phase = "DRAINING" /\ s.op = o /\ s.gc = st[p].gc
    BY <1>0, <2>1, <2>a, WithType
  <2>3. Saved(p, s, "c_draining_saved") /\ pc[p] = "c_draining" BY <1>2 DEF CoordDraining, Saved, o
  <2> HIDE DEF s
  <2>4. cm.phase = "PAUSE_INTENT" /\ cm.op.slot = Slot(p) /\ s.gc = cm.gc /\ paused /\ put[p] # "sent"
    BY <1>0, <2>1, <2>2, <2>3, SaveCopied DEF Own, Known, Held, PauseOpen, Saving, Scanned
  <2>5. ASSUME NEW q \in Pods, AfterSave(p, s, "c_draining_saved", q) PROVE Held(q)'
    <3>1. GcSlot(q)'
      BY <1>a, <1>c, <2>2, <2>3, <2>4, <2>5, PodKinds DEF AfterSave, Held, GcSlot, GcAtWork, Ended
    <3>2. WorkerAlone(q)'
      BY <1>0, <1>a, <1>c, <2>1, <2>2, <2>3, <2>4, <2>5, PodKinds
     
        DEF AfterSave, Held, WorkerAlone, AtWork, RunnerPaused, NoActiveJob, CiPodsIdle,
        OwnersStopped, Ended
    <3>3. PauseOpen(q)'
      BY <1>a, <1>c, <2>1, <2>2, <2>3, <2>4, <2>5, PodKinds
      DEF AfterSave, Held, PauseOpen, Requesting
    <3>4. RestoreOpen(q)'
      BY <1>a, <1>c, <2>1, <2>2, <2>3, <2>4, <2>5, PodKinds
      DEF AfterSave, Held, RestoreOpen, Requesting, OwnersStopped
    <3> QED BY <3>1, <3>2, <3>3, <3>4 DEF Held
  <2>6. cm' = s => RunnerPaused'
    BY <1>0, <1>a, <2>2, <2>4 DEF RunnerPaused, NoActiveJob
  <2> QED BY <1>0, <2>2, <2>3, <2>5, <2>6, SaveInv DEF Control, Saving, Loaded, Scanned, Ended
<1>3. CASE CoordAdmit(p)
  <2> DEFINE o == [st[p].op EXCEPT !.worker = Worker(Slot(p)), !.outcome = "admitted"]
             s == With(st[p], "ADMITTED", o)
  <2>1. o \in Operation
    BY <1>0, PodKinds DEF Operation, Outcomes
  <2>a. "ADMITTED" \in Phases BY DEF Phases
  <2> HIDE DEF o
  <2>2. s \in State /\ s.phase = "ADMITTED" /\ s.op = o /\ s.gc = st[p].gc
    BY <1>0, <2>1, <2>a, WithType
  <2>3. Saved(p, s, "c_admit_saved") /\ pc[p] = "c_admit" BY <1>3 DEF CoordAdmit, Saved, o
  <2> HIDE DEF s
  <2>4. cm.phase = "DRAINING" /\ s.gc = None /\ (cm.gc = None \/ pc[cm.gc] \in Ended) /\ NoActiveJob
    BY <1>0, <2>1, <2>2, <2>3, SaveCopied
    DEF Own, Known, GcRetired, Drained, NoActiveJob, Saved, Save, SaveAndRefuse, Saving, Scanned
  <2>5. ASSUME NEW q \in Pods, AfterSave(p, s, "c_admit_saved", q) PROVE Held(q)'
    <3>1. GcSlot(q)'
      BY <1>a, <1>c, <2>2, <2>3, <2>4, <2>5, PodKinds DEF AfterSave, Held, GcSlot, GcAtWork, Ended
    <3>2. WorkerAlone(q)'
      BY <1>0, <1>a, <1>c, <2>1, <2>2, <2>3, <2>4, <2>5, PodKinds
     
        DEF AfterSave, Held, WorkerAlone, AtWork, RunnerPaused, NoActiveJob, CiPodsIdle,
        OwnersStopped, Ended
    <3>3. PauseOpen(q)'
      BY <1>a, <1>c, <2>1, <2>2, <2>3, <2>4, <2>5, PodKinds
      DEF AfterSave, Held, PauseOpen, Requesting
    <3>4. RestoreOpen(q)'
      BY <1>a, <1>c, <2>1, <2>2, <2>3, <2>4, <2>5, PodKinds
      DEF AfterSave, Held, RestoreOpen, Requesting, OwnersStopped
    <3> QED BY <3>1, <3>2, <3>3, <3>4 DEF Held
  <2>6. cm' = s => RunnerPaused'
    BY <1>0, <1>a, <2>2, <2>4 DEF RunnerPaused, NoActiveJob
  <2> QED BY <1>0, <2>2, <2>3, <2>5, <2>6, SaveInv DEF Control, Saving, Loaded, Scanned, Ended
<1>4. CASE CoordClose(p)
  <2> DEFINE o == [st[p].op EXCEPT !.outcome = "drain-timeout"]
             s == With(st[p], "CLOSING", o)
  <2>1. o \in Operation /\ o.slot = st[p].op.slot /\ o.claimed = st[p].op.claimed
        /\ o.worker = st[p].op.worker
    BY <1>0 DEF Operation, Outcomes
  <2>a. "CLOSING" \in Phases BY DEF Phases
  <2> HIDE DEF o
  <2>2. s \in State /\ s.phase = "CLOSING" /\ s.op = o /\ s.gc = st[p].gc
    BY <1>0, <2>1, <2>a, WithType
  <2>3. Saved(p, s, "ended") /\ pc[p] = "c_close" BY <1>4 DEF CoordClose, Saved, o
  <2> HIDE DEF s
  <2>4. cm.phase = "DRAINING" /\ s.gc = cm.gc
    BY <1>0, <2>1, <2>2, <2>3, SaveCopied DEF Own, Known, Saving, Scanned
  <2>5. ASSUME NEW q \in Pods, AfterSave(p, s, "ended", q) PROVE Held(q)'
    <3>1. GcSlot(q)'
      BY <1>a, <1>c, <2>2, <2>3, <2>4, <2>5, PodKinds DEF AfterSave, Held, GcSlot, GcAtWork, Ended
    <3>2. WorkerAlone(q)'
      BY <1>0, <1>a, <1>c, <2>1, <2>2, <2>3, <2>4, <2>5, PodKinds
     
        DEF AfterSave, Held, WorkerAlone, AtWork, RunnerPaused, NoActiveJob, CiPodsIdle,
        OwnersStopped, Ended
    <3>3. PauseOpen(q)'
      BY <1>a, <1>c, <2>1, <2>2, <2>3, <2>4, <2>5, PodKinds
      DEF AfterSave, Held, PauseOpen, Requesting
    <3>4. RestoreOpen(q)'
      BY <1>a, <1>c, <2>1, <2>2, <2>3, <2>4, <2>5, PodKinds
      DEF AfterSave, Held, RestoreOpen, Requesting, OwnersStopped
    <3> QED BY <3>1, <3>2, <3>3, <3>4 DEF Held
  <2>6. cm' = s => RunnerPaused'
    BY <1>0, <1>a, <2>2, <2>4 DEF RunnerPaused, NoActiveJob
  <2> QED BY <1>0, <2>2, <2>3, <2>5, <2>6, SaveInv DEF Control, Saving, Loaded, Scanned, Ended
<1> QED BY <1>1, <1>2, <1>3, <1>4 DEF CoordSave

\* The saves of recover preserve the invariant.
LEMMA RecoverSaveInv ==
  ASSUME IInv, NEW p \in RecoveryPods, RecoverSave(p), UNCHANGED <<gcLate, clock, gitlab, obj, faults>>
  PROVE  IInv'
<1> p \in Pods BY PodKinds DEF PutPods
<1>0. /\ Own(p) /\ Held(p) /\ TypeOK /\ RunnerPaused /\ gcLate \in BOOLEAN
      /\ st[p] \in State /\ st[p].op \in Operation
  BY DEF IInv, TypeOK, State
<1>a. put' = put /\ paused' = paused /\ job' = job BY DEF gitlab
<1>c. \A q \in Pods : Held(q) BY DEF IInv
<1>1. CASE RecoverHeartbeat(p)
  <2> DEFINE s == [st[p] EXCEPT !.beat = TRUE]
  <2>2. s \in State /\ s.phase = st[p].phase /\ s.op = st[p].op /\ s.gc = st[p].gc
    BY <1>0 DEF State
  <2>3. Saved(p, s, "r_heartbeat_saved") /\ pc[p] = "r_heartbeat" BY <1>1
    DEF RecoverHeartbeat, Saved
  <2> HIDE DEF s
  <2>4. s.phase = cm.phase /\ s.op = cm.op /\ s.gc = cm.gc
    BY <1>0, <2>2, <2>3, SaveCopied DEF Saving, Scanned
  <2>5. ASSUME NEW q \in Pods, AfterSave(p, s, "r_heartbeat_saved", q) PROVE Held(q)'
    <3>1. GcSlot(q)'
      BY <1>a, <1>c, <2>2, <2>3, <2>4, <2>5, PodKinds DEF AfterSave, Held, GcSlot, GcAtWork, Ended
    <3>2. WorkerAlone(q)'
      BY <1>0, <1>a, <1>c, <2>2, <2>3, <2>4, <2>5, PodKinds
     
        DEF AfterSave, Held, WorkerAlone, AtWork, RunnerPaused, NoActiveJob, CiPodsIdle,
        OwnersStopped, Ended
    <3>3. PauseOpen(q)'
      BY <1>a, <1>c, <2>2, <2>3, <2>4, <2>5, PodKinds DEF AfterSave, Held, PauseOpen, Requesting
    <3>4. RestoreOpen(q)'
      BY <1>a, <1>c, <2>2, <2>3, <2>4, <2>5, PodKinds
      DEF AfterSave, Held, RestoreOpen, Requesting, OwnersStopped
    <3> QED BY <3>1, <3>2, <3>3, <3>4 DEF Held
  <2>6. cm' = s => RunnerPaused'
    BY <1>0, <1>a, <2>2, <2>4 DEF RunnerPaused, NoActiveJob
  <2> QED BY <1>0, <2>2, <2>3, <2>5, <2>6, SaveInv DEF Control, Saving, Loaded, Scanned, Ended
<1>2. CASE RecoverGcClear(p)
  <2> DEFINE s == [st[p] EXCEPT !.gc = None]
  <2>2. s \in State /\ s.phase = st[p].phase /\ s.op = st[p].op /\ s.gc = None
    BY <1>0 DEF State
  <2>3. Saved(p, s, "r_gc_cleared") /\ pc[p] = "r_gc_clear" BY <1>2 DEF RecoverGcClear, Saved
  <2> HIDE DEF s
  <2>4. s.phase = cm.phase /\ s.op = cm.op /\ s.gc = None /\ pc[cm.gc] \in Ended
    BY <1>0, <2>2, <2>3, SaveCopied DEF Own, Known, Saving, Scanned
  <2>5. ASSUME NEW q \in Pods, AfterSave(p, s, "r_gc_cleared", q) PROVE Held(q)'
    <3>1. GcSlot(q)'
      BY <1>a, <1>c, <2>2, <2>3, <2>4, <2>5, PodKinds DEF AfterSave, Held, GcSlot, GcAtWork, Ended
    <3>2. WorkerAlone(q)'
      BY <1>0, <1>a, <1>c, <2>2, <2>3, <2>4, <2>5, PodKinds
     
        DEF AfterSave, Held, WorkerAlone, AtWork, RunnerPaused, NoActiveJob, CiPodsIdle,
        OwnersStopped, Ended
    <3>3. PauseOpen(q)'
      BY <1>a, <1>c, <2>2, <2>3, <2>4, <2>5, PodKinds DEF AfterSave, Held, PauseOpen, Requesting
    <3>4. RestoreOpen(q)'
      BY <1>a, <1>c, <2>2, <2>3, <2>4, <2>5, PodKinds
      DEF AfterSave, Held, RestoreOpen, Requesting, OwnersStopped
    <3> QED BY <3>1, <3>2, <3>3, <3>4 DEF Held
  <2>6. cm' = s => RunnerPaused'
    BY <1>0, <1>a, <2>2, <2>4 DEF RunnerPaused, NoActiveJob
  <2> QED BY <1>0, <2>2, <2>3, <2>5, <2>6, SaveInv DEF Control, Saving, Loaded, Scanned, Ended
<1>3. CASE RecoverSeal(p)
  <2> DEFINE o == st[p].op
             s == With(st[p], "CLOSING", o)
  <2>1. o \in Operation /\ o = st[p].op
    BY <1>0
  <2>a. "CLOSING" \in Phases BY DEF Phases
  <2> HIDE DEF o
  <2>2. s \in State /\ s.phase = "CLOSING" /\ s.op = o /\ s.gc = st[p].gc
    BY <1>0, <2>1, <2>a, WithType
  <2>3. Saved(p, s, "r_sealed") /\ pc[p] = "r_seal" BY <1>3 DEF RecoverSeal, Saved, o
  <2> HIDE DEF s
  <2>4. s.op = cm.op /\ s.gc = cm.gc
    BY <1>0, <2>1, <2>2, <2>3, SaveCopied DEF Saving, Scanned
  <2>5. ASSUME NEW q \in Pods, AfterSave(p, s, "r_sealed", q) PROVE Held(q)'
    <3>1. GcSlot(q)'
      BY <1>a, <1>c, <2>2, <2>3, <2>4, <2>5, PodKinds DEF AfterSave, Held, GcSlot, GcAtWork, Ended
    <3>2. WorkerAlone(q)'
      BY <1>0, <1>a, <1>c, <2>1, <2>2, <2>3, <2>4, <2>5, PodKinds
     
        DEF AfterSave, Held, WorkerAlone, AtWork, RunnerPaused, NoActiveJob, CiPodsIdle,
        OwnersStopped, Ended
    <3>3. PauseOpen(q)'
      BY <1>a, <1>c, <2>1, <2>2, <2>3, <2>4, <2>5, PodKinds
      DEF AfterSave, Held, PauseOpen, Requesting
    <3>4. RestoreOpen(q)'
      BY <1>a, <1>c, <2>1, <2>2, <2>3, <2>4, <2>5, PodKinds
      DEF AfterSave, Held, RestoreOpen, Requesting, OwnersStopped
    <3> QED BY <3>1, <3>2, <3>3, <3>4 DEF Held
  <2>6. cm' = s => RunnerPaused'
    BY <1>0, <1>a, <2>2, <2>4 DEF RunnerPaused, NoActiveJob
  <2> QED BY <1>0, <2>2, <2>3, <2>5, <2>6, SaveInv DEF Control, Saving, Loaded, Scanned, Ended
<1>4. CASE RecoverRestore(p)
  <2> DEFINE o == [st[p].op EXCEPT !.holder = p, !.write = "restore", !.outcome = RestoreOutcome(st[p].op)]
             s == With(st[p], "RESTORING", o)
  <2>1. o \in Operation /\ o.slot = st[p].op.slot /\ o.claimed = st[p].op.claimed
        /\ o.worker = st[p].op.worker /\ o.holder = p /\ o.write = "restore"
    BY <1>0, PodKinds DEF Operation, Outcomes, RestoreOutcome
  <2>a. "RESTORING" \in Phases BY DEF Phases
  <2> HIDE DEF o
  <2>2. s \in State /\ s.phase = "RESTORING" /\ s.op = o /\ s.gc = st[p].gc
    BY <1>0, <2>1, <2>a, WithType
  <2>3. Saved(p, s, "r_restore_saved") /\ pc[p] = "r_restore" BY <1>4 DEF RecoverRestore, Saved, o
  <2> HIDE DEF s
  <2>4. cm.op.write = "none" /\ OwnersStopped(cm.op) /\ st[p].op = cm.op /\ s.gc = cm.gc
    BY <1>0, <2>1, <2>2, <2>3, SaveCopied DEF Own, Known, Saving, Scanned
  <2>5. ASSUME NEW q \in Pods, AfterSave(p, s, "r_restore_saved", q) PROVE Held(q)'
    <3>1. GcSlot(q)'
      BY <1>a, <1>c, <2>2, <2>3, <2>4, <2>5, PodKinds DEF AfterSave, Held, GcSlot, GcAtWork, Ended
    <3>2. WorkerAlone(q)'
      BY <1>0, <1>a, <1>c, <2>1, <2>2, <2>3, <2>4, <2>5, PodKinds
     
        DEF AfterSave, Held, WorkerAlone, AtWork, RunnerPaused, NoActiveJob, CiPodsIdle,
        OwnersStopped, Ended
    <3>3. PauseOpen(q)'
      BY <1>a, <1>c, <2>1, <2>2, <2>3, <2>4, <2>5, PodKinds
      DEF AfterSave, Held, PauseOpen, Requesting
    <3>4. RestoreOpen(q)'
      BY <1>a, <1>c, <2>1, <2>2, <2>3, <2>4, <2>5, PodKinds
      DEF AfterSave, Held, RestoreOpen, Requesting, OwnersStopped
    <3> QED BY <3>1, <3>2, <3>3, <3>4 DEF Held
  <2>6. cm' = s => RunnerPaused'
    BY <1>0, <1>a, <2>2, <2>4 DEF RunnerPaused, NoActiveJob
  <2> QED BY <1>0, <2>2, <2>3, <2>5, <2>6, SaveInv DEF Control, Saving, Loaded, Scanned, Ended
<1>5. CASE RecoverDone(p)
  <2> DEFINE o == [st[p].op EXCEPT !.write = "none", !.restored = TRUE]
             s == With(st[p], "DONE", o)
  <2>1. o \in Operation /\ o.slot = st[p].op.slot /\ o.claimed = st[p].op.claimed
        /\ o.worker = st[p].op.worker
    BY <1>0 DEF Operation
  <2>a. "DONE" \in Phases BY DEF Phases
  <2> HIDE DEF o
  <2>2. s \in State /\ s.phase = "DONE" /\ s.op = o /\ s.gc = st[p].gc
    BY <1>0, <2>1, <2>a, WithType
  <2>3. Saved(p, s, "r_done_saved") /\ pc[p] = "r_done" BY <1>5 DEF RecoverDone, Saved, o
  <2> HIDE DEF s
  <2>4. cm.phase = "RESTORING" /\ cm.op.holder = p /\ ~paused /\ put[p] # "sent" /\ s.gc = cm.gc
    BY <1>0, <2>1, <2>2, <2>3, SaveCopied DEF Own, Known, Held, RestoreOpen, Saving, Scanned
  <2>5. ASSUME NEW q \in Pods, AfterSave(p, s, "r_done_saved", q) PROVE Held(q)'
    <3>1. GcSlot(q)'
      BY <1>a, <1>c, <2>2, <2>3, <2>4, <2>5, PodKinds DEF AfterSave, Held, GcSlot, GcAtWork, Ended
    <3>2. WorkerAlone(q)'
      BY <1>0, <1>a, <1>c, <2>1, <2>2, <2>3, <2>4, <2>5, PodKinds
     
        DEF AfterSave, Held, WorkerAlone, AtWork, RunnerPaused, NoActiveJob, CiPodsIdle,
        OwnersStopped, Ended
    <3>3. PauseOpen(q)'
      BY <1>a, <1>c, <2>1, <2>2, <2>3, <2>4, <2>5, PodKinds
      DEF AfterSave, Held, PauseOpen, Requesting
    <3>4. RestoreOpen(q)'
      BY <1>a, <1>c, <2>1, <2>2, <2>3, <2>4, <2>5, PodKinds
      DEF AfterSave, Held, RestoreOpen, Requesting, OwnersStopped
    <3> QED BY <3>1, <3>2, <3>3, <3>4 DEF Held
  <2>6. cm' = s => RunnerPaused'
    BY <1>0, <1>a, <2>2, <2>4 DEF RunnerPaused, NoActiveJob
  <2> QED BY <1>0, <2>2, <2>3, <2>5, <2>6, SaveInv DEF Control, Saving, Loaded, Scanned, Ended
<1>6. CASE RecoverAlert(p)
  <2> DEFINE o == IF st[p].op.slot = 0 THEN st[p].op ELSE [st[p].op EXCEPT !.outcome = "alert"]
             s == With(st[p], "ALERT", o)
  <2>1. o \in Operation /\ o.slot = st[p].op.slot /\ o.claimed = st[p].op.claimed
        /\ o.worker = st[p].op.worker /\ o.holder = st[p].op.holder /\ o.write = st[p].op.write
    BY <1>0 DEF Operation, Outcomes
  <2>a. "ALERT" \in Phases BY DEF Phases
  <2> HIDE DEF o
  <2>2. s \in State /\ s.phase = "ALERT" /\ s.op = o /\ s.gc = st[p].gc
    BY <1>0, <2>1, <2>a, WithType
  <2>3. Saved(p, s, "ended") /\ pc[p] = "alert" BY <1>6 DEF RecoverAlert, Saved, o
  <2> HIDE DEF s
  <2>4. st[p].op = cm.op /\ s.gc = cm.gc
    BY <1>0, <2>1, <2>2, <2>3, SaveCopied DEF Saving, Scanned
  <2>5. ASSUME NEW q \in Pods, AfterSave(p, s, "ended", q) PROVE Held(q)'
    <3>1. GcSlot(q)'
      BY <1>a, <1>c, <2>2, <2>3, <2>4, <2>5, PodKinds DEF AfterSave, Held, GcSlot, GcAtWork, Ended
    <3>2. WorkerAlone(q)'
      BY <1>0, <1>a, <1>c, <2>1, <2>2, <2>3, <2>4, <2>5, PodKinds
     
        DEF AfterSave, Held, WorkerAlone, AtWork, RunnerPaused, NoActiveJob, CiPodsIdle,
        OwnersStopped, Ended
    <3>3. PauseOpen(q)'
      BY <1>a, <1>c, <2>1, <2>2, <2>3, <2>4, <2>5, PodKinds
      DEF AfterSave, Held, PauseOpen, Requesting
    <3>4. RestoreOpen(q)'
      BY <1>a, <1>c, <2>1, <2>2, <2>3, <2>4, <2>5, PodKinds
      DEF AfterSave, Held, RestoreOpen, Requesting, OwnersStopped
    <3> QED BY <3>1, <3>2, <3>3, <3>4 DEF Held
  <2>6. cm' = s => RunnerPaused'
    BY <1>0, <1>a, <2>2, <2>4 DEF RunnerPaused, NoActiveJob
  <2> QED BY <1>0, <2>2, <2>3, <2>5, <2>6, SaveInv DEF Control, Saving, Loaded, Scanned, Ended
<1> QED BY <1>1, <1>2, <1>3, <1>4, <1>5, <1>6 DEF RecoverSave

\* Latching ALERT after an ambiguous PUT preserves the invariant.
LEMMA UnknownAlertInv ==
  ASSUME IInv, NEW p \in PutPods, UnknownAlert(p), UNCHANGED <<gcLate, clock, gitlab, obj, faults>>
  PROVE  IInv'
<1> p \in Pods BY PodKinds DEF PutPods
<1>0. /\ Own(p) /\ Held(p) /\ TypeOK /\ RunnerPaused /\ gcLate \in BOOLEAN
      /\ st[p] \in State /\ st[p].op \in Operation
  BY DEF IInv, TypeOK, State
<1>a. put' = put /\ paused' = paused /\ job' = job BY DEF gitlab
<1>c. \A q \in Pods : Held(q) BY DEF IInv
<1>1. CASE UnknownAlert(p)
  <2> DEFINE o == [st[p].op EXCEPT !.write = "unknown", !.outcome = "alert"]
             s == With(st[p], "ALERT", o)
  <2>1. o \in Operation /\ o.slot = st[p].op.slot /\ o.claimed = st[p].op.claimed
        /\ o.worker = st[p].op.worker /\ o.holder = st[p].op.holder /\ o.write = "unknown"
    BY <1>0 DEF Operation, Outcomes
  <2>a. "ALERT" \in Phases BY DEF Phases
  <2> HIDE DEF o
  <2>2. s \in State /\ s.phase = "ALERT" /\ s.op = o /\ s.gc = st[p].gc
    BY <1>0, <2>1, <2>a, WithType
  <2>3. Saved(p, s, "ended") /\ pc[p] = "unknown_alert" BY <1>1 DEF UnknownAlert, Saved, o
  <2> HIDE DEF s
  <2>4. st[p].op = cm.op /\ s.gc = cm.gc
    BY <1>0, <2>1, <2>2, <2>3, SaveCopied DEF Saving, Scanned
  <2>5. ASSUME NEW q \in Pods, AfterSave(p, s, "ended", q) PROVE Held(q)'
    <3>1. GcSlot(q)'
      BY <1>a, <1>c, <2>2, <2>3, <2>4, <2>5, PodKinds DEF AfterSave, Held, GcSlot, GcAtWork, Ended
    <3>2. WorkerAlone(q)'
      BY <1>0, <1>a, <1>c, <2>1, <2>2, <2>3, <2>4, <2>5, PodKinds
     
        DEF AfterSave, Held, WorkerAlone, AtWork, RunnerPaused, NoActiveJob, CiPodsIdle,
        OwnersStopped, Ended
    <3>3. PauseOpen(q)'
      BY <1>a, <1>c, <2>1, <2>2, <2>3, <2>4, <2>5, PodKinds
      DEF AfterSave, Held, PauseOpen, Requesting
    <3>4. RestoreOpen(q)'
      BY <1>a, <1>c, <2>1, <2>2, <2>3, <2>4, <2>5, PodKinds
      DEF AfterSave, Held, RestoreOpen, Requesting, OwnersStopped
    <3> QED BY <3>1, <3>2, <3>3, <3>4 DEF Held
  <2>6. cm' = s => RunnerPaused'
    BY <1>0, <1>a, <2>2, <2>4 DEF RunnerPaused, NoActiveJob
  <2> QED BY <1>0, <2>2, <2>3, <2>5, <2>6, SaveInv DEF Control, Saving, Loaded, Scanned, Ended
<1> QED BY <1>1

\* The claim of the worker preserves the invariant.
LEMMA WorkerClaimInv ==
  ASSUME IInv, NEW p \in Workers, WorkerClaim(p), UNCHANGED <<gcLate, clock, gitlab, obj, faults>>
  PROVE  IInv'
<1> p \in Pods BY PodKinds DEF PutPods
<1>0. /\ Own(p) /\ Held(p) /\ TypeOK /\ RunnerPaused /\ gcLate \in BOOLEAN
      /\ st[p] \in State /\ st[p].op \in Operation
  BY DEF IInv, TypeOK, State
<1>a. put' = put /\ paused' = paused /\ job' = job BY DEF gitlab
<1>c. \A q \in Pods : Held(q) BY DEF IInv
<1>1. CASE WorkerClaim(p)
  <2> DEFINE o == [st[p].op EXCEPT !.claimed = TRUE]
             s == With(st[p], "CLAIMED", o)
  <2>1. o \in Operation /\ o.worker = st[p].op.worker /\ o.claimed
    BY <1>0 DEF Operation
  <2>a. "CLAIMED" \in Phases BY DEF Phases
  <2> HIDE DEF o
  <2>2. s \in State /\ s.phase = "CLAIMED" /\ s.op = o /\ s.gc = st[p].gc
    BY <1>0, <2>1, <2>a, WithType
  <2>3. Saved(p, s, "w_claimed") /\ pc[p] = "w_claim" BY <1>1 DEF WorkerClaim, Saved, o
  <2> HIDE DEF s
  <2>4. cm.phase = "ADMITTED" /\ st[p].op.worker = p /\ cm.gc = None /\ s.gc = None
    BY <1>0, <2>1, <2>2, <2>3, SaveCopied DEF Own, Known, Saving, Scanned
  <2>5. ASSUME NEW q \in Pods, AfterSave(p, s, "w_claimed", q) PROVE Held(q)'
    <3>1. GcSlot(q)'
      BY <1>a, <1>c, <2>2, <2>3, <2>4, <2>5, PodKinds DEF AfterSave, Held, GcSlot, GcAtWork, Ended
    <3>2. WorkerAlone(q)'
      BY <1>0, <1>a, <1>c, <2>1, <2>2, <2>3, <2>4, <2>5, PodKinds
     
        DEF AfterSave, Held, WorkerAlone, AtWork, RunnerPaused, NoActiveJob, CiPodsIdle,
        OwnersStopped, Ended
    <3>3. PauseOpen(q)'
      BY <1>a, <1>c, <2>1, <2>2, <2>3, <2>4, <2>5, PodKinds
      DEF AfterSave, Held, PauseOpen, Requesting
    <3>4. RestoreOpen(q)'
      BY <1>a, <1>c, <2>1, <2>2, <2>3, <2>4, <2>5, PodKinds
      DEF AfterSave, Held, RestoreOpen, Requesting, OwnersStopped
    <3> QED BY <3>1, <3>2, <3>3, <3>4 DEF Held
  <2>6. cm' = s => RunnerPaused'
    BY <1>0, <1>a, <2>2, <2>4 DEF RunnerPaused, NoActiveJob
  <2> QED BY <1>0, <2>2, <2>3, <2>5, <2>6, SaveInv DEF Control, Saving, Loaded, Scanned, Ended
<1> QED BY <1>1

\* The claim of store GC preserves the invariant.
LEMMA GcClaimInv ==
  ASSUME IInv, NEW p \in GcPods, GcClaim(p), UNCHANGED <<clock, gitlab, obj, faults>>
  PROVE  IInv'
<1> p \in Pods BY PodKinds DEF PutPods
<1>0. /\ Own(p) /\ Held(p) /\ TypeOK /\ RunnerPaused /\ gcLate \in BOOLEAN
      /\ st[p] \in State /\ st[p].op \in Operation
  BY DEF IInv, TypeOK, State
<1>a. put' = put /\ paused' = paused /\ job' = job BY DEF gitlab
<1>c. \A q \in Pods : Held(q) BY DEF IInv
<1>1. CASE GcClaim(p)
  <2> DEFINE s == [st[p] EXCEPT !.gc = p]
  <2>2. s \in State /\ s.phase = st[p].phase /\ s.op = st[p].op /\ s.gc = p
    BY <1>0 DEF State
  <2>3. Saved(p, s, "g_claimed") /\ pc[p] = "g_claim" BY <1>1 DEF GcClaim, Saved
  <2> HIDE DEF s
  <2>4. cm.phase \in {"IDLE", "DONE"} /\ s.phase = cm.phase /\ cm.gc = None
    BY <1>0, <2>2, <2>3, SaveCopied DEF Own, Known, Saving, Scanned
  <2>5. ASSUME NEW q \in Pods, AfterSave(p, s, "g_claimed", q) PROVE Held(q)'
    <3>1. GcSlot(q)'
      BY <1>a, <1>c, <2>2, <2>3, <2>4, <2>5, PodKinds DEF AfterSave, Held, GcSlot, GcAtWork, Ended
    <3>2. WorkerAlone(q)'
      BY <1>0, <1>a, <1>c, <2>2, <2>3, <2>4, <2>5, PodKinds
     
        DEF AfterSave, Held, WorkerAlone, AtWork, RunnerPaused, NoActiveJob, CiPodsIdle,
        OwnersStopped, Ended
    <3>3. PauseOpen(q)'
      BY <1>a, <1>c, <2>2, <2>3, <2>4, <2>5, PodKinds DEF AfterSave, Held, PauseOpen, Requesting
    <3>4. RestoreOpen(q)'
      BY <1>a, <1>c, <2>2, <2>3, <2>4, <2>5, PodKinds
      DEF AfterSave, Held, RestoreOpen, Requesting, OwnersStopped
    <3> QED BY <3>1, <3>2, <3>3, <3>4 DEF Held
  <2>6. cm' = s => RunnerPaused'
    BY <1>0, <1>a, <2>2, <2>4 DEF RunnerPaused, NoActiveJob
  <2> QED BY <1>0, <2>2, <2>3, <2>5, <2>6, SaveInv
    DEF Control, Saving, Loaded, Scanned, Ended, GcClaim
<1> QED BY <1>1

-----------------------------------------------------------------------------
(* The environment *)

\* Starting a pod preserves the invariant.
LEMMA StartInv ==
  ASSUME IInv, NEW p \in Pods, StartStep(p)
  PROVE  IInv'
<1>0. TypeOK BY DEF IInv
<1>1. PICK n \in {"c_snapshot", "w_read", "r_read", "g_gate"} : Start(p, n) /\ UNCHANGED <<cm, gcLate, clock, gitlab, faults>>
  BY DEF StartStep, StartCoord, StartWorker, StartRecovery, StartGc
<1>2. pc[p] = "off" /\ pc[p] \notin Ended BY <1>1 DEF IInv, Own, Stopped, Start, Ended
<1>3. TypeOK' BY <1>0, <1>1 DEF TypeOK, Start, Goto, gitlab, Control
<1>4. Others(p) BY <1>0, <1>1 DEF TypeOK, Start, Goto, Others, gitlab
<1>5. pc'[p] = n /\ obj'[p] = "live" /\ snap'[p] = snap[p] BY <1>0, <1>1 DEF TypeOK, Start, Goto
<1>6. n \notin Loaded \cup Demanding BY
  DEF Loaded, Saving, Scanned, Demanding, Requesting, AtWork, GcAtWork
<1>7. /\ \A x \in Pods : pc[x] \in Ended => pc'[x] \in Ended
      /\ \A op : OwnersStopped(op) => OwnersStopped(op)'
  BY <1>1, <1>2, <1>4, StaysStopped DEF Others
<1>8. Own(p)' BY <1>0, <1>3, <1>5, <1>6, <1>7, NothingKnown DEF IInv, Own, Stopped, TypeOK
<1>9. Held(p)' BY <1>1, <1>5, <1>6, <1>7, NothingHeld DEF gitlab
<1> QED BY <1>1, <1>2, <1>3, <1>4, <1>8, <1>9, FrameInv DEF gitlab

\* Reports and deletions of pod objects preserve the invariant: only the end
\* of a process makes its object terminal.
LEMMA ObjectInv ==
  ASSUME IInv, NEW p \in Pods, UNCHANGED <<cm, gcLate, clock, gitlab, local>>, faults' \in 0..MaxFaults,
         \/ pc[p] \in Ended /\ obj' = [obj EXCEPT ![p] = "terminal"]
         \/ obj' = [obj EXCEPT ![p] = "gone"]
  PROVE  IInv'
<1>1. TypeOK' BY DEF IInv, TypeOK, gitlab, local
<1>2. \A q \in Pods : Stopped(q)' BY DEF IInv, TypeOK, Own, Stopped, local
<1>3. \A q \in Pods : Copied(q)' /\ Known(q)' /\ GcRetired(q)' /\ Drained(q)' /\ Held(q)'
  BY DEF IInv, Own, Copied, Known, GcRetired, Drained, Held, GcSlot, PauseOpen, RestoreOpen,
         WorkerAlone, OwnersStopped, NoActiveJob, CiPodsIdle, gitlab, local
<1>4. RunnerPaused' BY DEF IInv, RunnerPaused, NoActiveJob, gitlab
<1> QED BY <1>1, <1>2, <1>3, <1>4 DEF IInv, Own

\* Reusing an identity nobody remembers preserves the invariant.
LEMMA RecycleInv ==
  ASSUME IInv, NEW p \in Pods, RecycleStep(p)
  PROVE  IInv'
<1>0. TypeOK /\ p \in RecoveryPods \cup GcPods BY DEF IInv, RecycleStep
<1>1. /\ pc' = [pc EXCEPT ![p] = "off"] /\ obj' = [obj EXCEPT ![p] = "none"] /\ put' = [put EXCEPT ![p] = "none"]
      /\ snap' = [q \in Pods |-> snap[q] \ {p}]
      /\ UNCHANGED <<st, fresh, cm, gcLate, clock, paused, job, faults>>
      /\ pc[p] \in Ended /\ cm.gc # p /\ \A q \in Pods : st[q].gc # p
  BY DEF RecycleStep, Recycle
<1>2. TypeOK' BY <1>0, <1>1 DEF TypeOK, Control
<1>3. /\ \A x \in Pods \ {p} : pc'[x] = pc[x] /\ put'[x] = put[x] /\ obj'[x] = obj[x]
      /\ pc'[p] = "off" /\ put'[p] = "none" /\ obj'[p] = "none"
      /\ \A q \in Pods : snap'[q] = snap[q] \ {p}
  BY <1>0, <1>1 DEF TypeOK
<1>4. \A op : OwnersStopped(op) => OwnersStopped(op)'
  BY <1>0, <1>3, PodKinds DEF OwnersStopped
<1>5. \A q \in Pods : Stopped(q)' BY <1>0, <1>3 DEF IInv, Own, Stopped, TypeOK
<1>6. pc'[p] \notin Loaded \cup Demanding
  BY <1>3 DEF Loaded, Saving, Scanned, Demanding, Requesting, AtWork, GcAtWork
<1>7. Copied(p)' /\ Known(p)' /\ GcRetired(p)' /\ Drained(p)' BY <1>6, NothingKnown
<1>8. Held(p)'
  BY <1>3, <1>6
  DEF Held, GcSlot, PauseOpen, RestoreOpen, WorkerAlone, Demanding, Requesting, AtWork, GcAtWork
<1>9. \A q \in Pods \ {p} : Copied(q)' /\ Drained(q)'
  BY <1>1, <1>3 DEF IInv, Own, Copied, Drained
<1>10. \A q \in Pods \ {p} : Known(q)' /\ GcRetired(q)'
  <2> SUFFICES ASSUME NEW q \in Pods \ {p} PROVE Known(q)' /\ GcRetired(q)'
    OBVIOUS
  <2>1. Known(q) /\ GcRetired(q) /\ pc'[q] = pc[q] /\ st'[q] = st[q] BY <1>1, <1>3 DEF IInv, Own
  <2>2. OwnersStopped(st[q].op) => OwnersStopped(st[q].op)'
    BY <2>1, <1>0, <1>3, PodKinds DEF OwnersStopped
  <2>3. Known(q)' BY <2>1, <2>2, <1>1, <1>3, PodKinds DEF Known
  <2>4. GcRetired(q)' BY <2>1, <1>0, <1>1, <1>3, PodKinds DEF GcRetired, TypeOK, State
  <2> QED BY <2>3, <2>4
<1>11. \A q \in Pods \ {p} : Held(q)'
  BY <1>1, <1>3, <1>4
  DEF IInv, Held, GcSlot, PauseOpen, RestoreOpen, WorkerAlone, NoActiveJob, CiPodsIdle
<1>12. RunnerPaused' BY <1>1 DEF IInv, RunnerPaused, NoActiveJob
<1> QED BY <1>2, <1>5, <1>7, <1>8, <1>9, <1>10, <1>11, <1>12 DEF IInv, Own

\* Time is not part of the argument.
LEMMA TimeInv ==
  ASSUME IInv, TimeStep
  PROVE  IInv'
<1>0. /\ UNCHANGED <<cm, gitlab, obj, faults, local>>
      /\ gcLate' \in BOOLEAN /\ clock' \in [slot : Slots, stage : 0..RecoverBy]
  <2>1. CASE Tick /\ UNCHANGED <<cm, gcLate, gitlab, obj, faults, local>>
    <3>1. clock' \in [slot : Slots, stage : 0..RecoverBy]
      BY <2>1, MaxSlotAssumption DEF IInv, TypeOK, Tick, Slots, RecoverBy
    <3> QED BY <2>1, <3>1 DEF IInv, TypeOK
  <2>2. CASE GcAges /\ UNCHANGED <<cm, clock, gitlab, obj, faults, local>>
    BY <2>2 DEF IInv, TypeOK, GcAges
  <2> QED BY <2>1, <2>2 DEF TimeStep
<1>1. TypeOK' BY <1>0 DEF IInv, TypeOK, gitlab, local
<1>2. \A q \in Pods : Own(q)' /\ Held(q)'
  BY <1>0
  DEF IInv, Own, Stopped, Copied, Known, GcRetired, Drained, Held, GcSlot, PauseOpen, RestoreOpen,
         WorkerAlone, OwnersStopped, NoActiveJob, CiPodsIdle, gitlab, local
<1>3. RunnerPaused' BY <1>0 DEF IInv, RunnerPaused, NoActiveJob, gitlab
<1> QED BY <1>1, <1>2, <1>3 DEF IInv

\* A PUT that takes effect, even after its issuer has died, finds the
\* operation of its issuer open.
LEMMA GitLabPutInv ==
  ASSUME IInv, NEW p \in PutPods, GitLabPut(p), UNCHANGED <<cm, gcLate, clock, job, obj, faults, local>>
  PROVE  IInv'
<1> p \in Pods BY PodKinds DEF PutPods
<1>0. TypeOK /\ Held(p) BY DEF IInv
<1>1. PICK v \in {"none", "applied"} : put' = [put EXCEPT ![p] = v]
  BY <1>0 DEF GitLabPut, TypeOK
<1>2. /\ put[p] = "sent"
      /\ \/ paused' = paused
         \/ p \in Coords /\ paused' = TRUE
         \/ p \in RecoveryPods /\ paused' = FALSE
  <2>1. put[p] = "sent" /\ (paused' = paused \/ paused' = Pausing(p)) BY DEF GitLabPut
  <2>2. CASE p \in Coords
    <3>1. Pausing(p) = TRUE BY <2>2 DEF Pausing
    <3> QED BY <2>1, <2>2, <3>1
  <2>3. CASE p \in RecoveryPods
    <3>1. Pausing(p) = FALSE BY <2>3, PodKinds DEF Pausing
    <3> QED BY <2>1, <2>3, <3>1
  <2> QED BY <2>2, <2>3 DEF PutPods
<1>3. TypeOK' BY <1>0, <1>1, <1>2 DEF TypeOK, local
<1>4. put'[p] # "sent" /\ \A q \in Pods \ {p} : put'[q] = put[q] BY <1>0, <1>1 DEF TypeOK
<1>5. \A q \in Pods : Own(q)'
  BY DEF IInv, Own, Stopped, Copied, Known, GcRetired, Drained, OwnersStopped, local
<1>6. CASE paused' = paused
  <2>1. \A q \in Pods : Held(q)'
    BY <1>4, <1>6
    DEF IInv, Held, GcSlot, PauseOpen, RestoreOpen, WorkerAlone, OwnersStopped, NoActiveJob,
    CiPodsIdle, local
  <2>2. RunnerPaused' BY <1>6 DEF IInv, RunnerPaused, NoActiveJob
  <2> QED BY <1>3, <1>5, <2>1, <2>2 DEF IInv
<1>7. CASE p \in Coords /\ paused' = TRUE
  <2>0. cm.phase \in {"PAUSE_INTENT", "CLOSING", "ALERT"} BY <1>0, <1>2, <1>7 DEF Held, PauseOpen
  <2>1. \A q \in Pods : Held(q)'
    BY <1>4, <1>7, <2>0
    DEF IInv, Held, GcSlot, PauseOpen, RestoreOpen, WorkerAlone, OwnersStopped, NoActiveJob,
    CiPodsIdle, local
  <2>2. RunnerPaused' BY <1>7, <2>0 DEF RunnerPaused
  <2> QED BY <1>3, <1>5, <2>1, <2>2 DEF IInv
<1>8. CASE p \in RecoveryPods /\ paused' = FALSE
  <2>0. cm.phase \in {"RESTORING", "CLOSING", "ALERT"} /\ OwnersStopped(cm.op)
    BY <1>0, <1>2, <1>8 DEF Held, RestoreOpen
  <2>1. \A q \in Pods : GcSlot(q)' /\ PauseOpen(q)' /\ RestoreOpen(q)'
    BY <1>4, <1>8, <2>0 DEF IInv, Held, GcSlot, PauseOpen, RestoreOpen, OwnersStopped, local
  <2>2. \A q \in Workers : pc'[q] \notin AtWork
    BY <2>0, PodKinds DEF IInv, Held, WorkerAlone, OwnersStopped, AtWork, Ended, local
  <2>3. RunnerPaused' BY <1>8, <2>0 DEF RunnerPaused
  <2> QED BY <1>3, <1>5, <2>1, <2>2, <2>3 DEF IInv, Held, WorkerAlone
<1> QED BY <1>2, <1>6, <1>7, <1>8

\* While the runner is paused CI jobs only move towards their end.
LEMMA JobInv ==
  ASSUME IInv, NEW j \in Jobs, JobStep(j), UNCHANGED <<cm, gcLate, clock, paused, put, obj, faults, local>>
  PROVE  IInv'
<1>0. TypeOK BY DEF IInv
<1>1. TypeOK'
  <2> DEFINE JobState == [status : {"none", "pending", "running", "canceling"}, pod : BOOLEAN]
  <2>1. job \in [Jobs -> JobState] BY <1>0 DEF TypeOK
  <2>2. job[j].pod \in BOOLEAN BY <2>1
  <2>3. ASSUME NEW a \in {"none", "pending", "running", "canceling"}, NEW b \in BOOLEAN,
               job' = [job EXCEPT ![j] = [status |-> a, pod |-> b]]
        PROVE  job' \in [Jobs -> JobState]
    BY <2>1, <2>3
  <2>4. job' \in [Jobs -> JobState] BY <2>2, <2>3 DEF JobStep
  <2> QED BY <1>0, <2>4 DEF TypeOK, local
<1>2. /\ \A i \in Jobs \ {j} : job'[i] = job[i]
      /\ job'[j].status = "pending" => job[j].status = "pending" \/ ~paused
      /\ job'[j].status = "running" => job[j].status \in {"pending", "running"}
      /\ job'[j].status = "canceling" => job[j].status \in {"running", "canceling"}
      /\ job'[j].status # "none" => job[j].status # "none" \/ ~paused
      /\ job'[j].pod => job[j].pod \/ job[j].status = "running"
  BY <1>0 DEF TypeOK, JobStep
<1>3. paused /\ NoActiveJob => NoActiveJob' /\ (CiPodsIdle => CiPodsIdle')
  BY <1>2 DEF NoActiveJob, CiPodsIdle
<1>4. \A q \in Pods : Drained(q)'
  <2> SUFFICES ASSUME NEW q \in Pods, fresh[q], pc[q] \in Scanned PROVE Drained(q)'
    BY DEF Drained, Scanned, local
  <2>1. paused /\ Drained(q) BY DEF IInv, Own, Copied, Known, RunnerPaused, Loaded
  <2> QED BY <1>1, <1>2, <2>1 DEF Drained, local, TypeOK
<1>5. \A q \in Pods : Stopped(q)' /\ Copied(q)' /\ Known(q)' /\ GcRetired(q)'
  BY DEF IInv, Own, Stopped, Copied, Known, GcRetired, OwnersStopped, local
<1>6. \A q \in Pods : Held(q)'
  BY <1>3 DEF IInv, Held, GcSlot, PauseOpen, RestoreOpen, WorkerAlone, OwnersStopped, local
<1>7. RunnerPaused' BY <1>3 DEF IInv, RunnerPaused
<1> QED BY <1>1, <1>4, <1>5, <1>6, <1>7 DEF IInv, Own

-----------------------------------------------------------------------------
(* Theorems *)

\* The initial states satisfy the invariant.
LEMMA InitIInv == Init => IInv
<1> SUFFICES ASSUME Init PROVE IInv
  OBVIOUS
<1>1. TypeOK
  <2>1. clock \in [slot : Slots, stage : 0..RecoverBy] /\ faults \in 0..MaxFaults
    BY MaxSlotAssumption, MaxFaultsAssumption DEF Init, Slots, RecoverBy
  <2>2. "off" \in Control /\ gcLate \in BOOLEAN /\ paused \in BOOLEAN BY DEF Control, Init
  <2> QED BY <2>1, <2>2, InitialStateType DEF Init, TypeOK
<1>2. \A p \in Pods : Own(p)
  BY DEF Init, Own, Stopped, Copied, Known, GcRetired, Drained, Scanned
<1>3. \A p \in Pods : Held(p)
  BY DEF Init, Held, GcSlot, PauseOpen, RestoreOpen, WorkerAlone, Requesting, AtWork, GcAtWork
<1>4. RunnerPaused BY DEF Init, RunnerPaused, InitialState
<1> QED BY <1>1, <1>2, <1>3, <1>4 DEF IInv

\* Every step preserves the invariant.
LEMMA NextIInv == IInv /\ [Next]_vars => IInv'
<1> SUFFICES ASSUME IInv, [Next]_vars PROVE IInv'
  OBVIOUS
<1>1. ASSUME NEW p \in Pods, ThinkStep(p) PROVE IInv'
  BY <1>1, CoordStepInv, AckStepInv, RecoverStepInv, WorkerStepInv, GcStepInv, StoreStepInv
  DEF ThinkStep
<1>2. ASSUME NEW p \in Pods, CommitStep(p) PROVE IInv'
  BY <1>2, CoordSaveInv, UnknownAlertInv, RecoverSaveInv, WorkerClaimInv, GcClaimInv DEF CommitStep
<1>3. ASSUME NEW p \in Pods, RequestStep(p) PROVE IInv'
  BY <1>3, PutStepInv DEF RequestStep
<1>4. ASSUME NEW p \in Pods, ReportStep(p) PROVE IInv'
  BY <1>4, ObjectInv DEF ReportStep, Report, IInv, TypeOK
<1>5. ASSUME NEW p \in Pods, FaultStep(p) PROVE IInv'
  <2>1. faults < MaxFaults => faults + 1 \in 0..MaxFaults BY MaxFaultsAssumption DEF IInv, TypeOK
  <2>2. CASE Abort(p) /\ UNCHANGED <<cm, gcLate, clock, gitlab, obj>>
    BY <2>1, <2>2, EndInv DEF Abort, Fault, Refuse, Ended
  <2>3. CASE Delete(p) /\ UNCHANGED <<cm, gcLate, clock, gitlab, local>>
    BY <2>1, <2>3, ObjectInv DEF Delete, Fault
  <2> QED BY <1>5, <2>2, <2>3 DEF FaultStep
<1>6. CASE GitLabStep BY <1>6, GitLabPutInv, JobInv DEF GitLabStep
<1>7. CASE UNCHANGED vars
  <2>1. TypeOK' BY <1>7 DEF IInv, TypeOK, vars, gitlab, local
  <2>2. \A q \in Pods : Own(q)' /\ Held(q)'
    BY <1>7
    DEF IInv, Own, Stopped, Copied, Known, GcRetired, Drained, Held, GcSlot, PauseOpen, RestoreOpen,
           WorkerAlone, OwnersStopped, NoActiveJob, CiPodsIdle, gitlab, local, vars
  <2>3. RunnerPaused' BY <1>7 DEF IInv, RunnerPaused, NoActiveJob, gitlab, vars
  <2> QED BY <2>1, <2>2, <2>3 DEF IInv
<1> QED BY <1>1, <1>2, <1>3, <1>4, <1>5, <1>6, <1>7, StartInv, RecycleInv, TimeInv
  DEF Next, ProcessStep

\* The inductive invariant holds in every reachable state.
THEOREM Invariance == Spec => []IInv
BY InitIInv, NextIInv, PTL DEF Spec

\* Type correctness of the whole protocol state.
THEOREM TypeCorrect == Spec => []TypeOK
<1>1. IInv => TypeOK BY DEF IInv
<1> QED BY <1>1, Invariance, PTL

\* remove_tree runs only on a paused and idle runner, whatever dies or is late.
THEOREM CleanupIsExclusive == Spec => []CleanupExclusive
<1>1. IInv => CleanupExclusive
  <2> SUFFICES ASSUME IInv, NEW w \in Workers, pc[w] = "w_delete"
               PROVE  paused /\ (\A j \in Jobs : job[j].status = "none" /\ ~job[j].pod)
                      /\ \A g \in GcPods : pc[g] # "g_work"
    BY DEF CleanupExclusive
  <2>1. cm.gc = None /\ paused /\ NoActiveJob /\ CiPodsIdle
    BY PodKinds DEF IInv, Held, WorkerAlone, AtWork
  <2>2. \A g \in GcPods : pc[g] # "g_work" BY <2>1, PodKinds DEF IInv, Held, GcSlot, GcAtWork
  <2> QED BY <2>1, <2>2 DEF NoActiveJob, CiPodsIdle
<1> QED BY <1>1, Invariance, PTL

\* A PUT that can still take effect is recorded as unresolved.
THEOREM LateWritesAreRecorded == Spec => []LateWriteRecorded
<1>1. IInv => LateWriteRecorded
  BY PodKinds DEF IInv, Held, PauseOpen, RestoreOpen, LateWriteRecorded, PutPods, Pausing
<1> QED BY <1>1, Invariance, PTL

\* recover unpauses only after the coordinator and the claimed worker stopped.
THEOREM RestoresAfterRetirement == Spec => []RestoreAfterRetirement
<1>1. IInv => RestoreAfterRetirement
  BY PodKinds DEF IInv, Held, RestoreOpen, OwnersStopped, RestoreAfterRetirement, Requesting
<1> QED BY <1>1, Invariance, PTL

\* DONE is recorded only when the runner is unpaused, and it stays so.
THEOREM DoneIsRestored == Spec => []DoneMeansRestored
<1>1. IInv => DoneMeansRestored BY DEF IInv, RunnerPaused, DoneMeansRestored
<1> QED BY <1>1, Invariance, PTL

\* Store GC never works without the gc_holder slot.
THEOREM GcKeepsSlot == Spec => []GcHoldsSlot
<1>1. IInv => GcHoldsSlot BY PodKinds DEF IInv, Held, GcSlot, GcHoldsSlot, GcAtWork
<1> QED BY <1>1, Invariance, PTL
===============================================================================
