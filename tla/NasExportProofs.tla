--------------------------- MODULE NasExportProofs ---------------------------
(***************************************************************************)
(* Proofs about NasExport for any number of Jobs, stamps, faults, blob     *)
(* types and retained points.                                              *)
(*                                                                         *)
(* The flock makes one Job the only writer of the exports (Exclusive), so  *)
(* what it saw when it listed them still holds when it publishes (Ahead,   *)
(* Staged, Whole).  A stamp never comes back, because the newest published *)
(* export is never pruned (History).  What a Job prunes is the oldest part *)
(* of what there is, its own export is not in it, and enough is left       *)
(* (Pruning); the hook only adds newer database archives.                  *)
(***************************************************************************)
EXTENDS NasExport, NaturalLemmas, TLAPS, FiniteSetTheorems

Existing == {t \in Stamps : exports[t] # None}

Exclusive(e) ==
  /\ pc[e] # "idle" <=> lock = e
  /\ pc[e] \in {"idle", "produce", "inspect"} => job[e].retained = {} /\ job[e].db = {}

\* Every name in the directory was renamed from a synced, inspected stage.
Sound == \A t \in Existing : exports[t].synced /\ exports[t].intact /\ Held \subseteq exports[t].blobs

\* The stamp of a run is the newest there is.
Ahead(e) == pc[e] \notin {"idle", "produce"} =>
  /\ job[e].stamp \in Stamps /\ job[e].stamp <= clock /\ Accepted(job[e].out)
  /\ \A t \in Existing \cup seen : t <= job[e].stamp

Staged(e) ==
  /\ pc[e] \in {"copy", "sync", "rename"} =>
       /\ job[e].stamp \notin Existing \cup seen /\ Held \subseteq job[e].out.blobs
       /\ job[e].retained = Existing
  /\ pc[e] \in {"sync", "rename"} =>
       /\ job[e].stage \in Dir /\ job[e].stage.files = Files /\ job[e].stage.intact
       /\ ~job[e].stage.linked /\ job[e].stage.blobs = job[e].out.blobs
  /\ pc[e] = "rename" => job[e].stage.synced
  /\ pc[e] = "publish" =>
       /\ job[e].stamp \in Existing /\ Existing = job[e].retained \cup {job[e].stamp}

Whole(e) == pc[e] \in {"copy", "sync", "rename", "publish"} =>
  /\ AllComplete /\ job[e].db \subseteq DbPoints
  /\ \A t \in job[e].db, u \in DbPoints \ job[e].db : t < u

Pruning(e) == pc[e] = "prune" =>
  /\ job[e].stamp \in Points /\ job[e].stamp \notin job[e].retained
  /\ job[e].retained \subseteq Existing /\ Existing \ job[e].retained \subseteq Points
  /\ \A t \in Existing : exports[t].linked
  /\ \A t \in job[e].retained, u \in Points \ job[e].retained : t < u
  /\ job[e].retained # {} => Cardinality(Points \ job[e].retained) >= KeepExports
  /\ Cardinality(Existing \ job[e].retained) <= KeepExports
  /\ job[e].db \subseteq dbSeen
  /\ \A t \in job[e].db, u \in DbPoints \ job[e].db : t < u
  /\ job[e].db # {} => Cardinality(DbPoints \ job[e].db) >= KeepDb
  /\ job[e].retained # {} => \A t \in Stamps : dbs[t] # "part"

History ==
  /\ \A t \in Existing \cup seen \cup dbSeen : t <= clock
  /\ Points \subseteq seen
  /\ \A p \in seen : \E q \in Points : p <= q
  /\ \A t \in Existing : ~exports[t].linked => \A p \in seen : p < t
  /\ DbPoints \subseteq dbSeen
  /\ hook # None => hook \in Stamps /\ hook <= clock /\ \A p \in dbSeen : p < hook

\* The inductive invariant.
IInv ==
  /\ TypeOK /\ Sound /\ History /\ HalfRemovedByPruneOnly
  /\ \A e \in Exporters : Exclusive(e) /\ Ahead(e) /\ Staged(e) /\ Whole(e) /\ Pruning(e)

-----------------------------------------------------------------------------
(* Sets of stamps *)

\* First is the least stamp.
LEMMA FirstIsLeast ==
  ASSUME NEW S, S \subseteq Stamps, S # {}
  PROVE  First(S) \in S /\ \A u \in S : First(S) <= u
<1>0. S \subseteq Nat
  BY ExportAssumption DEF Stamps
<1>1. \E t \in S : \A u \in S : t <= u
  BY <1>0, LeastElement
<1> QED BY <1>1 DEF First

\* Any set of stamps is finite.
LEMMA StampsFinite ==
  ASSUME NEW S, S \subseteq Stamps
  PROVE  IsFiniteSet(S) /\ Cardinality(S) \in Nat
<1>1. IsFiniteSet(Stamps)
  BY FS_Interval, ExportAssumption DEF Stamps
<1>2. IsFiniteSet(S)
  BY <1>1, FS_Subset
<1> QED BY <1>2, FS_CardinalityType

\* completions[:-keep]: what is dropped is older than what stays, exactly keep
\* stay when anything is dropped, never more, and never the newest goes.
LEMMA OldestDropped ==
  ASSUME NEW S, S \subseteq Stamps, NEW keep \in Nat \ {0}
  PROVE  LET O == Oldest(S, keep) IN
         /\ O \subseteq S
         /\ \A t \in O, u \in S \ O : t < u
         /\ O # {} => Cardinality(S \ O) >= keep
         /\ Cardinality(S \ O) <= keep
         /\ \A t \in S : (\A u \in S : u <= t) => t \notin O
<1> DEFINE O == Oldest(S, keep)
           From(t) == {u \in S : u >= t}
<1>0. /\ \A t \in S : t \in Nat /\ t <= MaxTime
      /\ O \subseteq S /\ \A t \in S : t \in O <=> Cardinality(From(t)) > keep
  BY ExportAssumption DEF Stamps, Oldest
<1> HIDE DEF O
<1>a. \A t : IsFiniteSet(From(t)) /\ Cardinality(From(t)) \in Nat
  BY StampsFinite
<1>b. IsFiniteSet(S \ O) /\ Cardinality(S \ O) \in Nat
  BY StampsFinite
<1>1. ASSUME NEW t \in O, NEW u \in S \ O PROVE t < u
  <2>1. SUFFICES ASSUME u <= t PROVE FALSE
    BY <1>0
  <2>2. From(t) \subseteq From(u)
    <3> SUFFICES ASSUME NEW v \in From(t) PROVE v \in From(u)
      OBVIOUS
    <3>1. v \in Nat /\ t \in Nat /\ u \in Nat
      BY <1>0
    <3> QED BY <3>1, <2>1
  <2>3. Cardinality(From(t)) <= Cardinality(From(u))
    BY <2>2, <1>a, FS_Subset
  <2>4. t \in S /\ Cardinality(From(t)) > keep /\ ~(Cardinality(From(u)) > keep)
    BY <1>0
  <2>5. Cardinality(From(t)) \in Nat /\ Cardinality(From(u)) \in Nat
    BY <1>a
  <2> HIDE DEF From
  <2> QED BY <2>3, <2>4, <2>5
<1>2. ASSUME O # {} PROVE Cardinality(S \ O) >= keep
  <2>1. PICK m \in O : \A n \in O : n <= m
    <3>1. O \subseteq Nat /\ \A t \in O : t <= MaxTime
      BY <1>0
    <3> QED BY <3>1, <1>2, GreatestElement, ExportAssumption
  <2> DEFINE V == From(m) \ {m}
  <2>2. Cardinality(V) = Cardinality(From(m)) - 1 /\ IsFiniteSet(V) /\ Cardinality(V) \in Nat
    <3>1. m \in From(m) BY <1>0
    <3>2. IsFiniteSet(From(m)) BY <1>a
    <3>3. IsFiniteSet(V) /\ Cardinality(V) = Cardinality(From(m)) - 1
      BY <3>1, <3>2, FS_RemoveElement, Zenon
    <3> QED BY <3>3, FS_CardinalityType
  <2>3. V \subseteq S \ O
    <3> SUFFICES ASSUME NEW v \in V PROVE v \in S /\ v \notin O
      OBVIOUS
    <3>1. v \in Nat /\ m \in Nat /\ v > m
      BY <1>0
    <3> QED BY <3>1, <2>1
  <2>4. Cardinality(V) <= Cardinality(S \ O)
    BY <2>3, <1>b, FS_Subset
  <2>5. m \in S /\ Cardinality(From(m)) > keep /\ Cardinality(From(m)) \in Nat
    BY <1>0, <1>a
  <2> HIDE DEF From, V
  <2> QED BY <2>2, <2>4, <2>5, <1>b
<1>3. Cardinality(S \ O) <= keep
  <2>1. CASE S \ O = {}
    BY <2>1, FS_EmptySet
  <2>2. CASE S \ O # {}
    <3>1. PICK m \in S \ O : \A n \in S \ O : m <= n
      BY <1>0, <2>2, LeastElement
    <3>2. S \ O \subseteq From(m)
      BY <3>1, <1>0
    <3>3. Cardinality(S \ O) <= Cardinality(From(m))
      BY <3>2, <1>a, FS_Subset
    <3>4. ~(Cardinality(From(m)) > keep) /\ Cardinality(From(m)) \in Nat
      BY <1>0, <1>a
    <3> HIDE DEF From
    <3> QED BY <3>3, <3>4, <1>b
  <2> QED BY <2>1, <2>2
<1>4. ASSUME NEW t \in S, \A u \in S : u <= t PROVE t \notin O
  <2>1. From(t) = {t}
    <3>1. \A u \in S : u >= t <=> u = t
      BY <1>0, <1>4
    <3> QED BY <3>1
  <2>2. Cardinality(From(t)) = 1
    BY <2>1, FS_Singleton
  <2> QED BY <2>2, <1>0
<1> QED BY <1>0, <1>1, <1>2, <1>3, <1>4 DEF O

-----------------------------------------------------------------------------
(* The invariant *)

JobType == [stamp : 0 .. MaxTime, out : Outputs, retained : SUBSET Stamps,
            db : SUBSET Stamps, stage : Dir \cup {None}]

\* The local variables of a Job that does not run.
LEMMA NoJobType == NoJob \in JobType
BY ExportAssumption DEF NoJob, JobType, NoOutput, Outputs

\* Nothing is published at first.
LEMMA InitInv == Init => IInv
<1> SUFFICES ASSUME Init PROVE IInv
  OBVIOUS
<1> USE ExportAssumption, NoneAssumption
<1>1. TypeOK
  BY DEF Init, TypeOK, NoJob, NoOutput, Outputs
<1>2. Existing = {} /\ Points = {} /\ DbPoints = {}
  BY DEF Init, Existing, Points, DbPoints, Complete
<1>3. HalfRemovedByPruneOnly
  BY DEF Init, HalfRemovedByPruneOnly
<1>4. Sound /\ History
  BY <1>2 DEF Init, Sound, History
<1>5. \A e \in Exporters : Exclusive(e) /\ Ahead(e) /\ Staged(e) /\ Whole(e) /\ Pruning(e)
  BY DEF Init, NoJob, Exclusive, Ahead, Staged, Whole, Pruning
<1> QED BY <1>1, <1>3, <1>4, <1>5 DEF IInv

\* The others are idle while one Job works.
LEMMA Alone ==
  ASSUME IInv, NEW e \in Exporters, pc[e] # "idle"
  PROVE  lock = e /\ \A f \in Exporters \ {e} : pc[f] = "idle"
BY DEF IInv, Exclusive

Frame(e) == \A f \in Exporters \ {e} : pc'[f] = pc[f] /\ job'[f] = job[f]

\* An idle Job stays as it is when another one moves.
LEMMA OthersIdle ==
  ASSUME IInv, NEW e \in Exporters, Frame(e), \A f \in Exporters \ {e} : pc[f] = "idle",
         \A f \in Exporters \ {e} : lock' # f,
         Exclusive(e)', Ahead(e)', Staged(e)', Whole(e)', Pruning(e)'
  PROVE  \A f \in Exporters : (Exclusive(f) /\ Ahead(f) /\ Staged(f) /\ Whole(f) /\ Pruning(f))'
<1> SUFFICES ASSUME NEW f \in Exporters \ {e}
             PROVE  (Exclusive(f) /\ Ahead(f) /\ Staged(f) /\ Whole(f) /\ Pruning(f))'
  OBVIOUS
<1>1. pc'[f] = "idle" /\ job'[f] = job[f] /\ lock' # f
  BY DEF Frame
<1>2. Exclusive(f)'
  BY <1>1 DEF IInv, Exclusive
<1>3. (Ahead(f) /\ Staged(f) /\ Whole(f) /\ Pruning(f))'
  BY <1>1 DEF Ahead, Staged, Whole, Pruning
<1> QED BY <1>2, <1>3

\* A Job takes the lock.
LEMMA StartStep ==
  ASSUME IInv, NEW e \in Exporters, Start(e)
  PROVE  IInv'
<1> USE ExportAssumption, NoneAssumption DEF Start, Goto
<1>1. TypeOK'
  BY DEF IInv, TypeOK, history
<1>2. Sound' /\ History'
  BY DEF IInv, Sound, History, Existing, Points, DbPoints, history
<1>3. HalfRemovedByPruneOnly'
  BY DEF IInv, HalfRemovedByPruneOnly, history
<1>4. Frame(e) /\ \A f \in Exporters \ {e} : pc[f] = "idle" /\ lock' # f
  BY DEF IInv, Exclusive, Frame, TypeOK
<1>5. pc'[e] = "produce" /\ job'[e] = job[e] /\ lock' = e
  BY DEF IInv, TypeOK
<1>6. Exclusive(e)'
  BY <1>5 DEF IInv, Exclusive
<1>7. (Ahead(e) /\ Staged(e) /\ Whole(e) /\ Pruning(e))'
  BY <1>5 DEF Ahead, Staged, Whole, Pruning
<1> QED BY <1>1, <1>2, <1>3, <1>4, <1>6, <1>7, OthersIdle DEF IInv

\* A run ends: whatever it leaves of the exports and archives, it leaves the
\* lock and no local state.
LEMMA LeaveStep ==
  ASSUME IInv, NEW e \in Exporters, pc[e] # "idle", Leave(e),
         TypeOK', Sound', History', HalfRemovedByPruneOnly'
  PROVE  IInv'
<1>1. Frame(e) /\ pc'[e] = "idle" /\ job'[e] = NoJob /\ lock' = None
  BY DEF Leave, IInv, TypeOK, Frame
<1>2. \A f \in Exporters \ {e} : pc[f] = "idle" /\ lock' # f
  BY <1>1, Alone, NoneAssumption
<1>3. Exclusive(e)'
  BY <1>1, NoneAssumption DEF Exclusive, NoJob
<1>4. (Ahead(e) /\ Staged(e) /\ Whole(e) /\ Pruning(e))'
  BY <1>1 DEF Ahead, Staged, Whole, Pruning
<1> QED BY <1>1, <1>2, <1>3, <1>4, OthersIdle DEF IInv

\* Nothing is half removed when a run that has not come to its pruning ends.
LEMMA NothingHalf ==
  ASSUME IInv, NEW e \in Exporters, pc[e] \notin {"idle", "prune"}
  PROVE  \A t \in Stamps : (exports[t] # None /\ ~Complete(exports[t])) \/ dbs[t] = "part" => t \in broken
<1>1. lock = e
  BY Alone
<1>2. \A t \in Half(e) : t \in job[e].db /\ dbs[t] = "part"
  BY DEF Half
<1>3. Half(e) = {}
  BY <1>2 DEF IInv, Exclusive, Whole, AllComplete, TypeOK
<1> QED BY <1>1, <1>3 DEF IInv, HalfRemovedByPruneOnly

\* The native run, and the evidence that is asked of it.
LEMMA ProduceStep ==
  ASSUME IInv, NEW e \in Exporters, Produce(e)
  PROVE  IInv'
<1> USE ExportAssumption, NoneAssumption
<1>1. PICK t \in {clock, clock + 1} \cap Stamps, out \in Outputs :
        /\ pc[e] = "produce" /\ clock' = t
        /\ remote' = IF out.ok THEN remote \cup {t} ELSE remote
        /\ IF Accepted(out)
           THEN /\ pc' = [pc EXCEPT ![e] = "inspect"]
                /\ job' = [job EXCEPT ![e].stamp = t, ![e].out = out]
                /\ UNCHANGED lock
           ELSE Leave(e)
        /\ UNCHANGED <<exports, dbs, hook, faults, history>>
  BY DEF Produce
<1>2. clock <= t /\ clock \in Nat /\ t \in 0 .. MaxTime
  BY <1>1 DEF IInv, TypeOK, Stamps
<1>3. TypeOK'
  <2>0. job \in [Exporters -> JobType]
    BY DEF IInv, TypeOK, JobType
  <2>1. job' \in [Exporters -> JobType]
    <3>1. CASE Accepted(out)
      BY <2>0, <3>1, <1>1, <1>2 DEF JobType
    <3>2. CASE ~Accepted(out)
      BY <2>0, <3>2, <1>1, NoJobType DEF Leave
    <3> QED BY <3>1, <3>2
  <2> QED BY <2>1, <1>1, <1>2 DEF IInv, TypeOK, JobType, history, Leave
<1>4. Sound'
  BY <1>1 DEF IInv, Sound, Existing, history
<1>5. History'
  BY <1>1, <1>2 DEF IInv, TypeOK, History, Existing, Points, DbPoints, Stamps, history
<1>6. HalfRemovedByPruneOnly'
  BY <1>1, NothingHalf DEF HalfRemovedByPruneOnly, history
<1>7. CASE Accepted(out)
  <2>1. Frame(e) /\ pc'[e] = "inspect" /\ lock' = e
    BY <1>1, <1>7, Alone DEF IInv, TypeOK, Frame
  <2>2. /\ job'[e].stamp = t /\ job'[e].out = out
        /\ job'[e].retained = {} /\ job'[e].db = {}
    BY <1>1, <1>7 DEF IInv, TypeOK, Exclusive
  <2>3. Exclusive(e)' /\ Staged(e)' /\ Whole(e)' /\ Pruning(e)'
    BY <2>1, <2>2 DEF Exclusive, Staged, Whole, Pruning
  <2>4. Ahead(e)'
    BY <1>1, <1>2, <1>7, <2>1, <2>2 DEF Ahead, IInv, TypeOK, History, Existing, Stamps, history
  <2>5. \A f \in Exporters \ {e} : pc[f] = "idle" /\ lock' # f
    BY <1>1, <2>1, Alone
  <2> QED BY <1>3, <1>4, <1>5, <1>6, <2>1, <2>3, <2>4, <2>5, OthersIdle DEF IInv
<1>8. CASE ~Accepted(out)
  BY <1>1, <1>3, <1>4, <1>5, <1>6, <1>8, LeaveStep
<1> QED BY <1>7, <1>8

\* A run that has not come to its pruning gives up and changes nothing.
LEMMA GiveUpStep ==
  ASSUME IInv, NEW e \in Exporters, pc[e] \notin {"idle", "prune"}, Leave(e),
         UNCHANGED <<clock, exports, dbs, remote, hook, faults, history>>
  PROVE  IInv'
<1>0. job \in [Exporters -> JobType]
  BY DEF IInv, TypeOK, JobType
<1>1. job' \in [Exporters -> JobType]
  BY <1>0, NoJobType DEF Leave
<1>2. TypeOK'
  BY <1>1 DEF IInv, TypeOK, JobType, Leave, history
<1>3. Sound' /\ History'
  BY DEF IInv, Sound, History, Existing, Points, DbPoints, history
<1>4. HalfRemovedByPruneOnly'
  BY NothingHalf DEF HalfRemovedByPruneOnly, history
<1> QED BY <1>2, <1>3, <1>4, LeaveStep

\* The archive is inspected and the directory is listed.
LEMMA InspectStep ==
  ASSUME IInv, NEW e \in Exporters, Inspect(e)
  PROVE  IInv'
<1> USE ExportAssumption, NoneAssumption
<1>1. CASE ~(Inspected(job[e].out) /\ exports[job[e].stamp] = None /\ AllComplete)
  BY <1>1, GiveUpStep DEF Inspect
<1>2. CASE Inspected(job[e].out) /\ exports[job[e].stamp] = None /\ AllComplete
  <2>0. job \in [Exporters -> JobType] /\ pc[e] = "inspect"
    BY DEF IInv, TypeOK, JobType, Inspect
  <2>1. /\ pc' = [pc EXCEPT ![e] = "copy"]
        /\ job' = [job EXCEPT ![e].retained = Existing, ![e].db = DbPoints]
        /\ UNCHANGED <<lock, clock, exports, dbs, remote, hook, faults, history>>
    BY <1>2 DEF Inspect, Existing
  <2>2. Existing \subseteq Stamps /\ DbPoints \subseteq Stamps
    BY DEF Existing, DbPoints
  <2>3. /\ job' \in [Exporters -> JobType] /\ job'[e].retained = Existing /\ job'[e].db = DbPoints
        /\ job'[e].stamp = job[e].stamp /\ job'[e].out = job[e].out
        /\ pc'[e] = "copy" /\ Frame(e)
    BY <2>0, <2>1, <2>2 DEF JobType, Frame, IInv, TypeOK
  <2>4. TypeOK'
    BY <2>1, <2>3 DEF IInv, TypeOK, JobType, history
  <2>5. Existing' = Existing /\ Points' = Points /\ DbPoints' = DbPoints /\ seen' = seen
    BY <2>1 DEF Existing, Points, DbPoints, history
  <2>6. Sound' /\ History'
    BY <2>1 DEF IInv, Sound, History, Existing, Points, DbPoints, history
  <2>7. HalfRemovedByPruneOnly'
    BY <2>0, <2>1, NothingHalf DEF HalfRemovedByPruneOnly, history
  <2>8. Ahead(e)'
    BY <2>0, <2>1, <2>3, <2>5 DEF IInv, Ahead
  <2>9. Exclusive(e)' /\ Pruning(e)'
    BY <2>0, <2>1, <2>3 DEF IInv, Exclusive, Pruning
  <2>10. Staged(e)'
    <3>1. job[e].stamp \notin Existing
      BY <1>2 DEF Existing
    <3>2. job[e].stamp \notin seen
      <4>1. SUFFICES ASSUME job[e].stamp \in seen PROVE FALSE
        OBVIOUS
      <4>2. PICK q \in Points : job[e].stamp <= q
        BY <4>1 DEF IInv, History
      <4>3. q \in Existing
        BY DEF Points, Existing, Complete
      <4>4. q <= job[e].stamp /\ q \in Nat /\ job[e].stamp \in Nat
        BY <2>0, <4>3 DEF IInv, Ahead, Existing, Stamps
      <4> QED BY <4>2, <4>3, <4>4, <3>1
    <3>3. Held \subseteq job[e].out.blobs
      BY <2>0, <1>2 DEF IInv, Ahead, Accepted, Inspected
    <3> QED BY <2>3, <2>5, <3>1, <3>2, <3>3 DEF Staged
  <2>11. Whole(e)'
    BY <1>2, <2>1, <2>3, <2>5 DEF Whole, AllComplete
  <2>12. \A f \in Exporters \ {e} : pc[f] = "idle" /\ lock' # f
    BY <2>0, <2>1, Alone
  <2> QED BY <2>3, <2>4, <2>6, <2>7, <2>8, <2>9, <2>10, <2>11, <2>12, OthersIdle DEF IInv
<1> QED BY <1>1, <1>2

\* The archive is copied into a stage of this run.
LEMMA StageStep ==
  ASSUME IInv, NEW e \in Exporters, Copy(e) \/ Sync(e)
  PROVE  IInv'
<1> USE ExportAssumption, NoneAssumption
<1>0. /\ job \in [Exporters -> JobType] /\ pc[e] \in {"copy", "sync"} /\ lock = e
      /\ pc = [f \in Exporters |-> pc[f]]
  BY Alone DEF IInv, TypeOK, JobType, Copy, Sync, Goto
<1>1. UNCHANGED <<clock, exports, dbs, remote, lock, hook, faults, history>>
  BY DEF Copy, Sync
<1>2. /\ job' \in [Exporters -> JobType] /\ Frame(e)
      /\ job'[e].stamp = job[e].stamp /\ job'[e].out = job[e].out
      /\ job'[e].retained = job[e].retained /\ job'[e].db = job[e].db
      /\ pc'[e] \in {"sync", "rename"} /\ job'[e].stage \in Dir
      /\ job'[e].stage.files = Files /\ job'[e].stage.intact /\ ~job'[e].stage.linked
      /\ job'[e].stage.blobs = job[e].out.blobs
      /\ pc'[e] = "rename" => job'[e].stage.synced
  <2>1. CASE Copy(e)
    <3> DEFINE stage == [files |-> Files, blobs |-> job[e].out.blobs,
                         intact |-> TRUE, synced |-> FALSE, linked |-> FALSE]
    <3>1. stage \in Dir
      BY <1>0 DEF Dir, JobType, Outputs
    <3>2. job' = [job EXCEPT ![e].stage = stage] /\ pc' = [pc EXCEPT ![e] = "sync"]
      BY <2>1 DEF Copy, Goto
    <3>3. stage.files = Files /\ stage.intact /\ ~stage.linked /\ stage.blobs = job[e].out.blobs
      OBVIOUS
    <3> HIDE DEF stage
    <3> QED BY <1>0, <3>1, <3>2, <3>3 DEF IInv, TypeOK, JobType, Frame
  <2>2. CASE Sync(e)
    <3>1. /\ pc[e] = "sync" /\ job' = [job EXCEPT ![e].stage.synced = TRUE]
          /\ pc' = [pc EXCEPT ![e] = "rename"]
      BY <2>2 DEF Sync, Goto
    <3>2. /\ job[e].stage \in Dir /\ job[e].stage.files = Files /\ job[e].stage.intact
          /\ ~job[e].stage.linked /\ job[e].stage.blobs = job[e].out.blobs
      BY <3>1 DEF IInv, Staged
    <3> DEFINE stage == [job[e].stage EXCEPT !.synced = TRUE]
    <3>3. /\ stage \in Dir /\ stage.files = Files /\ stage.intact /\ stage.synced
          /\ ~stage.linked /\ stage.blobs = job[e].out.blobs
      BY <3>2 DEF Dir
    <3> DEFINE new == [job[e] EXCEPT !.stage = stage]
    <3>4. job' = [job EXCEPT ![e] = new]
      BY <1>0, <3>1 DEF JobType
    <3> HIDE DEF stage
    <3>5. /\ new \in JobType /\ new.stage = stage /\ new.stamp = job[e].stamp /\ new.out = job[e].out
          /\ new.retained = job[e].retained /\ new.db = job[e].db
      BY <1>0, <3>3 DEF JobType
    <3> HIDE DEF new
    <3>6. job' \in [Exporters -> JobType] /\ job'[e] = new /\ Frame(e) /\ pc'[e] = "rename"
      BY <1>0, <3>1, <3>4, <3>5 DEF Frame
    <3> QED BY <3>3, <3>5, <3>6
  <2> QED BY <2>1, <2>2
<1>3. TypeOK'
  <2>1. pc' \in [Exporters -> {"idle", "produce", "inspect", "copy", "sync", "rename", "publish", "prune"}]
    BY DEF IInv, TypeOK, Copy, Sync, Goto
  <2> QED BY <1>1, <1>2, <2>1 DEF IInv, TypeOK, JobType, history
<1>4. Existing' = Existing /\ Points' = Points /\ DbPoints' = DbPoints /\ seen' = seen /\ AllComplete' = AllComplete
  BY <1>1 DEF Existing, Points, DbPoints, AllComplete, history
<1>5. Sound' /\ History'
  BY <1>1 DEF IInv, Sound, History, Existing, Points, DbPoints, history
<1>6. HalfRemovedByPruneOnly'
  BY <1>0, <1>1, NothingHalf DEF HalfRemovedByPruneOnly, history
<1>7. Exclusive(e)' /\ Pruning(e)'
  BY <1>0, <1>1, <1>2 DEF Exclusive, Pruning
<1>8. Ahead(e)'
  BY <1>0, <1>1, <1>2, <1>4 DEF IInv, Ahead
<1>9. Staged(e)'
  BY <1>0, <1>2, <1>4 DEF IInv, Staged
<1>10. Whole(e)'
  BY <1>0, <1>2, <1>4 DEF IInv, Whole
<1>11. \A f \in Exporters \ {e} : pc[f] = "idle" /\ lock' # f
  BY <1>0, <1>1, Alone
<1> QED BY <1>2, <1>3, <1>5, <1>6, <1>7, <1>8, <1>9, <1>10, <1>11, OthersIdle DEF IInv

\* The rename: the name is there, not yet durable.
LEMMA RenameStep ==
  ASSUME IInv, NEW e \in Exporters, Rename(e)
  PROVE  IInv' /\ Points' = Points
<1> USE ExportAssumption, NoneAssumption
<1> DEFINE s == job[e].stamp
<1>0. /\ job \in [Exporters -> JobType] /\ pc[e] = "rename" /\ lock = e
      /\ exports \in [Stamps -> Dir \cup {None}] /\ s \in Stamps
  BY Alone DEF IInv, TypeOK, JobType, Rename, Goto, Ahead
<1>1. /\ UNCHANGED <<clock, dbs, remote, lock, hook, faults, history>>
      /\ exports' = [exports EXCEPT ![s] = job[e].stage]
      /\ pc' = [pc EXCEPT ![e] = "publish"] /\ job' = [job EXCEPT ![e].stage = None]
  BY DEF Rename, Goto
<1>2. /\ job[e].stage \in Dir /\ job[e].stage.files = Files /\ job[e].stage.intact
      /\ job[e].stage.synced /\ ~job[e].stage.linked /\ Held \subseteq job[e].stage.blobs
      /\ s \notin Existing /\ s \notin seen /\ job[e].retained = Existing
  BY <1>0 DEF IInv, Staged
<1>3. /\ job' \in [Exporters -> JobType] /\ Frame(e)
      /\ job'[e].stamp = s /\ job'[e].out = job[e].out
      /\ job'[e].retained = Existing /\ job'[e].db = job[e].db
      /\ pc'[e] = "publish"
  BY <1>0, <1>1, <1>2 DEF JobType, Frame, IInv, TypeOK
<1>4. /\ exports' \in [Stamps -> Dir \cup {None}] /\ exports'[s] = job[e].stage
      /\ \A t \in Stamps \ {s} : exports'[t] = exports[t]
  BY <1>0, <1>1, <1>2
<1>5. TypeOK'
  BY <1>1, <1>3, <1>4 DEF IInv, TypeOK, JobType, history
<1>6. Existing' = Existing \cup {s} /\ Points' = Points /\ DbPoints' = DbPoints
  <2>1. Existing' = Existing \cup {s}
    BY <1>0, <1>2, <1>4 DEF Existing
  <2>2. \A t \in Stamps : t \in Points' <=> t \in Points
    <3>1. s \notin Points /\ s \notin Points'
      BY <1>2, <1>4 DEF Points, Existing, Complete
    <3> QED BY <3>1, <1>4 DEF Points
  <2>3. Points' = Points
    BY <2>2 DEF Points
  <2> QED BY <2>1, <2>3, <1>1 DEF DbPoints
<1> HIDE DEF s
<1>7. Sound'
  BY <1>2, <1>4, <1>6 DEF IInv, Sound, Existing
<1>8. History'
  <2>1. \A t \in Existing \cup seen : t <= s
    BY <1>0 DEF IInv, Ahead, s
  <2>2. \A p \in seen : p < s
    BY <2>1, <1>2, <1>0 DEF IInv, TypeOK, Stamps
  <2>3. \A t \in Existing' : ~exports'[t].linked => \A p \in seen : p < t
    BY <2>2, <1>2, <1>4, <1>6 DEF IInv, History, Existing
  <2>4. s <= clock
    BY <1>0 DEF IInv, Ahead, s
  <2> QED BY <2>3, <2>4, <1>1, <1>6 DEF IInv, History, history
<1>9. AllComplete'
  BY <1>0, <1>1, <1>2, <1>4 DEF IInv, Whole, AllComplete, Complete
<1>10. HalfRemovedByPruneOnly'
  BY <1>9 DEF HalfRemovedByPruneOnly, AllComplete
<1>11. Exclusive(e)' /\ Pruning(e)'
  BY <1>0, <1>1, <1>3 DEF Exclusive, Pruning
<1>12. Ahead(e)'
  BY <1>0, <1>1, <1>3, <1>6 DEF IInv, Ahead, history, s, Stamps
<1>13. Staged(e)'
  BY <1>3, <1>6 DEF Staged
<1>14. Whole(e)'
  BY <1>0, <1>3, <1>6, <1>9 DEF IInv, Whole
<1>15. \A f \in Exporters \ {e} : pc[f] = "idle" /\ lock' # f
  BY <1>0, <1>1, Alone
<1>16. IInv'
  BY <1>3, <1>5, <1>7, <1>8, <1>10, <1>11, <1>12, <1>13, <1>14, <1>15, OthersIdle DEF IInv
<1> QED BY <1>6, <1>16

\* The names are durable and what is to be pruned is chosen.
LEMMA PublishStep ==
  ASSUME IInv, NEW e \in Exporters, Publish(e)
  PROVE  /\ IInv'
         /\ Points' = Existing /\ Points \subseteq Existing /\ seen' = seen \cup Existing
<1> USE ExportAssumption, NoneAssumption
<1> DEFINE s == job[e].stamp
           R == Oldest(Existing, KeepExports)
           D == Oldest(job[e].db, KeepDb)
<1>0. /\ job \in [Exporters -> JobType] /\ pc[e] = "publish" /\ lock = e
      /\ exports \in [Stamps -> Dir \cup {None}] /\ s \in Existing
      /\ Existing = job[e].retained \cup {s} /\ AllComplete
      /\ pc = [f \in Exporters |-> pc[f]]
  BY Alone DEF IInv, TypeOK, JobType, Publish, Goto, Staged, Whole
<1>1. /\ UNCHANGED <<clock, dbs, remote, lock, hook, faults, dbSeen, broken>>
      /\ exports' = [t \in Stamps |-> IF exports[t] = None THEN None
                                      ELSE [exports[t] EXCEPT !.linked = TRUE]]
      /\ seen' = seen \cup {t \in Stamps : Complete(exports[t])}
      /\ pc' = [pc EXCEPT ![e] = "prune"]
      /\ job' = [job EXCEPT ![e].retained = R, ![e].db = D]
  BY <1>0 DEF Publish, Goto
<1>2. Existing \subseteq Stamps /\ job[e].db \subseteq Stamps /\ DbPoints \subseteq Stamps
  BY <1>0 DEF Existing, JobType, DbPoints
<1>3. /\ R \subseteq Existing
      /\ \A t \in R, u \in Existing \ R : t < u
      /\ R # {} => Cardinality(Existing \ R) >= KeepExports
      /\ Cardinality(Existing \ R) <= KeepExports
      /\ s \notin R
  <2>1. \A t \in Existing : t <= s
    BY <1>0 DEF IInv, Ahead
  <2>2. /\ R \subseteq Existing
        /\ \A t \in R, u \in Existing \ R : t < u
        /\ R # {} => Cardinality(Existing \ R) >= KeepExports
        /\ Cardinality(Existing \ R) <= KeepExports
        /\ \A t \in Existing : (\A u \in Existing : u <= t) => t \notin R
    BY <1>2, OldestDropped
  <2> HIDE DEF R, s
  <2> QED BY <2>1, <2>2, <1>0
<1>4. /\ D \subseteq job[e].db
      /\ \A t \in D, u \in job[e].db \ D : t < u
      /\ D # {} => Cardinality(job[e].db \ D) >= KeepDb
  BY <1>2, OldestDropped
<1> HIDE DEF R, D
<1>5. /\ job' \in [Exporters -> JobType] /\ Frame(e)
      /\ job'[e].stamp = s /\ job'[e].out = job[e].out
      /\ job'[e].retained = R /\ job'[e].db = D /\ pc'[e] = "prune"
  <2> DEFINE new == [job[e] EXCEPT !.retained = R, !.db = D]
  <2>1. job' = [job EXCEPT ![e] = new]
    BY <1>0, <1>1 DEF JobType
  <2>2. /\ new \in JobType /\ new.stamp = s /\ new.out = job[e].out
        /\ new.retained = R /\ new.db = D
    <3>1. job[e] \in JobType /\ R \in SUBSET Stamps /\ D \in SUBSET Stamps
      BY <1>0, <1>2, <1>3, <1>4
    <3> QED BY <3>1 DEF JobType
  <2> HIDE DEF new
  <2>a. job \in [Exporters -> JobType] /\ new \in JobType
    BY <1>0, <2>2
  <2>b. pc = [f \in Exporters |-> pc[f]] /\ pc' = [pc EXCEPT ![e] = "prune"]
    BY <1>0, <1>1
  <2>3. job' \in [Exporters -> JobType] /\ job'[e] = new /\ Frame(e) /\ pc'[e] = "prune"
    BY <2>1, <2>a, <2>b DEF Frame
  <2> QED BY <2>2, <2>3
<1>6. /\ exports' \in [Stamps -> Dir \cup {None}]
      /\ \A t \in Stamps : exports[t] = None => exports'[t] = None
      /\ \A t \in Existing :
           /\ exports'[t] \in Dir /\ exports'[t].linked /\ exports'[t].files = exports[t].files
           /\ exports'[t].synced = exports[t].synced /\ exports'[t].intact = exports[t].intact
           /\ exports'[t].blobs = exports[t].blobs
  <2>1. ASSUME NEW t \in Stamps, exports[t] # None
        PROVE  /\ exports'[t] \in Dir /\ exports'[t].linked /\ exports'[t].files = exports[t].files
               /\ exports'[t].synced = exports[t].synced /\ exports'[t].intact = exports[t].intact
               /\ exports'[t].blobs = exports[t].blobs
    <3>1. exports[t] \in Dir /\ exports'[t] = [exports[t] EXCEPT !.linked = TRUE]
      BY <1>0, <1>1, <2>1
    <3> QED BY <3>1 DEF Dir
  <2>2. \A t \in Stamps : exports[t] = None => exports'[t] = None
    BY <1>1
  <2>3. exports' = [t \in Stamps |-> exports'[t]]
    BY <1>1
  <2>4. \A t \in Stamps : exports'[t] \in Dir \cup {None}
    BY <2>1, <2>2
  <2> QED BY <2>1, <2>2, <2>3, <2>4 DEF Existing
<1>7. Existing' = Existing
  BY <1>6 DEF Existing
<1>8. \A t \in Existing : Complete(exports[t]) /\ Complete(exports'[t])
  BY <1>0, <1>6 DEF AllComplete, Complete, Existing
<1>9. Points' = Existing
  BY <1>6, <1>8 DEF Points, Existing, Complete
<1>10. Points \subseteq Existing
  BY DEF Points, Existing, Complete
<1>11. seen' = seen \cup Existing
  BY <1>1, <1>8 DEF Existing, Complete
<1>12. DbPoints' = DbPoints
  BY <1>1 DEF DbPoints
<1>13. TypeOK'
  BY <1>1, <1>2, <1>5, <1>6, <1>11 DEF IInv, TypeOK, JobType
<1>14. Sound'
  BY <1>6, <1>7 DEF IInv, Sound
<1>15. History'
  <2>1. \A p \in seen' : \E q \in Points' : p <= q
    BY <1>0, <1>2, <1>9, <1>10, <1>11 DEF IInv, History, Stamps
  <2>2. Points' \subseteq seen' /\ \A t \in Existing' : exports'[t].linked
    BY <1>6, <1>7, <1>9, <1>11
  <2>3. \A t \in Existing' \cup seen' \cup dbSeen' : t <= clock'
    BY <1>1, <1>7, <1>11 DEF IInv, History
  <2> QED BY <2>1, <2>2, <2>3, <1>1, <1>12 DEF IInv, History
<1>16. HalfRemovedByPruneOnly'
  <2>1. \A t \in Stamps : ~(exports'[t] # None /\ ~Complete(exports'[t])) /\ dbs'[t] # "part"
    BY <1>0, <1>1, <1>6, <1>8 DEF Existing, AllComplete
  <2> QED BY <2>1 DEF HalfRemovedByPruneOnly
<1>17. Exclusive(e)' /\ Staged(e)' /\ Whole(e)'
  BY <1>0, <1>1, <1>5 DEF Exclusive, Staged, Whole
<1>18. Ahead(e)'
  BY <1>0, <1>1, <1>5, <1>7, <1>11 DEF IInv, Ahead
<1>19. Pruning(e)'
  <2>1. D \subseteq dbSeen
    BY <1>0, <1>4 DEF IInv, Whole, History
  <2>2. \A t \in D, u \in DbPoints \ D : t < u
    BY <1>0, <1>4 DEF IInv, Whole
  <2>3. ASSUME D # {} PROVE Cardinality(DbPoints \ D) >= KeepDb
    <3>1. job[e].db \ D \subseteq DbPoints \ D
      BY <1>0 DEF IInv, Whole
    <3>2. IsFiniteSet(DbPoints \ D) /\ Cardinality(DbPoints \ D) \in Nat /\ Cardinality(job[e].db \ D) \in Nat
      BY <1>2, StampsFinite
    <3>3. Cardinality(job[e].db \ D) <= Cardinality(DbPoints \ D)
      BY <3>1, <3>2, FS_Subset
    <3> QED BY <2>3, <3>2, <3>3, <1>4
  <2>4. /\ \A t \in Existing' : exports'[t].linked
        /\ dbSeen' = dbSeen /\ \A t \in Stamps : dbs'[t] # "part"
    BY <1>0, <1>1, <1>6, <1>7 DEF AllComplete
  <2> QED BY <1>0, <1>3, <1>5, <1>7, <1>9, <1>12, <2>1, <2>2, <2>3, <2>4 DEF Pruning
<1>20. \A f \in Exporters \ {e} : pc[f] = "idle" /\ lock' # f
  BY <1>0, <1>1, Alone
<1>21. IInv'
  BY <1>5, <1>13, <1>14, <1>15, <1>16, <1>17, <1>18, <1>19, <1>20, OthersIdle DEF IInv
<1> QED BY <1>9, <1>10, <1>11, <1>21

\* What is pruned next is the oldest of the chosen exports, and not the new one.
LEMMA PruneFirst ==
  ASSUME IInv, NEW e \in Exporters, pc[e] = "prune", job[e].retained # {}
  PROVE  LET t == First(job[e].retained) IN
         /\ t \in job[e].retained /\ t \in Stamps /\ exports[t] \in Dir
         /\ t # job[e].stamp /\ job[e].stamp \in Points /\ lock = e
         /\ \A u \in job[e].retained : t <= u
<1>1. job[e].retained \subseteq Stamps
  BY DEF IInv, TypeOK
<1>2. First(job[e].retained) \in job[e].retained /\ \A u \in job[e].retained : First(job[e].retained) <= u
  BY <1>1, FirstIsLeast
<1>3. job[e].stamp \in Points /\ job[e].stamp \notin job[e].retained /\ job[e].retained \subseteq Existing
  BY DEF IInv, Pruning
<1>4. exports \in [Stamps -> Dir \cup {None}] /\ lock = e
  BY Alone DEF IInv, TypeOK
<1> DEFINE t == First(job[e].retained)
<1> HIDE DEF t
<1>5. t \in job[e].retained /\ \A u \in job[e].retained : t <= u
  BY <1>2 DEF t
<1>6. exports[t] \in Dir
  BY <1>3, <1>4, <1>5 DEF Existing
<1> QED BY <1>1, <1>3, <1>4, <1>5, <1>6 DEF t

\* One unlink or rmdir of an export.  A point that goes is the oldest one, and
\* more than KeepExports were left.
LEMMA PruneExportStep ==
  ASSUME IInv, NEW e \in Exporters, PruneExport(e)
  PROVE  /\ IInv' /\ seen' = seen
         /\ \/ Points' = Points
            \/ \E t \in Points : /\ \A p \in Points : t <= p
                                 /\ Cardinality(Points) > KeepExports
                                 /\ Points' = Points \ {t}
<1> USE ExportAssumption, NoneAssumption
<1> DEFINE s == job[e].stamp
           R == job[e].retained
           t == First(R)
<1>0. /\ job \in [Exporters -> JobType] /\ pc[e] = "prune" /\ lock = e /\ R # {}
      /\ exports \in [Stamps -> Dir \cup {None}] /\ exports[t] \in Dir
      /\ t \in R /\ t \in Stamps /\ t # s /\ s \in Points /\ \A u \in R : t <= u
  BY Alone, PruneFirst DEF IInv, TypeOK, JobType, PruneExport
<1>1. UNCHANGED <<clock, dbs, remote, lock, pc, hook, faults, history>>
  BY DEF PruneExport
<1>2. /\ R \subseteq Existing /\ Existing \ R \subseteq Points
      /\ \A r \in Existing : exports[r].linked
      /\ \A r \in R, u \in Points \ R : r < u
      /\ Cardinality(Points \ R) >= KeepExports
      /\ Cardinality(Existing \ R) <= KeepExports
      /\ \A r \in Existing \cup seen : r <= s
      /\ Points \subseteq Existing /\ Existing \subseteq Stamps
      /\ \A r \in Stamps : dbs[r] # "part"
      /\ job[e].db \subseteq dbSeen
      /\ \A r \in job[e].db, u \in DbPoints \ job[e].db : r < u
      /\ job[e].db # {} => Cardinality(DbPoints \ job[e].db) >= KeepDb
  BY <1>0 DEF IInv, Pruning, Ahead, Points, Existing, Complete
<1>3. CASE \E f \in exports[t].files : exports' = [exports EXCEPT ![t].files = @ \ {f}] /\ UNCHANGED job
  <2>1. PICK f \in exports[t].files : exports' = [exports EXCEPT ![t].files = @ \ {f}]
    BY <1>3
  <2>2. /\ exports' \in [Stamps -> Dir \cup {None}] /\ exports'[t] \in Dir
        /\ \A u \in Stamps \ {t} : exports'[u] = exports[u]
        /\ exports'[t].files # Files /\ exports'[t].linked = exports[t].linked
        /\ exports'[t].synced = exports[t].synced /\ exports'[t].intact = exports[t].intact
        /\ exports'[t].blobs = exports[t].blobs
    <3> DEFINE new == [exports[t] EXCEPT !.files = exports[t].files \ {f}]
    <3>1. /\ new \in Dir /\ new.files # Files /\ new.linked = exports[t].linked
          /\ new.synced = exports[t].synced /\ new.intact = exports[t].intact
          /\ new.blobs = exports[t].blobs
      BY <1>0, <2>1 DEF Dir
    <3>2. exports' = [exports EXCEPT ![t] = new]
      BY <1>0, <2>1
    <3> HIDE DEF new, t
    <3> QED BY <1>0, <3>1, <3>2
  <2> HIDE DEF t, R, s
  <2>3. Existing' = Existing /\ DbPoints' = DbPoints
    BY <1>0, <1>1, <2>2 DEF Existing, DbPoints
  <2>4. Points' = Points \ {t}
    <3>1. t \notin Points'
      BY <2>2 DEF Points, Complete
    <3>2. \A u \in Stamps \ {t} : u \in Points' <=> u \in Points
      BY <2>2 DEF Points
    <3>3. Points' \subseteq Stamps /\ Points \subseteq Stamps
      BY DEF Points
    <3> QED BY <3>1, <3>2, <3>3
  <2>5. TypeOK'
    BY <1>1, <1>3, <2>2 DEF IInv, TypeOK, history
  <2>6. Sound'
    BY <1>0, <1>2, <2>2, <2>3 DEF IInv, Sound, Existing
  <2>7. History'
    <3>1. \A p \in seen : p <= s /\ s \in Points'
      BY <1>0, <1>2, <2>4
    <3>2. \A u \in Existing : exports'[u].linked
      BY <1>0, <1>2, <2>2 DEF Existing
    <3> QED BY <3>1, <3>2, <1>1, <2>3, <2>4 DEF IInv, History, history
  <2>8. Half(e)' = Half(e) \cup {t}
    BY <1>0, <1>1, <1>3, <2>2 DEF Half, t, R
  <2>9. HalfRemovedByPruneOnly'
    BY <1>0, <1>1, <2>2, <2>8 DEF IInv, HalfRemovedByPruneOnly, history
  <2>10. Exclusive(e)' /\ Staged(e)' /\ Whole(e)'
    BY <1>0, <1>1, <1>3 DEF IInv, Exclusive, Staged, Whole
  <2>11. Ahead(e)'
    BY <1>0, <1>1, <1>3, <2>3 DEF IInv, Ahead, history
  <2>12. Pruning(e)'
    <3>1. Points' \ R = Points \ R
      BY <1>0, <2>4
    <3>2. \A u \in Existing : exports'[u].linked
      BY <1>0, <1>2, <2>2 DEF Existing
    <3>3. s \in Points'
      BY <1>0, <2>4
    <3>4. dbs' = dbs /\ dbSeen' = dbSeen
      BY <1>1 DEF history
    <3> QED BY <1>0, <1>1, <1>3, <2>3, <2>4, <3>1, <3>2, <3>3, <3>4 DEF IInv, Pruning, R, s
  <2>13. Frame(e) /\ \A f0 \in Exporters \ {e} : pc[f0] = "idle" /\ lock' # f0
    BY <1>0, <1>1, <1>3, Alone DEF Frame
  <2>14. ASSUME t \in Points
         PROVE  (\A p \in Points : t <= p) /\ Cardinality(Points) > KeepExports
    <3>1. ASSUME NEW p \in Points PROVE t <= p
      <4>0. p \in Stamps /\ t \in Stamps
        BY <1>0, <1>2
      <4>1. p \in Int /\ t \in Int
        BY <4>0 DEF Stamps
      <4>2. p \in R => t <= p
        BY <1>0
      <4>3. p \notin R => t < p
        BY <1>0, <1>2
      <4> QED BY <4>1, <4>2, <4>3
    <3> DEFINE P == Points \ R
    <3>2. IsFiniteSet(P) /\ Cardinality(P) \in Nat /\ IsFiniteSet(Points) /\ Cardinality(Points) \in Nat
      BY <1>2, StampsFinite
    <3>3. Cardinality(P \cup {t}) = Cardinality(P) + 1
      BY <1>0, <3>2, FS_AddElement
    <3>4. Cardinality(P \cup {t}) <= Cardinality(Points)
      BY <2>14, <3>2, FS_Subset
    <3>5. Cardinality(P) >= KeepExports
      BY <1>2
    <3> HIDE DEF P
    <3> QED BY <3>1, <3>2, <3>3, <3>4, <3>5
  <2>15. IInv'
    BY <2>5, <2>6, <2>7, <2>9, <2>10, <2>11, <2>12, <2>13, OthersIdle DEF IInv
  <2> QED BY <1>1, <2>4, <2>14, <2>15 DEF history
<1>4. CASE /\ exports[t].files = {} /\ exports' = [exports EXCEPT ![t] = None]
           /\ job' = [job EXCEPT ![e].retained = @ \ {t}]
  <2>1. /\ exports' \in [Stamps -> Dir \cup {None}] /\ exports'[t] = None
        /\ \A u \in Stamps \ {t} : exports'[u] = exports[u]
    BY <1>0, <1>4
  <2>2. /\ job' \in [Exporters -> JobType] /\ Frame(e)
        /\ job'[e].stamp = s /\ job'[e].out = job[e].out
        /\ job'[e].retained = R \ {t} /\ job'[e].db = job[e].db /\ pc'[e] = "prune"
    BY <1>0, <1>1, <1>4 DEF JobType, Frame
  <2> HIDE DEF t, R, s
  <2>3. Existing' = Existing \ {t} /\ DbPoints' = DbPoints
    BY <1>0, <1>1, <2>1 DEF Existing, DbPoints
  <2>4. t \notin Points /\ Points' = Points
    <3>1. t \notin Points /\ t \notin Points'
      BY <1>4, <2>1 DEF Points, Complete, Files
    <3>2. \A u \in Stamps \ {t} : u \in Points' <=> u \in Points
      BY <2>1 DEF Points
    <3>3. Points' \subseteq Stamps /\ Points \subseteq Stamps
      BY DEF Points
    <3> QED BY <3>1, <3>2, <3>3
  <2>5. TypeOK'
    BY <1>1, <2>1, <2>2 DEF IInv, TypeOK, JobType, history
  <2>6. Sound'
    BY <1>0, <1>2, <2>1, <2>3 DEF IInv, Sound
  <2>7. History'
    BY <1>1, <1>2, <2>1, <2>3, <2>4 DEF IInv, History, history
  <2>8. \A u \in Half(e) \ {t} : u \in Half(e)'
    BY <1>1, <2>2 DEF Half, t, R
  <2>9. \A u \in Stamps \ {t} : dbs[u] = "part" \/ (exports[u] # None /\ ~Complete(exports[u]))
           => u \in broken \/ u \in Half(e)'
    BY <1>0, <2>8 DEF IInv, HalfRemovedByPruneOnly
  <2>10. dbs[t] = "part" => t \in broken \/ t \in Half(e)'
    BY <1>0, <1>2
  <2>11. HalfRemovedByPruneOnly'
    BY <1>0, <1>1, <2>1, <2>9, <2>10 DEF HalfRemovedByPruneOnly, history
  <2>12. Exclusive(e)' /\ Staged(e)' /\ Whole(e)'
    BY <1>0, <1>1, <2>2 DEF Exclusive, Staged, Whole
  <2>13. Ahead(e)'
    BY <1>0, <1>1, <2>2, <2>3 DEF IInv, Ahead, history, s
  <2>14. Pruning(e)'
    <3>1. Points \ (R \ {t}) = Points \ R /\ Existing' \ (R \ {t}) = Existing \ R
      BY <1>0, <1>2, <2>3, <2>4
    <3>2. \A u \in Existing' : exports'[u].linked
      BY <1>2, <2>1, <2>3
    <3>3. R \ {t} \subseteq Existing' /\ Existing' \ (R \ {t}) \subseteq Points'
      BY <1>2, <2>3, <2>4
    <3>4. dbs' = dbs /\ dbSeen' = dbSeen
      BY <1>1 DEF history
    <3>5. s \notin R
      BY <1>0 DEF IInv, Pruning, s, R
    <3> DEFINE P == Points \ R
               X == Existing \ R
    <3>6. Points' \ (R \ {t}) = P /\ Existing' \ (R \ {t}) = X
      BY <3>1, <2>4
    <3>7. /\ \A r \in R, u \in P : r < u
          /\ Cardinality(P) >= KeepExports /\ Cardinality(X) <= KeepExports
      BY <1>2
    <3> HIDE DEF P, X
    <3> QED BY <1>0, <1>2, <2>2, <2>3, <2>4, <3>2, <3>3, <3>4, <3>5, <3>6, <3>7 DEF Pruning
  <2>15. \A f \in Exporters \ {e} : pc[f] = "idle" /\ lock' # f
    BY <1>0, <1>1, Alone
  <2>16. IInv'
    BY <2>2, <2>5, <2>6, <2>7, <2>11, <2>12, <2>13, <2>14, <2>15, OthersIdle DEF IInv
  <2> QED BY <1>1, <2>4, <2>16 DEF history
<1> QED BY <1>3, <1>4 DEF PruneExport

\* One step of the removal of a database archive.  A point that goes is the
\* oldest one, and more than KeepDb were left.
LEMMA PruneDbStep ==
  ASSUME IInv, NEW e \in Exporters, PruneDb(e)
  PROVE  /\ IInv' /\ dbSeen' = dbSeen
         /\ \/ DbPoints' = DbPoints
            \/ \E t \in DbPoints : /\ \A p \in DbPoints : t <= p
                                   /\ Cardinality(DbPoints) > KeepDb
                                   /\ DbPoints' = DbPoints \ {t}
<1> USE ExportAssumption, NoneAssumption
<1> DEFINE s == job[e].stamp
           D == job[e].db
           t == First(D)
<1>0. /\ job \in [Exporters -> JobType] /\ pc[e] = "prune" /\ lock = e /\ D # {}
      /\ job[e].retained = {} /\ D \subseteq Stamps
      /\ dbs \in [Stamps -> {"none", "complete", "part"}]
  BY Alone DEF IInv, TypeOK, JobType, PruneDb
<1>1. UNCHANGED <<clock, exports, remote, lock, pc, hook, faults, history>>
  BY DEF PruneDb
<1>2. t \in D /\ t \in Stamps /\ \A u \in D : t <= u
  BY <1>0, FirstIsLeast
<1>3. /\ s \in Points /\ s \notin job[e].retained
      /\ Existing \ job[e].retained \subseteq Points
      /\ \A r \in Existing : exports[r].linked
      /\ Cardinality(Existing \ job[e].retained) <= KeepExports
      /\ D \subseteq dbSeen
      /\ \A r \in D, u \in DbPoints \ D : r < u
      /\ Cardinality(DbPoints \ D) >= KeepDb
      /\ DbPoints \subseteq Stamps
  BY <1>0 DEF IInv, Pruning, DbPoints
<1>4. /\ Points' = Points /\ Existing' = Existing
      /\ exports' = exports /\ seen' = seen /\ dbSeen' = dbSeen /\ broken' = broken
      /\ clock' = clock /\ hook' = hook /\ lock' = lock /\ pc' = pc
  BY <1>1 DEF Points, Existing, history
<1>5. ASSUME NEW D2, D2 \subseteq D, t \in D \ D2 \/ D2 = D,
             /\ job' \in [Exporters -> JobType] /\ Frame(e)
             /\ job'[e].stamp = s /\ job'[e].out = job[e].out
             /\ job'[e].retained = {} /\ job'[e].db = D2,
             dbs' \in [Stamps -> {"none", "complete", "part"}],
             \A u \in Stamps \ {t} : dbs'[u] = dbs[u],
             dbs'[t] # "complete", dbs'[t] = "part" => t \in D2,
             D2 = D \/ D2 = D \ {t}
      PROVE  IInv' /\ DbPoints' = DbPoints \ {t}
  <2> HIDE DEF t, D, s
  <2>1. DbPoints' = DbPoints \ {t}
    <3>1. t \notin DbPoints' /\ DbPoints' \subseteq Stamps
      BY <1>5 DEF DbPoints
    <3>2. \A u \in Stamps \ {t} : u \in DbPoints' <=> u \in DbPoints
      BY <1>5 DEF DbPoints
    <3> QED BY <1>3, <3>1, <3>2
  <2>2. TypeOK'
    BY <1>1, <1>5 DEF IInv, TypeOK, JobType, history
  <2>3. Sound'
    BY <1>4 DEF IInv, Sound
  <2>4. History'
    BY <1>4, <2>1 DEF IInv, History
  <2>5. \A u \in Half(e) \ {t} : u \in Half(e)'
    <3>1. Half(e) = {u \in D : dbs[u] = "part"}
      BY <1>0 DEF Half, D
    <3>2. Half(e)' = {u \in D2 : dbs'[u] = "part"}
      BY <1>5 DEF Half
    <3> QED BY <1>0, <1>5, <3>1, <3>2
  <2>6. dbs'[t] = "part" => t \in Half(e)'
    BY <1>5 DEF Half
  <2>7. HalfRemovedByPruneOnly'
    <3> SUFFICES ASSUME NEW u \in Stamps,
                        (exports[u] # None /\ ~Complete(exports[u])) \/ dbs'[u] = "part"
                 PROVE  u \in broken \/ u \in Half(e)'
      BY <1>0, <1>4 DEF HalfRemovedByPruneOnly
    <3>1. CASE u # t
      <4>1. u \in broken \/ u \in Half(e)
        BY <1>0, <1>5, <3>1 DEF IInv, HalfRemovedByPruneOnly
      <4> QED BY <4>1, <3>1, <2>5
    <3>2. CASE u = t /\ dbs'[t] = "part"
      BY <3>2, <2>6
    <3>3. CASE u = t /\ (exports[t] # None /\ ~Complete(exports[t]))
      BY <1>0, <1>2, <1>3, <3>3 DEF Existing, Points
    <3> QED BY <3>1, <3>2, <3>3
  <2>8. Exclusive(e)' /\ Staged(e)' /\ Whole(e)'
    BY <1>0, <1>4, <1>5 DEF Exclusive, Staged, Whole
  <2>9. Ahead(e)'
    BY <1>0, <1>4, <1>5 DEF IInv, Ahead, s
  <2>10. Pruning(e)'
    <3> DEFINE A == DbPoints \ D
    <3>1. DbPoints' \ D2 = A
      BY <1>2, <1>5, <2>1
    <3>2. \A r \in D, u \in A : r < u
      BY <1>3
    <3>3. Cardinality(A) >= KeepDb
      BY <1>3
    <3> HIDE DEF A
    <3> QED BY <1>0, <1>3, <1>4, <1>5, <3>1, <3>2, <3>3 DEF Pruning
  <2>11. \A f \in Exporters \ {e} : pc[f] = "idle" /\ lock' # f
    BY <1>0, <1>4, Alone
  <2>12. IInv'
    BY <1>5, <2>2, <2>3, <2>4, <2>7, <2>8, <2>9, <2>10, <2>11, OthersIdle DEF IInv
  <2> QED BY <2>1, <2>12
<1>6. CASE dbs[t] = "complete"
  <2>1. dbs' = [dbs EXCEPT ![t] = "part"] /\ job' = job
    BY <1>6 DEF PruneDb
  <2>2. Frame(e) /\ job'[e].retained = {} /\ job'[e].db = D
    BY <1>0, <1>1, <2>1 DEF Frame
  <2>3. /\ dbs' \in [Stamps -> {"none", "complete", "part"}] /\ dbs'[t] = "part"
        /\ \A u \in Stamps \ {t} : dbs'[u] = dbs[u]
    BY <1>0, <1>2, <2>1
  <2> HIDE DEF t, D
  <2>4. IInv' /\ DbPoints' = DbPoints \ {t}
    BY <1>0, <1>2, <1>5, <2>1, <2>2, <2>3
  <2>5. t \in DbPoints
    BY <1>2, <1>6 DEF DbPoints
  <2>6. ASSUME NEW p \in DbPoints PROVE t <= p
    <3>1. p \in Int /\ t \in Int
      BY <1>2, <1>3 DEF Stamps
    <3>2. p \in D => t <= p
      BY <1>2
    <3>3. p \notin D => t < p
      BY <1>2, <1>3
    <3> QED BY <3>1, <3>2, <3>3
  <2>7. Cardinality(DbPoints) > KeepDb
    <3> DEFINE A == DbPoints \ D
    <3>1. IsFiniteSet(A) /\ Cardinality(A) \in Nat /\ IsFiniteSet(DbPoints) /\ Cardinality(DbPoints) \in Nat
      BY <1>3, StampsFinite
    <3>2. Cardinality(A \cup {t}) = Cardinality(A) + 1
      BY <1>2, <3>1, FS_AddElement
    <3>3. Cardinality(A \cup {t}) <= Cardinality(DbPoints)
      BY <2>5, <3>1, FS_Subset
    <3>4. Cardinality(A) >= KeepDb
      BY <1>3
    <3> HIDE DEF A
    <3> QED BY <3>1, <3>2, <3>3, <3>4
  <2> QED BY <1>4, <2>4, <2>5, <2>6, <2>7
<1>7. CASE dbs[t] # "complete"
  <2>1. dbs' = [dbs EXCEPT ![t] = "none"] /\ job' = [job EXCEPT ![e].db = D \ {t}]
    BY <1>7 DEF PruneDb
  <2>2. /\ job' \in [Exporters -> JobType] /\ Frame(e)
        /\ job'[e].stamp = s /\ job'[e].out = job[e].out
        /\ job'[e].retained = {} /\ job'[e].db = D \ {t}
    BY <1>0, <1>1, <2>1 DEF JobType, Frame
  <2>3. /\ dbs' \in [Stamps -> {"none", "complete", "part"}] /\ dbs'[t] = "none"
        /\ \A u \in Stamps \ {t} : dbs'[u] = dbs[u]
    BY <1>0, <1>2, <2>1
  <2> HIDE DEF t, D
  <2>4. IInv' /\ DbPoints' = DbPoints \ {t}
    BY <1>0, <1>2, <1>5, <2>1, <2>2, <2>3
  <2>5. t \notin DbPoints
    BY <1>7 DEF DbPoints
  <2> QED BY <1>4, <2>4, <2>5
<1> QED BY <1>6, <1>7

\* The run comes to its end: everything chosen is gone.
LEMMA CleanupStep ==
  ASSUME IInv, NEW e \in Exporters, Cleanup(e)
  PROVE  IInv'
<1> USE ExportAssumption, NoneAssumption
<1>0. /\ job \in [Exporters -> JobType] /\ pc[e] = "prune" /\ lock = e
      /\ job[e].retained = {} /\ job[e].db = {} /\ Leave(e)
      /\ UNCHANGED <<clock, exports, dbs, hook, faults, history>>
      /\ remote' \subseteq remote
  BY Alone DEF IInv, TypeOK, JobType, Cleanup
<1>1. job' \in [Exporters -> JobType]
  BY <1>0, NoJobType DEF Leave
<1>2. TypeOK'
  BY <1>0, <1>1 DEF IInv, TypeOK, JobType, Leave, history
<1>3. Sound' /\ History'
  BY <1>0 DEF IInv, Sound, History, Existing, Points, DbPoints, history
<1>4. Half(e) = {}
  BY <1>0 DEF Half
<1>5. HalfRemovedByPruneOnly'
  BY <1>0, <1>4 DEF IInv, HalfRemovedByPruneOnly, history
<1> QED BY <1>0, <1>2, <1>3, <1>5, LeaveStep

\* An exception ends the run wherever it is; what is half removed is broken.
LEMMA RaiseStep ==
  ASSUME IInv, NEW e \in Exporters, Raise(e)
  PROVE  IInv'
<1> USE ExportAssumption, NoneAssumption
<1>0. /\ job \in [Exporters -> JobType] /\ pc[e] # "idle" /\ lock = e /\ Leave(e)
      /\ faults < MaxFaults /\ faults' = faults + 1 /\ broken' = broken \cup Half(e)
      /\ UNCHANGED <<clock, exports, dbs, remote, hook, seen, dbSeen>>
  BY Alone DEF IInv, TypeOK, JobType, Raise
<1>1. job' \in [Exporters -> JobType]
  BY <1>0, NoJobType DEF Leave
<1>2. Half(e) \subseteq Stamps
  <2>1. job[e].retained \subseteq Stamps /\ job[e].db \subseteq Stamps
    BY <1>0 DEF JobType
  <2>2. job[e].retained # {} => First(job[e].retained) \in Stamps
    BY <2>1, FirstIsLeast
  <2> QED BY <2>1, <2>2 DEF Half
<1>3. TypeOK'
  BY <1>0, <1>1, <1>2 DEF IInv, TypeOK, JobType, Leave
<1>4. Sound' /\ History'
  BY <1>0 DEF IInv, Sound, History, Existing, Points, DbPoints
<1>5. HalfRemovedByPruneOnly'
  BY <1>0 DEF IInv, HalfRemovedByPruneOnly
<1> QED BY <1>0, <1>3, <1>4, <1>5, LeaveStep

\* The node is lost: only names that were never durable go, and what stays was
\* synced before it was named.
LEMMA LoseStep ==
  ASSUME IInv, NEW e \in Exporters, Lose(e)
  PROVE  IInv' /\ Points' = Points
<1> USE ExportAssumption, NoneAssumption
<1>0. PICK gone \in SUBSET {t \in Stamps : exports[t] # None /\ ~exports[t].linked} :
      /\ pc[e] # "idle" /\ faults < MaxFaults /\ faults' = faults + 1
      /\ exports' = [t \in Stamps |-> IF t \in gone \/ exports[t] = None THEN None
                      ELSE [exports[t] EXCEPT !.intact = @ /\ exports[t].synced]]
      /\ broken' = broken \cup Half(e) /\ Leave(e)
      /\ UNCHANGED <<clock, dbs, remote, hook, seen, dbSeen>>
  BY DEF Lose
<1>1. /\ job' \in [Exporters -> JobType] /\ job \in [Exporters -> JobType] /\ lock = e
      /\ exports \in [Stamps -> Dir \cup {None}]
  BY <1>0, NoJobType, Alone DEF IInv, TypeOK, JobType, Leave
<1>2. Half(e) \subseteq Stamps
  <2>1. job[e].retained \subseteq Stamps /\ job[e].db \subseteq Stamps
    BY <1>1 DEF JobType
  <2>2. job[e].retained # {} => First(job[e].retained) \in Stamps
    BY <2>1, FirstIsLeast
  <2> QED BY <2>1, <2>2 DEF Half
<1>3. \A t \in Stamps : exports[t] = None \/ t \in gone => exports'[t] = None
  BY <1>0
<1>4. ASSUME NEW t \in Stamps, exports[t] # None, t \notin gone
      PROVE  exports'[t] = exports[t] /\ exports[t] \in Dir
  <2>1. exports[t] \in Dir /\ exports[t].intact /\ exports[t].synced
    BY <1>1, <1>4 DEF IInv, Sound, Existing
  <2>2. exports'[t] = [exports[t] EXCEPT !.intact = exports[t].intact /\ exports[t].synced]
    BY <1>0, <1>4
  <2>3. (exports[t].intact /\ exports[t].synced) = exports[t].intact
    BY <2>1
  <2> QED BY <2>1, <2>2, <2>3 DEF Dir
<1>5. exports' \in [Stamps -> Dir \cup {None}] /\ Existing' = Existing \ gone
  <2>1. exports' = [t \in Stamps |-> exports'[t]]
    BY <1>0
  <2>2. \A t \in Stamps : exports'[t] \in Dir \cup {None}
    BY <1>3, <1>4
  <2> QED BY <2>1, <2>2, <1>3, <1>4 DEF Existing
<1>6. Points' = Points /\ DbPoints' = DbPoints
  <2>1. \A t \in Stamps : t \in Points' <=> t \in Points
    <3> SUFFICES ASSUME NEW t \in Stamps PROVE t \in Points' <=> t \in Points
      OBVIOUS
    <3>1. CASE exports[t] = None \/ t \in gone
      BY <3>1, <1>0, <1>3 DEF Points, Complete
    <3>2. CASE exports[t] # None /\ t \notin gone
      BY <3>2, <1>4 DEF Points, Complete
    <3> QED BY <3>1, <3>2
  <2>2. Points' \subseteq Stamps /\ Points \subseteq Stamps
    BY DEF Points
  <2> QED BY <1>0, <2>1, <2>2 DEF DbPoints
<1>7. TypeOK'
  BY <1>0, <1>1, <1>2, <1>5 DEF IInv, TypeOK, JobType, Leave
<1>8. \A t \in Existing' : t \in Existing /\ exports'[t] = exports[t]
  BY <1>4, <1>5 DEF Existing
<1>9. Sound' /\ History'
  BY <1>0, <1>6, <1>8 DEF IInv, Sound, History
<1>10. HalfRemovedByPruneOnly'
  <2> SUFFICES ASSUME NEW t \in Stamps,
                      (exports'[t] # None /\ ~Complete(exports'[t])) \/ dbs'[t] = "part"
               PROVE  t \in broken'
    BY DEF HalfRemovedByPruneOnly
  <2>1. (exports[t] # None /\ ~Complete(exports[t])) \/ dbs[t] = "part"
    BY <1>0, <1>3, <1>4
  <2>2. t \in broken \/ t \in Half(e)
    BY <2>1, <1>1 DEF IInv, HalfRemovedByPruneOnly
  <2> QED BY <2>2, <1>0
<1> QED BY <1>0, <1>6, <1>7, <1>9, <1>10, LeaveStep

\* The hook's stage has a stamp that is newer than any archive.
LEMMA HookStageStep ==
  ASSUME IInv, HookStage
  PROVE  IInv'
<1> USE ExportAssumption, NoneAssumption
<1>0. /\ hook' = clock + 1 /\ clock' = clock + 1 /\ clock < MaxTime
      /\ UNCHANGED <<exports, dbs, remote, lock, pc, job, faults, history>>
  BY DEF HookStage
<1>1. /\ Existing' = Existing /\ Points' = Points /\ DbPoints' = DbPoints
      /\ AllComplete' = AllComplete /\ \A e : Half(e)' = Half(e)
  BY <1>0 DEF Existing, Points, DbPoints, AllComplete, Half
<1>2. TypeOK'
  BY <1>0 DEF IInv, TypeOK, history, Stamps
<1>3. clock \in Nat /\ clock + 1 \in Stamps /\ \A t \in Existing \cup seen \cup dbSeen : t \in Nat
  <2>1. clock \in 0 .. MaxTime /\ Existing \cup seen \cup dbSeen \subseteq Stamps
    BY DEF IInv, TypeOK, Existing
  <2>2. clock \in Nat /\ clock + 1 \in Stamps /\ \A t \in Stamps : t \in Nat
    BY <1>0, <2>1 DEF Stamps
  <2> QED BY <2>1, <2>2
<1>4. Sound'
  BY <1>0, <1>1 DEF IInv, Sound
<1>5. History'
  <2>1. \A t \in Existing \cup seen \cup dbSeen : t <= clock
    BY DEF IInv, History
  <2>2. \A t \in Existing \cup seen \cup dbSeen : t < clock + 1 /\ t <= clock + 1
    BY <1>3, <2>1
  <2> QED BY <1>0, <1>1, <1>3, <2>2 DEF IInv, History, history
<1>6. HalfRemovedByPruneOnly'
  BY <1>0, <1>1 DEF IInv, HalfRemovedByPruneOnly, history
<1>7. ASSUME NEW e \in Exporters
      PROVE  (Exclusive(e) /\ Ahead(e) /\ Staged(e) /\ Whole(e) /\ Pruning(e))'
  <2>1. Exclusive(e)' /\ Staged(e)' /\ Whole(e)' /\ Pruning(e)'
    BY <1>0, <1>1 DEF IInv, Exclusive, Staged, Whole, Pruning, history
  <2>2. Ahead(e)'
    BY <1>0, <1>1, <1>3 DEF IInv, Ahead, history, Stamps
  <2> QED BY <2>1, <2>2
<1> QED BY <1>2, <1>4, <1>5, <1>6, <1>7 DEF IInv

\* The hook publishes beside a running export: its archive is newer than all
\* the others and is not among those the run prunes.
LEMMA HookPublishStep ==
  ASSUME IInv, HookPublish
  PROVE  /\ IInv' /\ hook \in Stamps /\ dbSeen' = dbSeen \cup {hook} /\ \A p \in dbSeen : p < hook
         /\ DbPoints' = DbPoints \cup {hook}
<1> USE ExportAssumption, NoneAssumption
<1>0. /\ hook \in Stamps /\ hook' = None /\ dbSeen' = dbSeen \cup {hook}
      /\ hook <= clock /\ \A p \in dbSeen : p < hook
      /\ dbs' = [dbs EXCEPT ![hook] = "complete"]
      /\ dbs \in [Stamps -> {"none", "complete", "part"}]
      /\ UNCHANGED <<clock, exports, remote, lock, pc, job, faults, seen, broken>>
  BY DEF HookPublish, IInv, History, TypeOK
<1>1. Existing' = Existing /\ Points' = Points
  BY <1>0 DEF Existing, Points
<1>2. dbs' \in [Stamps -> {"none", "complete", "part"}] /\ dbs'[hook] = "complete"
      /\ \A t \in Stamps \ {hook} : dbs'[t] = dbs[t]
  BY <1>0
<1>3. DbPoints' = DbPoints \cup {hook}
  BY <1>0, <1>2 DEF DbPoints
<1>4. hook \notin dbSeen /\ hook \notin DbPoints /\ dbSeen \subseteq Stamps /\ hook \in Nat
  BY <1>0 DEF IInv, TypeOK, History, Stamps
<1>5. TypeOK'
  BY <1>0, <1>2, <1>4 DEF IInv, TypeOK
<1>6. Sound' /\ History'
  BY <1>0, <1>1, <1>3 DEF IInv, Sound, History
<1>8. \A e \in Exporters : pc[e] # "idle" => hook \notin job[e].db
  BY <1>4 DEF IInv, Exclusive, Whole, Pruning, History, TypeOK
<1>9. HalfRemovedByPruneOnly'
  <2> SUFFICES ASSUME NEW t \in Stamps,
                      (exports[t] # None /\ ~Complete(exports[t])) \/ dbs'[t] = "part"
               PROVE  t \in broken \/ \E e \in Exporters : lock = e /\ t \in Half(e)'
    BY <1>0 DEF HalfRemovedByPruneOnly
  <2>1. t \in broken \/ \E e \in Exporters : lock = e /\ t \in Half(e)
    BY <1>2 DEF IInv, HalfRemovedByPruneOnly
  <2>2. ASSUME NEW e \in Exporters, lock = e, t \in Half(e) PROVE t \in Half(e)'
    <3>1. hook \notin job[e].db
      BY <2>2, <1>8 DEF IInv, Exclusive
    <3>2. job[e].db \subseteq Stamps
      BY DEF IInv, TypeOK
    <3> QED BY <2>2, <3>1, <3>2, <1>0, <1>2 DEF Half
  <2> QED BY <2>1, <2>2
<1>10. ASSUME NEW e \in Exporters
       PROVE  (Exclusive(e) /\ Ahead(e) /\ Staged(e) /\ Whole(e) /\ Pruning(e))'
  <2>1. Exclusive(e)' /\ Staged(e)' /\ Ahead(e)'
    BY <1>0, <1>1 DEF IInv, Exclusive, Staged, Ahead
  <2>2. Whole(e)'
    <3> SUFFICES ASSUME pc[e] \in {"copy", "sync", "rename", "publish"}
                 PROVE  /\ AllComplete' /\ job[e].db \subseteq DbPoints'
                        /\ \A t \in job[e].db, u \in DbPoints' \ job[e].db : t < u
      BY <1>0 DEF Whole
    <3>1. /\ AllComplete /\ job[e].db \subseteq DbPoints
          /\ \A t \in job[e].db, u \in DbPoints \ job[e].db : t < u
      BY DEF IInv, Whole
    <3>2. AllComplete'
      BY <1>0, <1>2, <3>1 DEF AllComplete
    <3>3. \A t \in job[e].db : t < hook
      BY <1>0, <3>1 DEF IInv, History
    <3> QED BY <1>3, <3>1, <3>2, <3>3
  <2>3. Pruning(e)'
    <3> SUFFICES ASSUME pc[e] = "prune" PROVE Pruning(e)'
      BY <1>0 DEF Pruning
    <3> DEFINE D == job[e].db
               A == DbPoints \ D
               B == DbPoints' \ D
    <3>1. /\ D \subseteq dbSeen
          /\ \A t \in D, u \in A : t < u
          /\ D # {} => Cardinality(A) >= KeepDb
          /\ job[e].retained # {} => \A t \in Stamps : dbs[t] # "part"
      BY DEF IInv, Pruning
    <3>2. \A t \in D, u \in B : t < u
      BY <1>0, <1>3, <3>1
    <3>3. D # {} => Cardinality(B) >= KeepDb
      <4>1. A \subseteq B /\ B \subseteq Stamps
        BY <1>0, <1>3 DEF DbPoints
      <4>2. IsFiniteSet(B) /\ Cardinality(B) \in Nat /\ Cardinality(A) \in Nat
        BY <4>1, StampsFinite
      <4>3. Cardinality(A) <= Cardinality(B)
        BY <4>1, <4>2, FS_Subset
      <4> HIDE DEF A, B, D
      <4> QED BY <4>2, <4>3, <3>1
    <3>4. job[e].retained # {} => \A t \in Stamps : dbs'[t] # "part"
      BY <1>2, <3>1
    <3> HIDE DEF A
    <3> QED BY <1>0, <1>1, <3>1, <3>2, <3>3, <3>4 DEF IInv, Pruning
  <2> QED BY <2>1, <2>2, <2>3
<1> QED BY <1>0, <1>3, <1>5, <1>6, <1>9, <1>10 DEF IInv

\* Nothing that the invariant reads changes.
LEMMA StutterStep ==
  ASSUME IInv, UNCHANGED <<clock, exports, dbs, remote, lock, pc, job, faults, history>>,
         hook' = None \/ hook' = hook
  PROVE  IInv'
<1>1. Existing' = Existing /\ Points' = Points /\ DbPoints' = DbPoints
      /\ AllComplete' = AllComplete /\ \A e : Half(e)' = Half(e)
  BY DEF Existing, Points, DbPoints, AllComplete, Half
<1>2. TypeOK'
  BY DEF IInv, TypeOK, history
<1>3. Sound' /\ History' /\ HalfRemovedByPruneOnly'
  BY <1>1 DEF IInv, Sound, History, HalfRemovedByPruneOnly, history
<1>4. \A e \in Exporters : (Exclusive(e) /\ Ahead(e) /\ Staged(e) /\ Whole(e) /\ Pruning(e))'
  BY <1>1 DEF IInv, Exclusive, Ahead, Staged, Whole, Pruning, history
<1> QED BY <1>2, <1>3, <1>4 DEF IInv

\* The hook gives up and removes its stage.
LEMMA HookFailStep ==
  ASSUME IInv, HookFail
  PROVE  IInv'
BY StutterStep DEF HookFail

\* Every step keeps the invariant.
LEMMA Inductive == IInv /\ [Next]_vars => IInv'
<1> SUFFICES ASSUME IInv, [Next]_vars PROVE IInv'
  OBVIOUS
<1>1. ASSUME NEW e \in Exporters,
             Start(e) \/ Produce(e) \/ Inspect(e) \/ Copy(e) \/ Sync(e) \/ Rename(e)
      PROVE  IInv'
  BY <1>1, StartStep, ProduceStep, InspectStep, StageStep, RenameStep
<1>2. ASSUME NEW e \in Exporters,
             Publish(e) \/ PruneExport(e) \/ PruneDb(e) \/ Cleanup(e) \/ Raise(e) \/ Lose(e)
      PROVE  IInv'
  BY <1>2, PublishStep, PruneExportStep, PruneDbStep, CleanupStep, RaiseStep, LoseStep
<1>3. CASE HookStage \/ HookPublish \/ HookFail
  BY <1>3, HookStageStep, HookPublishStep, HookFailStep
<1>4. CASE UNCHANGED vars
  BY <1>4, StutterStep DEF vars, history
<1> QED BY <1>1, <1>2, <1>3, <1>4 DEF Next

\* The invariant holds in every reachable state.
THEOREM Invariance == Spec => []IInv
BY InitInv, Inductive, PTL DEF Spec

-----------------------------------------------------------------------------
(* The properties *)

\* The state is well typed, for any number of Jobs, stamps and faults.
THEOREM TypeCorrect == Spec => []TypeOK
<1>1. IInv => TypeOK
  BY DEF IInv
<1> QED BY Invariance, <1>1, PTL

\* What is complete under a completed name can be restored from.
THEOREM Restorable == Spec => []ExportsRestorable
<1>1. IInv => ExportsRestorable
  BY DEF IInv, Sound, Existing, ExportsRestorable, Complete
<1> QED BY Invariance, <1>1, PTL

\* Only pruning leaves a completed name without its contents.
THEOREM OnlyPruneHalves == Spec => []HalfRemovedByPruneOnly
<1>1. IInv => HalfRemovedByPruneOnly
  BY DEF IInv
<1> QED BY Invariance, <1>1, PTL

\* Any step that is not part of the pruning keeps every point and every remote
\* archive; in a pruning step the run's own export is a durable point.
LEMMA Kept ==
  ASSUME IInv, Next
  PROVE  \/ Points \subseteq Points' /\ DbPoints \subseteq DbPoints' /\ remote \subseteq remote'
         \/ \E e \in Exporters : lock = e /\ job[e].stamp \in Points
<1>1. ASSUME NEW e \in Exporters, PruneExport(e) \/ PruneDb(e) \/ Cleanup(e)
      PROVE  lock = e /\ job[e].stamp \in Points
  <2>1. pc[e] = "prune"
    BY <1>1 DEF PruneExport, PruneDb, Cleanup
  <2> QED BY <2>1, Alone DEF IInv, Pruning
<1>2. ASSUME NEW e \in Exporters,
             Start(e) \/ Produce(e) \/ Inspect(e) \/ Copy(e) \/ Sync(e) \/ Raise(e)
      PROVE  Points' = Points /\ DbPoints' = DbPoints /\ remote \subseteq remote'
  <2>1. exports' = exports /\ dbs' = dbs /\ remote \subseteq remote'
    BY <1>2 DEF Start, Produce, Inspect, Copy, Sync, Raise
  <2> QED BY <2>1 DEF Points, DbPoints
<1>3. ASSUME NEW e \in Exporters, Rename(e) \/ Publish(e) \/ Lose(e)
      PROVE  Points \subseteq Points' /\ DbPoints' = DbPoints /\ remote' = remote
  <2>1. dbs' = dbs /\ remote' = remote
    BY <1>3 DEF Rename, Publish, Lose
  <2>2. Points \subseteq Points'
    BY <1>3, RenameStep, PublishStep, LoseStep
  <2> QED BY <2>1, <2>2 DEF DbPoints
<1>4. CASE HookStage \/ HookFail
  BY <1>4 DEF HookStage, HookFail, Points, DbPoints
<1>5. CASE HookPublish
  <2>1. DbPoints' = DbPoints \cup {hook}
    BY <1>5, HookPublishStep
  <2> QED BY <1>5, <2>1 DEF HookPublish, Points
<1> QED BY <1>1, <1>2, <1>3, <1>4, <1>5 DEF Next

\* Nothing published goes before the run's own export is durable.
THEOREM GoodPointFirst == Spec => RemovalAfterGoodPoint
<1> DEFINE A == (\/ ~(Points \subseteq Points') \/ ~(DbPoints \subseteq DbPoints')
                 \/ ~(remote \subseteq remote'))
                => \E e \in Exporters : lock = e /\ job[e].stamp \in Points
<1>1. IInv /\ [Next]_vars => [A]_vars
  BY Kept
<1>2. Spec => [][A]_vars
  BY Invariance, <1>1, PTL DEF Spec
<1> QED BY <1>2 DEF RemovalAfterGoodPoint

\* A run that reaches its end leaves no more than KeepExports exports.
THEOREM EndTrims == Spec => SuccessTrims
<1> DEFINE A == \A e \in Exporters : pc[e] = "prune" /\ pc'[e] = "idle" /\ faults' = faults
                  => Cardinality({t \in Stamps : exports'[t] # None}) <= KeepExports
<1>1. IInv /\ [Next]_vars => [A]_vars
  <2> SUFFICES ASSUME IInv, Next, NEW e \in Exporters,
                      pc[e] = "prune", pc'[e] = "idle", faults' = faults
               PROVE  Cardinality({t \in Stamps : exports'[t] # None}) <= KeepExports
    OBVIOUS
  <2>0. pc = [f \in Exporters |-> pc[f]] /\ faults \in Nat
    BY ExportAssumption DEF IInv, TypeOK
  <2>1. Cleanup(e)
    <3>1. ASSUME NEW f \in Exporters, Raise(f) \/ Lose(f) PROVE FALSE
      BY <3>1, <2>0 DEF Raise, Lose
    <3>2. ASSUME NEW f \in Exporters, Start(f) \/ Copy(f) \/ Sync(f) \/ Rename(f) \/ Publish(f) PROVE FALSE
      BY <3>2, <2>0 DEF Start, Copy, Sync, Rename, Publish, Goto
    <3>3. ASSUME NEW f \in Exporters, Produce(f) \/ Inspect(f) PROVE FALSE
      BY <3>3, <2>0 DEF Produce, Inspect, Leave
    <3>4. ASSUME NEW f \in Exporters, PruneExport(f) \/ PruneDb(f) PROVE FALSE
      BY <3>4 DEF PruneExport, PruneDb
    <3>5. CASE HookStage \/ HookPublish \/ HookFail
      BY <3>5 DEF HookStage, HookPublish, HookFail
    <3>6. ASSUME NEW f \in Exporters, Cleanup(f) PROVE f = e
      BY <3>6, <2>0 DEF Cleanup, Leave
    <3> QED BY <3>1, <3>2, <3>3, <3>4, <3>5, <3>6 DEF Next
  <2>2. Cardinality(Existing \ job[e].retained) <= KeepExports /\ job[e].retained = {} /\ exports' = exports
    BY <2>1 DEF IInv, Pruning, Cleanup
  <2>3. {t \in Stamps : exports'[t] # None} = Existing \ job[e].retained
    BY <2>2 DEF Existing
  <2> QED BY <2>2, <2>3
<1>2. Spec => [][A]_vars
  BY Invariance, <1>1, PTL DEF Spec
<1> QED BY <1>2 DEF SuccessTrims

\* The instances count with the same Cardinality.
LEMMA SameCardinality == \A S : /\ Exports!Cardinality(S) = Cardinality(S)
                              /\ Archives!Cardinality(S) = Cardinality(S)
<1>1. \A S : /\ Exports!IsFiniteSet(S) = IsFiniteSet(S)
             /\ Archives!IsFiniteSet(S) = IsFiniteSet(S)
  BY DEF Exports!IsFiniteSet, Archives!IsFiniteSet, IsFiniteSet
<1> QED BY <1>1 DEF Exports!Cardinality, Archives!Cardinality, Cardinality

\* One step of the exporter or the hook is one step of the exports' history.
LEMMA ExportsStep == IInv /\ [Next]_vars => [Exports!Next]_(Exports!vars)
<1> SUFFICES ASSUME IInv, [Next]_vars PROVE [Exports!Next]_(Exports!vars)
  OBVIOUS
<1>1. ASSUME NEW e \in Exporters,
             \/ Start(e) \/ Produce(e) \/ Inspect(e) \/ Copy(e) \/ Sync(e) \/ Raise(e)
             \/ PruneDb(e) \/ Cleanup(e)
      PROVE  Points' = Points /\ seen' = seen
  <2>1. exports' = exports /\ seen' = seen
    BY <1>1 DEF Start, Produce, Inspect, Copy, Sync, Raise, PruneDb, Cleanup, history
  <2> QED BY <2>1 DEF Points
<1>2. ASSUME NEW e \in Exporters, Rename(e) \/ Lose(e)
      PROVE  Points' = Points /\ seen' = seen
  BY <1>2, RenameStep, LoseStep DEF Rename, Lose, history
<1>3. ASSUME NEW e \in Exporters, Publish(e)
      PROVE  Exports!Publish \/ (Points' = Points /\ seen' = seen)
  <2> DEFINE new == Existing \ Points
  <2>1. Points' = Points \cup new /\ seen' = seen \cup new
    BY <1>3, PublishStep DEF IInv, History
  <2>2. \A n \in new, p \in seen : p < n
    <3>1. pc[e] = "publish"
      BY <1>3 DEF Publish, Goto
    <3>2. \A n \in Existing : Complete(exports[n])
      BY <3>1 DEF IInv, Whole, AllComplete, Existing
    <3>3. \A n \in new : ~exports[n].linked
      BY <3>2 DEF Points, Existing
    <3> QED BY <3>3 DEF IInv, History
  <2>3. new \subseteq Stamps
    BY DEF Existing
  <2> HIDE DEF new
  <2>4. CASE new = {}
    BY <2>1, <2>4
  <2>5. CASE new # {}
    BY <2>1, <2>2, <2>3, <2>5 DEF Exports!Publish
  <2> QED BY <2>4, <2>5
<1>4. ASSUME NEW e \in Exporters, PruneExport(e)
      PROVE  Exports!Expire \/ (Points' = Points /\ seen' = seen)
  BY <1>4, PruneExportStep, SameCardinality DEF Exports!Expire
<1>5. ASSUME HookStage \/ HookPublish \/ HookFail \/ UNCHANGED vars
      PROVE  Points' = Points /\ seen' = seen
  BY <1>5 DEF HookStage, HookPublish, HookFail, vars, history, Points
<1> QED BY <1>1, <1>2, <1>3, <1>4, <1>5 DEF Next, Exports!Next, Exports!vars

\* The exports implement RecoveryPoints with KeepExports points.
THEOREM ExportsImplement == Spec => ExportsRetained
<1>1. Init => Exports!Init
  BY NoneAssumption DEF Init, Exports!Init, Points, Complete
<1> QED BY <1>1, Invariance, ExportsStep, PTL DEF Spec, ExportsRetained, Exports!Spec

\* One step of the exporter or the hook is one step of the archives' history.
LEMMA ArchivesStep == IInv /\ [Next]_vars => [Archives!Next]_(Archives!vars)
<1> SUFFICES ASSUME IInv, [Next]_vars PROVE [Archives!Next]_(Archives!vars)
  OBVIOUS
<1>1. ASSUME NEW e \in Exporters,
             \/ Start(e) \/ Produce(e) \/ Inspect(e) \/ Copy(e) \/ Sync(e) \/ Raise(e)
             \/ Rename(e) \/ Publish(e) \/ PruneExport(e) \/ Lose(e) \/ Cleanup(e)
      PROVE  DbPoints' = DbPoints /\ dbSeen' = dbSeen
  <2>1. dbs' = dbs /\ dbSeen' = dbSeen
    BY <1>1 DEF Start, Produce, Inspect, Copy, Sync, Raise, Rename, Publish, PruneExport, Lose, Cleanup, history
  <2> QED BY <2>1 DEF DbPoints
<1>2. ASSUME NEW e \in Exporters, PruneDb(e)
      PROVE  Archives!Expire \/ (DbPoints' = DbPoints /\ dbSeen' = dbSeen)
  BY <1>2, PruneDbStep, SameCardinality DEF Archives!Expire
<1>3. CASE HookPublish
  <2> DEFINE new == {hook}
  <2>1. /\ new \subseteq Stamps /\ new # {} /\ \A n \in new, p \in dbSeen : p < n
        /\ DbPoints' = DbPoints \cup new /\ dbSeen' = dbSeen \cup new
    BY <1>3, HookPublishStep
  <2> HIDE DEF new
  <2>2. Archives!Publish
    BY <2>1 DEF Archives!Publish
  <2> QED BY <2>2 DEF Archives!Next
<1>4. ASSUME HookStage \/ HookFail \/ UNCHANGED vars
      PROVE  DbPoints' = DbPoints /\ dbSeen' = dbSeen
  BY <1>4 DEF HookStage, HookFail, vars, history, DbPoints
<1> QED BY <1>1, <1>2, <1>3, <1>4 DEF Next, Archives!Next, Archives!vars

\* The database archives implement RecoveryPoints with KeepDb points, although
\* the hook that publishes them takes no lock.
THEOREM ArchivesImplement == Spec => ArchivesRetained
<1>1. Init => Archives!Init
  BY DEF Init, Archives!Init, DbPoints
<1> QED BY <1>1, Invariance, ArchivesStep, PTL DEF Spec, ArchivesRetained, Archives!Spec
=============================================================================
