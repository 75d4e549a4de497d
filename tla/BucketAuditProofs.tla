-------------------------- MODULE BucketAuditProofs --------------------------
(***************************************************************************)
(* Proofs about BucketAudit for any volumes, buckets, evidence and number  *)
(* of changes around the audit.                                            *)
(*                                                                         *)
(* What a phase has read stays true of everything that is still steady     *)
(* (DirsKnown, BoundKnown, BucketsKnown), and a bucket that has been       *)
(* inspected was judged by what is there now (Judged).                     *)
(***************************************************************************)
EXTENDS BucketAudit, TLAPS

TypeInv ==
  /\ dirs \subseteq Volumes /\ pv \in [Volumes -> Phases]
  /\ buckets \subseteq Buckets /\ refs \in [Buckets -> SUBSET Evidence]
  /\ pc \in {"list", "volumes", "objects", "bucket", "done"}
  /\ entries \subseteq Things /\ bound \subseteq Volumes
  /\ objects \in [Buckets -> SUBSET Evidence]
  /\ todo \subseteq Buckets /\ abandoned \subseteq Buckets
  /\ exit \in {-1, 0, 1, 2} /\ changes \in Nat /\ steady \subseteq Things

Consumed(b) == b \in External \/ \E e \in refs[b] : RepoHit(e) \/ LiveHit(e)
LiveRefs(b) == {e \in refs[b] : e.place = "live"}

DirsKnown == pc \in {"volumes", "objects", "bucket"} \/ Completed =>
  \A v \in Volumes \cap steady : v \in entries <=> v \in dirs

BoundKnown == pc \in {"objects", "bucket"} \/ Completed =>
  \A v \in Volumes \cap steady : v \in bound <=> pv[v] = "Bound"

BucketsKnown ==
  /\ pc \in {"volumes", "objects"} => \A b \in Buckets \cap steady : b \in todo <=> b \in buckets
  /\ pc = "bucket" => \A b \in Buckets \cap steady : objects[b] = LiveRefs(b)

\* Nothing is judged before it is inspected.
Unjudged ==
  /\ pc \in {"list", "volumes", "objects"} => abandoned = {}
  /\ todo \cap abandoned = {}

Judged == pc = "bucket" \/ Completed =>
  \A b \in (Buckets \cap steady) \cap buckets : b \notin todo => (b \in abandoned <=> ~Consumed(b))

Ended ==
  /\ pc # "done" => exit = -1
  /\ pc = "done" => exit # -1
  /\ Completed => todo = {}
  /\ exit = 0 /\ FailOnFindings => Orphaned = {} /\ Missing = {} /\ abandoned = {}

\* The inductive invariant.
IInv == TypeInv /\ DirsKnown /\ BoundKnown /\ BucketsKnown /\ Unjudged /\ Judged /\ Ended

-----------------------------------------------------------------------------
\* A value that names the bucket and says so is found by one of the searches.
LEMMA NamedIsHit == \A e \in Evidence : Names(e) => RepoHit(e) \/ LiveHit(e)
BY AuditAssumption DEF Names, RepoHit, LiveHit, RepoLines, LiveValues

\* The searches look at live objects and at the repository only.
LEMMA HitPlaces == \A e : (LiveHit(e) => e.place = "live") /\ (RepoHit(e) => e.place = "repo")
BY DEF RepoHit, LiveHit

\* The audit starts with nothing read.
LEMMA InitInv == Init => IInv
BY AuditAssumption
DEF Init, IInv, TypeInv, DirsKnown, BoundKnown, BucketsKnown, Unjudged, Judged, Ended, Completed,
    Phases, Things

\* The steps of the audit.
LEMMA AuditStep ==
  ASSUME IInv, List \/ ListVolumes \/ LoadObjects \/ Report \/ Fail
  PROVE  IInv'
<1> USE AuditAssumption
<1>1. CASE List
  BY <1>1 DEF List, IInv, TypeInv, DirsKnown, BoundKnown, BucketsKnown, Unjudged, Judged, Ended,
    Completed, Things, world, Orphaned, Missing
<1>2. CASE ListVolumes
  BY <1>2 DEF ListVolumes, IInv, TypeInv, DirsKnown, BoundKnown, BucketsKnown, Unjudged, Judged, Ended,
    Completed, Things, world, Orphaned, Missing
<1>3. CASE LoadObjects
  BY <1>3 DEF LoadObjects, IInv, TypeInv, DirsKnown, BoundKnown, BucketsKnown, Unjudged, Judged, Ended,
    Completed, Things, world, Orphaned, Missing, LiveRefs
<1>4. CASE Report
  BY <1>4 DEF Report, IInv, TypeInv, DirsKnown, BoundKnown, BucketsKnown, Unjudged, Judged, Ended,
    Completed, Things, world, Orphaned, Missing, Consumed
<1>5. CASE Fail
  BY <1>5 DEF Fail, IInv, TypeInv, DirsKnown, BoundKnown, BucketsKnown, Unjudged, Judged, Ended,
    Completed, Things, world, Orphaned, Missing
<1> QED BY <1>1, <1>2, <1>3, <1>4, <1>5

\* One bucket report.
LEMMA InspectStep ==
  ASSUME IInv, NEW b \in Buckets, InspectBucket(b)
  PROVE  IInv'
<1> USE AuditAssumption
<1>1. TypeInv' /\ DirsKnown' /\ BoundKnown' /\ BucketsKnown' /\ Unjudged' /\ Ended'
  BY DEF InspectBucket, IInv, TypeInv, DirsKnown, BoundKnown, BucketsKnown, Unjudged, Ended,
    Completed, Things, world, Orphaned, Missing, LiveRefs
<1>2. Judged'
  <2>1. b \in steady => ((\E e \in refs[b] : RepoHit(e)) \/ (\E e \in objects[b] : LiveHit(e)) \/ b \in External
           <=> Consumed(b))
    BY HitPlaces DEF IInv, BucketsKnown, LiveRefs, Consumed, InspectBucket
  <2> QED
    BY <2>1 DEF InspectBucket, IInv, TypeInv, Unjudged, Judged, Ended, Completed, world, Consumed
<1> QED BY <1>1, <1>2 DEF IInv

\* Whatever changes around the audit is no longer steady.
LEMMA WorldStep ==
  ASSUME IInv, (\E v \in Volumes : Volume(v)) \/ (\E b \in Buckets : Bucket(b))
  PROVE  IInv'
<1> USE AuditAssumption
<1>1. ASSUME NEW v \in Volumes, Volume(v) PROVE IInv'
  BY <1>1 DEF Volume, Change, local, IInv, TypeInv, DirsKnown, BoundKnown, BucketsKnown, Unjudged,
    Judged, Ended, Completed, Things, Orphaned, Missing, LiveRefs, Consumed, Phases
<1>2. ASSUME NEW b \in Buckets, Bucket(b) PROVE IInv'
  BY <1>2 DEF Bucket, Change, local, IInv, TypeInv, DirsKnown, BoundKnown, BucketsKnown, Unjudged,
    Judged, Ended, Completed, Things, Orphaned, Missing, LiveRefs, Consumed
<1> QED BY <1>1, <1>2

\* The invariant is inductive.
LEMMA Inductive == IInv /\ [Next]_vars => IInv'
<1> SUFFICES ASSUME IInv, [Next]_vars PROVE IInv'
  OBVIOUS
<1>1. CASE List \/ ListVolumes \/ LoadObjects \/ Report \/ Fail
  BY <1>1, AuditStep
<1>2. ASSUME NEW b \in Buckets, InspectBucket(b) PROVE IInv'
  BY <1>2, InspectStep
<1>3. CASE (\E v \in Volumes : Volume(v)) \/ (\E b \in Buckets : Bucket(b))
  BY <1>3, WorldStep
<1>4. CASE UNCHANGED vars
  BY <1>4 DEF vars, world, local, IInv, TypeInv, DirsKnown, BoundKnown, BucketsKnown, Unjudged,
    Judged, Ended, Completed, Orphaned, Missing, LiveRefs, Consumed
<1> QED BY <1>1, <1>2, <1>3, <1>4 DEF Next

\* The invariant holds in every reachable state.
LEMMA Invariance == Spec => []IInv
BY InitInv, Inductive, PTL DEF Spec

-----------------------------------------------------------------------------
\* A completed audit is right about every volume that did not change meanwhile
\* (list_bucket_entries and get_bound_seaweedfs_handles are two reads).
THEOREM VolumesJudged == Spec => []VolumeVerdicts
<1>1. IInv => VolumeVerdicts
  BY DEF IInv, DirsKnown, BoundKnown, VolumeVerdicts, Orphaned, Missing
<1> QED BY <1>1, Invariance, PTL

\* A bucket that has a consumer all along is never reported as abandoned, and
\* one without any trace is (search_text_paths, search_live_objects).
THEOREM BucketsJudged == Spec => []BucketVerdicts
<1>1. IInv => BucketVerdicts
  BY NamedIsHit DEF IInv, TypeInv, Judged, Ended, BucketVerdicts, Consumed
<1> QED BY <1>1, Invariance, PTL

\* Exit status 0 of --fail-on-findings means that nothing steady was wrong.
THEOREM QuietIsClean == Spec => []QuietMeansClean
<1>1. IInv => QuietMeansClean
  BY DEF IInv, TypeInv, DirsKnown, BoundKnown, Judged, Ended, QuietMeansClean, Completed, Orphaned,
    Missing, Consumed
<1> QED BY <1>1, Invariance, PTL
=============================================================================
