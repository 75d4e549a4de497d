----------------------------- MODULE BucketAudit -----------------------------
(* scripts/audit_seaweedfs_buckets.py: the audit compares the directories below
   /buckets with the bound SeaweedFS volumes, and every named bucket with the
   places that may name a consumer.  It reads the filer, the volumes, the live
   objects and the repository one after the other, while volumes are
   provisioned and released and workloads come and go.

   Evidence is one place that may name a bucket: a line of the repository or a
   value of a live object, with the facts the search looks at.              *)
EXTENDS Integers, FiniteSets

CONSTANTS
    Volumes,           \* pvc-* handles
    Buckets,           \* named buckets
    Evidence,          \* places a bucket may be named in
    External,          \* buckets with an explicit external consumer
    FailOnFindings,    \* the option
    MaxChanges         \* bound: changes of the cluster, filer and repository

RepoLines == [place : {"repo"}, text : BOOLEAN, token : BOOLEAN,
              hint : {"none", "near", "line"}, form : {"plain", "name", "field"}]
LiveValues == [place : {"live"}, kind : {"ConfigMap", "Secret", "Workload", "CronJob"},
               field : {"data", "env", "args", "other"}, token : BOOLEAN,
               hint : {"none", "name", "value"}]

ASSUME AuditAssumption ==
    /\ Evidence \subseteq RepoLines \cup LiveValues
    /\ Volumes \cap Buckets = {}
    /\ External \subseteq Buckets /\ FailOnFindings \in BOOLEAN /\ MaxChanges \in Nat

VARIABLES
    dirs, pv,          \* pvc-* directories, and the phase of each volume or "none"
    buckets, refs,     \* named buckets, and the evidence that names them
    pc, entries, bound, objects, todo, abandoned,   \* local to the audit
    exit,              \* exit status, or -1
    changes, steady    \* bound, and history: what has not changed in this run

world == <<dirs, pv, buckets, refs>>
local == <<pc, entries, bound, objects, todo, abandoned, exit>>
vars == <<world, local, changes, steady>>

Phases == {"none", "Pending", "Bound", "Released"}
Things == Volumes \cup Buckets

\* search_text_paths: text files only, a hint on the line or beside it, and
\* some forms of lines never count.
RepoHit(e) ==
    /\ e.place = "repo" /\ e.text /\ e.token /\ e.hint # "none"
    /\ e.form # "name"
    /\ e.form = "field" => e.hint = "line"

\* Mutant: the pods of a CronJob are looked for where other workloads have them.
LiveHitNoCronJob(e) ==
    /\ e.place = "live" /\ e.token
    /\ \/ e.kind = "ConfigMap" /\ e.field = "data" /\ e.hint = "value"
       \/ e.kind = "Secret" /\ e.field = "data" /\ e.hint # "none"
       \/ e.kind = "Workload" /\ e.field = "env" /\ e.hint # "none"
       \/ e.kind = "Workload" /\ e.field = "args" /\ e.hint = "value"

\* search_live_objects: data of ConfigMaps and Secrets, and env, args and
\* command of every container; only env and Secrets use the name for a hint.
LiveHit(e) ==
    /\ e.place = "live" /\ e.token
    /\ \/ e.kind = "ConfigMap" /\ e.field = "data" /\ e.hint = "value"
       \/ e.kind = "Secret" /\ e.field = "data" /\ e.hint # "none"
       \/ e.kind \in {"Workload", "CronJob"} /\ e.field = "env" /\ e.hint # "none"
       \/ e.kind \in {"Workload", "CronJob"} /\ e.field = "args" /\ e.hint = "value"

\* A bucket has a directory; a volume that is not bound may have one as well.
Init ==
    /\ pv \in [Volumes -> Phases] /\ dirs \in SUBSET Volumes
    /\ buckets \in SUBSET Buckets
    /\ refs \in [Buckets -> {{}} \cup {{e} : e \in Evidence}]
    /\ \A b \in Buckets \ buckets : refs[b] = {}
    /\ pc = "list" /\ entries = {} /\ bound = {} /\ objects = [b \in Buckets |-> {}]
    /\ todo = {} /\ abandoned = {} /\ exit = -1
    /\ changes = 0 /\ steady = Things

\* run_command: a command that fails ends the audit, and there is no report.
Fail ==
    /\ pc # "done" /\ pc' = "done" /\ exit' = 1
    /\ UNCHANGED <<world, entries, bound, objects, todo, abandoned, changes, steady>>

-----------------------------------------------------------------------------
\* list_bucket_entries: one listing tells both kinds of entries.
List ==
    /\ pc = "list" /\ pc' = "volumes"
    /\ entries' = dirs \cup buckets /\ todo' = buckets
    /\ UNCHANGED <<world, bound, objects, abandoned, exit, changes, steady>>

\* Mutant: volumes that are no longer bound count as well.
ListVolumesAll ==
    /\ pc = "volumes" /\ pc' = "objects"
    /\ bound' = {v \in Volumes : pv[v] # "none"}
    /\ UNCHANGED <<world, entries, objects, todo, abandoned, exit, changes, steady>>

\* get_bound_seaweedfs_handles and normalize_pvc_handle.
ListVolumes ==
    /\ pc = "volumes" /\ pc' = "objects"
    /\ bound' = {v \in Volumes : pv[v] = "Bound"}
    /\ UNCHANGED <<world, entries, objects, todo, abandoned, exit, changes, steady>>

\* load_live_objects, once for all buckets.
LoadObjects ==
    /\ pc = "objects" /\ pc' = "bucket"
    /\ objects' = [b \in Buckets |-> {e \in refs[b] : e.place = "live"}]
    /\ UNCHANGED <<world, entries, bound, todo, abandoned, exit, changes, steady>>

\* One BucketReport: the size of a bucket that has gone cannot be parsed, and
\* the repository is read now.
InspectBucket(b) ==
    /\ pc = "bucket" /\ b \in todo
    /\ IF b \in buckets
       THEN /\ todo' = todo \ {b}
            /\ abandoned' = IF \/ \E e \in refs[b] : RepoHit(e)
                               \/ \E e \in objects[b] : LiveHit(e)
                               \/ b \in External
                            THEN abandoned ELSE abandoned \cup {b}
            /\ UNCHANGED <<pc, exit>>
       ELSE pc' = "done" /\ exit' = 1 /\ UNCHANGED <<todo, abandoned>>
    /\ UNCHANGED <<world, entries, bound, objects, changes, steady>>

Orphaned == (entries \cap Volumes) \ bound
Missing  == bound \ entries

\* Mutant: buckets without a consumer do not count.
ReportVolumesOnly ==
    /\ pc = "bucket" /\ todo = {} /\ pc' = "done"
    /\ exit' = IF FailOnFindings /\ Orphaned \cup Missing # {} THEN 2 ELSE 0
    /\ UNCHANGED <<world, entries, bound, objects, todo, abandoned, changes, steady>>

\* The exit status of main.
Report ==
    /\ pc = "bucket" /\ todo = {} /\ pc' = "done"
    /\ exit' = IF FailOnFindings /\ Orphaned \cup Missing \cup abandoned # {} THEN 2 ELSE 0
    /\ UNCHANGED <<world, entries, bound, objects, todo, abandoned, changes, steady>>

-----------------------------------------------------------------------------
\* The CSI driver, users and operators.
Change(x) ==
    /\ changes < MaxChanges /\ changes' = changes + 1
    /\ steady' = steady \ {x}
    /\ UNCHANGED local

\* The directory is made before the volume is bound, and stays when the volume
\* is released: it is removed by the driver or, later, by hand.
Volume(v) ==
    /\ Change(v)
    /\ \/ pv[v] = "none" /\ v \notin dirs /\ dirs' = dirs \cup {v} /\ UNCHANGED pv
       \/ pv[v] = "none" /\ v \in dirs /\ pv' = [pv EXCEPT ![v] = "Pending"] /\ UNCHANGED dirs
       \/ pv[v] = "Pending" /\ pv' = [pv EXCEPT ![v] = "Bound"] /\ UNCHANGED dirs
       \/ pv[v] = "Bound" /\ pv' = [pv EXCEPT ![v] = "Released"] /\ UNCHANGED dirs
       \/ pv[v] = "Released" /\ pv' = [pv EXCEPT ![v] = "none"] /\ UNCHANGED dirs
       \/ v \in dirs /\ dirs' = dirs \ {v} /\ UNCHANGED pv
    /\ UNCHANGED <<buckets, refs>>

Bucket(b) ==
    /\ Change(b)
    /\ \/ b \notin buckets /\ buckets' = buckets \cup {b} /\ UNCHANGED refs
       \/ b \in buckets /\ buckets' = buckets \ {b} /\ refs' = [refs EXCEPT ![b] = {}]
       \/ b \in buckets /\ UNCHANGED buckets /\ \E e \in Evidence :
            refs' = [refs EXCEPT ![b] = (@ \cup {e}) \ (@ \cap {e})]
    /\ UNCHANGED <<dirs, pv>>

Next ==
    \/ List \/ ListVolumes \/ LoadObjects \/ Report \/ Fail
    \/ \E b \in Buckets : InspectBucket(b) \/ Bucket(b)
    \/ \E v \in Volumes : Volume(v)

Spec == Init /\ [][Next]_vars
-----------------------------------------------------------------------------
Completed == pc = "done" /\ exit # 1

\* Whatever goes on around it, the audit is right about a volume that does not
\* change while it runs: one in use is neither an orphan nor missing, and an
\* orphan is found, although directories and volumes are listed apart.
VolumeVerdicts == Completed => \A v \in Volumes \cap steady :
    /\ v \in Orphaned <=> v \in dirs /\ pv[v] # "Bound"
    /\ v \in Missing <=> v \notin dirs /\ pv[v] = "Bound"

\* A value that names the bucket and says what it is about.
Names(e) ==
    /\ e.token /\ e.hint \in {"line", "value"}
    /\ IF e.place = "repo" THEN e.text /\ e.form # "name"
       ELSE e.field # "other" /\ (e.field = "data" <=> e.kind \in {"ConfigMap", "Secret"})

\* A bucket whose consumer is there all along, in the repository or in any kind
\* of live object, is not a candidate for removal, although the repository, the
\* objects and the filer are read at different times; one without any trace is.
BucketVerdicts == Completed => \A b \in (Buckets \cap steady) \cap buckets :
    /\ b \in External \/ (\E e \in refs[b] : Names(e)) => b \notin abandoned
    /\ b \notin External /\ refs[b] = {} => b \in abandoned

\* With --fail-on-findings an exit status of 0 can be relied on: nothing that
\* was wrong all along has been passed over.
QuietMeansClean == FailOnFindings /\ exit = 0 =>
    /\ \A v \in Volumes \cap steady : v \in dirs <=> pv[v] = "Bound"
    /\ \A b \in (Buckets \cap steady) \cap buckets : b \in External \/ refs[b] # {}
=============================================================================
