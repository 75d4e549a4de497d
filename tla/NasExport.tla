------------------------------ MODULE NasExport ------------------------------
(* The GitLab backup publisher (apps/gitlab-helm/files/nas-export.py): one
   Job runs the native backup, checks the archive it produced, publishes it on
   the NAS by staging, fsync and rename, and prunes old exports and old
   database archives.  The database archives come from the pre-upgrade
   admission hook (files/upgrade-admission.sh), which does not take the lock.
   Jobs are killed, nodes are lost and calls fail between any two steps.

   A directory on the NAS is the set of files in it, whether its archive has
   the content its checksum names (intact), the blob components in the archive,
   and whether its data (synced) and its name (linked) survive the loss of the
   node.  Stages that a
   killed Job leaves have names no later run looks at; they are not kept.   *)
EXTENDS Integers, FiniteSets

CONSTANTS
    Exporters,      \* Jobs: the CronJob's and independently created ones
    MaxTime,        \* bound: seconds (stamps) that go by
    KeepExports,    \* 7 in the code
    KeepDb,         \* 14 in the code
    Blobs,          \* enabled object storage types (BLOBS)
    Held,           \* the ones whose bucket is not empty
    MaxFaults,      \* bound: exceptions and losses of a node
    None            \* no directory, no holder, no stage

ASSUME ExportAssumption ==
    /\ MaxTime \in Nat /\ MaxFaults \in Nat
    /\ KeepExports \in Nat \ {0} /\ KeepDb \in Nat \ {0}
    /\ Held \subseteq Blobs

VARIABLES
    clock,
    exports,        \* gitlab-exports/<stamp>: a directory or None
    dbs,            \* db-archives/admission.<stamp>: "none", "complete", "part"
    remote,         \* archives the native tool keeps in the object store
    lock,           \* holder of the flock on gitlab-exports
    pc, job,        \* per exporter: next step and local variables of main
    hook,           \* the admission hook: None or the stamp of its stage
    faults,
    seen, dbSeen,   \* history: durable exports and database archives ever
    broken          \* history: directories whose pruning was cut short

vars == <<clock, exports, dbs, remote, lock, pc, job, hook, faults,
          seen, dbSeen, broken>>
history == <<seen, dbSeen, broken>>

Stamps == 1 .. MaxTime
Files  == {"archive", "sha256", "information"}
Dir    == [files : SUBSET Files, blobs : SUBSET Blobs, intact : BOOLEAN,
           synced : BOOLEAN, linked : BOOLEAN]
ASSUME NoneAssumption == None \notin Exporters /\ None \notin Stamps /\ None \notin Dir

\* What one native run can leave behind: its exit status, the report in its
\* log and the local archive.  It reports "empty" for empty buckets only.
Outputs == [ok : BOOLEAN, checked : BOOLEAN, reported : SUBSET Blobs,
            mine : BOOLEAN, blobs : SUBSET Held, intact : BOOLEAN]
NoOutput == [ok |-> FALSE, checked |-> FALSE, reported |-> {}, mine |-> FALSE,
             blobs |-> {}, intact |-> FALSE]
NoJob == [stamp |-> 0, out |-> NoOutput, retained |-> {}, db |-> {}, stage |-> None]

Complete(d) == d # None /\ d.files = Files
Points   == {t \in Stamps : Complete(exports[t]) /\ exports[t].linked}
DbPoints == {t \in Stamps : dbs[t] = "complete"}

\* Mutant: one completion too many is dropped.
OldestOffByOne(S, keep) == {t \in S : Cardinality({u \in S : u >= t}) >= keep}

\* completions[:-keep] of the sorted list.
Oldest(S, keep) == {t \in S : Cardinality({u \in S : u >= t}) > keep}
\* Mutant: the list is sorted the other way round.
FirstNewest(S) == CHOOSE t \in S : \A u \in S : u <= t

First(S) == CHOOSE t \in S : \A u \in S : t <= u

Init ==
    /\ clock = 0 /\ lock = None /\ hook = None /\ faults = 0
    /\ exports = [t \in Stamps |-> None]
    /\ dbs = [t \in Stamps |-> "none"]
    /\ remote = {} /\ seen = {} /\ dbSeen = {} /\ broken = {}
    /\ pc = [e \in Exporters |-> "idle"]
    /\ job = [e \in Exporters |-> NoJob]

Goto(e, from, to) == pc[e] = from /\ pc' = [pc EXCEPT ![e] = to]

\* The with block and the process end: the descriptor of the lock is closed.
Leave(e) ==
    /\ pc' = [pc EXCEPT ![e] = "idle"]
    /\ job' = [job EXCEPT ![e] = NoJob]
    /\ lock' = None

-----------------------------------------------------------------------------
\* flock(LOCK_EX | LOCK_NB): a second Job fails at once and changes nothing.
Start(e) ==
    /\ lock = None
    /\ Goto(e, "idle", "produce")
    /\ lock' = e
    /\ UNCHANGED <<clock, exports, dbs, remote, job, hook, faults, history>>

\* produce: the log of this invocation is the only evidence that is consulted.
Accepted(out) == out.ok /\ out.checked /\ out.reported = Blobs /\ out.mine

\* Mutant: a stamp from outside the time of the invocation is accepted.
ProduceFuture(e) ==
    /\ pc[e] = "produce"
    /\ pc' = [pc EXCEPT ![e] = "inspect"]
    /\ job' = [job EXCEPT ![e].stamp = MaxTime + 1]
    /\ UNCHANGED <<clock, remote, lock, exports, dbs, hook, faults, history>>

Produce(e) == \E t \in {clock, clock + 1} \cap Stamps, out \in Outputs :
    /\ pc[e] = "produce"
    /\ clock' = t
    /\ remote' = IF out.ok THEN remote \cup {t} ELSE remote
    /\ IF Accepted(out)
       THEN /\ pc' = [pc EXCEPT ![e] = "inspect"]
            /\ job' = [job EXCEPT ![e].stamp = t, ![e].out = out]
            /\ UNCHANGED lock
       ELSE Leave(e)
    /\ UNCHANGED <<exports, dbs, hook, faults, history>>

\* inspect_archive: every bucket not reported empty has its component.
Inspected(out) == out.intact /\ out.reported \cap Held \subseteq out.blobs

\* completed and completed_db_archives: one directory that has a completed
\* name and not the completed contents refuses the whole run.
AllComplete ==
    /\ \A t \in Stamps : exports[t] # None => Complete(exports[t]) /\ exports[t].intact
    /\ \A t \in Stamps : dbs[t] # "part"

Inspect(e) ==
    /\ pc[e] = "inspect"
    /\ IF Inspected(job[e].out) /\ exports[job[e].stamp] = None /\ AllComplete
       THEN /\ pc' = [pc EXCEPT ![e] = "copy"]
            /\ job' = [job EXCEPT ![e].retained = {t \in Stamps : exports[t] # None},
                                  ![e].db = DbPoints]
            /\ UNCHANGED lock
       ELSE Leave(e)
    /\ UNCHANGED <<clock, exports, dbs, remote, hook, faults, history>>

\* Mutant: checksum and metadata are left for after the rename.
CopyArchiveOnly(e) ==
    /\ Goto(e, "copy", "sync")
    /\ job' = [job EXCEPT ![e].stage = [files |-> {"archive"}, blobs |-> job[e].out.blobs,
                              intact |-> TRUE, synced |-> FALSE, linked |-> FALSE]]
    /\ UNCHANGED <<clock, exports, dbs, remote, lock, hook, faults, history>>

\* mkdtemp, copyfile, metadata, checksum and the first read back.
Copy(e) ==
    /\ Goto(e, "copy", "sync")
    /\ job' = [job EXCEPT ![e].stage = [files |-> Files, blobs |-> job[e].out.blobs,
                                        intact |-> TRUE, synced |-> FALSE, linked |-> FALSE]]
    /\ UNCHANGED <<clock, exports, dbs, remote, lock, hook, faults, history>>

\* Mutant: the files are not synced before the rename.
SyncForgotten(e) ==
    /\ Goto(e, "sync", "rename")
    /\ UNCHANGED <<clock, exports, dbs, remote, lock, job, hook, faults, history>>

\* fsync of every file, second read back, fsync of the stage.
Sync(e) ==
    /\ Goto(e, "sync", "rename")
    /\ job' = [job EXCEPT ![e].stage.synced = TRUE]
    /\ UNCHANGED <<clock, exports, dbs, remote, lock, hook, faults, history>>

Rename(e) ==
    /\ Goto(e, "rename", "publish")
    /\ exports' = [exports EXCEPT ![job[e].stamp] = job[e].stage]
    /\ job' = [job EXCEPT ![e].stage = None]
    /\ UNCHANGED <<clock, dbs, remote, lock, hook, faults, history>>

\* Mutant: the directory is not synced before the old exports are removed.
PublishUnsynced(e) ==
    /\ Goto(e, "publish", "prune")
    /\ job' = [job EXCEPT ![e].retained = Oldest(@ \cup {job[e].stamp}, KeepExports),
                          ![e].db = Oldest(@, KeepDb)]
    /\ UNCHANGED <<clock, exports, dbs, remote, lock, hook, faults, history>>

\* Mutant: the new export is not counted among the retained ones.
PublishNotCounted(e) ==
    /\ Goto(e, "publish", "prune")
    /\ exports' = [t \in Stamps |-> IF exports[t] = None THEN None
                                    ELSE [exports[t] EXCEPT !.linked = TRUE]]
    /\ seen' = seen \cup {t \in Stamps : Complete(exports[t])}
    /\ job' = [job EXCEPT ![e].retained = Oldest(@, KeepExports), ![e].db = Oldest(@, KeepDb)]
    /\ UNCHANGED <<clock, dbs, remote, lock, hook, faults, dbSeen, broken>>

\* sync(exports) makes every name in the directory durable; then the read back
\* of the published archive and the choice of what to prune.
Publish(e) ==
    /\ Goto(e, "publish", "prune")
    /\ exports' = [t \in Stamps |-> IF exports[t] = None THEN None
                                    ELSE [exports[t] EXCEPT !.linked = TRUE]]
    /\ seen' = seen \cup {t \in Stamps : Complete(exports[t])}
    /\ job' = [job EXCEPT ![e].retained = Oldest(@ \cup {job[e].stamp}, KeepExports),
                          ![e].db = Oldest(@, KeepDb)]
    /\ UNCHANGED <<clock, dbs, remote, lock, hook, faults, dbSeen, broken>>

\* prune_owned of the exports, oldest first: one unlink, or the final rmdir.
PruneExport(e) == LET t == First(job[e].retained) IN
    /\ pc[e] = "prune" /\ job[e].retained # {}
    /\ \/ \E f \in exports[t].files :
             /\ exports' = [exports EXCEPT ![t].files = @ \ {f}]
             /\ UNCHANGED job
       \/ /\ exports[t].files = {}
          /\ exports' = [exports EXCEPT ![t] = None]
          /\ job' = [job EXCEPT ![e].retained = @ \ {t}]
    /\ UNCHANGED <<clock, dbs, remote, lock, pc, hook, faults, history>>

\* prune_owned of the database archives, their four files in two steps.
PruneDb(e) == LET t == First(job[e].db) IN
    /\ pc[e] = "prune" /\ job[e].retained = {} /\ job[e].db # {}
    /\ IF dbs[t] = "complete"
       THEN dbs' = [dbs EXCEPT ![t] = "part"] /\ UNCHANGED job
       ELSE /\ dbs' = [dbs EXCEPT ![t] = "none"]
            /\ job' = [job EXCEPT ![e].db = @ \ {t}]
    /\ UNCHANGED <<clock, exports, remote, lock, pc, hook, faults, history>>

\* backup-utility --cleanup --maximum-backups, and the end of the run.
Cleanup(e) ==
    /\ pc[e] = "prune" /\ job[e].retained = {} /\ job[e].db = {}
    /\ remote' = remote \ Oldest(remote, KeepExports)
    /\ Leave(e)
    /\ UNCHANGED <<clock, exports, dbs, hook, faults, history>>

-----------------------------------------------------------------------------
\* What a run that ends inside prune_owned leaves half removed.
Half(e) ==
    (IF pc[e] = "prune" /\ job[e].retained # {} /\ exports[First(job[e].retained)] # None
     THEN {First(job[e].retained)} ELSE {}) \cup {t \in job[e].db : dbs[t] = "part"}

\* An exception: the finally clause removes the stage of this run only.
Raise(e) ==
    /\ pc[e] # "idle" /\ faults < MaxFaults
    /\ faults' = faults + 1
    /\ broken' = broken \cup Half(e)
    /\ Leave(e)
    /\ UNCHANGED <<clock, exports, dbs, remote, hook, seen, dbSeen>>

\* The Job is killed or its node is lost: names that were not synced may go,
\* data that was not synced is damaged.
Lose(e) == \E gone \in SUBSET {t \in Stamps : exports[t] # None /\ ~exports[t].linked} :
    /\ pc[e] # "idle" /\ faults < MaxFaults
    /\ faults' = faults + 1
    /\ exports' = [t \in Stamps |-> IF t \in gone \/ exports[t] = None THEN None
                    ELSE [exports[t] EXCEPT !.intact = @ /\ exports[t].synced]]
    /\ broken' = broken \cup Half(e)
    /\ Leave(e)
    /\ UNCHANGED <<clock, dbs, remote, hook, seen, dbSeen>>

-----------------------------------------------------------------------------
\* The admission hook dumps the database into a private stage and takes its
\* observed_at, ...
HookStage ==
    /\ hook = None /\ clock < MaxTime
    /\ hook' = clock + 1 /\ clock' = clock + 1
    /\ UNCHANGED <<exports, dbs, remote, lock, pc, job, faults, history>>

\* ... then publishes it with one rename, whatever the exporter is doing, ...
HookPublish ==
    /\ hook # None /\ hook' = None
    /\ dbs' = [dbs EXCEPT ![hook] = "complete"]
    /\ dbSeen' = dbSeen \cup {hook}
    /\ UNCHANGED <<clock, exports, remote, lock, pc, job, faults, seen, broken>>

\* ... or fails and removes its stage.
HookFail ==
    /\ hook # None /\ hook' = None
    /\ UNCHANGED <<clock, exports, dbs, remote, lock, pc, job, faults, history>>

Next ==
    \/ \E e \in Exporters :
          \/ Start(e) \/ Produce(e) \/ Inspect(e) \/ Copy(e) \/ Sync(e) \/ Rename(e)
          \/ Publish(e) \/ PruneExport(e) \/ PruneDb(e) \/ Cleanup(e)
          \/ Raise(e) \/ Lose(e)
    \/ HookStage \/ HookPublish \/ HookFail

Spec == Init /\ [][Next]_vars

-----------------------------------------------------------------------------
TypeOK ==
    /\ clock \in 0 .. MaxTime /\ faults \in 0 .. MaxFaults
    /\ exports \in [Stamps -> Dir \cup {None}]
    /\ dbs \in [Stamps -> {"none", "complete", "part"}]
    /\ remote \subseteq Stamps /\ seen \subseteq Stamps /\ dbSeen \subseteq Stamps
    /\ broken \subseteq Stamps
    /\ lock \in Exporters \cup {None} /\ hook \in Stamps \cup {None}
    /\ pc \in [Exporters -> {"idle", "produce", "inspect", "copy", "sync",
                             "rename", "publish", "prune"}]
    /\ job \in [Exporters -> [stamp : 0 .. MaxTime, out : Outputs, retained : SUBSET Stamps,
                              db : SUBSET Stamps, stage : Dir \cup {None}]]

\* A directory with a completed name and completed contents is a restorable
\* backup: its archive has the content the checksum names and a component for
\* every bucket that holds objects, whatever the native run reported and
\* wherever earlier runs were cut (produce, inspect_archive, the fsyncs of main).
ExportsRestorable == \A t \in Stamps :
    Complete(exports[t]) => exports[t].intact /\ Held \subseteq exports[t].blobs

\* A completed name without the completed contents is only ever seen while the
\* run that holds the lock prunes it, or because such a run was cut short: no
\* other interruption makes a later run refuse in completed().
HalfRemovedByPruneOnly == \A t \in Stamps :
    (exports[t] # None /\ ~Complete(exports[t])) \/ dbs[t] = "part" =>
        t \in broken \/ \E e \in Exporters : lock = e /\ t \in Half(e)

\* Nothing that was published is removed, on the NAS or in the object store,
\* unless this run's own export is a durable recovery point ("New good point
\* exists BEFORE any retention removal").
RemovalAfterGoodPoint == [][
    (\/ ~(Points \subseteq Points') \/ ~(DbPoints \subseteq DbPoints')
     \/ ~(remote \subseteq remote'))
    => \E e \in Exporters : lock = e /\ job[e].stamp \in Points]_vars

\* A run that reaches its end leaves at most KeepExports exports: the flock keeps
\* two runs from each sparing what the other one published.
SuccessTrims == [][
    \A e \in Exporters : pc[e] = "prune" /\ pc'[e] = "idle" /\ faults' = faults
        => Cardinality({t \in Stamps : exports'[t] # None}) <= KeepExports]_vars

\* The exports and the database archives each implement RecoveryPoints: in
\* every interleaving with crashes and with the admission hook, only the oldest
\* point goes and only while more than the retained number are left.
Exports == INSTANCE RecoveryPoints WITH
    Keep <- KeepExports, points <- Points, published <- seen
ExportsRetained == Exports!Spec

Archives == INSTANCE RecoveryPoints WITH
    Keep <- KeepDb, points <- DbPoints, published <- dbSeen
ArchivesRetained == Archives!Spec
=============================================================================
