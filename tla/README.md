# TLA+ models of cluster-state

This directory holds TLA+ specifications, TLC configurations and TLAPS proofs
for the stateful programs of the cluster-state repository. Most of the
repository is declarative (Flux manifests, documentation). The programs with
protocols of their own are a handful of Python and Go components, and they are
what is modelled here.

## 1. Inventory

| | Component | Source | State | Operations | Hard behaviours |
|---|---|---|---|---|---|
| A | Maintenance admission (coordinator, recovery, worker fence, store-GC claim) | `infrastructure/shared-services/gitlab-runner/ci/maintenance-admission.py`, its CronJobs | one ConfigMap (`state.json`): phase, operation, `gc_holder`, heartbeat; the paused flag of runner 2 in GitLab | `coordinate`, `recover`, `WorkerFence.claim`/`check`, `gc_claim` | four independent pods, compare-and-swap saves with a separate readback, GitLab writes that take effect late, pods that die or whose objects are deleted, deadlines |
| A' | Cache retention worker, store GC | `cache-retention.py`, `cronjob-ci-hestia-ci-store-gc.yaml` | host directories | gates, `retain`, Podman prune | the same |
| B | CSI mount manager | `drivers/seaweedfs-csi-driver/pkg/mountmanager/` | map of mounts, lock per volume, `weed mount` processes, mount table | `Mount`, `Unmount`, process exit, takeover export/finalize/cancel/import, stale-mount reconciliation | goroutines and process exits racing requests, handover between two services, partial failures |
| C | CSI node server | `drivers/seaweedfs-csi-driver/pkg/driver/` | cached volumes, lock per volume, staging and target mounts | `NodeStage`, `NodePublish`, `NodeUnpublish`, `NodeUnstage`, `NodeExpand` | restarts lose the cache, retries by kubelet, rollback of half-done stages |
| D | Consumer recycler | `drivers/seaweedfs-csi-driver/pkg/recycler/` | debounce table, probe history, startup window, daemon generations | event handlers, `CycleOne`/`CycleBatch`, prober sweep | events out of order, edges lost when a cycle fails, suppression windows |
| E | COSI sidecar and SeaweedFS COSI driver | `drivers/cosi-provisioner-sidecar/pkg/`, `drivers/seaweedfs-cosi-driver/pkg/driver/` | Bucket/BucketAccess objects and finalizers, buckets, `filer.conf`, S3 identities | add/update/delete controllers, create/delete bucket, grant/revoke | unversioned read-modify-write of `filer.conf`, failing between remote steps, retries |
| F | GitLab NAS export and the upgrade admission hook | `apps/gitlab-helm/files/nas-export.py`, `upgrade-admission.sh` | completed exports and database archives on the NAS, archives in the object store, a flock | native backup, inspection, publication by rename, pruning; publication of a database archive | fsync order, node loss, a second Job, the hook that takes no lock, directories half removed |
| G | Kustomize exporter and versioned migration check | `scripts/export_to_kustomize.py`, `scripts/validate_versioned_migration_jobs.py` | the generated trees, the main branch, the live objects | clean, fetch, strip, write, postprocess, aggregate; release and Job checks | a cluster that changes between reads, runs that end anywhere, version order, text split at `---` |
| H | Bucket audit | `scripts/audit_seaweedfs_buckets.py` | none of its own | list, compare, search, report | four sources read at different times |
| I | DRA driver, CSI controller server, manifest validators, manifests | `drivers/rpi5-dra-driver`, `scripts/validate_*.py`, ... | none | | stateless or declarative |

What makes each correct:

* **A**: nothing is deleted beside CI work or store GC; an unresolved remote
  write is never forgotten; the runner is unpaused only once everybody who
  relies on the pause has stopped; the recorded phase and outcome are true; an
  operation never stays open for ever; operations do not overlap.
* **B**: calls for one volume are serialised; a live mount is never dropped
  from the map or unmounted by the exit of an older process; a takeover leaves
  exactly one owner; no call waits for itself.
* **C**: a published volume has a staged mount; a failed stage leaves nothing;
  a live cache is not wiped.
* **D**: a broken mount is eventually recycled; suppression never hides a
  failure for ever; no consumer is cycled twice for one event.
* **A'**: only directories that were idle, unchanged and admitted at the moment
  of their second proof are removed, expired ones first.
* **E**: a retry of any step ends where the undisturbed call ends; a credential
  in use is never rotated; no credential outlives its access; nothing is
  released before what it stands for is gone; every deletion ends.
* **F**: a completed export can be restored; nothing is given up before a newer
  durable point exists; the newest seven (fourteen) points stay.
* **G**: a tree that looks whole is whole and shows the cluster; migrations are
  never behind the application; a Job is renamed with its image.
* **H**: the verdict on whatever did not change during the audit is right.

`PROJECT.json` lists the hazards of each at their lines.

## 2. Modules

| Module | What it is |
|---|---|
| `MaintenanceAdmission` | component A with the protocol side of A' |
| `MCMaintenanceAdmission` | symmetry and constraint for TLC |
| `MaintenanceAdmissionProofs`, `MaintenanceHistoryProofs` | proofs: exclusion and resolved writes; the course of operations |
| `CosiProvisioning` | component E: both listeners of the sidecar and the driver behind them |
| `MCCosiProvisioning` | names of the accesses for TLC |
| `CosiProvisioningProofs` | proofs |
| `CacheRetention` | component A': what the admitted worker removes (`MCCacheRetention`: retention days; `CacheRetentionProofs`) |
| `RecoveryPoints` | abstract specification of retention |
| `NasExport` | component F; implements `RecoveryPoints` twice (`MCNasExport`: symmetry; `NasExportProofs`) |
| `MigrationRelease` | the check of component G as operators, and the main branch it guards |
| `KustomizeExport` | the exporter of component G |
| `ReleasePipeline` | composition of the last two with the live cluster (`MCReleasePipeline`: three components; `ReleasePipelineProofs`) |
| `BucketAudit` | component H (`MCBucketAudit`: evidence; `BucketAuditProofs`) |
| `NaturalLemmas` | least and greatest elements of sets of naturals, for the proofs about retention |
| `MountManager` | component B without takeover |

### MaintenanceAdmission

*State.* `cm` is the ConfigMap: phase, operation (slot, worker, claim latch,
holder, restored, unresolved write, outcome), `gc_holder`, heartbeat present.
`paused`, `put` and `job` are GitLab: the runner's flag, the PUT each pod has
under way, and CI jobs with their pods. `obj` is Kubernetes: each pod's object
is absent, live, terminal (all containers terminated) or gone (deleted). Each
process has a control point `pc`, the state `st` it last read, whether its
resourceVersion is still current (`fresh`) and its last pod snapshot `snap`.

*Steps.* A step is the code between two remote calls, so every interleaving at
a remote call is explored. `Store.save` is two steps, the conditional PUT
(`Save`) and its readback (`ReadBack`): a process whose readback sees another
writer gives up although its own write is committed. The code compares the
content it reads back, the model the version; a second writer always changes
the content here, except that a heartbeat written within the same second would
not, so the model only refuses more often.
`alert` always fails afterwards, so its readback changes nothing and it is one
step (`SaveAndRefuse`). The GitLab PUT is sent, may be applied or lost at any
later time, and may fail for its issuer at any moment, applied or not.

| Code | Actions |
|---|---|
| `coordinate` 361-419 | `CoordSnapshot`, `CoordRead`, `CoordBaseline`, `CoordIntent`, put steps, `AckRead`, `CoordDraining`, `CoordLoop`, `CoordObserve`, `CoordRunner`, `CoordScan`, `CoordAdmit`, `CoordTimeout`, `CoordClose` |
| `recover` 422-489 | `RecoverRead`, `RecoverProbe`, `RecoverHeartbeat`, `RecoverReread`, `RecoverGc`, `RecoverGcClear`, `RecoverSnapshot`, `RecoverDecide`, `RecoverSeal`, `RecoverJudge`, `RecoverRestore`, put steps, `AckRead`, `RecoverDone`, `RecoverAlert` |
| PUT with its `except` 383-389, 478-484 | `PutSend`, `PutAnswered`, `PutFails`, `PutReadBack`, `UnknownRead`, `UnknownAlert` |
| `WorkerFence`, `retain` | `WorkerRead`, `WorkerClaim`, `WorkerCheck`, `WorkerGate`, `WorkerDelete` |
| `gc_claim`, the GC script | `GcGate`, `GcRead`, `GcClaim`, `GcWork` |
| exceptions, alarms, Job deadlines, node loss | `Abort`, at any step of a mortal kind |

*Abstractions.* Time is the current slot and one of five stages between the
deadlines the code compares with. The heartbeat's age is nondeterministic (the
coordinator may always refuse). Pod identities are slots for coordinators and
workers (backoffLimit 0) and a reusable set for the others; an identity is
reused only when nothing refers to it. `drained()` queries nine statuses; they
form three groups in the order a job passes through them, each read at once (the
statuses before execution are one group: no property tells them apart). Malformed answers,
token expiry and policy mismatches end the process. `w_delete` is the moment of
deletion; what is deleted is the subject of `CacheRetention`.

*Bounds.* `MaxSlot` (hourly slots), `MaxFaults` (deaths and deletions) and the
finite sets of identities and jobs bound every variable. Two recovery
identities let one pod find what another left behind; one job covers the
non-atomic scan, because jobs do not interact; two slots cover one handover
from an operation to the next; two faults let a holder die after a first
failure. The theorems below need none of these bounds.

*Fairness* (`FairSpec`, only for `OpenOperationResolves`): time passes, and
some recovery pod keeps running: a process takes its next step (every remote
call has a 5 s timeout and the process a 45 s alarm), the CronJob controller
starts the next pod and the kubelet reports the end of the last. Nothing is
assumed of the coordinator, the worker, store GC, GitLab or CI.

### CosiProvisioning

*State.* `obj` is the API server's Bucket, BucketClaim and BucketAccesses, each
with its life (absent, live, deleting, gone), its finalizers and its status;
`secret` the credentials Secrets by name. `entry`, `conf` and `identity` are
the filer: the bucket's directory, its PathConf in `filer.conf`, and the S3
identity of each access. `event`, `todo` and `indexed` are the controller
library's view: the version last seen, the queued operation, and the objects
whose Add has succeeded. Each object has one handler: its control point `at`,
its argument `arg`, the copy it fetched (`copy`) and the credential it holds.

*Steps.* A step is one remote call, to the API server or to the driver; the
driver's calls are split where they make a second call to the filer.

| Code | Actions |
|---|---|
| `BucketListener.Add` | `BucketAdd`, `CreateEntry`, `SetLocationConf`, `UpdateBucketStatus`, `UpdateBucketClaimStatus`, `AddBucketFinalizer` |
| `BucketListener.Update`, `cleanupDeletedBucket`, `deleteBucketOp` | `BucketUpdate`, `ListAccesses`, `DeleteListedAccess`, `DeleteEntry`, `DeleteLocationConf`, `ReleaseClaim`, `RemoveBucketFinalizers` |
| `BucketAccessListener.Add`, `markBucketAccessGranted` | `AccessAdd`, `CheckReady`, `GetSecret`, `GrantAccess`, `CreateSecret`, `MarkGranted` |
| `BucketAccessListener.Update`, `deleteBucketAccessOp` | `AccessUpdate`, `GetSecret`, `RevokeAccess`, `UnpinSecret`, `DeleteSecret`, `RemoveAccessFinalizer` |
| any call failing, before or after it took effect | `Fail` |

*External.* The API server refuses a write of a copy that is not current, takes
no new finalizer for an object that is being deleted, and removes a deleted
object with its last finalizer. Every write of the sidecar changes an object
in one direction, so no version comes back and equality of the contents stands
for equality of the resourceVersion. The controller library (a dependency of
the sidecar) serves one operation per UID at a time, calls Add until it has
succeeded once and Update from then on, requeues what fails and resyncs; after
a restart all objects are announced as new. Users create and delete accesses
and the claim; the COSI controller deletes the bucket of a deleted claim.

*Switches.* `Hasty` users delete objects before the sidecar has set them up;
patient ones wait, and reuse the name of an access only when the sidecar has
finished with the former one (accesses are looked up by name in the code, by
UID in the model: `NamesAssumption`). `ClaimProtected` says whether the COSI
controller has put its finalizer on the claim. `EmptyOnNotFound` is what a typed
Kubernetes client returns with NotFound: an empty object (client-go) or nil
(the fake client of the unit tests).

*Abstractions.* One claim and one bucket of this driver; access classes, the
authentication type, policies, endpoints and Azure credentials are left out, and
so is a Secret that somebody else has put under the access's name and that has
no S3 credentials in it (`bucketaccess_controller.go:351-362`). A random
credential is the pair of its access and a number.

*Bounds.* The accesses are used once each, and `MaxFaults` bounds failed calls,
restarts and lost identities together. Two accesses under one name cover a
re-creation; one fault at any step covers each lost answer. Two accesses that
are live at once are not covered by a run.

*Fairness* (`FairSpec`): the informer delivers, and queued operations are
served to their end and again after each failure, as the library's work queue
does. `ResyncSpec` adds a resync that keeps coming; the deletions that do not
complete do not even complete with it.

### CacheRetention

*State.* A tree is a directory below a retention root: entries left, the inode
of its root, a version of what `snapshot` fingerprints, its newest file, and the
change times that the fingerprint leaves out. `held` is what host processes have
open or mounted; `early` the part of it that is older than the last listing of
`/proc`, `moved` the part that was handed to a process outside that listing.
`gate` says whether fence and Pod lists would pass: `MaintenanceAdmission` is
where that is decided.

| Code | Actions |
|---|---|
| `main`, claim and first gate | `Claim` |
| `mount_ids`, `open_ids` | `List` (the processes), `Read` (their mounts and descriptors) |
| candidate loop, `snapshot` | `Scan`, one tree per step |
| age, pressure, capacity | `PickAge`, `Pressure`, `PickCapacity` |
| `delete` | `Gate1`, `List`, `Read`, `Prove`, `Gate2`, `Remove` (one entry per step) |
| `clean_uv` | `UvProof`, the same gates and proofs, `CleanUv` |
| last checks | `Finish` |
| host | `Open`, `Close`, `HandOver`, `Change`, `LoseGate`, `Grow` |

*Bounds.* Four trees are one workspace, one cache linked to it, one protected
name and the uv cache; two entries let a tree change in the middle of its
removal; `MaxEvents` = 2 lets a process act before and after a scan. Use, days
and thresholds are small numbers in the order the code compares them.

### NasExport and RecoveryPoints

*State.* `exports` and `dbs` are the directories on the NAS by their stamp, with
the files in them, whether the archive is intact and which components it has,
and whether data (`synced`) and name (`linked`) survive the loss of the node.
`remote` is the object store, `lock` the flock, `job` the local variables of
`main`, `hook` the stage of the admission hook. `seen`, `dbSeen` and `broken` are
history variables.

| Code | Actions |
|---|---|
| flock | `Start` |
| `produce` with any report of the native tool | `Produce` |
| `inspect_archive`, `completed`, `completed_db_archives` | `Inspect` |
| stage, fsyncs, rename, fsync of the directory | `Copy`, `Sync`, `Rename`, `Publish` |
| `prune_owned`, one unlink or rmdir per step | `PruneExport`, `PruneDb` |
| native cleanup | `Cleanup` |
| exception, loss of the node | `Raise`, `Lose` |
| `upgrade-admission.sh` | `HookStage`, `HookPublish`, `HookFail` |

A Job that is killed loses its lock; its stage has a name no run looks at, so
it is not kept in the model (nobody removes such stages). What is pruned is gone
at once: the syncs after it (262-264) have nothing left to do on the synchronous
NFS export, and no step between the removals and them depends on it. Bounds: four stamps,
two exports and one database archive kept, one fault, two Jobs: enough for a
prune that is cut short and found by the next run, and for a second Job.

*Refinement.* `RecoveryPoints` is what retention promises: points appear in the
order of their stamps, and only the oldest goes, only while more than `Keep` are
left. `ExportsRetained` and `ArchivesRetained` map `points` to the complete,
durable directories and `published` to the history of them.

### MigrationRelease, KustomizeExport, ReleasePipeline

`MigrationRelease` translates the check into operators: `ReleaseOf`
(unique keys, one generator, one literal per key), `DriftAllowed`, the parser
`ParseJobs` and the name check `Matches`. A text is a sequence of words, dashes
and colons, so that three dashes may stand anywhere: `ParseLine` cuts at them
inside a line too, and a tag may be cut short or a Job be cut off before its
name or its image. A target of the check is a sequence of Jobs (`Targets`); an
image may lack a tag. The state of the module is the main branch; a merge brings
in any release or target that the check accepts, with every literal kustomize
might take.

`KustomizeExport` is `main` of the exporter: `CleanOutputs`, then for each
component `Fetch` (one kubectl call), `WriteFiles`, `WriteIndex` and the
postprocessing (`GrafanaFiles`, `GrafanaRules`, `GrafanaVolumes`, `GrafanaIndex`;
`GitlabJob`, `GitlabIndex`), then `Aggregate`. `Interrupt` ends a run between any
two steps. `CleanOutputs` removes apps, then infrastructure, as `shutil.rmtree`
does: one file per step (`RemoveFile`, `RemoveIndex`, `RemoveAggregate`), in any
order, except that a component's directory (`dir`) is emptied before the next is
entered. `torn` is a history variable: the roots whose removal has begun and not
ended. A manifest keeps what `strip_resource` may get wrong: labels where
they are selected on or immutable, runtime state, the image tag, the mounted
ConfigMap. The manifests of one component are written in one step: files that
no kustomization.yaml names yet are not looked at by anybody.

`ReleasePipeline` closes the circle: a merged release is rolled out one
Deployment at a time (`Rollout`), objects are changed by hand (`Edit`), the
exporter runs, and its release is merged if the check accepts it
(`MergeExport`). The exporter also removes apps/feedback, which it does not write
again, and without it the second half of the check fails; the model leaves that
out, so it merges more exports than the check lets through.

Bounds: three components (same names in two namespaces and a
cluster object found twice, Grafana, GitLab), three runs, two changes, one merge,
three literals, four versions around the step from minor 11 to the next major.
The targets are all single Jobs over three names, five images and three
places for the dashes, and pairs of a Job that is cut or seen and a second one.
Two constraints bound the run. `Apart` keeps what the exporter cannot see, the
feedback Jobs and most of the releases, apart from its runs. `Quiet` leaves out
changes in the middle of a removal: they commute with its steps, which read
nothing of the cluster, and are explored right after it. It also has removals cut
short, and orders of removal, only before the first change, and lets the third
run follow only such a cut, so that it starts from a half-removed tree. The
theorems have neither constraint.

### BucketAudit

Each read is an action: `List`, `ListVolumes`, `LoadObjects`, `InspectBucket` per
named bucket, `Report`; `Fail` is any command that fails. `Evidence` is a place
that may name a bucket, with the facts `search_text_paths` and
`search_live_objects` look at. `steady` is what has not changed since the audit
began: the verdicts are stated for that alone, and what a change between the
reads does to the others is promised nowhere. Two changes of the world per audit.

### MountManager

One volume and its target path: calls (`GetLock`, `Lock`, `MountCheck`,
`MountStart`, `MountReady`, `MountStore`, `MountGivesUp`, `UnmountCheck`, `Stopped`,
`StopFails`), weed processes (`WeedMounts`, `WeedExits`) and the goroutine of each
(`Wait`: reap, unmount, close done, detach). `stack` is the mount table at the
target; waiting for the mount accepts that of whichever live process, and fails
at that of a dead one. Three calls and three processes are enough for a second Mount.

## 3. Runs

| Run | Shows |
|---|---|
| `admission_restore` | one operation, two recovery identities, two faults of any kind: `TypeOK`, `LateWriteRecorded`, `RestoreAfterRetirement`, `DoneMeansRestored`, `OutcomeHonest`, `ClaimLatchKept`, and `AlertNeverRestored`: an operation that was ever alerted is not restored |
| `admission_drain` | a CI job, or store GC whose pod object may be deleted, beside pause, drain and cleanup: `CleanupExclusive`, `GcHoldsSlot`. The constraint `GcOrCi` explores jobs and GC side by side instead of together, and leaves failing and late writes beside GC to `admission_restore`; the theorems have them all together |
| `admission_slots` | two consecutive operations: `OperationsDoNotOverlap`. What the second one does after it opened is cut off by the constraint `LastOperationOpens` |
| `admission_liveness` | `OpenOperationResolves` |
| `cosi_rotation` | an access deleted and created again under its name, one fault: `TypeOK`, `CredentialsAgree`, `GoneMeansRevoked` |
| `cosi_hasty` | deletions in the middle of a set-up, one fault: `GrantPinsBucket`, `ReadyClaimHasBucket`, `ReleasedBucketDeleted` (here without the COSI controller's finalizer on the claim; the theorem covers both) |
| `cosi_liveness` | `AccessGranted`, `BucketDeletionCompletes` with one failed call or restart |
| `cache_retention` | host processes act between the worker's scans, gates and removals: `AdmittedAtProof`, `RefusalHasCause`, `OnlyProvenRemoved`, `HeldTreesKept`, `AgeBeforeCapacity` |
| `nas_export` | two Jobs, the hook, one exception or lost node: `TypeOK`, `ExportsRestorable`, `HalfRemovedByPruneOnly`, `RemovalAfterGoodPoint`, `SuccessTrims`, and the refinements `ExportsRetained`, `ArchivesRetained` |
| `release_pipeline` | merges, rollouts, edits and interrupted exports: `MigrationsAhead`, `JobRenamed`, `Renderable`, `AggregatesWhole`, `SuccessIsCurrent`, `ReleaseCarried`; the three about the tree as it lies there except for a root that is half removed |
| `bucket_audit` | `VolumeVerdicts`, `BucketVerdicts`, `QuietMeansClean` |
| `mount_race` | expected violation of `LiveMountKept` |

Deadlock is not checked: after the last slot, run or call, and once all objects
are gone, everything may have ended.

*Finding* (`mount_race`). A Mount whose wait for the mount point fails stops its
process; when the stop times out (`manager.go:431-436`, `478-502`) it returns all
the same, and its mutex is free. A later Mount starts and stores a new process.
When the old process exits at last, its `wait()` unmounts the target, now the
mount of the new process, and then drops the volume's entry, whichever process
it is of, both without the mutex. `manager.go:134-136` says of `wait()` that it
"handles the unmount when the process terminates" and that this "avoids
potential race conditions".

*Observations.* The following formulas are defined in the modules and are
refuted by TLC with the values given; the code does not keep them.

* `AlertLatched` (`Admission_restore.cfg` with `MaxFaults = 0`). `recover` looks at
  ALERT once, at its first read (line 424). If the coordinator records
  `unknown-pause-write` after recover's heartbeat save and before its second
  read (435), recover carries on with the alerted state and its seal (457)
  overwrites ALERT with CLOSING, although line 425 and the docstring call ALERT a
  latch. The unresolved write stays recorded, so recovery raises ALERT again and
  never unpauses the runner: `AlertNeverRestored` holds. It does so because
  recovery pods do not overlap (`concurrencyPolicy: Forbid`); with
  `Forbid = FALSE` it fails. It is the only property of A whose theorem assumes `Forbid`.
* `ReadyBucketProtected` (`Cosi_hasty.cfg` with `Hasty = FALSE`). Bucket Add
  reports the claim ready before it adds BucketFinalizer. A BucketAccess waiting
  for the claim pins the bucket at that moment, Add's update is refused, and the
  retried Add returns early because the bucket is ready
  (`bucket_controller.go:93`): the bucket never gets BucketFinalizer, and
  deleting it skips `deleteBucketOp`.
* `GoneMeansRevoked` with hasty users (`Cosi_hasty.cfg`). BAFinalizer is added
  after the grant, so an access deleted before that disappears and leaves its
  identity and Secret behind (`bucketaccess_controller.go:318`).
* `AccessDeletionCompletes` (`Cosi_liveness.cfg` with `ResyncSpec`). BucketAccess
  Add ignores `deletionTimestamp`; after a restart a deleted access is granted
  again, and blocked once its claim is gone. With `EmptyOnNotFound = TRUE` a
  failed call is enough: client-go returns a non-nil empty object for a Secret
  that is not found, so the retry of a deletion whose Secret is already gone
  asks to delete a Secret without a name, every time
  (`bucketaccess_controller.go:422-428`).
* `VanishedIsNoEvidence` (`Retention.cfg`). Processes are listed, then read: one
  that forks and exits in between is passed over, and its child, which holds the
  same files, is not in the list. `HeldTreesKept` is what the scan does ensure.
* `Renderable`, `AggregatesWhole` and the first half of `ReleaseCarried` without
  the condition on `torn` (`Release_pipeline.cfg`). A run that ends inside
  `rmtree` (`export_to_kustomize.py:937-939`) may leave a kustomization.yaml whose
  manifests are gone, or `apps/kustomization.yaml` over components that are,
  until a later run has removed the rest.
* `JobRenamed` without `Whole` (`Release_pipeline.cfg`). `rendered.split("---")`
  (`validate_versioned_migration_jobs.py:176`) cuts inside a line: the tag
  `v1---x` is read as `v1`, so it may become `v1---y` under an unchanged name. And
  a Job with three dashes before its image is not seen at all; the check only
  notices when the target has no other Job.
* `deleteBucket` stops at a missing directory, so a retry after a failed
  `filer.conf` update leaves the PathConf (`provisioner.go:199`): `conf` may stay
  TRUE for a bucket that is gone.
* A backup Job that ends inside `prune_owned` leaves a completed name without its
  contents (`broken`), and every later run refuses until an operator removes it
  (`nas-export.py:172`, `192`).

## 4. Proofs

Every theorem holds for all values of the constants that the named assumptions
allow. Each inductive invariant was checked by TLC on the instances of the runs
before it was proved, and the preservation proofs have one lemma per action or
group of actions. Of the safety properties the passing runs check, all but
`JobRenamed` are proved.

### Maintenance admission

`MaintenanceAdmissionProofs` (assumed: `MaxSlot` a positive natural,
`MaxFaults` a natural, `Forbid` Boolean), with or without overlapping recovery
pods:

| Theorem | Property |
|---|---|
| `Invariance` | `IInv`, the inductive invariant |
| `TypeCorrect` | `TypeOK` |
| `CleanupIsExclusive` | `CleanupExclusive` |
| `LateWritesAreRecorded` | `LateWriteRecorded` |
| `RestoresAfterRetirement` | `RestoreAfterRetirement` |
| `DoneIsRestored` | `DoneMeansRestored` |
| `GcKeepsSlot` | `GcHoldsSlot` |

`IInv` strengthens the properties with what each process may rely on.
`RunnerPaused` ties the phase to GitLab: in DRAINING, ADMITTED and CLAIMED the
runner is paused, in DONE it is not. For every pod,
`Own(p)` says what it knows: its copy is the ConfigMap while its version is
fresh (`Copied`), the pods in its snapshot have stopped (`Stopped`), and what
it decided on its way is still true if its save can still succeed (`Known`,
`GcRetired`, `Drained`). `Held(p)` says what nobody can take away from it: GC
its slot (`GcSlot`), a pausing coordinator and a restoring recovery pod the
current operation with an unresolved write (`PauseOpen`, `RestoreOpen`), a
claimed worker its operation and a quiet runner (`WorkerAlone`). The key step
is that a stopped process stays stopped: a terminal object is only reported
after the end, and identities are reused only once nobody refers to them
(`StaysStopped`).

`MaintenanceHistoryProofs` builds on `IInv`:

| Theorem | Property |
|---|---|
| `HistoryInvariance` | `HInv`, inductive on top of `IInv` |
| `OutcomesHonest` | `OutcomeHonest` |
| `ClaimsLatched` | `ClaimLatchKept` |
| `OperationsApart` | `OperationsDoNotOverlap` |
| `AlertsStay` | `AlertNeverRestored`, if `Forbid` |

A save succeeds only on the current version, so `Course(p)` can say what each
save does to the operation that is there (`CommitEffect`). `OpInv` says what
each phase implies of the operation: which phases can have a claim or an
unresolved write, and that a restored operation's worker has stopped, so that
its recorded outcome cannot go stale. `Opening(p)` is what a coordinator that
is about to save its intent has seen of the operation before: it is restored,
older, and its holder has stopped. `AlertNeverRestored` is false without
`Forbid` (section 3), and its proof shows where the policy enters: `Alone` says
that recovery pods do not overlap, hence that in ALERT without an unresolved
write no recovery pod is past its first read, the only one that looks at ALERT.

### COSI provisioning

`CosiProvisioningProofs` (assumed: accesses are no other object's name, every
access has a Secret name, switches are Boolean, `MaxFaults` a natural):

| Theorem | Property | Holds |
|---|---|---|
| `Invariance`, `TypeCorrect` | `IInv`, `TypeOK` | always |
| `GrantsPin` | `GrantPinsBucket` | always |
| `ReadyClaims` | `ReadyClaimHasBucket` | always |
| `ReleasedLast` | `ReleasedBucketDeleted` | always |
| `SettledInvariance` | `SettledInv` | `~Hasty` |
| `CredentialsKept` | `CredentialsAgree` | `~Hasty` |
| `GoneRevoked` | `GoneMeansRevoked` | `~Hasty` |

`IInv` is about what the stored objects imply: a cleanup is begun only for a
bucket that is being deleted, and from then on neither bucket nor claim is live
(`BucketInv`); an access on its way to its status has pinned its bucket
(`PinInv`). It needs nothing of the users. `SettledInv` follows a credential
between handler, Secret and identity file (`CredInv`), through the queue of the
controller library (`QueueInv`: an access that is gone is never added again),
and says that a Secret belongs to one existing access (`Owned`); it needs users
who wait for the sidecar, and `GoneMeansRevoked` is false otherwise (section 3).
The proofs cover any number of accesses, live at once or not, which the runs do
not.

### Cache retention

`CacheRetentionProofs` (assumed: the trees are numbered, the retention days and
marks are ordered as in the code):

| Theorem | Property |
|---|---|
| `Invariance` | `IInv` |
| `Admitted` | `AdmittedAtProof` |
| `RefusalsCaused` | `RefusalHasCause` |
| `ProvenRemoved` | `OnlyProvenRemoved` |
| `HeldKept` | `HeldTreesKept` |
| `AgeFirst` | `AgeBeforeCapacity` |

`Versions`: a tree that changed since its first snapshot never equals it again,
although a removal changes it too. `Proven`: what the last scan of `/proc` did
not see was not open before it. `Phases`: capacity is looked at only when every
expired tree is gone, and a tree being removed is neither in the list nor gone.
`Quiet`: as long as nobody else has acted, nothing the worker does makes a
second snapshot differ from its first, which is what makes a refusal mean
something.

### NAS export

`NasExportProofs` (assumed: `ExportAssumption`, positive retention counts and the
components a bucket may hold; `NoneAssumption`, `None` is no Job, stamp or directory):

| Theorem | Property |
|---|---|
| `Invariance`, `TypeCorrect` | `IInv`, `TypeOK` |
| `Restorable` | `ExportsRestorable` |
| `OnlyPruneHalves` | `HalfRemovedByPruneOnly` |
| `GoodPointFirst` | `RemovalAfterGoodPoint` |
| `EndTrims` | `SuccessTrims` |
| `ExportsImplement` | `ExportsRetained` (refinement of `RecoveryPoints`) |
| `ArchivesImplement` | `ArchivesRetained` (refinement of `RecoveryPoints`) |

The flock makes one Job the only writer of the exports (`Exclusive`), so what it
listed still holds when it publishes (`Ahead`, `Staged`, `Whole`); every name in
the directory comes from a synced, inspected stage (`Sound`). The refinement
needs that stamps never come back: the newest published export is never pruned
(`History`). `Pruning` says that what is left to prune is the oldest part of
what there is, without this run's own export, and that enough remains: the step
that removes a directory is then the abstract step that drops the oldest point,
every other one a stutter or a publication. Cardinalities come from
`FiniteSetTheorems`; that `First` and `Newest` exist comes from `NaturalLemmas`,
by well-foundedness of the naturals rather than by induction.

### Release pipeline

`ReleasePipelineProofs`:

| Theorem | Property |
|---|---|
| `Invariance` | `IInv` |
| `NeverBehind` | `MigrationsAhead` |
| `AlwaysRenderable` | `Renderable` |
| `AggregatesAreWhole` | `AggregatesWhole` |
| `SuccessShowsCluster` | `SuccessIsCurrent` |
| `ReleaseIsCarried` | `ReleaseCarried` |

Assumed of the list of components (`ComponentsAssumption`): directories are
distinct, a postprocessing runs in the directory of its name, beside the objects
it needs, and no Job is among the objects queried for GitLab (the script asks
for `cronjobs.batch` only). `ExportAssumption` excludes two objects of one
component with one file name; `TagsAssumption` says that an image tag is a
version or malformed, `AbsenceAssumption` that `None` is nothing else.
The removal is entry by entry here too: `Renderable`, `AggregatesWhole` and the
tags of `ReleaseCarried` are proved of every root that is not `torn`, and
`SuccessIsCurrent` says that none is at the end. `TypeInv` has what makes this
worth something: outside the removal, in a run that goes on, nothing is torn.
`RemovalEffect` shows that a step of the removal touches only directories of
the root that it marks as torn, so every other component keeps what it had.
`MigrationsAhead` follows from `DriftAllowed` by arithmetic on release numbers,
once it is shown that all that kustomize may render of an accepted file is what
the check read (`RenderedIsRead`). For the exporter, `Progress(i)` says of each
component what the run has and has not done: removed and not yet written, or
complete and current. `CollectedInv` ties the manifests in memory to the
cluster, `WrittenInv` and `PostInv` the tree to the memory, so that after the
last component everything steady is current; `CarriedInv` outlives the run.

### Bucket audit

`BucketAuditProofs` (assumed: volumes and buckets are different things, and the
kinds of evidence): `VolumesJudged` (`VolumeVerdicts`), `BucketsJudged`
(`BucketVerdicts`), `QuietIsClean` (`QuietMeansClean`). What a phase has read
stays true of all that is still steady (`DirsKnown`, `BoundKnown`,
`BucketsKnown`), a bucket is judged once (`Unjudged`, `Judged`), and the exit
status sums this up (`Ended`).

### Changes the proofs led to

Two arms of a CASE in `CosiProvisioning` overlapped; which one TLC took was the
one of the code, but the formula did not say so. `KustomizeExport` relied on
`@@`, which has no meaning to the prover, and on facts about the component list
that only the instance ensured; these are assumptions now.

### Only model-checked

* `OpenOperationResolves`, `AccessGranted`, `BucketDeletionCompletes`: liveness
  under fairness is outside TLAPS.
* `JobRenamed`: `ParseJobs` is a fold over the lines of a text, and what a fold
  computes for every input takes induction over data.
* `LiveMountKept` is refuted, not proved; nothing else is stated of
  `MountManager`.

## 5. Plan

Done: components A, A', E, F, G, H, and B without takeover. Next:

1. Proofs: what `RecoveryPoints` promises to its reader (the newest `Keep` points
   ever published are kept) as an invariant of the abstract specification, for
   the refinements to hand down; the steps of `ParseJobs` on a single line.
2. Takeover between two mount services, composed from `MountManager`; one owner
   per volume as its abstract specification.
3. The CSI node server over an abstract mount service; the consumer recycler.

Hazards met while reading that no property covers and `PROJECT.json` does not
list, for whoever continues:

- `maintenance-admission.py:369`: the heartbeat of recovery is checked when the
  operation opens; recovery may stop right afterwards;
- `mountmanager/manager.go:63`: Mount and Unmount look at the takeover flag
  before they take the volume's mutex; `takeover.go:243`: the new service may
  fail after the old one has finalised;
- `recycler/cycler.go:166`: the debouncer marks a volume when a cycle is tried;
- `provisioner.go:199` and `:334`: `filer.conf` is read, changed and written
  back without a version, and is not repaired once the directory is gone;
- `bucketaccess_controller.go:428`: a Secret is deleted by its name only;
- `export_to_kustomize.py:304`: two objects with one file name (excluded by
  `ExportAssumption`); `:128`: a missing object is passed over; `:815`: an
  export takes `migrationVersion` back to `appVersion`; `:939`: apps/feedback is
  removed with apps and not written again;
- `audit_seaweedfs_buckets.py:166`: a handle that is no `pvc-*` name is not
  compared.

## 6. Not modelled

The manifest validators (`validate_gitlab_helm.py`, `validate_ibgateway_manifest.py`,
`validate_factorio_manifest.py`, `validate_temporal_manifest.py`,
`validate_hestia_ci_store_gc_alert.py`, `validate_gitlab_runner_templates.py`,
`validate_shared_postgres_budget.py`) compare one rendered manifest with a table of
constants and keep no state: a model would only repeat the table. Manifests and
documentation have no protocol state. The CSI controller server and the DRA driver
translate single requests. The CSI node server, the consumer recycler and takeover
between mount services are in the plan. Of the retention worker, dry runs
are left out; of the audit, volumes whose
handle is no `pvc-*` name; of the upgrade admission hook, its version and schema
checks, which come before its first write. Vendored and generated code is left out.
