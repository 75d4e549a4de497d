-------------------------- MODULE CosiProvisioning --------------------------
(***************************************************************************)
(* The COSI provisioner sidecar                                            *)
(* (drivers/cosi-provisioner-sidecar/pkg/bucket, pkg/bucketaccess) and the *)
(* SeaweedFS driver it calls (drivers/seaweedfs-cosi-driver/pkg/driver):   *)
(* one claim, its Bucket, and the BucketAccesses that come and go for it.  *)
(*                                                                         *)
(* The sidecar's listeners are called with a copy of the object that       *)
(* changed, one call per object at a time, and again until they succeed.   *)
(* A step is one remote call: to the API server, where a write of a copy   *)
(* that is no longer current is refused, or to the filer.  Between any two *)
(* steps the handler may be told that its call failed, or the sidecar may  *)
(* restart and be given every object anew.                                 *)
(***************************************************************************)
EXTENDS Naturals

CONSTANTS Accesses,        \* UIDs of the BucketAccess objects
          Secrets,         \* names of BucketAccesses; each has its own Secret
          SecretOf,        \* the name an access is created under
          ExistingBucket,  \* TRUE: the Bucket names an existingBucketID
          NeedsConf,       \* TRUE: the class sets a disk type or replication
          DeletePolicy,    \* TRUE: deletionPolicy Delete, FALSE: Retain
          Hasty,           \* TRUE: users do not wait for the sidecar before they
                           \* delete an object or create one under its name
          ClaimProtected,  \* TRUE: the controller has put its finalizer on the claim
          ClaimDeletable,  \* TRUE: the claim, and with it the bucket, may be deleted
          EmptyOnNotFound, \* TRUE: Get returns an empty object with NotFound
          FaultKinds,      \* what may go wrong: "call", "restart", "identity"
          MaxFaults        \* how often it may

ASSUME SecretOfAssumption == SecretOf \in [Accesses -> Secrets]
ASSUME SwitchAssumption ==
  /\ ExistingBucket \in BOOLEAN /\ NeedsConf \in BOOLEAN /\ DeletePolicy \in BOOLEAN
  /\ Hasty \in BOOLEAN /\ ClaimProtected \in BOOLEAN /\ ClaimDeletable \in BOOLEAN
  /\ EmptyOnNotFound \in BOOLEAN
ASSUME CosiFaultsAssumption == MaxFaults \in Nat
ASSUME AccessesAssumption == {"bucket", "claim", "none"} \cap Accesses = {}
\* Accesses are looked up by UID here, by name in the code: hasty users do not
\* use a name twice.
ASSUME NamesAssumption ==
  Hasty => \A u, v \in Accesses : SecretOf[u] = SecretOf[v] => u = v

VARIABLES
  obj,       \* API server: the bucket, its claim and the accesses
  secret,    \* API server: credentials Secrets
  entry,     \* filer: the bucket's directory exists
  conf,      \* filer: filer.conf has a PathConf for the bucket
  identity,  \* filer: the credential in each access's identity file
  minted,    \* credentials made so far for each access
  faults,    \* failures so far
  event,     \* the version of each object the sidecar was last told of
  todo,      \* the operation queued for each object
  indexed,   \* objects whose Add has succeeded
  at,        \* control point of each object's handler
  op,        \* the operation it is serving
  arg,       \* the copy of the object it was called with
  copy,      \* the copy it fetched before a write
  cred,      \* the credential it holds
  list       \* accesses a bucket cleanup still has to delete

store == <<obj, secret>>
filer == <<entry, conf, identity, minted>>
queue == <<event, todo, indexed>>
handler == <<at, op, arg, copy, cred, list>>
vars == <<store, filer, faults, queue, handler>>

Watched == {"bucket"} \cup Accesses
Objects == {"claim"} \cup Watched
Finalizers == {"BucketFinalizer", "BABucketFinalizer", "BAFinalizer", "BCFinalizer"}

\* An object's life, its finalizers, and its status: BucketReady of a bucket
\* and of a claim, AccessGranted and AccountID of an access.  No update changes
\* anything else, and no version ever comes back: a copy that is equal to the
\* object has its resourceVersion.
Object == [life : {"absent", "live", "deleting", "gone"}, fin : SUBSET Finalizers,
           ready : BOOLEAN]
Absent == [life |-> "absent", fin |-> {}, ready |-> FALSE]
Gone == [Absent EXCEPT !.life = "gone"]
Created == [Absent EXCEPT !.life = "live"]
Exists(o) == obj[o].life \in {"live", "deleting"}

\* A credential is random: it is told apart by its access and its number.
Credential == Accesses \X Nat
NoCred == <<"none", 0>>
NoSecret == [cred |-> NoCred, fin |-> FALSE]

AddSteps == {"a_claim", "a_bucket", "a_secret", "a_grant", "a_create", "a_pin",
             "a_pin_put", "a_fin", "a_fin_put", "a_status"}
RevokeSteps == {"d_secret", "d_revoke", "d_unpin", "d_delete", "d_fin"}
BucketSteps == {"b_create", "b_conf", "b_status", "b_status_put", "b_claim", "b_claim_put",
                "b_fin", "b_fin_put", "b_list", "b_accesses", "b_delete", "b_unconf",
                "b_release", "b_release_put", "b_fins"}
Control == {"idle", "done"} \cup AddSteps \cup RevokeSteps \cup BucketSteps

Init ==
  /\ obj = [o \in Objects |->
              CASE o = "claim" -> [Created EXCEPT !.fin = IF ClaimProtected THEN {"BCFinalizer"} ELSE {}]
                [] o = "bucket" -> Created
                [] OTHER -> Absent]
  /\ secret = [n \in Secrets |-> NoSecret]
  /\ entry = ExistingBucket
  /\ conf = FALSE
  /\ identity = [u \in Accesses |-> NoCred]
  /\ minted = [u \in Accesses |-> 0]
  /\ faults = 0
  /\ event = [o \in Watched |-> Absent]
  /\ todo = [o \in Watched |-> "none"]
  /\ indexed = {}
  /\ at = [o \in Watched |-> "idle"]
  /\ op = [o \in Watched |-> "none"]
  /\ arg = [o \in Watched |-> Absent]
  /\ copy = [o \in Watched |-> Absent]
  /\ cred = [u \in Accesses |-> NoCred]
  /\ list = {}

-----------------------------------------------------------------------------
(***************************************************************************)
(* The API server.                                                         *)
(***************************************************************************)
\* What becomes of x when its finalizers are set to fin: a deleted object goes
\* away with its last finalizer.
WithFin(x, fin) == IF x.life = "deleting" /\ fin = {} THEN Gone ELSE [x EXCEPT !.fin = fin]
\* What a delete request makes of x.
Deleted(x) == WithFin([x EXCEPT !.life = "deleting"], x.fin)

-----------------------------------------------------------------------------
(***************************************************************************)
(* The controller that calls the listeners.                                *)
(***************************************************************************)
Goto(o, next) ==
  /\ at' = [at EXCEPT ![o] = next]
  /\ UNCHANGED <<op, arg, copy, cred, list>>

Reset(o) ==
  /\ at' = [at EXCEPT ![o] = "idle"]
  /\ op' = [op EXCEPT ![o] = "none"]
  /\ arg' = [arg EXCEPT ![o] = Absent]
  /\ copy' = [copy EXCEPT ![o] = Absent]
  /\ cred' = [u \in Accesses |-> IF u = o THEN NoCred ELSE cred[u]]
  /\ list' = IF o = "bucket" THEN {} ELSE list

\* The handler returns an error: its operation is queued again, unless a newer
\* one is, or the object is known to be gone.
Error(o) ==
  /\ Reset(o)
  /\ todo' = [todo EXCEPT ![o] = IF @ # "none" \/ event[o].life = "gone" THEN @ ELSE op[o]]
  /\ UNCHANGED <<store, filer, event, indexed>>

Call(o, step) == at[o] = step /\ UNCHANGED faults
Noted == UNCHANGED queue
Read(o, next) == Goto(o, next) /\ Noted /\ UNCHANGED <<store, filer>>

\* A Get of object x, kept as the base of the write at next.
Get(o, x, next) ==
  /\ at' = [at EXCEPT ![o] = next]
  /\ copy' = [copy EXCEPT ![o] = obj[x]]
  /\ UNCHANGED <<op, arg, cred, list, store, filer>>
  /\ Noted

\* The update of x from a fetched copy to new.
Put(o, x, base, new, next) ==
  \/ /\ base = obj[x]
     /\ obj' = [obj EXCEPT ![x] = new]
     /\ Goto(o, next)
     /\ Noted
     /\ UNCHANGED <<secret, filer>>
  \/ base # obj[x] /\ Error(o)

\* A new version of o reaches the sidecar.  Delete handlers do nothing.
Deliver(o) ==
  /\ event[o] # obj[o]
  /\ event' = [event EXCEPT ![o] = obj[o]]
  /\ todo' = [todo EXCEPT ![o] = IF obj[o].life = "gone" THEN "none"
                                 ELSE IF o \in indexed THEN "update" ELSE "add"]
  /\ UNCHANGED <<store, filer, faults, indexed, handler>>

\* The periodic resync announces an object as updated.
Resync(o) ==
  /\ o \in indexed /\ todo[o] = "none" /\ at[o] = "idle"
  /\ event[o].life \in {"live", "deleting"}
  /\ todo' = [todo EXCEPT ![o] = "update"]
  /\ UNCHANGED <<store, filer, faults, event, indexed, handler>>

Begin(o, kind, first) ==
  /\ at[o] = "idle"
  /\ todo[o] = kind
  /\ todo' = [todo EXCEPT ![o] = "none"]
  /\ op' = [op EXCEPT ![o] = kind]
  /\ arg' = [arg EXCEPT ![o] = event[o]]
  /\ at' = [at EXCEPT ![o] = first]
  /\ UNCHANGED <<store, filer, faults, event, indexed, copy, cred, list>>

Finish(o) ==
  /\ Call(o, "done")
  /\ indexed' = indexed \cup {o}
  /\ Reset(o)
  /\ UNCHANGED <<store, filer, event, todo>>

Fault(kind) ==
  /\ kind \in FaultKinds
  /\ faults < MaxFaults
  /\ faults' = faults + 1

\* A call of the handler fails; or the previous call did and took effect.
Fail(o) ==
  /\ at[o] # "idle"
  /\ Fault("call")
  /\ Error(o)

\* The sidecar dies and starts again; it is told of all objects there are.
Restart ==
  /\ Fault("restart")
  /\ event' = [o \in Watched |-> IF Exists(o) THEN Absent ELSE obj[o]]
  /\ todo' = [o \in Watched |-> "none"]
  /\ indexed' = {}
  /\ at' = [o \in Watched |-> "idle"]
  /\ op' = [o \in Watched |-> "none"]
  /\ arg' = [o \in Watched |-> Absent]
  /\ copy' = [o \in Watched |-> Absent]
  /\ cred' = [u \in Accesses |-> NoCred]
  /\ list' = {}
  /\ UNCHANGED <<store, filer>>

-----------------------------------------------------------------------------
(***************************************************************************)
(* The Bucket listener.                                                    *)
(***************************************************************************)
AfterAccesses(x) ==
  IF "BucketFinalizer" \notin x.fin THEN "b_fins"
  ELSE IF DeletePolicy THEN "b_delete" ELSE "b_release"
Cleanup(x) == IF "BABucketFinalizer" \in x.fin THEN "b_list" ELSE AfterAccesses(x)

\* Mutant: a bucket that is ready needs nothing more.
BucketAddReadyDone ==
  Begin("bucket", "add",
        IF event["bucket"].life = "deleting" THEN Cleanup(event["bucket"])
        ELSE IF event["bucket"].ready THEN "done"
        ELSE IF ExistingBucket THEN "b_status" ELSE "b_create")

\* Mutant: cleanup is left to Update.
BucketAddNoCleanup ==
  Begin("bucket", "add",
        IF event["bucket"].ready THEN "b_claim"
        ELSE IF ExistingBucket THEN "b_status" ELSE "b_create")

BucketAdd ==
  Begin("bucket", "add",
        IF event["bucket"].life = "deleting" THEN Cleanup(event["bucket"])
        ELSE IF event["bucket"].ready THEN "b_claim"
        ELSE IF ExistingBucket THEN "b_status" ELSE "b_create")

BucketUpdate ==
  Begin("bucket", "update",
        IF event["bucket"].life = "deleting" THEN Cleanup(event["bucket"]) ELSE "done")

\* Mutant: an error of the driver is taken for AlreadyExists.
CreateEntryBestEffort ==
  /\ Call("bucket", "b_create")
  /\ entry' \in {TRUE, entry}
  /\ Goto("bucket", IF NeedsConf THEN "b_conf" ELSE "b_status")
  /\ Noted
  /\ UNCHANGED <<store, conf, identity, minted>>

\* createBucket: the directory, then the PathConf if the class wants one.
CreateEntry ==
  /\ Call("bucket", "b_create")
  /\ entry' = TRUE
  /\ Goto("bucket", IF NeedsConf THEN "b_conf" ELSE "b_status")
  /\ Noted
  /\ UNCHANGED <<store, conf, identity, minted>>

SetLocationConf ==
  /\ Call("bucket", "b_conf")
  /\ conf' = TRUE
  /\ Goto("bucket", "b_status")
  /\ Noted
  /\ UNCHANGED <<store, entry, identity, minted>>

UpdateBucketStatus ==
  \/ /\ Call("bucket", "b_status")
     /\ \/ Exists("bucket") /\ Get("bucket", "bucket", "b_status_put")
        \/ ~Exists("bucket") /\ Error("bucket")
  \/ /\ Call("bucket", "b_status_put")
     /\ Put("bucket", "bucket", copy["bucket"], [copy["bucket"] EXCEPT !.ready = TRUE], "b_claim")

\* A bucket that was ready when Add was called is done after this.
UpdateBucketClaimStatus ==
  LET next == IF arg["bucket"].ready THEN "done" ELSE "b_fin"
  IN \/ /\ Call("bucket", "b_claim")
        /\ \/ Exists("claim") /\ obj["claim"].ready /\ Read("bucket", next)
           \/ Exists("claim") /\ ~obj["claim"].ready /\ Get("bucket", "claim", "b_claim_put")
           \/ ~Exists("claim") /\ Error("bucket")
     \/ /\ Call("bucket", "b_claim_put")
        /\ Put("bucket", "claim", copy["bucket"], [copy["bucket"] EXCEPT !.ready = TRUE], next)

\* Fetch x and add a finalizer if it is not there; the API server takes none
\* for an object that is being deleted.
AddFinalizer(o, x, f, get, put, next) ==
  \/ /\ Call(o, get)
     /\ \/ Exists(x) /\ Get(o, x, IF f \in obj[x].fin THEN next ELSE put)
        \/ ~Exists(x) /\ Error(o)
  \/ /\ Call(o, put)
     /\ \/ /\ copy[o].life = "live"
           /\ Put(o, x, copy[o], [copy[o] EXCEPT !.fin = @ \cup {f}], next)
        \/ copy[o].life = "deleting" /\ Error(o)

AddBucketFinalizer ==
  AddFinalizer("bucket", "bucket", "BucketFinalizer", "b_fin", "b_fin_put", "done")

\* Mutant: a bucket that had accesses is not deleted itself.
ListAccessesElse ==
  LET found == {u \in Accesses : Exists(u)}
  IN /\ Call("bucket", "b_list")
     /\ at' = [at EXCEPT !["bucket"] = IF found = {} THEN "b_fins" ELSE "b_accesses"]
     /\ list' = found
     /\ Noted
     /\ UNCHANGED <<op, arg, copy, cred, store, filer>>

\* Mutant: the comparison of bucketClaimName is lost, and the accesses of other
\* claims of the namespace, "other" standing for one, are deleted as well.
ListAccessesUnfiltered ==
  LET found == {u \in Accesses : Exists(u)} \cup {"other"}
  IN /\ Call("bucket", "b_list")
     /\ at' = [at EXCEPT !["bucket"] =
                 IF found = {} THEN AfterAccesses(arg["bucket"]) ELSE "b_accesses"]
     /\ list' = found
     /\ Noted
     /\ UNCHANGED <<op, arg, copy, cred, store, filer>>

\* cleanupDeletedBucket: the accesses of the namespace are listed, and those
\* whose bucketClaimName is the claim (Accesses) are deleted one by one, and not
\* waited for.
ListAccesses ==
  LET found == {u \in Accesses : Exists(u)}
  IN /\ Call("bucket", "b_list")
     /\ at' = [at EXCEPT !["bucket"] =
                 IF found = {} THEN AfterAccesses(arg["bucket"]) ELSE "b_accesses"]
     /\ list' = found
     /\ Noted
     /\ UNCHANGED <<op, arg, copy, cred, store, filer>>

DeleteListedAccess(u) ==
  /\ Call("bucket", "b_accesses")
  /\ u \in list
  /\ \/ /\ Exists(u)
        /\ obj' = [obj EXCEPT ![u] = Deleted(@)]
        /\ list' = list \ {u}
        /\ at' = [at EXCEPT !["bucket"] =
                    IF list = {u} THEN AfterAccesses(arg["bucket"]) ELSE "b_accesses"]
        /\ Noted
        /\ UNCHANGED <<op, arg, copy, cred, secret, filer>>
     \/ ~Exists(u) /\ Error("bucket")

\* deleteBucket: a directory that is not found ends the call there.
DeleteEntry ==
  /\ Call("bucket", "b_delete")
  /\ entry' = FALSE
  /\ Goto("bucket", IF entry THEN "b_unconf" ELSE "b_release")
  /\ Noted
  /\ UNCHANGED <<store, conf, identity, minted>>

DeleteLocationConf ==
  /\ Call("bucket", "b_unconf")
  /\ conf' = FALSE
  /\ Goto("bucket", "b_release")
  /\ Noted
  /\ UNCHANGED <<store, entry, identity, minted>>

ReleaseClaim ==
  \/ /\ Call("bucket", "b_release")
     /\ \/ "BCFinalizer" \in obj["claim"].fin /\ Get("bucket", "claim", "b_release_put")
        \/ "BCFinalizer" \notin obj["claim"].fin /\ Read("bucket", "b_fins")
  \/ /\ Call("bucket", "b_release_put")
     /\ Put("bucket", "claim", copy["bucket"],
            WithFin(copy["bucket"], copy["bucket"].fin \ {"BCFinalizer"}), "b_fins")

\* The copy Add or Update was called with is written back; a bucket that is being
\* deleted has at least one of the two finalizers.
RemoveBucketFinalizers ==
  /\ Call("bucket", "b_fins")
  /\ Put("bucket", "bucket", arg["bucket"],
         WithFin(arg["bucket"], arg["bucket"].fin \ {"BABucketFinalizer", "BucketFinalizer"}),
         "done")

BucketStep ==
  \/ BucketAdd \/ BucketUpdate
  \/ CreateEntry \/ SetLocationConf
  \/ UpdateBucketStatus \/ UpdateBucketClaimStatus \/ AddBucketFinalizer
  \/ ListAccesses \/ \E u \in Accesses : DeleteListedAccess(u)
  \/ DeleteEntry \/ DeleteLocationConf \/ ReleaseClaim \/ RemoveBucketFinalizers

-----------------------------------------------------------------------------
(***************************************************************************)
(* The BucketAccess listener.  Add does not look at deletionTimestamp.     *)
(***************************************************************************)
AccessAdd(u) == Begin(u, "add", "a_claim")
AccessUpdate(u) ==
  Begin(u, "update", IF event[u].life = "deleting" THEN "d_secret" ELSE "done")

CheckReady(u, x, step, next) ==
  /\ Call(u, step)
  /\ \/ Exists(x) /\ obj[x].ready /\ Read(u, next)
     \/ ~(Exists(x) /\ obj[x].ready) /\ Error(u)

\* Both operations fetch the Secret; its credential, if there is one, is kept.
GetSecret(u, step, next) ==
  /\ Call(u, step)
  /\ at' = [at EXCEPT ![u] = next]
  /\ cred' = [cred EXCEPT ![u] = secret[SecretOf[u]].cred]
  /\ Noted
  /\ UNCHANGED <<op, arg, copy, list, store, filer>>

\* Mutant: the credential of the Secret is not sent with the request.
GrantAccessMints(u) ==
  LET granted == IF identity[u] # NoCred THEN identity[u] ELSE <<u, minted[u] + 1>>
  IN /\ Call(u, "a_grant")
     /\ identity' = [identity EXCEPT ![u] = granted]
     /\ minted' = [minted EXCEPT ![u] = IF identity[u] = NoCred THEN @ + 1 ELSE @]
     /\ cred' = [cred EXCEPT ![u] = granted]
     /\ at' = [at EXCEPT ![u] = IF cred[u] # NoCred THEN "a_pin" ELSE "a_create"]
     /\ Noted
     /\ UNCHANGED <<op, arg, copy, list, store, entry, conf>>

\* DriverGrantBucketAccess, under the driver's mutex: the credential of the
\* Secret if the request has one, else the identity's, else a new one.
GrantAccess(u) ==
  LET granted == IF cred[u] # NoCred THEN cred[u]
                 ELSE IF identity[u] # NoCred THEN identity[u]
                 ELSE <<u, minted[u] + 1>>
  IN /\ Call(u, "a_grant")
     /\ identity' = [identity EXCEPT ![u] = granted]
     /\ minted' = [minted EXCEPT ![u] = IF granted = <<u, @ + 1>> THEN @ + 1 ELSE @]
     /\ cred' = [cred EXCEPT ![u] = granted]
     /\ at' = [at EXCEPT ![u] = IF cred[u] # NoCred THEN "a_pin" ELSE "a_create"]
     /\ Noted
     /\ UNCHANGED <<op, arg, copy, list, store, entry, conf>>

\* A Secret that has appeared in the meantime is left as it is.
CreateSecret(u) ==
  /\ Call(u, "a_create")
  /\ secret' = [secret EXCEPT ![SecretOf[u]] =
                  IF @ = NoSecret THEN [cred |-> cred[u], fin |-> TRUE] ELSE @]
  /\ Goto(u, "a_pin")
  /\ Noted
  /\ UNCHANGED <<obj, filer>>

\* Mutant: the bucket's finalizer is forgotten.
MarkGrantedUnpinned(u) ==
  LET current == [copy[u] EXCEPT !.fin = @ \cup {"BAFinalizer"}]
  IN \/ Call(u, "a_pin") /\ Exists("bucket") /\ Read(u, "a_fin")
     \/ AddFinalizer(u, u, "BAFinalizer", "a_fin", "a_fin_put", "a_status")
     \/ /\ Call(u, "a_status")
        /\ \/ current.ready /\ Read(u, "done")
           \/ ~current.ready /\ Put(u, u, current, [current EXCEPT !.ready = TRUE], "done")

\* markBucketAccessGranted: the bucket's finalizer, the access's, its status.
MarkGranted(u) ==
  LET current == [copy[u] EXCEPT !.fin = @ \cup {"BAFinalizer"}]
  IN \/ AddFinalizer(u, "bucket", "BABucketFinalizer", "a_pin", "a_pin_put", "a_fin")
     \/ AddFinalizer(u, u, "BAFinalizer", "a_fin", "a_fin_put", "a_status")
     \/ /\ Call(u, "a_status")
        /\ \/ current.ready /\ Read(u, "done")
           \/ ~current.ready /\ Put(u, u, current, [current EXCEPT !.ready = TRUE], "done")

\* Mutant: an error of the driver is taken for NotFound.
RevokeAccessBestEffort(u) ==
  /\ Call(u, "d_revoke")
  /\ identity' \in {identity, [identity EXCEPT ![u] = IF arg[u].ready THEN NoCred ELSE @]}
  /\ Goto(u, IF cred[u] = NoCred THEN "d_delete" ELSE "d_unpin")
  /\ Noted
  /\ UNCHANGED <<store, entry, conf, minted>>

\* deleteBucketAccessOp.
RevokeAccess(u) ==
  /\ Call(u, "d_revoke")
  /\ identity' = [identity EXCEPT ![u] = IF arg[u].ready THEN NoCred ELSE @]
  /\ Goto(u, IF cred[u] = NoCred THEN "d_delete" ELSE "d_unpin")
  /\ Noted
  /\ UNCHANGED <<store, entry, conf, minted>>

\* The Secret as it was read loses its finalizer, if it had one.
UnpinSecret(u) ==
  /\ Call(u, "d_unpin")
  /\ \/ /\ secret[SecretOf[u]].cred = cred[u]
        /\ secret' = [secret EXCEPT ![SecretOf[u]].fin = FALSE]
        /\ Goto(u, "d_delete")
        /\ Noted
        /\ UNCHANGED <<obj, filer>>
     \/ secret[SecretOf[u]].cred # cred[u] /\ Error(u)

\* A Secret that was not found is an object without a name: the delete request
\* is refused.
DeleteSecret(u) ==
  /\ Call(u, "d_delete")
  /\ \/ /\ cred[u] # NoCred \/ ~EmptyOnNotFound
        /\ secret' = [secret EXCEPT ![SecretOf[u]] =
                        IF cred[u] = NoCred \/ @.fin THEN @ ELSE NoSecret]
        /\ Goto(u, "d_fin")
        /\ Noted
        /\ UNCHANGED <<obj, filer>>
     \/ cred[u] = NoCred /\ EmptyOnNotFound /\ Error(u)

RemoveAccessFinalizer(u) ==
  /\ Call(u, "d_fin")
  /\ \/ "BAFinalizer" \notin arg[u].fin /\ Read(u, "done")
     \/ /\ "BAFinalizer" \in arg[u].fin
        /\ Put(u, u, arg[u], WithFin(arg[u], arg[u].fin \ {"BAFinalizer"}), "done")

AccessStep(u) ==
  \/ AccessAdd(u) \/ AccessUpdate(u)
  \/ CheckReady(u, "claim", "a_claim", "a_bucket")
  \/ CheckReady(u, "bucket", "a_bucket", "a_secret")
  \/ GetSecret(u, "a_secret", "a_grant")
  \/ GrantAccess(u) \/ CreateSecret(u) \/ MarkGranted(u)
  \/ GetSecret(u, "d_secret", "d_revoke")
  \/ RevokeAccess(u) \/ UnpinSecret(u) \/ DeleteSecret(u) \/ RemoveAccessFinalizer(u)

-----------------------------------------------------------------------------
(***************************************************************************)
(* Users, the COSI controller and the operators of the filer.              *)
(***************************************************************************)
Settled(o) == Hasty \/ obj[o].ready

External == UNCHANGED <<secret, filer, faults, queue, handler>>

CreateAccess(u) ==
  /\ obj[u] = Absent
  /\ \A v \in Accesses : Exists(v) => SecretOf[v] # SecretOf[u]
  /\ Hasty \/ /\ obj["claim"].life = "live"
              /\ \A v \in Accesses : obj[v].life = "gone" => event[v] = Gone /\ at[v] = "idle"
  /\ obj' = [obj EXCEPT ![u] = Created]
  /\ External

DeleteAccess(u) ==
  /\ obj[u].life = "live" /\ Settled(u)
  /\ obj' = [obj EXCEPT ![u] = Deleted(@)]
  /\ External

DeleteClaim ==
  /\ ClaimDeletable
  /\ obj["claim"].life = "live" /\ Settled("claim")
  /\ \A u \in Accesses : Exists(u) => Settled(u)
  /\ obj' = [obj EXCEPT !["claim"] = Deleted(@)]
  /\ External

DeleteBucket ==
  /\ obj["claim"].life # "live" /\ obj["bucket"].life = "live"
  /\ obj' = [obj EXCEPT !["bucket"] = Deleted(@)]
  /\ External

\* An identity file disappears from the filer.
LoseIdentity(u) ==
  /\ Fault("identity")
  /\ identity[u] # NoCred
  /\ identity' = [identity EXCEPT ![u] = NoCred]
  /\ UNCHANGED <<store, entry, conf, minted, queue, handler>>

-----------------------------------------------------------------------------
Serve(o) == Finish(o) \/ (o = "bucket" /\ BucketStep) \/ (o \in Accesses /\ AccessStep(o))

Next ==
  \/ \E o \in Watched : Deliver(o) \/ Resync(o) \/ Serve(o) \/ Fail(o)
  \/ Restart
  \/ \E u \in Accesses : CreateAccess(u) \/ DeleteAccess(u) \/ LoseIdentity(u)
  \/ DeleteClaim \/ DeleteBucket

Spec == Init /\ [][Next]_vars

\* The informer delivers what it was told, and a queued operation is served to
\* its end, again after each failure.
FairSpec ==
  /\ Spec
  /\ \A o \in Watched : WF_vars(Deliver(o)) /\ WF_vars(Serve(o))

\* The same, with a resync that keeps coming.
ResyncSpec == FairSpec /\ \A o \in Watched : WF_vars(Resync(o))

-----------------------------------------------------------------------------
\* Type invariant: what an object, a handler and the queue may look like.
TypeOK ==
  /\ obj \in [Objects -> Object]
  /\ secret \in [Secrets -> [cred : Credential \cup {NoCred}, fin : BOOLEAN]]
  /\ entry \in BOOLEAN
  /\ conf \in BOOLEAN
  /\ identity \in [Accesses -> Credential \cup {NoCred}]
  /\ minted \in [Accesses -> Nat]
  /\ faults \in 0..MaxFaults
  /\ event \in [Watched -> Object]
  /\ todo \in [Watched -> {"none", "add", "update"}]
  /\ indexed \subseteq Watched
  /\ at \in [Watched -> Control]
  /\ op \in [Watched -> {"none", "add", "update"}]
  /\ arg \in [Watched -> Object]
  /\ copy \in [Watched -> Object]
  /\ cred \in [Accesses -> Credential \cup {NoCred}]
  /\ list \subseteq Accesses

\* While an access is granted and not being deleted, the credential in its
\* Secret is the one in its identity file: failed calls, retried Adds, sidecar
\* restarts and a re-grant after the identity was lost never rotate it
\* (bucketaccess_controller.go:159-182, provisioner.go:272-282).
CredentialsAgree ==
  \A u \in Accesses : obj[u].life = "live" /\ obj[u].ready =>
    /\ secret[SecretOf[u]] # NoSecret
    /\ identity[u] \in {NoCred, secret[SecretOf[u]].cred}

\* Once a BucketAccess object is gone no identity holds a credential that was
\* minted for it, not even that of an access created under the same name later
\* (deleteBucketAccessOp revokes before it removes BAFinalizer).
GoneMeansRevoked ==
  \A u, v \in Accesses : obj[u].life = "gone" => identity[v][1] # u

\* A granted access carries BAFinalizer, and the bucket it grants carries
\* BABucketFinalizer until it is deleted itself, whichever of the two listeners
\* wrote the bucket last (markBucketAccessGranted against AddFinalizer and
\* updateBucketStatus of the Bucket listener).
GrantPinsBucket ==
  \A u \in Accesses : Exists(u) /\ obj[u].ready =>
    /\ "BAFinalizer" \in obj[u].fin
    /\ obj["bucket"].life = "live" => "BABucketFinalizer" \in obj["bucket"].fin

\* When BucketFinalizer comes off a bucket, the claim has been released and,
\* under deletionPolicy Delete, the directory is gone: whatever failed before was
\* done again (cleanupDeletedBucket, deleteBucketOp).
ReleasedBucketDeleted ==
  [][("BucketFinalizer" \in obj["bucket"].fin /\ "BucketFinalizer" \notin obj'["bucket"].fin) =>
     /\ "BCFinalizer" \notin obj'["claim"].fin
     /\ DeletePolicy => ~entry']_vars

\* A claim is reported ready only for a bucket that is ready and whose directory
\* exists (Add's order: create, bucket status, claim status).
ReadyClaimHasBucket ==
  obj["claim"].ready /\ obj["bucket"].life = "live" => obj["bucket"].ready /\ entry

\* When the sidecar has nothing left to do for a ready bucket, the bucket carries
\* BucketFinalizer: Add "must be idempotent" (bucket_controller.go:60), so a
\* repeated Add ends where one undisturbed Add ends.  TLC refutes it: see the
\* observations in the README.
ReadyBucketProtected ==
  /\ at["bucket"] = "idle" /\ todo["bucket"] = "none" /\ event["bucket"] = obj["bucket"]
  /\ obj["bucket"].life = "live" /\ obj["bucket"].ready
  => "BucketFinalizer" \in obj["bucket"].fin

\* A BucketAccess that is not deleted is granted in the end, and so its bucket
\* and claim become ready, in spite of conflicts, failed calls and restarts.
AccessGranted ==
  \A u \in Accesses : obj[u].life = "live" ~> obj[u].ready \/ obj[u].life # "live"

\* A deleted BucketAccess goes away in the end: "Deleting a BucketAccess revokes
\* the driver account and removes the generated credentials Secret after clearing
\* finalizers" (cosi-provisioner-sidecar/UPSTREAM.md:25-26).  TLC refutes it:
\* see the observations in the README.
AccessDeletionCompletes ==
  \A u \in Accesses : obj[u].life = "deleting" ~> obj[u].life = "gone"

\* A deleted bucket goes away in the end: the cleanup survives conflicts with the
\* accesses' finalizer updates, failed calls and a restart (Add, line 83).
BucketDeletionCompletes == obj["bucket"].life = "deleting" ~> obj["bucket"].life = "gone"
=============================================================================
