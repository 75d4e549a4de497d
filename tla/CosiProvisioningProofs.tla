----------------------- MODULE CosiProvisioningProofs -----------------------
(***************************************************************************)
(* Proofs about the COSI provisioner sidecar.                              *)
(*                                                                         *)
(* Two inductive invariants.  IInv holds however users behave; it says     *)
(* that a cleanup is only begun for a bucket that is being deleted and     *)
(* what each control point of the Bucket listener already knows, and that  *)
(* an access on its way to its status has pinned its bucket.  SettledInv   *)
(* holds when users wait for the sidecar: it follows a credential between  *)
(* the Secret, the handler and the identity file, and says that of the     *)
(* accesses with one name the sidecar acts on at most one.                 *)
(*                                                                         *)
(* A remote call is described once by what it does to the handlers and the *)
(* queue (Moves, Fails, Begins, Others); each action then has a lemma of   *)
(* its own.                                                                *)
(***************************************************************************)
EXTENDS CosiProvisioning, TLAPS

\* The control points of cleanupDeletedBucket.
Cleaning == {"b_list", "b_accesses", "b_delete", "b_unconf", "b_release", "b_release_put", "b_fins"}
\* The object exists and nobody has asked to delete it.
Live(o) == obj[o].life = "live"
\* A version of an object that is being deleted or gone.
Ended(x) == x.life \in {"deleting", "gone"}

\* The bucket, its claim and the handler of the Bucket listener.  A cleanup is
\* only ever begun for a bucket that is being deleted, and from then on the
\* bucket and the claim are not live.
BucketInv ==
  /\ obj["bucket"].life # "absent"
  /\ Ended(event["bucket"]) \/ Ended(arg["bucket"]) => ~Live("bucket")
  /\ ~Live("bucket") => ~Live("claim")
  /\ at["bucket"] \in Cleaning => arg["bucket"].life = "deleting"
  /\ Live("bucket") /\ event["bucket"].ready => obj["bucket"].ready
  /\ Live("bucket") /\ (\/ obj["bucket"].ready \/ ExistingBucket
                        \/ at["bucket"] \in {"b_conf", "b_status", "b_status_put"}) => entry
  /\ Live("bucket") /\ (obj["claim"].ready \/ at["bucket"] \in {"b_claim", "b_claim_put"})
       => obj["bucket"].ready
  /\ at["bucket"] \in {"b_unconf", "b_release", "b_release_put", "b_fins"}
       /\ "BucketFinalizer" \in arg["bucket"].fin /\ DeletePolicy => ~entry
  /\ at["bucket"] = "b_fins" /\ "BucketFinalizer" \in arg["bucket"].fin
       => "BCFinalizer" \notin obj["claim"].fin

\* An access and the bucket it pins.
PinInv(u) ==
  /\ obj[u].fin \subseteq {"BAFinalizer"}
  /\ at[u] \in RevokeSteps => arg[u].life = "deleting"
  /\ Exists(u) /\ obj[u].ready => "BAFinalizer" \in obj[u].fin
  /\ Live("bucket") /\ (at[u] \in {"a_fin", "a_fin_put", "a_status"} \/ (Exists(u) /\ obj[u].ready))
       => "BABucketFinalizer" \in obj["bucket"].fin

\* The inductive invariant, whether or not users wait for the sidecar.
IInv == TypeOK /\ BucketInv /\ \A u \in Accesses : PinInv(u)

\* The Secret of an access, by its name.
SecretFor(u) == secret[SecretOf[u]]

\* The life of an access and the operations queued for it: an access that is
\* gone is never added again.
QueueInv(u) ==
  /\ obj[u].life = "absent" => /\ obj[u] = Absent /\ event[u] = Absent
                               /\ todo[u] = "none" /\ at[u] = "idle"
  /\ obj[u].life = "gone" => /\ obj[u] = Gone /\ todo[u] # "add" /\ op[u] # "add"
                             /\ event[u] = Gone \/ u \in indexed
  /\ event[u].life = "gone" => event[u] = Gone /\ todo[u] = "none" /\ obj[u].life = "gone"
  /\ at[u] \in AddSteps => op[u] = "add"
  /\ at[u] \in RevokeSteps => op[u] = "update"
  /\ todo[u] = "update" \/ op[u] = "update" => u \in indexed
  /\ op[u] = "update" => todo[u] # "add"
  /\ Ended(event[u]) \/ Ended(arg[u]) => Ended(obj[u])
  /\ arg[u].life # "gone"
  /\ \A x \in {obj[u], event[u], arg[u]} : x.life = "deleting" => x.ready
  /\ Exists(u) /\ ~Live("claim") => obj[u].ready

\* The credential of an access on its way between the Secret, the handler and
\* the identity file.
CredInv(u) ==
  /\ identity[u] = NoCred \/ identity[u][1] = u
  /\ cred[u] = NoCred \/ cred[u][1] = u
  /\ at[u] \in {"a_grant", "d_revoke", "d_unpin", "d_delete"} => cred[u] = SecretFor(u).cred
  /\ at[u] = "a_create" => /\ SecretFor(u) = NoSecret /\ cred[u] # NoCred
                           /\ identity[u] \in {NoCred, cred[u]}
  /\ at[u] \in {"a_pin", "a_pin_put", "a_fin", "a_fin_put", "a_status"} \/ (Live(u) /\ obj[u].ready)
       => SecretFor(u) # NoSecret /\ identity[u] \in {NoCred, SecretFor(u).cred}
  /\ at[u] = "d_unpin" => cred[u] # NoCred
  /\ at[u] = "d_delete" /\ cred[u] # NoCred => ~SecretFor(u).fin
  /\ at[u] = "d_fin" => SecretFor(u) = NoSecret
  /\ at[u] \in {"d_unpin", "d_delete", "d_fin"} \/ obj[u].life = "gone" => identity[u] = NoCred

\* A Secret belongs to an access that exists, and holds what was minted for it.
Owned(n) ==
  /\ secret[n].cred = NoCred <=> secret[n] = NoSecret
  /\ secret[n] # NoSecret => \E u \in Accesses : SecretOf[u] = n /\ Exists(u) /\ secret[n].cred[1] = u

\* The sidecar may still act on the Secret of the access.
Active(u) == Exists(u) \/ (obj[u].life = "gone" /\ ~(event[u] = Gone /\ at[u] = "idle"))

\* The inductive invariant when users wait for the sidecar: one access per name
\* at a time.
SettledInv ==
  /\ \A u \in Accesses : QueueInv(u) /\ CredInv(u)
  /\ \A n \in Secrets : Owned(n)
  /\ \A u, v \in Accesses : Active(u) /\ Active(v) /\ SecretOf[u] = SecretOf[v] => u = v

-----------------------------------------------------------------------------
(* Types *)

CredType == Credential \cup {NoCred}
Ops == {"none", "add", "update"}

StoreType == /\ obj \in [Objects -> Object]
             /\ secret \in [Secrets -> [cred : CredType, fin : BOOLEAN]]
FilerType == /\ entry \in BOOLEAN /\ conf \in BOOLEAN
             /\ identity \in [Accesses -> CredType] /\ minted \in [Accesses -> Nat]
QueueType == event \in [Watched -> Object] /\ todo \in [Watched -> Ops] /\ indexed \subseteq Watched
HandlerType == /\ at \in [Watched -> Control] /\ op \in [Watched -> Ops]
               /\ arg \in [Watched -> Object] /\ copy \in [Watched -> Object]
               /\ cred \in [Accesses -> CredType] /\ list \subseteq Accesses

\* The type invariant by the part of the system that has the state.
LEMMA TypeParts == TypeOK <=> /\ StoreType /\ FilerType /\ QueueType /\ HandlerType
                              /\ faults \in 0 .. MaxFaults
BY DEF TypeOK, StoreType, FilerType, QueueType, HandlerType, CredType, Ops

\* The constants of the model are well typed.
LEMMA ConstantTypes ==
  /\ Absent \in Object /\ Gone \in Object /\ Created \in Object
  /\ NoCred \in CredType /\ NoSecret \in [cred : CredType, fin : BOOLEAN]
  /\ Absent.life = "absent" /\ Gone.life = "gone" /\ Created.life = "live"
  /\ ~Absent.ready /\ ~Gone.ready /\ ~Created.ready
  /\ Absent.fin = {} /\ Gone.fin = {} /\ Created.fin = {}
BY DEF Absent, Gone, Created, Object, CredType, NoSecret, NoCred

\* Setting finalizers: the object stays what it is, or goes.
LEMMA WithFinType ==
  ASSUME NEW x \in Object, NEW fin \in SUBSET Finalizers
  PROVE  /\ WithFin(x, fin) \in Object
         /\ x.life = "deleting" /\ fin = {} => WithFin(x, fin) = Gone
         /\ ~(x.life = "deleting" /\ fin = {}) =>
              /\ WithFin(x, fin).life = x.life /\ WithFin(x, fin).ready = x.ready
              /\ WithFin(x, fin).fin = fin
BY ConstantTypes DEF WithFin, Object

\* A delete request: the object goes, or waits for its finalizers.
LEMMA DeletedType ==
  ASSUME NEW x \in Object
  PROVE  /\ Deleted(x) \in Object
         /\ x.fin = {} => Deleted(x) = Gone
         /\ x.fin # {} => /\ Deleted(x).life = "deleting" /\ Deleted(x).ready = x.ready
                          /\ Deleted(x).fin = x.fin
<1> DEFINE y == [x EXCEPT !.life = "deleting"]
<1>1. y \in Object /\ y.life = "deleting" /\ y.fin = x.fin /\ y.ready = x.ready
  BY DEF Object
<1>2. x.fin \in SUBSET Finalizers
  BY DEF Object
<1>3. Deleted(x) = WithFin(y, x.fin)
  BY DEF Deleted
<1> HIDE DEF y
<1> QED BY <1>1, <1>2, <1>3, WithFinType

\* A handler goes on.
LEMMA GotoType ==
  ASSUME HandlerType, NEW o \in Watched, NEW next \in Control, Goto(o, next)
  PROVE  /\ HandlerType' /\ at'[o] = next /\ \A p \in Watched \ {o} : at'[p] = at[p]
         /\ UNCHANGED <<op, arg, copy, cred, list>>
BY DEF HandlerType, Goto

\* A handler returns.
LEMMA ResetType ==
  ASSUME HandlerType, NEW o \in Watched, Reset(o)
  PROVE  /\ HandlerType' /\ at'[o] = "idle" /\ op'[o] = "none" /\ arg'[o] = Absent
         /\ \A p \in Watched \ {o} : at'[p] = at[p] /\ op'[p] = op[p] /\ arg'[p] = arg[p]
         /\ \A u \in Accesses \ {o} : cred'[u] = cred[u]
<1>1. at' \in [Watched -> Control] /\ op' \in [Watched -> Ops] /\ arg' \in [Watched -> Object]
  BY ConstantTypes DEF HandlerType, Reset, Control, Ops
<1>2. copy' \in [Watched -> Object]
  BY ConstantTypes DEF HandlerType, Reset
<1>3. cred' \in [Accesses -> CredType] /\ list' \subseteq Accesses
  BY ConstantTypes DEF HandlerType, Reset
<1>4. /\ at'[o] = "idle" /\ op'[o] = "none" /\ arg'[o] = Absent
      /\ \A p \in Watched \ {o} : at'[p] = at[p] /\ op'[p] = op[p] /\ arg'[p] = arg[p]
  BY DEF HandlerType, Reset
<1>5. \A u \in Accesses \ {o} : cred'[u] = cred[u]
  BY DEF Reset
<1> QED BY <1>1, <1>2, <1>3, <1>4, <1>5 DEF HandlerType

-----------------------------------------------------------------------------
(* What one remote call does to the handlers and to the queue *)

\* The other handlers, and what is queued for them, stay as they are.
Others(o) ==
  /\ \A p \in Watched \ {o} :
       /\ at'[p] = at[p] /\ op'[p] = op[p] /\ arg'[p] = arg[p]
       /\ todo'[p] = todo[p] /\ event'[p] = event[p] /\ (p \in indexed' <=> p \in indexed)
  /\ \A u \in Accesses \ {o} : cred'[u] = cred[u]

\* What Others says of one access.
LEMMA OtherAccess ==
  ASSUME NEW o, NEW u \in Accesses, Others(o), u # o
  PROVE  /\ at'[u] = at[u] /\ op'[u] = op[u] /\ arg'[u] = arg[u] /\ todo'[u] = todo[u]
         /\ event'[u] = event[u] /\ (u \in indexed' <=> u \in indexed) /\ cred'[u] = cred[u]
<1>1. u \in Watched \ {o} /\ u \in Accesses \ {o}
  BY DEF Watched
<1> QED BY <1>1 DEF Others

\* What Others says of one object.
LEMMA OtherWatched ==
  ASSUME NEW o, NEW p \in Watched, Others(o), p # o
  PROVE  at'[p] = at[p] /\ arg'[p] = arg[p] /\ event'[p] = event[p]
<1>1. p \in Watched \ {o}
  OBVIOUS
<1> QED BY <1>1 DEF Others

\* The handler of o goes on at next.
Moves(o, next) ==
  /\ HandlerType' /\ QueueType' /\ Others(o) /\ at'[o] = next
  /\ op'[o] = op[o] /\ arg'[o] = arg[o] /\ todo'[o] = todo[o]
  /\ event'[o] = event[o] /\ (o \in indexed' <=> o \in indexed)

\* The handler of o gives up.
Fails(o) ==
  /\ HandlerType' /\ QueueType' /\ Others(o) /\ at'[o] = "idle"
  /\ op'[o] = "none" /\ arg'[o] = Absent
  /\ todo'[o] = IF todo[o] # "none" \/ event[o].life = "gone" THEN todo[o] ELSE op[o]
  /\ event'[o] = event[o] /\ (o \in indexed' <=> o \in indexed)
  /\ \A u \in Accesses : u = o => cred'[u] = NoCred

SameStore == UNCHANGED <<obj, secret>>
SameFiler == UNCHANGED <<entry, conf, identity, minted>>

\* An error leaves the store and the filer alone.
LEMMA ErrorFails ==
  ASSUME TypeOK, NEW o \in Watched, Error(o)
  PROVE  Fails(o) /\ SameStore /\ SameFiler
<1>1. HandlerType /\ QueueType /\ Reset(o)
  BY TypeParts DEF Error
<1>2. UNCHANGED store /\ UNCHANGED filer /\ UNCHANGED <<event, indexed>>
  BY DEF Error
<1>3. todo' = [todo EXCEPT ![o] = IF todo[o] # "none" \/ event[o].life = "gone" THEN todo[o] ELSE op[o]]
  BY DEF Error
<1>4. todo' \in [Watched -> Ops] /\ \A p \in Watched \ {o} : todo'[p] = todo[p]
  BY <1>1, <1>3 DEF QueueType, HandlerType
<1>5. todo'[o] = IF todo[o] # "none" \/ event[o].life = "gone" THEN todo[o] ELSE op[o]
  BY <1>1, <1>3 DEF QueueType
<1>6. \A u \in Accesses : u = o => cred'[u] = NoCred
  BY <1>1 DEF Reset
<1>7. QueueType'
  BY <1>1, <1>2, <1>4 DEF QueueType
<1>8. Others(o)
  BY <1>1, <1>2, <1>4, ResetType DEF Others
<1> QED BY <1>1, <1>2, <1>5, <1>6, <1>7, <1>8, ResetType DEF Fails, SameStore, SameFiler, store, filer

\* A call that changes no object.
LEMMA GotoMoves ==
  ASSUME TypeOK, NEW o \in Watched, NEW next \in Control, Goto(o, next), Noted
  PROVE  Moves(o, next) /\ cred' = cred /\ list' = list /\ copy' = copy
<1>1. HandlerType /\ QueueType
  BY TypeParts
<1>2. UNCHANGED <<event, todo, indexed>>
  BY DEF Noted, queue
<1>3. QueueType'
  BY <1>1, <1>2 DEF QueueType
<1> QED BY <1>1, <1>2, <1>3, GotoType DEF Moves, Others

\* A read.
LEMMA ReadMoves ==
  ASSUME TypeOK, NEW o \in Watched, NEW next \in Control, Read(o, next)
  PROVE  Moves(o, next) /\ cred' = cred /\ SameStore /\ SameFiler
BY GotoMoves DEF Read, SameStore, SameFiler, store, filer

\* A Get.
LEMMA GetMoves ==
  ASSUME TypeOK, NEW o \in Watched, NEW x \in Objects, NEW next \in Control, Get(o, x, next)
  PROVE  Moves(o, next) /\ cred' = cred /\ SameStore /\ SameFiler /\ copy'[o] = obj[x]
<1>1. HandlerType /\ QueueType /\ StoreType
  BY TypeParts
<1>2. /\ UNCHANGED <<event, todo, indexed, op, arg, cred, list>>
      /\ at' = [at EXCEPT ![o] = next] /\ copy' = [copy EXCEPT ![o] = obj[x]]
  BY DEF Get, Noted, queue
<1>3. QueueType'
  BY <1>1, <1>2 DEF QueueType
<1>4. HandlerType'
  BY <1>1, <1>2 DEF HandlerType, StoreType
<1>5. Others(o) /\ at'[o] = next /\ copy'[o] = obj[x]
  BY <1>1, <1>2 DEF Others, HandlerType
<1> QED BY <1>2, <1>3, <1>4, <1>5 DEF Moves, Get, SameStore, SameFiler, store, filer

\* A write: a copy that is not current is refused.
LEMMA PutMoves ==
  ASSUME TypeOK, NEW o \in Watched, NEW x \in Objects, NEW base, NEW new \in Object,
         NEW next \in Control, Put(o, x, base, new, next)
  PROVE  \/ /\ base = obj[x] /\ Moves(o, next) /\ cred' = cred
            /\ obj' \in [Objects -> Object] /\ obj'[x] = new /\ \A y \in Objects \ {x} : obj'[y] = obj[y]
            /\ secret' = secret /\ SameFiler
         \/ Fails(o) /\ SameStore /\ SameFiler
<1>1. CASE Error(o)
  BY <1>1, ErrorFails
<1>2. CASE /\ base = obj[x] /\ obj' = [obj EXCEPT ![x] = new] /\ Goto(o, next) /\ Noted
           /\ UNCHANGED <<secret, filer>>
  <2>1. obj \in [Objects -> Object]
    BY DEF TypeOK
  <2> QED BY <1>2, <2>1, GotoMoves DEF SameFiler, filer
<1> QED BY <1>1, <1>2 DEF Put

\* What is typed after a step is well typed altogether.
LEMMA TypedAfter ==
  ASSUME TypeOK, HandlerType', QueueType', faults' \in 0 .. MaxFaults,
         SameStore \/ StoreType', SameFiler \/ FilerType'
  PROVE  TypeOK'
<1>1. StoreType /\ FilerType
  BY TypeParts
<1>2. StoreType'
  BY <1>1 DEF SameStore, StoreType
<1>3. FilerType'
  BY <1>1 DEF SameFiler, FilerType
<1>4. TypeOK' <=> StoreType' /\ FilerType' /\ QueueType' /\ HandlerType' /\ faults' \in 0 .. MaxFaults
  BY TypeParts DEF TypeOK, StoreType, FilerType, QueueType, HandlerType, CredType, Ops
<1> QED BY <1>2, <1>3, <1>4

-----------------------------------------------------------------------------
(* What a step need not look at *)

\* The bucket, the claim and the Bucket listener stay as they are.
LEMMA BucketSame ==
  ASSUME BucketInv, obj'["bucket"] = obj["bucket"], obj'["claim"] = obj["claim"], entry' = entry,
         event'["bucket"] = event["bucket"], arg'["bucket"] = arg["bucket"], at'["bucket"] = at["bucket"]
  PROVE  BucketInv'
BY DEF BucketInv, Live, Ended

\* An access and its handler stay as they are, and the bucket loses no pin.
LEMMA PinSame ==
  ASSUME NEW u \in Accesses, PinInv(u), obj'[u] = obj[u], at'[u] = at[u], arg'[u] = arg[u],
         Live("bucket")' => Live("bucket") /\ ("BABucketFinalizer" \in obj["bucket"].fin
                                               => "BABucketFinalizer" \in obj'["bucket"].fin)
  PROVE  PinInv(u)'
BY DEF PinInv, Exists, Live

\* An access and what is queued for it stay as they are.
LEMMA QueueSame ==
  ASSUME NEW u \in Accesses, QueueInv(u), obj'[u] = obj[u], at'[u] = at[u], arg'[u] = arg[u],
         op'[u] = op[u], todo'[u] = todo[u], event'[u] = event[u], u \in indexed' <=> u \in indexed,
         Live("claim") => Live("claim")' \/ ~Exists(u) \/ obj[u].ready
  PROVE  QueueInv(u)'
BY DEF QueueInv, Exists, Live, Ended

\* An access, its credential and its Secret stay as they are.
LEMMA CredSame ==
  ASSUME NEW u \in Accesses, CredInv(u), obj'[u] = obj[u], at'[u] = at[u], cred'[u] = cred[u],
         identity'[u] = identity[u], SecretFor(u)' = SecretFor(u)
  PROVE  CredInv(u)'
BY DEF CredInv, Live

\* No two objects of the sidecar are the same.
LEMMA Distinct == /\ "bucket" \in Watched /\ "bucket" \in Objects /\ "claim" \in Objects
                  /\ "bucket" \notin Accesses /\ "claim" \notin Accesses /\ "none" \notin Accesses
                  /\ "claim" # "bucket" /\ Accesses \subseteq Watched /\ Watched \subseteq Objects
BY AccessesAssumption DEF Watched, Objects

\* What the Bucket listener leaves alone.
AccessesKept ==
  /\ Others("bucket") /\ secret' = secret /\ identity' = identity
  /\ \A u \in Accesses : obj'[u] = obj[u]
  /\ Live("claim") => Live("claim")'

\* A step of the Bucket listener that touches no access keeps them all.
LEMMA SettledByBucket ==
  ASSUME SettledInv, AccessesKept
  PROVE  SettledInv'
<1>1. ASSUME NEW u \in Accesses
      PROVE  /\ obj'[u] = obj[u] /\ at'[u] = at[u] /\ arg'[u] = arg[u] /\ op'[u] = op[u]
             /\ todo'[u] = todo[u] /\ event'[u] = event[u] /\ (u \in indexed' <=> u \in indexed)
             /\ cred'[u] = cred[u] /\ identity'[u] = identity[u] /\ SecretFor(u)' = SecretFor(u)
  <2>1. u # "bucket"
    BY Distinct
  <2>2. Others("bucket") /\ secret' = secret /\ identity' = identity /\ obj'[u] = obj[u]
    BY DEF AccessesKept
  <2>3. SecretFor(u)' = SecretFor(u)
    BY <2>2 DEF SecretFor
  <2> QED BY <2>1, <2>2, <2>3, OtherAccess
<1>2. \A u \in Accesses : QueueInv(u)' /\ CredInv(u)'
  BY <1>1, QueueSame, CredSame DEF SettledInv, AccessesKept
<1>3. \A n \in Secrets : Owned(n)'
  BY <1>1 DEF SettledInv, Owned, Exists, AccessesKept
<1>4. \A u, v \in Accesses : Active(u)' /\ Active(v)' /\ SecretOf[u] = SecretOf[v] => u = v
  BY <1>1 DEF SettledInv, Active, Exists
<1> QED BY <1>2, <1>3, <1>4 DEF SettledInv

\* The finalizer comes off the bucket only when everything else is done.
Released ==
  "BucketFinalizer" \in obj["bucket"].fin /\ "BucketFinalizer" \notin obj'["bucket"].fin =>
    "BCFinalizer" \notin obj'["claim"].fin /\ (DeletePolicy => ~entry')

\* A step of the Bucket listener that writes no object keeps the pins.
LEMMA PinsByBucket ==
  ASSUME IInv, Others("bucket"), \A u \in Accesses : obj'[u] = obj[u],
         Live("bucket")' => Live("bucket") /\ ("BABucketFinalizer" \in obj["bucket"].fin
                                               => "BABucketFinalizer" \in obj'["bucket"].fin)
  PROVE  \A u \in Accesses : PinInv(u)'
<1> SUFFICES ASSUME NEW u \in Accesses PROVE PinInv(u)'
  OBVIOUS
<1>1. u # "bucket"
  BY Distinct
<1>2. at'[u] = at[u] /\ arg'[u] = arg[u]
  BY <1>1, OtherAccess
<1>3. PinInv(u)
  BY DEF IInv
<1> QED BY <1>2, <1>3, PinSame

-----------------------------------------------------------------------------
(* The Bucket listener *)

\* It gives up.
LEMMA BucketFails ==
  ASSUME IInv, Fails("bucket"), SameStore, SameFiler, faults' \in 0 .. MaxFaults
  PROVE  IInv' /\ AccessesKept /\ Released
<1>1. TypeOK'
  BY TypedAfter DEF IInv, Fails
<1>2. BucketInv'
  BY ConstantTypes DEF IInv, BucketInv, Fails, SameStore, SameFiler, Live, Ended, Cleaning
<1>3. \A u \in Accesses : PinInv(u)'
  BY PinsByBucket DEF Fails, SameStore, Live
<1>4. AccessesKept /\ Released
  BY DEF AccessesKept, Fails, SameStore, SameFiler, Live, Released
<1> QED BY <1>1, <1>2, <1>3, <1>4 DEF IInv

\* It goes on without a write to an object.
LEMMA BucketMoves ==
  ASSUME IInv, NEW next, Moves("bucket", next), SameStore, UNCHANGED <<identity, minted>>,
         FilerType', UNCHANGED faults, BucketInv'
  PROVE  IInv' /\ AccessesKept /\ Released
<1>1. TypeOK'
  <2>1. faults' \in 0 .. MaxFaults
    BY DEF IInv, TypeOK
  <2> QED BY <2>1, TypedAfter DEF IInv, Moves
<1>3. \A u \in Accesses : PinInv(u)'
  BY PinsByBucket DEF Moves, SameStore, Live
<1>4. AccessesKept /\ Released
  BY DEF AccessesKept, Moves, SameStore, Live, Released
<1> QED BY <1>1, <1>3, <1>4 DEF IInv

\* The directory is created.
LEMMA CreateEntryStep ==
  ASSUME IInv, CreateEntry
  PROVE  IInv' /\ AccessesKept /\ Released
<1> DEFINE next == IF NeedsConf THEN "b_conf" ELSE "b_status"
<1>1. /\ at["bucket"] = "b_create" /\ UNCHANGED faults /\ entry' = TRUE
      /\ Goto("bucket", next) /\ Noted /\ SameStore /\ UNCHANGED <<conf, identity, minted>>
  BY DEF CreateEntry, Call, SameStore, store
<1>2. Moves("bucket", next)
  BY <1>1, GotoMoves, Distinct DEF IInv, Control, BucketSteps
<1>3. FilerType'
  BY <1>1 DEF IInv, TypeOK, FilerType, CredType
<1>4. BucketInv'
  BY <1>1, <1>2 DEF IInv, BucketInv, Moves, SameStore, Live, Ended, Cleaning
<1> QED BY <1>1, <1>2, <1>3, <1>4, BucketMoves

\* Its PathConf is written.
LEMMA SetLocationConfStep ==
  ASSUME IInv, SetLocationConf
  PROVE  IInv' /\ AccessesKept /\ Released
<1>1. /\ at["bucket"] = "b_conf" /\ UNCHANGED faults /\ conf' = TRUE
      /\ Goto("bucket", "b_status") /\ Noted /\ SameStore /\ UNCHANGED <<entry, identity, minted>>
  BY DEF SetLocationConf, Call, SameStore, store
<1>2. Moves("bucket", "b_status")
  BY <1>1, GotoMoves, Distinct DEF IInv, Control, BucketSteps
<1>3. FilerType'
  BY <1>1 DEF IInv, TypeOK, FilerType, CredType
<1>4. BucketInv'
  BY <1>1, <1>2 DEF IInv, BucketInv, Moves, SameStore, Live, Ended, Cleaning
<1> QED BY <1>1, <1>2, <1>3, <1>4, BucketMoves

\* The directory is removed: the bucket is not live.
LEMMA DeleteEntryStep ==
  ASSUME IInv, DeleteEntry
  PROVE  IInv' /\ AccessesKept /\ Released
<1> DEFINE next == IF entry THEN "b_unconf" ELSE "b_release"
<1>1. /\ at["bucket"] = "b_delete" /\ UNCHANGED faults /\ entry' = FALSE
      /\ Goto("bucket", next) /\ Noted /\ SameStore /\ UNCHANGED <<conf, identity, minted>>
  BY DEF DeleteEntry, Call, SameStore, store
<1>2. Moves("bucket", next)
  BY <1>1, GotoMoves, Distinct DEF IInv, Control, BucketSteps
<1>3. FilerType'
  BY <1>1 DEF IInv, TypeOK, FilerType, CredType
<1>4. BucketInv'
  BY <1>1, <1>2 DEF IInv, BucketInv, Moves, SameStore, Live, Ended, Cleaning
<1> QED BY <1>1, <1>2, <1>3, <1>4, BucketMoves

\* Its PathConf is removed.
LEMMA DeleteLocationConfStep ==
  ASSUME IInv, DeleteLocationConf
  PROVE  IInv' /\ AccessesKept /\ Released
<1>1. /\ at["bucket"] = "b_unconf" /\ UNCHANGED faults /\ conf' = FALSE
      /\ Goto("bucket", "b_release") /\ Noted /\ SameStore /\ UNCHANGED <<entry, identity, minted>>
  BY DEF DeleteLocationConf, Call, SameStore, store
<1>2. Moves("bucket", "b_release")
  BY <1>1, GotoMoves, Distinct DEF IInv, Control, BucketSteps
<1>3. FilerType'
  BY <1>1 DEF IInv, TypeOK, FilerType, CredType
<1>4. BucketInv'
  BY <1>1, <1>2 DEF IInv, BucketInv, Moves, SameStore, Live, Ended, Cleaning
<1> QED BY <1>1, <1>2, <1>3, <1>4, BucketMoves

\* It reads the store and goes on.
LEMMA BucketReads ==
  ASSUME IInv, NEW next \in Control, UNCHANGED faults,
         Read("bucket", next) \/ \E x \in {"bucket", "claim"} : Get("bucket", x, next),
         next \in Cleaning => at["bucket"] \in Cleaning,
         next \in {"b_conf", "b_status", "b_status_put"} =>
           at["bucket"] \in {"b_conf", "b_status", "b_status_put"},
         next \in {"b_claim", "b_claim_put"} => at["bucket"] \in {"b_claim", "b_claim_put"},
         next \in {"b_unconf", "b_release", "b_release_put", "b_fins"} =>
           at["bucket"] \in {"b_unconf", "b_release", "b_release_put", "b_fins"},
         next = "b_fins" => "BCFinalizer" \notin obj["claim"].fin
  PROVE  IInv' /\ AccessesKept /\ Released
<1>1. Moves("bucket", next) /\ SameStore /\ SameFiler
  BY ReadMoves, GetMoves, Distinct DEF IInv
<1>2. BucketInv'
  BY <1>1 DEF IInv, BucketInv, Moves, SameStore, SameFiler, Live, Ended
<1>3. FilerType'
  BY <1>1 DEF IInv, TypeOK, FilerType, SameFiler, CredType
<1> QED BY <1>1, <1>2, <1>3, BucketMoves DEF SameFiler

\* It writes its bucket or the claim, and goes on.
LEMMA BucketWrites ==
  ASSUME IInv, NEW next, Moves("bucket", next), NEW x \in {"bucket", "claim"},
         obj' \in [Objects -> Object], \A y \in Objects \ {x} : obj'[y] = obj[y],
         secret' = secret, SameFiler, UNCHANGED faults, BucketInv', Released,
         Live("bucket")' => Live("bucket") /\ ("BABucketFinalizer" \in obj["bucket"].fin
                                               => "BABucketFinalizer" \in obj'["bucket"].fin),
         Live("claim") => Live("claim")'
  PROVE  IInv' /\ AccessesKept /\ Released
<1>1. StoreType'
  BY DEF IInv, TypeOK, StoreType, CredType
<1>2. faults' \in 0 .. MaxFaults
  BY DEF IInv, TypeOK
<1>3. TypeOK'
  BY <1>1, <1>2, TypedAfter DEF IInv, Moves
<1>4. \A u \in Accesses : obj'[u] = obj[u]
  BY Distinct
<1>5. \A u \in Accesses : PinInv(u)'
  BY <1>4, PinsByBucket DEF Moves
<1>6. AccessesKept
  BY <1>4 DEF AccessesKept, Moves, SameFiler
<1> QED BY <1>3, <1>5, <1>6 DEF IInv

\* The bucket is ready: its directory is there.
LEMMA UpdateBucketStatusStep ==
  ASSUME IInv, UpdateBucketStatus
  PROVE  IInv' /\ AccessesKept /\ Released
<1>1. CASE at["bucket"] = "b_status" /\ UNCHANGED faults /\ Get("bucket", "bucket", "b_status_put")
  BY <1>1, BucketReads DEF Control, BucketSteps, Cleaning
<1>2. CASE UNCHANGED faults /\ Error("bucket")
  BY <1>2, ErrorFails, BucketFails, Distinct DEF IInv, TypeOK
<1>3. CASE /\ at["bucket"] = "b_status_put" /\ UNCHANGED faults
           /\ Put("bucket", "bucket", copy["bucket"], [copy["bucket"] EXCEPT !.ready = TRUE], "b_claim")
  <2> DEFINE new == [copy["bucket"] EXCEPT !.ready = TRUE]
  <2>1. copy["bucket"] \in Object /\ obj["bucket"] \in Object
    BY Distinct DEF IInv, TypeOK
  <2>2. /\ new \in Object /\ new.life = copy["bucket"].life /\ new.fin = copy["bucket"].fin
        /\ new.ready = TRUE
    BY <2>1 DEF Object
  <2>3. Put("bucket", "bucket", copy["bucket"], new, "b_claim")
    BY <1>3
  <2> HIDE DEF new
  <2>4. CASE Fails("bucket") /\ SameStore /\ SameFiler
    BY <1>3, <2>4, BucketFails DEF IInv, TypeOK
  <2>5. CASE /\ copy["bucket"] = obj["bucket"] /\ Moves("bucket", "b_claim")
             /\ obj' \in [Objects -> Object] /\ obj'["bucket"] = new
             /\ \A y \in Objects \ {"bucket"} : obj'[y] = obj[y]
             /\ secret' = secret /\ SameFiler
    <3>1. obj'["claim"] = obj["claim"]
      BY <2>5, Distinct
    <3>2. BucketInv'
      BY <1>3, <2>2, <2>5, <3>1 DEF IInv, BucketInv, Moves, SameFiler, Live, Ended, Cleaning
    <3>3. Released /\ (Live("bucket")' <=> Live("bucket")) /\ (Live("claim")' <=> Live("claim"))
      BY <2>2, <2>5, <3>1 DEF Released, Live
    <3> QED BY <1>3, <2>2, <2>5, <3>2, <3>3, BucketWrites
  <2> QED BY <2>2, <2>3, <2>4, <2>5, PutMoves, Distinct DEF IInv, Control, BucketSteps
<1> QED BY <1>1, <1>2, <1>3 DEF UpdateBucketStatus, Call

\* The claim is ready: its bucket is.
LEMMA UpdateBucketClaimStatusStep ==
  ASSUME IInv, UpdateBucketClaimStatus
  PROVE  IInv' /\ AccessesKept /\ Released
<1> DEFINE next == IF arg["bucket"].ready THEN "done" ELSE "b_fin"
<1>0. /\ next \in Control /\ next \notin Cleaning /\ next \notin {"b_conf", "b_status", "b_status_put"}
      /\ next \notin {"b_claim", "b_claim_put"}
  BY DEF Control, BucketSteps, Cleaning
<1> HIDE DEF next
<1>1. CASE at["bucket"] = "b_claim" /\ UNCHANGED faults /\ Read("bucket", next)
  BY <1>0, <1>1, BucketReads DEF Cleaning
<1>2. CASE at["bucket"] = "b_claim" /\ UNCHANGED faults /\ Get("bucket", "claim", "b_claim_put")
  BY <1>2, BucketReads DEF Control, BucketSteps, Cleaning
<1>3. CASE UNCHANGED faults /\ Error("bucket")
  BY <1>3, ErrorFails, BucketFails, Distinct DEF IInv, TypeOK
<1>4. CASE /\ at["bucket"] = "b_claim_put" /\ UNCHANGED faults
           /\ Put("bucket", "claim", copy["bucket"], [copy["bucket"] EXCEPT !.ready = TRUE], next)
  <2> DEFINE new == [copy["bucket"] EXCEPT !.ready = TRUE]
  <2>1. copy["bucket"] \in Object
    BY Distinct DEF IInv, TypeOK
  <2>2. /\ new \in Object /\ new.life = copy["bucket"].life /\ new.fin = copy["bucket"].fin
        /\ new.ready = TRUE
    BY <2>1 DEF Object
  <2>3. Put("bucket", "claim", copy["bucket"], new, next)
    BY <1>4
  <2> HIDE DEF new
  <2>4. CASE Fails("bucket") /\ SameStore /\ SameFiler
    BY <1>4, <2>4, BucketFails DEF IInv, TypeOK
  <2>5. CASE /\ copy["bucket"] = obj["claim"] /\ Moves("bucket", next)
             /\ obj' \in [Objects -> Object] /\ obj'["claim"] = new
             /\ \A y \in Objects \ {"claim"} : obj'[y] = obj[y]
             /\ secret' = secret /\ SameFiler
    <3>1. obj'["bucket"] = obj["bucket"]
      BY <2>5, Distinct
    <3>2. BucketInv'
      BY <1>0, <1>4, <2>2, <2>5, <3>1 DEF IInv, BucketInv, Moves, SameFiler, Live, Ended, Cleaning
    <3>3. Released /\ (Live("bucket")' <=> Live("bucket")) /\ (Live("claim")' <=> Live("claim"))
      BY <2>2, <2>5, <3>1 DEF Released, Live
    <3> QED BY <1>4, <2>5, <3>1, <3>2, <3>3, BucketWrites
  <2> QED BY <1>0, <2>2, <2>3, <2>4, <2>5, PutMoves, Distinct DEF IInv
<1> QED BY <1>1, <1>2, <1>3, <1>4 DEF UpdateBucketClaimStatus, Call, next

\* BucketFinalizer is added to a bucket that is live.
LEMMA AddBucketFinalizerStep ==
  ASSUME IInv, AddBucketFinalizer
  PROVE  IInv' /\ AccessesKept /\ Released
<1> DEFINE next == IF "BucketFinalizer" \in obj["bucket"].fin THEN "done" ELSE "b_fin_put"
<1>0. /\ next \in Control /\ next \notin Cleaning /\ next \notin {"b_conf", "b_status", "b_status_put"}
      /\ next \notin {"b_claim", "b_claim_put"}
  BY DEF Control, BucketSteps, Cleaning
<1> HIDE DEF next
<1>1. CASE at["bucket"] = "b_fin" /\ UNCHANGED faults /\ Get("bucket", "bucket", next)
  BY <1>0, <1>1, BucketReads DEF Cleaning
<1>2. CASE UNCHANGED faults /\ Error("bucket")
  BY <1>2, ErrorFails, BucketFails, Distinct DEF IInv, TypeOK
<1>3. CASE /\ at["bucket"] = "b_fin_put" /\ UNCHANGED faults /\ copy["bucket"].life = "live"
           /\ Put("bucket", "bucket", copy["bucket"],
                  [copy["bucket"] EXCEPT !.fin = @ \cup {"BucketFinalizer"}], "done")
  <2> DEFINE new == [copy["bucket"] EXCEPT !.fin = @ \cup {"BucketFinalizer"}]
  <2>1. copy["bucket"] \in Object
    BY Distinct DEF IInv, TypeOK
  <2>2. /\ new \in Object /\ new.life = copy["bucket"].life /\ new.ready = copy["bucket"].ready
        /\ new.fin = copy["bucket"].fin \cup {"BucketFinalizer"}
    BY <2>1 DEF Object, Finalizers
  <2>3. Put("bucket", "bucket", copy["bucket"], new, "done")
    BY <1>3
  <2> HIDE DEF new
  <2>4. CASE Fails("bucket") /\ SameStore /\ SameFiler
    BY <1>3, <2>4, BucketFails DEF IInv, TypeOK
  <2>5. CASE /\ copy["bucket"] = obj["bucket"] /\ Moves("bucket", "done")
             /\ obj' \in [Objects -> Object] /\ obj'["bucket"] = new
             /\ \A y \in Objects \ {"bucket"} : obj'[y] = obj[y]
             /\ secret' = secret /\ SameFiler
    <3>1. obj'["claim"] = obj["claim"]
      BY <2>5, Distinct
    <3>2. BucketInv'
      BY <1>3, <2>2, <2>5, <3>1 DEF IInv, BucketInv, Moves, SameFiler, Live, Ended, Cleaning
    <3>3. Released /\ (Live("bucket")' <=> Live("bucket")) /\ (Live("claim")' <=> Live("claim"))
      BY <2>2, <2>5, <3>1 DEF Released, Live
    <3> QED BY <1>3, <2>2, <2>5, <3>2, <3>3, BucketWrites
  <2> QED BY <2>2, <2>3, <2>4, <2>5, PutMoves, Distinct DEF IInv, Control
<1> QED BY <1>1, <1>2, <1>3 DEF AddBucketFinalizer, AddFinalizer, Call, next

\* A handler is called.
Begins(o, kind, first) ==
  /\ HandlerType' /\ QueueType' /\ Others(o)
  /\ at[o] = "idle" /\ todo[o] = kind /\ todo'[o] = "none" /\ op'[o] = kind
  /\ arg'[o] = event[o] /\ event'[o] = event[o] /\ at'[o] = first
  /\ (o \in indexed' <=> o \in indexed) /\ cred' = cred

\* The controller calls a listener.
LEMMA BeginBegins ==
  ASSUME TypeOK, NEW o \in Watched, NEW kind \in {"add", "update"}, NEW first \in Control,
         Begin(o, kind, first)
  PROVE  Begins(o, kind, first) /\ SameStore /\ SameFiler /\ UNCHANGED faults
<1>1. HandlerType /\ QueueType
  BY TypeParts
<1>2. /\ todo' = [todo EXCEPT ![o] = "none"] /\ op' = [op EXCEPT ![o] = kind]
      /\ arg' = [arg EXCEPT ![o] = event[o]] /\ at' = [at EXCEPT ![o] = first]
      /\ UNCHANGED <<event, indexed, copy, cred, list>> /\ at[o] = "idle" /\ todo[o] = kind
  BY DEF Begin
<1>3. HandlerType'
  BY <1>1, <1>2 DEF HandlerType, QueueType, Ops
<1>4. QueueType'
  BY <1>1, <1>2 DEF QueueType, Ops
<1>5. Others(o) /\ todo'[o] = "none" /\ op'[o] = kind /\ arg'[o] = event[o] /\ at'[o] = first
  BY <1>1, <1>2 DEF HandlerType, QueueType, Others
<1> QED BY <1>2, <1>3, <1>4, <1>5 DEF Begins, Begin, SameStore, SameFiler, store, filer

\* Where the cleanup of a deleted bucket goes after the accesses.
LEMMA AfterAccessesIs ==
  ASSUME NEW x
  PROVE  /\ AfterAccesses(x) \in {"b_fins", "b_delete", "b_release"}
         /\ AfterAccesses(x) = "b_fins" => "BucketFinalizer" \notin x.fin
         /\ AfterAccesses(x) = "b_release" => ~DeletePolicy
BY DEF AfterAccesses

\* Where it begins.
LEMMA CleanupIs ==
  ASSUME NEW x
  PROVE  /\ Cleanup(x) \in {"b_list", "b_fins", "b_delete", "b_release"}
         /\ Cleanup(x) = "b_fins" => "BucketFinalizer" \notin x.fin
         /\ Cleanup(x) = "b_release" => ~DeletePolicy
BY AfterAccessesIs DEF Cleanup

\* The Bucket listener is called.
LEMMA BucketBegins ==
  ASSUME IInv, NEW kind \in {"add", "update"}, NEW first \in Control, Begin("bucket", kind, first),
         \/ first = "done" \/ first = "b_create" \/ (first = "b_status" /\ ExistingBucket)
         \/ (first = "b_claim" /\ event["bucket"].ready)
         \/ (first = Cleanup(event["bucket"]) /\ event["bucket"].life = "deleting")
  PROVE  IInv' /\ AccessesKept /\ Released
<1>1. Begins("bucket", kind, first) /\ SameStore /\ SameFiler /\ UNCHANGED faults
  BY BeginBegins, Distinct DEF IInv
<1>2. TypeOK'
  <2>1. faults' \in 0 .. MaxFaults
    BY <1>1 DEF IInv, TypeOK
  <2> QED BY <1>1, <2>1, TypedAfter DEF IInv, Begins
<1>3. obj' = obj /\ entry' = entry /\ event'["bucket"] = event["bucket"]
      /\ arg'["bucket"] = event["bucket"] /\ at'["bucket"] = first
  BY <1>1 DEF Begins, SameStore, SameFiler
<1>4. BucketInv'
  <2>1. CASE first = Cleanup(event["bucket"]) /\ event["bucket"].life = "deleting"
    <3> DEFINE clean == Cleanup(event["bucket"])
    <3>1. /\ clean \in {"b_list", "b_fins", "b_delete", "b_release"}
          /\ clean = "b_fins" => "BucketFinalizer" \notin event["bucket"].fin
          /\ clean = "b_release" => ~DeletePolicy
      BY CleanupIs
    <3>2. at'["bucket"] = clean
      BY <1>3, <2>1
    <3> HIDE DEF clean
    <3> QED BY <1>3, <2>1, <3>1, <3>2 DEF IInv, BucketInv, Live, Ended, Cleaning
  <2>2. CASE \/ first = "done" \/ first = "b_create" \/ (first = "b_status" /\ ExistingBucket)
             \/ (first = "b_claim" /\ event["bucket"].ready)
    BY <1>3, <2>2 DEF IInv, BucketInv, Live, Ended, Cleaning
  <2> QED BY <2>1, <2>2
<1>5. \A u \in Accesses : PinInv(u)'
  BY <1>1, PinsByBucket DEF Begins, SameStore, Live
<1>6. AccessesKept /\ Released
  BY <1>1 DEF AccessesKept, Begins, SameStore, SameFiler, Live, Released
<1> QED BY <1>2, <1>4, <1>5, <1>6 DEF IInv

\* Add of the Bucket listener.
LEMMA BucketAddStep ==
  ASSUME IInv, BucketAdd
  PROVE  IInv' /\ AccessesKept /\ Released
<1> DEFINE first == IF event["bucket"].life = "deleting" THEN Cleanup(event["bucket"])
                    ELSE IF event["bucket"].ready THEN "b_claim"
                    ELSE IF ExistingBucket THEN "b_status" ELSE "b_create"
<1>1. Begin("bucket", "add", first)
  BY DEF BucketAdd
<1>2. \/ first = "b_create" \/ (first = "b_status" /\ ExistingBucket)
      \/ (first = "b_claim" /\ event["bucket"].ready)
      \/ (first = Cleanup(event["bucket"]) /\ event["bucket"].life = "deleting")
  OBVIOUS
<1>3. Cleanup(event["bucket"]) \in {"b_list", "b_fins", "b_delete", "b_release"}
  BY CleanupIs
<1> HIDE DEF first
<1>4. first \in Control
  BY <1>2, <1>3 DEF Control, BucketSteps
<1> QED BY <1>1, <1>2, <1>4, BucketBegins

\* Update of the Bucket listener.
LEMMA BucketUpdateStep ==
  ASSUME IInv, BucketUpdate
  PROVE  IInv' /\ AccessesKept /\ Released
<1> DEFINE first == IF event["bucket"].life = "deleting" THEN Cleanup(event["bucket"]) ELSE "done"
<1>1. Begin("bucket", "update", first)
  BY DEF BucketUpdate
<1>2. \/ first = "done"
      \/ (first = Cleanup(event["bucket"]) /\ event["bucket"].life = "deleting")
  OBVIOUS
<1>3. Cleanup(event["bucket"]) \in {"b_list", "b_fins", "b_delete", "b_release"}
  BY CleanupIs
<1> HIDE DEF first
<1>4. first \in Control
  BY <1>2, <1>3 DEF Control, BucketSteps
<1> QED BY <1>1, <1>2, <1>4, BucketBegins

\* The accesses of a bucket that is being deleted are listed.
LEMMA ListAccessesStep ==
  ASSUME IInv, ListAccesses
  PROVE  IInv' /\ AccessesKept /\ Released
<1> DEFINE found == {u \in Accesses : Exists(u)}
           next == IF found = {} THEN AfterAccesses(arg["bucket"]) ELSE "b_accesses"
<1>1. /\ at["bucket"] = "b_list" /\ UNCHANGED faults /\ at' = [at EXCEPT !["bucket"] = next]
      /\ list' = found /\ Noted /\ UNCHANGED <<op, arg, copy, cred>> /\ SameStore /\ SameFiler
  BY DEF ListAccesses, Call, SameStore, SameFiler, store, filer
<1>2. /\ next \in {"b_accesses", "b_fins", "b_delete", "b_release"}
      /\ next = "b_fins" => "BucketFinalizer" \notin arg["bucket"].fin
      /\ next = "b_release" => ~DeletePolicy
  BY AfterAccessesIs
<1>3. found \subseteq Accesses
  OBVIOUS
<1> HIDE DEF found, next
<1>4. Moves("bucket", next)
  <2>1. HandlerType /\ QueueType
    BY TypeParts DEF IInv
  <2>2. UNCHANGED <<event, todo, indexed>>
    BY <1>1 DEF Noted, queue
  <2>3. next \in Control
    BY <1>2 DEF Control, BucketSteps
  <2>4. HandlerType'
    BY <1>1, <1>3, <2>1, <2>3 DEF HandlerType
  <2>5. QueueType'
    BY <2>1, <2>2 DEF QueueType
  <2>6. Others("bucket") /\ at'["bucket"] = next
    BY <1>1, <2>1, <2>2, Distinct DEF HandlerType, Others
  <2> QED BY <1>1, <2>2, <2>4, <2>5, <2>6 DEF Moves
<1>5. BucketInv'
  BY <1>1, <1>2, <1>4 DEF IInv, BucketInv, Moves, SameStore, SameFiler, Live, Ended, Cleaning
<1>6. FilerType'
  BY <1>1 DEF IInv, TypeOK, FilerType, SameFiler, CredType
<1> QED BY <1>1, <1>4, <1>5, <1>6, BucketMoves DEF SameFiler

\* The claim is released.
LEMMA ReleaseClaimStep ==
  ASSUME IInv, ReleaseClaim
  PROVE  IInv' /\ AccessesKept /\ Released
<1>1. CASE at["bucket"] = "b_release" /\ UNCHANGED faults /\ Get("bucket", "claim", "b_release_put")
  BY <1>1, BucketReads DEF Control, BucketSteps, Cleaning
<1>2. CASE /\ at["bucket"] = "b_release" /\ UNCHANGED faults /\ Read("bucket", "b_fins")
           /\ "BCFinalizer" \notin obj["claim"].fin
  BY <1>2, BucketReads DEF Control, BucketSteps, Cleaning
<1>3. CASE /\ at["bucket"] = "b_release_put" /\ UNCHANGED faults
           /\ Put("bucket", "claim", copy["bucket"],
                  WithFin(copy["bucket"], copy["bucket"].fin \ {"BCFinalizer"}), "b_fins")
  <2> DEFINE new == WithFin(copy["bucket"], copy["bucket"].fin \ {"BCFinalizer"})
  <2>1. copy["bucket"] \in Object
    BY Distinct DEF IInv, TypeOK
  <2>2. copy["bucket"].fin \ {"BCFinalizer"} \in SUBSET Finalizers
    BY <2>1 DEF Object
  <2>3. new \in Object /\ "BCFinalizer" \notin new.fin /\ (new.ready => copy["bucket"].ready)
    BY <2>1, <2>2, WithFinType, ConstantTypes
  <2>4. Put("bucket", "claim", copy["bucket"], new, "b_fins")
    BY <1>3
  <2>5. new.life = "live" => copy["bucket"].life = "live"
    BY <2>1, <2>2, WithFinType, ConstantTypes
  <2> HIDE DEF new
  <2>6. CASE Fails("bucket") /\ SameStore /\ SameFiler
    BY <1>3, <2>6, BucketFails DEF IInv, TypeOK
  <2>7. CASE /\ copy["bucket"] = obj["claim"] /\ Moves("bucket", "b_fins")
             /\ obj' \in [Objects -> Object] /\ obj'["claim"] = new
             /\ \A y \in Objects \ {"claim"} : obj'[y] = obj[y]
             /\ secret' = secret /\ SameFiler
    <3>1. obj'["bucket"] = obj["bucket"]
      BY <2>7, Distinct
    <3>2. BucketInv' /\ ~Live("claim")
      BY <1>3, <2>3, <2>5, <2>7, <3>1 DEF IInv, BucketInv, Moves, SameFiler, Live, Ended, Cleaning
    <3>3. Released /\ (Live("bucket")' <=> Live("bucket"))
      BY <3>1 DEF Released, Live
    <3> QED BY <1>3, <2>7, <3>1, <3>2, <3>3, BucketWrites
  <2> QED BY <2>3, <2>4, <2>6, <2>7, PutMoves, Distinct DEF IInv, Control, BucketSteps
<1> QED BY <1>1, <1>2, <1>3 DEF ReleaseClaim, Call

\* The bucket's finalizers come off: what they were for has been done.
LEMMA RemoveBucketFinalizersStep ==
  ASSUME IInv, RemoveBucketFinalizers
  PROVE  IInv' /\ AccessesKept /\ Released
<1> DEFINE fin == arg["bucket"].fin \ {"BABucketFinalizer", "BucketFinalizer"}
           new == WithFin(arg["bucket"], fin)
<1>1. /\ at["bucket"] = "b_fins" /\ UNCHANGED faults
      /\ Put("bucket", "bucket", arg["bucket"], new, "done")
  BY DEF RemoveBucketFinalizers, Call
<1>2. arg["bucket"] \in Object /\ fin \in SUBSET Finalizers
  BY Distinct DEF IInv, TypeOK, Object
<1>3. arg["bucket"].life = "deleting"
  BY <1>1 DEF IInv, BucketInv, Cleaning
<1>4. new \in Object /\ new.life \in {"deleting", "gone"}
  BY <1>2, <1>3, WithFinType, ConstantTypes
<1> HIDE DEF fin, new
<1>5. CASE Fails("bucket") /\ SameStore /\ SameFiler
  BY <1>1, <1>5, BucketFails DEF IInv, TypeOK
<1>6. CASE /\ arg["bucket"] = obj["bucket"] /\ Moves("bucket", "done")
           /\ obj' \in [Objects -> Object] /\ obj'["bucket"] = new
           /\ \A y \in Objects \ {"bucket"} : obj'[y] = obj[y]
           /\ secret' = secret /\ SameFiler
  <2>1. obj'["claim"] = obj["claim"]
    BY <1>6, Distinct
  <2>2. ~Live("bucket") /\ ~Live("bucket")' /\ ~Live("claim")
    BY <1>3, <1>4, <1>6 DEF IInv, BucketInv, Live
  <2>3. BucketInv'
    BY <1>1, <1>3, <1>4, <1>6, <2>1, <2>2 DEF IInv, BucketInv, Moves, SameFiler, Live, Ended, Cleaning
  <2>4. Released
    BY <1>1, <1>6, <2>1 DEF IInv, BucketInv, Released, SameFiler
  <2> QED BY <1>1, <1>6, <2>2, <2>3, <2>4, BucketWrites
<1> QED BY <1>1, <1>4, <1>5, <1>6, PutMoves, Distinct DEF IInv, Control

\* A delete request for an access that was granted: the finalizer holds it.
LEMMA SettledByDelete ==
  ASSUME IInv, SettledInv, Others("bucket"), secret' = secret, identity' = identity,
         NEW u \in Accesses, Exists(u), obj[u].ready, obj'[u] = Deleted(obj[u]),
         \A v \in Accesses : v # u => obj'[v] = obj[v], Live("claim") => Live("claim")'
  PROVE  SettledInv'
<1>1. /\ obj'[u].life = "deleting" /\ obj'[u].ready = obj[u].ready /\ obj[u].life \in {"live", "deleting"}
      /\ obj[u] \in Object
  <2>1. obj[u] \in Object /\ obj[u].fin # {}
    BY Distinct DEF IInv, TypeOK, PinInv
  <2> QED BY <2>1, DeletedType DEF Exists
<1>2. ASSUME NEW v \in Accesses
      PROVE  /\ at'[v] = at[v] /\ arg'[v] = arg[v] /\ op'[v] = op[v]
             /\ todo'[v] = todo[v] /\ event'[v] = event[v] /\ (v \in indexed' <=> v \in indexed)
             /\ cred'[v] = cred[v] /\ identity'[v] = identity[v] /\ SecretFor(v)' = SecretFor(v)
  <2>1. v # "bucket"
    BY Distinct
  <2>2. SecretFor(v)' = SecretFor(v)
    BY DEF SecretFor
  <2> QED BY <2>1, <2>2, OtherAccess
<1>3. ASSUME NEW v \in Accesses
      PROVE  QueueInv(v)' /\ CredInv(v)'
  <2>1. QueueInv(v) /\ CredInv(v)
    BY DEF SettledInv
  <2>2. CASE v # u
    BY <1>2, <2>1, <2>2, QueueSame, CredSame
  <2>3. CASE v = u
    <3>1. QueueInv(u)'
      <4>1. /\ at'[u] = at[u] /\ arg'[u] = arg[u] /\ op'[u] = op[u]
            /\ todo'[u] = todo[u] /\ event'[u] = event[u] /\ (u \in indexed' <=> u \in indexed)
        BY <1>2
      <4>2. QueueInv(u)
        BY <2>1, <2>3
      <4>3. \A x \in {obj'[u], event'[u], arg'[u]} : x.life = "deleting" => x.ready
        BY <1>1, <4>1, <4>2 DEF QueueInv
      <4> QED BY <1>1, <4>1, <4>2, <4>3 DEF QueueInv, Exists, Live, Ended
    <3>2. CredInv(u)'
      BY <1>1, <1>2, <2>1, <2>3 DEF CredInv, Live
    <3> QED BY <2>3, <3>1, <3>2
  <2> QED BY <2>2, <2>3
<1>4. \A v \in Accesses : (Exists(v)' <=> Exists(v)) /\ (obj'[v].life = "gone" <=> obj[v].life = "gone")
  BY <1>1 DEF Exists
<1>5. \A n \in Secrets : Owned(n)'
  BY <1>4 DEF SettledInv, Owned
<1>6. \A v \in Accesses : Active(v)' <=> Active(v)
  BY <1>2, <1>4 DEF Active
<1>7. \A v, w \in Accesses : Active(v)' /\ Active(w)' /\ SecretOf[v] = SecretOf[w] => v = w
  BY <1>6 DEF SettledInv
<1> QED BY <1>3, <1>5, <1>7 DEF SettledInv

\* A delete request leaves the finalizers of a granted access.
LEMMA PinByDelete ==
  ASSUME IInv, NEW u \in Accesses, Exists(u), obj'[u] = Deleted(obj[u]), at'[u] = at[u],
         arg'[u] = arg[u], Live("bucket")' => Live("bucket") /\ obj'["bucket"] = obj["bucket"]
  PROVE  PinInv(u)'
<1>1. obj[u] \in Object
  BY Distinct DEF IInv, TypeOK
<1>2. CASE obj[u].fin = {}
  BY <1>1, <1>2, DeletedType, ConstantTypes DEF IInv, PinInv, Exists, Live
<1>3. CASE obj[u].fin # {}
  <2>1. obj'[u].life = "deleting" /\ obj'[u].ready = obj[u].ready /\ obj'[u].fin = obj[u].fin
    BY <1>1, <1>3, DeletedType
  <2> QED BY <2>1 DEF IInv, PinInv, Exists, Live
<1> QED BY <1>2, <1>3

\* The cleanup deletes an access: the claim is not live, so the access was granted.
LEMMA DeleteListedAccessStep ==
  ASSUME IInv, NEW u \in Accesses, DeleteListedAccess(u)
  PROVE  IInv' /\ Released /\ (SettledInv => SettledInv')
<1>1. CASE UNCHANGED faults /\ Error("bucket")
  <2>1. IInv' /\ AccessesKept /\ Released
    BY <1>1, ErrorFails, BucketFails, Distinct DEF IInv, TypeOK
  <2> QED BY <2>1, SettledByBucket
<1>2. CASE /\ at["bucket"] = "b_accesses" /\ UNCHANGED faults /\ Exists(u)
           /\ obj' = [obj EXCEPT ![u] = Deleted(@)]
           /\ list' = list \ {u}
           /\ at' = [at EXCEPT !["bucket"] =
                       IF list = {u} THEN AfterAccesses(arg["bucket"]) ELSE "b_accesses"]
           /\ Noted /\ UNCHANGED <<op, arg, copy, cred, secret, filer>>
  <2> DEFINE next == IF list = {u} THEN AfterAccesses(arg["bucket"]) ELSE "b_accesses"
  <2>1. /\ next \in {"b_accesses", "b_fins", "b_delete", "b_release"}
        /\ next = "b_fins" => "BucketFinalizer" \notin arg["bucket"].fin
        /\ next = "b_release" => ~DeletePolicy
    BY AfterAccessesIs
  <2>2. at' = [at EXCEPT !["bucket"] = next]
    BY <1>2
  <2> HIDE DEF next
  <2>3. Moves("bucket", next)
    <3>1. HandlerType /\ QueueType
      BY TypeParts DEF IInv
    <3>2. UNCHANGED <<event, todo, indexed>>
      BY <1>2 DEF Noted, queue
    <3>3. next \in Control
      BY <2>1 DEF Control, BucketSteps
    <3>4. HandlerType'
      BY <1>2, <2>2, <3>1, <3>3 DEF HandlerType
    <3>5. QueueType'
      BY <3>1, <3>2 DEF QueueType
    <3>6. Others("bucket") /\ at'["bucket"] = next
      BY <1>2, <2>2, <3>1, <3>2, Distinct DEF HandlerType, Others
    <3> QED BY <1>2, <3>2, <3>4, <3>5, <3>6 DEF Moves
  <2>4. /\ obj' \in [Objects -> Object] /\ obj'[u] = Deleted(obj[u])
        /\ \A v \in Objects : v # u => obj'[v] = obj[v]
    <3>1. obj \in [Objects -> Object] /\ u \in Objects
      BY Distinct DEF IInv, TypeOK
    <3>2. Deleted(obj[u]) \in Object
      BY <3>1, DeletedType
    <3> QED BY <1>2, <3>1, <3>2
  <2>5. obj'["bucket"] = obj["bucket"] /\ obj'["claim"] = obj["claim"] /\ SameFiler /\ secret' = secret
    BY <1>2, <2>4, Distinct DEF SameFiler, filer
  <2>6. TypeOK'
    <3>1. StoreType' /\ faults' \in 0 .. MaxFaults
      BY <1>2, <2>4, <2>5 DEF IInv, TypeOK, StoreType, CredType
    <3> QED BY <2>3, <2>5, <3>1, TypedAfter DEF IInv, Moves
  <2>7. BucketInv'
    BY <1>2, <2>1, <2>3, <2>5 DEF IInv, BucketInv, Moves, SameFiler, Live, Ended, Cleaning
  <2>8. ASSUME NEW v \in Accesses
        PROVE  PinInv(v)'
    <3>1. at'[v] = at[v] /\ arg'[v] = arg[v] /\ PinInv(v)
      BY <2>3, OtherAccess, Distinct DEF Moves, IInv
    <3>2. CASE v = u
      BY <1>2, <2>4, <2>5, <3>1, <3>2, PinByDelete DEF Live
    <3>3. CASE v # u
      <4>1. obj'[v] = obj[v]
        BY <2>4, <3>3, Distinct
      <4> QED BY <2>5, <3>1, <4>1, PinSame DEF Live
    <3> QED BY <3>2, <3>3
  <2>9. SettledInv => SettledInv'
    <3>1. SettledInv => obj[u].ready
      BY <1>2 DEF SettledInv, QueueInv, IInv, BucketInv, Cleaning, Live, Ended
    <3>2. \A v \in Accesses : v # u => obj'[v] = obj[v]
      BY <2>4, Distinct
    <3> QED BY <1>2, <2>3, <2>4, <2>5, <3>1, <3>2, SettledByDelete DEF Moves, SameFiler, Live
  <2> QED BY <2>5, <2>6, <2>7, <2>8, <2>9 DEF IInv, Released
<1> QED BY <1>1, <1>2 DEF DeleteListedAccess, Call

\* Any step of the Bucket listener.
LEMMA BucketStepKeeps ==
  ASSUME IInv, BucketStep
  PROVE  IInv' /\ Released /\ (SettledInv => SettledInv')
<1>1. CASE IInv' /\ AccessesKept /\ Released
  BY <1>1, SettledByBucket
<1>2. CASE \E u \in Accesses : DeleteListedAccess(u)
  BY <1>2, DeleteListedAccessStep
<1> QED BY <1>1, <1>2, BucketAddStep, BucketUpdateStep, CreateEntryStep, SetLocationConfStep,
           UpdateBucketStatusStep, UpdateBucketClaimStatusStep, AddBucketFinalizerStep,
           ListAccessesStep, DeleteEntryStep, DeleteLocationConfStep, ReleaseClaimStep,
           RemoveBucketFinalizersStep DEF BucketStep

-----------------------------------------------------------------------------
(* The BucketAccess listener *)

\* A step about one access keeps the others: no other access that the sidecar may
\* still act on has the same Secret.
LEMMA SettledByAccess ==
  ASSUME TypeOK, SettledInv, NEW u \in Accesses, Others(u), Active(u),
         \A v \in Accesses : v # u => obj'[v] = obj[v] /\ identity'[v] = identity[v],
         \A n \in Secrets : n # SecretOf[u] => secret'[n] = secret[n],
         Live("claim") => Live("claim")',
         QueueInv(u)', CredInv(u)', Owned(SecretOf[u])'
  PROVE  SettledInv'
<1>1. ASSUME NEW v \in Accesses, v # u
      PROVE  /\ obj'[v] = obj[v] /\ at'[v] = at[v] /\ arg'[v] = arg[v] /\ op'[v] = op[v]
             /\ todo'[v] = todo[v] /\ event'[v] = event[v] /\ (v \in indexed' <=> v \in indexed)
             /\ cred'[v] = cred[v] /\ identity'[v] = identity[v]
  BY <1>1, OtherAccess
<1>2. ASSUME NEW v \in Accesses, v # u
      PROVE  QueueInv(v)' /\ CredInv(v)'
  <2>1. QueueInv(v) /\ CredInv(v) /\ SecretOf[v] \in Secrets
    BY SecretOfAssumption DEF SettledInv
  <2>2. QueueInv(v)'
    BY <1>1, <1>2, <2>1, QueueSame
  <2>3. CASE SecretOf[v] # SecretOf[u]
    <3>1. SecretFor(v)' = SecretFor(v)
      BY <2>1, <2>3 DEF SecretFor
    <3> QED BY <1>1, <1>2, <2>1, <2>2, <3>1, CredSame
  <2>4. CASE SecretOf[v] = SecretOf[u]
    <3>1. ~Active(v)
      BY <1>2, <2>4 DEF SettledInv
    <3>2. at[v] = "idle" /\ ~Live(v)
      <4>1. obj[v].life \in {"absent", "live", "deleting", "gone"}
        BY Distinct DEF TypeOK, Object
      <4> QED BY <3>1, <2>1, <4>1 DEF Active, Exists, Live, QueueInv
    <3>3. at'[v] = "idle" /\ ~Live(v)'
      BY <1>1, <1>2, <3>2 DEF Live
    <3>4. CredInv(v)'
      BY <1>1, <1>2, <2>1, <3>3 DEF CredInv
    <3> QED BY <2>2, <3>4
  <2> QED BY <2>3, <2>4
<1>3. ASSUME NEW n \in Secrets
      PROVE  Owned(n)'
  <2>1. CASE n = SecretOf[u]
    BY <2>1
  <2>2. CASE n # SecretOf[u]
    <3>1. secret'[n] = secret[n] /\ Owned(n)
      BY <2>2 DEF SettledInv
    <3>2. \A w \in Accesses : SecretOf[w] = n /\ Exists(w) => Exists(w)'
      BY <2>2 DEF Exists
    <3> QED BY <3>1, <3>2 DEF Owned
  <2> QED BY <2>1, <2>2
<1>4. \A v \in Accesses : Active(v)' => Active(v)
  BY <1>1 DEF Active, Exists
<1>5. \A v, w \in Accesses : Active(v)' /\ Active(w)' /\ SecretOf[v] = SecretOf[w] => v = w
  BY <1>4 DEF SettledInv
<1> QED BY <1>2, <1>3, <1>5 DEF SettledInv

\* A handler runs for an access that has been created.
LEMMA RunningActive ==
  ASSUME SettledInv, TypeOK, NEW u \in Accesses, at[u] # "idle"
  PROVE  Active(u) /\ (op[u] = "add" => Exists(u))
<1>1. obj[u] \in Object /\ QueueInv(u)
  BY Distinct DEF TypeOK, SettledInv
<1> QED BY <1>1 DEF QueueInv, Active, Exists, Object

\* The Secret and its owner stay as they are.
LEMMA OwnedSame ==
  ASSUME NEW n, Owned(n), secret'[n] = secret[n], \A u \in Accesses : Exists(u) => Exists(u)'
  PROVE  Owned(n)'
BY DEF Owned

\* The Secret of an access that the sidecar acts on is its own.
LEMMA SecretIsMine ==
  ASSUME SettledInv, NEW u \in Accesses, Active(u)
  PROVE  /\ SecretFor(u).cred = NoCred <=> SecretFor(u) = NoSecret
         /\ SecretFor(u) # NoSecret => SecretFor(u).cred[1] = u /\ Exists(u)
<1>1. Owned(SecretOf[u])
  BY SecretOfAssumption DEF SettledInv
<1>2. \A w \in Accesses : SecretOf[w] = SecretOf[u] /\ Exists(w) => w = u
  BY DEF SettledInv, Active
<1> QED BY <1>1, <1>2 DEF Owned, SecretFor

\* What a handler of an access that goes on leaves alone.
LEMMA QueueMoves ==
  ASSUME NEW u \in Accesses, NEW next, QueueInv(u), Moves(u, next), at[u] # "idle",
         next \in AddSteps => at[u] \in AddSteps, next \in RevokeSteps => at[u] \in RevokeSteps,
         obj'[u].life = obj[u].life, obj[u].life # "gone" \/ obj'[u] = obj[u],
         obj[u].ready => obj'[u].ready, obj'["claim"] = obj["claim"]
  PROVE  QueueInv(u)'
<1>1. /\ op'[u] = op[u] /\ arg'[u] = arg[u] /\ todo'[u] = todo[u]
      /\ event'[u] = event[u] /\ (u \in indexed' <=> u \in indexed) /\ at'[u] = next
  BY DEF Moves
<1>2. \A x \in {obj'[u], event'[u], arg'[u]} : x.life = "deleting" => x.ready
  BY <1>1 DEF QueueInv
<1> QED BY <1>1, <1>2 DEF QueueInv, Exists, Live, Ended

\* A step of a handler of an access that leaves the bucket and the claim alone.
LEMMA AccessKeeps ==
  ASSUME IInv, NEW u \in Accesses, Others(u), HandlerType', QueueType', StoreType', FilerType',
         faults' \in 0 .. MaxFaults, \A y \in Objects : y # u => obj'[y] = obj[y],
         entry' = entry, PinInv(u)'
  PROVE  IInv' /\ Released
<1>1. TypeOK'
  BY TypedAfter DEF IInv
<1>2. obj'["bucket"] = obj["bucket"] /\ obj'["claim"] = obj["claim"]
  BY Distinct
<1>3. BucketInv'
  <2>1. "bucket" \in Watched /\ "bucket" # u
    BY Distinct
  <2>2. /\ at'["bucket"] = at["bucket"] /\ arg'["bucket"] = arg["bucket"]
        /\ event'["bucket"] = event["bucket"]
    BY <2>1, OtherWatched
  <2> QED BY <1>2, <2>2, BucketSame DEF IInv
<1>4. ASSUME NEW v \in Accesses
      PROVE  PinInv(v)'
  <2>1. CASE v # u
    <3>1. obj'[v] = obj[v] /\ at'[v] = at[v] /\ arg'[v] = arg[v] /\ PinInv(v)
      BY <2>1, OtherAccess, Distinct DEF IInv
    <3> QED BY <1>2, <3>1, PinSame DEF Live
  <2> QED BY <2>1
<1> QED BY <1>1, <1>2, <1>3, <1>4 DEF IInv, Released

\* The handler of an access goes on.
LEMMA AccessMoves ==
  ASSUME IInv, NEW u \in Accesses, NEW next, at[u] # "idle", Moves(u, next), StoreType', FilerType',
         UNCHANGED faults, \A y \in Objects : y # u => obj'[y] = obj[y], entry' = entry,
         \A v \in Accesses : v # u => identity'[v] = identity[v],
         \A n \in Secrets : n # SecretOf[u] => secret'[n] = secret[n], PinInv(u)',
         SettledInv => QueueInv(u)' /\ CredInv(u)' /\ Owned(SecretOf[u])'
  PROVE  IInv' /\ Released /\ (SettledInv => SettledInv')
<1>1. faults' \in 0 .. MaxFaults
  BY DEF IInv, TypeOK
<1>2. IInv' /\ Released
  BY <1>1, AccessKeeps DEF Moves
<1>3. \A v \in Accesses : v # u => obj'[v] = obj[v] /\ identity'[v] = identity[v]
  BY Distinct
<1>4. Live("claim") => Live("claim")'
  BY Distinct DEF Live
<1>5. SettledInv => Active(u)
  BY RunningActive DEF IInv
<1>6. SettledInv => SettledInv'
  BY <1>3, <1>4, <1>5, SettledByAccess DEF Moves, IInv
<1> QED BY <1>2, <1>6

\* The handler of an access gives up.
LEMMA AccessFails ==
  ASSUME IInv, NEW u \in Accesses, at[u] # "idle", Fails(u), SameStore, SameFiler,
         faults' \in 0 .. MaxFaults
  PROVE  IInv' /\ Released /\ (SettledInv => SettledInv')
<1>1. /\ obj' = obj /\ secret' = secret /\ identity' = identity /\ entry' = entry
      /\ at'[u] = "idle" /\ op'[u] = "none" /\ arg'[u] = Absent /\ cred'[u] = NoCred
      /\ todo'[u] = IF todo[u] # "none" \/ event[u].life = "gone" THEN todo[u] ELSE op[u]
      /\ event'[u] = event[u] /\ (u \in indexed' <=> u \in indexed) /\ Others(u)
      /\ HandlerType' /\ QueueType'
  BY DEF Fails, SameStore, SameFiler
<1>2. PinInv(u)'
  BY <1>1 DEF IInv, PinInv, Exists, Live, RevokeSteps
<1>3. StoreType' /\ FilerType'
  <2>1. StoreType /\ FilerType
    BY TypeParts DEF IInv
  <2> QED BY <2>1 DEF StoreType, FilerType, SameStore, SameFiler
<1>4. IInv' /\ Released
  BY <1>1, <1>2, <1>3, AccessKeeps
<1>5. ASSUME SettledInv PROVE SettledInv'
  <2>1. QueueInv(u) /\ CredInv(u) /\ Owned(SecretOf[u]) /\ Active(u)
    BY <1>5, SecretOfAssumption, RunningActive DEF SettledInv, IInv
  <2>2. \A x \in {obj'[u], event'[u], arg'[u]} : x.life = "deleting" => x.ready
    BY <1>1, <2>1, ConstantTypes DEF QueueInv
  <2>3. QueueInv(u)'
    BY <1>1, <2>1, <2>2, ConstantTypes DEF QueueInv, Exists, Live, Ended, AddSteps, RevokeSteps
  <2>4. CredInv(u)'
    BY <1>1, <2>1 DEF CredInv, Live, SecretFor
  <2>5. Owned(SecretOf[u])'
    BY <1>1, <2>1 DEF Owned, Exists
  <2> QED BY <1>1, <1>5, <2>1, <2>3, <2>4, <2>5, SettledByAccess DEF Live, IInv
<1> QED BY <1>4, <1>5

\* What is not written stays well typed.
LEMMA StaysTyped ==
  ASSUME TypeOK
  PROVE  (SameStore => StoreType') /\ (SameFiler => FilerType')
<1>1. StoreType /\ FilerType
  BY TypeParts
<1> QED BY <1>1 DEF StoreType, FilerType, SameStore, SameFiler

\* A handler of an access reads and goes on.
LEMMA AccessReads ==
  ASSUME IInv, NEW u \in Accesses, NEW next, at[u] # "idle", Moves(u, next), SameStore, SameFiler,
         UNCHANGED faults, PinInv(u)', SettledInv => CredInv(u)',
         next \in AddSteps => at[u] \in AddSteps, next \in RevokeSteps => at[u] \in RevokeSteps
  PROVE  IInv' /\ Released /\ (SettledInv => SettledInv')
<1>1. obj' = obj /\ secret' = secret /\ entry' = entry /\ identity' = identity
  BY DEF SameStore, SameFiler
<1>2. StoreType' /\ FilerType'
  BY StaysTyped DEF IInv
<1>3. SettledInv => QueueInv(u)'
  <2>1. SettledInv => QueueInv(u)
    BY DEF SettledInv
  <2> QED BY <1>1, <2>1, QueueMoves
<1>4. SettledInv => Owned(SecretOf[u])'
  <2>1. SettledInv => Owned(SecretOf[u])
    BY SecretOfAssumption DEF SettledInv
  <2> QED BY <1>1, <2>1, OwnedSame DEF Exists
<1> QED BY <1>1, <1>2, <1>3, <1>4, AccessMoves

\* An error of a handler of an access.
LEMMA AccessErrors ==
  ASSUME IInv, NEW u \in Accesses, at[u] # "idle", Error(u), UNCHANGED faults
  PROVE  IInv' /\ Released /\ (SettledInv => SettledInv')
<1>1. Fails(u) /\ SameStore /\ SameFiler
  BY ErrorFails, Distinct DEF IInv
<1> QED BY <1>1, AccessFails DEF IInv, TypeOK

\* The claim, and then the bucket, must be ready.
LEMMA CheckReadyStep ==
  ASSUME IInv, NEW u \in Accesses,
         CheckReady(u, "claim", "a_claim", "a_bucket") \/ CheckReady(u, "bucket", "a_bucket", "a_secret")
  PROVE  IInv' /\ Released /\ (SettledInv => SettledInv')
<1>1. CASE at[u] \in {"a_claim", "a_bucket"} /\ UNCHANGED faults /\ Error(u)
  BY <1>1, AccessErrors
<1>2. ASSUME NEW next \in {"a_bucket", "a_secret"},
             at[u] \in {"a_claim", "a_bucket"}, UNCHANGED faults, Read(u, next)
      PROVE  IInv' /\ Released /\ (SettledInv => SettledInv')
  <2>1. Moves(u, next) /\ cred' = cred /\ SameStore /\ SameFiler
    BY <1>2, ReadMoves, Distinct DEF IInv, Control, AddSteps
  <2>2. at'[u] = next /\ arg'[u] = arg[u] /\ obj' = obj
    BY <2>1 DEF Moves, SameStore
  <2>3. PinInv(u)'
    BY <1>2, <2>2 DEF IInv, PinInv, Exists, Live, RevokeSteps
  <2>4. SettledInv => CredInv(u)'
    BY <1>2, <2>1, <2>2 DEF SettledInv, CredInv, Live, SameStore, SameFiler, SecretFor
  <2> QED BY <1>2, <2>1, <2>3, <2>4, AccessReads DEF AddSteps, RevokeSteps
<1> QED BY <1>1, <1>2 DEF CheckReady, Call

\* The Secret is fetched.
LEMMA GetSecretStep ==
  ASSUME IInv, NEW u \in Accesses,
         GetSecret(u, "a_secret", "a_grant") \/ GetSecret(u, "d_secret", "d_revoke")
  PROVE  IInv' /\ Released /\ (SettledInv => SettledInv')
<1> SUFFICES ASSUME NEW step \in {"a_secret", "d_secret"}, NEW next \in {"a_grant", "d_revoke"},
                    step = "a_secret" <=> next = "a_grant", GetSecret(u, step, next)
             PROVE  IInv' /\ Released /\ (SettledInv => SettledInv')
  OBVIOUS
<1>1. /\ at[u] = step /\ UNCHANGED faults /\ at' = [at EXCEPT ![u] = next]
      /\ cred' = [cred EXCEPT ![u] = SecretFor(u).cred] /\ UNCHANGED <<event, todo, indexed>>
      /\ UNCHANGED <<op, arg, copy, list>> /\ SameStore /\ SameFiler
  BY DEF GetSecret, Call, Noted, queue, SecretFor, SameStore, SameFiler, store, filer
<1>2. SecretFor(u) \in [cred : CredType, fin : BOOLEAN]
  BY SecretOfAssumption DEF IInv, TypeOK, SecretFor, CredType
<1>3. Moves(u, next) /\ cred'[u] = SecretFor(u).cred
  <2>1. HandlerType /\ QueueType /\ u \in Watched
    BY TypeParts, Distinct DEF IInv
  <2>2. next \in Control
    BY DEF Control, AddSteps, RevokeSteps
  <2>3. HandlerType'
    BY <1>1, <1>2, <2>1, <2>2 DEF HandlerType
  <2>4. QueueType'
    BY <1>1, <2>1 DEF QueueType
  <2>5. Others(u) /\ at'[u] = next /\ cred'[u] = SecretFor(u).cred
    BY <1>1, <2>1 DEF HandlerType, Others
  <2> QED BY <1>1, <2>3, <2>4, <2>5 DEF Moves
<1>4. at'[u] = next /\ arg'[u] = arg[u] /\ obj' = obj /\ secret' = secret /\ identity' = identity
  BY <1>1, <1>3 DEF Moves, SameStore, SameFiler
<1>5. PinInv(u)'
  BY <1>1, <1>4 DEF IInv, PinInv, Exists, Live, RevokeSteps
<1>6. ASSUME SettledInv PROVE CredInv(u)'
  <2>1. CredInv(u) /\ Active(u)
    BY <1>1, <1>6, RunningActive DEF SettledInv, IInv
  <2>2. SecretFor(u).cred = NoCred \/ SecretFor(u).cred[1] = u
    BY <1>6, <2>1, SecretIsMine
  <2>3. SecretFor(u)' = SecretFor(u)
    BY <1>4 DEF SecretFor
  <2> QED BY <1>1, <1>3, <1>4, <2>1, <2>2, <2>3 DEF CredInv, Live
<1> QED BY <1>1, <1>3, <1>5, <1>6, AccessReads DEF AddSteps, RevokeSteps

\* DriverGrantBucketAccess: the Secret's credential wins, and none is minted for an
\* access that is gone.
LEMMA GrantAccessStep ==
  ASSUME IInv, NEW u \in Accesses, GrantAccess(u)
  PROVE  IInv' /\ Released /\ (SettledInv => SettledInv')
<1> DEFINE granted == IF cred[u] # NoCred THEN cred[u]
                      ELSE IF identity[u] # NoCred THEN identity[u]
                      ELSE <<u, minted[u] + 1>>
           next == IF cred[u] # NoCred THEN "a_pin" ELSE "a_create"
<1>1. /\ at[u] = "a_grant" /\ UNCHANGED faults /\ identity' = [identity EXCEPT ![u] = granted]
      /\ minted' = [minted EXCEPT ![u] = IF granted = <<u, minted[u] + 1>> THEN minted[u] + 1 ELSE minted[u]]
      /\ cred' = [cred EXCEPT ![u] = granted] /\ at' = [at EXCEPT ![u] = next]
      /\ UNCHANGED <<event, todo, indexed>> /\ UNCHANGED <<op, arg, copy, list>> /\ SameStore
      /\ entry' = entry /\ conf' = conf
  BY DEF GrantAccess, Call, Noted, queue, SameStore, store
<1>2. HandlerType /\ QueueType /\ FilerType /\ u \in Watched
  BY TypeParts, Distinct DEF IInv
<1>3. granted \in CredType
  <2>1. cred[u] \in CredType /\ identity[u] \in CredType /\ <<u, minted[u] + 1>> \in CredType
    BY <1>2 DEF HandlerType, FilerType, CredType, Credential
  <2> QED BY <2>1
<1>4. /\ cred[u] # NoCred => granted = cred[u]
      /\ cred[u] = NoCred /\ identity[u] # NoCred => granted = identity[u]
      /\ cred[u] = NoCred /\ identity[u] = NoCred => granted = <<u, minted[u] + 1>>
  OBVIOUS
<1>5. next \in {"a_pin", "a_create"} /\ (next = "a_pin" <=> cred[u] # NoCred)
  OBVIOUS
<1> HIDE DEF granted, next
<1>6. Moves(u, next) /\ cred'[u] = granted
  <2>1. next \in Control
    BY <1>5 DEF Control, AddSteps
  <2>2. HandlerType'
    BY <1>1, <1>2, <1>3, <2>1 DEF HandlerType
  <2>3. QueueType'
    BY <1>1, <1>2 DEF QueueType
  <2>4. Others(u) /\ at'[u] = next /\ cred'[u] = granted
    BY <1>1, <1>2 DEF HandlerType, Others
  <2> QED BY <1>1, <2>2, <2>3, <2>4 DEF Moves
<1>7. FilerType' /\ identity'[u] = granted /\ \A v \in Accesses : v # u => identity'[v] = identity[v]
  BY <1>1, <1>2, <1>3 DEF FilerType
<1>8. at'[u] = next /\ arg'[u] = arg[u] /\ obj' = obj /\ secret' = secret
  BY <1>1, <1>6 DEF Moves, SameStore
<1>9. PinInv(u)'
  BY <1>1, <1>5, <1>8 DEF IInv, PinInv, Exists, Live, RevokeSteps
<1>10. ASSUME SettledInv PROVE QueueInv(u)' /\ CredInv(u)' /\ Owned(SecretOf[u])'
  <2>1. QueueInv(u) /\ CredInv(u) /\ Owned(SecretOf[u])
    BY <1>10, SecretOfAssumption DEF SettledInv
  <2>2. QueueInv(u)'
    BY <1>1, <1>5, <1>6, <1>8, <2>1, QueueMoves DEF AddSteps, RevokeSteps
  <2>3. obj[u].life # "gone"
    BY <1>1, <2>1 DEF QueueInv, AddSteps
  <2>4. SecretFor(u)' = SecretFor(u) /\ (SecretFor(u).cred = NoCred <=> SecretFor(u) = NoSecret)
    BY <1>8, <2>1 DEF SecretFor, Owned
  <2>5. <<u, minted[u] + 1>> # NoCred /\ <<u, minted[u] + 1>>[1] = u
    BY Distinct DEF NoCred
  <2>6. granted # NoCred /\ granted[1] = u
    BY <1>4, <2>1, <2>5 DEF CredInv
  <2>7. cred[u] = SecretFor(u).cred /\ (cred[u] # NoCred => granted = SecretFor(u).cred)
    BY <1>1, <1>4, <2>1 DEF CredInv
  <2>8. CredInv(u)'
    BY <1>1, <1>5, <1>6, <1>7, <1>8, <2>1, <2>3, <2>4, <2>6, <2>7 DEF CredInv, Live
  <2>9. Owned(SecretOf[u])'
    BY <1>8, <2>1, OwnedSame DEF Exists
  <2> QED BY <2>2, <2>8, <2>9
<1>11. StoreType'
  BY <1>1, StaysTyped DEF IInv
<1> QED BY <1>1, <1>6, <1>7, <1>8, <1>9, <1>10, <1>11, AccessMoves

\* A write of the Secret is well typed and leaves the other Secrets.
LEMMA SecretWritten ==
  ASSUME TypeOK, NEW u \in Accesses, NEW new \in [cred : CredType, fin : BOOLEAN], obj' = obj,
         secret' = [secret EXCEPT ![SecretOf[u]] = new]
  PROVE  /\ StoreType' /\ SecretFor(u)' = new
         /\ \A n \in Secrets : n # SecretOf[u] => secret'[n] = secret[n]
<1>1. StoreType /\ SecretOf[u] \in Secrets
  BY TypeParts, SecretOfAssumption
<1> QED BY <1>1 DEF StoreType, SecretFor

\* The Secret is created with the credential of the identity.
LEMMA CreateSecretStep ==
  ASSUME IInv, NEW u \in Accesses, CreateSecret(u)
  PROVE  IInv' /\ Released /\ (SettledInv => SettledInv')
<1> DEFINE new == IF SecretFor(u) = NoSecret THEN [cred |-> cred[u], fin |-> TRUE] ELSE SecretFor(u)
<1>1. /\ at[u] = "a_create" /\ UNCHANGED faults /\ secret' = [secret EXCEPT ![SecretOf[u]] = new]
      /\ Goto(u, "a_pin") /\ Noted /\ obj' = obj /\ SameFiler
  BY DEF CreateSecret, Call, SecretFor, SameFiler, filer
<1>2. cred[u] \in CredType /\ SecretFor(u) \in [cred : CredType, fin : BOOLEAN]
  BY SecretOfAssumption DEF IInv, TypeOK, SecretFor, CredType
<1>3. new \in [cred : CredType, fin : BOOLEAN]
  BY <1>2
<1>4. SecretFor(u) = NoSecret => new.cred = cred[u]
  OBVIOUS
<1> HIDE DEF new
<1>5. Moves(u, "a_pin") /\ cred' = cred
  BY <1>1, GotoMoves, Distinct DEF IInv, Control, AddSteps
<1>6. at'[u] = "a_pin" /\ arg'[u] = arg[u] /\ identity' = identity /\ entry' = entry
  BY <1>1, <1>5 DEF Moves, SameFiler
<1>7. StoreType' /\ SecretFor(u)' = new /\ \A n \in Secrets : n # SecretOf[u] => secret'[n] = secret[n]
  BY <1>1, <1>3, SecretWritten DEF IInv
<1>8. PinInv(u)'
  BY <1>1, <1>6 DEF IInv, PinInv, Exists, Live, RevokeSteps
<1>9. ASSUME SettledInv PROVE QueueInv(u)' /\ CredInv(u)' /\ Owned(SecretOf[u])'
  <2>1. QueueInv(u) /\ CredInv(u) /\ Exists(u)
    BY <1>1, <1>9, RunningActive DEF SettledInv, IInv, QueueInv, AddSteps
  <2>2. QueueInv(u)'
    BY <1>1, <1>5, <2>1, QueueMoves DEF AddSteps, RevokeSteps
  <2>3. new.cred = cred[u] /\ new.cred # NoCred /\ identity[u] \in {NoCred, new.cred} /\ new.cred[1] = u
    BY <1>1, <1>4, <2>1 DEF CredInv
  <2>4. new # NoSecret
    BY <2>3 DEF NoSecret
  <2>5. CredInv(u)'
    BY <1>1, <1>5, <1>6, <1>7, <2>1, <2>3, <2>4 DEF CredInv, Live
  <2>6. Owned(SecretOf[u])'
    <3>1. secret'[SecretOf[u]] = new /\ Exists(u)'
      BY <1>1, <1>7, <2>1 DEF SecretFor, Exists
    <3> QED BY <2>3, <2>4, <3>1 DEF Owned
  <2> QED BY <2>2, <2>5, <2>6
<1>10. FilerType'
  BY <1>1, StaysTyped DEF IInv
<1> QED BY <1>1, <1>5, <1>6, <1>7, <1>8, <1>9, <1>10, AccessMoves

\* deleteBucketAccessOp revokes the identity: an access that is being deleted was
\* granted.
LEMMA RevokeAccessStep ==
  ASSUME IInv, NEW u \in Accesses, RevokeAccess(u)
  PROVE  IInv' /\ Released /\ (SettledInv => SettledInv')
<1> DEFINE next == IF cred[u] = NoCred THEN "d_delete" ELSE "d_unpin"
           left == IF arg[u].ready THEN NoCred ELSE identity[u]
<1>1. /\ at[u] = "d_revoke" /\ UNCHANGED faults /\ identity' = [identity EXCEPT ![u] = left]
      /\ Goto(u, next) /\ Noted /\ SameStore /\ entry' = entry /\ conf' = conf /\ minted' = minted
  BY DEF RevokeAccess, Call, SameStore, store
<1>2. next \in {"d_delete", "d_unpin"} /\ (next = "d_delete" <=> cred[u] = NoCred)
  OBVIOUS
<1>3. identity[u] \in CredType /\ NoCred \in CredType
  BY ConstantTypes DEF IInv, TypeOK, CredType
<1>4. left \in CredType /\ (arg[u].ready => left = NoCred)
  BY <1>3
<1> HIDE DEF next, left
<1>5. Moves(u, next) /\ cred' = cred
  BY <1>1, <1>2, GotoMoves, Distinct DEF IInv, Control, RevokeSteps
<1>6. at'[u] = next /\ arg'[u] = arg[u] /\ obj' = obj /\ secret' = secret
  BY <1>1, <1>5 DEF Moves, SameStore
<1>7. FilerType' /\ identity'[u] = left /\ \A v \in Accesses : v # u => identity'[v] = identity[v]
  <2>1. FilerType
    BY TypeParts DEF IInv
  <2> QED BY <1>1, <1>4, <2>1 DEF FilerType
<1>8. PinInv(u)'
  BY <1>1, <1>2, <1>6 DEF IInv, PinInv, Exists, Live, RevokeSteps
<1>9. ASSUME SettledInv PROVE QueueInv(u)' /\ CredInv(u)' /\ Owned(SecretOf[u])'
  <2>1. QueueInv(u) /\ CredInv(u) /\ Owned(SecretOf[u])
    BY <1>9, SecretOfAssumption DEF SettledInv
  <2>2. QueueInv(u)'
    BY <1>1, <1>2, <1>5, <1>6, <2>1, QueueMoves DEF AddSteps, RevokeSteps
  <2>3. left = NoCred /\ ~Live(u)
    <3>1. arg[u].life = "deleting"
      BY <1>1 DEF IInv, PinInv, RevokeSteps
    <3> QED BY <1>4, <2>1, <3>1 DEF QueueInv, Ended, Live
  <2>4. SecretFor(u)' = SecretFor(u)
    BY <1>6 DEF SecretFor
  <2>5. CredInv(u)'
    BY <1>1, <1>2, <1>5, <1>6, <1>7, <2>1, <2>3, <2>4 DEF CredInv, Live
  <2>6. Owned(SecretOf[u])'
    BY <1>6, <2>1, OwnedSame DEF Exists
  <2> QED BY <2>2, <2>5, <2>6
<1>10. StoreType'
  BY <1>1, StaysTyped DEF IInv
<1> QED BY <1>1, <1>5, <1>6, <1>7, <1>8, <1>9, <1>10, AccessMoves

\* The Secret's finalizer comes off.
LEMMA UnpinSecretStep ==
  ASSUME IInv, NEW u \in Accesses, UnpinSecret(u)
  PROVE  IInv' /\ Released /\ (SettledInv => SettledInv')
<1>1. CASE at[u] = "d_unpin" /\ UNCHANGED faults /\ Error(u)
  BY <1>1, AccessErrors
<1>2. CASE /\ at[u] = "d_unpin" /\ UNCHANGED faults /\ secret[SecretOf[u]].cred = cred[u]
           /\ secret' = [secret EXCEPT ![SecretOf[u]].fin = FALSE]
           /\ Goto(u, "d_delete") /\ Noted /\ UNCHANGED <<obj, filer>>
  <2> DEFINE new == [SecretFor(u) EXCEPT !.fin = FALSE]
  <2>1. SecretFor(u) \in [cred : CredType, fin : BOOLEAN]
    BY SecretOfAssumption DEF IInv, TypeOK, SecretFor, CredType
  <2>2. new \in [cred : CredType, fin : BOOLEAN] /\ new.cred = SecretFor(u).cred /\ new.fin = FALSE
    BY <2>1
  <2>3. secret' = [secret EXCEPT ![SecretOf[u]] = new] /\ obj' = obj /\ SameFiler
    BY <1>2 DEF SecretFor, SameFiler, filer
  <2> HIDE DEF new
  <2>4. Moves(u, "d_delete") /\ cred' = cred
    BY <1>2, GotoMoves, Distinct DEF IInv, Control, RevokeSteps
  <2>5. at'[u] = "d_delete" /\ arg'[u] = arg[u] /\ identity' = identity /\ entry' = entry
    BY <2>3, <2>4 DEF Moves, SameFiler
  <2>6. StoreType' /\ SecretFor(u)' = new /\ \A n \in Secrets : n # SecretOf[u] => secret'[n] = secret[n]
    BY <2>2, <2>3, SecretWritten DEF IInv
  <2>7. PinInv(u)'
    BY <1>2, <2>3, <2>5 DEF IInv, PinInv, Exists, Live, RevokeSteps
  <2>8. ASSUME SettledInv PROVE QueueInv(u)' /\ CredInv(u)' /\ Owned(SecretOf[u])'
    <3>1. QueueInv(u) /\ CredInv(u) /\ Owned(SecretOf[u])
      BY <2>8, SecretOfAssumption DEF SettledInv
    <3>2. QueueInv(u)'
      BY <1>2, <2>3, <2>4, <3>1, QueueMoves DEF AddSteps, RevokeSteps
    <3>3. ~Live(u)
      BY <1>2, <3>1 DEF IInv, PinInv, QueueInv, Ended, Live, RevokeSteps
    <3>4. CredInv(u)'
      BY <1>2, <2>2, <2>3, <2>4, <2>5, <2>6, <3>1, <3>3 DEF CredInv, Live
    <3>5. secret'[SecretOf[u]] = new /\ new.cred # NoCred
      BY <1>2, <2>2, <2>6, <3>1 DEF SecretFor, CredInv
    <3>6. new # NoSecret
      BY <3>5 DEF NoSecret
    <3>7. secret[SecretOf[u]] # NoSecret /\ new.cred = secret[SecretOf[u]].cred
      BY <2>2, <3>5 DEF SecretFor, NoSecret
    <3>8. Owned(SecretOf[u])'
      BY <2>3, <3>1, <3>5, <3>6, <3>7 DEF Owned, Exists
    <3> QED BY <3>2, <3>4, <3>8
  <2>9. FilerType'
    BY <2>3, StaysTyped DEF IInv
  <2> QED BY <1>2, <2>3, <2>4, <2>5, <2>6, <2>7, <2>8, <2>9, AccessMoves
<1> QED BY <1>1, <1>2 DEF UnpinSecret, Call

\* The Secret is deleted.
LEMMA DeleteSecretStep ==
  ASSUME IInv, NEW u \in Accesses, DeleteSecret(u)
  PROVE  IInv' /\ Released /\ (SettledInv => SettledInv')
<1> DEFINE new == IF cred[u] = NoCred \/ SecretFor(u).fin THEN SecretFor(u) ELSE NoSecret
<1>1. CASE at[u] = "d_delete" /\ UNCHANGED faults /\ Error(u)
  BY <1>1, AccessErrors
<1>2. CASE /\ at[u] = "d_delete" /\ UNCHANGED faults /\ secret' = [secret EXCEPT ![SecretOf[u]] = new]
           /\ Goto(u, "d_fin") /\ Noted /\ UNCHANGED <<obj, filer>>
  <2>1. SecretFor(u) \in [cred : CredType, fin : BOOLEAN]
    BY SecretOfAssumption DEF IInv, TypeOK, SecretFor, CredType
  <2>2. new \in [cred : CredType, fin : BOOLEAN]
    BY <2>1, ConstantTypes
  <2>3. \/ new = NoSecret
        \/ new = SecretFor(u) /\ (cred[u] = NoCred \/ SecretFor(u).fin)
    OBVIOUS
  <2> HIDE DEF new
  <2>4. Moves(u, "d_fin") /\ cred' = cred /\ SameFiler
    BY <1>2, GotoMoves, Distinct DEF IInv, Control, RevokeSteps, SameFiler, filer
  <2>5. at'[u] = "d_fin" /\ arg'[u] = arg[u] /\ identity' = identity /\ entry' = entry
    BY <2>4 DEF Moves, SameFiler
  <2>6. StoreType' /\ SecretFor(u)' = new /\ \A n \in Secrets : n # SecretOf[u] => secret'[n] = secret[n]
    BY <1>2, <2>2, SecretWritten DEF IInv
  <2>7. PinInv(u)'
    BY <1>2, <2>5 DEF IInv, PinInv, Exists, Live, RevokeSteps
  <2>8. ASSUME SettledInv PROVE QueueInv(u)' /\ CredInv(u)' /\ Owned(SecretOf[u])'
    <3>1. QueueInv(u) /\ CredInv(u) /\ Owned(SecretOf[u])
      BY <2>8, SecretOfAssumption DEF SettledInv
    <3>2. QueueInv(u)'
      BY <1>2, <2>4, <3>1, QueueMoves DEF AddSteps, RevokeSteps
    <3>3. ~Live(u)
      BY <1>2, <3>1 DEF IInv, PinInv, QueueInv, Ended, Live, RevokeSteps
    <3>4. new = NoSecret
      <4>1. cred[u] = SecretFor(u).cred /\ (cred[u] # NoCred => ~SecretFor(u).fin)
        BY <1>2, <3>1 DEF CredInv
      <4>2. SecretFor(u).cred = NoCred => SecretFor(u) = NoSecret
        BY <3>1 DEF Owned, SecretFor
      <4> QED BY <2>3, <4>1, <4>2
    <3>5. CredInv(u)'
      BY <1>2, <2>4, <2>5, <2>6, <3>1, <3>3, <3>4 DEF CredInv, Live
    <3>6. Owned(SecretOf[u])'
      BY <2>6, <3>4 DEF Owned, SecretFor, NoSecret
    <3> QED BY <3>2, <3>5, <3>6
  <2>9. FilerType'
    BY <2>4, StaysTyped DEF IInv
  <2> QED BY <1>2, <2>4, <2>5, <2>6, <2>7, <2>8, <2>9, AccessMoves
<1> QED BY <1>1, <1>2 DEF DeleteSecret, Call, SecretFor

\* A handler writes its own access: the write is refused, or the handler goes on.
LEMMA AccessWrites ==
  ASSUME IInv, NEW u \in Accesses, NEW base, NEW new \in Object, NEW next \in Control, at[u] # "idle",
         UNCHANGED faults, Put(u, u, base, new, next),
         ASSUME base = obj[u], Moves(u, next), cred' = cred, obj'[u] = new,
                obj'["claim"] = obj["claim"], obj'["bucket"] = obj["bucket"],
                secret' = secret, identity' = identity
         PROVE  PinInv(u)' /\ (SettledInv => QueueInv(u)' /\ CredInv(u)' /\ Owned(SecretOf[u])')
  PROVE  IInv' /\ Released /\ (SettledInv => SettledInv')
<1>1. CASE Fails(u) /\ SameStore /\ SameFiler
  BY <1>1, AccessFails DEF IInv, TypeOK
<1>2. CASE /\ base = obj[u] /\ Moves(u, next) /\ cred' = cred
           /\ obj' \in [Objects -> Object] /\ obj'[u] = new /\ \A y \in Objects \ {u} : obj'[y] = obj[y]
           /\ secret' = secret /\ SameFiler
  <2>1. obj'["claim"] = obj["claim"] /\ obj'["bucket"] = obj["bucket"]
    BY <1>2, Distinct
  <2>2. identity' = identity /\ entry' = entry
    BY <1>2 DEF SameFiler
  <2>3. PinInv(u)' /\ (SettledInv => QueueInv(u)' /\ CredInv(u)' /\ Owned(SecretOf[u])')
    BY <1>2, <2>1, <2>2
  <2>4. StoreType' /\ FilerType'
    <3>1. FilerType'
      BY <1>2, StaysTyped DEF IInv
    <3>2. StoreType'
      BY <1>2 DEF IInv, TypeOK, StoreType, CredType
    <3> QED BY <3>1, <3>2
  <2>5. \A y \in Objects : y # u => obj'[y] = obj[y]
    BY <1>2
  <2> QED BY <1>2, <2>2, <2>3, <2>4, <2>5, AccessMoves
<1> QED BY <1>1, <1>2, PutMoves, Distinct DEF IInv

\* BAFinalizer comes off: the identity has been revoked and the Secret is gone.
LEMMA RemoveAccessFinalizerStep ==
  ASSUME IInv, NEW u \in Accesses, RemoveAccessFinalizer(u)
  PROVE  IInv' /\ Released /\ (SettledInv => SettledInv')
<1>1. CASE at[u] = "d_fin" /\ UNCHANGED faults /\ Read(u, "done")
  <2>1. Moves(u, "done") /\ cred' = cred /\ SameStore /\ SameFiler
    BY <1>1, ReadMoves, Distinct DEF IInv, Control
  <2>2. at'[u] = "done" /\ arg'[u] = arg[u] /\ obj' = obj
    BY <2>1 DEF Moves, SameStore
  <2>3. PinInv(u)'
    BY <1>1, <2>2 DEF IInv, PinInv, Exists, Live, RevokeSteps
  <2>4. SettledInv => CredInv(u)'
    BY <1>1, <2>1, <2>2 DEF SettledInv, CredInv, Live, SameStore, SameFiler, SecretFor
  <2> QED BY <1>1, <2>1, <2>3, <2>4, AccessReads DEF AddSteps, RevokeSteps
<1>2. CASE /\ at[u] = "d_fin" /\ UNCHANGED faults
           /\ Put(u, u, arg[u], WithFin(arg[u], arg[u].fin \ {"BAFinalizer"}), "done")
  <2> DEFINE new == WithFin(arg[u], arg[u].fin \ {"BAFinalizer"})
  <2>1. arg[u] \in Object /\ arg[u].fin \ {"BAFinalizer"} \in SUBSET Finalizers
    BY Distinct DEF IInv, TypeOK, Object
  <2>2. arg[u].life = "deleting" /\ (SettledInv => QueueInv(u) /\ CredInv(u) /\ Owned(SecretOf[u]))
    BY <1>2, SecretOfAssumption DEF IInv, PinInv, RevokeSteps, SettledInv
  <2>3. arg[u] = obj[u] => new = Gone
    <3>1. ASSUME arg[u] = obj[u] PROVE arg[u].fin \ {"BAFinalizer"} = {}
      BY <3>1 DEF IInv, PinInv
    <3> QED BY <2>1, <2>2, <3>1, WithFinType
  <2>4. new \in Object
    BY <2>1, WithFinType
  <2>5. Put(u, u, arg[u], new, "done")
    BY <1>2
  <2> HIDE DEF new
  <2>6. ASSUME arg[u] = obj[u], Moves(u, "done"), cred' = cred, obj'[u] = new,
               obj'["claim"] = obj["claim"], obj'["bucket"] = obj["bucket"],
               secret' = secret, identity' = identity
        PROVE  PinInv(u)' /\ (SettledInv => QueueInv(u)' /\ CredInv(u)' /\ Owned(SecretOf[u])')
    <3>1. /\ op'[u] = op[u] /\ arg'[u] = arg[u] /\ todo'[u] = todo[u] /\ event'[u] = event[u]
          /\ (u \in indexed' <=> u \in indexed) /\ at'[u] = "done" /\ obj'[u] = Gone
      BY <2>3, <2>6 DEF Moves
    <3>2. PinInv(u)'
      BY <3>1, ConstantTypes DEF PinInv, Exists, Live, RevokeSteps
    <3>3. ASSUME SettledInv PROVE QueueInv(u)' /\ CredInv(u)' /\ Owned(SecretOf[u])'
      <4>1. QueueInv(u) /\ CredInv(u) /\ Owned(SecretOf[u])
        BY <2>2, <3>3
      <4>2. op[u] = "update" /\ SecretFor(u) = NoSecret /\ identity[u] = NoCred
        BY <1>2, <4>1 DEF QueueInv, CredInv, RevokeSteps
      <4>3. \A x \in {obj'[u], event'[u], arg'[u]} : x.life = "deleting" => x.ready
        BY <3>1, <4>1, ConstantTypes DEF QueueInv
      <4>4. QueueInv(u)'
        BY <3>1, <4>1, <4>2, <4>3, ConstantTypes DEF QueueInv, Exists, Live, Ended, AddSteps, RevokeSteps
      <4>5. CredInv(u)'
        BY <2>6, <3>1, <4>1, <4>2, ConstantTypes DEF CredInv, Live
      <4>6. Owned(SecretOf[u])'
        BY <2>6, <4>1, <4>2 DEF Owned, SecretFor
      <4> QED BY <4>4, <4>5, <4>6
    <3> QED BY <3>2, <3>3
  <2> QED BY <1>2, <2>4, <2>5, <2>6, AccessWrites DEF Control
<1> QED BY <1>1, <1>2 DEF RemoveAccessFinalizer, Call

\* The bucket's finalizer for its accesses is added to a bucket that is live.
LEMMA PinBucketStep ==
  ASSUME IInv, NEW u \in Accesses,
         AddFinalizer(u, "bucket", "BABucketFinalizer", "a_pin", "a_pin_put", "a_fin")
  PROVE  IInv' /\ Released /\ (SettledInv => SettledInv')
<1> DEFINE next == IF "BABucketFinalizer" \in obj["bucket"].fin THEN "a_fin" ELSE "a_pin_put"
           new == [copy[u] EXCEPT !.fin = @ \cup {"BABucketFinalizer"}]
<1>1. CASE at[u] \in {"a_pin", "a_pin_put"} /\ UNCHANGED faults /\ Error(u)
  BY <1>1, AccessErrors
<1>2. CASE at[u] = "a_pin" /\ UNCHANGED faults /\ Get(u, "bucket", next)
  <2>1. /\ next \in {"a_fin", "a_pin_put"}
        /\ next = "a_fin" => "BABucketFinalizer" \in obj["bucket"].fin
    OBVIOUS
  <2> HIDE DEF next
  <2>2. Moves(u, next) /\ cred' = cred /\ SameStore /\ SameFiler
    BY <1>2, <2>1, GetMoves, Distinct DEF IInv, Control, AddSteps
  <2>3. at'[u] = next /\ arg'[u] = arg[u] /\ obj' = obj
    BY <2>2 DEF Moves, SameStore
  <2>4. PinInv(u)'
    BY <1>2, <2>1, <2>3 DEF IInv, PinInv, Exists, Live, RevokeSteps
  <2>5. SettledInv => CredInv(u)'
    BY <1>2, <2>1, <2>2, <2>3 DEF SettledInv, CredInv, Live, SameStore, SameFiler, SecretFor
  <2> QED BY <1>2, <2>1, <2>2, <2>4, <2>5, AccessReads DEF AddSteps, RevokeSteps
<1>3. CASE /\ at[u] = "a_pin_put" /\ UNCHANGED faults /\ copy[u].life = "live"
           /\ Put(u, "bucket", copy[u], new, "a_fin")
  <2>1. copy[u] \in Object
    BY Distinct DEF IInv, TypeOK
  <2>2. /\ new \in Object /\ new.life = copy[u].life /\ new.ready = copy[u].ready
        /\ new.fin = copy[u].fin \cup {"BABucketFinalizer"}
    BY <2>1 DEF Object, Finalizers
  <2> HIDE DEF new
  <2>3. CASE Fails(u) /\ SameStore /\ SameFiler
    BY <1>3, <2>3, AccessFails DEF IInv, TypeOK
  <2>4. CASE /\ copy[u] = obj["bucket"] /\ Moves(u, "a_fin") /\ cred' = cred
             /\ obj' \in [Objects -> Object] /\ obj'["bucket"] = new
             /\ \A y \in Objects \ {"bucket"} : obj'[y] = obj[y]
             /\ secret' = secret /\ SameFiler
    <3>1. obj'["claim"] = obj["claim"] /\ \A v \in Accesses : obj'[v] = obj[v]
      BY <2>4, Distinct
    <3>2. TypeOK'
      <4>1. StoreType' /\ faults' \in 0 .. MaxFaults
        BY <1>3, <2>4 DEF IInv, TypeOK, StoreType, CredType
      <4> QED BY <2>4, <4>1, TypedAfter DEF IInv, Moves
    <3>3. BucketInv'
      <4>1. "bucket" \in Watched /\ "bucket" # u
        BY Distinct
      <4>2. /\ at'["bucket"] = at["bucket"] /\ arg'["bucket"] = arg["bucket"]
            /\ event'["bucket"] = event["bucket"] /\ entry' = entry
        BY <2>4, <4>1, OtherWatched DEF Moves, SameFiler
      <4> QED BY <2>2, <2>4, <3>1, <4>2 DEF IInv, BucketInv, Live, Ended
    <3>4. ASSUME NEW v \in Accesses PROVE PinInv(v)'
      <4>1. PinInv(v) /\ obj'[v] = obj[v]
        BY <3>1 DEF IInv
      <4>2. CASE v # u
        <5>1. at'[v] = at[v] /\ arg'[v] = arg[v]
          BY <2>4, <4>2, OtherAccess DEF Moves
        <5> QED BY <2>2, <2>4, <4>1, <5>1, PinSame DEF Live
      <4>3. CASE v = u
        <5>1. at'[v] = "a_fin"
          BY <2>4, <4>3 DEF Moves
        <5> QED BY <2>2, <2>4, <4>1, <5>1 DEF PinInv, Exists, Live, RevokeSteps
      <4> QED BY <4>2, <4>3
    <3>5. ASSUME SettledInv PROVE SettledInv'
      <4>1. QueueInv(u) /\ CredInv(u) /\ Owned(SecretOf[u]) /\ Active(u)
        BY <1>3, <3>5, SecretOfAssumption, RunningActive DEF SettledInv, IInv
      <4>2. obj'[u] = obj[u] /\ at'[u] = "a_fin" /\ identity' = identity
        BY <2>4, <3>1 DEF Moves, SameFiler
      <4>3. QueueInv(u)'
        BY <1>3, <2>4, <3>1, <4>1, <4>2, QueueMoves DEF AddSteps, RevokeSteps
      <4>4. CredInv(u)'
        BY <1>3, <2>4, <4>1, <4>2 DEF CredInv, Live, SecretFor
      <4>5. Owned(SecretOf[u])'
        BY <2>4, <3>1, <4>1, OwnedSame DEF Exists
      <4> QED BY <2>4, <3>1, <3>5, <4>1, <4>2, <4>3, <4>4, <4>5, SettledByAccess DEF Moves, Live, IInv
    <3>6. Released
      BY <2>2, <2>4 DEF Released
    <3> QED BY <3>2, <3>3, <3>4, <3>5, <3>6 DEF IInv
  <2> QED BY <1>3, <2>2, <2>3, <2>4, PutMoves, Distinct DEF IInv, Control, AddSteps
<1> QED BY <1>1, <1>2, <1>3 DEF AddFinalizer, Call

\* The access's own finalizer is added to an access that is live.
LEMMA PinAccessStep ==
  ASSUME IInv, NEW u \in Accesses,
         AddFinalizer(u, u, "BAFinalizer", "a_fin", "a_fin_put", "a_status")
  PROVE  IInv' /\ Released /\ (SettledInv => SettledInv')
<1> DEFINE next == IF "BAFinalizer" \in obj[u].fin THEN "a_status" ELSE "a_fin_put"
           new == [copy[u] EXCEPT !.fin = @ \cup {"BAFinalizer"}]
<1>1. CASE at[u] \in {"a_fin", "a_fin_put"} /\ UNCHANGED faults /\ Error(u)
  BY <1>1, AccessErrors
<1>2. CASE at[u] = "a_fin" /\ UNCHANGED faults /\ Get(u, u, next)
  <2>1. next \in {"a_status", "a_fin_put"}
    OBVIOUS
  <2> HIDE DEF next
  <2>2. Moves(u, next) /\ cred' = cred /\ SameStore /\ SameFiler
    BY <1>2, <2>1, GetMoves, Distinct DEF IInv, Control, AddSteps
  <2>3. at'[u] = next /\ arg'[u] = arg[u] /\ obj' = obj
    BY <2>2 DEF Moves, SameStore
  <2>4. PinInv(u)'
    BY <1>2, <2>1, <2>3 DEF IInv, PinInv, Exists, Live, RevokeSteps
  <2>5. SettledInv => CredInv(u)'
    BY <1>2, <2>1, <2>2, <2>3 DEF SettledInv, CredInv, Live, SameStore, SameFiler, SecretFor
  <2> QED BY <1>2, <2>1, <2>2, <2>4, <2>5, AccessReads DEF AddSteps, RevokeSteps
<1>3. CASE /\ at[u] = "a_fin_put" /\ UNCHANGED faults /\ copy[u].life = "live"
           /\ Put(u, u, copy[u], new, "a_status")
  <2>1. copy[u] \in Object
    BY Distinct DEF IInv, TypeOK
  <2>2. /\ new \in Object /\ new.life = copy[u].life /\ new.ready = copy[u].ready
        /\ new.fin = copy[u].fin \cup {"BAFinalizer"}
    BY <2>1 DEF Object, Finalizers
  <2> HIDE DEF new
  <2>3. ASSUME copy[u] = obj[u], Moves(u, "a_status"), cred' = cred, obj'[u] = new,
               obj'["claim"] = obj["claim"], obj'["bucket"] = obj["bucket"],
               secret' = secret, identity' = identity
        PROVE  PinInv(u)' /\ (SettledInv => QueueInv(u)' /\ CredInv(u)' /\ Owned(SecretOf[u])')
    <3>1. at'[u] = "a_status" /\ arg'[u] = arg[u] /\ obj'[u].life = "live" /\ obj[u].life = "live"
      BY <1>3, <2>2, <2>3 DEF Moves
    <3>2. PinInv(u)'
      BY <1>3, <2>2, <2>3, <3>1 DEF IInv, PinInv, Exists, Live, RevokeSteps
    <3>3. SettledInv => QueueInv(u)'
      BY <1>3, <2>2, <2>3, <3>1, QueueMoves DEF SettledInv, AddSteps, RevokeSteps
    <3>4. SettledInv => CredInv(u)'
      BY <1>3, <2>2, <2>3, <3>1 DEF SettledInv, CredInv, Live, SecretFor
    <3>5. SettledInv => Owned(SecretOf[u])'
      <4>1. \A w \in Accesses : w = u => Exists(w)'
        BY <3>1 DEF Exists
      <4>2. SettledInv => Owned(SecretOf[u]) /\ Active(u)
        BY <1>3, SecretOfAssumption, RunningActive DEF SettledInv, IInv
      <4>3. SettledInv /\ SecretFor(u) # NoSecret => SecretFor(u).cred[1] = u
        BY <4>2, SecretIsMine
      <4> QED BY <2>3, <4>1, <4>2, <4>3 DEF Owned, SecretFor
    <3> QED BY <3>2, <3>3, <3>4, <3>5
  <2> QED BY <1>3, <2>2, <2>3, AccessWrites DEF Control, AddSteps
<1> QED BY <1>1, <1>2, <1>3 DEF AddFinalizer, Call

\* The status is written last: the bucket is pinned and the Secret is there.
LEMMA GrantStatusStep ==
  ASSUME IInv, NEW u \in Accesses, NEW current,
         current = [copy[u] EXCEPT !.fin = @ \cup {"BAFinalizer"}], Call(u, "a_status"),
         \/ current.ready /\ Read(u, "done")
         \/ ~current.ready /\ Put(u, u, current, [current EXCEPT !.ready = TRUE], "done")
  PROVE  IInv' /\ Released /\ (SettledInv => SettledInv')
<1> DEFINE new == [current EXCEPT !.ready = TRUE]
<1>1. at[u] = "a_status" /\ UNCHANGED faults
  BY DEF Call
<1>2. CASE Read(u, "done")
  <2>1. Moves(u, "done") /\ cred' = cred /\ SameStore /\ SameFiler
    BY <1>2, ReadMoves, Distinct DEF IInv, Control
  <2>2. at'[u] = "done" /\ arg'[u] = arg[u] /\ obj' = obj
    BY <2>1 DEF Moves, SameStore
  <2>3. PinInv(u)'
    BY <1>1, <2>2 DEF IInv, PinInv, Exists, Live, RevokeSteps
  <2>4. SettledInv => CredInv(u)'
    BY <1>1, <2>1, <2>2 DEF SettledInv, CredInv, Live, SameStore, SameFiler, SecretFor
  <2> QED BY <1>1, <2>1, <2>3, <2>4, AccessReads DEF AddSteps, RevokeSteps
<1>3. CASE Put(u, u, current, new, "done")
  <2>1. copy[u] \in Object
    BY Distinct DEF IInv, TypeOK
  <2>2. current \in Object /\ "BAFinalizer" \in current.fin
    BY <2>1 DEF Object, Finalizers
  <2>3. /\ new \in Object /\ new.life = current.life /\ new.ready = TRUE /\ new.fin = current.fin
    BY <2>2 DEF Object
  <2> HIDE DEF new
  <2>4. ASSUME current = obj[u], Moves(u, "done"), cred' = cred, obj'[u] = new,
               obj'["claim"] = obj["claim"], obj'["bucket"] = obj["bucket"],
               secret' = secret, identity' = identity
        PROVE  PinInv(u)' /\ (SettledInv => QueueInv(u)' /\ CredInv(u)' /\ Owned(SecretOf[u])')
    <3>1. at'[u] = "done" /\ arg'[u] = arg[u] /\ obj'[u].life = obj[u].life
      BY <2>3, <2>4 DEF Moves
    <3>2. PinInv(u)'
      BY <1>1, <2>2, <2>3, <2>4, <3>1 DEF IInv, PinInv, Exists, Live, RevokeSteps
    <3>3. SettledInv => obj[u].life # "gone" /\ QueueInv(u)
      BY <1>1 DEF SettledInv, QueueInv, AddSteps
    <3>4. SettledInv => QueueInv(u)'
      BY <1>1, <2>3, <2>4, <3>1, <3>3, QueueMoves DEF AddSteps, RevokeSteps
    <3>5. SettledInv => CredInv(u)'
      BY <1>1, <2>3, <2>4, <3>1 DEF SettledInv, CredInv, Live, SecretFor
    <3>6. SettledInv => Owned(SecretOf[u])'
      <4>1. \A w \in Accesses : w = u /\ Exists(w) => Exists(w)'
        BY <3>1 DEF Exists
      <4>2. SettledInv => Owned(SecretOf[u]) /\ Active(u)
        BY <1>1, SecretOfAssumption, RunningActive DEF SettledInv, IInv
      <4>3. SettledInv /\ SecretFor(u) # NoSecret => SecretFor(u).cred[1] = u /\ Exists(u)
        BY <4>2, SecretIsMine
      <4> QED BY <2>4, <4>1, <4>2, <4>3 DEF Owned, SecretFor
    <3> QED BY <3>2, <3>4, <3>5, <3>6
  <2> QED BY <1>1, <1>3, <2>3, <2>4, AccessWrites DEF Control
<1> QED BY <1>2, <1>3

\* The BucketAccess listener is called: Update revokes only what is being deleted.
LEMMA AccessBegins ==
  ASSUME IInv, NEW u \in Accesses, AccessAdd(u) \/ AccessUpdate(u)
  PROVE  IInv' /\ Released /\ (SettledInv => SettledInv')
<1> SUFFICES ASSUME NEW kind \in {"add", "update"}, NEW first \in {"a_claim", "d_secret", "done"},
                    Begin(u, kind, first),
                    first = "a_claim" => kind = "add",
                    first = "d_secret" => kind = "update" /\ event[u].life = "deleting"
             PROVE  IInv' /\ Released /\ (SettledInv => SettledInv')
  BY DEF AccessAdd, AccessUpdate
<1>1. Begins(u, kind, first) /\ SameStore /\ SameFiler /\ UNCHANGED faults
  BY BeginBegins, Distinct DEF IInv, Control, AddSteps, RevokeSteps
<1>2. /\ at[u] = "idle" /\ todo[u] = kind /\ todo'[u] = "none" /\ op'[u] = kind
      /\ arg'[u] = event[u] /\ event'[u] = event[u] /\ at'[u] = first
      /\ (u \in indexed' <=> u \in indexed) /\ cred' = cred
      /\ obj' = obj /\ secret' = secret /\ identity' = identity /\ entry' = entry
      /\ Others(u) /\ HandlerType' /\ QueueType'
  BY <1>1 DEF Begins, SameStore, SameFiler
<1>3. PinInv(u)'
  BY <1>2 DEF IInv, PinInv, Exists, Live, RevokeSteps
<1>4. faults' \in 0 .. MaxFaults
  BY <1>1 DEF IInv, TypeOK
<1>5. IInv' /\ Released
  BY <1>1, <1>2, <1>3, <1>4, AccessKeeps, StaysTyped DEF IInv
<1>6. ASSUME SettledInv PROVE SettledInv'
  <2>1. QueueInv(u) /\ CredInv(u) /\ Owned(SecretOf[u])
    BY <1>6, SecretOfAssumption DEF SettledInv
  <2>2. event[u].life # "gone" /\ obj[u].life # "absent"
    BY <1>2, <2>1 DEF QueueInv
  <2>3. Active(u)
    <3>1. obj[u].life \in {"live", "deleting", "gone"} /\ event[u] # Gone
      BY <2>2, Distinct, ConstantTypes DEF IInv, TypeOK, Object
    <3> QED BY <3>1 DEF Active, Exists
  <2>4. \A x \in {obj'[u], event'[u], arg'[u]} : x.life = "deleting" => x.ready
    BY <1>2, <2>1 DEF QueueInv
  <2>5. QueueInv(u)'
    BY <1>2, <2>1, <2>2, <2>4 DEF QueueInv, Exists, Live, Ended, AddSteps, RevokeSteps
  <2>6. CredInv(u)'
    BY <1>2, <2>1 DEF CredInv, Live, SecretFor
  <2>7. Owned(SecretOf[u])'
    BY <1>2, <2>1 DEF Owned, Exists
  <2> QED BY <1>2, <1>6, <2>3, <2>5, <2>6, <2>7, SettledByAccess DEF Live, IInv
<1> QED BY <1>5, <1>6

\* Any step of the BucketAccess listener.
LEMMA AccessStepKeeps ==
  ASSUME IInv, NEW u \in Accesses, AccessStep(u)
  PROVE  IInv' /\ Released /\ (SettledInv => SettledInv')
<1>1. CASE MarkGranted(u)
  BY <1>1, PinBucketStep, PinAccessStep, GrantStatusStep DEF MarkGranted
<1> QED BY <1>1, AccessBegins, CheckReadyStep, GetSecretStep, GrantAccessStep, CreateSecretStep,
           RevokeAccessStep, UnpinSecretStep, DeleteSecretStep, RemoveAccessFinalizerStep DEF AccessStep

-----------------------------------------------------------------------------
(* The controller *)

\* What a step of the controller about the bucket does not touch.
LEMMA BucketEvent ==
  ASSUME IInv, HandlerType', QueueType', SameStore, SameFiler, Others("bucket"),
         faults' \in 0 .. MaxFaults, BucketInv'
  PROVE  IInv' /\ Released /\ (SettledInv => SettledInv')
<1>1. TypeOK'
  BY TypedAfter DEF IInv
<1>2. \A u \in Accesses : PinInv(u)'
  BY PinsByBucket DEF SameStore, Live
<1>3. AccessesKept /\ Released
  BY DEF AccessesKept, Released, SameStore, SameFiler, Live
<1> QED BY <1>1, <1>2, <1>3, SettledByBucket DEF IInv

\* What a step of the controller about an access does not touch.
LEMMA AccessEvent ==
  ASSUME IInv, NEW u \in Accesses, HandlerType', QueueType', SameStore, SameFiler, Others(u),
         faults' \in 0 .. MaxFaults, PinInv(u)',
         SettledInv => Active(u) /\ QueueInv(u)' /\ CredInv(u)'
  PROVE  IInv' /\ Released /\ (SettledInv => SettledInv')
<1>1. obj' = obj /\ secret' = secret /\ identity' = identity /\ entry' = entry
  BY DEF SameStore, SameFiler
<1>2. IInv' /\ Released
  BY <1>1, AccessKeeps, StaysTyped DEF IInv
<1>3. ASSUME SettledInv PROVE SettledInv'
  <2>1. Owned(SecretOf[u])
    BY <1>3, SecretOfAssumption DEF SettledInv
  <2>2. Owned(SecretOf[u])'
    BY <1>1, <2>1 DEF Owned, Exists
  <2> QED BY <1>1, <1>3, <2>2, SettledByAccess DEF Live, IInv
<1> QED BY <1>2, <1>3

\* An object is the bucket or an access.
LEMMA WatchedIs ==
  ASSUME NEW o \in Watched
  PROVE  o = "bucket" \/ o \in Accesses
BY DEF Watched

\* The handler returns.
LEMMA FinishStep ==
  ASSUME IInv, NEW o \in Watched, Finish(o)
  PROVE  IInv' /\ Released /\ (SettledInv => SettledInv')
<1>1. /\ at[o] = "done" /\ UNCHANGED faults /\ indexed' = indexed \cup {o} /\ Reset(o)
      /\ event' = event /\ todo' = todo /\ SameStore /\ SameFiler
  BY DEF Finish, Call, SameStore, SameFiler, store, filer
<1>2. HandlerType /\ QueueType
  BY TypeParts DEF IInv
<1>3. /\ HandlerType' /\ at'[o] = "idle" /\ op'[o] = "none" /\ arg'[o] = Absent
      /\ \A p \in Watched \ {o} : at'[p] = at[p] /\ op'[p] = op[p] /\ arg'[p] = arg[p]
      /\ \A u \in Accesses \ {o} : cred'[u] = cred[u]
  BY <1>1, <1>2, ResetType
<1>4. QueueType'
  BY <1>1, <1>2 DEF QueueType
<1>5. Others(o)
  BY <1>1, <1>3 DEF Others
<1>6. faults' \in 0 .. MaxFaults /\ obj' = obj /\ secret' = secret /\ identity' = identity /\ entry' = entry
  BY <1>1 DEF IInv, TypeOK, SameStore, SameFiler
<1>7. CASE o = "bucket"
  <2>1. at'["bucket"] = "idle" /\ arg'["bucket"] = Absent /\ Others("bucket")
    BY <1>3, <1>5, <1>7
  <2>2. BucketInv'
    BY <1>1, <1>6, <2>1, ConstantTypes DEF IInv, BucketInv, Live, Ended, Cleaning
  <2> QED BY <1>1, <1>3, <1>4, <1>6, <2>1, <2>2, BucketEvent
<1>8. CASE o \in Accesses
  <2>1. PinInv(o)'
    BY <1>3, <1>6, <1>8 DEF IInv, PinInv, Exists, Live, RevokeSteps
  <2>2. ASSUME SettledInv PROVE Active(o) /\ QueueInv(o)' /\ CredInv(o)'
    <3>1. QueueInv(o) /\ CredInv(o) /\ Active(o)
      BY <1>1, <1>8, <2>2, RunningActive DEF SettledInv, IInv
    <3>2. \A x \in {obj'[o], event'[o], arg'[o]} : x.life = "deleting" => x.ready
      BY <1>1, <1>3, <1>6, <3>1, ConstantTypes DEF QueueInv
    <3>3. o \in indexed'
      BY <1>1
    <3>4. QueueInv(o)'
      BY <1>1, <1>3, <1>6, <3>1, <3>2, <3>3, ConstantTypes
         DEF QueueInv, Exists, Live, Ended, AddSteps, RevokeSteps
    <3>5. cred'[o] = NoCred
      BY <1>1, <1>8 DEF Reset
    <3>6. CredInv(o)'
      BY <1>3, <1>6, <3>1, <3>5 DEF CredInv, Live, SecretFor
    <3> QED BY <3>1, <3>4, <3>6
  <2> QED BY <1>1, <1>3, <1>4, <1>5, <1>6, <1>8, <2>1, <2>2, AccessEvent
<1> QED BY <1>7, <1>8, WatchedIs

\* A call fails.
LEMMA FailStep ==
  ASSUME IInv, NEW o \in Watched, Fail(o)
  PROVE  IInv' /\ Released /\ (SettledInv => SettledInv')
<1>1. at[o] # "idle" /\ Error(o) /\ faults < MaxFaults /\ faults' = faults + 1
  BY DEF Fail, Fault
<1>2. faults' \in 0 .. MaxFaults
  BY <1>1, CosiFaultsAssumption DEF IInv, TypeOK
<1>3. Fails(o) /\ SameStore /\ SameFiler
  BY <1>1, ErrorFails DEF IInv
<1>4. CASE o = "bucket"
  BY <1>2, <1>3, <1>4, BucketFails, SettledByBucket
<1>5. CASE o \in Accesses
  BY <1>1, <1>2, <1>3, <1>5, AccessFails
<1> QED BY <1>4, <1>5, WatchedIs

\* An event reaches the sidecar.
LEMMA DeliverStep ==
  ASSUME IInv, NEW o \in Watched, Deliver(o)
  PROVE  IInv' /\ Released /\ (SettledInv => SettledInv')
<1> DEFINE next == IF obj[o].life = "gone" THEN "none" ELSE IF o \in indexed THEN "update" ELSE "add"
<1>1. /\ event[o] # obj[o] /\ event' = [event EXCEPT ![o] = obj[o]] /\ todo' = [todo EXCEPT ![o] = next]
      /\ UNCHANGED faults /\ indexed' = indexed /\ UNCHANGED <<at, op, arg, copy, cred, list>>
      /\ SameStore /\ SameFiler
  BY DEF Deliver, handler, SameStore, SameFiler, store, filer
<1>2. HandlerType /\ QueueType /\ obj[o] \in Object
  BY TypeParts, Distinct DEF IInv, TypeOK
<1>3. /\ next \in Ops /\ (obj[o].life = "gone" => next = "none")
      /\ next = "update" => o \in indexed
      /\ next = "add" => o \notin indexed
  BY DEF Ops
<1> HIDE DEF next
<1>4. HandlerType'
  BY <1>1, <1>2 DEF HandlerType
<1>5. QueueType' /\ event'[o] = obj[o] /\ todo'[o] = next
  BY <1>1, <1>2, <1>3 DEF QueueType
<1>6. Others(o)
  BY <1>1, <1>2 DEF Others, QueueType
<1>7. faults' \in 0 .. MaxFaults /\ obj' = obj /\ secret' = secret /\ identity' = identity /\ entry' = entry
  BY <1>1 DEF IInv, TypeOK, SameStore, SameFiler
<1>8. CASE o = "bucket"
  <2>1. event'["bucket"] = obj["bucket"] /\ Others("bucket")
    BY <1>5, <1>6, <1>8
  <2>2. BucketInv'
    BY <1>1, <1>7, <2>1 DEF IInv, BucketInv, Live, Ended
  <2> QED BY <1>1, <1>4, <1>5, <1>7, <2>1, <2>2, BucketEvent
<1>9. CASE o \in Accesses
  <2>1. PinInv(o)'
    BY <1>1, <1>7, <1>9 DEF IInv, PinInv, Exists, Live
  <2>2. ASSUME SettledInv PROVE Active(o) /\ QueueInv(o)' /\ CredInv(o)'
    <3>1. QueueInv(o) /\ CredInv(o)
      BY <1>9, <2>2 DEF SettledInv
    <3>2. Active(o) /\ obj[o].life # "absent"
      BY <1>1, <1>2, <3>1 DEF QueueInv, Active, Exists, Object
    <3>3. \A x \in {obj'[o], event'[o], arg'[o]} : x.life = "deleting" => x.ready
      BY <1>1, <1>5, <1>7, <3>1 DEF QueueInv
    <3>4. QueueInv(o)'
      BY <1>1, <1>3, <1>5, <1>7, <3>1, <3>2, <3>3, ConstantTypes DEF QueueInv, Exists, Live, Ended
    <3>5. CredInv(o)'
      BY <1>1, <1>7, <3>1 DEF CredInv, Live, SecretFor
    <3> QED BY <3>2, <3>4, <3>5
  <2> QED BY <1>1, <1>4, <1>5, <1>6, <1>7, <1>9, <2>1, <2>2, AccessEvent
<1> QED BY <1>8, <1>9, WatchedIs

\* The resync.
LEMMA ResyncStep ==
  ASSUME IInv, NEW o \in Watched, Resync(o)
  PROVE  IInv' /\ Released /\ (SettledInv => SettledInv')
<1>1. /\ o \in indexed /\ todo[o] = "none" /\ event[o].life \in {"live", "deleting"}
      /\ todo' = [todo EXCEPT ![o] = "update"]
      /\ UNCHANGED faults /\ event' = event /\ indexed' = indexed
      /\ UNCHANGED <<at, op, arg, copy, cred, list>> /\ SameStore /\ SameFiler
  BY DEF Resync, handler, SameStore, SameFiler, store, filer
<1>2. HandlerType /\ QueueType
  BY TypeParts DEF IInv
<1>3. HandlerType'
  BY <1>1, <1>2 DEF HandlerType
<1>4. QueueType' /\ todo'[o] = "update"
  BY <1>1, <1>2 DEF QueueType, Ops
<1>5. Others(o)
  BY <1>1, <1>2 DEF Others, QueueType
<1>6. faults' \in 0 .. MaxFaults /\ obj' = obj /\ secret' = secret /\ identity' = identity /\ entry' = entry
  BY <1>1 DEF IInv, TypeOK, SameStore, SameFiler
<1>7. CASE o = "bucket"
  <2>1. Others("bucket")
    BY <1>5, <1>7
  <2>2. BucketInv'
    BY <1>1, <1>6, BucketSame DEF IInv
  <2> QED BY <1>1, <1>3, <1>4, <1>6, <2>1, <2>2, BucketEvent
<1>8. CASE o \in Accesses
  <2>1. PinInv(o)'
    BY <1>1, <1>6, <1>8 DEF IInv, PinInv, Exists, Live
  <2>2. ASSUME SettledInv PROVE Active(o) /\ QueueInv(o)' /\ CredInv(o)'
    <3>1. QueueInv(o) /\ CredInv(o) /\ obj[o] \in Object
      BY <1>8, <2>2, Distinct DEF SettledInv, IInv, TypeOK
    <3>2. Active(o) /\ obj[o].life # "absent"
      BY <1>1, <3>1, ConstantTypes DEF QueueInv, Active, Exists, Object
    <3>3. \A x \in {obj'[o], event'[o], arg'[o]} : x.life = "deleting" => x.ready
      BY <1>1, <1>6, <3>1 DEF QueueInv
    <3>4. QueueInv(o)'
      BY <1>1, <1>4, <1>6, <3>1, <3>2, <3>3 DEF QueueInv, Exists, Live, Ended
    <3>5. CredInv(o)'
      BY <1>1, <1>6, <3>1 DEF CredInv, Live, SecretFor
    <3> QED BY <3>2, <3>4, <3>5
  <2> QED BY <1>1, <1>3, <1>4, <1>5, <1>6, <1>8, <2>1, <2>2, AccessEvent
<1> QED BY <1>7, <1>8, WatchedIs

\* The sidecar restarts: no handler runs, and nothing is indexed.
LEMMA RestartStep ==
  ASSUME IInv, Restart
  PROVE  IInv' /\ Released /\ (SettledInv => SettledInv')
<1>1. /\ faults < MaxFaults /\ faults' = faults + 1 /\ SameStore /\ SameFiler
      /\ event' = [o \in Watched |-> IF Exists(o) THEN Absent ELSE obj[o]]
      /\ todo' = [o \in Watched |-> "none"] /\ indexed' = {}
      /\ at' = [o \in Watched |-> "idle"] /\ op' = [o \in Watched |-> "none"]
      /\ arg' = [o \in Watched |-> Absent] /\ copy' = [o \in Watched |-> Absent]
      /\ cred' = [u \in Accesses |-> NoCred] /\ list' = {}
  BY DEF Restart, Fault, SameStore, SameFiler, store, filer
<1>2. TypeOK'
  <2>1. faults' \in 0 .. MaxFaults
    BY <1>1, CosiFaultsAssumption DEF IInv, TypeOK
  <2>2. HandlerType'
    BY <1>1, ConstantTypes DEF HandlerType, Control, Ops
  <2>3. \A o \in Watched : (IF Exists(o) THEN Absent ELSE obj[o]) \in Object
    BY ConstantTypes, Distinct DEF IInv, TypeOK
  <2>4. QueueType'
    BY <1>1, <2>3 DEF QueueType, Ops
  <2> QED BY <1>1, <2>1, <2>2, <2>4, TypedAfter DEF IInv
<1>3. obj' = obj /\ secret' = secret /\ identity' = identity /\ entry' = entry
  BY <1>1 DEF SameStore, SameFiler
<1>4. BucketInv'
  <2>1. /\ at'["bucket"] = "idle" /\ arg'["bucket"] = Absent
        /\ event'["bucket"] = IF Exists("bucket") THEN Absent ELSE obj["bucket"]
    BY <1>1, Distinct
  <2> QED BY <1>3, <2>1, ConstantTypes DEF IInv, BucketInv, Exists, Live, Ended, Cleaning
<1>5. ASSUME NEW u \in Accesses
      PROVE  /\ at'[u] = "idle" /\ op'[u] = "none" /\ arg'[u] = Absent /\ todo'[u] = "none"
             /\ u \notin indexed' /\ cred'[u] = NoCred
             /\ event'[u] = IF Exists(u) THEN Absent ELSE obj[u]
  BY <1>1, Distinct
<1>6. \A u \in Accesses : PinInv(u)'
  BY <1>3, <1>5 DEF IInv, PinInv, Exists, Live, RevokeSteps
<1>7. ASSUME SettledInv PROVE SettledInv'
  <2>1. ASSUME NEW u \in Accesses PROVE QueueInv(u)' /\ CredInv(u)'
    <3>1. QueueInv(u) /\ CredInv(u) /\ obj[u].life \in {"absent", "live", "deleting", "gone"}
      BY <1>7, Distinct DEF SettledInv, IInv, TypeOK, Object
    <3>2. /\ event'[u] \in {Absent, obj[u]} /\ (event'[u].life \notin {"live", "deleting"})
          /\ (~Exists(u) => event'[u] = obj[u]) /\ (Exists(u) => event'[u] = Absent)
      BY <1>5, <3>1, ConstantTypes DEF Exists
    <3>3. \A x \in {obj'[u], event'[u], arg'[u]} : x.life = "deleting" => x.ready
      BY <1>3, <1>5, <3>1, <3>2, ConstantTypes DEF QueueInv
    <3>4. QueueInv(u)'
      BY <1>3, <1>5, <3>1, <3>2, <3>3, ConstantTypes DEF QueueInv, Exists, Live, Ended, AddSteps, RevokeSteps
    <3>5. CredInv(u)'
      BY <1>3, <1>5, <3>1 DEF CredInv, Live, SecretFor
    <3> QED BY <3>4, <3>5
  <2>2. \A n \in Secrets : Owned(n)'
    BY <1>3, <1>7 DEF SettledInv, Owned, Exists
  <2>3. ASSUME NEW u \in Accesses, Active(u)' PROVE Active(u)
    <3>1. QueueInv(u)
      BY <1>7 DEF SettledInv
    <3> QED BY <1>3, <1>5, <2>3, <3>1 DEF Active, Exists, QueueInv
  <2>4. \A u, v \in Accesses : Active(u)' /\ Active(v)' /\ SecretOf[u] = SecretOf[v] => u = v
    BY <1>7, <2>3 DEF SettledInv
  <2> QED BY <2>1, <2>2, <2>4 DEF SettledInv
<1> QED BY <1>2, <1>3, <1>4, <1>6, <1>7 DEF IInv, Released

-----------------------------------------------------------------------------
(* Users, the COSI controller and the filer's operators *)

\* They leave the sidecar alone.
LEMMA SidecarSame ==
  ASSUME TypeOK, UNCHANGED queue, UNCHANGED handler
  PROVE  /\ HandlerType' /\ QueueType' /\ Others("bucket")
         /\ UNCHANGED <<event, todo, indexed, at, op, arg, cred>>
<1>1. UNCHANGED <<event, todo, indexed, at, op, arg, copy, cred, list>>
  BY DEF queue, handler
<1>2. HandlerType /\ QueueType
  BY TypeParts
<1> QED BY <1>1, <1>2 DEF HandlerType, QueueType, Others

\* One object is written.
LEMMA OneWritten ==
  ASSUME IInv, NEW x \in Objects, NEW new \in Object, obj' = [obj EXCEPT ![x] = new], External
  PROVE  /\ TypeOK' /\ obj'[x] = new /\ (\A y \in Objects : y # x => obj'[y] = obj[y])
         /\ Others("bucket") /\ UNCHANGED <<event, todo, indexed, at, op, arg, cred>>
         /\ secret' = secret /\ SameFiler
<1>1. secret' = secret /\ SameFiler /\ UNCHANGED faults /\ UNCHANGED queue /\ UNCHANGED handler
  BY DEF External, SameFiler, filer
<1>2. /\ HandlerType' /\ QueueType' /\ Others("bucket")
      /\ UNCHANGED <<event, todo, indexed, at, op, arg, cred>>
  BY <1>1, SidecarSame DEF IInv
<1>3. StoreType /\ faults' \in 0 .. MaxFaults
  BY <1>1, TypeParts DEF IInv, TypeOK
<1>4. StoreType' /\ obj'[x] = new /\ (\A y \in Objects : y # x => obj'[y] = obj[y])
  BY <1>1, <1>3 DEF StoreType
<1> QED BY <1>1, <1>2, <1>3, <1>4, TypedAfter DEF IInv

\* A user creates an access.
LEMMA CreateAccessStep ==
  ASSUME IInv, NEW u \in Accesses, CreateAccess(u)
  PROVE  IInv' /\ Released /\ (~Hasty /\ SettledInv => SettledInv')
<1>1. obj[u] = Absent /\ obj' = [obj EXCEPT ![u] = Created] /\ External
  BY DEF CreateAccess
<1>2. /\ TypeOK' /\ obj'[u] = Created /\ (\A y \in Objects : y # u => obj'[y] = obj[y])
      /\ Others("bucket") /\ UNCHANGED <<event, todo, indexed, at, op, arg, cred>>
      /\ secret' = secret /\ SameFiler
  BY <1>1, OneWritten, ConstantTypes, Distinct
<1>3. obj'["bucket"] = obj["bucket"] /\ obj'["claim"] = obj["claim"]
  BY <1>2, Distinct
<1>4. \A v \in Accesses : v # u => obj'[v] = obj[v]
  BY <1>2, Distinct
<1>5. BucketInv'
  BY <1>2, <1>3, BucketSame DEF IInv, SameFiler
<1>6. ASSUME NEW v \in Accesses PROVE PinInv(v)'
  <2>1. PinInv(v)
    BY DEF IInv
  <2>2. CASE v = u
    BY <1>2, <1>3, <2>1, <2>2, ConstantTypes DEF PinInv, Exists, Live
  <2>3. CASE v # u
    BY <1>2, <1>3, <1>4, <2>1, <2>3, PinSame DEF Live
  <2> QED BY <2>2, <2>3
<1>7. ASSUME ~Hasty, SettledInv PROVE SettledInv'
  <2>1. /\ \A v \in Accesses : Exists(v) => SecretOf[v] # SecretOf[u]
        /\ \A v \in Accesses : obj[v].life = "gone" => event[v] = Gone /\ at[v] = "idle"
        /\ Live("claim")
    BY <1>7 DEF CreateAccess, Live
  <2>2. ASSUME NEW v \in Accesses PROVE QueueInv(v)' /\ CredInv(v)'
    <3>1. QueueInv(v) /\ CredInv(v)
      BY <1>7 DEF SettledInv
    <3>2. SecretFor(v)' = SecretFor(v) /\ identity' = identity
      BY <1>2 DEF SecretFor, SameFiler
    <3>3. CASE v # u
      BY <1>2, <1>3, <1>4, <3>1, <3>2, <3>3, QueueSame, CredSame DEF Live
    <3>4. CASE v = u
      <4>1. /\ obj[u].life = "absent" /\ obj'[u].life = "live" /\ ~obj'[u].ready /\ Live("claim")'
        BY <1>1, <1>2, <1>3, <2>1, ConstantTypes DEF Live
      <4>2. QueueInv(u) /\ CredInv(u) /\ at[u] = "idle" /\ event[u] = Absent /\ todo[u] = "none"
        BY <3>1, <3>4, <4>1 DEF QueueInv
      <4>3. \A x \in {obj'[u], event'[u], arg'[u]} : x.life = "deleting" => x.ready
        BY <1>2, <4>1, <4>2 DEF QueueInv
      <4>4. QueueInv(u)'
        BY <1>2, <4>1, <4>2, <4>3, ConstantTypes DEF QueueInv, Exists, Live, Ended
      <4>5. CredInv(u)'
        BY <1>2, <3>2, <3>4, <4>1, <4>2 DEF CredInv, Live
      <4> QED BY <3>4, <4>4, <4>5
    <3> QED BY <3>3, <3>4
  <2>3. \A v \in Accesses : Exists(v) => Exists(v)'
    BY <1>1, <1>2, <1>4, ConstantTypes DEF Exists
  <2>4. \A n \in Secrets : Owned(n)'
    BY <1>2, <1>7, <2>3, OwnedSame DEF SettledInv
  <2>5. \A v \in Accesses : v # u => (Active(v)' <=> Active(v))
    BY <1>2, <1>4 DEF Active, Exists
  <2>6. \A v \in Accesses : Active(v) => SecretOf[v] # SecretOf[u]
    BY <2>1 DEF Active
  <2>7. \A v, w \in Accesses : Active(v)' /\ Active(w)' /\ SecretOf[v] = SecretOf[w] => v = w
    BY <1>7, <2>5, <2>6 DEF SettledInv
  <2> QED BY <2>2, <2>4, <2>7 DEF SettledInv
<1> QED BY <1>2, <1>3, <1>5, <1>6, <1>7 DEF IInv, Released

\* A user deletes an access; one who waits deletes what was granted.
LEMMA DeleteAccessStep ==
  ASSUME IInv, NEW u \in Accesses, DeleteAccess(u)
  PROVE  IInv' /\ Released /\ (~Hasty /\ SettledInv => SettledInv')
<1>1. obj[u].life = "live" /\ Settled(u) /\ obj' = [obj EXCEPT ![u] = Deleted(obj[u])] /\ External
  BY DEF DeleteAccess
<1>2. obj[u] \in Object
  BY Distinct DEF IInv, TypeOK
<1>3. /\ TypeOK' /\ obj'[u] = Deleted(obj[u]) /\ (\A y \in Objects : y # u => obj'[y] = obj[y])
      /\ Others("bucket") /\ UNCHANGED <<event, todo, indexed, at, op, arg, cred>>
      /\ secret' = secret /\ SameFiler
  <2>1. Deleted(obj[u]) \in Object /\ u \in Objects
    BY <1>2, DeletedType, Distinct
  <2> QED BY <1>1, <2>1, OneWritten
<1>4. obj'["bucket"] = obj["bucket"] /\ obj'["claim"] = obj["claim"]
  BY <1>3, Distinct
<1>5. \A v \in Accesses : v # u => obj'[v] = obj[v]
  BY <1>3, Distinct
<1>6. BucketInv'
  BY <1>3, <1>4, BucketSame DEF IInv, SameFiler
<1>7. ASSUME NEW v \in Accesses PROVE PinInv(v)'
  <2>1. CASE v = u
    BY <1>1, <1>3, <1>4, <2>1, PinByDelete DEF Exists, Live
  <2>2. CASE v # u
    BY <1>3, <1>4, <1>5, <2>2, PinSame DEF Live, IInv
  <2> QED BY <2>1, <2>2
<1>8. ~Hasty /\ SettledInv => SettledInv'
  BY <1>1, <1>3, <1>4, <1>5, SettledByDelete DEF Settled, Exists, Live, SameFiler
<1> QED BY <1>3, <1>4, <1>6, <1>7, <1>8 DEF IInv, Released

\* The claim is deleted; users who wait delete it when every access is granted.
LEMMA DeleteClaimStep ==
  ASSUME IInv, DeleteClaim
  PROVE  IInv' /\ Released /\ (~Hasty /\ SettledInv => SettledInv')
<1>1. /\ obj["claim"].life = "live" /\ \A u \in Accesses : Exists(u) => Settled(u)
      /\ obj' = [obj EXCEPT !["claim"] = Deleted(obj["claim"])] /\ External
  BY DEF DeleteClaim
<1> DEFINE new == Deleted(obj["claim"])
<1>2. obj["claim"] \in Object
  BY Distinct DEF IInv, TypeOK
<1>3. /\ new \in Object /\ new.life # "live" /\ (new.ready => obj["claim"].ready)
      /\ new.fin \subseteq obj["claim"].fin
  BY <1>2, DeletedType, ConstantTypes
<1>4. obj' = [obj EXCEPT !["claim"] = new]
  BY <1>1
<1> HIDE DEF new
<1>5. /\ TypeOK' /\ obj'["claim"] = new /\ (\A y \in Objects : y # "claim" => obj'[y] = obj[y])
      /\ Others("bucket") /\ UNCHANGED <<event, todo, indexed, at, op, arg, cred>>
      /\ secret' = secret /\ SameFiler
  BY <1>1, <1>3, <1>4, OneWritten, Distinct
<1>6. obj'["bucket"] = obj["bucket"] /\ \A u \in Accesses : obj'[u] = obj[u]
  BY <1>5, Distinct
<1>7. BucketInv'
  BY <1>3, <1>5, <1>6 DEF IInv, BucketInv, Live, Ended, SameFiler
<1>8. \A u \in Accesses : PinInv(u)'
  BY <1>5, <1>6, PinSame DEF Live, IInv
<1>9. ASSUME ~Hasty, SettledInv PROVE SettledInv'
  <2>1. ASSUME NEW u \in Accesses PROVE QueueInv(u)' /\ CredInv(u)'
    <3>1. QueueInv(u) /\ CredInv(u) /\ (Exists(u) => obj[u].ready)
      BY <1>1, <1>9 DEF SettledInv, Settled
    <3>2. SecretFor(u)' = SecretFor(u) /\ identity' = identity
      BY <1>5 DEF SecretFor, SameFiler
    <3> QED BY <1>5, <1>6, <3>1, <3>2, QueueSame, CredSame
  <2>2. \A n \in Secrets : Owned(n)'
    BY <1>5, <1>6, <1>9, OwnedSame DEF SettledInv, Exists
  <2>3. \A u \in Accesses : Active(u)' <=> Active(u)
    BY <1>5, <1>6 DEF Active, Exists
  <2>4. \A u, v \in Accesses : Active(u)' /\ Active(v)' /\ SecretOf[u] = SecretOf[v] => u = v
    BY <1>9, <2>3 DEF SettledInv
  <2> QED BY <2>1, <2>2, <2>4 DEF SettledInv
<1> QED BY <1>5, <1>6, <1>7, <1>8, <1>9 DEF IInv, Released

\* The bucket of a deleted claim is deleted.
LEMMA DeleteBucketStep ==
  ASSUME IInv, DeleteBucket
  PROVE  IInv' /\ Released /\ (~Hasty /\ SettledInv => SettledInv')
<1>1. /\ ~Live("claim") /\ obj["bucket"].life = "live"
      /\ obj' = [obj EXCEPT !["bucket"] = Deleted(obj["bucket"])] /\ External
  BY DEF DeleteBucket, Live
<1> DEFINE new == Deleted(obj["bucket"])
<1>2. obj["bucket"] \in Object
  BY Distinct DEF IInv, TypeOK
<1>3. /\ new \in Object /\ new.life \in {"deleting", "gone"}
      /\ new.fin = obj["bucket"].fin
  BY <1>2, DeletedType, ConstantTypes
<1>4. obj' = [obj EXCEPT !["bucket"] = new]
  BY <1>1
<1> HIDE DEF new
<1>5. /\ TypeOK' /\ obj'["bucket"] = new /\ (\A y \in Objects : y # "bucket" => obj'[y] = obj[y])
      /\ Others("bucket") /\ UNCHANGED <<event, todo, indexed, at, op, arg, cred>>
      /\ secret' = secret /\ SameFiler
  BY <1>1, <1>3, <1>4, OneWritten, Distinct
<1>6. obj'["claim"] = obj["claim"] /\ \A u \in Accesses : obj'[u] = obj[u]
  BY <1>5, Distinct
<1>7. BucketInv'
  BY <1>1, <1>3, <1>5, <1>6 DEF IInv, BucketInv, Live, Ended, SameFiler
<1>8. \A u \in Accesses : PinInv(u)'
  BY <1>3, <1>5, <1>6, PinSame DEF Live, IInv
<1>9. AccessesKept
  BY <1>5, <1>6 DEF AccessesKept, SameFiler, Live
<1>10. Released
  BY <1>3, <1>5 DEF Released
<1> QED BY <1>5, <1>7, <1>8, <1>9, <1>10, SettledByBucket DEF IInv

\* An identity file is lost.
LEMMA LoseIdentityStep ==
  ASSUME IInv, NEW u \in Accesses, LoseIdentity(u)
  PROVE  IInv' /\ Released /\ (SettledInv => SettledInv')
<1>1. /\ faults < MaxFaults /\ faults' = faults + 1 /\ identity' = [identity EXCEPT ![u] = NoCred]
      /\ SameStore /\ UNCHANGED <<entry, conf, minted>> /\ UNCHANGED queue /\ UNCHANGED handler
  BY DEF LoseIdentity, Fault, SameStore, store
<1>2. /\ HandlerType' /\ QueueType' /\ UNCHANGED <<event, todo, indexed, at, op, arg, cred>>
  BY <1>1, SidecarSame DEF IInv
<1>3. FilerType /\ faults' \in 0 .. MaxFaults
  BY <1>1, CosiFaultsAssumption, TypeParts DEF IInv, TypeOK
<1>4. FilerType' /\ \A v \in Accesses : identity'[v] \in {NoCred, identity[v]}
  BY <1>1, <1>3, ConstantTypes DEF FilerType
<1>5. TypeOK' /\ obj' = obj /\ secret' = secret
  BY <1>1, <1>2, <1>3, <1>4, TypedAfter DEF IInv, SameStore
<1>6. BucketInv' /\ \A v \in Accesses : PinInv(v)'
  BY <1>1, <1>2, <1>5, BucketSame, PinSame DEF IInv, Live
<1>7. ASSUME SettledInv PROVE SettledInv'
  <2>1. ASSUME NEW v \in Accesses PROVE QueueInv(v)' /\ CredInv(v)'
    <3>1. QueueInv(v) /\ CredInv(v) /\ identity'[v] \in {NoCred, identity[v]}
      BY <1>4, <1>7 DEF SettledInv
    <3>2. QueueInv(v)'
      BY <1>2, <1>5, <3>1, QueueSame DEF Live
    <3>3. SecretFor(v)' = SecretFor(v)
      BY <1>5 DEF SecretFor
    <3>4. CredInv(v)'
      BY <1>2, <1>5, <3>1, <3>3 DEF CredInv, Live
    <3> QED BY <3>2, <3>4
  <2>2. \A n \in Secrets : Owned(n)'
    BY <1>5, <1>7 DEF SettledInv, Owned, Exists
  <2>3. \A v \in Accesses : Active(v)' <=> Active(v)
    BY <1>2, <1>5 DEF Active, Exists
  <2>4. \A v, w \in Accesses : Active(v)' /\ Active(w)' /\ SecretOf[v] = SecretOf[w] => v = w
    BY <1>7, <2>3 DEF SettledInv
  <2> QED BY <2>1, <2>2, <2>4 DEF SettledInv
<1> QED BY <1>5, <1>6, <1>7 DEF IInv, Released

-----------------------------------------------------------------------------
(* The theorems *)

\* The initial states satisfy both invariants.
LEMMA Initially ==
  ASSUME Init
  PROVE  IInv /\ SettledInv
<1>1. TypeOK
  <2>1. obj \in [Objects -> Object]
    <3>1. [Created EXCEPT !.fin = IF ClaimProtected THEN {"BCFinalizer"} ELSE {}] \in Object
      BY ConstantTypes DEF Object, Finalizers
    <3> QED BY <3>1, ConstantTypes DEF Init
  <2>2. HandlerType
    BY ConstantTypes DEF Init, HandlerType, Control, Ops
  <2>3. QueueType
    BY ConstantTypes DEF Init, QueueType, Ops
  <2>4. FilerType
    BY ConstantTypes, SwitchAssumption DEF Init, FilerType
  <2>5. StoreType
    BY <2>1, ConstantTypes DEF Init, StoreType
  <2>6. faults \in 0 .. MaxFaults
    BY CosiFaultsAssumption DEF Init
  <2> QED BY <2>2, <2>3, <2>4, <2>5, <2>6, TypeParts
<1>2. obj["bucket"] = Created /\ obj["claim"].life = "live" /\ ~obj["claim"].ready
  <2>1. [Created EXCEPT !.fin = IF ClaimProtected THEN {"BCFinalizer"} ELSE {}].life = "live"
    BY DEF Created, Absent
  <2>2. ~[Created EXCEPT !.fin = IF ClaimProtected THEN {"BCFinalizer"} ELSE {}].ready
    BY DEF Created, Absent
  <2> QED BY <2>1, <2>2, Distinct DEF Init
<1>3. BucketInv
  <2>1. /\ at["bucket"] = "idle" /\ event["bucket"] = Absent /\ arg["bucket"] = Absent
        /\ entry = ExistingBucket
    BY Distinct DEF Init
  <2> QED BY <1>2, <2>1, ConstantTypes DEF BucketInv, Live, Ended, Cleaning
<1>4. ASSUME NEW u \in Accesses
      PROVE  /\ obj[u] = Absent /\ at[u] = "idle" /\ event[u] = Absent /\ arg[u] = Absent
             /\ op[u] = "none" /\ todo[u] = "none" /\ cred[u] = NoCred /\ identity[u] = NoCred
  BY Distinct DEF Init
<1>5. \A u \in Accesses : PinInv(u)
  BY <1>4, ConstantTypes DEF PinInv, Exists, RevokeSteps
<1>6. ASSUME NEW u \in Accesses PROVE QueueInv(u) /\ CredInv(u)
  <2>1. QueueInv(u)
    BY <1>4, ConstantTypes DEF QueueInv, Exists, Ended, AddSteps, RevokeSteps
  <2>2. CredInv(u)
    BY <1>4, ConstantTypes DEF CredInv, Live
  <2> QED BY <2>1, <2>2
<1>7. \A n \in Secrets : Owned(n)
  BY DEF Init, Owned, NoSecret
<1>8. \A u \in Accesses : ~Active(u)
  BY <1>4, ConstantTypes DEF Active, Exists
<1> QED BY <1>1, <1>3, <1>5, <1>6, <1>7, <1>8 DEF IInv, SettledInv

\* Every step keeps them, and takes BucketFinalizer off only when it may.
LEMMA Stepwise ==
  ASSUME IInv, [Next]_vars
  PROVE  IInv' /\ Released /\ (~Hasty /\ SettledInv => SettledInv')
<1>1. CASE UNCHANGED vars
  <2>1. UNCHANGED <<obj, secret, entry, conf, identity, minted, faults, event, todo, indexed>>
    BY <1>1 DEF vars, store, filer, queue
  <2>2. UNCHANGED <<at, op, arg, copy, cred, list>>
    BY <1>1 DEF vars, handler
  <2>3. TypeOK'
    BY <2>1, <2>2 DEF IInv, TypeOK
  <2>4. BucketInv'
    BY <2>1, <2>2, BucketSame DEF IInv
  <2>5. \A u \in Accesses : PinInv(u)'
    BY <2>1, <2>2, PinSame DEF IInv, Live
  <2>6. AccessesKept
    BY <2>1, <2>2 DEF AccessesKept, Others, Live
  <2> QED BY <2>1, <2>3, <2>4, <2>5, <2>6, SettledByBucket DEF IInv, Released
<1>2. ASSUME NEW o \in Watched, Serve(o)
      PROVE  IInv' /\ Released /\ (SettledInv => SettledInv')
  BY <1>2, FinishStep, BucketStepKeeps, AccessStepKeeps DEF Serve
<1>3. CASE Next
  BY <1>2, <1>3, DeliverStep, ResyncStep, FailStep, RestartStep, CreateAccessStep, DeleteAccessStep,
     LoseIdentityStep, DeleteClaimStep, DeleteBucketStep DEF Next
<1> QED BY <1>1, <1>3

\* The inductive invariant holds, however the users behave.
THEOREM Invariance == Spec => []IInv
<1>1. Init => IInv
  BY Initially
<1>2. IInv /\ [Next]_vars => IInv'
  BY Stepwise
<1> QED BY <1>1, <1>2, PTL DEF Spec

\* The objects, the queue and the handlers of the sidecar always have their type.
THEOREM TypeCorrect == Spec => []TypeOK
<1>1. IInv => TypeOK
  BY DEF IInv
<1> QED BY <1>1, Invariance, PTL

\* A granted access carries BAFinalizer and its bucket BABucketFinalizer, for any number
\* of accesses and whoever wrote the bucket last: the status of an access is written
\* after its finalizer and after the bucket's (markBucketAccessGranted), a copy that
\* is not current is refused, and only the cleanup of a deleted bucket takes one off.
THEOREM GrantsPin == Spec => []GrantPinsBucket
<1>1. IInv => GrantPinsBucket
  BY DEF IInv, PinInv, GrantPinsBucket, Live
<1> QED BY <1>1, Invariance, PTL

\* A ready claim has a bucket that is ready and whose directory exists: Add creates, then
\* writes the bucket's status, then the claim's, and the directory is removed only by
\* the cleanup of a bucket that is no longer live.
THEOREM ReadyClaims == Spec => []ReadyClaimHasBucket
<1>1. IInv => ReadyClaimHasBucket
  BY DEF IInv, BucketInv, ReadyClaimHasBucket, Live
<1> QED BY <1>1, Invariance, PTL

\* BucketFinalizer comes off a bucket only when its claim has been released and, under
\* deletionPolicy Delete, its directory is gone (cleanupDeletedBucket).
THEOREM ReleasedLast == Spec => ReleasedBucketDeleted
<1>1. IInv /\ [Next]_vars =>
        [("BucketFinalizer" \in obj["bucket"].fin /\ "BucketFinalizer" \notin obj'["bucket"].fin) =>
           /\ "BCFinalizer" \notin obj'["claim"].fin
           /\ DeletePolicy => ~entry']_vars
  BY Stepwise DEF Released
<1> QED BY <1>1, Invariance, PTL DEF Spec, ReleasedBucketDeleted

\* When users wait for the sidecar, the second invariant holds too.
THEOREM SettledInvariance == ~Hasty => (Spec => []SettledInv)
<1> SUFFICES ASSUME ~Hasty PROVE Spec => []SettledInv
  OBVIOUS
<1>1. Init => SettledInv
  BY Initially
<1>2. IInv /\ SettledInv /\ [Next]_vars => SettledInv'
  BY Stepwise
<1> QED BY <1>1, <1>2, Invariance, PTL DEF Spec

\* While an access is granted and not being deleted, its Secret and its identity agree, for
\* any number of accesses, reused names, failed calls, restarts and lost identities.
THEOREM CredentialsKept == ~Hasty => (Spec => []CredentialsAgree)
<1> SUFFICES ASSUME ~Hasty PROVE Spec => []CredentialsAgree
  OBVIOUS
<1>1. SettledInv => CredentialsAgree
  BY DEF SettledInv, CredInv, CredentialsAgree, Live, SecretFor
<1> QED BY <1>1, SettledInvariance, PTL

\* Once an access is gone no identity holds a credential that was minted for it: its own
\* identity was revoked before BAFinalizer came off, and no other access ever takes
\* a credential that is not its own.
THEOREM GoneRevoked == ~Hasty => (Spec => []GoneMeansRevoked)
<1> SUFFICES ASSUME ~Hasty PROVE Spec => []GoneMeansRevoked
  OBVIOUS
<1>1. SettledInv => GoneMeansRevoked
  <2> SUFFICES ASSUME SettledInv, NEW u \in Accesses, NEW v \in Accesses, obj[u].life = "gone"
               PROVE  identity[v][1] # u
    BY DEF GoneMeansRevoked
  <2>1. CredInv(u) /\ CredInv(v)
    BY DEF SettledInv
  <2>2. CASE identity[v] = NoCred
    BY <2>2, Distinct DEF NoCred
  <2>3. CASE identity[v] # NoCred
    BY <2>1, <2>3 DEF CredInv
  <2> QED BY <2>2, <2>3
<1> QED BY <1>1, SettledInvariance, PTL
=============================================================================
