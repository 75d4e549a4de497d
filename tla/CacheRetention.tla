--------------------------- MODULE CacheRetention ---------------------------
(* The cache retention worker (gitlab-runner/ci/cache-retention.py): what it
   removes from the CI node once it was admitted, while host processes open,
   change and replace the trees under it and its admission can be lost.
   MaintenanceAdmission models the admission itself; here the gate (the fence,
   the Pod lists and the filesystem of the roots) is a condition that the
   environment can end.

   A tree (a directory below a retention root) is the number of entries left in
   it, the inode of its root, a version of what a snapshot fingerprints, the
   time of its newest file and the change times of its regular files.  Trees in
   Linked share hard links: removing from one touches the others.  Only
   --execute is modelled: without it nothing is gated and nothing removed.   *)
EXTENDS Integers, FiniteSets

CONSTANTS
    Trees,        \* numbered by path
    Workspaces,   \* the trees below the workspace root
    Uv,           \* the tree that only the native uv may clean
    Protected,    \* image stores, tool directories, plain files
    Linked,       \* trees that share hard links
    Days,         \* retention of a tree: 7 for workspaces, 30 for caches
    Now,          \* time.time() when retain starts
    Uses,         \* use of the filesystem when retain starts
    High, Low,    \* 67 and 65 in the code
    Reserve,      \* use at which COLD_RESERVE bytes are left
    Entries,      \* entries of a full tree
    MaxEvents     \* bound: steps of other processes

ASSUME RetentionAssumption ==
    /\ Trees \subseteq Nat \ {0} /\ Workspaces \subseteq Trees /\ Linked \subseteq Trees
    /\ Protected \subseteq Trees /\ Uv \in Trees \ (Workspaces \cup Protected \cup Linked)
    /\ Days \in [Trees -> Nat] /\ Now \in Nat /\ Uses \subseteq Nat
    /\ Low \in Nat /\ High \in Nat /\ Low < High /\ Reserve \in Nat
    /\ Entries \in Nat \ {0} /\ MaxEvents \in Nat

VARIABLES
    tree, use,    \* the trees and the use of their filesystem
    held,         \* trees that some process has open or mounted
    early, moved, \* of these: since before the last listing of /proc, and
                  \* handed to a process that is not in that listing
    gate,         \* WorkerFence.check and api_gate would pass
    pc, cand,     \* next step of the worker, and the tree it works on
    busy,         \* mount_ids and open_ids of the last scan
    uvBusy,       \* the first scan saw the uv cache in use
    unscanned, proof, todo, pressure,
    events, hit,  \* bound, and history: another process has acted
    dirty,        \* history: trees changed between their two snapshots
    gated         \* history: the gate stood when the last snapshot was taken

host == <<held, early, moved, gate, events, hit>>
plan == <<uvBusy, unscanned, proof, todo, pressure>>
vars == <<tree, use, host, pc, cand, busy, plan, dirty, gated>>

Candidates == Trees \ (Protected \cup {Uv})

\* Mutant: the change times of regular files are part of the fingerprint.
FingerprintCtime(t) == tree[t]

\* snapshot: identity, size and mtime of every entry.  An unlink changes the
\* ctime of the surviving hard links, which is left out.
Fingerprint(t) == [tree[t] EXCEPT !.ctime = 0]

\* The scan chose the tree: candidates are never empty directories here.
Chosen(t) == proof[t].left > 0
Expired(t) == proof[t].newest + Days[t] <= Now

\* The sort key: workspaces before caches, oldest first, then the path.
Before(t, u) == LET root(x) == IF x \in Workspaces THEN 0 ELSE 1 IN
    \/ root(t) < root(u)
    \/ root(t) = root(u) /\ proof[t].newest < proof[u].newest
    \/ root(t) = root(u) /\ proof[t].newest = proof[u].newest /\ t <= u
First(S) == CHOOSE t \in S : \A u \in S : Before(t, u)

Init ==
    /\ \E age \in [Candidates -> 0 .. Now] :
         tree = [t \in Trees |-> [left |-> Entries, ino |-> 1, ver |-> 0, ctime |-> 0,
                                  newest |-> IF t \in Candidates THEN age[t] ELSE 0]]
    /\ use \in Uses /\ held \in SUBSET (Trees \ Protected)
    /\ early = {} /\ moved = {} /\ gate = TRUE /\ events = 0 /\ hit = FALSE
    /\ pc = "claim" /\ cand = 0 /\ busy = {} /\ uvBusy = FALSE
    /\ unscanned = Trees /\ proof = [t \in Trees |-> [tree[t] EXCEPT !.left = 0]] /\ todo = {} /\ pressure = FALSE
    /\ dirty = {} /\ gated = FALSE

Refuse == pc' = "refused"

-----------------------------------------------------------------------------
\* main: the claim and the first gate come before the roots are scanned.
Claim ==
    /\ pc = "claim"
    /\ IF gate THEN pc' = "list" ELSE Refuse
    /\ UNCHANGED <<tree, use, host, cand, busy, plan, dirty, gated>>

\* mount_ids and open_ids list the processes of the host first, ...
List ==
    /\ pc = "list" /\ pc' = "read"
    /\ early' = held /\ moved' = {}
    /\ UNCHANGED <<tree, use, held, gate, events, hit, cand, busy, plan, dirty, gated>>

\* ... then read the mounts and the descriptors of each.  A process that has
\* gone is passed over; what was opened meanwhile may or may not be seen.
Read == \E seen \in SUBSET held :
    /\ pc = "read"
    /\ early \ moved \subseteq seen
    /\ busy' = seen
    /\ IF cand = 0
       THEN pc' = "scan" /\ uvBusy' = (Uv \in seen)
       ELSE pc' = "prove" /\ UNCHANGED uvBusy
    /\ UNCHANGED <<tree, use, host, cand, unscanned, proof, todo, pressure, dirty, gated>>

\* The candidate loop of retain: one snapshot per tree; a tree in use and the
\* protected names are skipped.
Scan ==
    /\ pc = "scan"
    /\ IF unscanned = {}
       THEN pc' = "age" /\ UNCHANGED <<unscanned, proof, todo>>
       ELSE LET t == CHOOSE t \in unscanned : \A u \in unscanned : t <= u IN
            /\ unscanned' = unscanned \ {t}
            /\ IF t \in Candidates \ busy
               THEN proof' = [proof EXCEPT ![t] = Fingerprint(t)] /\ todo' = todo \cup {t}
               ELSE UNCHANGED <<proof, todo>>
            /\ UNCHANGED pc
    /\ UNCHANGED <<tree, use, host, cand, busy, uvBusy, pressure, dirty, gated>>

Delete(t) == pc' = "gate1" /\ cand' = t

\* Mutant: capacity is looked at first.
PickAgeNever ==
    /\ pc = "age" /\ pc' = "pressure"
    /\ UNCHANGED <<tree, use, host, cand, busy, plan, dirty, gated>>

PickAge == LET old == {t \in todo : Expired(t)} IN
    /\ pc = "age"
    /\ IF old = {}
       THEN pc' = "pressure" /\ UNCHANGED <<cand, todo>>
       ELSE Delete(First(old)) /\ todo' = todo \ {First(old)}
    /\ UNCHANGED <<tree, use, host, busy, uvBusy, unscanned, proof, pressure, dirty, gated>>

\* The use after age expiry decides whether there is pressure, once.
Pressure ==
    /\ pc = "pressure" /\ pc' = "capacity"
    /\ pressure' = (use >= High)
    /\ UNCHANGED <<tree, use, host, cand, busy, uvBusy, unscanned, proof, todo, dirty, gated>>

PickCapacity ==
    /\ pc = "capacity"
    /\ \/ /\ todo = {} /\ UNCHANGED <<cand, todo>>
          /\ pc' = IF pressure /\ use > Low THEN "uv" ELSE "finish"
       \/ /\ todo # {} /\ todo' = todo \ {First(todo)}
          /\ IF pressure /\ use > Low THEN Delete(First(todo)) ELSE UNCHANGED <<pc, cand>>
    /\ UNCHANGED <<tree, use, host, busy, uvBusy, unscanned, proof, pressure, dirty, gated>>

\* clean_uv up to its first gate: the first proof uses the scan retain began with.
UvProof ==
    /\ pc = "uv"
    /\ IF tree[Uv].left = 0
       THEN pc' = "finish" /\ UNCHANGED <<cand, proof>>
       ELSE IF uvBusy THEN Refuse /\ UNCHANGED <<cand, proof>>
       ELSE Delete(Uv) /\ proof' = [proof EXCEPT ![Uv] = Fingerprint(Uv)]
    /\ UNCHANGED <<tree, use, host, busy, uvBusy, unscanned, todo, pressure, dirty, gated>>

-----------------------------------------------------------------------------
\* delete and clean_uv: gate, fresh scan, second snapshot, gate again, removal.
Gate1 ==
    /\ pc = "gate1"
    /\ IF gate THEN pc' = "list" ELSE Refuse
    /\ UNCHANGED <<tree, use, host, cand, busy, plan, dirty, gated>>

\* Mutant: the second snapshot is not compared with the first.
ProveNoCompare ==
    /\ pc = "prove"
    /\ IF cand \notin busy THEN pc' = "gate2" ELSE Refuse
    /\ gated' = gate
    /\ UNCHANGED <<tree, use, host, cand, busy, plan, dirty>>

\* Mutant: the second snapshot goes without the fresh scan of /proc.
ProveNoScan ==
    /\ pc = "prove"
    /\ IF Fingerprint(cand) = proof[cand] THEN pc' = "gate2" ELSE Refuse
    /\ gated' = gate
    /\ UNCHANGED <<tree, use, host, cand, busy, plan, dirty>>

Prove ==
    /\ pc = "prove"
    /\ IF cand \notin busy /\ Fingerprint(cand) = proof[cand] THEN pc' = "gate2" ELSE Refuse
    /\ gated' = gate
    /\ UNCHANGED <<tree, use, host, cand, busy, plan, dirty>>

\* Mutant: the gate is not asked again after the snapshot.
Gate2Skipped ==
    /\ pc = "gate2" /\ pc' = "remove"
    /\ UNCHANGED <<tree, use, host, cand, busy, plan, dirty, gated>>

Gate2 ==
    /\ pc = "gate2"
    /\ IF gate THEN pc' = "remove" ELSE Refuse
    /\ UNCHANGED <<tree, use, host, cand, busy, plan, dirty, gated>>

\* n entries of t are unlinked: a hard link elsewhere keeps the space, and its
\* change time is new.
Unlink(t, n) ==
    /\ tree' = [u \in Trees |->
         IF u = t THEN [tree[u] EXCEPT !.left = @ - n]
         ELSE IF {t, u} \subseteq Linked THEN [tree[u] EXCEPT !.ctime = 1] ELSE tree[u]]
    /\ use' \in {use - n} \cup (IF t \in Linked THEN {use} ELSE {})

\* remove_tree works below the inode it was given: a replaced tree is left
\* alone, and the final rmdir refuses.  A changed entry is noticed only
\* between the two stats of that entry.
Remove ==
    /\ pc = "remove" /\ cand # Uv
    /\ \/ /\ tree[cand].ino = proof[cand].ino
          /\ IF tree[cand].left > 0
             THEN Unlink(cand, 1) /\ UNCHANGED pc
             ELSE pc' = (IF pressure THEN "capacity" ELSE "age")
                  /\ UNCHANGED <<tree, use>>
       \/ /\ Fingerprint(cand).ino # proof[cand].ino \/ Fingerprint(cand).ver # proof[cand].ver
          /\ Refuse /\ UNCHANGED <<tree, use>>
    /\ UNCHANGED <<host, cand, busy, plan, dirty, gated>>

\* owned_uv: the child cleans the cache, or fails after any part of it, or has
\* to be killed at its timeout.
CleanUv == \E n \in 0 .. tree[Uv].left :
    /\ pc = "remove" /\ cand = Uv
    /\ Unlink(Uv, n)
    /\ \/ n = tree[Uv].left /\ pc' = "finish" /\ UNCHANGED <<events, hit>>
       \/ events < MaxEvents /\ events' = events + 1 /\ hit' = TRUE /\ Refuse
    /\ UNCHANGED <<held, early, moved, gate, cand, busy, plan, dirty, gated>>

Finish ==
    /\ pc = "finish"
    /\ IF pressure /\ (use > Low \/ use > Reserve) THEN Refuse ELSE pc' = "done"
    /\ UNCHANGED <<tree, use, host, cand, busy, plan, dirty, gated>>

-----------------------------------------------------------------------------
\* Other processes of the host.
Event ==
    /\ pc \notin {"done", "refused"} /\ events < MaxEvents
    /\ events' = events + 1 /\ hit' = TRUE
    /\ UNCHANGED <<pc, cand, busy, plan, gated>>

Open(t) ==
    /\ Event /\ t \notin held /\ held' = held \cup {t}
    /\ UNCHANGED <<tree, use, early, moved, gate, dirty>>

Close(t) ==
    /\ Event /\ t \in held /\ held' = held \ {t} /\ early' = early \ {t}
    /\ UNCHANGED <<tree, use, moved, gate, dirty>>

\* The process forks and exits: its child has the same files and mounts.
HandOver(t) ==
    /\ Event /\ t \in early \ moved /\ moved' = moved \cup {t}
    /\ UNCHANGED <<tree, use, held, early, gate, dirty>>

\* A tree is between its two snapshots.
Watched(t) == \/ t \in todo
              \/ cand = t /\ pc \in {"gate1", "list", "read", "prove"}

\* A file is written, or the whole tree is renamed away and made anew.
Change(t) == \E ino \in {tree[t].ino, tree[t].ino + 1} :
    /\ Event /\ tree[t].left > 0
    /\ tree' = [tree EXCEPT ![t].ino = ino, ![t].ver = @ + 1, ![t].newest = Now]
    /\ dirty' = IF Watched(t) THEN dirty \cup {t} ELSE dirty
    /\ UNCHANGED <<use, held, early, moved, gate>>

LoseGate == Event /\ gate /\ gate' = FALSE /\ UNCHANGED <<tree, use, held, early, moved, dirty>>
Grow == Event /\ use' = use + 1 /\ UNCHANGED <<tree, held, early, moved, gate, dirty>>

Next ==
    \/ Claim \/ List \/ Read \/ Scan \/ PickAge \/ Pressure \/ PickCapacity \/ UvProof
    \/ Gate1 \/ Prove \/ Gate2 \/ Remove \/ CleanUv \/ Finish
    \/ \E t \in Trees \ Protected : Open(t) \/ Close(t) \/ HandOver(t) \/ Change(t)
    \/ LoseGate \/ Grow

Spec == Init /\ [][Next]_vars
-----------------------------------------------------------------------------
Shrinks(t) == tree'[t].left < tree[t].left

\* Nothing is removed from a tree that changed between the scan that chose it
\* and the proof of its deletion, from a tree that took the place of the chosen
\* one, even in the middle of its removal, or from a protected name.  (The
\* native uv works on paths: for its cache only the proofs are compared.)
OnlyProvenRemoved == [][\A t \in Trees : Shrinks(t) =>
    t \notin dirty \cup Protected /\ (t # Uv => tree[t].ino = proof[t].ino)]_vars

\* Nothing is removed from a tree that a process has had open or mounted since
\* before the scan of /proc for this deletion, however old the first scan is.
HeldTreesKept == [][\A t \in Trees : Shrinks(t) => t \notin early \ moved]_vars

\* The stronger reading of the scan's own comment ("A vanished
\* process/namespace is a race, not negative mount evidence"): a file that stays
\* open or mounted throughout is seen even when its process forks and exits.
\* TLC refutes it: see the observations in the README.
VanishedIsNoEvidence == [][\A t \in Trees : Shrinks(t) => t \notin early]_vars

\* The admission still stood when the proof of the deletion had been taken: a
\* long metadata scan cannot outlive the lease unnoticed.
AdmittedAtProof == pc = "remove" => gated

\* A tree that is not expired is removed only under pressure, and only when no
\* expired candidate is left to remove instead.
AgeBeforeCapacity == [][\A t \in Candidates : Shrinks(t) /\ ~Expired(t) =>
    /\ pressure
    /\ \A u \in Candidates : Chosen(u) /\ Expired(u) => tree[u].left = 0]_vars

\* A run refuses only because of something outside it or for lack of space:
\* what it removes itself (the shared hard links) never makes it refuse.
RefusalHasCause == pc = "refused" => hit \/ use > Low \/ use > Reserve
=============================================================================
