---------------------------- MODULE MountManager ----------------------------
(* The CSI mount manager (drivers/seaweedfs-csi-driver/pkg/mountmanager/
   manager.go, keymutex.go) for one volume and its target path: concurrent
   Mount and Unmount calls, weed processes that exit at any time, and the
   goroutine that waits for each of them.  Takeover between two services is
   not modelled.                                                             *)
EXTENDS Integers, Sequences, SequencesExt

CONSTANTS Calls,        \* requests of the node server, one after the other or at once
          MaxProcesses, \* bound: weed processes that are started
          None

VARIABLES
    pc, lock, proc,     \* per call: next step, its mutex, the process it handles
    mutex, holder,      \* the mutex stored for the volume, and who holds each one
    entry,              \* mounts[volume]: a process or None
    process,            \* "none", "starting", "up" or "dead"
    goroutine,          \* wait() of a process: "run", "unmount", "close", "exit", "end"
    stack,              \* mounts at the target path, the visible one first
    stored, asked       \* history: processes a Mount has stored, an Unmount has stopped

vars == <<pc, lock, proc, mutex, holder, entry, process, goroutine, stack, stored, asked>>
call == <<pc, lock, proc>>
locks == <<mutex, holder>>
host == <<process, goroutine, stack>>
history == <<stored, asked>>

Processes == 1 .. MaxProcesses
Mutexes == 1 .. MaxProcesses + 1

Init ==
    /\ pc = [c \in Calls |-> "idle"] /\ lock = [c \in Calls |-> None]
    /\ proc = [c \in Calls |-> None]
    /\ mutex = None /\ holder = [l \in Mutexes |-> None] /\ entry = None
    /\ process = [p \in Processes |-> "none"] /\ goroutine = [p \in Processes |-> "run"]
    /\ stack = <<>> /\ stored = {} /\ asked = {}

Goto(c, from, to) == pc[c] = from /\ pc' = [pc EXCEPT ![c] = to]

\* The deferred Unlock, and the answer.
Return(c) ==
    /\ pc' = [pc EXCEPT ![c] = "answered"]
    /\ holder' = [holder EXCEPT ![lock[c]] = None]
    /\ UNCHANGED <<lock, proc>>

-----------------------------------------------------------------------------
\* locks.get: LoadOrStore of a new mutex.
GetLock(c, op) == LET unused == CHOOSE l \in Mutexes : \A k \in Calls : lock[k] # l IN
    /\ Goto(c, "idle", IF op = "mount" THEN "m_lock" ELSE "u_lock")
    /\ mutex' = IF mutex = None THEN unused ELSE mutex
    /\ lock' = [lock EXCEPT ![c] = mutex']
    /\ UNCHANGED <<proc, holder, entry, host, history>>

Lock(c) ==
    /\ Goto(c, "m_lock", "m_check") \/ Goto(c, "u_lock", "u_check")
    /\ holder[lock[c]] = None /\ holder' = [holder EXCEPT ![lock[c]] = c]
    /\ UNCHANGED <<lock, proc, mutex, entry, host, history>>

\* Signal 0 fails only once the process has been waited for.
Reaped(p) == process[p] = "dead" /\ goroutine[p] # "run"

\* The cached entry is the answer, or is detached when its process is gone.
MountCheck(c) ==
    /\ pc[c] = "m_check"
    /\ IF entry # None /\ ~Reaped(entry)
       THEN Return(c) /\ UNCHANGED <<entry, mutex>>
       ELSE Goto(c, "m_check", "m_clean") /\ entry' = None /\ UNCHANGED <<lock, proc, locks>>
    /\ UNCHANGED <<host, history>>

\* ensureTargetClean, and the start of the process with its goroutine.
MountStart(c) == \E p \in Processes :
    /\ process[p] = "none" /\ \A q \in Processes : process[q] = "none" => p <= q
    /\ Goto(c, "m_clean", "m_ready")
    /\ stack' = IF stack = <<>> THEN stack ELSE Tail(stack)
    /\ process' = [process EXCEPT ![p] = "starting"]
    /\ proc' = [proc EXCEPT ![c] = p]
    /\ UNCHANGED <<lock, locks, entry, goroutine, history>>

\* waitForMount asks only whether the target is a mount point, of whichever
\* process.  The mount of a dead one is an error (MountGivesUp).
MountReady(c) ==
    /\ stack # <<>> /\ process[Head(stack)] = "up" /\ Goto(c, "m_ready", "m_store")
    /\ UNCHANGED <<lock, proc, locks, entry, host, history>>

MountStore(c) ==
    /\ pc[c] = "m_store"
    /\ entry' = proc[c] /\ stored' = stored \cup {proc[c]}
    /\ Return(c)
    /\ UNCHANGED <<mutex, host, asked>>

\* waitForMount fails or times out: the new process is stopped.
MountGivesUp(c) ==
    /\ Goto(c, "m_ready", "u_stop") /\ asked' = asked \cup {proc[c]}
    /\ UNCHANGED <<lock, proc, locks, entry, host, stored>>

-----------------------------------------------------------------------------
UnmountCheck(c) ==
    /\ pc[c] = "u_check"
    /\ IF entry = None
       THEN Return(c) /\ UNCHANGED asked
       ELSE /\ Goto(c, "u_check", "u_stop")
            /\ proc' = [proc EXCEPT ![c] = entry] /\ asked' = asked \cup {entry}
            /\ UNCHANGED <<lock, holder>>
    /\ UNCHANGED <<mutex, entry, host, stored>>

\* stop has seen done closed; removeMount drops the entry and the mutex.  (The
\* failed Mount only answers.)
Stopped(c) ==
    /\ pc[c] = "u_stop" /\ goroutine[proc[c]] \in {"exit", "end"}
    /\ IF proc[c] \in stored THEN entry' = None /\ mutex' = None ELSE UNCHANGED <<entry, mutex>>
    /\ Return(c)
    /\ UNCHANGED <<host, history>>

\* stop gives up after SIGKILL.
StopFails(c) ==
    /\ pc[c] = "u_stop" /\ goroutine[proc[c]] \notin {"exit", "end"}
    /\ Return(c)
    /\ UNCHANGED <<mutex, entry, host, history>>

-----------------------------------------------------------------------------
\* A weed process mounts the target, and exits on its own or when it is told to.
WeedMounts(p) ==
    /\ process[p] = "starting"
    /\ process' = [process EXCEPT ![p] = "up"] /\ stack' = <<p>> \o stack
    /\ UNCHANGED <<call, locks, entry, goroutine, history>>

WeedExits(p) ==
    /\ process[p] \in {"starting", "up"} /\ process' = [process EXCEPT ![p] = "dead"]
    /\ UNCHANGED <<call, locks, entry, goroutine, stack, history>>

\* wait(): Wait returns, whatever is mounted at the target is unmounted, done
\* is closed, and onExit detaches the entry of the volume.
Wait(p) ==
    /\ process[p] = "dead" /\ goroutine[p] # "end"
    /\ goroutine' = [goroutine EXCEPT ![p] =
         CASE @ = "run" -> "unmount" [] @ = "unmount" -> "close" [] @ = "close" -> "exit"
           [] @ = "exit" -> "end"]
    /\ stack' = IF goroutine[p] = "unmount" /\ stack # <<>> THEN Tail(stack) ELSE stack
    /\ entry' = IF goroutine[p] = "exit" THEN None ELSE entry
    /\ UNCHANGED <<call, locks, process, history>>

Next ==
    \/ \E c \in Calls :
         \/ \E op \in {"mount", "unmount"} : GetLock(c, op)
         \/ Lock(c) \/ MountCheck(c) \/ MountStart(c) \/ MountReady(c) \/ MountStore(c)
         \/ MountGivesUp(c) \/ UnmountCheck(c) \/ Stopped(c) \/ StopFails(c)
    \/ \E p \in Processes : WeedMounts(p) \/ WeedExits(p) \/ Wait(p)

Spec == Init /\ [][Next]_vars
-----------------------------------------------------------------------------
\* wait() "handles the unmount when the process terminates", which "avoids
\* potential race conditions" (manager.go:134-136): the exit of an earlier
\* process leaves a mount alone that a later Mount has set up, so a process that
\* is up, was answered with and was not stopped is still in the map, and its
\* mount is still there.
LiveMountKept == \A p \in stored \ asked :
    process[p] = "up" => entry = p /\ p \in Range(stack)
=============================================================================
