-------------------------- MODULE WindowsLifecycle --------------------------
(***************************************************************************)
(* zenmaster/windows.py inside one process: init(), the calls and close()  *)
(* made by several threads, the handles of the process, and the mutex      *)
(* Global\Access_PCI, which another program uses too.                      *)
(*                                                                         *)
(* A Windows mutex belongs to a thread, which may take it again; a handle  *)
(* closed by its owner does not release it; the mutex of a thread that     *)
(* ends is abandoned, and granted to the next who waits.  Everything goes  *)
(* through _k32, which close() sets to None.                               *)
(*                                                                         *)
(* Nothing keeps close() out of a call, an init() or another close(), nor  *)
(* one init() out of another.  harm remembers which of that has happened   *)
(* so far, and each property says what it withstands.                      *)
(***************************************************************************)
EXTENDS Integers, FiniteSets

CONSTANTS
    Thread,
    NoThread,
    Other,          \* the other program that uses the mutex
    NHandle,        \* bound: size of the process's handle table
    MaxOps          \* bound: operations of one thread

ASSUME ThreadAssumption ==
    NoThread \notin Thread /\ Other \notin Thread /\ Other # NoThread
ASSUME SizeAssumption   == NHandle \in Nat /\ MaxOps \in Nat

VARIABLES
    installed,  \* the registry names a PawnIO installation
    info,       \* _pawnio_info_cache
    handle,     \* _handle
    k32,        \* _k32 is set
    table,      \* what each handle of the process names
    owner,      \* the owner of the mutex
    depth,      \* how often its owner has taken it
    lock,       \* the thread holding _lock
    pc, ops,
    opened,     \* the device handle an init() works with
    guard,      \* the mutex handle a call works with
    harm        \* history: how the operations have met

\*  cut    close() overlapped another operation
\*  raced  two init() calls overlapped
Harm == {"cut", "raced"}

globals == <<installed, info, handle, k32>>
mutex   == <<owner, depth>>
vars    == <<globals, table, mutex, lock, pc, ops, opened, guard, harm>>

Handle == 1..NHandle
None   == 0

Initing == {"info", "open", "load", "failed", "sethandle", "setk32"}
Io      == {"io1", "io2"}
Closing == {"close1", "close2", "close3", "close4"}
InInit  == {"init"} \cup Initing
Calling == {"lock", "guard", "wait", "timedout", "release", "unguard", "unlock"} \cup Io
Labels  == {"idle"} \cup InInit \cup Calling \cup Closing

TypeOK ==
    /\ installed \in BOOLEAN
    /\ info \in {"unset", "missing", "installed"}
    /\ handle \in Handle \cup {None}
    /\ k32 \in BOOLEAN
    /\ table \in [Handle -> {"free", "device", "mutex"}]
    /\ owner \in Thread \cup {NoThread, Other}
    /\ depth \in Nat
    /\ lock \in Thread \cup {NoThread}
    /\ pc \in [Thread -> Labels]
    /\ ops \in [Thread -> 0..MaxOps]
    /\ opened \in [Thread -> Handle \cup {None}]
    /\ guard \in [Thread -> Handle \cup {None}]
    /\ harm \subseteq Harm

Init ==
    /\ installed \in BOOLEAN
    /\ info = "unset"
    /\ handle = None
    /\ k32 = FALSE
    /\ table = [n \in Handle |-> "free"]
    /\ owner = NoThread
    /\ depth = 0
    /\ lock = NoThread
    /\ pc = [t \in Thread |-> "idle"]
    /\ ops = [t \in Thread |-> 0]
    /\ opened = [t \in Thread |-> None]
    /\ guard = [t \in Thread |-> None]
    /\ harm = {}

-----------------------------------------------------------------------------
Goto(t, label) == pc' = [pc EXCEPT ![t] = label]
Set(f, t, v)   == [f EXCEPT ![t] = v]

\* A handle given out again soon is the one that shows what is kept too long.
Room == \E n \in Handle : table[n] = "free"
Free == CHOOSE n \in Handle : table[n] = "free"

Opened(what) == [table EXCEPT ![Free] = what]
\* CloseHandle fails on NULL, and on a number that names nothing.
Closed(n)    == [m \in Handle |-> IF m = n THEN "free" ELSE table[m]]

IsMutex(n)   == n \in Handle /\ table[n] = "mutex"

Idle == \A t \in Thread : pc[t] = "idle"

-----------------------------------------------------------------------------
(* What goes on outside.                                                   *)

Install ==
    /\ ~installed
    /\ installed' = TRUE
    /\ UNCHANGED <<info, handle, k32, table, mutex, lock, pc, ops, opened, guard, harm>>

OtherTakes ==
    /\ owner = NoThread
    /\ owner' = Other
    /\ depth' = 1
    /\ UNCHANGED <<globals, table, lock, pc, ops, opened, guard, harm>>

\* It releases the mutex, or ends and abandons it: WAIT_OBJECT_0 and
\* WAIT_ABANDONED are the same to acquire_pci_mutex.
OtherReleases ==
    /\ owner = Other
    /\ owner' = NoThread
    /\ depth' = 0
    /\ UNCHANGED <<globals, table, lock, pc, ops, opened, guard, harm>>

-----------------------------------------------------------------------------
(* Starting an operation.                                                  *)

\* How an operation that starts meets those under way.
Met(t, op) ==
    LET At(P) == \E u \in Thread \ {t} : pc[u] \in P
    IN  (IF At(Closing) \/ (op = "close1" /\ At(Labels \ {"idle"})) THEN {"cut"} ELSE {})
          \cup (IF op = "init" /\ At(InInit) THEN {"raced"} ELSE {})

\* MUTANT of Start: a call does not ask _require_init.
BugStart(t) ==
    /\ pc[t] = "idle"
    /\ ops[t] < MaxOps
    /\ ops' = Set(ops, t, ops[t] + 1)
    /\ \E op \in {"init", "lock", "close1"} :
          Goto(t, op) /\ harm' = harm \cup Met(t, op)
    /\ UNCHANGED <<globals, table, mutex, lock, opened, guard>>

\* _require_init turns a call away when one of the two is not set.
Start(t) ==
    /\ pc[t] = "idle"
    /\ ops[t] < MaxOps
    /\ ops' = Set(ops, t, ops[t] + 1)
    /\ \E op \in {"init", "lock", "close1"} :
          IF op = "lock" /\ (handle = None \/ ~k32)
          THEN UNCHANGED <<pc, harm>>
          ELSE Goto(t, op) /\ harm' = harm \cup Met(t, op)
    /\ UNCHANGED <<globals, table, mutex, lock, opened, guard>>

-----------------------------------------------------------------------------
(* init()                                                                  *)

InitCheck(t) ==
    /\ pc[t] = "init"
    /\ Goto(t, IF handle # None THEN "idle" ELSE "info")
    /\ UNCHANGED <<globals, table, mutex, lock, ops, opened, guard, harm>>

\* _pawnio_info reads the registry once.
InitInfo(t) ==
    /\ pc[t] = "info"
    /\ info' = IF info # "unset" THEN info
               ELSE IF installed THEN "installed" ELSE "missing"
    /\ Goto(t, IF info' = "installed" THEN "open" ELSE "idle")
    /\ UNCHANGED <<installed, handle, k32, table, mutex, lock, ops, opened, guard, harm>>

\* _open_device may fail.
InitOpen(t) ==
    /\ pc[t] = "open"
    /\ \/ /\ Room
          /\ table' = Opened("device")
          /\ opened' = Set(opened, t, Free)
          /\ Goto(t, "load")
       \/ Goto(t, "idle") /\ UNCHANGED <<table, opened>>
    /\ UNCHANGED <<globals, mutex, lock, ops, guard, harm>>

\* Loading RyzenSMU.bin may fail, or raise.
InitLoad(t) ==
    /\ pc[t] = "load"
    /\ \E ok \in BOOLEAN : Goto(t, IF ok THEN "sethandle" ELSE "failed")
    /\ UNCHANGED <<globals, table, mutex, lock, ops, opened, guard, harm>>

\* MUTANT of InitFailed: the handle of a failed load is kept open.
BugInitFailed(t) ==
    /\ pc[t] = "failed"
    /\ opened' = Set(opened, t, None)
    /\ Goto(t, "idle")
    /\ UNCHANGED <<globals, table, mutex, lock, ops, guard, harm>>

InitFailed(t) ==
    /\ pc[t] = "failed"
    /\ table' = Closed(opened[t])
    /\ opened' = Set(opened, t, None)
    /\ Goto(t, "idle")
    /\ UNCHANGED <<globals, mutex, lock, ops, guard, harm>>

InitSetHandle(t) ==
    /\ pc[t] = "sethandle"
    /\ handle' = opened[t]
    /\ opened' = Set(opened, t, None)
    /\ Goto(t, "setk32")
    /\ UNCHANGED <<installed, info, k32, table, mutex, lock, ops, guard, harm>>

InitSetK32(t) ==
    /\ pc[t] = "setk32"
    /\ k32' = TRUE
    /\ Goto(t, "idle")
    /\ UNCHANGED <<installed, info, handle, table, mutex, lock, ops, opened, guard, harm>>

-----------------------------------------------------------------------------
(* A call: with _lock: with pci_mutex_guard(): ...                         *)

TakeLock(t) ==
    /\ pc[t] = "lock"
    /\ lock = NoThread
    /\ lock' = t
    /\ Goto(t, "guard")
    /\ UNCHANGED <<globals, table, mutex, ops, opened, guard, harm>>

\* acquire_pci_mutex gives up when the mutex cannot be created, or close()
\* has taken _k32 away.
CreateMutex(t) ==
    /\ pc[t] = "guard"
    /\ \/ /\ k32 /\ Room
          /\ table' = Opened("mutex")
          /\ guard' = Set(guard, t, Free)
          /\ Goto(t, "wait")
       \/ Goto(t, "io1") /\ UNCHANGED <<table, guard>>
    /\ UNCHANGED <<globals, mutex, lock, ops, opened, harm>>

\* MUTANT of WaitMutex: a wait that times out counts as a success.
BugWaitMutex(t) ==
    /\ pc[t] = "wait"
    /\ \/ /\ owner \in {NoThread, t}
          /\ owner' = t
          /\ depth' = depth + 1
       \/ owner \notin {NoThread, t} /\ UNCHANGED mutex
    /\ Goto(t, "io1")
    /\ UNCHANGED <<globals, table, lock, ops, opened, guard, harm>>

\* The mutex is granted, or the five seconds pass while it is kept, or the
\* handle has been closed and the wait fails.
WaitMutex(t) ==
    /\ pc[t] = "wait"
    /\ \/ /\ owner \in {NoThread, t} /\ IsMutex(guard[t])
          /\ owner' = t
          /\ depth' = depth + 1
          /\ Goto(t, "io1")
       \/ /\ owner \notin {NoThread, t} \/ ~IsMutex(guard[t])
          /\ Goto(t, "timedout")
          /\ UNCHANGED mutex
    /\ UNCHANGED <<globals, table, lock, ops, opened, guard, harm>>

\* It closes the handle, if it can, and goes on without the mutex.
TimedOut(t) ==
    /\ pc[t] = "timedout"
    /\ IF k32 THEN table' = Closed(guard[t]) ELSE UNCHANGED table
    /\ guard' = Set(guard, t, None)
    /\ Goto(t, "io1")
    /\ UNCHANGED <<globals, mutex, lock, ops, opened, harm>>

\* Two of the accesses of a call.  _execute raises when _k32 is None, and
\* struct.error for a number that does not fit; a NULL or closed handle makes
\* the ioctl fail, which reads as zero.
Access(t) ==
    /\ pc[t] \in Io
    /\ \E raises \in BOOLEAN :
          Goto(t, IF ~k32 \/ raises \/ pc[t] = "io2"
                  THEN IF guard[t] = None THEN "unlock" ELSE "release"
                  ELSE "io2")
    /\ UNCHANGED <<globals, table, mutex, lock, ops, opened, guard, harm>>

\* MUTANT of ReleaseMutex: the guard only closes its handle.
BugReleaseMutex(t) ==
    /\ pc[t] = "release"
    /\ Goto(t, "unguard")
    /\ UNCHANGED <<globals, table, mutex, lock, ops, opened, guard, harm>>

\* release_pci_mutex does nothing without _k32, or a handle of the mutex.
ReleaseMutex(t) ==
    /\ pc[t] = "release"
    /\ IF k32 /\ owner = t /\ IsMutex(guard[t])
       THEN /\ owner' = IF depth = 1 THEN NoThread ELSE owner
            /\ depth' = depth - 1
       ELSE UNCHANGED mutex
    /\ Goto(t, "unguard")
    /\ UNCHANGED <<globals, table, lock, ops, opened, guard, harm>>

\* MUTANT of LeaveGuard: it releases the mutex once more.
BugLeaveGuard(t) ==
    /\ pc[t] = "unguard"
    /\ table' = Closed(guard[t])
    /\ guard' = Set(guard, t, None)
    /\ depth' = depth - 1
    /\ Goto(t, "unlock")
    /\ UNCHANGED <<globals, owner, lock, ops, opened, harm>>

\* close_pci_mutex neither.
LeaveGuard(t) ==
    /\ pc[t] = "unguard"
    /\ IF k32 THEN table' = Closed(guard[t]) ELSE UNCHANGED table
    /\ guard' = Set(guard, t, None)
    /\ Goto(t, "unlock")
    /\ UNCHANGED <<globals, mutex, lock, ops, opened, harm>>

Unlock(t) ==
    /\ pc[t] = "unlock"
    /\ lock' = NoThread
    /\ Goto(t, "idle")
    /\ UNCHANGED <<globals, table, mutex, ops, opened, guard, harm>>

-----------------------------------------------------------------------------
(* close()                                                                 *)

CloseCheck(t) ==
    /\ pc[t] = "close1"
    /\ Goto(t, IF handle # None /\ k32 THEN "close2" ELSE "close3")
    /\ UNCHANGED <<globals, table, mutex, lock, ops, opened, guard, harm>>

\* Both are read again; a _k32 gone meanwhile raises.
CloseDevice(t) ==
    /\ pc[t] = "close2"
    /\ IF k32 THEN table' = Closed(handle) /\ Goto(t, "close3")
              ELSE Goto(t, "idle") /\ UNCHANGED table
    /\ UNCHANGED <<globals, mutex, lock, ops, opened, guard, harm>>

CloseHandleNone(t) ==
    /\ pc[t] = "close3"
    /\ handle' = None
    /\ Goto(t, "close4")
    /\ UNCHANGED <<installed, info, k32, table, mutex, lock, ops, opened, guard, harm>>

CloseK32None(t) ==
    /\ pc[t] = "close4"
    /\ k32' = FALSE
    /\ info' = "unset"
    /\ Goto(t, "idle")
    /\ UNCHANGED <<installed, handle, table, mutex, lock, ops, opened, guard, harm>>

-----------------------------------------------------------------------------
Finished == /\ Idle /\ \A t \in Thread : ops[t] = MaxOps
            /\ UNCHANGED vars

Next == \/ Install \/ OtherTakes \/ OtherReleases \/ Finished
        \/ \E t \in Thread :
              \/ Start(t)
              \/ InitCheck(t) \/ InitInfo(t) \/ InitOpen(t) \/ InitLoad(t)
              \/ InitFailed(t) \/ InitSetHandle(t) \/ InitSetK32(t)
              \/ TakeLock(t) \/ CreateMutex(t) \/ WaitMutex(t) \/ TimedOut(t)
              \/ Access(t) \/ ReleaseMutex(t) \/ LeaveGuard(t) \/ Unlock(t)
              \/ CloseCheck(t) \/ CloseDevice(t)
              \/ CloseHandleNone(t) \/ CloseK32None(t)

Spec == Init /\ [][Next]_vars

-----------------------------------------------------------------------------
(* Properties.                                                             *)

\* Nobody accesses the hardware through a handle that is gone or names
\* something else: _execute would return zeros, or raise inside the guard.
\* This withstands two init() calls at once, both of which may load the
\* module, but no close() during another operation.
IoOnDevice ==
    "cut" \notin harm =>
       \A t \in Thread : pc[t] \in Io =>
          k32 /\ handle # None /\ table[handle] = "device"

\* A call leaves the mutex as it found it: a thread that has left the guard
\* does not own Global\Access_PCI.  This withstands accesses that raise, waits
\* that time out or fail and two init() calls at once.  It does not withstand
\* a close() during a call, which takes _k32 away from release_pci_mutex.
MutexReturned ==
    "cut" \notin harm =>
       \A t \in Thread : owner = t => pc[t] \in Io \cup {"release"}

\* pci_mutex_guard got the mutex when it returned a handle: no other
\* program owns it while the call is at the hardware, whatever close() and
\* init() do meanwhile.
GuardMeansOwner ==
    \A t \in Thread : pc[t] \in Io /\ guard[t] # None => owner = t

\* "smu.close() releases whatever the active backend is holding" (CHANGELOG
\* 0.6.0): with nobody in an operation and the backend gone, nothing is
\* open, and no thread owns the mutex.  It withstands neither a close() during
\* another operation nor two init() calls at once.
CloseReleases ==
    harm = {} /\ Idle /\ handle = None =>
       /\ \A n \in Handle : table[n] = "free"
       /\ owner \notin Thread

=============================================================================
