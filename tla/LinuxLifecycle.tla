--------------------------- MODULE LinuxLifecycle ---------------------------
(***************************************************************************)
(* zenmaster/linux.py inside one process: init(), the calls, and close(),  *)
(* made by several threads.  init() and close() do not take _lock, and the *)
(* calls check _backend and choose their access functions before they take *)
(* it.                                                                     *)
(*                                                                         *)
(* Files are numbers of the process's descriptor table, handed out lowest  *)
(* first, so that a number kept too long may name another file.  Waiting   *)
(* for the lock file is LinuxMailbox's business; here it is just opened.   *)
(*                                                                         *)
(* Nothing keeps close() out of a call, or out of another close().  harm   *)
(* remembers what has happened so far, and each property says what it      *)
(* withstands.                                                             *)
(***************************************************************************)
EXTENDS Integers

CONSTANTS
    Thread,
    NoThread,
    NFd,            \* bound: size of the descriptor table
    MaxOps          \* bound: operations of one thread

ASSUME ThreadAssumption == NoThread \notin Thread
ASSUME SizeAssumption   == NFd \in Nat /\ MaxOps \in Nat

VARIABLES
    SecureBoot, \* as secure_boot_enabled() reports it: it does not change
    driver,     \* the ryzen_smu module is loaded, and recent enough
    backend,    \* _backend
    fd,         \* _fd
    table,      \* what each descriptor names
    lock,       \* the thread holding _lock
    pc, ops,
    prims,      \* the file the access functions chosen by a call are for
    myfd,       \* the descriptor a call works with
    guardfd,    \* the descriptor of the lock file a call opened
    harm        \* history: how close() has met the other operations

\*  cut    close() overlapped another operation
\*  twice  close() overlapped another close()
Harm == {"cut", "twice"}

machine == <<SecureBoot, driver>>
local == <<pc, ops, prims, myfd, guardfd>>
vars  == <<machine, backend, fd, table, lock, local, harm>>

Fd   == 1..NFd
NoFd == 0
None == "None"
Device == {"smn", "config"}

Io == {"io1", "io2"}
Labels == {"idle", "init", "probe", "probed", "ready",
           "prims", "lock", "guard", "getfd", "openfd", "retfd",
           "unguard", "unlock", "close1", "close2", "close3", "close4"} \cup Io

TypeOK ==
    /\ SecureBoot \in BOOLEAN
    /\ driver \in BOOLEAN
    /\ backend \in {None, "pci", "ryzen_smu"}
    /\ fd \in Fd \cup {NoFd}
    /\ table \in [Fd -> {"free", "lockfile"} \cup Device]
    /\ lock \in Thread \cup {NoThread}
    /\ pc \in [Thread -> Labels]
    /\ ops \in [Thread -> 0..MaxOps]
    /\ prims \in [Thread -> {None} \cup Device]
    /\ myfd \in [Thread -> Fd \cup {NoFd}]
    /\ guardfd \in [Thread -> Fd \cup {NoFd}]
    /\ harm \subseteq Harm

Init ==
    /\ SecureBoot \in BOOLEAN
    /\ driver \in BOOLEAN
    /\ backend = None
    /\ fd = NoFd
    /\ table = [n \in Fd |-> "free"]
    /\ lock = NoThread
    /\ pc = [t \in Thread |-> "idle"]
    /\ ops = [t \in Thread |-> 0]
    /\ prims = [t \in Thread |-> None]
    /\ myfd = [t \in Thread |-> NoFd]
    /\ guardfd = [t \in Thread |-> NoFd]
    /\ harm = {}

-----------------------------------------------------------------------------
Goto(t, label) == pc' = [pc EXCEPT ![t] = label]
Set(f, t, v)   == [f EXCEPT ![t] = v]

Room   == \E n \in Fd : table[n] = "free"
Lowest == CHOOSE n \in Fd : table[n] = "free" /\ \A i \in Fd : i < n => table[i] # "free"

\* os.open: the lowest free number names the file.
Opened(what)   == [table EXCEPT ![Lowest] = what]
\* os.close: frees the number, whatever it names; a free one raises an
\* OSError, which all callers here swallow.
Closed(n)      == [table EXCEPT ![n] = "free"]

\* The module can be loaded (or replaced by a recent one) at any time.
LoadDriver ==
    /\ ~driver
    /\ driver' = TRUE
    /\ UNCHANGED <<SecureBoot, backend, fd, table, lock, local, harm>>

Closing(t) == pc[t] \in {"close1", "close2", "close3", "close4"}

\* How an operation that starts meets those under way.
Met(t, op) ==
    LET others  == Thread \ {t}
        closing == \E u \in others : Closing(u)
        any     == \E u \in others : pc[u] # "idle"
    IN  (IF closing \/ (op = "close1" /\ any) THEN {"cut"} ELSE {})
          \cup (IF closing /\ op = "close1" THEN {"twice"} ELSE {})

\* A thread starts init(), a call, or close().  _require_init turns a call
\* away when there is no backend.
Start(t) ==
    /\ pc[t] = "idle"
    /\ ops[t] < MaxOps
    /\ ops' = Set(ops, t, ops[t] + 1)
    /\ \E op \in {"init", "prims", "close1"} :
          /\ IF op = "prims" /\ backend = None THEN UNCHANGED pc ELSE Goto(t, op)
          /\ harm' = harm \cup Met(t, op)
    /\ UNCHANGED <<machine, backend, fd, table, lock, prims, myfd, guardfd>>

-----------------------------------------------------------------------------
(* init()                                                                  *)

\* The backend follows Secure Boot.  Without a usable module init() raises
\* BackendUnavailable.
InitCheck(t) ==
    /\ pc[t] = "init"
    /\ Goto(t, IF backend # None THEN "idle"
               ELSE IF ~SecureBoot THEN "probe"
               ELSE IF driver THEN "ready" ELSE "idle")
    /\ UNCHANGED <<machine, backend, fd, table, lock, ops, prims, myfd, guardfd, harm>>

\* _pci_writable enters the guard, and opens the configuration space.
InitProbe(t) ==
    /\ pc[t] = "probe" /\ Room
    /\ IF guardfd[t] = NoFd
       THEN /\ guardfd' = Set(guardfd, t, Lowest)
            /\ table' = Opened("lockfile")
            /\ UNCHANGED <<pc, myfd>>
       ELSE /\ myfd' = Set(myfd, t, Lowest)
            /\ table' = Opened("config")
            /\ Goto(t, "probed")
            /\ UNCHANGED guardfd
    /\ UNCHANGED <<machine, backend, fd, lock, ops, prims, harm>>

\* It closes both, and tells whether what it wrote could be read back.
InitProbed(t) ==
    /\ pc[t] = "probed"
    /\ IF myfd[t] # NoFd
       THEN /\ table' = Closed(myfd[t])
            /\ myfd' = Set(myfd, t, NoFd)
            /\ UNCHANGED <<pc, guardfd>>
       ELSE /\ table' = Closed(guardfd[t])
            /\ guardfd' = Set(guardfd, t, NoFd)
            /\ \E writable \in BOOLEAN : Goto(t, IF writable THEN "ready" ELSE "idle")
            /\ UNCHANGED myfd
    /\ UNCHANGED <<machine, backend, fd, lock, ops, prims, harm>>

InitSet(t) ==
    /\ pc[t] = "ready"
    /\ backend' = IF SecureBoot THEN "ryzen_smu" ELSE "pci"
    /\ Goto(t, "idle")
    /\ UNCHANGED <<machine, fd, table, lock, ops, prims, myfd, guardfd, harm>>

-----------------------------------------------------------------------------
(* A call: _send, _query, read_smn, write_smn, smu_command.                *)

\* _io_primitives: anything but "ryzen_smu" means PCI.
ChoosePrims(t) ==
    /\ pc[t] = "prims"
    /\ prims' = Set(prims, t, IF backend = "ryzen_smu" THEN "smn" ELSE "config")
    /\ Goto(t, "lock")
    /\ UNCHANGED <<machine, backend, fd, table, lock, ops, myfd, guardfd, harm>>

TakeLock(t) ==
    /\ pc[t] = "lock"
    /\ lock = NoThread
    /\ lock' = t
    /\ Goto(t, "guard")
    /\ UNCHANGED <<machine, backend, fd, table, ops, prims, myfd, guardfd, harm>>

EnterGuard(t) ==
    /\ pc[t] = "guard" /\ Room
    /\ guardfd' = Set(guardfd, t, Lowest)
    /\ table' = Opened("lockfile")
    /\ Goto(t, "getfd")
    /\ UNCHANGED <<machine, backend, fd, lock, ops, prims, myfd, harm>>

\* _get_fd: the path only counts when nothing is cached.
CheckFd(t) ==
    /\ pc[t] = "getfd"
    /\ Goto(t, IF fd = NoFd THEN "openfd" ELSE "retfd")
    /\ UNCHANGED <<machine, backend, fd, table, lock, ops, prims, myfd, guardfd, harm>>

OpenFd(t) ==
    /\ pc[t] = "openfd" /\ Room
    /\ fd' = Lowest
    /\ table' = Opened(prims[t])
    /\ Goto(t, "retfd")
    /\ UNCHANGED <<machine, backend, lock, ops, prims, myfd, guardfd, harm>>

ReturnFd(t) ==
    /\ pc[t] = "retfd"
    /\ myfd' = Set(myfd, t, fd)
    /\ Goto(t, "io1")
    /\ UNCHANGED <<machine, backend, fd, table, lock, ops, prims, guardfd, harm>>

\* Two of the accesses of a call.  A descriptor that is None or closed
\* raises, and the call unwinds.
Access(t) ==
    /\ pc[t] \in Io
    /\ Goto(t, IF myfd[t] = NoFd \/ pc[t] = "io2" THEN "unguard"
               ELSE IF table[myfd[t]] = "free" THEN "unguard" ELSE "io2")
    /\ UNCHANGED <<machine, backend, fd, table, lock, ops, prims, myfd, guardfd, harm>>

\* MUTANT of LeaveGuard: the lock file is closed twice.
BugLeaveGuard(t) ==
    /\ pc[t] = "unguard"
    /\ table' = Closed(guardfd[t])
    /\ IF table[guardfd[t]] = "lockfile"
       THEN UNCHANGED <<guardfd, pc>>
       ELSE guardfd' = Set(guardfd, t, NoFd) /\ Goto(t, "unlock")
    /\ myfd' = Set(myfd, t, NoFd)
    /\ prims' = Set(prims, t, None)
    /\ UNCHANGED <<machine, backend, fd, lock, ops, harm>>

LeaveGuard(t) ==
    /\ pc[t] = "unguard"
    /\ table' = Closed(guardfd[t])
    /\ guardfd' = Set(guardfd, t, NoFd)
    /\ myfd' = Set(myfd, t, NoFd)
    /\ prims' = Set(prims, t, None)
    /\ Goto(t, "unlock")
    /\ UNCHANGED <<machine, backend, fd, lock, ops, harm>>

Unlock(t) ==
    /\ pc[t] = "unlock"
    /\ lock' = NoThread
    /\ Goto(t, "idle")
    /\ UNCHANGED <<machine, backend, fd, table, ops, prims, myfd, guardfd, harm>>

-----------------------------------------------------------------------------
(* close()                                                                 *)

\* MUTANT of CloseCheck: the descriptor is not closed.
BugCloseCheck(t) ==
    /\ pc[t] = "close1"
    /\ Goto(t, "close4")
    /\ UNCHANGED <<machine, backend, fd, table, lock, ops, prims, myfd, guardfd, harm>>

CloseCheck(t) ==
    /\ pc[t] = "close1"
    /\ Goto(t, IF fd # NoFd THEN "close2" ELSE "close4")
    /\ UNCHANGED <<machine, backend, fd, table, lock, ops, prims, myfd, guardfd, harm>>

\* os.close(_fd) reads _fd again; os.close(None) raises a TypeError, which
\* is not swallowed.
CloseFd(t) ==
    /\ pc[t] = "close2"
    /\ IF fd = NoFd
       THEN Goto(t, "idle") /\ UNCHANGED table
       ELSE Goto(t, "close3") /\ table' = Closed(fd)
    /\ UNCHANGED <<machine, backend, fd, lock, ops, prims, myfd, guardfd, harm>>

\* MUTANT of CloseForget: _fd keeps the closed number.
BugCloseForget(t) ==
    /\ pc[t] = "close3"
    /\ Goto(t, "close4")
    /\ UNCHANGED <<machine, backend, fd, table, lock, ops, prims, myfd, guardfd, harm>>

CloseForget(t) ==
    /\ pc[t] = "close3"
    /\ fd' = NoFd
    /\ Goto(t, "close4")
    /\ UNCHANGED <<machine, backend, table, lock, ops, prims, myfd, guardfd, harm>>

\* MUTANT of CloseReset: the backend is reset to nothing it can be.
BugCloseReset(t) ==
    /\ pc[t] = "close4"
    /\ backend' = "closed"
    /\ Goto(t, "idle")
    /\ UNCHANGED <<machine, fd, table, lock, ops, prims, myfd, guardfd, harm>>

CloseReset(t) ==
    /\ pc[t] = "close4"
    /\ backend' = None
    /\ Goto(t, "idle")
    /\ UNCHANGED <<machine, fd, table, lock, ops, prims, myfd, guardfd, harm>>

-----------------------------------------------------------------------------
Finished == /\ \A t \in Thread : pc[t] = "idle" /\ ops[t] = MaxOps
            /\ driver
            /\ UNCHANGED vars

Next == \/ LoadDriver
        \/ Finished
        \/ \E t \in Thread :
              \/ Start(t)
              \/ InitCheck(t) \/ InitProbe(t) \/ InitProbed(t) \/ InitSet(t)
              \/ ChoosePrims(t) \/ TakeLock(t) \/ EnterGuard(t)
              \/ CheckFd(t) \/ OpenFd(t) \/ ReturnFd(t) \/ Access(t)
              \/ LeaveGuard(t) \/ Unlock(t)
              \/ CloseCheck(t) \/ CloseFd(t) \/ CloseForget(t) \/ CloseReset(t)

Spec == Init /\ [][Next]_vars

-----------------------------------------------------------------------------
(* Properties.                                                             *)

\* An access reaches the device its access function was written for: the
\* descriptor is open, and names the right file (_get_fd ignores its path
\* once something is cached).  It does not withstand a close() during a
\* call.
RightDevice ==
    "cut" \notin harm =>
       \A t \in Thread : pc[t] \in Io =>
          myfd[t] # NoFd /\ table[myfd[t]] = prims[t]

\* "smu.close() releases whatever the active backend is holding" (CHANGELOG
\* 0.6.0): once nobody is in a call and the backend is gone, no device is
\* open.  It does not withstand a close() during a call.
CloseReleases ==
    "cut" \notin harm /\ backend = None /\ (\A t \in Thread : pc[t] = "idle") =>
       \A n \in Fd : table[n] \notin Device

\* Nobody closes the lock file another thread holds open, which would drop
\* its lock.  This withstands a close() at any point of the calls and of
\* init(): the numbers it and they keep too long are read and written, but
\* not closed again.  Only two close() calls at once close one number twice.
GuardKept ==
    "twice" \notin harm =>
       \A t \in Thread : guardfd[t] # NoFd => table[guardfd[t]] = "lockfile"

=============================================================================
