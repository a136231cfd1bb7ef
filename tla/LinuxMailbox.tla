---------------------------- MODULE LinuxMailbox ----------------------------
(***************************************************************************)
(* zenmaster/linux.py: how the threads of several processes share the SMN  *)
(* bus.  A call takes the process's _lock, then the lock file shared with  *)
(* other programs (pci_mutex_guard), runs its register accesses one half   *)
(* step at a time, and lets both locks go.                                 *)
(*                                                                         *)
(* The guard may be entered WITHOUT the lock file: when neither path can   *)
(* be opened, and when another program keeps it for five seconds.  What    *)
(* the environment can do is chosen by the constant Faults.                *)
(*                                                                         *)
(* A definition named Bug... is a plausible mistake in the definition that *)
(* follows it; it is part of no specification.                             *)
(***************************************************************************)
EXTENDS SmnBus, Sequences

CONSTANTS
    Process,    \* the processes
    ProcOf,     \* the process of each thread
    MaxCalls,   \* bound: calls made by one thread
    Faults      \* what may go wrong, see AllFaults

\*  giveup    a lock file stays taken for _PCI_MUTEX_TIMEOUT_MS
\*  fallback  /run/lock cannot be opened, the file under /tmp can
\*  nofile    neither lock file can be opened
\*  slow      the SMU takes longer than _DEADLINE to answer
\*  raise     an access raises OSError, or the user interrupts the call
\*  crash     a process is killed, and started again
AllFaults == {"giveup", "fallback", "nofile", "slow", "raise", "crash"}

ASSUME ProcAssumption    == ProcOf \in [Thread -> Process]
ASSUME BoundAssumption   == MaxCalls \in Nat
ASSUME FaultsAssumption  == Faults \subseteq AllFaults

VARIABLES
    pc,         \* where each thread is
    req,        \* the call each thread is making
    calls,      \* how many calls each thread has made
    step,       \* the next register of the sequence being written or read
    late,       \* the deadline of the loop the thread is in has passed
    file,       \* the lock file the thread opened, and still holds open
    lock,       \* the thread holding _lock, per process
    flock,      \* the thread holding each lock file
    got         \* the words the call has read, what it returns in the end

threadVars == <<pc, req, calls, step, late, file, got>>
vars == <<busVars, threadVars, lock, flock>>

LockFile == {"/run/lock", "/tmp"}
NoFile   == "none"

MyJob(t) == [thread |-> t, n |-> calls[t]]

\* Inside pci_mutex_guard, between its entry and its exit.
Access   == {"write", "writeData", "poll", "pollData",
             "fetch", "fetchData", "probe", "probeData"}
Guarded  == Access \cup {"unlock"}
HasLock(t) == /\ pc[t] \in {"open", "flock", "unlocked"} \cup Guarded
              /\ req[t].kind # "probe"
DataHalf == {"writeData", "pollData", "fetchData", "probeData"}

Status == {Failed, Raised, Probed}

TypeOK ==
    /\ BusTypeOK
    /\ pc \in [Thread -> {"idle", "lock", "open", "flock", "unlocked"} \cup Guarded]
    /\ req \in [Thread -> Request \cup {NoRequest}]
    /\ \A t \in Thread : pc[t] # "idle" => req[t] \in Request
    /\ calls \in [Thread -> Nat]
    /\ step \in [Thread -> 0..NARGS+1]
    /\ late \in [Thread -> BOOLEAN]
    /\ file \in [Thread -> LockFile \cup {NoFile}]
    /\ lock \in [Process -> Thread \cup {NoThread}]
    /\ flock \in [LockFile -> Thread \cup {NoThread}]
    /\ got \in [Thread -> Seq(Value \cup Status)]

Init ==
    /\ BusInit
    /\ pc = [t \in Thread |-> "idle"]
    /\ req = [t \in Thread |-> NoRequest]
    /\ calls = [t \in Thread |-> 0]
    /\ step = [t \in Thread |-> 0]
    /\ late = [t \in Thread |-> FALSE]
    /\ file = [t \in Thread |-> NoFile]
    /\ lock = [p \in Process |-> NoThread]
    /\ flock = [f \in LockFile |-> NoThread]
    /\ got = [t \in Thread |-> <<>>]

-----------------------------------------------------------------------------
(* The register sequence of a call (_send_seq and its callers): the        *)
(* response is cleared, the arguments filled, the message written.         *)

FirstPc(q) == IF q.kind = "probe" THEN "probe"
              ELSE IF q.kind = "read" THEN "fetch" ELSE "write"

BugLastWrite(q) == IF q.kind = "write" THEN 0 ELSE NARGS + 2
LastWrite(q) == IF q.kind = "write" THEN 0 ELSE NARGS + 1
BugLastFetch(q) == IF q.kind = "read"  THEN 0 ELSE NARGS - 2
LastFetch(q) == IF q.kind = "read"  THEN 0 ELSE NARGS - 1

\* The response of the previous command is not cleared.
BugWriteTarget(q, k) == IF q.kind = "write" THEN Smn(q.word)
                        ELSE IF k <= NARGS THEN Arg(q.box, IF k = 0 THEN 0 ELSE k-1)
                        ELSE Msg(q.box)

WriteTarget(q, k) == IF q.kind = "write" THEN Smn(q.word)
                     ELSE IF k = 0 THEN Rsp(q.box)
                     ELSE IF k <= NARGS THEN Arg(q.box, k-1)
                     ELSE Msg(q.box)

\* The unused arguments keep what the previous command left in them.
BugWriteValue(t) == IF req[t].kind = "write" THEN DataOf(MyJob(t))
                    ELSE IF step[t] = 0 THEN Zero
                    ELSE IF step[t] = 1 THEN ArgOf(MyJob(t))
                    ELSE IF step[t] = NARGS + 1 THEN OpOf(MyJob(t))
                    ELSE reg[WriteTarget(req[t], step[t])]

WriteValue(t) == IF req[t].kind = "write" THEN DataOf(MyJob(t))
                 ELSE IF step[t] = 1 THEN ArgOf(MyJob(t))
                 ELSE IF step[t] = NARGS + 1 THEN OpOf(MyJob(t))
                 ELSE Zero

FetchTarget(q, k) == IF q.kind = "read" THEN Smn(q.word) ELSE Arg(q.box, k)

\* The register the thread's next access is meant for.
Target(t) == IF pc[t] \in {"write", "writeData"} THEN WriteTarget(req[t], step[t])
             ELSE IF pc[t] \in {"poll", "pollData"} THEN Rsp(req[t].box)
             ELSE IF pc[t] \in {"fetch", "fetchData"} THEN FetchTarget(req[t], step[t])
             ELSE Smn(ProbeWord)

Goto(t, label) == pc' = [pc EXCEPT ![t] = label]

-----------------------------------------------------------------------------
(* The locks.                                                              *)

\* _pci_writable probes the bus without the guard.
BugCall(t) ==
    /\ pc[t] = "idle"
    /\ calls[t] < MaxCalls
    /\ \E q \in Request :
          /\ req' = [req EXCEPT ![t] = q]
          /\ Goto(t, IF q.kind = "probe" THEN "probe" ELSE "lock")
    /\ calls' = [calls EXCEPT ![t] = @ + 1]
    /\ UNCHANGED <<busVars, step, late, file, got, lock, flock>>

\* Entry of _send, _query, read_smn, write_smn and smu_command, and of the
\* _pci_writable of a concurrent init(), which does not take _lock.
Call(t) ==
    /\ pc[t] = "idle"
    /\ calls[t] < MaxCalls
    /\ \E q \in Request :
          /\ req' = [req EXCEPT ![t] = q]
          /\ Goto(t, IF q.kind = "probe" THEN "open" ELSE "lock")
    /\ calls' = [calls EXCEPT ![t] = @ + 1]
    /\ UNCHANGED <<busVars, step, late, file, got, lock, flock>>

\* _lock excludes nobody.
BugTakeLock(t) ==
    /\ pc[t] = "lock"
    /\ lock' = [lock EXCEPT ![ProcOf[t]] = t]
    /\ Goto(t, "open")
    /\ UNCHANGED <<busVars, req, calls, step, late, file, got, flock>>

TakeLock(t) ==
    /\ pc[t] = "lock"
    /\ lock[ProcOf[t]] = NoThread
    /\ lock' = [lock EXCEPT ![ProcOf[t]] = t]
    /\ Goto(t, "open")
    /\ UNCHANGED <<busVars, req, calls, step, late, file, got, flock>>

\* The programs do not agree on one lock file.
BugOpenFile(t) ==
    /\ pc[t] = "open"
    /\ \E f \in LockFile : file' = [file EXCEPT ![t] = f]
    /\ Goto(t, "flock")
    /\ UNCHANGED <<busVars, req, calls, step, late, got, lock, flock>>

\* acquire_pci_mutex opens the file under /run/lock, or the one under /tmp.
OpenFile(t) ==
    /\ pc[t] = "open"
    /\ \E f \in LockFile :
          /\ f = "/tmp" => "fallback" \in Faults
          /\ file' = [file EXCEPT ![t] = f]
    /\ Goto(t, "flock")
    /\ UNCHANGED <<busVars, req, calls, step, late, got, lock, flock>>

\* Neither can be opened: acquire_pci_mutex returns None and the guard
\* carries on.
OpenFails(t) ==
    /\ pc[t] = "open"
    /\ "nofile" \in Faults
    /\ Goto(t, FirstPc(req[t]))
    /\ UNCHANGED <<busVars, req, calls, step, late, file, got, lock, flock>>

\* The failure of flock is ignored.
TakeFlock(t) ==
    /\ pc[t] = "flock"
    /\ flock[file[t]] = NoThread
    /\ flock' = [flock EXCEPT ![file[t]] = t]
    /\ late' = [late EXCEPT ![t] = FALSE]
    /\ Goto(t, FirstPc(req[t]))
    /\ UNCHANGED <<busVars, req, calls, step, file, got, lock>>

\* The handle is returned although the lock was not taken.
BugGiveUp(t) ==
    /\ pc[t] = "flock"
    /\ late[t]
    /\ flock[file[t]] # NoThread
    /\ late' = [late EXCEPT ![t] = FALSE]
    /\ Goto(t, FirstPc(req[t]))
    /\ UNCHANGED <<busVars, req, calls, step, file, got, lock, flock>>

\* The lock is still taken after the deadline: the file is closed, None is
\* returned, and the guard carries on.
GiveUp(t) ==
    /\ pc[t] = "flock"
    /\ late[t]
    /\ flock[file[t]] # NoThread
    /\ file' = [file EXCEPT ![t] = NoFile]
    /\ late' = [late EXCEPT ![t] = FALSE]
    /\ Goto(t, FirstPc(req[t]))
    /\ UNCHANGED <<busVars, req, calls, step, got, lock, flock>>

\* The exit of the guard: flock(LOCK_UN) and close, if there is a handle.
Unlock(t) ==
    /\ pc[t] = "unlock"
    /\ flock' = [f \in LockFile |-> IF f = file[t] THEN NoThread ELSE flock[f]]
    /\ file' = [file EXCEPT ![t] = NoFile]
    /\ Goto(t, "unlocked")
    /\ UNCHANGED <<busVars, req, calls, step, late, got, lock>>

Return(t) ==
    /\ pc[t] = "unlocked"
    /\ lock' = IF req[t].kind = "probe" THEN lock
               ELSE [lock EXCEPT ![ProcOf[t]] = NoThread]
    /\ Goto(t, "idle")
    /\ req' = [req EXCEPT ![t] = NoRequest]
    /\ step' = [step EXCEPT ![t] = 0]
    /\ got' = [got EXCEPT ![t] = <<>>]
    /\ UNCHANGED <<busVars, calls, late, file, flock>>

-----------------------------------------------------------------------------
(* The accesses.                                                           *)

DataPc == [write |-> "writeData", poll |-> "pollData",
           fetch |-> "fetchData", probe |-> "probeData"]

\* The address half: _pci_read and _pci_write set NB_ADDR, _smn_read hands
\* the address to the driver.  _smn_write has no such half.  The poll loop
\* looks at its deadline before it reads again.
SetAddress(t) ==
    /\ pc[t] \in Access \ DataHalf
    /\ pc[t] = "write" => Backend = "pci"
    /\ pc[t] = "poll" => ~late[t]
    /\ WriteIndex(Target(t))
    /\ Goto(t, DataPc[pc[t]])
    /\ UNCHANGED <<req, calls, step, late, file, got, lock, flock>>

\* The data half of a write goes wherever the index register points; the
\* driver of ryzen_smu takes address and value in one call.
WriteData(t) ==
    /\ pc[t] = (IF Backend = "pci" THEN "writeData" ELSE "write")
    /\ WriteRegister(IF Backend = "pci" THEN index ELSE Target(t), WriteValue(t))
    /\ IF step[t] < LastWrite(req[t])
       THEN /\ step' = [step EXCEPT ![t] = @ + 1]
            /\ Goto(t, "write")
       ELSE /\ step' = [step EXCEPT ![t] = 0]
            /\ Goto(t, IF req[t].kind = "write" THEN "unlock" ELSE "poll")
    /\ UNCHANGED <<req, calls, late, file, got, lock, flock>>

\* _query reads the outputs back whatever the status is.
AfterStatus(t) == IF req[t].kind = "query" THEN "fetch" ELSE "unlock"

PollData(t) ==
    /\ pc[t] = "pollData"
    /\ IF reg[index] = Zero
       THEN /\ Goto(t, "poll")
            /\ UNCHANGED <<got, late>>
       ELSE /\ got' = [got EXCEPT ![t] = <<reg[index]>>]
            /\ late' = [late EXCEPT ![t] = FALSE]
            /\ Goto(t, AfterStatus(t))
    /\ UNCHANGED <<busVars, req, calls, step, file, lock, flock>>

\* The deadline starts again.
BugPollGiveUp(t) ==
    /\ pc[t] = "poll"
    /\ late[t]
    /\ late' = [late EXCEPT ![t] = FALSE]
    /\ UNCHANGED <<busVars, pc, req, calls, step, file, got, lock, flock>>

PollGiveUp(t) ==
    /\ pc[t] = "poll"
    /\ late[t]
    /\ got' = [got EXCEPT ![t] = <<Failed>>]
    /\ late' = [late EXCEPT ![t] = FALSE]
    /\ Goto(t, AfterStatus(t))
    /\ UNCHANGED <<busVars, req, calls, step, file, lock, flock>>

FetchData(t) ==
    /\ pc[t] = "fetchData"
    /\ got' = [got EXCEPT ![t] = Append(@, reg[index])]
    /\ IF step[t] < LastFetch(req[t])
       THEN /\ step' = [step EXCEPT ![t] = @ + 1]
            /\ Goto(t, "fetch")
       ELSE /\ Goto(t, "unlock")
            /\ UNCHANGED step
    /\ UNCHANGED <<busVars, req, calls, late, file, lock, flock>>

\* _pci_writable reads the index register back.
ProbeData(t) ==
    /\ pc[t] = "probeData"
    /\ got' = [got EXCEPT ![t] = <<IF index = Smn(ProbeWord) THEN Probed ELSE Failed>>]
    /\ Goto(t, "unlock")
    /\ UNCHANGED <<busVars, req, calls, step, late, file, lock, flock>>

-----------------------------------------------------------------------------
(* Time and faults.                                                        *)

\* The clock passes the deadline of the loop the thread is in.
Expire(t) ==
    /\ ~late[t]
    /\ \/ pc[t] = "flock" /\ "giveup" \in Faults
       \/ pc[t] \in {"poll", "pollData"} /\ "slow" \in Faults
    /\ late' = [late EXCEPT ![t] = TRUE]
    /\ UNCHANGED <<busVars, pc, req, calls, step, file, got, lock, flock>>

\* An exception leaves the sequence where it is; the finally clauses run.
Raise(t) ==
    /\ "raise" \in Faults
    /\ pc[t] \in Access
    /\ got' = [got EXCEPT ![t] = <<Raised>>]
    /\ late' = [late EXCEPT ![t] = FALSE]
    /\ Goto(t, "unlock")
    /\ UNCHANGED <<busVars, req, calls, step, file, lock, flock>>

\* The process dies: the kernel closes its files, which drops its lock
\* files.  A new process starts with its own _lock.
Crash(p) ==
    /\ "crash" \in Faults
    /\ LET dead == {t \in Thread : ProcOf[t] = p} IN
       /\ \E t \in dead : pc[t] # "idle"
       /\ pc' = [t \in Thread |-> IF t \in dead THEN "idle" ELSE pc[t]]
       /\ req' = [t \in Thread |-> IF t \in dead THEN NoRequest ELSE req[t]]
       /\ step' = [t \in Thread |-> IF t \in dead THEN 0 ELSE step[t]]
       /\ late' = [t \in Thread |-> late[t] /\ t \notin dead]
       /\ file' = [t \in Thread |-> IF t \in dead THEN NoFile ELSE file[t]]
       /\ got' = [t \in Thread |-> IF t \in dead THEN <<>> ELSE got[t]]
       /\ flock' = [f \in LockFile |-> IF flock[f] \in dead THEN NoThread ELSE flock[f]]
    /\ lock' = [lock EXCEPT ![p] = NoThread]
    /\ UNCHANGED <<busVars, calls>>

Answer(m) == Firmware(m) /\ UNCHANGED <<threadVars, lock, flock>>

-----------------------------------------------------------------------------
\* All calls the bound allows are made and have returned.
Finished == /\ \A t \in Thread : pc[t] = "idle" /\ calls[t] = MaxCalls
            /\ UNCHANGED vars

ThreadStep(t) ==
    \/ Call(t) \/ TakeLock(t) \/ OpenFile(t) \/ OpenFails(t)
    \/ TakeFlock(t) \/ GiveUp(t)
    \/ SetAddress(t) \/ WriteData(t) \/ PollData(t) \/ PollGiveUp(t)
    \/ FetchData(t) \/ ProbeData(t)
    \/ Expire(t) \/ Raise(t)
    \/ Unlock(t) \/ Return(t)

Next == \/ \E t \in Thread : ThreadStep(t)
        \/ \E p \in Process : Crash(p)
        \/ \E m \in Mailbox : Answer(m)
        \/ Finished

Spec == Init /\ [][Next]_vars

\* A thread keeps running, and its clock keeps ticking; nothing obliges it
\* to call or to fail.  An SMU that is not slow answers.
Progress(t) == \/ TakeLock(t) \/ OpenFile(t) \/ TakeFlock(t) \/ GiveUp(t)
               \/ SetAddress(t) \/ WriteData(t) \/ PollData(t) \/ PollGiveUp(t)
               \/ FetchData(t) \/ ProbeData(t) \/ Unlock(t) \/ Return(t)

Fairness == /\ \A t \in Thread : WF_vars(Progress(t)) /\ WF_vars(Expire(t))
            /\ "slow" \notin Faults => \A m \in Mailbox : WF_vars(Answer(m))

FairSpec == Spec /\ Fairness

-----------------------------------------------------------------------------
(* Properties.                                                             *)

\* The register sequence never runs past its last register.
StepOK ==
    \A t \in Thread :
       /\ pc[t] \in {"write", "writeData"} => step[t] <= LastWrite(req[t])
       /\ pc[t] \in {"fetch", "fetchData"} => step[t] <= LastFetch(req[t])
       /\ pc[t] \in {"idle", "lock", "open", "flock", "poll", "pollData"} => step[t] = 0

\* Locks are neither lost nor kept: who goes on with a lock file it opened
\* owns its lock, and who owns a lock is inside the guard (or about to
\* leave), whatever fails on the way (acquire_pci_mutex, pci_mutex_guard).
LocksReturned ==
    /\ \A t \in Thread : pc[t] \in Guarded /\ file[t] # NoFile => flock[file[t]] = t
    /\ \A f \in LockFile, t \in Thread :
          flock[f] = t => pc[t] \in Guarded /\ file[t] = f
    /\ \A p \in Process, t \in Thread :
          lock[p] = t => HasLock(t) /\ ProcOf[t] = p

\* What losing the lock file costs.  Two threads are on the bus together only
\* if they hold no lock file in common, because one got none or they opened
\* different ones; and even then no two of them are in register sequences
\* of one process, which _lock keeps apart: one of the two is the probe of
\* an init(), which takes no _lock, or belongs to another process.
SharedOnlyUnguarded ==
    \A t, u \in Thread :
       pc[t] \in Access /\ pc[u] \in Access /\ t # u =>
          /\ file[t] = NoFile \/ file[u] = NoFile \/ file[t] # file[u]
          /\ ProcOf[t] # ProcOf[u] \/ req[t].kind = "probe" \/ req[u].kind = "probe"

\* "Uses named system mutexes to serialize SMN bus access across concurrent
\* processes and daemons" (README): one user of the bus at a time.
BusExclusion ==
    \A t, u \in Thread : pc[t] \in Access /\ pc[u] \in Access => t = u

\* Between the two halves of an access nobody moves the index register: no
\* word is read from, or written to, a register it was not meant for.
AddressIntegrity ==
    \A t \in Thread : pc[t] \in DataHalf => index = Target(t)

\* What a call ought to return: the status the SMU gave to this very
\* command, its outputs, the word at the address.
IsAnswer(t, words) ==
    /\ req[t].kind \in Commands => words = CommandAnswer(req[t].kind, MyJob(t))
    /\ req[t].kind = "read"  => Len(words) = 1 /\ words[1].what \in {"zero", "data"}
    /\ req[t].kind = "probe" => words = <<Probed>>
    /\ req[t].kind = "write" => words = <<>>

\* A call returns its own answer: never the late answer of a command
\* somebody else gave up on, never words of another register.
OwnAnswer ==
    \A t \in Thread : pc[t] = "unlocked" => IsAnswer(t, got[t])

\* The SMU executes commands with the arguments they were sent with, as long
\* as it answers in time: a command given up on may still be executed, and
\* then meets the arguments of the call that came next.
CommandsIntact ==
    \A e \in executed : /\ e.cmd.what = "op"
                        /\ e.args = ArgumentsOf(e.cmd.job)

\* Every call returns: the waits for the lock file and for the SMU are
\* bounded by deadlines, and everybody lets the locks go.
EveryCallReturns ==
    \A t \in Thread : pc[t] # "idle" ~> pc[t] = "idle"

-----------------------------------------------------------------------------
(* The service the module implements: see SmuService.                      *)

\* The call has had its effect.
Served(t) == IF req[t].kind \in Commands
             THEN \E e \in executed : e.cmd = OpOf(MyJob(t))
             ELSE pc[t] \in {"unlock", "unlocked"}

ServicePhase == [t \in Thread |-> IF pc[t] = "idle" THEN "idle"
                                  ELSE IF Served(t) THEN "served" ELSE "called"]

ServiceReply == [t \in Thread |->
    IF pc[t] \in {"unlock", "unlocked"} THEN got[t]
    ELSE IF pc[t] # "idle" /\ Served(t) THEN CommandAnswer(req[t].kind, MyJob(t))
    ELSE <<>>]

Service == INSTANCE SmuService WITH
    phase <- ServicePhase,
    reply <- ServiceReply,
    mem   <- [w \in Word |-> reg[Smn(w)]]

\* Whatever the interleaving, the threads of all processes see a service
\* that executes each call at once, with its own arguments, and answers it.
ImplementsService == Service!Spec

=============================================================================
