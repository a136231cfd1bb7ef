-------------------------------- MODULE MacOs --------------------------------
(***************************************************************************)
(* zenmaster/macos.py: the SMN bus behind a second index/data pair.  The   *)
(* SMN pair lies in two PCI configuration registers, NB_ADDR (B8) and      *)
(* NB_DATA (BC).  Through DirectHW a configuration register is itself      *)
(* reached by a pair of I/O ports: its number goes to PCI_ADDR (CF8), then *)
(* PCI_DATA (CFC) is written or read, so that an SMN access takes four     *)
(* steps.  Through IOPCIBridge a configuration access is one call, and an  *)
(* SMN access takes two.                                                   *)
(*                                                                         *)
(* Nothing is checked on the way: a write that IOKit refuses is dropped, a *)
(* read that it refuses is 0, and so is every access of a connection that  *)
(* close() has closed.  harm remembers what has gone wrong so far, and     *)
(* each property says what it withstands.  (Backend only tells Request     *)
(* which calls there are: those of "ryzen_smu", where nothing is probed.)  *)
(***************************************************************************)
EXTENDS SmnBus, Sequences

CONSTANTS
    Process,    \* the processes
    ProcOf,     \* the process of each thread
    POLL_N,     \* how often the response is read (100 in the code)
    MaxCalls,   \* bound: calls made by one thread
    MaxMishaps  \* bound: calls of close() and faults

ASSUME MacProcAssumption    == ProcOf \in [Thread -> Process]
ASSUME MacBoundAssumption   == MaxCalls \in Nat /\ MaxMishaps \in Nat
ASSUME PollAssumption       == POLL_N \in Nat \ {0}
ASSUME MacBackendAssumption == Backend = "ryzen_smu"

VARIABLES
    cf8,        \* the configuration register that CFC reaches
    pc,         \* where each thread is
    stage,      \* the part of its register sequence a thread is in
    half,       \* the next of the four steps of its SMN access
    step,       \* the next register of that part, the polls made
    req,        \* the call each thread is making
    calls,      \* how many calls each thread has made
    got,        \* the words the call has read
    lock,       \* the thread holding _lock, per process
    flock,      \* the thread holding /tmp/access_pci.lock
    backend,    \* _backend, per process
    conn,       \* the connections open, per process
    closing,    \* how far close() has come, per process
    mishaps,    \* calls of close() and faults so far
    harm        \* history: what has gone wrong

seqVars  == <<stage, half, step, got>>
lockVars == <<lock, flock>>
lifeVars == <<backend, conn, closing>>
histVars == <<mishaps, harm>>
vars == <<busVars, cf8, pc, req, calls, seqVars, lockVars, lifeVars, histVars>>

ConfigReg == {"NB_ADDR", "NB_DATA", "other"}
Path      == {"directhw", "iopci"}
None      == "none"

\*  refused  IOKit refused a call
\*  moved    another driver left CF8 at a register of its own
\*  cut      close() came during a call
\*  reinit   init() came during a call
\*  slow     the SMU had not answered after POLL_N polls
Harm == {"refused", "moved", "cut", "reinit", "slow"}

\* The number of a register where data belongs, or data read from a
\* register of another device: a word that is nobody's.
Stray == [what |-> "data", job |-> NoJob]

MyJob(t) == [thread |-> t, n |-> calls[t]]
Own(t)   == ProcOf[t]

TypeOK ==
    /\ BusTypeOK
    /\ cf8 \in ConfigReg
    /\ pc \in [Thread -> {"idle", "lock", "flock", "access", "leave"}]
    /\ stage \in [Thread -> {"write", "poll", "fetch"}]
    /\ half \in [Thread -> 1..4]
    /\ step \in [Thread -> Nat]
    /\ \A t \in Thread : step[t] \in 0 .. (IF stage[t] = "poll" THEN POLL_N - 1
                                           ELSE NARGS + 2)
    /\ req \in [Thread -> Request \cup {NoRequest}]
    /\ calls \in [Thread -> 0..MaxCalls]
    /\ got \in [Thread -> Seq(Value \cup {Failed})]
    /\ lock \in [Process -> Thread \cup {NoThread}]
    /\ flock \in Thread \cup {NoThread}
    /\ backend \in [Process -> Path \cup {None}]
    /\ conn \in [Process -> SUBSET Path]
    /\ closing \in [Process -> 0..2]
    /\ mishaps \in 0..MaxMishaps
    /\ harm \subseteq Harm

Init ==
    /\ BusInit
    /\ cf8 = "other"
    /\ pc = [t \in Thread |-> "idle"]
    /\ stage = [t \in Thread |-> "write"]
    /\ half = [t \in Thread |-> 1]
    /\ step = [t \in Thread |-> 0]
    /\ req = [t \in Thread |-> NoRequest]
    /\ calls = [t \in Thread |-> 0]
    /\ got = [t \in Thread |-> <<>>]
    /\ lock = [p \in Process |-> NoThread]
    /\ flock = NoThread
    /\ backend = [p \in Process |-> None]
    /\ conn = [p \in Process |-> {}]
    /\ closing = [p \in Process |-> 0]
    /\ mishaps = 0
    /\ harm = {}

-----------------------------------------------------------------------------
(* init() and close(), which take no lock.                                 *)

Note(what) == harm' = harm \cup what

\* Something happens that the bound counts.
Mishap(what) == /\ mishaps < MaxMishaps
                /\ mishaps' = mishaps + 1
                /\ Note(what)

Busy(p) == \E t \in Thread : ProcOf[t] = p /\ pc[t] # "idle"

\* What init() ends with, for the services that can be opened: --iopci
\* (forced) or the debug boot-arg decide about IOPCIBridge.
Choice(forced, bootArg, opens) ==
    IF ~forced /\ "directhw" \in opens THEN "directhw"
    ELSE IF bootArg /\ "iopci" \in opens THEN "iopci" ELSE None

\* init() of a process that has no backend.  When the choice is None it
\* raises BackendUnavailable and changes nothing.
Initialise(p) ==
    /\ backend[p] = None
    /\ closing[p] = 0
    /\ \E forced, bootArg \in BOOLEAN, opens \in SUBSET Path :
          LET choice == Choice(forced, bootArg, opens) IN
          /\ choice # None
          /\ backend' = [backend EXCEPT ![p] = choice]
          /\ conn' = [conn EXCEPT ![p] = @ \cup {choice}]
    /\ Note(IF Busy(p) THEN {"reinit"} ELSE {})
    /\ UNCHANGED <<busVars, cf8, pc, req, calls, seqVars, lockVars, closing, mishaps>>

\* directhw.close(), iopci.close(), _backend = None, one after the other.
Close(p) ==
    /\ LET what == IF Busy(p) THEN {"cut"} ELSE {} IN
       \/ closing[p] = 0 /\ backend[p] # None /\ Mishap(what)
       \/ closing[p] > 0 /\ Note(what) /\ UNCHANGED mishaps
    /\ closing' = [closing EXCEPT ![p] = (@ + 1) % 3]
    /\ conn' = [conn EXCEPT ![p] = @ \ (IF closing[p] = 0 THEN {"directhw"} ELSE {"iopci"})]
    /\ backend' = [backend EXCEPT ![p] = IF closing[p] = 2 THEN None ELSE @]
    /\ UNCHANGED <<busVars, cf8, pc, req, calls, seqVars, lockVars>>

-----------------------------------------------------------------------------
(* The locks around a call.                                                *)

\* A call without a backend raises SMUNotInitialized and changes nothing.
Call(t) ==
    /\ pc[t] = "idle"
    /\ calls[t] < MaxCalls
    /\ backend[Own(t)] # None
    /\ \E q \in Request :
          /\ req' = [req EXCEPT ![t] = q]
          /\ stage' = [stage EXCEPT ![t] = IF q.kind = "read" THEN "fetch" ELSE "write"]
    /\ pc' = [pc EXCEPT ![t] = "lock"]
    /\ calls' = [calls EXCEPT ![t] = @ + 1]
    /\ Note(IF closing[Own(t)] # 0 THEN {"cut"} ELSE {})
    /\ UNCHANGED <<busVars, cf8, half, step, got, lockVars, lifeVars, mishaps>>

TakeLock(t) ==
    /\ pc[t] = "lock"
    /\ lock[Own(t)] = NoThread
    /\ lock' = [lock EXCEPT ![Own(t)] = t]
    /\ pc' = [pc EXCEPT ![t] = "flock"]
    /\ UNCHANGED <<busVars, cf8, req, calls, seqVars, flock, lifeVars, histVars>>

\* The lock file excludes nobody.
BugAcquire(t) ==
    /\ pc[t] = "flock"
    /\ flock' = t
    /\ pc' = [pc EXCEPT ![t] = "access"]
    /\ UNCHANGED <<busVars, cf8, req, calls, seqVars, lock, lifeVars, histVars>>

\* acquire_pci_mutex gets the lock file: LinuxMailbox has the guard that is
\* entered without it.
Acquire(t) ==
    /\ pc[t] = "flock"
    /\ flock = NoThread
    /\ flock' = t
    /\ pc' = [pc EXCEPT ![t] = "access"]
    /\ UNCHANGED <<busVars, cf8, req, calls, seqVars, lock, lifeVars, histVars>>

\* The file is unlocked and closed, _lock let go, the call returns.
Leave(t) ==
    /\ pc[t] = "leave"
    /\ flock' = NoThread
    /\ lock' = [lock EXCEPT ![Own(t)] = NoThread]
    /\ pc' = [pc EXCEPT ![t] = "idle"]
    /\ req' = [req EXCEPT ![t] = NoRequest]
    /\ stage' = [stage EXCEPT ![t] = "write"]
    /\ step' = [step EXCEPT ![t] = 0]
    /\ got' = [got EXCEPT ![t] = <<>>]
    /\ UNCHANGED <<busVars, cf8, half, calls, lifeVars, histVars>>

-----------------------------------------------------------------------------
(* The register sequence: mailbox_send, mailbox_query, _smn_read and       *)
(* _smn_write.  A query clears all arguments before it fills in the first. *)

\* The doorbell is rung one register late.
BugLastWrite(q) == IF q.kind = "write" THEN 0
                   ELSE IF q.kind = "send" THEN NARGS + 1 ELSE NARGS + 3

LastWrite(q) == IF q.kind = "write" THEN 0
                ELSE IF q.kind = "send" THEN NARGS + 1 ELSE NARGS + 2

\* The step that writes the argument.
ArgStep(q) == IF q.kind = "send" THEN 1 ELSE NARGS + 1

WriteTarget(q, k) == IF q.kind = "write" THEN Smn(q.word)
                     ELSE IF k = LastWrite(q) THEN Msg(q.box)
                     ELSE IF k = ArgStep(q) THEN Arg(q.box, 0)
                     ELSE IF k = 0 THEN Rsp(q.box) ELSE Arg(q.box, k - 1)

\* A query sends its argument before it clears the registers.
BugWriteValue(t) == IF req[t].kind = "write" THEN DataOf(MyJob(t))
                    ELSE IF step[t] = LastWrite(req[t]) THEN OpOf(MyJob(t))
                    ELSE IF step[t] = 1 THEN ArgOf(MyJob(t)) ELSE Zero

WriteValue(t) == IF req[t].kind = "write" THEN DataOf(MyJob(t))
                 ELSE IF step[t] = LastWrite(req[t]) THEN OpOf(MyJob(t))
                 ELSE IF step[t] = ArgStep(req[t]) THEN ArgOf(MyJob(t)) ELSE Zero

\* The register the access in hand is meant for.
Target(t) == IF stage[t] = "write" THEN WriteTarget(req[t], step[t])
             ELSE IF stage[t] = "poll" THEN Rsp(req[t].box)
             ELSE IF req[t].kind = "read" THEN Smn(req[t].word)
             ELSE Arg(req[t].box, step[t])

Goto(t, place, part, k) == /\ pc' = [pc EXCEPT ![t] = place]
                           /\ stage' = [stage EXCEPT ![t] = part]
                           /\ step' = [step EXCEPT ![t] = k]

AfterWrite(t) == /\ IF step[t] < LastWrite(req[t]) THEN Goto(t, "access", "write", step[t] + 1)
                    ELSE IF req[t].kind = "write" THEN Goto(t, "leave", "write", 0)
                    ELSE Goto(t, "access", "poll", 0)
                 /\ UNCHANGED got

\* poll_response, and what its callers make of it: after POLL_N zeros a
\* query returns zeros without reading the outputs.
AfterPoll(t, word) ==
    IF word # Zero
    THEN /\ got' = [got EXCEPT ![t] = <<word>>]
         /\ Goto(t, IF req[t].kind = "query" THEN "access" ELSE "leave", "fetch", 0)
    ELSE IF step[t] < POLL_N - 1
    THEN Goto(t, "access", "poll", step[t] + 1) /\ UNCHANGED got
    ELSE /\ got' = [got EXCEPT ![t] = IF req[t].kind = "send" THEN <<Failed>>
                                      ELSE <<Failed>> \o [i \in 1..NARGS |-> Zero]]
         /\ Goto(t, "leave", "fetch", 0)

AfterFetch(t, word) ==
    /\ got' = [got EXCEPT ![t] = Append(@, word)]
    /\ IF req[t].kind = "query" /\ step[t] < NARGS - 1
       THEN Goto(t, "access", "fetch", step[t] + 1)
       ELSE Goto(t, "leave", "fetch", 0)

-----------------------------------------------------------------------------
(* The four steps of an SMN access.  _pci_cfg_read and _pci_cfg_write look *)
(* at _backend each time: whatever is not "iopci" goes to DirectHW.        *)

PathOf(t) == IF half[t] \in {1, 3} /\ backend[Own(t)] = "iopci" THEN "iopci"
             ELSE "directhw"

\* Whether an IOKit call of the thread reaches the hardware.
Open(t)    == PathOf(t) \in conn[Own(t)]
Outcome(t, ok, what) == \/ ok = Open(t) /\ Note(what) /\ UNCHANGED mishaps
                        \/ Open(t) /\ ~ok /\ Mishap(what \cup {"refused"})

\* The configuration register the call reaches.
Reached(t) == IF PathOf(t) = "directhw" THEN cf8
              ELSE IF half[t] = 1 THEN "NB_ADDR" ELSE "NB_DATA"

\* write_io(PCI_ADDR, 4, _cfg_addr(reg)): its result is ignored.
SetPort(t) ==
    /\ pc[t] = "access"
    /\ half[t] \in {1, 3}
    /\ PathOf(t) = "directhw"
    /\ \E ok \in BOOLEAN :
          /\ cf8' = IF ~ok THEN cf8 ELSE IF half[t] = 1 THEN "NB_ADDR" ELSE "NB_DATA"
          /\ Outcome(t, ok, {})
    /\ half' = [half EXCEPT ![t] = @ + 1]
    /\ UNCHANGED <<busVars, pc, req, calls, stage, step, got, lockVars, lifeVars>>

\* The address goes to NB_ADDR: or, as data, to what CF8 left reachable.
SetIndex(t) ==
    /\ pc[t] = "access"
    /\ half[t] = 2 \/ (half[t] = 1 /\ PathOf(t) = "iopci")
    /\ \E ok \in BOOLEAN :
          /\ Outcome(t, ok, {})
          /\ \/ ok /\ Reached(t) = "NB_ADDR" /\ WriteIndex(Target(t))
             \/ ok /\ Reached(t) = "NB_DATA" /\ WriteRegister(index, Stray)
             \/ (~ok \/ Reached(t) = "other") /\ UNCHANGED busVars
    /\ half' = [half EXCEPT ![t] = 3]
    /\ UNCHANGED <<cf8, pc, req, calls, stage, step, got, lockVars, lifeVars>>

AtData(t) == /\ pc[t] = "access"
             /\ half[t] = 4 \/ (half[t] = 3 /\ PathOf(t) = "iopci")

\* The value goes to NB_DATA, that is to the register the index names: or
\* becomes the index itself.
WriteData(t) ==
    /\ AtData(t)
    /\ stage[t] = "write"
    /\ \E ok \in BOOLEAN :
          /\ Outcome(t, ok, {})
          /\ \/ ok /\ Reached(t) = "NB_DATA" /\ WriteRegister(index, WriteValue(t))
             \/ ok /\ Reached(t) = "NB_ADDR" /\ \E w \in Word : WriteIndex(Smn(w))
             \/ (~ok \/ Reached(t) = "other") /\ UNCHANGED busVars
    /\ AfterWrite(t)
    /\ half' = [half EXCEPT ![t] = 1]
    /\ UNCHANGED <<cf8, req, calls, lockVars, lifeVars>>

ReadData(t) ==
    /\ AtData(t)
    /\ stage[t] # "write"
    /\ \E ok \in BOOLEAN :
          LET word == IF ~ok THEN Zero
                      ELSE IF Reached(t) = "NB_DATA" THEN reg[index] ELSE Stray
          IN /\ IF stage[t] = "poll" THEN AfterPoll(t, word) ELSE AfterFetch(t, word)
             /\ Outcome(t, ok, IF stage[t] = "poll" /\ word = Zero /\ step[t] = POLL_N - 1
                               THEN {"slow"} ELSE {})
    /\ half' = [half EXCEPT ![t] = 1]
    /\ UNCHANGED <<busVars, cf8, req, calls, lockVars, lifeVars>>

\* Another driver leaves CF8 at a register of its own device.
MovePort ==
    /\ cf8 # "other"
    /\ Mishap({"moved"})
    /\ cf8' = "other"
    /\ UNCHANGED <<busVars, pc, req, calls, seqVars, lockVars, lifeVars>>

Answer(m) ==
    /\ Firmware(m)
    /\ UNCHANGED <<cf8, pc, req, calls, seqVars, lockVars, lifeVars, histVars>>

-----------------------------------------------------------------------------
Finished == /\ \A t \in Thread : pc[t] = "idle" /\ calls[t] = MaxCalls
            /\ UNCHANGED vars

Progress(t) == \/ TakeLock(t) \/ Acquire(t) \/ Leave(t)
               \/ SetPort(t) \/ SetIndex(t) \/ WriteData(t) \/ ReadData(t)

Next == \/ \E t \in Thread : Call(t) \/ Progress(t)
        \/ \E p \in Process : Initialise(p) \/ Close(p)
        \/ \E m \in Mailbox : Answer(m)
        \/ MovePort
        \/ Finished

Spec == Init /\ [][Next]_vars

-----------------------------------------------------------------------------
(* Properties.                                                             *)

\* What changes a register is the SMU, or a thread that writes the register
\* it means with the value it means; what moves the index is a thread that
\* means that register.  This withstands an SMU that is late and a close()
\* in the middle of a call, after which the rest of the sequence is dropped
\* (directhw.write_io, iopci.write_config).  It does not withstand a refused
\* call, a driver that moves CF8, or an init() during the call, each of
\* which may drop the first half of an access and carry out the second.
OnlyMeantWrites ==
    [][harm' \subseteq {"cut", "slow"} =>
          /\ \/ \E m \in Mailbox : Answer(m)
             \/ \A r \in Reg : reg'[r] # reg[r] =>
                   \E t \in Thread : /\ pc[t] = "access" /\ stage[t] = "write"
                                     /\ Target(t) = r /\ WriteValue(t) = reg'[r]
          /\ index' # index =>
                \E t \in Thread : pc[t] = "access" /\ Target(t) = index']_vars

\* The call has had its effect.
Served(t) == IF req[t].kind \in Commands
             THEN \E e \in executed : e.cmd = OpOf(MyJob(t))
             ELSE pc[t] = "leave"

Service == INSTANCE SmuService WITH
    phase <- [t \in Thread |-> IF pc[t] = "idle" THEN "idle"
                               ELSE IF Served(t) THEN "served" ELSE "called"],
    reply <- [t \in Thread |-> IF pc[t] = "leave" THEN got[t]
                               ELSE IF pc[t] # "idle" /\ Served(t)
                               THEN CommandAnswer(req[t].kind, MyJob(t)) ELSE <<>>],
    mem   <- [w \in Word |-> reg[Smn(w)]]

\* As long as nothing has gone wrong, every step is a step of the service
\* that executes each call at once, with its own arguments, and answers it:
\* two pairs of registers, one behind the other, are as good as none.
ImplementsService ==
    [][harm' = {} => Service!Next \/ UNCHANGED Service!vars]_vars

=============================================================================
