------------------------------ MODULE PmTable -------------------------------
(***************************************************************************)
(* Reading the PM table on Linux and macOS: read_pm_table_full,            *)
(* read_pm_table and read_pm_table_version of zenmaster/linux.py and       *)
(* zenmaster/macos.py, called through zenmaster/smu.py by several threads, *)
(* with close() at any time.                                               *)
(*                                                                         *)
(* The SMU copies its sensors to memory when it is told to (the transfer); *)
(* of a table only this is kept: whether it was transferred since the call *)
(* that reads it began.  A mailbox command is one step, which is what      *)
(* LinuxMailbox shows of it.                                               *)
(* Another program, or a command answered too late, may transfer as well.  *)
(***************************************************************************)
EXTENDS Integers

CONSTANTS
    Thread,
    Kinds,          \* backends init() may select
    MaxOps          \* bound: calls of one thread

ASSUME KindsAssumption ==
    Kinds \subseteq {"pci", "ryzen_smu", "directhw", "iopci"}
ASSUME BoundAssumption == MaxOps \in Nat

VARIABLES
    kind,       \* the backend init() selects on this machine
    known,      \* the family is one of PM_TABLE_CMDS
    backend,    \* _backend
    cached,     \* _cached_pm_ver is set
    current,    \* memory holds a table transferred since the call began
    pc, op, ops,
    caller,     \* who waits for the sequence of mailbox commands
    tries,      \* rejected transfers of the sequence, 2 for more
    kept,       \* what read_pm_table returned to read_pm_table_full
    result      \* the table returned, whether with a version, or an exception

machine == <<kind, known>>
vars    == <<machine, backend, cached, current, pc, op, ops, caller, tries, kept, result>>

None    == "None"
NoData  == "none"
Data    == {NoData, "fresh", "stale"}
Result  == [data : Data, ver : BOOLEAN, raised : BOOLEAN]
Nothing == [data |-> NoData, ver |-> FALSE, raised |-> FALSE]

Ops      == {"full", "table", "version"}
Sequence == {"ver", "addr", "transfer", "read"}
Labels   == {"idle", "start", "sysfs", "cached", "vfile", "vquery"} \cup Sequence
Callers  == {None, "full", "table", "fulltable", "again", "version", "fullversion"}

TypeOK ==
    /\ kind \in Kinds /\ known \in BOOLEAN
    /\ backend \in {None, kind}
    /\ cached \in BOOLEAN
    /\ current \in [Thread -> BOOLEAN]
    /\ pc \in [Thread -> Labels]
    /\ op \in [Thread -> Ops]
    /\ ops \in [Thread -> 0..MaxOps]
    /\ caller \in [Thread -> Callers]
    /\ tries \in [Thread -> 0..2]
    /\ \A t \in Thread : tries[t] > 0 => pc[t] = "transfer"
    /\ kept \in [Thread -> Data]
    /\ result \in [Thread -> Result]

Init ==
    /\ kind \in Kinds /\ known \in BOOLEAN
    /\ backend = None
    /\ cached = FALSE
    /\ current = [t \in Thread |-> FALSE]
    /\ pc = [t \in Thread |-> "idle"]
    /\ op = [t \in Thread |-> "full"]
    /\ ops = [t \in Thread |-> 0]
    /\ caller = [t \in Thread |-> None]
    /\ tries = [t \in Thread |-> 0]
    /\ kept = [t \in Thread |-> NoData]
    /\ result = [t \in Thread |-> Nothing]

-----------------------------------------------------------------------------
\* The SMU copies its sensors to memory, for all who are reading.
Transfer == current' = [t \in Thread |-> TRUE]

Set(f, t, v)   == [f EXCEPT ![t] = v]
Goto(t, label) == pc' = Set(pc, t, label)

End(t, r) ==
    /\ result' = Set(result, t, r)
    /\ caller' = Set(caller, t, None)
    /\ kept' = Set(kept, t, NoData)
    /\ Goto(t, "idle")

\* A call returns; read_pm_table and read_pm_table_version return a part.
Finish(t, data, ver) == End(t, [data |-> data, ver |-> ver, raised |-> FALSE])

\* An exception leaves the call, and what it has read is lost.
Raise(t) == End(t, [Nothing EXCEPT !.raised = TRUE])

OnMacOs == kind \in {"directhw", "iopci"}

\* _read_pm_table_pci, or read_pm_table_full of macOS, returns None at once
\* for an unknown family; on macOS for any backend without physical memory.
HasSequence == known /\ (OnMacOs => backend = "directhw")

\* MUTANT of SequenceReturns: without a version the table is dropped.
BugSequenceReturns(t, who, data, ver) ==
    CASE who \in {"full", "again"} -> Finish(t, data, ver)
      [] who = "table"             -> Finish(t, data, FALSE)
      [] who = "version"           -> Finish(t, NoData, ver)
      [] who = "fullversion"       -> Finish(t, IF ver THEN kept[t] ELSE NoData, ver)
      [] who = "fulltable" ->
            /\ kept' = Set(kept, t, data)
            /\ caller' = Set(caller, t, IF data = NoData THEN "again" ELSE "fullversion")
            /\ Goto(t, IF data = NoData THEN "ver" ELSE "cached")
            /\ UNCHANGED result

\* What the caller of the sequence does with what it returns.
SequenceReturns(t, who, data, ver) ==
    CASE who \in {"full", "again"} -> Finish(t, data, ver)
      [] who = "table"             -> Finish(t, data, FALSE)
      [] who = "version"           -> Finish(t, NoData, ver)
      [] who = "fullversion"       -> Finish(t, kept[t], ver)
      [] who = "fulltable" ->
            /\ kept' = Set(kept, t, data)
            /\ caller' = Set(caller, t, IF data = NoData THEN "again" ELSE "fullversion")
            /\ Goto(t, IF data = NoData THEN "ver" ELSE "cached")
            /\ UNCHANGED result

EnterSequence(t, who) ==
    IF HasSequence
    THEN /\ caller' = Set(caller, t, who)
         /\ Goto(t, "ver")
         /\ UNCHANGED <<kept, result>>
    ELSE SequenceReturns(t, IF who = "fulltable" THEN "again" ELSE who, NoData, FALSE)

\* A command on Linux after close() has reset _backend.
NotInitialized == ~OnMacOs /\ backend = None

-----------------------------------------------------------------------------
(* The facade: ensure_backend, then the backend's function.                *)

Start(t) ==
    /\ pc[t] = "idle"
    /\ ops[t] < MaxOps
    /\ ops' = Set(ops, t, ops[t] + 1)
    /\ \E o \in Ops : op' = Set(op, t, o)
    /\ backend' \in {backend, kind}
    /\ backend # None => backend' = backend
    /\ current' = Set(current, t, FALSE)
    /\ result' = Set(result, t, Nothing)
    /\ Goto(t, "start")
    /\ UNCHANGED <<machine, cached, caller, tries, kept>>

Enter(t) ==
    /\ pc[t] = "start"
    /\ \/ /\ op[t] = "version"
          /\ Goto(t, "cached")
          /\ caller' = Set(caller, t, "version")
          /\ UNCHANGED <<kept, result>>
       \/ /\ op[t] \in {"full", "table"}
          /\ IF OnMacOs \/ backend = "pci"
             THEN EnterSequence(t, op[t])
             ELSE Goto(t, "sysfs") /\ UNCHANGED <<caller, kept, result>>
    /\ UNCHANGED <<machine, backend, cached, current, op, ops, tries>>

-----------------------------------------------------------------------------
(* Linux, read_pm_table: the files of the ryzen_smu module.                *)

\* The module makes the SMU transfer the table before it hands it out.
SysfsRead(t) ==
    /\ pc[t] = "sysfs" /\ backend # "pci"
    /\ Transfer
    /\ IF op[t] = "table" THEN Finish(t, "fresh", FALSE)
       ELSE /\ kept' = Set(kept, t, "fresh")
            /\ caller' = Set(caller, t, "fullversion")
            /\ Goto(t, "cached")
            /\ UNCHANGED result
    /\ UNCHANGED <<machine, backend, cached, op, ops, tries>>

\* A size of zero returns None, which only read_pm_table_full makes up for.
SysfsEmpty(t) ==
    /\ pc[t] = "sysfs" /\ backend # "pci"
    /\ IF op[t] = "table" THEN Finish(t, NoData, FALSE)
       ELSE EnterSequence(t, "again")
    /\ UNCHANGED <<machine, backend, cached, current, op, ops, tries>>

\* A file that cannot be read: the mailbox.  So does read_pm_table when the
\* backend has become PCI meanwhile.
SysfsFails(t) ==
    /\ pc[t] = "sysfs"
    /\ EnterSequence(t, IF op[t] = "table" THEN "table" ELSE "fulltable")
    /\ UNCHANGED <<machine, backend, cached, current, op, ops, tries>>

-----------------------------------------------------------------------------
(* read_pm_table_version.                                                  *)

VersionCached(t) ==
    /\ pc[t] = "cached"
    /\ IF cached THEN SequenceReturns(t, caller[t], NoData, TRUE)
       ELSE /\ Goto(t, IF OnMacOs \/ backend = "pci"
                       THEN "vquery" ELSE "vfile")
            /\ UNCHANGED <<caller, kept, result>>
    /\ UNCHANGED <<machine, backend, cached, current, op, ops, tries>>

VersionFile(t) ==
    /\ pc[t] = "vfile"
    /\ \/ cached' = TRUE /\ SequenceReturns(t, caller[t], NoData, TRUE)
       \/ Goto(t, "vquery") /\ UNCHANGED <<cached, caller, kept, result>>
    /\ UNCHANGED <<machine, backend, current, op, ops, tries>>

\* An answer needs a backend; without one Linux raises, and macOS reads
\* zeros from its closed connection.
VersionQuery(t) ==
    /\ pc[t] = "vquery"
    /\ \/ /\ known /\ backend # None
          /\ cached' = TRUE
          /\ SequenceReturns(t, caller[t], NoData, TRUE)
       \/ /\ ~(known /\ NotInitialized)
          /\ EnterSequence(t, caller[t])
          /\ UNCHANGED cached
    /\ UNCHANGED <<machine, backend, current, op, ops, tries>>

-----------------------------------------------------------------------------
(* The sequence: version, address, transfer, memory.                       *)

\* A command fails, or answers zero: the sequence returns None.
Gives(t) == SequenceReturns(t, caller[t], NoData, FALSE)

\* The places of a mailbox command.
AtCommand(t) == pc[t] \in {"ver", "addr", "transfer"} \/ (pc[t] = "vquery" /\ known)

\* MUTANT of CommandRaises: the tries are counted on by the next call.
BugCommandRaises(t) ==
    /\ ~OnMacOs /\ AtCommand(t)
    /\ Raise(t)
    /\ UNCHANGED <<machine, backend, cached, current, op, ops, tries>>

\* query_rsmu of Linux raises what nobody on its way catches: SMUNotInitialized
\* after close(), or the OSError of opening, reading or writing the device.
\* The macOS connections answer a failure with zeros.
CommandRaises(t) ==
    /\ ~OnMacOs /\ AtCommand(t)
    /\ Raise(t)
    /\ tries' = Set(tries, t, 0)
    /\ UNCHANGED <<machine, backend, cached, current, op, ops>>

Commands(t, label) == pc[t] = label /\ ~NotInitialized

SequenceVersion(t) ==
    /\ Commands(t, "ver")
    /\ \/ /\ backend # None
          /\ cached' = TRUE
          /\ Goto(t, "addr")
          /\ UNCHANGED <<caller, kept, result>>
       \/ Gives(t) /\ UNCHANGED cached
    /\ UNCHANGED <<machine, backend, current, op, ops, tries>>

SequenceAddress(t) ==
    /\ Commands(t, "addr")
    /\ \/ backend # None /\ Goto(t, "transfer") /\ UNCHANGED <<caller, kept, result>>
       \/ Gives(t)
    /\ UNCHANGED <<machine, backend, cached, current, op, ops, tries>>

\* MUTANT of Transferred: memory is read whatever the last try answered.
BugTransferred(t) ==
    \/ backend # None /\ Transfer /\ Goto(t, "read")
    \/ UNCHANGED current /\ tries[t] = 2 /\ Goto(t, "read")

Transferred(t) == backend # None /\ Transfer /\ Goto(t, "read")

\* MUTANT of MayRetry: as long as the prerequisite is rejected.
BugMayRetry(t) == TRUE

MayRetry(t) == tries[t] < 2

\* transfer_with_retry: two more tries, after a rejected prerequisite only.
SequenceTransfer(t) ==
    /\ Commands(t, "transfer")
    /\ \/ /\ MayRetry(t)
          /\ tries' = Set(tries, t, (tries[t] + 1) % 3)
          /\ UNCHANGED <<current, pc, caller, kept, result>>
       \/ /\ tries' = Set(tries, t, 0)
          /\ \/ Transferred(t) /\ UNCHANGED <<caller, kept, result>>
             \/ Gives(t) /\ UNCHANGED current
    /\ UNCHANGED <<machine, backend, cached, op, ops>>

\* /dev/mem, or DirectHW while its connection is open.  The version is
\* cached once more for read_pm_table_version.
SequenceRead(t) ==
    /\ pc[t] = "read"
    /\ \/ /\ OnMacOs => backend # None
          /\ SequenceReturns(t, caller[t], IF current[t] THEN "fresh" ELSE "stale", TRUE)
          /\ cached' = (cached \/ caller[t] \in {"version", "fullversion"})
       \/ Gives(t) /\ UNCHANGED cached
    /\ UNCHANGED <<machine, backend, current, op, ops, tries>>

-----------------------------------------------------------------------------
(* What goes on beside.                                                    *)

Close ==
    /\ backend # None
    /\ backend' = None
    /\ cached' = FALSE
    /\ UNCHANGED <<machine, current, pc, op, ops, caller, tries, kept, result>>

OtherTransfers ==
    /\ Transfer
    /\ UNCHANGED <<machine, backend, cached, pc, op, ops, caller, tries, kept, result>>

Finished == /\ \A t \in Thread : pc[t] = "idle" /\ ops[t] = MaxOps
            /\ UNCHANGED vars

Step(t) == \/ Enter(t)
           \/ SysfsRead(t) \/ SysfsEmpty(t) \/ SysfsFails(t)
           \/ VersionCached(t) \/ VersionFile(t) \/ VersionQuery(t) \/ CommandRaises(t)
           \/ SequenceVersion(t) \/ SequenceAddress(t)
           \/ SequenceTransfer(t) \/ SequenceRead(t)

Next == \/ Close \/ OtherTransfers \/ Finished
        \/ \E t \in Thread : Start(t) \/ Step(t)

Spec == Init /\ [][Next]_vars

\* A thread in a call goes on: the waits of a command end (EveryCallReturns
\* of LinuxMailbox), and so do the sleeps between two tries.
FairSpec == Spec /\ \A t \in Thread : WF_vars(Step(t))

-----------------------------------------------------------------------------
(* Properties.                                                             *)

\* What a call returns was transferred during the call ("reads the table
\* fresh on each call", examples/monitor_pmtable.py), by whatever path and
\* although others transfer too; a rejected transfer gives no table.
FreshData ==
    \A t \in Thread : result[t].data # "stale"

\* A table once read from the module's files is not dropped by a version that
\* cannot be found, through all the fallbacks that look for it: the caller gets
\* it, or sees the exception of a command (an OSError of the device, or
\* SMUNotInitialized after close()) that cost it.
ReadIsReturned ==
    [][\A t \in Thread :
          kept[t] # NoData /\ kept'[t] = NoData =>
             result'[t].data = kept[t] \/ (result'[t].raised /\ AtCommand(t))]_vars

\* Every call returns, although the SMU may reject every transfer.
EveryReadReturns == \A t \in Thread : pc[t] # "idle" ~> pc[t] = "idle"

=============================================================================
