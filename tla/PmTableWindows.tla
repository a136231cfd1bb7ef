--------------------------- MODULE PmTableWindows ---------------------------
(***************************************************************************)
(* Reading the PM table on Windows: read_pm_table_full and                 *)
(* read_pm_table_version of zenmaster/windows.py, called through           *)
(* zenmaster/smu.py by several threads of a process, with close() at any   *)
(* time: it checks nothing and takes no lock.                              *)
(*                                                                         *)
(* As in PmTable, the data are reduced to whether the SMU copied them to   *)
(* memory since the call began; the table is cut or padded to the size, of *)
(* which only the choice is modelled.                                      *)
(***************************************************************************)
EXTENDS Integers

CONSTANTS
    Thread,
    Version,        \* table versions a machine may have
    Size,           \* TABLE_SIZES.get(version, DEFAULT_TABLE_SIZE)
    Default,        \* DEFAULT_TABLE_SIZE
    MaxOps          \* bound: calls of one thread

None == 0           \* no version, no size

ASSUME SizeAssumption ==
    /\ None \notin Version
    /\ Size \in [Version -> Nat \ {0}] /\ Default \in Nat \ {0}
ASSUME BoundAssumption == MaxOps \in Nat

VARIABLES
    version,    \* the version of the machine's table
    known,      \* the family is one of PM_TABLE_CMDS
    open,       \* _handle and _k32 are set
    cachedVer, cachedSize,
    current,    \* memory holds a table transferred since the call began
    pc, op, ops,
    todo,       \* where _resolve_pm_table and _update_pm_table were called
    tries,
    updated,    \* _update_pm_table returned True
    ver, size,  \* the locals of read_pm_table_full
    result,     \* what the last call returned
    cut         \* history: the last close() came while somebody was in a call

machine == <<version, known>>
cache   == <<cachedVer, cachedSize>>
call    == <<op, ops>>
table   == <<ver, size>>
vars    == <<machine, open, cache, current, pc, call, todo, tries, updated, table, result, cut>>

Ops    == {"full", "version"}
Labels == {"idle", "start", "resolve", "setver", "told", "lookup", "setsize", "query",
           "check", "size", "update", "transfer", "read"}
\* first: _cached_pm_ver was None; version: in read_pm_table_version, called
\* by itself or by read_pm_table_full; again: nothing could be read.
Todos  == {"none", "first", "version", "again"}

TypeOK ==
    /\ version \in Version /\ known \in BOOLEAN /\ open \in BOOLEAN
    /\ cachedVer \in Version \cup {None}
    /\ cachedSize \in {None, Default} \cup {Size[v] : v \in Version}
    /\ current \in [Thread -> BOOLEAN]
    /\ pc \in [Thread -> Labels]
    /\ op \in [Thread -> Ops] /\ ops \in [Thread -> 0..MaxOps]
    /\ todo \in [Thread -> Todos]
    /\ tries \in [Thread -> 0..2]
    /\ updated \in [Thread -> BOOLEAN]
    /\ ver \in [Thread -> Version \cup {None}]
    /\ size \in [Thread -> {None, Default} \cup {Size[v] : v \in Version}]
    /\ result \in [Thread -> {"none", "fresh", "stale"}]
    /\ cut \in BOOLEAN

Init ==
    /\ version \in Version /\ known \in BOOLEAN
    /\ open = FALSE
    /\ cachedVer = None /\ cachedSize = None
    /\ current = [t \in Thread |-> FALSE]
    /\ pc = [t \in Thread |-> "idle"]
    /\ op = [t \in Thread |-> "full"] /\ ops = [t \in Thread |-> 0]
    /\ todo = [t \in Thread |-> "none"]
    /\ tries = [t \in Thread |-> 0]
    /\ updated = [t \in Thread |-> FALSE]
    /\ ver = [t \in Thread |-> None] /\ size = [t \in Thread |-> None]
    /\ result = [t \in Thread |-> "none"]
    /\ cut = FALSE

-----------------------------------------------------------------------------
Set(f, t, v)   == [f EXCEPT ![t] = v]
Goto(t, label) == pc' = Set(pc, t, label)
Resolve(t, why) == Goto(t, "resolve") /\ todo' = Set(todo, t, why)

Return(t, data) ==
    /\ result' = Set(result, t, data)
    /\ updated' = Set(updated, t, FALSE)
    /\ ver' = Set(ver, t, None) /\ size' = Set(size, t, None)
    /\ todo' = Set(todo, t, "none")
    /\ Goto(t, "idle")

\* MUTANT of SizeOf: TABLE_SIZES.get without its default.
BugSizeOf(v) == IF v = None \/ Size[v] = Default THEN -1 ELSE Size[v]

\* TABLE_SIZES.get(v, DEFAULT_TABLE_SIZE); after close() v is None.
SizeOf(v) == IF v = None THEN Default ELSE Size[v]

\* The SMU copies its sensors to memory, for all who are reading.
Transfer == current' = [t \in Thread |-> TRUE]

\* One of at most three tries: the last failure goes on with Failed.
Tries(t, Failed) ==
    IF tries[t] < 2
    THEN tries' = Set(tries, t, tries[t] + 1) /\ UNCHANGED <<pc, todo, updated, table, result>>
    ELSE tries' = Set(tries, t, 0) /\ Failed

\* smu: ensure_backend; without a backend _require_init raises, and
\* read_pm_table_version returns 0.
Start(t) ==
    /\ pc[t] = "idle"
    /\ ops[t] < MaxOps
    /\ ops' = Set(ops, t, ops[t] + 1)
    /\ open' \in {open, TRUE}
    /\ \E o \in Ops : op' = Set(op, t, o)
    /\ current' = Set(current, t, FALSE)
    /\ result' = Set(result, t, "none")
    /\ IF open' THEN Goto(t, "start") ELSE UNCHANGED pc
    /\ UNCHANGED <<machine, cache, todo, tries, updated, table, cut>>

\* The version is resolved unless it is cached; a close() since ends the call.
Enter(t) ==
    /\ pc[t] = "start"
    /\ IF ~open THEN Return(t, "none")
       ELSE IF cachedVer = None
       THEN Resolve(t, IF op[t] = "full" THEN "first" ELSE "version")
            /\ UNCHANGED <<updated, table, result>>
       ELSE IF op[t] = "full" THEN Goto(t, "check") /\ UNCHANGED <<todo, updated, table, result>>
       ELSE Return(t, "none")
    /\ UNCHANGED <<machine, open, cache, current, call, tries, cut>>

-----------------------------------------------------------------------------
(* _resolve_pm_table, and what its callers make of it.                     *)

Resolved(t) ==
    /\ pc[t] = "resolve" /\ open
    /\ tries' = Set(tries, t, 0)
    /\ Goto(t, "setver")
    /\ UNCHANGED <<machine, open, cache, current, call, todo, updated, table, result, cut>>

\* Without an answer, read_pm_table_full tries read_pm_table_version, which
\* resolves once more unless the version is cached by now, and asks the
\* mailbox; the second time there is no table.
ResolveFails(t) ==
    /\ pc[t] = "resolve"
    /\ Tries(t,
          \/ /\ todo[t] = "first"
             /\ IF known /\ cachedVer # None THEN Goto(t, "setver") /\ UNCHANGED todo
                ELSE IF known /\ open THEN Resolve(t, "version")
                ELSE Goto(t, "check") /\ UNCHANGED todo
             /\ UNCHANGED <<updated, table, result>>
          \/ /\ todo[t] = "version"
             /\ IF known /\ open THEN Goto(t, "query") ELSE Goto(t, "check")
             /\ UNCHANGED <<todo, updated, table, result>>
          \/ todo[t] = "again" /\ Return(t, "none"))
    /\ UNCHANGED <<machine, open, cache, current, call, cut>>

\* The version command of the RSMU mailbox.
QueryVersion(t) ==
    /\ pc[t] = "query"
    /\ \/ open /\ Goto(t, "setver")
       \/ Goto(t, "check")
    /\ UNCHANGED <<machine, open, cache, current, call, todo, tries, updated, table, result, cut>>

SetVersion(t) ==
    /\ pc[t] = "setver"
    /\ cachedVer' = version
    /\ Goto(t, IF todo[t] = "version" THEN "told" ELSE "lookup")
    /\ UNCHANGED <<machine, open, cachedSize, current, call, todo, tries, updated, table, result, cut>>

\* read_pm_table_version returns the version cached; read_pm_table_full, which
\* called it, caches it once more.
VersionTold(t) ==
    /\ pc[t] = "told"
    /\ IF op[t] = "version" \/ cachedVer = None
       THEN Goto(t, "check") /\ UNCHANGED todo
       ELSE Goto(t, "setver") /\ todo' = Set(todo, t, "first")
    /\ UNCHANGED <<machine, open, cache, current, call, tries, updated, table, result, cut>>

\* The size follows in a statement of its own: looked up, then stored.
LookUp(t) ==
    /\ pc[t] = "lookup"
    /\ size' = Set(size, t, SizeOf(cachedVer))
    /\ Goto(t, "setsize")
    /\ UNCHANGED <<machine, open, cache, current, call, todo, tries, updated, ver, result, cut>>

SetSize(t) ==
    /\ pc[t] = "setsize"
    /\ cachedSize' = size[t]
    /\ Goto(t, "check")
    /\ UNCHANGED <<machine, open, cachedVer, current, call, todo, tries, updated, table, result, cut>>

\* MUTANT of CheckVersion: the version is not looked at.
BugCheckVersion(t) ==
    /\ pc[t] = "check"
    /\ IF op[t] = "version" THEN Return(t, "none")
       ELSE /\ ver' = Set(ver, t, cachedVer)
            /\ Goto(t, "size")
            /\ UNCHANGED <<todo, updated, size, result>>
    /\ UNCHANGED <<machine, open, cache, current, call, tries, cut>>

\* Without a version there is no table; the second round does not look.
CheckVersion(t) ==
    /\ pc[t] = "check"
    /\ IF op[t] = "version" \/ (cachedVer = None /\ todo[t] # "again")
       THEN Return(t, "none")
       ELSE /\ ver' = Set(ver, t, cachedVer)
            /\ Goto(t, "size")
            /\ UNCHANGED <<todo, updated, size, result>>
    /\ UNCHANGED <<machine, open, cache, current, call, tries, cut>>

\* A size not cached is the default.
TakeSize(t) ==
    /\ pc[t] = "size"
    /\ size' = Set(size, t, IF cachedSize = None THEN Default ELSE cachedSize)
    /\ Goto(t, "update")
    /\ UNCHANGED <<machine, open, cache, current, call, todo, tries, updated, ver, result, cut>>

\* After close() _require_init raises, or there is no kernel32 to call.
Raises(t) ==
    /\ pc[t] \in {"resolve", "query", "update", "transfer", "read"} /\ ~open
    /\ Return(t, "none")
    /\ tries' = Set(tries, t, 0)
    /\ UNCHANGED <<machine, open, cache, current, call, cut>>

-----------------------------------------------------------------------------
(* _update_pm_table: the driver, then the transfer command.                *)

Updated(t) ==
    /\ pc[t] \in {"update", "transfer"} /\ open
    /\ Transfer
    /\ updated' = Set(updated, t, TRUE)
    /\ tries' = Set(tries, t, 0)
    /\ Goto(t, "read")
    /\ UNCHANGED <<machine, open, cache, call, todo, table, result, cut>>

\* The callers do not look at the result: they read anyhow.
UpdateFails(t) ==
    /\ pc[t] = "update"
    /\ Tries(t, /\ Goto(t, IF known THEN "transfer" ELSE "read")
                /\ updated' = Set(updated, t, FALSE)
                /\ UNCHANGED <<todo, table, result>>)
    /\ UNCHANGED <<machine, open, cache, current, call, cut>>

\* transfer_with_retry stops at any status but a rejected prerequisite.
TransferFails(t) ==
    /\ pc[t] = "transfer"
    /\ \/ Tries(t, Goto(t, "read") /\ UNCHANGED <<todo, updated, table, result>>)
       \/ /\ tries' = Set(tries, t, 0)
          /\ Goto(t, "read")
          /\ UNCHANGED <<todo, updated, table, result>>
    /\ UNCHANGED <<machine, open, cache, current, call, cut>>

-----------------------------------------------------------------------------
(* ioctl_read_pm_table, under _lock alone.                                 *)

\* What was read, at most 512 words of 8 bytes, is cut or padded to the size.
Read(t) ==
    /\ pc[t] = "read" /\ open
    /\ Return(t, IF current[t] THEN "fresh" ELSE "stale")
    /\ UNCHANGED <<machine, open, cache, current, call, tries, cut>>

ReadFails(t) ==
    /\ pc[t] = "read"
    /\ IF todo[t] = "again" THEN Return(t, "none")
       ELSE Resolve(t, "again") /\ UNCHANGED <<updated, table, result>>
    /\ UNCHANGED <<machine, open, cache, current, call, tries, cut>>

-----------------------------------------------------------------------------
\* MUTANT of Close: the size stays cached.
BugClose ==
    /\ open
    /\ open' = FALSE
    /\ cachedVer' = None
    /\ cut' = (\E t \in Thread : pc[t] # "idle")
    /\ UNCHANGED <<machine, cachedSize, current, pc, call, todo, tries, updated, table, result>>

\* The caches go with the handle, whoever is reading.
Close ==
    /\ open
    /\ open' = FALSE
    /\ cachedVer' = None /\ cachedSize' = None
    /\ cut' = (\E t \in Thread : pc[t] # "idle")
    /\ UNCHANGED <<machine, current, pc, call, todo, tries, updated, table, result>>

OtherTransfers ==
    /\ Transfer
    /\ UNCHANGED <<machine, open, cache, pc, call, todo, tries, updated, table, result, cut>>

Finished == /\ \A t \in Thread : pc[t] = "idle" /\ ops[t] = MaxOps
            /\ UNCHANGED vars

Step(t) == \/ Enter(t) \/ Resolved(t) \/ ResolveFails(t) \/ QueryVersion(t)
           \/ SetVersion(t) \/ VersionTold(t) \/ LookUp(t) \/ SetSize(t)
           \/ CheckVersion(t) \/ TakeSize(t) \/ Raises(t)
           \/ Updated(t) \/ UpdateFails(t) \/ TransferFails(t)
           \/ Read(t) \/ ReadFails(t)

Next == \/ Close \/ OtherTransfers \/ Finished
        \/ \E t \in Thread : Start(t) \/ Step(t)

Spec == Init /\ [][Next]_vars

-----------------------------------------------------------------------------
(* Properties.                                                             *)

\* What is read is a table of the machine's version, and one of this call if
\* _update_pm_table succeeded: a successful update is not lost to another
\* reader or to a second round ("didn't check for a zero table version ...
\* so a rejected version query could fall through and read from a garbage
\* address", CHANGELOG 0.6.0, fixed).  Only the second round, which does not
\* look at the version again (windows.py:484-486), may go on without one, and
\* that only if a close() came into the call and another thread's init() after.
ReadIsSound ==
    \A t \in Thread : pc[t] = "read" =>
        /\ ver[t] = version \/ (ver[t] = None /\ todo[t] = "again" /\ cut)
        /\ updated[t] => current[t]

\* A cached size belongs to the cached version, although threads set the two
\* in several steps and close() drops both without a lock.  A close() during a
\* call may leave a size without a version or a wrong default; that lasts until
\* the next close() that finds nobody in a call, and no longer.
CacheAgrees ==
    ~cut /\ cachedSize # None => cachedVer # None /\ cachedSize = SizeOf(cachedVer)

\* "Windows PM table read now aborts if the final table-transfer retry is
\* still rejected, instead of reading stale/garbage physical memory"
\* (CHANGELOG 0.2.0), and "reads the table fresh on each call"
\* (examples/monitor_pmtable.py): what a call returns was transferred
\* since it began.
FreshData == \A t \in Thread : result[t] # "stale"

=============================================================================
