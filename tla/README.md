# A TLA+ model of ZenMaster

ZenMaster changes power, clock, thermal and voltage settings of AMD processors,
and reads their sensors, by talking to the SMU: the processor's management
firmware, which serves mailboxes made of registers on an internal bus (SMN).
The bus is reached through one index register and one data register that every
program of the machine shares.  What makes the program hard is therefore not
its arithmetic but order: two programs, or two threads of one, on one register
pair; a firmware that answers late or not at all; a call overtaken by `close()`;
a table that has not been refreshed; a command line half of which has already
changed the hardware when the other half turns out wrong.

This directory models those parts, checks them with TLC on small instances, and
proves the most important of them with TLAPS for every instance.  File names
without a directory are in `src/zenmaster/`.

## 1. The system

| component | code | state | operations | interacts with | modelled in |
|---|---|---|---|---|---|
| SMU and SMN bus | (hardware) | index register, SMN registers, commands rung and served | two half accesses; serving a mailbox | everybody, through memory | `SmnBus` |
| Linux mailbox and bus locking | `linux.py`, `mailbox.py` | `_lock`, the lock file | `_send`, `_query`, `read_smn`, `write_smn`, `smu_command`, `_pci_writable` | bus; other programs, through the lock file | `LinuxMailbox` |
| Linux lifecycle | `linux.py` | `_backend`, `_fd`, `_guard_fd`, the descriptor table | `init`, calls, `close` | any thread; the kernel's lockdown and modules | `LinuxLifecycle` |
| Windows backend | `windows.py` | `_handle`, `_k32`, `_info_path`, handle table, `Global\Access_PCI` | `init`, calls, `close` | any thread; other programs, through the mutex | `WindowsLifecycle` |
| PM table reader | `linux.py`, `macos.py`, `windows.py`, `pmtable.py` | cached version (and size), table memory | `read_pm_table_full`, `read_pm_table`, `read_pm_table_version` | mailbox, module files, `close()` | `PmTable`, `PmTableWindows` |
| Command tables | `runner.py` | constant | `lookup`, `is_flag_arg`, `is_hsmp` | `apply` | `Runner` |
| apply() | `apply.py` | locals of one call | `apply` | command tables, facade | `Apply`, `ArgWords` |
| Command line | `cli.py` | locals of `main` | `main` | apply, facade, sensors | `Cli` |
| Backend facade | `smu.py` | none | `ensure_backend`, `read_smn`, `write_smn`, `get_ccd_count`, `get_bios_if_ver`, `get_smu_version`, `send_arg`, the sensors; dispatch | backends, another thread's `init()` and `close()` | `Readout` |
| macOS access paths | `macos.py`, `directhw.py`, `iopci.py`, `iokit.py`, `mailbox.py` | `_backend`, two connections, `_lock`, the lock file | `init`, CF8/CFC accesses, register sequences, `close` | kernel extension, any driver that uses CF8 | `MacOs`, `PmTable` |
| CPU detection | `hardware.py` | a cache | `detect` | command line, command tables | `CpuDetect` |
| Sensor decoding | `sensors.py` | none | `read_sensors`, `read_core_sensors` | PM table | `CoreSensors` (cores) |
| update check, exceptions, package surface, PawnIO module | `update.py`, `errors.py`, `__init__.py`, `__main__.py`, `RyzenSMU.bin` | none | | | no |

Two locks protect the bus: `_lock`, one per process, and outside it nothing;
inside it the lock file (Linux, macOS) or the named mutex (Windows), which other
monitoring programs take too.  `init()` and `close()` take neither.  The lock
file is given up on after five seconds, and an SMU command after `_DEADLINE`;
both are promises about time that the rest of the code lives with.

What makes each component correct:

- **mailbox**: one user of the bus at a time, while the lock file works; no half
  access redirected; every call gets the answer of its own command, the command
  runs once with its own arguments; no lock is lost or kept whatever fails; every
  call returns.
- **lifecycles**: an access reaches the device it was meant for; nothing leaks;
  `close()` releases everything; the mutex is given back.  None of this withstands
  a `close()` during another operation, from which nothing keeps it: the properties
  say what survives one.
- **macOS paths**: although an SMN access is four steps through two pairs, every
  word goes to the register it was meant for, and the whole is the same atomic
  service as on Linux.
- **PM table**: what is returned was transferred during the call; nothing is
  read without a version; the cache agrees with itself; retries end.
- **facade**: an exception has a cause the caller can know: a `close()` that came in
  between, an `init()` that failed, an argument that cannot be packed; a list of
  statuses accounts for every message; a count put together from two reads is
  exact; a version is the SMU's wherever one of its sources has it.
- **CPU detection**: what it lets through, the other tables know.
- **sensor decoding**: a core is listed with its own power, voltage, temperature and
  clock, whatever the layout of the table, and never with a neighbour's.
- **command line and apply()**: nothing is sent for an unprivileged user, a foreign
  processor or an unknown argument; no refusal keeps a later mailbox or argument
  from being asked; success means every argument took effect; a refused argument
  is reported; a repeated pass is the same pass; the words sent mean what the
  user asked.

`PROJECT.json` lists the hazards behind these, each at its line, with the
properties that would catch it.

## 2. Modules

```
SmuWords <- SmnBus <- LinuxMailbox <- MCLinuxMailbox
   ^                     |  ^-- LinuxMailboxProofs
   '---- SmuService <----' (refinement)
            SmnBus <- MacOs <- MCMacOs    (MacOs refines SmuService too)
                        ^-- MacOsProofs
Mailboxes <- MCLinuxMailbox, MCMacOs      (an instance named Table)
LinuxLifecycle <- MCLinuxLifecycle        WindowsLifecycle <- MCWindowsLifecycle
   ^-- LinuxLifecycleProofs                  ^-- WindowsLifecycleProofs
PmTable <- PmTableProofs                  PmTableWindows   <- MCPmTableWindows
                                             ^-- PmTableWindowsProofs
ArgWords <- Apply <- Cli <- MCCli         Runner <- Apply
                      ^-- CliProofs
CpuDetect, CoreSensors, Runner <- Readout <- MCReadout
                                     ^-- ReadoutProofs
```

A definition whose name starts with `Bug` is a plausible mistake in the
definition that follows it.  It belongs to no specification; a property that
does not fail when the mistake is put in says nothing, and each property has
one that makes it fail.

### SmuWords, SmnBus, Mailboxes

A word is what it stands for (a command, its argument, its response, an output,
data) and the call it belongs to, so that an answer taken by the wrong call is
seen.  `SmnBus` has the index register `index`, the registers `reg`, the doorbell
set `pending` and the history `executed`.  `WriteIndex` is the first half of an
access (`linux.py:253-265`), the data half reads or writes `reg[index]`, wherever
`index` points by then.  `Firmware(m)` serves one command of a mailbox: it reads
the arguments as they are *when it runs*, then writes outputs and the response.
`WriteRegister` and `Firmware` are external: they are what the code relies on.

A register is its address, and two mailboxes may have some in common.
`ApartAssumption` is what `OwnAnswer`, `CommandsIntact` and the refinements need of the
addresses: a message or a response register has no other use.  Argument registers
may be shared, since a sequence clears those it uses and no two sequences overlap.
`Mailboxes` has the addresses of `mailbox.py` by family, and an assumption of
`MCLinuxMailbox`, which TLC evaluates, says which mailboxes are `Separate`: MP1 and
RSMU of every family (those of the Zen 1 desktops, which `mailbox_clean` uses, share
argument registers), MP1 and HSMP, but not the default RSMU and HSMP.

### LinuxMailbox

One action per step of a call that another thread can come between: `Call`,
`TakeLock` (`with _lock`), `OpenFile`/`OpenFails`, `TakeFlock`, `GiveUp` (the
deadline of `acquire_pci_mutex`, after which the guard is entered anyhow),
`SetAddress`, `WriteData`, `PollData`, `PollGiveUp` (`SMU_FAILED` after
`_DEADLINE`), `FetchData`, `ProbeData`, `Unlock`, `Return`.  `pc[t]` is the place
in `_send_seq` and its callers, `step[t]` the register of the sequence, `got[t]`
what the call returns.  `Raise` is an `OSError` or an interrupt between two
accesses: the `finally` clauses run.  `Crash` kills a process: the kernel drops
its lock file, the registers stay as they are.  `Faults` says which of these,
and which failures of the lock file, the environment may commit.
With `Backend = "ryzen_smu"` a write is one access to the driver.

`SmuService` is the abstract specification: a call is *called*, *served* at one
instant, and *returns*.  `ImplementsService` states that `LinuxMailbox` implements
it, under the mapping "served" = its command is in `executed` (for a register
access: the sequence is over).

### LinuxLifecycle, WindowsLifecycle

A process's table of descriptors, given out lowest first, or of handles, any free
one of which may be given out, so that a number kept too long can name another
file.  An open waits for `Room` in the table.  The actions are the statements of
`init()`, of a call around its accesses (`_require_init`, `_io_primitives`,
`_get_fd`, guard) and of `close()` between which another thread can run.  In
`WindowsLifecycle` the mutex has an owner thread and a recursion of its own, and
another program takes it; it may fail to be created, the wait for it may fail, time
out or find it abandoned, and closing a handle does not release it.  An access may
raise inside the guard (an argument that cannot be packed, `_k32` gone), and the
`finally` clauses run.

Nothing in the code keeps `close()` out of a call, an `init()` or another `close()`, nor
one `init()` out of another, and nothing in the model does.  The history `harm` says
what has happened so far: "cut", a `close()` that overlapped another operation;
"twice" (Linux), one that overlapped another `close()`; "raced" (Windows), two `init()`
calls that overlapped.  Each property names in its antecedent what it does not
withstand, and holds against everything else: `GuardKept` against a `close()` at any
point of a call, `GuardMeansOwner` against all of it.

### PmTable, PmTableWindows

A table is reduced to whether it was transferred since the call that reads it
began.  A mailbox command is one step, which is what `LinuxMailbox` shows of it.
The control is complete: the module's files first, the mailbox sequence with its
version query, address query, transfer and retries, the fallbacks of
`read_pm_table_version`, the caches, and `close()` at any time.  In `PmTable` a command
of Linux may raise (`CommandRaises`: SMUNotInitialized, or the OSError of opening,
reading or writing the device), which nothing between it and the caller catches; a
`result` is what the call returned, or that it `raised`.  In `PmTableWindows` every
driver call may fail, and what is looked up, stored and read of the two cached values
is a step each (`VersionTold`, `LookUp`, `SetSize`, `TakeSize`, ...), as `close()` may come
between them; the history `cut` says that the last `close()` came while somebody was
in a call.

### MacOs

The SMN pair of macOS lies in two PCI configuration registers.  Through DirectHW
those are reached by a pair of I/O ports, so that an access takes four steps
(`SetPort`, `SetIndex`, `SetPort`, `WriteData` or `ReadData`); through IOPCIBridge a
configuration access is one call and an SMN access takes two.  `PathOf` is asked
at every step, because the code asks `_backend` at every step: an access may begin on
one path and end on the other.  Nothing is checked on the way, so a refused write
is dropped and a refused read is 0 (`Outcome`).  `Initialise` is `init()` with
`--iopci`, the boot argument and the services that can be opened; `Close` is its
three statements.  The register sequences are those of `mailbox.py`, with the poll
counter of `poll_response` instead of a deadline.  The history `harm` says what has
gone wrong so far (a refused call, CF8 moved by another driver, `close()` or `init()`
during a call, an SMU too late), and each property says what it withstands.

### CpuDetect, CoreSensors, Readout

`CpuDetect` is the dispatch of `hardware.py`: a sequence of cases for each CPUID
family, the first that fits decides (`Codename`); and the two tables that are
indexed by the code name.  `CoreSensors` is the layout `read_core_sensors` assumes for a version: a
table is a set of arrays, and a cell is identified by the array it lies in, so
that a value taken from a neighbour's array is seen.  `Readout` is `smu.py` as a
reader uses it: one thread runs a program (one library call, or the calls of
`--info` or `--sensors`), each call ensures a backend and makes its accesses, each
access is served, refused or raises, and another thread may call `init()` or
`close()` between any two steps.  `init()` may succeed, be denied (a `ZenMasterError`,
which `ensure_backend` catches), or raise an OSError, which leaves `ensure_backend`
and, since that is called outside the `try`, the functions that hide failed accesses
(`EnsureRaises`).  An access raises SMUNotInitialized, OSError or, if the caller's
argument is too wide (`job.wide`), struct.error or ctypes.ArgumentError, which only
`send_arg` turns into a status.  The version is looked for in the backend, by a
query, in the file of the SMU's version and in that of the driver, in this order
(`VersionFile`).  A word is the set of its bits.

### Runner, ArgWords, Apply, Cli

`Runner` has four of the ten command tables, each cut to thirteen arguments that
between them take every branch of `apply()`.  `ArgWords` has the encodings, over
pairs of 16-bit halves.  `Apply` takes one token, then one message, per step, any
of which the SMU may refuse and any access of which may raise.  `Cli` is `main()`:
help, version, the processor, the words, privileges, backend, reads, and the loop
around `apply()`.  A word of the command line carries the tokens `shlex.split`
finds in it, since a quoted word may hide several.

## 3. What the runs check

| run | instance | what it shows |
|---|---|---|
| `mailbox_clean` | 2+1 threads, 2 processes, PCI, every kind of call, 2 mailboxes that share argument registers, 3 argument registers, no fault | `BusExclusion`, `AddressIntegrity`, `OwnAnswer`, `CommandsIntact`, and the refinement `ImplementsService` |
| `mailbox_faults` | 2 threads of one process, commands and the probe of `init()`; exceptions, kills, all failures of the lock file, an SMU that may never answer | `LocksReturned`, `SharedOnlyUnguarded`, `EveryCallReturns` |
| `lifecycle` | 3 threads, 2 operations each, 8 descriptors, `close()` at any time | `RightDevice`, `CloseReleases`, `GuardKept` |
| `windows` | 3 threads, 2 operations each, 6 handles, another program, `init()` and `close()` at any time | `IoOnDevice`, `MutexReturned`, `GuardMeansOwner`, `CloseReleases` |
| `macos` | 2 processes, both paths, every kind of call, 2 polls, one mishap | `OnlyMeantWrites`, and the refinement `ImplementsService` |
| `pm_table` | 2 threads, 2 calls each, four backends | `FreshData`, `ReadIsReturned`, `EveryReadReturns` |
| `pm_windows` | 2 threads, 2 calls each, a known and an unknown version, `close()` at any time | `ReadIsSound`, `CacheAgrees` |
| `pm_windows_stale` | one reader, updates refused | **violation** of `FreshData` |
| `cli` | 1,764 command lines, 5 families and a foreign processor, 2 passes | `EveryMailboxAsked`, `AppliedMeansAll`, `EveryTokenReported`, `PassesRepeat`, `SentMeansAsked` |
| `coper_ccx` | the same lines, 1 pass | **violation** of `CcxReachesWord` |
| `readout` | 15,360 processors, 81 arrangements of CCDs, 27 table versions, every outcome of `init()` and of every access, 2 calls of `close()` | `ProcessorServed`, `RaisedForCause`, `SentIsReported`, `CcdExact`, `VersionIsFirmwares`, `SensorsAreOwn` |
| `core_sensors` | 3 table versions, nothing failing | **violation** of `RunningCoresListed` |

The `TypeOK` of a module is checked with its first run; `Readout` has none.

**Bounds.**  In the run without faults, three threads are the least with
which a thread of another process meets two that compete for one `_lock`; in `lifecycle`
they are the least with which `GuardKept` would fail without its antecedent (two
`close()` calls and a third thread's new file).  The run with faults has two
threads of one process: what another program does to the lock file is among the
faults, and the proofs cover the rest.  It has one mailbox, `mailbox_clean` the two
of Summit Ridge.  Three argument registers (the code has six) are the one that
carries the argument and two that must be cleared, and with three the arrays of the
two mailboxes overlap; a query reads them back.  One call per thread in the
mailbox runs lets every call overlap two others at every step, and follow them;
what a thread does in its next call does not depend on the one before, its
state being reset by `Return`.  In the lifecycle runs two operations per thread,
six in all, give every order of `init`, call and `close` across threads, and every
overlap of three of them; the tables are larger than the number of files open at
once, so they run full only with what an overlapping `close()` or `init()` has leaked,
and then an open waits.  In
`macos` the two threads are of different processes (threads of one meet only at
`_lock`, as on Linux), two polls are the least that can be late, and one mishap is
what each property names at a time.  `readout` takes every family from 22 to 27 and
every model from 0 to 255, with no mark in the name, one, or all but "Intel"; CCDs
at the places 0, 1, 2 and 7, which lie on both sides of the two words they are
told from; one version or more of each layout and size of table; both loads and
four sets of parked cores; and up to three CCDs passed to the sensors, one more
than those processors have.  Two
passes are the least that can differ.  Two tokens are the least between which a
value can be carried over; the numbers in them are the corners of the encodings
(negative offsets, millidegrees, 8.8 scaling, frequencies over the cap, ill-formed
values), and the proofs of `CliProofs` cover the rest.

**Fairness.**  In `LinuxMailbox` (`mailbox_faults`), weak fairness of each thread's own
steps (the scheduler runs every thread, and the retry loops poll,
`linux.py:44-54`, `linux.py:278-284`) and of its clock; no fairness of calls,
exceptions, kills, nor, where `slow` is among the faults, of the SMU.  In `PmTable`,
weak fairness of the steps of a call, whose commands end by `EveryCallReturns`; the
failures among them are chosen freely, so that liveness holds although every
command fails.  No other module assumes fairness.  Weak fairness does not promise
`_lock` to a waiting thread when others never stop calling; Python's lock does not
either.  Calls are bounded in the model, so starvation by endless callers is not
examined.

**Deadlock** is checked except in `cli` and `coper_ccx`: the program ends there.
The other modules have a `Finished` (`Done`) step for when the bounds are used up.

**What the violations mean.**

- `pm_windows_stale`: the result of `_update_pm_table` is dropped
  (`windows.py:472`), so a refused transfer returns the previous table, against
  CHANGELOG.md:210.
- `coper_ccx`: the CCX of `ccd:ccx:core:val` never reaches the word
  (`apply.py:59`), against CHANGELOG.md:37.
- `core_sensors`: for the tables of Picasso the temperatures are looked for at 0x624
  (`sensors.py:705`), beyond the end of the largest of them (`pmtable.py:56-57`), so
  that no core is ever listed.

**Seen while modelling.**  What follows has no run of its own; each item says what
to set to see it.

- `pci_mutex_guard` yields with or without the lock (`linux.py:80`), so a program that
  keeps the lock file for five seconds shares the bus with ZenMaster, against
  README.md:27: `BusExclusion` fails with "giveup" among the `Faults`.  Two register
  sequences of one process still exclude each other, but the probe of `init()`
  (`linux.py:174-189`) takes no `_lock`, and without a lock file in common it meets
  them on the bus: `SharedOnlyUnguarded` says so.
- The RSMU and HSMP mailboxes overlap: on Medusa1, OlympicRidge and Medusa2 a read of
  the power table over PCI goes to the default RSMU (`linux.py:421-435`), whose
  argument registers 0x3B10A88 to 0x3B10A9C (`mailbox.py:42`) contain HSMP's message,
  response and first argument register (`mailbox.py:44-49`).  Clearing them rings
  HSMP's doorbell with 0.  `ApartAssumption` does not hold of these two, and no result
  here speaks of a system that uses both.
- On Windows `close()` sets `_k32` to None (`windows.py:530`) under a call that needs it
  to release the mutex, which stays taken, against CHANGELOG.md:116: without its
  antecedent `MutexReturned` fails, and so do `IoOnDevice` and `CloseReleases`.  Two
  `init()` calls at once lose a handle (`CloseReleases` with "raced" allowed).
- On Linux a `close()` racing a call breaks `RightDevice` and `CloseReleases`, and two
  threads in `close()` close a number that a third one has been given (`GuardKept`),
  once the antecedents on `harm` are dropped.
- On macOS a refused write of CF8 or NB_ADDR is not noticed, and the second half of
  the access goes to whatever register the first half of an earlier one named;
  a driver that moves CF8 outside the lock file has the same effect
  (`macos.py:176`): `OnlyMeantWrites` excludes both by name.
- `get_ccd_count` takes a refused read for a fuse of zeros: with the second one
  refused, disabled CCDs count as enabled (`smu.py:318`).  Its `read_smn` calls
  initialise the backend again when `close()` has come in between.
- `get_smu_version` may return the version of the driver as the SMU's: the last file
  it tries, `drv_version`, is the driver's (`smu.py:251`).  `VersionIsFirmwares` says
  when.
- `ensure_backend` catches `ZenMasterError` only (`smu.py:176`), and the functions that
  answer a failed access with a value call it outside their `try`
  (`smu.py:284`, `smu.py:294`), so that an OSError of `init()`, such as that of
  `windows.py:205`, leaves them; it also leaves `main()`, which catches RuntimeError
  (`cli.py:637-644`).  `write_smn` with a value over 32 bits raises struct.error
  (`linux.py:265`), which nothing catches.
- On Linux an OSError of the version query loses a table already in hand
  (`linux.py:457`, `linux.py:491-498`); so does a SMUNotInitialized.  `ReadIsReturned`
  names both.
- On Windows a `close()` during a call may leave a size in the cache without its
  version (`windows.py:458-459`), which a later call combines with another version
  until the next `close()`; and a `close()` and an `init()` in the second round of
  `read_pm_table_full` make it return a table without a version (`windows.py:484-486`).
  `CacheAgrees` and `ReadIsSound` name both.
- An argument of two mailboxes counts as applied as soon as one of them has accepted
  it (`apply.py:229`), and `AppliedMeansAll` asks no more.
- `main()` looks at the first argument of each word only (`cli.py:626`).  An ill-formed
  value, an argument the family lacks, or an unknown one further on in a quoted word
  is found by `apply()` when the arguments before it have been sent.
- `--info` without a backend shows one CCD for the two mobile families that have two,
  since they are typed as APUs.  `--sensors` reads the table twice, so that the cores
  and the rest may be of two samples.
- With three CCDs or more, a table whose arrays are spaced for eight cores would be
  read beyond them, and cores listed from the cells of other arrays; no processor
  with such a table has three.
- The model 63 is still taken for a Rembrandt, although CHANGELOG.md:49 names 64 and
  68 only.
- After `read_pm_table_version` on Windows the size is not cached, and the default is
  read.  An `OSError` ends the `--reapply` loop with a traceback.  `tctl-limit`, which
  `apply()` takes for `tctl-temp`, is refused by the command line's own check
  (`cli.py:626`).

## 4. What is proved

Each theorem holds for every value of the module's constants that its named
assumptions allow: any number of threads, processes, calls, argument registers,
file descriptors or handles, every backend, and mailboxes that satisfy
`ApartAssumption`, which MP1 and RSMU of every family do.  Where a property is not inductive the proof module
defines the invariant that is (`IInv`, or `Inv`), whose parts are named below.

**`LinuxMailboxProofs`**

- `TypeCorrect`: `TypeOK`, with `StepOK`: a register sequence never runs past its
  last register.  `TypeOK` alone is not inductive, since a step beyond the last
  register would leave the range of `step`.
- `LocksAreReturned`, under every fault: `LocksReturned`.  Inductive with it
  (`LockInv`): who is behind `_lock` owns it (`HasLock(t) => lock[ProcOf[t]] = t`);
  nobody holds a lock file open outside the guard; the probe takes no `_lock`.
  Without the last one `Return` of a probe could drop another thread's lock.
- `BusSharing`, under every fault: `SharedOnlyUnguarded`, from `LockInv`.
- `BusIsSerialized` and `AddressesAreKept`: `BusExclusion` and `AddressIntegrity`,
  assuming `NoBypass` (the lock file can be opened and is not kept for five seconds),
  even with a slow SMU, exceptions and kills, which the run `mailbox_clean` does not
  have.  `BusInv`: the lock file opened is the one under `/run/lock`, and only a poll
  runs late; with `LockInv` it gives exclusion, and exclusion keeps the index
  register in place between the two halves of an access.
- `AnswersAreOwn`, `CommandsAreIntact` and `ServiceIsImplemented`, assuming `NoFault`
  and `ApartAssumption`, without which a sequence would ring or answer another
  mailbox (RSMU and HSMP together are therefore outside these theorems): `OwnAnswer`, `CommandsIntact` and the refinement `ImplementsService`.  `ServeInv` says
  how far the sequence of each call has come (`CallOK`): before the message is
  written the response is zero, the arguments so far are in their registers and
  the command has not been executed; while the thread polls, its command is
  either with the SMU or answered in full; what it has fetched are the first words
  of its own answer.  Beside it, a doorbell is rung only by the thread that waits
  for it (`DoorbellOK`), what was executed was called (`HistoryOK`), and the SMU
  leaves the other registers alone (`MemoryOK`).  A thread on the bus is there
  alone, so the others' parts are kept.  For the refinement `Phases` reads off this
  invariant what a caller sees at each place of a call; then `Call` is the
  service's `Call`, `Answer` its `Execute`, the last half access of a read, a write
  or a probe its `Read`, `Write` or `Probe`, `Return` its `Return`, and every other
  step stutters.

**`MacOsProofs`**

- `TypeCorrect`: `TypeOK`, by the same kind of `StepOK`.
- `WritesAreMeant`: `OnlyMeantWrites`, an action property.  Inductive with it: who is
  in the register sequence has the lock file (`FlockOK`); the connection that is
  open is that of the backend, and `close()` closes DirectHW first (`LifeOK`); and
  while nothing but `close()` and lateness has gone wrong, CF8 and the index are
  between the steps of an access where the thread has put them, unless its calls
  no longer reach the hardware (`PairsOK`).
- `ServiceIsImplemented`: `ImplementsService`, the refinement while nothing at all has
  gone wrong.  Its `ServeInv` is that of the mailbox, for accesses of up to four
  steps; it adds that a call in progress has a backend that no `close()` has reached
  (`BusyOK`), whose connection is therefore open (`LiveOK`), so that no step of its
  accesses is dropped.  It needs `ApartAssumption` as on Linux.

**`LinuxLifecycleProofs`**, with `close()` at any time; what each property does not
withstand is in its antecedent

- `TypeCorrect`, whatever `close()` meets.
- `DeviceIsRight` (`RightDevice`) and `CloseIsComplete` (`CloseReleases`).  `IInv`, which
  holds as long as "cut" has not happened: what a thread has chosen, locked and
  opened at each place of a call (`CallOK`, `FilesOK`) and of `close()` (`CloseOK`); two
  threads never have the same number open (`Apart`); `_fd` names the device of the
  backend (`FdOK`); and whatever is open is `_fd` or in the hand of a thread (`Kept`).
  Since a number is given out again as soon as it is free, these need each other.
  That the lowest free number exists comes from the well-foundedness of `<`.
- `GuardIsKept` (`GuardKept`), with `close()` at any point of the calls and of `init()`.
  `GInv` is what is left then: only one thread is in `close()` (`Alone`), the lock files
  and the probes of `init()` still name what was opened (`Opens`), and `_fd`, unless
  `close()` has closed it and is about to forget it, names a device that is nobody's
  probe (`Cached`); what a call keeps of `_fd` may be anything, but is not closed.

**`WindowsLifecycleProofs`**, with `init()` and `close()` at any time

- `TypeCorrect` and `GuardOwnsMutex` (`GuardMeansOwner`), whatever they meet: `TypeInv`
  and `OwnOK`, the guard's handle and the mutex at each place of a call.
- `DeviceReached` (`IoOnDevice`) and `MutexIsReturned` (`MutexReturned`), as long as "cut"
  has not happened, with accesses that raise, waits that fail or time out, and `init()`
  calls that overlap.  `GInv` is of the shape of the Linux one; it adds that `_k32` goes
  with the handle except between two assignments of `init()` or `close()` (`FlagOK`),
  and that the owner of the mutex is in an access or on its way out, has its handle,
  and has taken it once.
- `CloseIsComplete` (`CloseReleases`), as long as "raced" has not happened either: `KInv`
  adds that only one thread is in `init()` (`Alone`), which finds no handle
  (`SettingOK`), and that whatever is open is the device or in a hand (`Kept`).

**`PmTableProofs`, `PmTableWindowsProofs`**

- `TypeCorrect` and `DataAreFresh` (`FreshData`), whatever fails or is closed: memory
  is read only after a transfer of the same call (`FreshOK`).  `TableIsReturned`
  (`ReadIsReturned`, an action property): a table in hand waits for the version
  query of the same caller only (`KeptOK`), which returns it whatever it finds,
  unless a command of that query raises, and then the caller gets the exception.
- `TypeCorrect`, `ReadsAreSound` (`ReadIsSound`) and `CachesAgree` (`CacheAgrees`), with
  `close()` at any time: who comes to the transfer command has seen the driver's
  update fail (`UpdateKept`), only the machine's version is ever cached (`CacheOK`), and
  what each place of a call has looked up holds, unless `cut` (`PlaceOK`).

**`CliProofs`**, for any command lines, processors and number of passes.  First the
encodings, for every value: `OffsetSurvives` (a signed 20-bit offset is encoded in 20
bits and reads back), `MarginSurvives` (the 16-bit PSM margin reads back, clipped),
`CoperNamesCore` (the word of `ccd:core:val` names the CCD, the core and the offset,
for 16 CCDs and 128 cores).  Then `main()` and `apply()`:

- `NothingSentUnchecked`: nothing is sent before `main()` has found the processor
  supported, the user privileged, the backend there and the first argument of every
  word known (`CheckedBeforeSent`, defined with the proof: it is a lemma about the
  order of `main()` rather than a hazard, and no run checks it).  It does not say
  that the line has no mistake: see "Seen while modelling".  `IInv` says what lies
  behind each place of `main()`.
- `TypeCorrect`: `TypeOK`.  It is not inductive, as nothing in it keeps the messages
  still to send from running out within `apply()`.  `TInv` adds which of the variables
  of `apply()` each phase has set, and that the tokens are those of the line.
- `SuccessMeansAll` (`AppliedMeansAll`) and `EveryArgumentReported` (`EveryTokenReported`).
  `RInv`: the tokens `apply()` is done with have a result each, in the order of the
  line; as long as none was rejected each of them took effect; and while messages are
  sent, a success so far is one of the current token.
- `MeansAsked` (`SentMeansAsked`): every request carries what its argument says, read
  back from the word as the SMU reads it.  Each argument and each notation has a
  clause of its own (`Means`): the offset and the core of `set-coper` in its three
  notations, the clock, CCD, CCX and core of `oc-clk-per-core`, the offset for all
  cores, numbers that may be given in finer units (`tctl-temp`, `pbo-scalar`), numbers
  in 8.8 (`apu-skin-temp` and its kin), and plain numbers such as `stapm-limit`.  A
  clause speaks of a value its field has room for (a core below 16 where the driver
  takes a core's number alone, a CCX below 16, 20 bits of offset, 32 bits of a
  number): the code checks none of this, and a larger value is cut.  The CCX given to
  `set-coper` is left out of this property, being the one field that is lost: the run
  `coper_ccx`.  `SInv`: every request is one of a token that may be sent, and carries
  the word of that token.
- `PassesAgree` (`PassesRepeat`).  A pass cannot be compared with the one before by what
  it has sent so far alone, since the next request depends on where `apply()` is in the
  line.  `ChainInv` says that requests follow each other (`Chained`): after a request
  comes the next message of the same token, or the first of the next token that has
  one, wherever the results went; the first is the first such token of the line; and
  a pass that is over has left none out.  Two sequences with one start and one
  successor agree, by the least place where they would not.

The sequence operators of the community modules are not opened: what is needed of
them (`FlattenSeq` here) is stated as lemmas and derived from their definitions over
functions.

**`ReadoutProofs`**, for any jobs (`JobsAssumption`: a program of the command line or one
call, a family that is a number, CCDs among eight places, any number of them passed
to the sensors), outcomes, table versions, and any number of `close()` calls.

- `Whereabouts`: the thread is at a place of the call it makes, the calls still to come
  are the rest of one of the programs (`Place`), and none of them has shown anything
  or had an access (`Ahead`).  Every theorem below rests on it: a value shown stays what
  it was when its call ended, because no later call is the same one.
- `EveryProcessorServed` (`ProcessorServed`), for every family, model and name: the
  dispatch of each family is a case analysis over its conditions.
- `RaisesExplained` (`RaisedForCause`): what leaves a call has a cause there.  `Backed`:
  whoever is at an access without a backend was overtaken by a `close()`, or its
  `init()` has failed and the call tries all the same.  `Untouched`: only
  `get_ccd_count` ensures a backend after its first access, and it catches what that
  raises; so an OSError leaves the functions that answer a failed access with a
  value, a count or a status only before their first access.
- `VersionTold` (`VersionIsFirmwares`), by what each of the four sources has answered;
  `CcdsCounted` (`CcdExact`); `EveryMessageReported` (`SentIsReported`), where a status
  other than OK does not say that the SMU has not executed the command: one that was
  given up, or cut by an OSError after its doorbell, may be executed.  `VersionPlace`,
  `CcdPlace` and `SendPlace` say, for each number of accesses a call has made, what
  their outcomes were and what the call has kept of them; what it shows at the end is
  read off that.
- `CoresListedOwn` (`SensorsAreOwn`), for every version and size of a table, any parked
  cores, and a number of CCDs the processors of the tables have (`Possible`: one or
  two, one for Picasso): the power, voltage, temperature and clock of a listed core
  are its own.  Of the other metrics it says nothing; residencies of the cores 8 to
  11 of Strix Point are another's (`sensors.py:728`).  `TrueCount`: either each array
  a core needs has `Room` for as many cells as there are cores, so that an offset
  counted from its beginning lies in it
  (`WithinRoom`); or it has room for the first of them, and the temperatures follow
  the voltages (`Follows`), so that what is taken for the voltage of any other core is
  a temperature, which no limit lets pass (`Distrusted`).  Only the layout of Picasso
  has neither with two CCDs, which no processor with that layout has.
- `RunningListed`: where every array of a layout has room for every core within the
  table (`Complete`), each core that runs is listed, with its own cells of all the
  metrics.  Of the 27 versions of the runs, 17 are such; the others, those of Picasso,
  of Matisse with sixteen cores and of Strix Point, are the ones for which TLC finds
  `RunningCoresListed` violated.

The proofs assume the named `ASSUME`s of the modules they extend (`NARGS` positive,
a process for each thread, ...), which every run evaluates.

**Only model-checked**: liveness (`EveryCallReturns`, `EveryReadReturns`), since weak
fairness and ENABLED are beyond the prover.

## 5. What is not modelled

- The contents of tables of opcodes, register addresses, sensor offsets and
  display names: data, which a model would repeat.  So are the fields that
  `read_sensors` decodes for a version: it reads each at a constant offset, with a
  check of the length.
- Formatting, JSON output, help texts, the update check.
- An interrupt while a thread waits for the lock file, and during the reads of
  the command line (`main` does not catch it there).
- Parsing of numbers and quotes, of `/proc/cpuinfo`, the registry and `sysctl`: a
  value is the integers `int()` finds, a word the tokens `shlex.split` finds, a
  processor its family, model and name.
- The IOKit, PawnIO and PCI calls themselves, beyond that they may fail.
- Where on a package the fuses of `get_ccd_count` lie (`smu.py:314`): an address by
  family, which the model takes for the right one.
- In `MacOs`, the guard entered without the lock file: it is the function of
  `linux.py`, and `LinuxMailbox` has it.
- The copy of a PM table from memory is one step: another program's transfer
  during it would mix two samples, which no document excludes.

## 6. Plan

Done: the mailbox, its proofs and its refinement; both lifecycles and their
proofs; the PM table on three platforms and its proofs; the access paths of macOS
and their proofs; the facade, CPU detection and the layout of cores, and their
proofs; the command line, `apply()` and the encodings, and their proofs.  In order:

1. `AnswersAreOwn` under exceptions and kills: it fails as stated, since a command
   left behind is answered to nobody; what can be kept is that the next call on
   the mailbox clears the response.  State it, and prove it from `NoBypass`.
2. The history of `LinuxMailbox` as a constraint on the environment: which command left
   behind by whom, so that `OwnAnswer` can be stated for every call but those that meet
   one.
