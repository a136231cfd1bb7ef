------------------------------- MODULE Readout -------------------------------
(***************************************************************************)
(* What zenmaster/smu.py makes of the backends for those who read: the     *)
(* processor, SMN registers, the CCD count, the versions, the sensors of   *)
(* the cores; send_arg, which reads back statuses; and the reports that    *)
(* the command line puts together from them (_show_info, _show_sensors).   *)
(*                                                                         *)
(* One thread makes the calls of a program, one after the other.  A call   *)
(* ensures that there is a backend, then makes its accesses, each of which *)
(* is served or refused or raises.  Another thread may call init() or      *)
(* close() between any two steps.  What happens inside an access and       *)
(* inside init() is in the modules of the backends: here each may end in   *)
(* any way one of the three backends lets it end.                          *)
(***************************************************************************)
EXTENDS CpuDetect, CoreSensors, Runner, FiniteSets

CONSTANTS
    Jobs,       \* programs, each with the machine it runs on
    MaxCloses   \* bound: calls of close() by the other thread

VARIABLES
    job,        \* the machine
    program,    \* the calls still to be made
    pc,         \* where the thread is in the first of them
    k,          \* the access that comes next
    words,      \* what the accesses of the call have returned
    shown,      \* what each call has returned
    raised,     \* the exception that has left a call
    up,         \* there is a backend
    closes,     \* calls of close() so far
    denied,     \* history: init() failed in the call
    overtaken,  \* history: close() has come since the call ensured a backend
    outcomes    \* history: the outcomes of the accesses of each call

history == <<closes, denied, overtaken>>
vars == <<job, program, pc, k, words, shown, raised, up, history, outcomes>>

LibraryCall == {"resolve", "start", "read_smn", "write_smn", "ccd", "bios", "version",
                "send", "table", "cores", "decode"}

\* main() with --info and with --sensors.
Info    == <<"start", "bios", "version", "ccd">>
Sensors == <<"table", "cores">>

\* What is run here: one of them, or a program that makes a single call.
Programs == {Info, Sensors} \cup {<<c>> : c \in LibraryCall}

\* A package has room for 8 CCDs, and a fuse disables one that is there.  wide
\* says that the address or the value passed has more bits than a register.
ASSUME JobsAssumption ==
    \A j \in Jobs : /\ j.program \in Programs
                    /\ j.cpu.family \in Nat
                    /\ j.present \subseteq 0..7
                    /\ j.disabled \subseteq j.present
                    /\ j.load \in Load
                    /\ j.ccds \in Nat
                    /\ j.wide \in BOOLEAN

\* ArgumentError stands for struct.error and ctypes.ArgumentError, the
\* exceptions of a backend that cannot pack an address or a value.
Exception == {"OSError", "SMUNotInitialized", "ArgumentError", "UnsupportedCPU"}
Outcome   == {"served", "refused", "OSError", "SMUNotInitialized", "ArgumentError"}

\* A word is the set of its bits that are 1.
Word       == SUBSET (0..31)
Zero       == {}
OK         == {0}                           \* SMU_OK
Failed     == 0..7                          \* SMU_FAILED
Rejected   == (0..7) \ {1}                  \* SMU_REJECTED_PREREQ
BiosWord   == {1}
Firmware   == {2}                           \* the version of the SMU
Driver     == {3}                           \* the version of the driver
Register   == {4}
TableWord  == {5}

\* The bits 22 to 29 of the first fuse say which CCDs there are; its last two
\* and the first six of the second say which of them are disabled.
Fuse1 == {b + 22 : b \in job.present} \cup {b + 30 : b \in job.disabled \cap {0, 1}}
Fuse2 == {b - 2 : b \in job.disabled \ {0, 1}}

\* The bits of the second fuse are taken as they stand.
BugCountCcds(first, second) ==
    LET disabled == (second \cap (0..5)) \cup {b - 30 : b \in first \cap {30, 31}}
        enabled  == {b - 22 : b \in first \cap (22..29)} \ disabled
    IN  IF enabled = {} THEN 1 ELSE Cardinality(enabled)

CountCcds(first, second) ==
    LET disabled == {b + 2 : b \in second \cap (0..5)}
                    \cup {b - 30 : b \in first \cap {30, 31}}
        enabled  == {b - 22 : b \in first \cap (22..29)} \ disabled
    IN  IF enabled = {} THEN 1 ELSE Cardinality(enabled)

Code     == Codename(job.cpu)
Messages == Lookup(Code, "tctl-temp")

Cores(ccds) == CoreSensorsOf(job.ver, TableSize[job.ver], ccds, job.load, job.parked)

Making(calls) == program # <<>> /\ Head(program) \in calls

-----------------------------------------------------------------------------
Init ==
    /\ job \in Jobs
    /\ program = job.program
    /\ pc = "next" /\ k = 1 /\ words = <<>>
    /\ shown = <<>> /\ raised = "none"
    /\ up \in BOOLEAN
    /\ closes = 0 /\ denied = FALSE /\ overtaken = FALSE
    /\ outcomes = <<>>

\* A call has got a value.
With(f, call, value) == [c \in DOMAIN f \cup {call} |-> IF c = call THEN value ELSE f[c]]

\* The call returns.
Return(value) ==
    /\ shown' = With(shown, Head(program), value)
    /\ program' = Tail(program)
    /\ pc' = "next" /\ k' = 1 /\ words' = <<>>
    /\ UNCHANGED raised

\* An exception leaves the call, and with it the program: _show_info drops it.
Raise(e) ==
    /\ raised' = e
    /\ pc' = "done"
    /\ UNCHANGED <<program, k, words, shown>>

\* The call goes on at the given place.
GoOn(place, n) == /\ pc' = place
                  /\ k' = n
                  /\ UNCHANGED <<program, shown, raised>>

-----------------------------------------------------------------------------
(* The start of a call.                                                    *)

Fresh == denied' = FALSE /\ overtaken' = FALSE /\ UNCHANGED closes

\* resolve(), and read_core_sensors() of a table the caller has.
Compute ==
    /\ pc = "next"
    /\ \/ Making({"resolve"}) /\ Return(Code)
       \/ Making({"decode"}) /\ Return(Cores(job.ccds))
    /\ Fresh
    /\ UNCHANGED <<job, up, outcomes>>

\* --info calls init() once.  Without a backend nothing is read, and the CCD
\* count is guessed; an OSError leaves main().
Start ==
    /\ pc = "next"
    /\ Making({"start"})
    /\ \/ \E ok \in BOOLEAN :
             /\ up' = (up \/ ok)
             /\ IF up' THEN Return(TRUE)
                ELSE /\ shown' = [ccd |-> IF CpuType(job.cpu) = "Amd_Apu" THEN 1 ELSE 0]
                     /\ pc' = "done"
                     /\ UNCHANGED <<program, k, words, raised>>
       \/ ~up /\ Raise("OSError") /\ UNCHANGED up
    /\ Fresh
    /\ UNCHANGED <<job, outcomes>>

\* Of the calls that reach the backend only send_arg looks at the processor.
Begin ==
    /\ pc = "next"
    /\ Making(LibraryCall \ {"resolve", "start", "decode"})
    /\ IF Making({"send"}) /\ Code \notin Supported
       THEN Raise("UnsupportedCPU") /\ UNCHANGED outcomes
       ELSE /\ GoOn("ensure", 1)
            /\ outcomes' = With(outcomes, Head(program), <<>>)
            /\ UNCHANGED words
    /\ Fresh
    /\ UNCHANGED <<job, up>>

\* The result of ensure_backend is dropped.
BugEnsure ==
    /\ pc = "ensure"
    /\ \E ok \in BOOLEAN : up' = (up \/ ok)
    /\ IF Making({"send"}) /\ Messages = <<>> THEN Return(<<>>)
       ELSE IF Making({"ccd"}) /\ k = 1 THEN GoOn("ensure", 2) /\ UNCHANGED words
       ELSE GoOn("access", k) /\ UNCHANGED words
    /\ denied' = (denied \/ ~up')
    /\ overtaken' = FALSE
    /\ UNCHANGED <<job, closes, outcomes>>

\* ensure_backend, when it returns.  get_ccd_count calls it, and then read_smn
\* does, twice; the functions on registers do without an access when there is
\* no backend, the others try.
Ensure ==
    /\ pc = "ensure"
    /\ \E ok \in BOOLEAN : up' = (up \/ ok)
    /\ IF Making({"read_smn", "write_smn"}) /\ ~up' THEN Return(Zero)
       ELSE IF Making({"ccd"}) /\ k = 1
       THEN IF up' THEN GoOn("ensure", 2) /\ UNCHANGED words ELSE Return(1)
       ELSE IF Making({"ccd"}) /\ ~up'
       THEN IF k = 2 THEN GoOn("ensure", 3) /\ words' = <<Zero>>
            ELSE Return(CountCcds(words[1], Zero))
       ELSE IF Making({"send"}) /\ Messages = <<>> THEN Return(<<>>)
       ELSE GoOn("access", k) /\ UNCHANGED words
    /\ denied' = (denied \/ ~up')
    /\ overtaken' = FALSE
    /\ UNCHANGED <<job, closes, outcomes>>

\* ensure_backend catches what init() says of the machine, not the OSError of
\* a file it cannot read: that leaves the call.  Only get_ccd_count has its
\* two reads, with the ensure_backend in them, inside a try.
EnsureRaises ==
    /\ pc = "ensure"
    /\ ~up
    /\ IF Making({"ccd"}) /\ k # 1 THEN Return(1) ELSE Raise("OSError")
    /\ denied' = TRUE
    /\ overtaken' = FALSE
    /\ UNCHANGED <<job, up, closes, outcomes>>

-----------------------------------------------------------------------------
(* The accesses.                                                           *)

\* An access of one of the calls ends; without a backend it raises, except
\* that a table may be had from the files of the module (PmTable).
Access(calls, o) ==
    /\ pc = "access"
    /\ Making(calls)
    /\ o \in IF up THEN {"served", "refused", "OSError"} \cup
                  (IF job.wide /\ Making({"read_smn", "write_smn", "send"})
                   THEN {"ArgumentError"} ELSE {})
             ELSE {"SMUNotInitialized"} \cup
                  (IF Making({"table", "cores"}) THEN {"served", "refused"} ELSE {})
    /\ outcomes' = [outcomes EXCEPT ![Head(program)] = Append(@, o)]
    /\ UNCHANGED <<job, up, history>>

\* read_smn and write_smn answer an OSError like a register that is 0, and
\* let the other exceptions out.
AccessSmn ==
    \E o \in Outcome :
       /\ Access({"read_smn", "write_smn", "ccd"}, o)
       /\ LET got(word) == IF o = "served" THEN word ELSE Zero IN
          IF o \in {"SMUNotInitialized", "ArgumentError"} THEN Raise(o)
          ELSE IF ~Making({"ccd"}) THEN Return(got(Register))
          ELSE IF k = 2 THEN GoOn("ensure", 3) /\ words' = <<got(Fuse1)>>
          ELSE Return(CountCcds(words[1], got(Fuse2)))

QueryBios ==
    \E o \in Outcome :
       /\ Access({"bios"}, o)
       /\ IF o = "served" THEN Return(BiosWord)
          ELSE IF o = "refused" THEN Return(Zero) ELSE Raise(o)

\* get_smu_version: what the backend has of that name, whatever it raises;
\* then the query; then the files.  A version that is 0 counts as refused.
QueryVersion ==
    \E o \in Outcome :
       /\ Access({"version"}, o)
       /\ IF o = "served" THEN Return(Firmware)
          ELSE IF k = 1 THEN GoOn("access", 2) /\ UNCHANGED words
          ELSE IF o = "refused" THEN GoOn("file", 3) /\ UNCHANGED words
          ELSE Raise(o)

\* The files of the module, where there are any: the version of the SMU, then
\* that of the driver.
File(first, second) ==
    /\ pc = "file"
    /\ \E o \in {"served", "refused"} :
          /\ outcomes' = [outcomes EXCEPT ![Head(program)] = Append(@, o)]
          /\ IF o = "served" THEN Return(IF k = 3 THEN first ELSE second)
             ELSE IF k = 3 THEN GoOn("file", 4) /\ UNCHANGED words
             ELSE Return(Zero)
    /\ UNCHANGED <<job, up, history>>

\* The files are read in the other order.
BugVersionFile == File(Driver, Firmware)

VersionFile == File(Firmware, Driver)

\* A message whose access fails is left out of the list.
BugSendArg ==
    \E o \in Outcome :
       /\ Access({"send"}, o)
       /\ LET status == IF o = "served" THEN <<OK>>
                        ELSE IF o = "refused" THEN <<Rejected>> ELSE <<>>
              list   == words \o status
          IN  IF o = "SMUNotInitialized" THEN Raise(o)
              ELSE IF k = Len(Messages) THEN Return(list)
              ELSE GoOn("access", k + 1) /\ words' = list

\* send_arg: one message after the other, whatever becomes of them.
SendArg ==
    \E o \in Outcome :
       /\ Access({"send"}, o)
       /\ LET status == IF o = "served" THEN OK ELSE IF o = "refused" THEN Rejected ELSE Failed
              list   == Append(words, status)
          IN  IF o = "SMUNotInitialized" THEN Raise(o)
              ELSE IF k = Len(Messages) THEN Return(list)
              ELSE GoOn("access", k + 1) /\ words' = list

\* read_pm_sensors and read_pm_core_sensors.  Without a table --sensors
\* exits; it shows no cores when only the second reading fails.
ReadTable ==
    \E o \in Outcome :
       /\ Access({"table", "cores"}, o)
       /\ IF o = "served" THEN Return(IF Making({"cores"}) THEN Cores(1) ELSE TableWord)
          ELSE IF o # "refused" THEN Raise(o)
          ELSE /\ pc' = "done"
               /\ UNCHANGED <<program, k, words, shown, raised>>

-----------------------------------------------------------------------------
Finish ==
    /\ pc = "next"
    /\ program = <<>>
    /\ pc' = "done"
    /\ UNCHANGED <<job, program, k, words, shown, raised, up, history, outcomes>>

OtherInit ==
    /\ ~up /\ pc # "done"
    /\ up' = TRUE
    /\ UNCHANGED <<job, program, pc, k, words, shown, raised, history, outcomes>>

OtherClose ==
    /\ up /\ pc # "done"
    /\ closes < MaxCloses
    /\ up' = FALSE
    /\ closes' = closes + 1
    /\ overtaken' = TRUE
    /\ UNCHANGED <<job, program, pc, k, words, shown, raised, denied, outcomes>>

Done == pc = "done" /\ UNCHANGED vars

Next == \/ Compute \/ Start \/ Begin \/ Ensure \/ EnsureRaises
        \/ AccessSmn \/ QueryBios \/ QueryVersion \/ VersionFile \/ SendArg \/ ReadTable
        \/ Finish \/ OtherInit \/ OtherClose \/ Done

Spec == Init /\ [][Next]_vars

-----------------------------------------------------------------------------
(* Properties.                                                             *)

\* main() lets a processor through (Amd_Apu, Amd_Desktop_Cpu) exactly when
\* _FAMILY_SOCKET and PM_TABLE_CMDS both know the code name it detected, for
\* all numbers and names: otherwise every argument and every reading of a
\* supported processor would be refused later.
ProcessorServed ==
    "resolve" \in DOMAIN shown =>
        LET admitted == CpuType(job.cpu) \in {"Amd_Apu", "Amd_Desktop_Cpu"}
        IN  /\ admitted <=> shown.resolve \in Supported
            /\ admitted <=> HasTable(shown.resolve)

\* What leaves a call has a cause there.  SMUNotInitialized: a close() has
\* overtaken the call, or init() has failed and the function tries all the
\* same, which those on registers do not.  OSError: the functions that answer
\* a failed access with a value, a count or a status let one out only before
\* their first access, that is from init().  An argument that cannot be packed:
\* the caller has passed it to read_smn or write_smn.
RaisedForCause ==
    /\ raised = "SMUNotInitialized" =>
          overtaken \/ (denied /\ ~Making({"read_smn", "write_smn", "ccd"}))
    /\ raised = "OSError" =>
          \/ Making({"start", "bios", "version", "table", "cores"})
          \/ outcomes[Head(program)] = <<>>
    /\ raised = "ArgumentError" => job.wide /\ Making({"read_smn", "write_smn"})

\* send_arg accounts for every message of the argument: its list has one
\* entry for each, in their order, and each is the status of its own access:
\* OK where the SMU has answered OK, SMU_FAILED where the access has raised.
\* (What is not OK may have been executed all the same: a command that was
\* given up, or cut by an OSError after it was rung in.)  When an exception
\* takes the list away although the SMU has answered OK to a message, a
\* close() has come after it.
SentIsReported ==
    "send" \in DOMAIN outcomes =>
        /\ "send" \in DOMAIN shown =>
              /\ Len(shown.send) = Len(Messages)
              /\ \A i \in DOMAIN shown.send :
                    /\ shown.send[i] = OK <=> outcomes.send[i] = "served"
                    /\ shown.send[i] = Failed
                          <=> outcomes.send[i] \in {"OSError", "ArgumentError"}
        /\ raised # "none" /\ "served" \in {outcomes.send[i] : i \in DOMAIN outcomes.send}
              => overtaken

\* When both fuses have been read, the CCD count is the number of CCDs that
\* are there and not disabled, wherever on the package they are; it is never
\* 0.  (A refused read counts as a fuse of zeros, and disabled CCDs with it.
\* That the fuses lie where smu.py:314 looks for them is taken for granted.)
CcdExact ==
    "ccd" \in DOMAIN shown /\ "ccd" \in DOMAIN outcomes =>
        /\ shown.ccd > 0
        /\ outcomes.ccd = <<"served", "served">> /\ job.present # job.disabled =>
              shown.ccd = Cardinality(job.present \ job.disabled)

\* A version shown is that of the SMU's firmware as soon as one of the three
\* that know it has given it, the backend, the query or the file of the SMU's
\* version; that of the driver, or none, is shown only when all three have
\* been asked and the file of the driver has been read as the last.
VersionIsFirmwares ==
    "version" \in DOMAIN shown =>
        LET o     == outcomes.version
            given == \E i \in DOMAIN o \cap (1..3) : o[i] = "served"
        IN  IF given THEN shown.version = Firmware
            ELSE Len(o) = 4 /\ shown.version = IF o[4] = "served" THEN Driver ELSE Zero

\* The processors of the tables have at most two CCDs, Picasso (0x1E) has one.
Possible(ccds) == ccds \in {1, 2} /\ (ccds = 2 => Prefix(job.ver) # \h1e)

\* A core is listed with the power, voltage, temperature and clock of its own
\* cells, for every version, every load and whichever cores are parked, also
\* where the arrays are shorter than the number of cores assumed and a cell
\* of the next array is read.  The caller of "decode" passes a number of CCDs
\* that its processor can have.
SensorsAreOwn ==
    \A c \in DOMAIN shown \cap {"cores", "decode"} :
        c = "cores" \/ Possible(job.ccds) =>
            \A entry \in shown[c] : \A m \in Core :
                entry.cells[m] = [metric |-> m, core |-> entry.core]

\* Of a version that has a layout every core that runs is listed, with the
\* cells of its own of all the metrics of the layout.
RunningCoresListed ==
    "cores" \in DOMAIN shown =>
        \A c \in 0 .. CoreCount(job.ver, 1) - 1 :
            c \notin job.parked /\ Bases(job.ver) # <<>> =>
                \E entry \in shown.cores :
                    /\ entry.core = c
                    /\ \A m \in DOMAIN Bases(job.ver) :
                          entry.cells[m] = [metric |-> m, core |-> c]
=============================================================================
