------------------------------ MODULE SmuWords ------------------------------
(***************************************************************************)
(* The words that travel between ZenMaster and the SMU, abstracted to what *)
(* the properties tell apart: what a word stands for (a command, an        *)
(* argument, a response, an output, data) and the call it belongs to.      *)
(***************************************************************************)
EXTENDS Integers

CONSTANTS
    Thread,     \* the threads that use the bus, of all processes
    NoThread,   \* not a thread
    Mailbox,    \* the mailboxes of the SMU (MP1, RSMU, HSMP)
    Word,       \* SMN addresses outside the mailboxes
    ProbeWord,  \* the address init() writes to the index register (0x47)
    NARGS,      \* argument registers of a mailbox
    Backend,    \* "pci" or "ryzen_smu", what init() chose
    Kinds       \* the kinds of calls made

ASSUME ThreadAssumption  == NoThread \notin Thread
ASSUME WordAssumption    == ProbeWord \in Word
ASSUME NargsAssumption   == NARGS \in Nat \ {0}
ASSUME BackendAssumption == Backend \in {"pci", "ryzen_smu"}
ASSUME KindsAssumption   == Kinds \subseteq {"send", "query", "read", "write", "probe"}

\* A call is named by its thread and its number among that thread's calls.
Job   == [thread : Thread, n : Nat]
NoJob == [thread |-> NoThread, n |-> 0]

Value   == [what : {"zero", "op", "arg", "rsp", "out", "data"},
            job  : Job \cup {NoJob}]
Zero    == [what |-> "zero", job |-> NoJob]
OpOf(j)   == [what |-> "op",   job |-> j]
ArgOf(j)  == [what |-> "arg",  job |-> j]
RspOf(j)  == [what |-> "rsp",  job |-> j]
OutOf(j)  == [what |-> "out",  job |-> j]
DataOf(j) == [what |-> "data", job |-> j]

Arguments    == [0..NARGS-1 -> Value]
ArgumentsOf(j) == [i \in 0..NARGS-1 |-> IF i = 0 THEN ArgOf(j) ELSE Zero]
Execution    == [cmd : Value, args : Arguments]

\* What a call asks for.  init() probes the bus only on the way to "pci".
Commands  == {"send", "query"}
Request   == [kind : Kinds \ (IF Backend = "pci" THEN {} ELSE {"probe"}),
              box : Mailbox, word : Word]
NoRequest == [kind |-> "none", box |-> NoThread, word |-> ProbeWord]

\* What a call returns besides words: _send_seq gave up (SMU_FAILED), an
\* exception left the call, the probe succeeded.
Failed == [what |-> "zero", job |-> [thread |-> NoThread, n |-> 1]]
Raised == [what |-> "zero", job |-> [thread |-> NoThread, n |-> 2]]
Probed == [what |-> "data", job |-> NoJob]

\* The answer of the SMU to command j, sent with send or with query.
CommandAnswer(kind, j) ==
    IF kind = "send" THEN <<RspOf(j)>>
    ELSE [i \in 1..NARGS+1 |-> IF i = 1 THEN RspOf(j) ELSE OutOf(j)]

=============================================================================
