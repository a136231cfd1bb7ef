------------------------------- MODULE SmnBus -------------------------------
(***************************************************************************)
(* The hardware behind every backend of ZenMaster: the system management   *)
(* network (SMN) of the processor, reached through one index/data register *)
(* pair, and the SMU, the firmware that serves mailboxes made of SMN       *)
(* registers.                                                              *)
(*                                                                         *)
(* An access takes two steps: the address goes to the index register, the  *)
(* data register then reads or writes whatever address the index register  *)
(* holds at that moment.  Nothing ties the two steps together except the   *)
(* locks of the programs that make them.                                   *)
(***************************************************************************)
EXTENDS SmuWords, FiniteSets

CONSTANTS
    MsgAt,      \* the address of the message register, per mailbox
    RspAt,      \* the address of the response register
    ArgsAt      \* the address of the first argument register

ASSUME AddressAssumption == /\ MsgAt \in [Mailbox -> Nat]
                            /\ RspAt \in [Mailbox -> Nat]
                            /\ ArgsAt \in [Mailbox -> Nat]

VARIABLES
    index,      \* the address in the index register
    reg,        \* the contents of every SMN register
    pending,    \* what was written to a message register and not served yet
    executed    \* what the SMU has executed, and with which arguments

busVars == <<index, reg, pending, executed>>

-----------------------------------------------------------------------------
(* The registers, and their contents.                                      *)

Rsp(m)    == RspAt[m]
Msg(m)    == MsgAt[m]
Arg(m, i) == ArgsAt[m] + 4 * i
Args(m)   == {Arg(m, i) : i \in 0..NARGS-1}
Smn(w)    == w

Registers(m) == {Rsp(m), Msg(m)} \cup Args(m)

Reg == Word \cup UNION {Registers(m) : m \in Mailbox}

\* A message or response register has no other use.  Nothing in the code
\* sees to it: it is a fact about the addresses in mailbox.py, and module
\* Mailboxes says of which mailboxes it is one.  RSMU and HSMP together do
\* not satisfy it.  Argument registers may be shared by mailboxes.
ASSUME ApartAssumption ==
    /\ \A m, n \in Mailbox : /\ Rsp(m) # Msg(n)
                             /\ Rsp(m) \notin Args(n) /\ Msg(m) \notin Args(n)
                             /\ Msg(m) = Msg(n) => m = n
    /\ \A m \in Mailbox : Registers(m) \cap Word = {}

BusTypeOK == /\ index \in Reg
             /\ reg \in [Reg -> Value]
             /\ pending \in [Mailbox -> SUBSET Value]
             /\ executed \subseteq Execution

BusInit == /\ index = Smn(ProbeWord)
           /\ reg = [r \in Reg |-> Zero]
           /\ pending = [m \in Mailbox |-> {}]
           /\ executed = {}

-----------------------------------------------------------------------------
(* The half steps of an access.                                            *)

WriteIndex(r) == /\ index' = r
                 /\ UNCHANGED <<reg, pending, executed>>

\* A write reaches register r; a write to a message register also rings the
\* doorbell of that mailbox.
WriteRegister(r, v) ==
    /\ reg' = [reg EXCEPT ![r] = v]
    /\ pending' = [m \in Mailbox |-> IF r = Msg(m) THEN pending[m] \cup {v}
                                                   ELSE pending[m]]
    /\ UNCHANGED <<index, executed>>

\* The SMU serves what was rung on mailbox m: it executes the command with
\* the arguments the registers hold now, leaves its outputs in them, and
\* fills in the response.
Firmware(m) ==
    \E v \in pending[m] :
       /\ pending' = [pending EXCEPT ![m] = @ \ {v}]
       /\ executed' = executed \cup
             {[cmd |-> v, args |-> [i \in 0..NARGS-1 |-> reg[Arg(m, i)]]]}
       /\ reg' = [r \in Reg |->
             IF r = Rsp(m) THEN RspOf(v.job)
             ELSE IF r \in Args(m) THEN OutOf(v.job)
             ELSE reg[r]]
       /\ UNCHANGED index

=============================================================================
