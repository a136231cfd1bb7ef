------------------------- MODULE LinuxMailboxProofs -------------------------
(***************************************************************************)
(* Proofs about LinuxMailbox, for every set of threads, processes,         *)
(* mailboxes and addresses, any number of calls, both backends.            *)
(***************************************************************************)
EXTENDS LinuxMailbox, SequenceTheorems, TLAPS

-----------------------------------------------------------------------------
(* Type correctness.                                                       *)

TypeInv == TypeOK /\ StepOK

\* Where the registers lie: all that the proofs use of the addresses.
LEMMA Layout ==
    /\ \A m \in Mailbox : Rsp(m) \in Reg /\ Msg(m) \in Reg /\ Rsp(m) # Msg(m)
    /\ \A m \in Mailbox, i \in 0..NARGS-1 :
          Arg(m, i) \in Reg /\ Arg(m, i) \in Args(m)
    /\ \A m, n \in Mailbox, i \in 0..NARGS-1 : Arg(m, i) # Rsp(n) /\ Arg(m, i) # Msg(n)
    /\ \A m \in Mailbox : \A i, k \in 0..NARGS-1 : Arg(m, i) = Arg(m, k) => i = k
    /\ \A w \in Word : Smn(w) \in Reg
    /\ \A w \in Word, m \in Mailbox : Smn(w) # Rsp(m) /\ Smn(w) # Msg(m) /\ Smn(w) \notin Args(m)
    /\ \A m, n \in Mailbox : Rsp(m) # Msg(n) /\ (Msg(m) = Msg(n) => m = n)
<1>1. \A m \in Mailbox, i \in 0..NARGS-1 : Arg(m, i) \in Args(m)
  BY DEF Args
<1>2. \A m \in Mailbox : Registers(m) \subseteq Reg
  BY DEF Reg
<1>3. \A m \in Mailbox : \A i, k \in 0..NARGS-1 : Arg(m, i) = Arg(m, k) => i = k
  BY AddressAssumption, NargsAssumption DEF Arg
<1> QED BY <1>1, <1>2, <1>3, ApartAssumption DEF Registers, Reg, Smn

\* What a register sequence writes: its mailbox and no other's message.
LEMMA Written ==
    ASSUME NEW q \in Request, NEW k \in 0..LastWrite(q)
    PROVE  /\ \A m \in Mailbox : WriteTarget(q, k) = Msg(m) =>
                q.kind # "write" /\ m = q.box /\ k = NARGS + 1
           /\ q.kind # "write" => \A w \in Word : WriteTarget(q, k) # Smn(w)
<1>1. q.box \in Mailbox /\ q.word \in Word
  BY DEF Request
<1>2. CASE q.kind = "write"
  BY <1>1, <1>2, Layout DEF WriteTarget
<1>3. CASE q.kind # "write"
  <2>1. k \in 0..NARGS+1
    BY <1>3 DEF LastWrite
  <2>2. CASE k = 0
    BY <1>1, <1>3, <2>2, Layout DEF WriteTarget
  <2>3. CASE k \in 1..NARGS
    <3>1. k - 1 \in 0..NARGS-1 /\ WriteTarget(q, k) = Arg(q.box, k - 1)
      BY <1>3, <2>3, NargsAssumption DEF WriteTarget
    <3>2. Arg(q.box, k - 1) \in Args(q.box)
      BY <1>1, <3>1, Layout
    <3>3. \A m \in Mailbox : Arg(q.box, k - 1) # Msg(m)
      BY <1>1, <3>1, Layout
    <3> QED BY <1>1, <3>1, <3>2, <3>3, Layout
  <2>4. CASE k = NARGS + 1
    <3>1. WriteTarget(q, k) = Msg(q.box)
      BY <1>3, <2>4, NargsAssumption DEF WriteTarget
    <3>2. \A w \in Word : Msg(q.box) # Smn(w)
      BY <1>1, Layout
    <3>3. \A m \in Mailbox : Msg(q.box) = Msg(m) => m = q.box
      BY <1>1, Layout
    <3> QED BY <1>3, <2>4, <3>1, <3>2, <3>3
  <2> QED BY <2>1, <2>2, <2>3, <2>4, NargsAssumption
<1> QED BY <1>2, <1>3

LEMMA TargetType ==
    ASSUME TypeInv, NEW t \in Thread, pc[t] \in Access
    PROVE  Target(t) \in Reg
<1> DEFINE q == req[t]
<1>1. q \in Request /\ q.box \in Mailbox /\ q.word \in Word
  BY DEF TypeInv, TypeOK, Access, Request
<1>2. step[t] \in 0..NARGS+1
  BY DEF TypeInv, TypeOK
<1>3. /\ Smn(q.word) \in Reg /\ Smn(ProbeWord) \in Reg
      /\ Rsp(q.box) \in Reg /\ Msg(q.box) \in Reg
      /\ \A i \in 0..NARGS-1 : Arg(q.box, i) \in Reg
  BY <1>1, WordAssumption, Layout
<1>4. CASE pc[t] \in {"write", "writeData"}
  <2>1. Target(t) = WriteTarget(q, step[t])
    BY <1>4 DEF Target
  <2>2. WriteTarget(q, step[t]) \in Reg
    BY <1>2, <1>3, NargsAssumption DEF WriteTarget
  <2> QED BY <2>1, <2>2
<1>5. CASE pc[t] \in {"poll", "pollData"}
  BY <1>3, <1>5 DEF Target
<1>6. CASE pc[t] \in {"fetch", "fetchData"}
  <2>1. Target(t) = FetchTarget(q, step[t])
    BY <1>6 DEF Target
  <2>2. q.kind # "read" => step[t] \in 0..NARGS-1
    BY <1>2, <1>6, NargsAssumption DEF TypeInv, StepOK, LastFetch
  <2> QED BY <2>1, <2>2, <1>3 DEF FetchTarget
<1>7. CASE pc[t] \in {"probe", "probeData"}
  BY <1>3, <1>7 DEF Target
<1> QED BY <1>4, <1>5, <1>6, <1>7 DEF Access

LEMMA ValueTypes ==
    ASSUME NEW j \in Job
    PROVE  /\ OpOf(j) \in Value /\ ArgOf(j) \in Value /\ RspOf(j) \in Value
           /\ OutOf(j) \in Value /\ DataOf(j) \in Value /\ Zero \in Value
BY DEF Value, OpOf, ArgOf, RspOf, OutOf, DataOf, Zero

LEMMA WriteValueType ==
    ASSUME TypeInv, NEW t \in Thread
    PROVE  WriteValue(t) \in Value
<1>1. MyJob(t) \in Job
  BY DEF MyJob, Job, TypeInv, TypeOK
<1> QED BY <1>1, ValueTypes DEF WriteValue

LEMMA InitTypes == Init => TypeInv
<1> SUFFICES ASSUME Init PROVE TypeInv
  OBVIOUS
<1>1. BusTypeOK
  <2>1. Smn(ProbeWord) \in Reg
    BY WordAssumption, Layout
  <2>2. Zero \in Value
    BY DEF Zero, Value
  <2> QED BY <2>1, <2>2 DEF Init, BusInit, BusTypeOK
<1>2. StepOK
  BY NargsAssumption DEF Init, StepOK
<1>3. TypeOK
  BY <1>1, ProcAssumption, NargsAssumption DEF Init, TypeOK
<1> QED BY <1>2, <1>3 DEF TypeInv

\* The bus stays well typed: only accesses and the SMU change it.
LEMMA BusTypes == TypeInv /\ [Next]_vars => BusTypeOK'
<1> SUFFICES ASSUME TypeInv, [Next]_vars PROVE BusTypeOK'
  OBVIOUS
<1> USE DEF BusTypeOK
<1>b. BusTypeOK
  BY DEF TypeInv, TypeOK
<1>1. CASE UNCHANGED busVars
  BY <1>1, <1>b DEF busVars
<1>2. ASSUME NEW t \in Thread, SetAddress(t) PROVE BusTypeOK'
  <2>1. Target(t) \in Reg
    BY <1>2, TargetType DEF SetAddress
  <2> QED BY <2>1, <1>2, <1>b DEF SetAddress, WriteIndex
<1>3. ASSUME NEW t \in Thread, WriteData(t) PROVE BusTypeOK'
  <2> DEFINE r == IF Backend = "pci" THEN index ELSE Target(t)
             v == WriteValue(t)
  <2>1. r \in Reg /\ v \in Value
    BY <1>3, <1>b, TargetType, WriteValueType DEF WriteData, Access
  <2>2. WriteRegister(r, v)
    BY <1>3 DEF WriteData
  <2> HIDE DEF r, v
  <2> QED BY <2>1, <2>2, <1>b DEF WriteRegister
<1>4. ASSUME NEW m \in Mailbox, Answer(m) PROVE BusTypeOK'
  <2>1. PICK v \in pending[m] :
          /\ pending' = [pending EXCEPT ![m] = @ \ {v}]
          /\ executed' = executed \cup
                {[cmd |-> v, args |-> [i \in 0..NARGS-1 |-> reg[Arg(m, i)]]]}
          /\ reg' = [r \in Reg |->
                IF r = Rsp(m) THEN RspOf(v.job)
                ELSE IF r \in Args(m) THEN OutOf(v.job)
                ELSE reg[r]]
          /\ UNCHANGED index
    BY <1>4 DEF Answer, Firmware
  <2>2. v \in Value
    BY <1>b
  <2>3. RspOf(v.job) \in Value /\ OutOf(v.job) \in Value
    BY <2>2 DEF Value, RspOf, OutOf
  <2>4. \A i \in 0..NARGS-1 : reg[Arg(m, i)] \in Value
    BY <1>b, Layout
  <2>5. executed' \subseteq Execution
    BY <2>1, <2>2, <2>4, <1>b DEF Execution, Arguments
  <2> QED BY <2>1, <2>3, <2>5, <1>b
<1>5. CASE UNCHANGED vars
  BY <1>5, <1>1 DEF vars
<1>6. CASE Next
  <2>1. CASE \E t \in Thread : ThreadStep(t)
    <3> PICK t \in Thread : ThreadStep(t)
      BY <2>1
    <3> QED BY <1>1, <1>2, <1>3 DEF ThreadStep, Call, TakeLock, OpenFile, OpenFails,
            TakeFlock, GiveUp, PollData, PollGiveUp, FetchData, ProbeData, Expire,
            Raise, Unlock, Return
  <2>2. CASE \E p \in Process : Crash(p)
    BY <2>2, <1>1 DEF Crash
  <2>3. CASE \E m \in Mailbox : Answer(m)
    BY <2>3, <1>4
  <2>4. CASE Finished
    BY <2>4, <1>5 DEF Finished
  <2> QED BY <1>6, <2>1, <2>2, <2>3, <2>4 DEF Next
<1> QED BY <1>5, <1>6

\* Each action of a thread keeps the types, given that it keeps those of
\* the bus.
LEMMA ThreadTypes ==
    ASSUME TypeInv, BusTypeOK', NEW t \in Thread, ThreadStep(t)
    PROVE  TypeInv'
<1> USE DEF TypeInv, TypeOK, Goto
<1>q. \A q \in Request : LastWrite(q) \in 0..NARGS+1 /\ LastFetch(q) \in 0..NARGS+1
  BY NargsAssumption DEF LastWrite, LastFetch
<1>1. CASE Call(t)
  <2>1. TypeOK'
    BY <1>1 DEF Call, Guarded, Access
  <2>2. StepOK'
    BY <1>1 DEF Call, StepOK
  <2> QED BY <2>1, <2>2
<1>2. CASE TakeLock(t)
  <2>1. TypeOK'
    BY <1>2, ProcAssumption DEF TakeLock, Guarded, Access
  <2>2. StepOK'
    BY <1>2 DEF TakeLock, StepOK
  <2> QED BY <2>1, <2>2
<1>3. CASE OpenFile(t)
  <2>1. TypeOK'
    BY <1>3 DEF OpenFile, Guarded, Access
  <2>2. StepOK'
    BY <1>3 DEF OpenFile, StepOK
  <2> QED BY <2>1, <2>2
<1>first. pc[t] \in {"open", "flock"} =>
            /\ step[t] = 0
            /\ FirstPc(req[t]) \in {"write", "fetch", "probe"}
            /\ 0 <= LastWrite(req[t]) /\ 0 <= LastFetch(req[t])
  BY NargsAssumption DEF StepOK, FirstPc, LastWrite, LastFetch
<1>4. CASE OpenFails(t)
  <2>1. TypeOK'
    BY <1>4, <1>first DEF OpenFails, Guarded, Access
  <2>2. StepOK'
    BY <1>4, <1>first DEF OpenFails, StepOK
  <2> QED BY <2>1, <2>2
<1>5. CASE TakeFlock(t)
  <2>1. TypeOK'
    BY <1>5, <1>first DEF TakeFlock, Guarded, Access, LockFile, NoFile
  <2>2. StepOK'
    BY <1>5, <1>first DEF TakeFlock, StepOK
  <2> QED BY <2>1, <2>2
<1>6. CASE GiveUp(t)
  <2>1. TypeOK'
    BY <1>6, <1>first DEF GiveUp, Guarded, Access
  <2>2. StepOK'
    BY <1>6, <1>first DEF GiveUp, StepOK
  <2> QED BY <2>1, <2>2
<1>7. CASE SetAddress(t)
  <2>1. /\ pc[t] = "write" => pc'[t] = "writeData"
        /\ pc[t] = "poll"  => pc'[t] = "pollData"
        /\ pc[t] = "fetch" => pc'[t] = "fetchData"
        /\ pc[t] = "probe" => pc'[t] = "probeData"
        /\ pc[t] \in {"write", "poll", "fetch", "probe"}
    BY <1>7 DEF SetAddress, DataPc, Access, DataHalf
  <2>2. TypeOK'
    BY <1>7, <2>1 DEF SetAddress, Guarded, Access
  <2>3. StepOK'
    BY <1>7, <2>1 DEF SetAddress, StepOK
  <2> QED BY <2>2, <2>3
<1>8. CASE WriteData(t)
  <2>1. /\ pc[t] \in {"write", "writeData"}
        /\ pc' = [pc EXCEPT ![t] = pc'[t]]
        /\ step' = [step EXCEPT ![t] = step'[t]]
        /\ UNCHANGED <<req, calls, late, file, got, lock, flock>>
    BY <1>8 DEF WriteData
  <2>2. \/ /\ step[t] < LastWrite(req[t])
           /\ step'[t] = step[t] + 1
           /\ pc'[t] = "write"
        \/ step'[t] = 0 /\ pc'[t] \in {"unlock", "poll"}
    BY <1>8 DEF WriteData
  <2>3. req[t] \in Request /\ LastWrite(req[t]) \in 0..NARGS+1
    BY <2>1, <1>q
  <2>4. step[t] \in 0..NARGS+1 /\ step'[t] \in 0..NARGS+1
    BY <2>2, <2>3, NargsAssumption
  <2>5. TypeOK'
    BY <2>1, <2>2, <2>4 DEF Guarded, Access
  <2>7. ASSUME NEW u \in Thread, u # t
        PROVE  pc'[u] = pc[u] /\ step'[u] = step[u] /\ req'[u] = req[u]
    BY <2>1, <2>7
  <2>8. /\ pc'[t] = "write" => step'[t] <= LastWrite(req'[t])
        /\ pc'[t] = "poll" => step'[t] = 0
        /\ pc'[t] \in {"write", "unlock", "poll"}
    BY <2>1, <2>2, <2>3, <2>4
  <2>9. StepOK'
    BY <2>7, <2>8 DEF StepOK, LastWrite, LastFetch
  <2> QED BY <2>5, <2>9
<1>word. reg[index] \in Value
  BY DEF BusTypeOK
<1>after. AfterStatus(t) \in {"fetch", "unlock"} /\ 0 <= LastFetch(req[t])
  BY NargsAssumption DEF AfterStatus, LastFetch
<1>9. CASE PollData(t)
  <2>1. <<reg[index]>> \in Seq(Value \cup Status)
    BY <1>word
  <2>2. /\ pc[t] = "pollData"
        /\ pc' = [pc EXCEPT ![t] = pc'[t]]
        /\ pc'[t] \in {"poll", "fetch", "unlock"}
        /\ late' \in [Thread -> BOOLEAN]
        /\ UNCHANGED <<req, calls, step, file, lock, flock>>
    BY <1>9, <1>after DEF PollData
  <2>5. got' \in [Thread -> Seq(Value \cup Status)]
    <3> DEFINE S == Seq(Value \cup Status)
    <3>1. got \in [Thread -> S] /\ <<reg[index]>> \in S
      BY <2>1
    <3>2. got' = got \/ got' = [got EXCEPT ![t] = <<reg[index]>>]
      BY <1>9 DEF PollData
    <3> HIDE DEF S
    <3>3. got' \in [Thread -> S]
      BY <3>1, <3>2
    <3> QED BY <3>3 DEF S
  <2>3. TypeOK'
    BY <2>2, <2>5 DEF Guarded, Access
  <2>4. StepOK'
    BY <2>2, <1>after DEF StepOK
  <2> QED BY <2>3, <2>4
<1>10. CASE PollGiveUp(t)
  <2>1. TypeOK'
    BY <1>10, <1>after DEF PollGiveUp, Guarded, Access, Status
  <2>2. StepOK'
    BY <1>10, <1>after DEF PollGiveUp, StepOK
  <2> QED BY <2>1, <2>2
<1>11. CASE FetchData(t)
  <2>1. /\ pc[t] = "fetchData"
        /\ pc' = [pc EXCEPT ![t] = pc'[t]]
        /\ step' = [step EXCEPT ![t] = step'[t]]
        /\ got' = [got EXCEPT ![t] = Append(got[t], reg[index])]
        /\ UNCHANGED <<req, calls, late, file, lock, flock>>
    BY <1>11 DEF FetchData
  <2>2. \/ /\ step[t] < LastFetch(req[t])
           /\ step'[t] = step[t] + 1
           /\ pc'[t] = "fetch"
        \/ step'[t] = step[t] /\ pc'[t] = "unlock"
    BY <1>11 DEF FetchData
  <2>3. req[t] \in Request /\ LastFetch(req[t]) \in 0..NARGS+1
    BY <2>1, <1>q
  <2>4. step[t] \in 0..NARGS+1 /\ step'[t] \in 0..NARGS+1
    BY <2>2, <2>3, NargsAssumption
  <2>5. Append(got[t], reg[index]) \in Seq(Value \cup Status)
    BY <1>word
  <2>6. TypeOK'
    BY <2>1, <2>2, <2>4, <2>5 DEF Guarded, Access
  <2>7. ASSUME NEW u \in Thread, u # t
        PROVE  pc'[u] = pc[u] /\ step'[u] = step[u] /\ req'[u] = req[u]
    BY <2>1, <2>7
  <2>8. /\ pc'[t] = "fetch" => step'[t] <= LastFetch(req'[t])
        /\ pc'[t] \in {"fetch", "unlock"}
    BY <2>1, <2>2, <2>3, <2>4
  <2>9. StepOK'
    BY <2>7, <2>8 DEF StepOK, LastWrite, LastFetch
  <2> QED BY <2>6, <2>9
<1>12. CASE ProbeData(t)
  <2>1. TypeOK'
    BY <1>12 DEF ProbeData, Guarded, Access, Status
  <2>2. StepOK'
    BY <1>12 DEF ProbeData, StepOK
  <2> QED BY <2>1, <2>2
<1>13. CASE Expire(t)
  <2>1. TypeOK'
    BY <1>13 DEF Expire
  <2>2. StepOK'
    BY <1>13 DEF Expire, StepOK
  <2> QED BY <2>1, <2>2
<1>14. CASE Raise(t)
  <2>1. TypeOK'
    BY <1>14 DEF Raise, Guarded, Access, Status
  <2>2. StepOK'
    BY <1>14 DEF Raise, StepOK
  <2> QED BY <2>1, <2>2
<1>15. CASE Unlock(t)
  <2>1. TypeOK'
    BY <1>15 DEF Unlock, Guarded, Access
  <2>2. StepOK'
    BY <1>15 DEF Unlock, StepOK
  <2> QED BY <2>1, <2>2
<1>16. CASE Return(t)
  <2>3. lock' \in [Process -> Thread \cup {NoThread}]
    BY <1>16, ProcAssumption DEF Return
  <2>4. step' \in [Thread -> 0..NARGS+1]
    BY <1>16, NargsAssumption DEF Return
  <2>5. got' \in [Thread -> Seq(Value \cup Status)]
    <3>1. <<>> \in Seq(Value \cup Status)
      OBVIOUS
    <3> QED BY <1>16, <3>1 DEF Return
  <2>1. TypeOK'
    BY <1>16, <2>3, <2>4, <2>5 DEF Return, Guarded, Access
  <2>2. StepOK'
    BY <1>16 DEF Return, StepOK
  <2> QED BY <2>1, <2>2
<1> QED BY <1>1, <1>2, <1>3, <1>4, <1>5, <1>6, <1>7, <1>8, <1>9, <1>10, <1>11,
           <1>12, <1>13, <1>14, <1>15, <1>16 DEF ThreadStep

LEMMA CrashTypes ==
    ASSUME TypeInv, BusTypeOK', NEW p \in Process, Crash(p)
    PROVE  TypeInv'
<1> DEFINE dead == {t \in Thread : ProcOf[t] = p}
<1>1. /\ pc' = [t \in Thread |-> IF t \in dead THEN "idle" ELSE pc[t]]
      /\ req' = [t \in Thread |-> IF t \in dead THEN NoRequest ELSE req[t]]
      /\ step' = [t \in Thread |-> IF t \in dead THEN 0 ELSE step[t]]
      /\ late' = [t \in Thread |-> late[t] /\ t \notin dead]
      /\ file' = [t \in Thread |-> IF t \in dead THEN NoFile ELSE file[t]]
      /\ got' = [t \in Thread |-> IF t \in dead THEN <<>> ELSE got[t]]
      /\ flock' = [f \in LockFile |-> IF flock[f] \in dead THEN NoThread ELSE flock[f]]
      /\ lock' = [lock EXCEPT ![p] = NoThread]
      /\ calls' = calls
  BY DEF Crash
<1> HIDE DEF dead
<1>2. TypeOK'
  BY <1>1, NargsAssumption DEF TypeInv, TypeOK
<1>3. StepOK'
  BY <1>1 DEF TypeInv, TypeOK, StepOK
<1> QED BY <1>2, <1>3 DEF TypeInv

LEMMA StepTypes == TypeInv /\ [Next]_vars => TypeInv'
<1> SUFFICES ASSUME TypeInv, [Next]_vars PROVE TypeInv'
  OBVIOUS
<1>1. BusTypeOK'
  BY BusTypes
<1>2. CASE UNCHANGED <<threadVars, lock, flock>>
  BY <1>1, <1>2 DEF TypeInv, TypeOK, StepOK, threadVars
<1>3. CASE \E t \in Thread : ThreadStep(t)
  BY <1>1, <1>3, ThreadTypes
<1>4. CASE \E p \in Process : Crash(p)
  BY <1>1, <1>4, CrashTypes
<1>5. CASE \E m \in Mailbox : Answer(m)
  BY <1>2, <1>5 DEF Answer
<1>6. CASE Finished \/ UNCHANGED vars
  BY <1>2, <1>6 DEF Finished, vars
<1> QED BY <1>3, <1>4, <1>5, <1>6 DEF Next

\* Every reachable state is well typed, and the register sequences stay
\* within their bounds.
THEOREM TypeCorrect == Spec => [](TypeOK /\ StepOK)
<1>1. Init => TypeInv
  BY InitTypes
<1>2. TypeInv /\ [Next]_vars => TypeInv'
  BY StepTypes
<1>3. TypeInv => TypeOK /\ StepOK
  BY DEF TypeInv
<1> QED BY <1>1, <1>2, <1>3, PTL DEF Spec

-----------------------------------------------------------------------------
(* The locks.                                                              *)

\* LocksReturned is not inductive: it says nothing of a thread that has no
\* lock yet.  LockInv adds where a thread has a lock file open, and that
\* who runs behind _lock owns it.
LockInv ==
    /\ LocksReturned
    /\ \A t \in Thread : HasLock(t) => lock[ProcOf[t]] = t
    /\ \A t \in Thread : pc[t] \in {"idle", "lock", "open", "unlocked"} => file[t] = NoFile
    /\ \A t \in Thread : pc[t] = "flock" => file[t] # NoFile
    /\ \A t \in Thread : pc[t] = "lock" => req[t].kind # "probe"

\* The steps a thread takes between its entry into the guard and the exit.
Inside(t) == \/ SetAddress(t) \/ WriteData(t) \/ PollData(t) \/ PollGiveUp(t)
             \/ FetchData(t) \/ ProbeData(t) \/ Raise(t)

LEMMA InsideStays ==
    ASSUME TypeInv, NEW t \in Thread, Inside(t)
    PROVE  /\ pc[t] \in Access /\ pc'[t] \in Guarded
           /\ \A u \in Thread \ {t} : pc'[u] = pc[u]
           /\ UNCHANGED <<req, file, lock, flock, calls>>
<1> USE DEF Goto, Access, Guarded
<1>1. pc \in [Thread -> {"idle", "lock", "open", "flock", "unlocked"} \cup Guarded]
  BY DEF TypeInv, TypeOK
<1>2. CASE SetAddress(t)
  BY <1>1, <1>2 DEF SetAddress, DataPc, DataHalf
<1>3. CASE WriteData(t)
  BY <1>1, <1>3 DEF WriteData
<1>4. CASE PollData(t)
  BY <1>1, <1>4 DEF PollData, AfterStatus
<1>5. CASE PollGiveUp(t)
  BY <1>1, <1>5 DEF PollGiveUp, AfterStatus
<1>6. CASE FetchData(t)
  BY <1>1, <1>6 DEF FetchData
<1>7. CASE ProbeData(t)
  BY <1>1, <1>7 DEF ProbeData
<1>8. CASE Raise(t)
  BY <1>1, <1>8 DEF Raise
<1> QED BY <1>2, <1>3, <1>4, <1>5, <1>6, <1>7, <1>8 DEF Inside

LEMMA FirstPcGuarded == \A q : FirstPc(q) \in Access \ DataHalf
BY DEF FirstPc, Access, DataHalf

LEMMA InitLocks == Init => LockInv
BY ThreadAssumption DEF Init, LockInv, LocksReturned, HasLock, Guarded, Access

LEMMA ThreadLocks ==
    ASSUME TypeInv, LockInv, NEW t \in Thread, ThreadStep(t)
    PROVE  LockInv'
<1> USE ThreadAssumption, ProcAssumption
    DEF TypeInv, TypeOK, LockInv, LocksReturned, HasLock, Guarded, Access, Goto
<1>1. CASE Inside(t)
  <2>1. /\ pc[t] \in Access /\ pc'[t] \in Guarded
        /\ \A u \in Thread \ {t} : pc'[u] = pc[u]
        /\ UNCHANGED <<req, file, lock, flock>>
    BY <1>1, InsideStays
  <2>2. /\ pc[t] \in Guarded
        /\ \A u \in Thread : pc'[u] \in Guarded <=> pc[u] \in Guarded
    BY <2>1
  <2>5. \A u \in Thread : HasLock(u)' <=> HasLock(u)
    BY <2>1, <2>2
  <2> HIDE DEF HasLock
  <2>3. LocksReturned' /\ \A u \in Thread : HasLock(u)' => lock'[ProcOf[u]] = u
    BY <2>1, <2>2, <2>5
  <2>4. \A u \in Thread : pc'[u] \in {"idle", "lock", "open", "flock", "unlocked"} =>
                             pc'[u] = pc[u]
    BY <2>1
  <2> QED BY <2>1, <2>3, <2>4
<1>2. CASE Call(t)
  BY <1>2 DEF Call
<1>3. CASE TakeLock(t)
  <2>1. /\ lock[ProcOf[t]] = NoThread
        /\ lock' = [lock EXCEPT ![ProcOf[t]] = t]
        /\ pc[t] = "lock" /\ pc' = [pc EXCEPT ![t] = "open"]
        /\ UNCHANGED <<req, file, flock>>
    BY <1>3 DEF TakeLock
  <2>2. \A u \in Thread : HasLock(u) => ProcOf[u] # ProcOf[t] /\ u # t
    BY <2>1
  <2>3. \A u \in Thread : HasLock(u)' => lock'[ProcOf[u]] = u
    BY <2>1, <2>2
  <2>4. req[t].kind # "probe"
    BY <2>1
  <2>5. \A q \in Process, u \in Thread : lock'[q] = u => HasLock(u)' /\ ProcOf[u] = q
    BY <2>1, <2>4
  <2> QED BY <2>1, <2>3, <2>5
<1>4. CASE OpenFile(t)
  BY <1>4 DEF OpenFile, LockFile, NoFile
<1>5. CASE OpenFails(t)
  BY <1>5, FirstPcGuarded DEF OpenFails
<1>6. CASE TakeFlock(t)
  BY <1>6, FirstPcGuarded DEF TakeFlock
<1>7. CASE GiveUp(t)
  BY <1>7, FirstPcGuarded DEF GiveUp
<1>8. CASE Expire(t)
  BY <1>8 DEF Expire
<1>9. CASE Unlock(t)
  BY <1>9 DEF Unlock
<1>10. CASE Return(t)
  BY <1>10 DEF Return
<1> QED BY <1>1, <1>2, <1>3, <1>4, <1>5, <1>6, <1>7, <1>8, <1>9, <1>10
        DEF ThreadStep, Inside

LEMMA CrashLocks ==
    ASSUME TypeInv, LockInv, NEW p \in Process, Crash(p)
    PROVE  LockInv'
<1> DEFINE dead == {t \in Thread : ProcOf[t] = p}
<1>1. /\ pc' = [t \in Thread |-> IF t \in dead THEN "idle" ELSE pc[t]]
      /\ req' = [t \in Thread |-> IF t \in dead THEN NoRequest ELSE req[t]]
      /\ file' = [t \in Thread |-> IF t \in dead THEN NoFile ELSE file[t]]
      /\ flock' = [f \in LockFile |-> IF flock[f] \in dead THEN NoThread ELSE flock[f]]
      /\ lock' = [lock EXCEPT ![p] = NoThread]
  BY DEF Crash
<1>2. \A t \in Thread : t \in dead <=> ProcOf[t] = p
  OBVIOUS
<1> HIDE DEF dead
<1> QED BY <1>1, <1>2, ThreadAssumption, ProcAssumption
        DEF TypeInv, TypeOK, LockInv, LocksReturned, HasLock, Guarded, Access

LEMMA StepLocks == TypeInv /\ LockInv /\ [Next]_vars => LockInv'
<1> SUFFICES ASSUME TypeInv, LockInv, [Next]_vars PROVE LockInv'
  OBVIOUS
<1>1. CASE UNCHANGED <<threadVars, lock, flock>>
  BY <1>1 DEF LockInv, LocksReturned, HasLock, threadVars
<1>2. CASE \E t \in Thread : ThreadStep(t)
  BY <1>2, ThreadLocks
<1>3. CASE \E p \in Process : Crash(p)
  BY <1>3, CrashLocks
<1>4. CASE \E m \in Mailbox : Answer(m)
  BY <1>1, <1>4 DEF Answer
<1>5. CASE Finished \/ UNCHANGED vars
  BY <1>1, <1>5 DEF Finished, vars
<1> QED BY <1>2, <1>3, <1>4, <1>5 DEF Next

\* Whatever fails, no lock is lost or kept.
THEOREM LocksAreReturned == Spec => []LocksReturned
<1>1. LockInv => LocksReturned
  BY DEF LockInv
<1> QED BY <1>1, InitTypes, StepTypes, InitLocks, StepLocks, PTL DEF Spec

\* Whatever fails, who meets on the bus has no lock file in common, and is
\* not in two register sequences of one process.
THEOREM BusSharing == Spec => []SharedOnlyUnguarded
<1>1. LockInv => SharedOnlyUnguarded
  BY DEF LockInv, LocksReturned, SharedOnlyUnguarded, HasLock, Guarded
<1> QED BY <1>1, InitTypes, StepTypes, InitLocks, StepLocks, PTL DEF Spec

-----------------------------------------------------------------------------
(* The bus, when nobody enters the guard without the lock file: the file   *)
(* under /run/lock opens for everybody and is never kept for five seconds. *)
(* The SMU may be slow, calls may raise, processes may be killed.          *)

NoBypass == Faults \cap {"giveup", "fallback", "nofile"} = {}

BusInv ==
    /\ \A t \in Thread : pc[t] \in Guarded \cup {"flock"} => file[t] = "/run/lock"
    /\ \A t \in Thread : late[t] => pc[t] \in {"poll", "pollData"}
    /\ AddressIntegrity

LEMMA Exclusion == TypeInv /\ LockInv /\ BusInv => BusExclusion
<1> SUFFICES ASSUME TypeInv, LockInv, BusInv,
                    NEW t \in Thread, NEW u \in Thread,
                    pc[t] \in Access, pc[u] \in Access
             PROVE  t = u
  BY DEF BusExclusion
<1>1. file[t] = "/run/lock" /\ file[u] = "/run/lock"
  BY DEF BusInv, Guarded
<1>2. flock["/run/lock"] = t /\ flock["/run/lock"] = u
  BY <1>1 DEF LockInv, LocksReturned, Guarded, NoFile
<1> QED BY <1>2

LEMMA InitBus == Init => BusInv
BY DEF Init, BusInv, Guarded, Access, AddressIntegrity, DataHalf

\* A thread that sets the index register, or leaves the data half of its
\* access, does it while no other thread is inside the guard.
LEMMA ThreadAddress ==
    ASSUME TypeInv, LockInv, BusInv, NEW t \in Thread, ThreadStep(t)
    PROVE  AddressIntegrity'
<1> USE DEF TypeInv, TypeOK, Goto
<1>1. ASSUME NEW u \in Thread, u # t, pc'[u] \in DataHalf
      PROVE  index' = Target(u)'
  <2>1. pc'[u] = pc[u] /\ req'[u] = req[u] /\ step'[u] = step[u]
    BY <1>1 DEF ThreadStep, Call, TakeLock, OpenFile, OpenFails, TakeFlock, GiveUp,
          SetAddress, WriteData, PollData, PollGiveUp, FetchData, ProbeData, Expire,
          Raise, Unlock, Return
  <2>2. index = Target(u) /\ pc[u] \in Access
    BY <2>1, <1>1 DEF BusInv, AddressIntegrity, DataHalf, Access
  <2>3. pc[t] \notin Access
    BY <2>2, <1>1, Exclusion DEF BusExclusion
  <2>4. index' = index
    BY <2>3 DEF ThreadStep, Call, TakeLock, OpenFile, OpenFails, TakeFlock, GiveUp,
          SetAddress, WriteData, PollData, PollGiveUp, FetchData, ProbeData, Expire,
          Raise, Unlock, Return, busVars, WriteRegister
  <2>5. Target(u)' = Target(u)
    BY <2>1 DEF Target, WriteTarget, FetchTarget
  <2> QED BY <2>2, <2>4, <2>5
<1>2. ASSUME pc'[t] \in DataHalf
      PROVE  index' = Target(t)'
  <2>1. CASE SetAddress(t)
    <3>1. /\ index' = Target(t)
          /\ req' = req /\ step' = step
          /\ pc[t] \in {"write", "poll", "fetch", "probe"}
          /\ pc'[t] = DataPc[pc[t]]
      BY <2>1 DEF SetAddress, WriteIndex, Access, DataHalf
    <3>2. Target(t)' = Target(t)
      BY <3>1 DEF Target, WriteTarget, FetchTarget, DataPc
    <3> QED BY <3>1, <3>2
  <2>2. CASE Expire(t)
    <3>1. /\ pc' = pc /\ req' = req /\ step' = step /\ index' = index
      BY <2>2 DEF Expire, busVars
    <3>2. Target(t)' = Target(t)
      BY <3>1 DEF Target, WriteTarget, FetchTarget
    <3> QED BY <3>1, <3>2, <1>2 DEF BusInv, AddressIntegrity
  <2>3. ASSUME ~SetAddress(t), ~Expire(t) PROVE FALSE
    BY <2>3, <1>2, FirstPcGuarded DEF ThreadStep, Call, TakeLock, OpenFile, OpenFails,
          TakeFlock, GiveUp, WriteData, PollData, PollGiveUp, FetchData, ProbeData,
          Raise, Unlock, Return, AfterStatus, DataHalf
  <2> QED BY <2>1, <2>2, <2>3
<1> QED BY <1>1, <1>2 DEF AddressIntegrity

LEMMA ThreadBus ==
    ASSUME TypeInv, LockInv, BusInv, NoBypass, NEW t \in Thread, ThreadStep(t)
    PROVE  BusInv'
<1>1. AddressIntegrity'
  BY ThreadAddress
<1> USE DEF TypeInv, TypeOK, BusInv, Goto, Guarded, Access, NoBypass
<1> HIDE DEF AddressIntegrity
<1>2. CASE Inside(t)
  <2>1. /\ pc[t] \in Access /\ pc'[t] \in Guarded
        /\ \A u \in Thread \ {t} : pc'[u] = pc[u]
        /\ file' = file
    BY <1>2, InsideStays
  <2>2. late' = late \/ (late' = [late EXCEPT ![t] = FALSE])
    BY <1>2 DEF Inside, SetAddress, WriteData, PollData, PollGiveUp, FetchData,
          ProbeData, Raise
  <2>3. ASSUME late'[t] PROVE pc'[t] \in {"poll", "pollData"}
    <3>1. late[t] /\ pc[t] \in {"poll", "pollData"}
      BY <2>2, <2>3
    <3>2. CASE PollData(t)
      BY <3>1, <3>2, <2>3 DEF PollData
    <3>3. ~(PollGiveUp(t) \/ Raise(t))
      BY <2>3 DEF PollGiveUp, Raise
    <3>4. ~(SetAddress(t) \/ WriteData(t) \/ FetchData(t) \/ ProbeData(t))
      BY <3>1 DEF SetAddress, WriteData, FetchData, ProbeData, DataHalf
    <3> QED BY <3>2, <3>3, <3>4, <1>2 DEF Inside
  <2> QED BY <1>1, <2>1, <2>2, <2>3
<1>3. CASE Call(t)
  BY <1>1, <1>3 DEF Call
<1>4. CASE TakeLock(t)
  BY <1>1, <1>4 DEF TakeLock
<1>5. CASE OpenFile(t)
  BY <1>1, <1>5 DEF OpenFile, LockFile
<1>6. CASE OpenFails(t)
  BY <1>6 DEF OpenFails
<1>7. CASE TakeFlock(t)
  BY <1>1, <1>7, FirstPcGuarded DEF TakeFlock
<1>8. CASE GiveUp(t)
  BY <1>8 DEF GiveUp
<1>9. CASE Expire(t)
  BY <1>1, <1>9 DEF Expire
<1>10. CASE Unlock(t)
  BY <1>1, <1>10 DEF Unlock
<1>11. CASE Return(t)
  BY <1>1, <1>11 DEF Return
<1> QED BY <1>2, <1>3, <1>4, <1>5, <1>6, <1>7, <1>8, <1>9, <1>10, <1>11
        DEF ThreadStep, Inside

LEMMA CrashBus ==
    ASSUME TypeInv, BusInv, NEW p \in Process, Crash(p)
    PROVE  BusInv'
<1> DEFINE dead == {t \in Thread : ProcOf[t] = p}
<1>1. /\ pc' = [t \in Thread |-> IF t \in dead THEN "idle" ELSE pc[t]]
      /\ req' = [t \in Thread |-> IF t \in dead THEN NoRequest ELSE req[t]]
      /\ step' = [t \in Thread |-> IF t \in dead THEN 0 ELSE step[t]]
      /\ late' = [t \in Thread |-> late[t] /\ t \notin dead]
      /\ file' = [t \in Thread |-> IF t \in dead THEN NoFile ELSE file[t]]
      /\ index' = index
  BY DEF Crash, busVars
<1> HIDE DEF dead
<1>2. ASSUME NEW t \in Thread, pc'[t] \in DataHalf
      PROVE  Target(t)' = Target(t) /\ pc'[t] = pc[t]
  BY <1>1, <1>2 DEF Target, WriteTarget, FetchTarget, DataHalf
<1>3. AddressIntegrity'
  BY <1>1, <1>2 DEF AddressIntegrity, BusInv
<1> QED BY <1>1, <1>3 DEF BusInv, Guarded, Access

LEMMA StepBus == NoBypass /\ TypeInv /\ LockInv /\ BusInv /\ [Next]_vars => BusInv'
<1> SUFFICES ASSUME NoBypass, TypeInv, LockInv, BusInv, [Next]_vars PROVE BusInv'
  OBVIOUS
<1>1. CASE UNCHANGED <<threadVars, index>>
  <2>1. \A t \in Thread : Target(t)' = Target(t)
    BY <1>1 DEF Target, WriteTarget, FetchTarget, threadVars
  <2> QED BY <1>1, <2>1 DEF BusInv, AddressIntegrity, threadVars
<1>2. CASE \E t \in Thread : ThreadStep(t)
  BY <1>2, ThreadBus
<1>3. CASE \E p \in Process : Crash(p)
  BY <1>3, CrashBus
<1>4. CASE \E m \in Mailbox : Answer(m)
  BY <1>1, <1>4 DEF Answer, Firmware
<1>5. CASE Finished \/ UNCHANGED vars
  BY <1>1, <1>5 DEF Finished, vars, busVars
<1> QED BY <1>2, <1>3, <1>4, <1>5 DEF Next

\* While nobody bypasses the lock file, one thread at most uses the bus,
\* however slow the SMU and whoever is killed or interrupted half-way
\* (linux.py:68-87).
THEOREM BusIsSerialized ==
    ASSUME NoBypass
    PROVE  Spec => []BusExclusion
<1>1. Init => TypeInv /\ LockInv /\ BusInv
  BY InitTypes, InitLocks, InitBus
<1>2. TypeInv /\ LockInv /\ BusInv /\ [Next]_vars => (TypeInv /\ LockInv /\ BusInv)'
  BY StepTypes, StepLocks, StepBus
<1>3. TypeInv /\ LockInv /\ BusInv => BusExclusion
  BY Exclusion DEF BusInv
<1> QED BY <1>1, <1>2, <1>3, PTL DEF Spec

\* Then every word goes to the register it was meant for: nobody moves the
\* index register between the halves of an access (linux.py:253-265).
THEOREM AddressesAreKept ==
    ASSUME NoBypass
    PROVE  Spec => []AddressIntegrity
<1>1. Init => TypeInv /\ LockInv /\ BusInv
  BY InitTypes, InitLocks, InitBus
<1>2. TypeInv /\ LockInv /\ BusInv /\ [Next]_vars => (TypeInv /\ LockInv /\ BusInv)'
  BY StepTypes, StepLocks, StepBus
<1>3. TypeInv /\ LockInv /\ BusInv => AddressIntegrity
  BY Exclusion DEF BusInv
<1> QED BY <1>1, <1>2, <1>3, PTL DEF Spec

-----------------------------------------------------------------------------
(* The service, when nothing fails: every call is answered by the SMU, and *)
(* runs to its end.                                                        *)

NoFault == Faults = {}

Executed(j) == \E e \in executed : e.cmd = OpOf(j)

\* The arguments of the thread's command are in their registers.
Loaded(t) == \A i \in 0..NARGS-1 : reg[Arg(req[t].box, i)] = ArgumentsOf(MyJob(t))[i]

\* The outputs of the thread's command are in their registers.
Output(t) == \A i \in 0..NARGS-1 : reg[Arg(req[t].box, i)] = OutOf(MyJob(t))

\* What has been written before the message is written.
Prepared(t) ==
    /\ step[t] > 0 => reg[Rsp(req[t].box)] = Zero
    /\ \A i \in 0..NARGS-1 : i + 1 < step[t] =>
          reg[Arg(req[t].box, i)] = ArgumentsOf(MyJob(t))[i]

\* The command is with the SMU, or the SMU has answered it.
Running(t)  == /\ pending[req[t].box] = {OpOf(MyJob(t))}
               /\ reg[Rsp(req[t].box)] = Zero /\ Loaded(t)
               /\ ~Executed(MyJob(t))
Answered(t) == /\ pending[req[t].box] = {}
               /\ reg[Rsp(req[t].box)] = RspOf(MyJob(t)) /\ Output(t)
               /\ Executed(MyJob(t))

\* The first n words of the answer.
Words(t, n) == [i \in 1..n |-> IF i = 1 THEN RspOf(MyJob(t)) ELSE OutOf(MyJob(t))]

InWrite(t) == pc[t] \in {"write", "writeData"}
InPoll(t)  == pc[t] \in {"poll", "pollData"}
InFetch(t) == pc[t] \in {"fetch", "fetchData"}
InProbe(t) == pc[t] \in {"probe", "probeData"}
Before(t)  == pc[t] \in {"lock", "open", "flock"}
After(t)   == pc[t] \in {"unlock", "unlocked"}

\* How far a call has come, and what it has done so far.
CallOK(t) ==
    /\ ~late[t]
    /\ pc[t] = "idle" \/ Before(t) \/ InWrite(t) \/ InPoll(t) \/ InProbe(t) => got[t] = <<>>
    /\ Before(t) \/ InWrite(t) => ~Executed(MyJob(t))
    /\ InWrite(t) => req[t].kind \in Commands \cup {"write"}
    /\ InWrite(t) /\ req[t].kind \in Commands => Prepared(t)
    /\ InPoll(t)  => req[t].kind \in Commands /\ (Running(t) \/ Answered(t))
    /\ InFetch(t) => req[t].kind \in {"read", "query"}
    /\ InFetch(t) /\ req[t].kind = "read" => got[t] = <<>>
    /\ InFetch(t) /\ req[t].kind = "query" =>
          Output(t) /\ Executed(MyJob(t)) /\ got[t] = Words(t, step[t] + 1)
    /\ InProbe(t) => req[t].kind = "probe"
    /\ After(t) => /\ IsAnswer(t, got[t])
                   /\ req[t].kind \in Commands => Executed(MyJob(t))

\* A doorbell is rung only by the thread that waits for the answer.
DoorbellOK == \A m \in Mailbox : pending[m] # {} =>
                 \E t \in Thread : InPoll(t) /\ req[t].box = m

\* What has been executed was called, with these arguments.
HistoryOK == \A e \in executed : \E t \in Thread, n \in Nat :
                /\ n <= calls[t]
                /\ e.cmd = OpOf([thread |-> t, n |-> n])
                /\ e.args = ArgumentsOf([thread |-> t, n |-> n])

\* The SMU leaves the other registers alone.
MemoryOK == \A w \in Word : reg[Smn(w)].what \in {"zero", "data"}

ServeInv == (\A t \in Thread : CallOK(t)) /\ DoorbellOK /\ HistoryOK /\ MemoryOK

\* All that is known of a state without faults.
Inv == NoFault /\ TypeInv /\ LockInv /\ BusInv /\ ServeInv

LEMMA NoFaultBypass == NoFault => NoBypass
BY DEF NoFault, NoBypass

LEMMA InitServe == Init => ServeInv
<1> SUFFICES ASSUME Init PROVE ServeInv
  OBVIOUS
<1>1. \A t \in Thread : CallOK(t)
  BY DEF Init, CallOK, Before, After, InWrite, InPoll, InFetch, InProbe
<1>2. DoorbellOK /\ HistoryOK
  BY DEF Init, BusInit, DoorbellOK, HistoryOK
<1>3. MemoryOK
  BY Layout DEF Init, BusInit, MemoryOK, Zero
<1> QED BY <1>1, <1>2, <1>3 DEF ServeInv

\* A call stays as it is while its thread does not move, and, if it is on
\* the bus, nobody touches the registers.
LEMMA CallFrame ==
    ASSUME NEW u \in Thread, CallOK(u),
           UNCHANGED <<pc[u], req[u], calls[u], step[u], late[u], got[u]>>,
           Executed(MyJob(u))' <=> Executed(MyJob(u)),
           pc[u] \in Access => UNCHANGED <<reg, pending>>
    PROVE  CallOK(u)'
<1>1. MyJob(u)' = MyJob(u)
  BY DEF MyJob
<1>2. IsAnswer(u, got[u])' <=> IsAnswer(u, got[u])
  BY <1>1 DEF IsAnswer
<1>3. CASE pc[u] \in Access
  <2>1. /\ Prepared(u)' <=> Prepared(u)
        /\ Output(u)' <=> Output(u)
        /\ Loaded(u)' <=> Loaded(u)
        /\ Words(u, step[u] + 1)' = Words(u, step[u] + 1)
    BY <1>1, <1>3 DEF Prepared, Output, Loaded, Words
  <2>2. /\ Running(u)' <=> Running(u)
        /\ Answered(u)' <=> Answered(u)
    BY <1>1, <1>3, <2>1 DEF Running, Answered
  <2> QED BY <1>1, <1>2, <2>1, <2>2
          DEF CallOK, Before, After, InWrite, InPoll, InFetch, InProbe
<1>4. CASE pc[u] \notin Access
  <2>1. ~InWrite(u)' /\ ~InPoll(u)' /\ ~InFetch(u)' /\ ~InProbe(u)'
    BY <1>4 DEF Access, InWrite, InPoll, InFetch, InProbe
  <2> QED BY <1>1, <1>2, <2>1 DEF CallOK, Before, After
<1> QED BY <1>3, <1>4

\* The other threads of a step keep theirs: one that is on the bus is there
\* alone.
LEMMA OthersServe ==
    ASSUME Inv, NEW t \in Thread, ThreadStep(t), NEW u \in Thread, u # t
    PROVE  CallOK(u)'
<1> USE DEF Inv, TypeInv, TypeOK
<1>1. UNCHANGED <<pc[u], req[u], calls[u], step[u], late[u], got[u]>>
  BY DEF ThreadStep, Call, TakeLock, OpenFile, OpenFails, TakeFlock, GiveUp, SetAddress,
         WriteData, PollData, PollGiveUp, FetchData, ProbeData, Expire, Raise, Unlock,
         Return, Goto
<1>2. executed' = executed
  BY DEF ThreadStep, Call, TakeLock, OpenFile, OpenFails, TakeFlock, GiveUp, SetAddress,
         WriteData, PollData, PollGiveUp, FetchData, ProbeData, Expire, Raise, Unlock,
         Return, busVars, WriteIndex, WriteRegister
<1>3. Executed(MyJob(u))' <=> Executed(MyJob(u))
  BY <1>1, <1>2 DEF Executed, MyJob
<1>4. ASSUME pc[u] \in Access PROVE UNCHANGED <<reg, pending>>
  <2>1. pc[t] \notin Access
    BY <1>4, Exclusion DEF BusExclusion
  <2>2. ~WriteData(t)
    BY <2>1 DEF WriteData, Access
  <2> QED BY <2>2 DEF ThreadStep, Call, TakeLock, OpenFile, OpenFails, TakeFlock, GiveUp,
          SetAddress, PollData, PollGiveUp, FetchData, ProbeData, Expire, Raise, Unlock,
          Return, busVars, WriteIndex
<1>5. CallOK(u)
  BY DEF ServeInv
<1> QED BY <1>1, <1>3, <1>4, <1>5, CallFrame

\* While a thread is on the bus without waiting for the SMU, no doorbell is
\* rung.
LEMMA QuietDoorbells ==
    ASSUME Inv, NEW t \in Thread, pc[t] \in Access, NEW m \in Mailbox, pending[m] # {}
    PROVE  InPoll(t) /\ req[t].box = m
<1>1. PICK u \in Thread : InPoll(u) /\ req[u].box = m
  BY DEF Inv, ServeInv, DoorbellOK
<1>2. pc[u] \in Access
  BY <1>1 DEF InPoll, Access
<1>3. u = t
  BY <1>2, Exclusion DEF Inv, BusExclusion
<1> QED BY <1>1, <1>3

\* Entry into the guard and exit from it.
LEMMA GuardServe ==
    ASSUME Inv, NEW t \in Thread,
           Call(t) \/ TakeLock(t) \/ OpenFile(t) \/ TakeFlock(t) \/ Unlock(t) \/ Return(t)
    PROVE  CallOK(t)'
<1> USE DEF Inv, TypeInv, TypeOK, Goto
<1>0. CallOK(t) /\ StepOK
  BY DEF ServeInv
<1>1. UNCHANGED <<reg, pending, executed>>
  BY DEF Call, TakeLock, OpenFile, TakeFlock, Unlock, Return, busVars
<1>2. CASE Call(t)
  <2>1. calls'[t] = calls[t] + 1 /\ pc[t] = "idle" /\ Before(t)' /\ calls[t] \in Nat
        /\ UNCHANGED <<step, late, got>>
    BY <1>2 DEF Call, Before
  <2>2. ~Executed(MyJob(t))'
    <3> SUFFICES ASSUME NEW e \in executed, e.cmd = OpOf([thread |-> t, n |-> calls[t] + 1])
                 PROVE  FALSE
      BY <1>1, <2>1 DEF Executed, MyJob
    <3>1. PICK u \in Thread, n \in Nat :
            n <= calls[u] /\ e.cmd = OpOf([thread |-> u, n |-> n])
      BY DEF ServeInv, HistoryOK
    <3>2. u = t /\ n = calls[t] + 1
      BY <3>1 DEF OpOf
    <3> QED BY <2>1, <3>1, <3>2
  <2> QED BY <1>0, <2>1, <2>2 DEF CallOK, Before, After, InWrite, InPoll, InFetch, InProbe
<1>3. CASE TakeLock(t) \/ OpenFile(t)
  <2>1. Before(t) /\ Before(t)' /\ UNCHANGED <<req, calls, step, late, got>>
    BY <1>3 DEF TakeLock, OpenFile, Before
  <2>2. Executed(MyJob(t))' <=> Executed(MyJob(t))
    BY <1>1, <2>1 DEF Executed, MyJob
  <2> QED BY <1>0, <2>1, <2>2
          DEF CallOK, Before, After, InWrite, InPoll, InFetch, InProbe
<1>4. CASE TakeFlock(t)
  <2>1. /\ pc[t] = "flock" /\ pc'[t] = FirstPc(req[t]) /\ step[t] = 0 /\ ~late'[t]
        /\ UNCHANGED <<req, calls, step, got>>
    BY <1>0, <1>4 DEF TakeFlock, StepOK
  <2>2. Executed(MyJob(t))' <=> Executed(MyJob(t))
    BY <1>1, <2>1 DEF Executed, MyJob
  <2>3. req[t].kind \in {"send", "query", "read", "write", "probe"}
    BY <2>1, KindsAssumption DEF Request
  <2>4. Prepared(t)'
    BY <2>1 DEF Prepared
  <2> QED BY <1>0, <2>1, <2>2, <2>3, <2>4
          DEF CallOK, Before, After, InWrite, InPoll, InFetch, InProbe, FirstPc, Commands
<1>5. CASE Unlock(t)
  <2>1. After(t) /\ After(t)' /\ UNCHANGED <<req, calls, step, late, got>>
    BY <1>5 DEF Unlock, After
  <2>2. Executed(MyJob(t))' <=> Executed(MyJob(t))
    BY <1>1, <2>1 DEF Executed, MyJob
  <2>3. IsAnswer(t, got[t])' <=> IsAnswer(t, got[t])
    BY <2>1 DEF IsAnswer, MyJob
  <2> QED BY <1>0, <2>1, <2>2, <2>3
          DEF CallOK, Before, After, InWrite, InPoll, InFetch, InProbe
<1>6. CASE Return(t)
  <2>1. pc'[t] = "idle" /\ got'[t] = <<>> /\ late' = late
    BY <1>6 DEF Return
  <2> QED BY <1>0, <2>1 DEF CallOK, Before, After, InWrite, InPoll, InFetch, InProbe
<1> QED BY <1>2, <1>3, <1>4, <1>5, <1>6

\* The address half of an access, and the probe.
LEMMA AddressServe ==
    ASSUME Inv, NEW t \in Thread, SetAddress(t) \/ ProbeData(t)
    PROVE  CallOK(t)'
<1> USE DEF Inv, TypeInv, TypeOK, Goto
<1>0. CallOK(t)
  BY DEF ServeInv
<1>1. UNCHANGED <<reg, pending, executed, req, calls, step, late>>
  BY DEF SetAddress, ProbeData, busVars, WriteIndex
<1>2. MyJob(t)' = MyJob(t)
  BY <1>1 DEF MyJob
<1>3. CASE SetAddress(t)
  <2>1. /\ InWrite(t)' <=> InWrite(t)
        /\ InPoll(t)'  <=> InPoll(t)
        /\ InFetch(t)' <=> InFetch(t)
        /\ InProbe(t)' <=> InProbe(t)
        /\ got' = got /\ pc'[t] \in DataHalf
    BY <1>3 DEF SetAddress, Access, DataHalf, DataPc, InWrite, InPoll, InFetch, InProbe
  <2>2. /\ Prepared(t)' <=> Prepared(t)
        /\ Output(t)' <=> Output(t)
        /\ Loaded(t)' <=> Loaded(t)
        /\ Executed(MyJob(t))' <=> Executed(MyJob(t))
        /\ Words(t, step[t] + 1)' = Words(t, step[t] + 1)
    BY <1>1, <1>2 DEF Prepared, Output, Loaded, Words, Executed
  <2>3. /\ Running(t)' <=> Running(t)
        /\ Answered(t)' <=> Answered(t)
    BY <1>1, <1>2, <2>2 DEF Running, Answered
  <2>4. ~Before(t)' /\ ~After(t)' /\ pc'[t] # "idle"
    BY <2>1 DEF DataHalf, Before, After
  <2> QED BY <1>0, <1>1, <2>1, <2>2, <2>3, <2>4 DEF CallOK
<1>4. CASE ProbeData(t)
  <2>1. pc[t] = "probeData" /\ pc'[t] = "unlock" /\ index = Smn(ProbeWord)
    BY <1>4 DEF ProbeData, BusInv, AddressIntegrity, DataHalf, Target
  <2>2. got'[t] = <<Probed>> /\ req[t].kind = "probe"
    BY <1>0, <1>4, <2>1 DEF ProbeData, CallOK, InProbe
  <2>3. IsAnswer(t, got[t])' /\ req'[t].kind \notin Commands
    BY <1>1, <2>2 DEF IsAnswer, Commands
  <2> QED BY <1>0, <1>1, <2>1, <2>3
          DEF CallOK, Before, After, InWrite, InPoll, InFetch, InProbe
<1> QED BY <1>3, <1>4

\* A write reaches the register it is meant for.
LEMMA WriteReaches ==
    ASSUME Inv, NEW t \in Thread, WriteData(t)
    PROVE  /\ InWrite(t) /\ pc[t] \in Access /\ Target(t) = WriteTarget(req[t], step[t])
           /\ Target(t) \in Reg /\ WriteRegister(Target(t), WriteValue(t))
           /\ req[t] \in Request /\ req[t].box \in Mailbox /\ req[t].word \in Word
           /\ step[t] \in 0..LastWrite(req[t])
<1> USE DEF Inv, TypeInv, TypeOK
<1>1. InWrite(t) /\ pc[t] \in Access
  BY DEF WriteData, InWrite, Access
<1>2. Target(t) = WriteTarget(req[t], step[t])
  BY <1>1 DEF InWrite, Target
<1>3. WriteRegister(Target(t), WriteValue(t))
  <2>1. CASE Backend = "pci"
    <3>1. index = Target(t)
      BY <2>1 DEF WriteData, BusInv, AddressIntegrity, DataHalf
    <3> QED BY <2>1, <3>1 DEF WriteData
  <2>2. CASE Backend # "pci"
    BY <2>2 DEF WriteData
  <2> QED BY <2>1, <2>2
<1>4. step[t] \in 0..LastWrite(req[t])
  BY <1>1, NargsAssumption DEF StepOK, InWrite, LastWrite
<1> QED BY <1>1, <1>2, <1>3, <1>4, TargetType DEF Request, Access

LEMMA WriteServe ==
    ASSUME Inv, NEW t \in Thread, WriteData(t)
    PROVE  CallOK(t)'
<1> USE DEF Inv, TypeInv, TypeOK, Goto
<1> DEFINE m == req[t].box
           k == step[t]
<1>0. CallOK(t)
  BY DEF ServeInv
<1>1. /\ InWrite(t) /\ m \in Mailbox /\ k \in 0..LastWrite(req[t])
      /\ Target(t) = WriteTarget(req[t], k) /\ Target(t) \in Reg
      /\ WriteRegister(Target(t), WriteValue(t)) /\ pc[t] \in Access
  BY WriteReaches
<1>2. UNCHANGED <<executed, req, calls, late, got>>
  BY <1>1 DEF WriteData, WriteRegister
<1>3. /\ MyJob(t)' = MyJob(t) /\ (Executed(MyJob(t))' <=> Executed(MyJob(t)))
      /\ ~Executed(MyJob(t)) /\ got[t] = <<>> /\ ~late[t]
  BY <1>0, <1>1, <1>2 DEF MyJob, Executed, CallOK
<1>4. reg' = [reg EXCEPT ![Target(t)] = WriteValue(t)] /\ reg \in [Reg -> Value]
  BY <1>1 DEF WriteRegister, BusTypeOK
<1>r. /\ Rsp(m) \in Reg /\ Msg(m) \in Reg /\ \A i \in 0..NARGS-1 : Arg(m, i) \in Reg
      /\ Rsp(m) # Msg(m)
      /\ \A i \in 0..NARGS-1 : Arg(m, i) # Rsp(m) /\ Arg(m, i) # Msg(m)
      /\ \A i, n \in 0..NARGS-1 : Arg(m, i) = Arg(m, n) => i = n
  BY <1>1, Layout
<1>5. CASE req[t].kind = "write"
  <2>1. pc'[t] = "unlock"
    BY <1>1, <1>5 DEF WriteData, LastWrite
  <2>2. IsAnswer(t, got[t])' /\ req'[t].kind \notin Commands
    BY <1>2, <1>3, <1>5 DEF IsAnswer, Commands
  <2> QED BY <1>2, <1>3, <2>1, <2>2
          DEF CallOK, Before, After, InWrite, InPoll, InFetch, InProbe
<1>6. CASE req[t].kind \in Commands
  <2>0. LastWrite(req[t]) = NARGS + 1 /\ Prepared(t) /\ req[t].kind # "write"
    BY <1>0, <1>1, <1>6 DEF LastWrite, Commands, CallOK
  <2>1. CASE k < NARGS + 1
    <3>1. pc'[t] = "write" /\ step'[t] = k + 1
      BY <2>0, <2>1 DEF WriteData
    <3>2. Prepared(t)'
      <4>1. CASE k = 0
        <5>1. Target(t) = Rsp(m)
          BY <1>1, <2>0, <4>1 DEF WriteTarget
        <5>2. WriteValue(t) = Zero
          BY <2>0, <4>1, NargsAssumption DEF WriteValue
        <5>3. reg'[Rsp(m)] = Zero
          BY <1>4, <1>r, <5>1, <5>2
        <5>4. \A i \in 0..NARGS-1 : ~(i + 1 < 1)
          BY NargsAssumption
        <5>5. step'[t] = 1 /\ req'[t].box = m
          BY <1>2, <3>1, <4>1
        <5> QED BY <5>3, <5>4, <5>5 DEF Prepared
      <4>2. CASE k # 0
        <5>1. k - 1 \in 0..NARGS-1 /\ k <= NARGS /\ Target(t) = Arg(m, k - 1)
          BY <1>1, <2>0, <2>1, <4>2, NargsAssumption DEF WriteTarget
        <5>2. WriteValue(t) = ArgumentsOf(MyJob(t))[k - 1]
          BY <2>0, <5>1, NargsAssumption DEF WriteValue, ArgumentsOf
        <5>3. reg' = [reg EXCEPT ![Arg(m, k - 1)] = ArgumentsOf(MyJob(t))[k - 1]]
          BY <1>4, <5>1, <5>2
        <5>4. reg'[Rsp(m)] = Zero
          BY <1>1, <1>4, <1>r, <2>0, <4>2, <5>1, <5>3 DEF Prepared
        <5>5. ASSUME NEW i \in 0..NARGS-1, i + 1 < k + 1
              PROVE  reg'[Arg(m, i)] = ArgumentsOf(MyJob(t))[i]
          <6>1. CASE i = k - 1
            BY <1>4, <1>r, <5>1, <5>3, <6>1
          <6>2. CASE i # k - 1
            <7>1. i + 1 < k
              BY <1>1, <5>1, <5>5, <6>2
            <7>2. reg[Arg(m, i)] = ArgumentsOf(MyJob(t))[i]
              BY <2>0, <7>1 DEF Prepared
            <7>3. Arg(m, i) # Arg(m, k - 1)
              BY <1>r, <5>1, <6>2
            <7> QED BY <1>4, <1>r, <5>3, <7>2, <7>3
          <6> QED BY <6>1, <6>2
        <5>6. req'[t].box = m /\ step'[t] = k + 1
          BY <1>2, <3>1
        <5>7. \A i \in 0..NARGS-1 : i + 1 < step'[t] =>
                                     reg'[Arg(m, i)] = ArgumentsOf(MyJob(t))[i]
          BY <5>5, <5>6
        <5> QED BY <1>3, <5>4, <5>6, <5>7 DEF Prepared
      <4> QED BY <1>1, <4>1, <4>2
    <3> QED BY <1>2, <1>3, <1>6, <3>1, <3>2
            DEF CallOK, Before, After, InWrite, InPoll, InFetch, InProbe
  <2>2. CASE k = NARGS + 1
    <3>1. pc'[t] = "poll"
      BY <2>0, <2>2 DEF WriteData
    <3>2. Target(t) = Msg(m) /\ WriteValue(t) = OpOf(MyJob(t))
      BY <1>1, <2>0, <2>2, NargsAssumption DEF WriteTarget, WriteValue
    <3>3. pending[m] = {}
      <4>1. ~InPoll(t)
        BY <1>1 DEF InPoll, InWrite
      <4> QED BY <1>1, <4>1, QuietDoorbells
    <3>4. pending'[m] = {OpOf(MyJob(t))}
      <4>1. pending'[m] = pending[m] \cup {OpOf(MyJob(t))}
        BY <1>1, <3>2 DEF WriteRegister
      <4> QED BY <3>3, <4>1
    <3>5. reg'[Rsp(m)] = Zero
      BY <1>4, <1>r, <2>0, <2>2, <3>2, NargsAssumption DEF Prepared
    <3>6. ASSUME NEW i \in 0..NARGS-1 PROVE reg'[Arg(m, i)] = ArgumentsOf(MyJob(t))[i]
      <4>1. reg[Arg(m, i)] = ArgumentsOf(MyJob(t))[i]
        BY <2>0, <2>2, NargsAssumption DEF Prepared
      <4> QED BY <1>4, <1>r, <3>2, <4>1
    <3>7. Running(t)'
      BY <1>2, <1>3, <3>4, <3>5, <3>6 DEF Running, Loaded
    <3> QED BY <1>2, <1>3, <1>6, <3>1, <3>7
            DEF CallOK, Before, After, InWrite, InPoll, InFetch, InProbe
  <2> QED BY <1>1, <2>0, <2>1, <2>2, NargsAssumption
<1> QED BY <1>0, <1>1, <1>5, <1>6 DEF CallOK

\* The poll that finds a response finds the thread's own.
LEMMA PollServe ==
    ASSUME Inv, NEW t \in Thread, PollData(t)
    PROVE  /\ CallOK(t)'
           /\ InPoll(t)' \/ pending[req[t].box] = {}
<1> USE DEF Inv, TypeInv, TypeOK, Goto
<1>0. /\ CallOK(t) /\ InPoll(t) /\ req[t].kind \in Commands /\ index = Rsp(req[t].box)
      /\ step[t] = 0 /\ ~late[t] /\ got[t] = <<>>
  BY DEF ServeInv, PollData, CallOK, InPoll, BusInv, AddressIntegrity, DataHalf, Target, StepOK
<1>1. UNCHANGED <<reg, pending, executed, req, calls, step>>
  BY DEF PollData, busVars
<1>2. /\ MyJob(t)' = MyJob(t)
      /\ Output(t)' <=> Output(t)
      /\ Loaded(t)' <=> Loaded(t)
      /\ Executed(MyJob(t))' <=> Executed(MyJob(t))
  BY <1>1 DEF MyJob, Output, Loaded, Executed
<1>3. CASE reg[index] = Zero
  <2>1. pc'[t] = "poll" /\ UNCHANGED <<got, late>>
    BY <1>3 DEF PollData
  <2>2. /\ Running(t)' <=> Running(t)
        /\ Answered(t)' <=> Answered(t)
    BY <1>1, <1>2 DEF Running, Answered
  <2> QED BY <1>0, <1>1, <1>2, <2>1, <2>2
          DEF CallOK, Before, After, InWrite, InPoll, InFetch, InProbe
<1>4. CASE reg[index] # Zero
  <2>1. Answered(t)
    BY <1>0, <1>4 DEF CallOK, Running
  <2>2. got'[t] = <<RspOf(MyJob(t))>> /\ ~late'[t] /\ pc'[t] = AfterStatus(t)
    BY <1>0, <1>4, <2>1 DEF PollData, Answered
  <2>3. CASE req[t].kind = "query"
    <3>1. got'[t] = Words(t, 1)
      BY <2>2 DEF Words
    <3>2. Words(t, 1)' = Words(t, 1)
      BY <1>2 DEF Words
    <3>3. pc'[t] = "fetch" /\ step'[t] + 1 = 1
      BY <1>0, <1>1, <2>2, <2>3 DEF AfterStatus
    <3>4. got'[t] = Words(t, step[t] + 1)'
      BY <3>1, <3>2, <3>3
    <3>5. Output(t)' /\ Executed(MyJob(t))'
      BY <1>2, <2>1 DEF Answered
    <3> QED BY <1>0, <1>1, <2>1, <2>2, <2>3, <3>3, <3>4, <3>5
            DEF CallOK, Before, After, InWrite, InPoll, InFetch, InProbe, Answered
  <2>4. CASE req[t].kind = "send"
    <3>1. pc'[t] = "unlock"
      BY <2>2, <2>4 DEF AfterStatus
    <3>2. IsAnswer(t, got[t])'
      BY <1>1, <1>2, <2>2, <2>4 DEF IsAnswer, CommandAnswer
    <3>3. Executed(MyJob(t))'
      BY <1>2, <2>1 DEF Answered
    <3> QED BY <1>0, <1>1, <2>1, <2>2, <3>1, <3>2, <3>3
            DEF CallOK, Before, After, InWrite, InPoll, InFetch, InProbe, Answered
  <2> QED BY <1>0, <2>3, <2>4 DEF Commands
<1> QED BY <1>3, <1>4

\* One more word of the answer.
LEMMA NextWord ==
    ASSUME NEW t \in Thread, NEW n \in Nat, n > 0
    PROVE  Append(Words(t, n), OutOf(MyJob(t))) = Words(t, n + 1)
<1> DEFINE w(i) == IF i = 1 THEN RspOf(MyJob(t)) ELSE OutOf(MyJob(t))
           S == {RspOf(MyJob(t)), OutOf(MyJob(t))}
<1>1. Words(t, n) = [i \in 1..n |-> w(i)] /\ Words(t, n + 1) = [i \in 1..n+1 |-> w(i)]
  BY DEF Words
<1>2. \A i \in Nat : w(i) \in S
  OBVIOUS
<1>3. \A i \in 1..n+1 : i \notin 1..n => w(i) = OutOf(MyJob(t))
  OBVIOUS
<1>4. OutOf(MyJob(t)) \in S
  OBVIOUS
<1> HIDE DEF w, S
<1>5. Words(t, n) \in Seq(S) /\ Len(Words(t, n)) = n
  BY <1>1, <1>2
<1> DEFINE a == Append(Words(t, n), OutOf(MyJob(t)))
<1>6. /\ a \in Seq(S) /\ Len(a) = n + 1
      /\ \A i \in 1..n : a[i] = Words(t, n)[i]
      /\ a[n + 1] = OutOf(MyJob(t))
  BY <1>4, <1>5, AppendProperties
<1> HIDE DEF a
<1>7. a = [i \in 1..n+1 |-> a[i]]
  <2>1. a \in [1..Len(a) -> S]
    BY <1>6, LenProperties
  <2> QED BY <1>6, <2>1
<1>8. ASSUME NEW i \in 1..n+1 PROVE a[i] = w(i)
  BY <1>1, <1>3, <1>6, <1>8
<1> QED BY <1>1, <1>7, <1>8 DEF a

\* The words fetched are the outputs of the thread's command, or the word
\* at the address it was asked for.
LEMMA FetchServe ==
    ASSUME Inv, NEW t \in Thread, FetchData(t)
    PROVE  CallOK(t)'
<1> USE DEF Inv, TypeInv, TypeOK, Goto
<1> DEFINE k == step[t]
<1>0. /\ CallOK(t) /\ InFetch(t) /\ ~late[t] /\ req[t].kind \in {"read", "query"}
      /\ index = FetchTarget(req[t], k)
      /\ req[t].box \in Mailbox /\ req[t].word \in Word
  <2>1. pc[t] = "fetchData" /\ CallOK(t)
    BY DEF FetchData, ServeInv
  <2>2. index = FetchTarget(req[t], k)
    BY <2>1 DEF BusInv, AddressIntegrity, DataHalf, Target
  <2>3. req[t] \in Request
    BY <2>1
  <2> QED BY <2>1, <2>2, <2>3 DEF CallOK, InFetch, Request
<1>k. k \in Nat /\ k <= LastFetch(req[t])
  BY <1>0, NargsAssumption DEF StepOK, InFetch
<1>1. UNCHANGED <<reg, pending, executed, req, calls, late>>
  BY DEF FetchData, busVars
<1>2. /\ MyJob(t)' = MyJob(t)
      /\ Output(t)' <=> Output(t)
      /\ Executed(MyJob(t))' <=> Executed(MyJob(t))
      /\ \A n : Words(t, n)' = Words(t, n)
  BY <1>1 DEF MyJob, Output, Executed, Words
<1>3. got'[t] = Append(got[t], reg[index])
  BY DEF FetchData
<1>4. CASE req[t].kind = "read"
  <2>1. pc'[t] = "unlock"
    BY <1>4, <1>k DEF FetchData, LastFetch
  <2>2. got'[t] = <<reg[Smn(req[t].word)]>>
    BY <1>0, <1>3, <1>4 DEF CallOK, FetchTarget
  <2>3. reg[Smn(req[t].word)].what \in {"zero", "data"}
    BY <1>0 DEF ServeInv, MemoryOK
  <2>4. IsAnswer(t, got[t])' /\ req'[t].kind \notin Commands
    BY <1>1, <1>4, <2>2, <2>3 DEF IsAnswer, Commands
  <2> QED BY <1>0, <1>1, <2>1, <2>4
          DEF CallOK, Before, After, InWrite, InPoll, InFetch, InProbe
<1>5. CASE req[t].kind = "query"
  <2>1. LastFetch(req[t]) = NARGS - 1 /\ k \in 0..NARGS-1
    BY <1>5, <1>k, NargsAssumption DEF LastFetch
  <2>2. Output(t) /\ Executed(MyJob(t)) /\ got[t] = Words(t, k + 1)
    BY <1>0, <1>5 DEF CallOK
  <2>3. reg[index] = OutOf(MyJob(t))
    BY <1>0, <1>5, <2>1, <2>2 DEF FetchTarget, Output
  <2>4. got'[t] = Words(t, k + 2)
    <3>1. Append(Words(t, k + 1), OutOf(MyJob(t))) = Words(t, (k + 1) + 1)
      <4>1. k + 1 \in Nat /\ k + 1 > 0
        BY <1>k
      <4> HIDE DEF k
      <4> QED BY <4>1, NextWord
    <3>2. (k + 1) + 1 = k + 2
      BY <1>k
    <3> QED BY <1>3, <2>2, <2>3, <3>1, <3>2
  <2>5. CASE k < NARGS - 1
    <3>1. pc'[t] = "fetch" /\ step'[t] = k + 1
      BY <2>1, <2>5 DEF FetchData
    <3>2. step'[t] + 1 = k + 2
      BY <1>k, <3>1
    <3>3. got'[t] = Words(t, step[t] + 1)'
      BY <1>2, <2>4, <3>2
    <3> QED BY <1>0, <1>1, <1>2, <1>5, <2>2, <3>1, <3>3
            DEF CallOK, Before, After, InWrite, InPoll, InFetch, InProbe
  <2>6. CASE k = NARGS - 1
    <3>1. pc'[t] = "unlock"
      BY <2>1, <2>6 DEF FetchData
    <3>2. k + 2 = NARGS + 1
      BY <2>6, NargsAssumption
    <3>3. got'[t] = CommandAnswer("query", MyJob(t))
      BY <2>4, <3>2 DEF Words, CommandAnswer
    <3>4. IsAnswer(t, got[t])'
      BY <1>1, <1>2, <1>5, <3>3 DEF IsAnswer
    <3> QED BY <1>0, <1>1, <1>2, <2>2, <3>1, <3>4
            DEF CallOK, Before, After, InWrite, InPoll, InFetch, InProbe
  <2> QED BY <2>1, <2>5, <2>6, NargsAssumption
<1> QED BY <1>0, <1>4, <1>5

\* The SMU serves the command of the one thread that waits for it.
LEMMA AnswerServe ==
    ASSUME Inv, NEW m \in Mailbox, Answer(m)
    PROVE  ServeInv'
<1> USE DEF Inv, TypeInv, TypeOK
<1>1. PICK v \in pending[m] :
        /\ pending' = [pending EXCEPT ![m] = @ \ {v}]
        /\ executed' = executed \cup
              {[cmd |-> v, args |-> [i \in 0..NARGS-1 |-> reg[Arg(m, i)]]]}
        /\ reg' = [r \in Reg |->
              IF r = Rsp(m) THEN RspOf(v.job)
              ELSE IF r \in Args(m) THEN OutOf(v.job)
              ELSE reg[r]]
  BY DEF Answer, Firmware
<1>2. UNCHANGED <<pc, req, calls, step, late, got>>
  BY DEF Answer, threadVars
<1>3. PICK t \in Thread : InPoll(t) /\ req[t].box = m
  BY <1>1 DEF ServeInv, DoorbellOK
<1>4. pc[t] \in Access
  BY <1>3 DEF InPoll, Access
<1>5. CallOK(t)
  BY DEF ServeInv
<1>6. Running(t)
  BY <1>1, <1>3, <1>5 DEF CallOK, Answered
<1>7. v = OpOf(MyJob(t)) /\ v.job = MyJob(t)
  BY <1>1, <1>3, <1>6 DEF Running, OpOf
<1>8. MyJob(t)' = MyJob(t)
  BY <1>2 DEF MyJob
<1>9. CallOK(t)'
  <2>1. pending'[m] = {}
    BY <1>1, <1>3, <1>6, <1>7 DEF Running, BusTypeOK
  <2>2. reg'[Rsp(m)] = RspOf(MyJob(t))
    <3>1. Rsp(m) \in Reg
      BY Layout
    <3> QED BY <1>1, <1>7, <3>1
  <2>3. ASSUME NEW i \in 0..NARGS-1 PROVE reg'[Arg(m, i)] = OutOf(MyJob(t))
    <3>1. /\ Arg(m, i) \in Reg /\ Arg(m, i) # Rsp(m)
          /\ Arg(m, i) \in Args(m)
      BY Layout
    <3> QED BY <1>1, <1>7, <3>1
  <2>4. Executed(MyJob(t))'
    <3> DEFINE a == [i \in 0..NARGS-1 |-> reg[Arg(m, i)]]
    <3>0. [cmd |-> v, args |-> a] \in executed'
      BY <1>1
    <3> HIDE DEF a
    <3>1. PICK e \in executed' : e.cmd = v
      BY <3>0
    <3>2. OpOf(MyJob(t))' = v
      BY <1>7, <1>8
    <3> QED BY <3>1, <3>2 DEF Executed
  <2>5. Answered(t)'
    BY <1>2, <1>3, <1>8, <2>1, <2>2, <2>3, <2>4 DEF Answered, Output
  <2> QED BY <1>2, <1>3, <1>5, <2>5
          DEF CallOK, Before, After, InWrite, InPoll, InFetch, InProbe
<1>10. ASSUME NEW u \in Thread, u # t PROVE CallOK(u)'
  <2>1. pc[u] \notin Access
    BY <1>4, <1>10, Exclusion DEF BusExclusion
  <2>2. OpOf(MyJob(u)) # v
    BY <1>7, <1>10 DEF OpOf, MyJob
  <2>3. MyJob(u)' = MyJob(u)
    BY <1>2 DEF MyJob
  <2>4. Executed(MyJob(u))' <=> Executed(MyJob(u))
    BY <1>1, <2>2, <2>3 DEF Executed
  <2>5. CallOK(u)
    BY DEF ServeInv
  <2> QED BY <1>2, <2>1, <2>4, <2>5, CallFrame
<1>11. DoorbellOK'
  <2>1. ASSUME NEW n \in Mailbox, pending'[n] # {}
        PROVE  \E u \in Thread : InPoll(u)' /\ req'[u].box = n
    <3>1. pending[n] # {}
      BY <1>1, <2>1 DEF BusTypeOK
    <3> QED BY <1>2, <3>1 DEF ServeInv, DoorbellOK, InPoll
  <2> QED BY <2>1 DEF DoorbellOK
<1>12. HistoryOK'
  <2>1. ASSUME NEW e \in executed'
        PROVE  \E u \in Thread, n \in Nat :
                 /\ n <= calls'[u]
                 /\ e.cmd = OpOf([thread |-> u, n |-> n])
                 /\ e.args = ArgumentsOf([thread |-> u, n |-> n])
    <3>1. CASE e \in executed
      BY <1>2, <3>1 DEF ServeInv, HistoryOK
    <3>2. CASE e = [cmd |-> v, args |-> [i \in 0..NARGS-1 |-> reg[Arg(m, i)]]]
      <4>1. e.cmd = OpOf(MyJob(t)) /\ e.args = [i \in 0..NARGS-1 |-> reg[Arg(m, i)]]
        BY <1>7, <3>2
      <4>2. e.args = ArgumentsOf(MyJob(t))
        BY <1>3, <1>6, <4>1 DEF Running, Loaded, ArgumentsOf
      <4>3. calls[t] \in Nat /\ calls[t] <= calls'[t]
        BY <1>2
      <4> QED BY <4>1, <4>2, <4>3 DEF MyJob
    <3> QED BY <1>1, <2>1, <3>1, <3>2
  <2> QED BY <2>1 DEF HistoryOK
<1>13. MemoryOK'
  <2>1. ASSUME NEW w \in Word PROVE reg'[Smn(w)] = reg[Smn(w)]
    <3>1. Smn(w) \in Reg /\ Smn(w) # Rsp(m) /\ Smn(w) \notin Args(m)
      BY Layout
    <3> QED BY <1>1, <3>1
  <2> QED BY <2>1 DEF ServeInv, MemoryOK
<1> QED BY <1>9, <1>10, <1>11, <1>12, <1>13 DEF ServeInv

\* What a thread does to the doorbells, the history and the memory.
LEMMA ThreadRest ==
    ASSUME Inv, NEW t \in Thread, ThreadStep(t)
    PROVE  DoorbellOK' /\ HistoryOK' /\ MemoryOK'
<1> USE DEF Inv, TypeInv, TypeOK
<1>1. executed' = executed
  BY DEF ThreadStep, Call, TakeLock, OpenFile, OpenFails, TakeFlock, GiveUp, SetAddress,
         WriteData, PollData, PollGiveUp, FetchData, ProbeData, Expire, Raise, Unlock,
         Return, busVars, WriteIndex, WriteRegister
<1>2. \A u \in Thread : calls'[u] \in Nat /\ calls[u] <= calls'[u]
  <2>1. CASE Call(t)
    BY <2>1 DEF Call
  <2>2. CASE calls' = calls
    BY <2>2
  <2> QED BY <2>1, <2>2 DEF ThreadStep, TakeLock, OpenFile, OpenFails, TakeFlock, GiveUp,
         SetAddress, WriteData, PollData, PollGiveUp, FetchData, ProbeData, Expire, Raise,
         Unlock, Return
<1>3. HistoryOK'
  <2>1. ASSUME NEW e \in executed
        PROVE  \E u \in Thread, n \in Nat :
                 /\ n <= calls'[u]
                 /\ e.cmd = OpOf([thread |-> u, n |-> n])
                 /\ e.args = ArgumentsOf([thread |-> u, n |-> n])
    <3>1. PICK u \in Thread, n \in Nat :
                 /\ n <= calls[u]
                 /\ e.cmd = OpOf([thread |-> u, n |-> n])
                 /\ e.args = ArgumentsOf([thread |-> u, n |-> n])
      BY DEF ServeInv, HistoryOK
    <3>2. n <= calls'[u]
      <4>1. calls[u] \in Nat /\ calls'[u] \in Nat /\ calls[u] <= calls'[u]
        BY <1>2
      <4> QED BY <3>1, <4>1
    <3> QED BY <3>1, <3>2
  <2> QED BY <1>1, <2>1 DEF HistoryOK
<1>4. CASE WriteData(t)
  <2>1. /\ InWrite(t) /\ pc[t] \in Access /\ Target(t) = WriteTarget(req[t], step[t])
        /\ WriteRegister(Target(t), WriteValue(t))
        /\ req[t].box \in Mailbox /\ req[t].word \in Word
        /\ step[t] \in 0..LastWrite(req[t])
    BY <1>4, WriteReaches
  <2>2. \A m \in Mailbox : pending[m] = {}
    <3>1. ~InPoll(t)
      BY <2>1 DEF InWrite, InPoll
    <3> QED BY <2>1, <3>1, QuietDoorbells
  <2>3. DoorbellOK'
    <3> SUFFICES ASSUME NEW m \in Mailbox, pending'[m] # {}
                 PROVE  \E u \in Thread : InPoll(u)' /\ req'[u].box = m
      BY DEF DoorbellOK
    <3>1. Target(t) = Msg(m)
      BY <2>1, <2>2 DEF WriteRegister
    <3>q. req[t] \in Request
      BY <2>1 DEF InWrite
    <3>2. req[t].kind # "write"
      BY <2>1, <3>1, <3>q, Written
    <3>3. m = req[t].box /\ step[t] = NARGS + 1
      BY <2>1, <3>1, <3>q, Written
    <3>4. pc'[t] = "poll" /\ req' = req
      BY <1>4, <2>1, <3>2, <3>3, NargsAssumption DEF WriteData, LastWrite, Goto
    <3> QED BY <3>3, <3>4 DEF InPoll
  <2>4. MemoryOK'
    <3> SUFFICES ASSUME NEW w \in Word PROVE reg'[Smn(w)].what \in {"zero", "data"}
      BY DEF MemoryOK
    <3>1. reg[Smn(w)].what \in {"zero", "data"} /\ Smn(w) \in Reg
      BY Layout DEF ServeInv, MemoryOK
    <3>2. CASE req[t].kind = "write"
      <4>1. WriteValue(t).what = "data"
        BY <3>2 DEF WriteValue, DataOf
      <4> QED BY <2>1, <3>1, <4>1 DEF WriteRegister, BusTypeOK
    <3>3. CASE req[t].kind # "write"
      <4>1. Target(t) # Smn(w)
        <5>1. req[t] \in Request
          BY <2>1 DEF InWrite
        <5> QED BY <2>1, <3>3, <5>1, Written
      <4> QED BY <2>1, <3>1, <4>1 DEF WriteRegister, BusTypeOK
    <3> QED BY <3>2, <3>3
  <2> QED BY <1>3, <2>3, <2>4
<1>5. CASE ~WriteData(t)
  <2>1. UNCHANGED <<reg, pending>>
    BY <1>5 DEF ThreadStep, Call, TakeLock, OpenFile, OpenFails, TakeFlock, GiveUp,
         SetAddress, PollData, PollGiveUp, FetchData, ProbeData, Expire, Raise, Unlock,
         Return, busVars, WriteIndex
  <2>2. MemoryOK'
    BY <2>1 DEF ServeInv, MemoryOK
  <2>3. DoorbellOK'
    <3> SUFFICES ASSUME NEW m \in Mailbox, pending[m] # {}
                 PROVE  \E u \in Thread : InPoll(u)' /\ req'[u].box = m
      BY <2>1 DEF DoorbellOK
    <3>1. PICK u \in Thread : InPoll(u) /\ req[u].box = m
      BY DEF ServeInv, DoorbellOK
    <3>2. CASE pc'[u] = pc[u] /\ req'[u] = req[u]
      BY <3>1, <3>2 DEF InPoll
    <3>3. CASE u = t /\ SetAddress(t)
      <4>1. pc'[u] = "pollData" /\ req' = req
        BY <3>1, <3>3 DEF SetAddress, InPoll, DataHalf, DataPc, Goto
      <4> QED BY <3>1, <4>1 DEF InPoll
    <3>4. CASE u = t /\ PollData(t)
      <4>1. InPoll(t)'
        BY <3>1, <3>4, PollServe
      <4> QED BY <3>1, <3>4, <4>1 DEF PollData
    <3>5. CASE u # t
      BY <3>1, <3>5 DEF InPoll, ThreadStep, Call, TakeLock, OpenFile, OpenFails, TakeFlock,
         GiveUp, SetAddress, WriteData, PollData, PollGiveUp, FetchData, ProbeData,
         Expire, Raise, Unlock, Return, Goto
    <3>6. CASE u = t /\ ~SetAddress(t) /\ ~PollData(t)
      <4>1. pc[t] \in {"poll", "pollData"}
        BY <3>1, <3>6 DEF InPoll
      <4>2. Expire(t) \/ Raise(t) \/ PollGiveUp(t) => FALSE
        BY DEF Expire, Raise, PollGiveUp, NoFault, ServeInv, CallOK
      <4>3. FALSE
        BY <1>5, <3>6, <4>1, <4>2 DEF ThreadStep, Call, TakeLock, OpenFile, OpenFails,
           TakeFlock, GiveUp, FetchData, ProbeData, Unlock, Return
      <4> QED BY <4>3
    <3> QED BY <3>3, <3>4, <3>5, <3>6
  <2> QED BY <1>3, <2>2, <2>3
<1> QED BY <1>4, <1>5

LEMMA ThreadServe ==
    ASSUME Inv, NEW t \in Thread, ThreadStep(t)
    PROVE  ServeInv'
<1>1. CallOK(t)'
  <2>1. ~(OpenFails(t) \/ GiveUp(t) \/ PollGiveUp(t) \/ Expire(t) \/ Raise(t))
    BY DEF Inv, NoFault, ServeInv, CallOK, OpenFails, GiveUp, PollGiveUp, Expire, Raise
  <2> QED BY <2>1, GuardServe, AddressServe, WriteServe, PollServe, FetchServe
          DEF ThreadStep
<1>2. \A u \in Thread \ {t} : CallOK(u)'
  BY OthersServe
<1> QED BY <1>1, <1>2, ThreadRest DEF ServeInv

LEMMA StepServe == Inv /\ [Next]_vars => ServeInv'
<1> SUFFICES ASSUME Inv, [Next]_vars PROVE ServeInv'
  OBVIOUS
<1>1. CASE \E t \in Thread : ThreadStep(t)
  BY <1>1, ThreadServe
<1>2. CASE \E p \in Process : Crash(p)
  BY <1>2 DEF Crash, Inv, NoFault
<1>3. CASE \E m \in Mailbox : Answer(m)
  BY <1>3, AnswerServe
<1>4. CASE UNCHANGED vars
  <2>1. ASSUME NEW u \in Thread PROVE CallOK(u)'
    <3>1. CallOK(u)
      BY DEF Inv, ServeInv
    <3>2. UNCHANGED <<pc, req, calls, step, late, got, reg, pending, executed>>
      BY <1>4 DEF vars, busVars, threadVars
    <3>3. Executed(MyJob(u))' <=> Executed(MyJob(u))
      BY <3>2 DEF Executed, MyJob
    <3> QED BY <3>1, <3>2, <3>3, CallFrame
  <2> QED BY <1>4, <2>1 DEF Inv, ServeInv, DoorbellOK, HistoryOK, MemoryOK, InPoll,
              vars, busVars, threadVars
<1> QED BY <1>1, <1>2, <1>3, <1>4 DEF Next, Finished

\* What is invariant when nothing fails.
LEMMA StepInv == Inv /\ [Next]_vars => Inv'
BY StepTypes, StepLocks, StepBus, StepServe, NoFaultBypass DEF Inv, NoFault

LEMMA FaultlessInv == ASSUME NoFault PROVE Spec => []Inv
<1>1. Init => Inv
  BY InitTypes, InitLocks, InitBus, InitServe DEF Inv
<1> QED BY <1>1, StepInv, PTL DEF Spec

\* When nothing fails, every call returns the answer of the SMU to this very
\* command, or the word at the address it was asked for, whatever the other
\* threads and programs do meanwhile (linux.py:268-381).
THEOREM AnswersAreOwn ==
    ASSUME NoFault
    PROVE  Spec => []OwnAnswer
<1>1. Inv => OwnAnswer
  BY DEF Inv, ServeInv, CallOK, After, OwnAnswer
<1> QED BY <1>1, FaultlessInv, PTL

\* When nothing fails, the SMU executes every command with the arguments
\* of its own call (linux.py:268-323).
THEOREM CommandsAreIntact ==
    ASSUME NoFault
    PROVE  Spec => []CommandsIntact
<1>1. ASSUME Inv, NEW e \in executed
      PROVE  e.cmd.what = "op" /\ e.args = ArgumentsOf(e.cmd.job)
  <2>1. PICK t \in Thread, n \in Nat :
          /\ e.cmd = OpOf([thread |-> t, n |-> n])
          /\ e.args = ArgumentsOf([thread |-> t, n |-> n])
    BY <1>1 DEF Inv, ServeInv, HistoryOK
  <2>2. e.cmd.what = "op" /\ e.cmd.job = [thread |-> t, n |-> n]
    BY <2>1 DEF OpOf
  <2> QED BY <2>1, <2>2
<1>2. Inv => CommandsIntact
  BY <1>1 DEF CommandsIntact
<1> QED BY <1>2, FaultlessInv, PTL

-----------------------------------------------------------------------------
(* The refinement: the module implements SmuService.                       *)

\* The words of the service are those of this module.
LEMMA SameWords ==
    /\ Service!Zero = Zero /\ Service!NoRequest = NoRequest /\ Service!Probed = Probed
    /\ Service!Request = Request /\ Service!Commands = Commands
    /\ \A j : /\ Service!OpOf(j) = OpOf(j) /\ Service!DataOf(j) = DataOf(j)
              /\ Service!ArgumentsOf(j) = ArgumentsOf(j)
              /\ \A k : Service!CommandAnswer(k, j) = CommandAnswer(k, j)
    /\ \A t \in Thread : Service!MyJob(t) = MyJob(t)
<1>1. Service!Zero = Zero /\ Service!NoRequest = NoRequest /\ Service!Probed = Probed
  BY DEF Service!Zero, Service!NoRequest, Service!Probed, Service!NoJob,
         Zero, NoRequest, Probed, NoJob
<1>2. Service!Request = Request /\ Service!Commands = Commands
  BY DEF Service!Request, Service!Commands, Request, Commands
<1>3. ASSUME NEW j
      PROVE  /\ Service!OpOf(j) = OpOf(j) /\ Service!DataOf(j) = DataOf(j)
             /\ Service!ArgOf(j) = ArgOf(j)
             /\ Service!RspOf(j) = RspOf(j) /\ Service!OutOf(j) = OutOf(j)
  BY DEF Service!OpOf, Service!DataOf, Service!ArgOf, Service!RspOf, Service!OutOf,
         OpOf, DataOf, ArgOf, RspOf, OutOf
<1>4. ASSUME NEW j PROVE Service!ArgumentsOf(j) = ArgumentsOf(j)
  BY <1>1, <1>3 DEF Service!ArgumentsOf, ArgumentsOf
<1>5. ASSUME NEW j, NEW k PROVE Service!CommandAnswer(k, j) = CommandAnswer(k, j)
  BY <1>3 DEF Service!CommandAnswer, CommandAnswer
<1>6. ASSUME NEW t \in Thread PROVE Service!MyJob(t) = MyJob(t)
  BY DEF Service!MyJob, MyJob
<1> QED BY <1>1, <1>2, <1>3, <1>4, <1>5, <1>6

\* What a caller sees of a thread's call: nothing yet, or its answer.
Sees(t, p, words) == ServicePhase[t] = p /\ ServiceReply[t] = words

Phases == \A t \in Thread :
    /\ pc[t] = "idle" => Sees(t, "idle", <<>>)
    /\ Before(t) \/ InWrite(t) \/ InProbe(t) => Sees(t, "called", <<>>)
    /\ InPoll(t) /\ ~Executed(MyJob(t)) => Sees(t, "called", <<>>)
    /\ (InPoll(t) \/ InFetch(t)) /\ Executed(MyJob(t)) /\ req[t].kind \in Commands =>
          Sees(t, "served", CommandAnswer(req[t].kind, MyJob(t)))
    /\ InFetch(t) /\ req[t].kind = "read" => Sees(t, "called", <<>>)
    /\ After(t) => Sees(t, "served", got[t])

LEMMA PhasesHold == Inv => Phases
<1> SUFFICES ASSUME Inv, NEW t \in Thread
             PROVE  /\ pc[t] = "idle" => Sees(t, "idle", <<>>)
                    /\ Before(t) \/ InWrite(t) \/ InProbe(t) => Sees(t, "called", <<>>)
                    /\ InPoll(t) /\ ~Executed(MyJob(t)) => Sees(t, "called", <<>>)
                    /\ (InPoll(t) \/ InFetch(t)) /\ Executed(MyJob(t))
                       /\ req[t].kind \in Commands =>
                          Sees(t, "served", CommandAnswer(req[t].kind, MyJob(t)))
                    /\ InFetch(t) /\ req[t].kind = "read" => Sees(t, "called", <<>>)
                    /\ After(t) => Sees(t, "served", got[t])
  BY DEF Phases
<1>1. CallOK(t)
  BY DEF Inv, ServeInv
<1>2. ServicePhase[t] = IF pc[t] = "idle" THEN "idle"
                        ELSE IF Served(t) THEN "served" ELSE "called"
  BY DEF ServicePhase
<1>3. ServiceReply[t] =
        IF pc[t] \in {"unlock", "unlocked"} THEN got[t]
        ELSE IF pc[t] # "idle" /\ Served(t) THEN CommandAnswer(req[t].kind, MyJob(t))
        ELSE <<>>
  BY DEF ServiceReply
<1>4. Served(t) <=> IF req[t].kind \in Commands THEN Executed(MyJob(t))
                    ELSE pc[t] \in {"unlock", "unlocked"}
  BY DEF Served, Executed
<1>5. CASE pc[t] = "idle"
  BY <1>2, <1>3, <1>5 DEF Sees, Before, After, InWrite, InPoll, InFetch, InProbe
<1>6. CASE Before(t) \/ InWrite(t)
  <2>1. ~Served(t)
    BY <1>1, <1>4, <1>6 DEF CallOK, Before, InWrite
  <2> QED BY <1>2, <1>3, <1>6, <2>1
          DEF Sees, Before, After, InWrite, InPoll, InFetch, InProbe
<1>7. CASE InProbe(t)
  <2>1. ~Served(t)
    BY <1>1, <1>4, <1>7 DEF CallOK, InProbe, Commands
  <2> QED BY <1>2, <1>3, <1>7, <2>1
          DEF Sees, Before, After, InWrite, InPoll, InFetch, InProbe
<1>8. CASE InPoll(t)
  <2>1. Served(t) <=> Executed(MyJob(t))
    BY <1>1, <1>4, <1>8 DEF CallOK
  <2> QED BY <1>2, <1>3, <1>8, <2>1
          DEF Sees, Before, After, InWrite, InPoll, InFetch, InProbe
<1>9. CASE InFetch(t)
  <2>1. req[t].kind = "read" => ~Served(t) /\ req[t].kind \notin Commands
    BY <1>4, <1>9 DEF InFetch, Commands
  <2>2. req[t].kind \in Commands => (Served(t) <=> Executed(MyJob(t)))
    BY <1>4
  <2> QED BY <1>2, <1>3, <1>9, <2>1, <2>2
          DEF Sees, Before, After, InWrite, InPoll, InFetch, InProbe
<1>10. CASE After(t)
  <2>1. Served(t)
    BY <1>1, <1>4, <1>10 DEF CallOK, After
  <2> QED BY <1>2, <1>3, <1>10, <2>1
          DEF Sees, Before, After, InWrite, InPoll, InFetch, InProbe
<1> QED BY <1>5, <1>6, <1>7, <1>8, <1>9, <1>10
        DEF Before, After, InWrite, InPoll, InFetch, InProbe

\* The call of a thread that does not move is seen as before.
LEMMA SeenFrame ==
    ASSUME NEW u \in Thread, UNCHANGED <<pc[u], req[u], calls[u], got[u]>>,
           Executed(MyJob(u))' <=> Executed(MyJob(u))
    PROVE  ServicePhase'[u] = ServicePhase[u] /\ ServiceReply'[u] = ServiceReply[u]
<1>1. MyJob(u)' = MyJob(u)
  BY DEF MyJob
<1>2. Served(u)' <=> Served(u)
  BY <1>1 DEF Served, Executed
<1> QED BY <1>1, <1>2 DEF ServicePhase, ServiceReply

\* What a step does to the calls of the service is said thread by thread.
LEMMA SeenStep ==
    ASSUME NEW t \in Thread,
           \A u \in Thread \ {t} : /\ ServicePhase'[u] = ServicePhase[u]
                                   /\ ServiceReply'[u] = ServiceReply[u]
    PROVE  /\ ServicePhase' = [ServicePhase EXCEPT ![t] = ServicePhase'[t]]
           /\ ServiceReply' = [ServiceReply EXCEPT ![t] = ServiceReply'[t]]
<1>1. /\ ServicePhase = [u \in Thread |-> ServicePhase[u]]
      /\ ServicePhase' = [u \in Thread |-> ServicePhase'[u]]
  BY DEF ServicePhase
<1>2. /\ ServiceReply = [u \in Thread |-> ServiceReply[u]]
      /\ ServiceReply' = [u \in Thread |-> ServiceReply'[u]]
  BY DEF ServiceReply
<1> HIDE DEF ServicePhase, ServiceReply
<1> QED BY <1>1, <1>2

LEMMA InitService == Init => Service!Init
<1> SUFFICES ASSUME Init PROVE Service!Init
  OBVIOUS
<1>1. ServicePhase = [t \in Thread |-> "idle"] /\ ServiceReply = [t \in Thread |-> <<>>]
  BY DEF Init, ServicePhase, ServiceReply
<1>2. [w \in Word |-> reg[Smn(w)]] = [w \in Word |-> Zero]
  BY Layout DEF Init, BusInit
<1> QED BY <1>1, <1>2, SameWords DEF Init, BusInit, Service!Init

LEMMA PhasesBefore == Inv /\ [Next]_vars => Phases /\ Phases'
BY StepInv, PhasesHold, PTL

\* The registers outside the mailboxes.
Memory == [w \in Word |-> reg[Smn(w)]]

\* A step that changes nothing the callers see.
LEMMA Stutter ==
    ASSUME NEW t \in Thread,
           ServicePhase' = [ServicePhase EXCEPT ![t] = ServicePhase'[t]],
           ServiceReply' = [ServiceReply EXCEPT ![t] = ServiceReply'[t]],
           NEW p, NEW words, Sees(t, p, words),
           ServicePhase'[t] = p, ServiceReply'[t] = words,
           UNCHANGED <<req, calls, executed, Memory>>
    PROVE  UNCHANGED Service!vars
<1>1. ServicePhase' = ServicePhase
  <2>1. ServicePhase = [ServicePhase EXCEPT ![t] = ServicePhase[t]]
    BY DEF ServicePhase
  <2> QED BY <2>1 DEF Sees
<1>2. ServiceReply' = ServiceReply
  <2>1. ServiceReply = [ServiceReply EXCEPT ![t] = ServiceReply[t]]
    BY DEF ServiceReply
  <2> QED BY <2>1 DEF Sees
<1> QED BY <1>1, <1>2 DEF Service!vars, Memory

\* Entry into the guard and exit from it: the service is called, and it
\* returns.
LEMMA GuardService ==
    ASSUME Inv, Phases, Phases', NEW t \in Thread,
           ServicePhase' = [ServicePhase EXCEPT ![t] = ServicePhase'[t]],
           ServiceReply' = [ServiceReply EXCEPT ![t] = ServiceReply'[t]],
           Call(t) \/ TakeLock(t) \/ OpenFile(t) \/ TakeFlock(t) \/ Unlock(t) \/ Return(t)
    PROVE  Service!Next \/ UNCHANGED Service!vars
<1> USE DEF Inv, TypeInv, TypeOK, Goto
<1>1. UNCHANGED <<reg, executed, Memory>>
  BY DEF Call, TakeLock, OpenFile, TakeFlock, Unlock, Return, busVars, Memory
<1>2. CASE Call(t)
  <2>1. pc[t] = "idle" /\ Before(t)'
    BY <1>2 DEF Call, Before
  <2>2. Sees(t, "idle", <<>>) /\ ServicePhase'[t] = "called" /\ ServiceReply'[t] = <<>>
    BY <2>1 DEF Phases, Sees, Before
  <2>3. ServiceReply' = ServiceReply
    <3>1. ServiceReply = [ServiceReply EXCEPT ![t] = ServiceReply[t]]
      BY DEF ServiceReply
    <3> QED BY <2>2, <3>1 DEF Sees
  <2>4. Service!Call(t)
    BY <1>1, <1>2, <2>2, <2>3, SameWords DEF Call, Service!Call, Sees, Memory
  <2> QED BY <2>4 DEF Service!Next
<1>3. CASE TakeLock(t) \/ OpenFile(t) \/ TakeFlock(t)
  <2>1. Before(t) /\ UNCHANGED <<req, calls>>
    BY <1>3 DEF TakeLock, OpenFile, TakeFlock, Before
  <2>2. Before(t)' \/ InWrite(t)' \/ InProbe(t)' \/ (InFetch(t)' /\ req'[t].kind = "read")
    BY <1>3 DEF TakeLock, OpenFile, TakeFlock, FirstPc, Before, InWrite, InProbe, InFetch
  <2>3. Sees(t, "called", <<>>) /\ ServicePhase'[t] = "called" /\ ServiceReply'[t] = <<>>
    BY <2>1, <2>2 DEF Phases, Sees
  <2> QED BY <1>1, <2>1, <2>3, Stutter
<1>4. CASE Unlock(t)
  <2>1. After(t) /\ After(t)' /\ UNCHANGED <<req, calls, got>>
    BY <1>4 DEF Unlock, After
  <2>2. Sees(t, "served", got[t])
        /\ ServicePhase'[t] = "served" /\ ServiceReply'[t] = got[t]
    BY <2>1 DEF Phases, Sees
  <2> QED BY <1>1, <2>1, <2>2, Stutter
<1>5. CASE Return(t)
  <2>1. After(t) /\ pc'[t] = "idle"
    BY <1>5 DEF Return, After
  <2>2. ServicePhase[t] = "served" /\ ServicePhase'[t] = "idle" /\ ServiceReply'[t] = <<>>
    BY <2>1 DEF Phases, Sees
  <2>3. Service!Return(t)
    BY <1>1, <1>5, <2>2, SameWords DEF Return, Service!Return, Memory
  <2> QED BY <2>3 DEF Service!Next
<1> QED BY <1>2, <1>3, <1>4, <1>5

\* The data half of a write is the write of the service; the writes of a
\* command are not seen.
LEMMA WriteService ==
    ASSUME Inv, Phases, Phases', NEW t \in Thread,
           ServicePhase' = [ServicePhase EXCEPT ![t] = ServicePhase'[t]],
           ServiceReply' = [ServiceReply EXCEPT ![t] = ServiceReply'[t]],
           WriteData(t)
    PROVE  Service!Next \/ UNCHANGED Service!vars
<1> USE DEF Inv, TypeInv, TypeOK, Goto
<1>1. /\ InWrite(t) /\ Target(t) = WriteTarget(req[t], step[t]) /\ Target(t) \in Reg
      /\ WriteRegister(Target(t), WriteValue(t)) /\ req[t].word \in Word
      /\ step[t] \in 0..LastWrite(req[t])
  BY WriteReaches
<1>2. UNCHANGED <<executed, req, calls, got>>
  BY <1>1 DEF WriteData, WriteRegister
<1>3. CallOK(t) /\ CallOK(t)'
  BY WriteServe DEF ServeInv
<1>4. got[t] = <<>>
  BY <1>1, <1>3 DEF CallOK
<1>5. Sees(t, "called", <<>>)
  BY <1>1 DEF Phases
<1>6. reg' = [reg EXCEPT ![Target(t)] = WriteValue(t)] /\ reg \in [Reg -> Value]
  BY <1>1 DEF WriteRegister, BusTypeOK
<1>7. \A w \in Word : Smn(w) \in Reg
  BY Layout
<1>8. CASE req[t].kind = "write"
  <2>1. After(t)'
    BY <1>1, <1>8 DEF WriteData, LastWrite, After
  <2>2. ServicePhase'[t] = "served" /\ ServiceReply'[t] = <<>>
    BY <1>2, <1>4, <2>1 DEF Phases, Sees
  <2>3. Target(t) = Smn(req[t].word) /\ WriteValue(t) = DataOf(MyJob(t))
    BY <1>1, <1>8 DEF WriteTarget, WriteValue
  <2>4. Memory' = [Memory EXCEPT ![req[t].word] = DataOf(MyJob(t))]
    <3>1. ASSUME NEW w \in Word
          PROVE  reg'[Smn(w)] = IF w = req[t].word THEN DataOf(MyJob(t)) ELSE reg[Smn(w)]
      <4>1. Smn(w) = Smn(req[t].word) <=> w = req[t].word
        BY DEF Smn
      <4> QED BY <1>6, <1>7, <2>3, <4>1
    <3>2. [Memory EXCEPT ![req[t].word] = DataOf(MyJob(t))]
            = [w \in Word |-> IF w = req[t].word THEN DataOf(MyJob(t)) ELSE reg[Smn(w)]]
      BY DEF Memory
    <3> QED BY <3>1, <3>2 DEF Memory
  <2>5. Service!Write(t)
    BY <1>2, <1>5, <1>8, <2>2, <2>4, SameWords
       DEF Service!Write, Service!Reply, Sees, Memory
  <2> QED BY <2>5 DEF Service!Next
<1>9. CASE req[t].kind # "write"
  <2>1. \A w \in Word : Target(t) # Smn(w)
    <3>1. req[t] \in Request
      BY <1>1 DEF InWrite
    <3> QED BY <1>1, <1>9, <3>1, Written
  <2>2. Memory' = Memory
    BY <1>6, <1>7, <2>1 DEF Memory
  <2>3. req[t].kind \in Commands
    BY <1>1, <1>3, <1>9 DEF CallOK
  <2>4. ~Executed(MyJob(t))'
    BY <1>1, <1>2, <1>3 DEF CallOK, Executed, MyJob
  <2>5. InWrite(t)' \/ InPoll(t)'
    BY <1>9 DEF WriteData, InWrite, InPoll
  <2>6. ServicePhase'[t] = "called" /\ ServiceReply'[t] = <<>>
    BY <2>4, <2>5 DEF Phases, Sees
  <2> QED BY <1>2, <1>5, <2>2, <2>6, Stutter
<1> QED BY <1>8, <1>9

\* The address halves and the polls are not seen, the probe is answered by
\* its last half, and so is a read.
LEMMA ReadService ==
    ASSUME Inv, Phases, Phases', NEW t \in Thread,
           ServicePhase' = [ServicePhase EXCEPT ![t] = ServicePhase'[t]],
           ServiceReply' = [ServiceReply EXCEPT ![t] = ServiceReply'[t]],
           SetAddress(t) \/ PollData(t) \/ FetchData(t) \/ ProbeData(t)
    PROVE  Service!Next \/ UNCHANGED Service!vars
<1> USE DEF Inv, TypeInv, TypeOK, Goto
<1>1. UNCHANGED <<reg, executed, req, calls, Memory>>
  BY DEF SetAddress, PollData, FetchData, ProbeData, busVars, WriteIndex, Memory
<1>2. MyJob(t)' = MyJob(t) /\ (Executed(MyJob(t))' <=> Executed(MyJob(t)))
  BY <1>1 DEF MyJob, Executed
<1>3. CallOK(t)
  BY DEF ServeInv
<1>4. CASE SetAddress(t)
  <2>1. /\ InWrite(t)' <=> InWrite(t)
        /\ InPoll(t)'  <=> InPoll(t)
        /\ InFetch(t)' <=> InFetch(t)
        /\ InProbe(t)' <=> InProbe(t)
        /\ InWrite(t) \/ InPoll(t) \/ InFetch(t) \/ InProbe(t)
    BY <1>4 DEF SetAddress, Access, DataHalf, DataPc, InWrite, InPoll, InFetch, InProbe
  <2>2. CASE \/ InWrite(t) \/ InProbe(t) \/ (InPoll(t) /\ ~Executed(MyJob(t)))
             \/ (InFetch(t) /\ req[t].kind = "read")
    <3>1. Sees(t, "called", <<>>) /\ ServicePhase'[t] = "called" /\ ServiceReply'[t] = <<>>
      BY <1>1, <1>2, <2>1, <2>2 DEF Phases, Sees
    <3> QED BY <1>1, <3>1, Stutter
  <2>3. CASE (InPoll(t) \/ InFetch(t)) /\ Executed(MyJob(t)) /\ req[t].kind \in Commands
    <3>1. /\ Sees(t, "served", CommandAnswer(req[t].kind, MyJob(t)))
          /\ ServicePhase'[t] = "served"
          /\ ServiceReply'[t] = CommandAnswer(req[t].kind, MyJob(t))
      BY <1>1, <1>2, <2>1, <2>3 DEF Phases, Sees
    <3> QED BY <1>1, <3>1, Stutter
  <2>4. InPoll(t) => req[t].kind \in Commands
    BY <1>3 DEF CallOK
  <2>5. InFetch(t) => req[t].kind = "read" \/ (Executed(MyJob(t)) /\ req[t].kind \in Commands)
    BY <1>3 DEF CallOK, Commands
  <2> QED BY <2>1, <2>2, <2>3, <2>4, <2>5
<1>5. CASE PollData(t)
  <2>1. /\ InPoll(t) /\ req[t].kind \in Commands /\ index = Rsp(req[t].box)
        /\ CallOK(t)' /\ (Running(t) \/ Answered(t))
    BY <1>3, <1>5, PollServe
       DEF PollData, CallOK, InPoll, BusInv, AddressIntegrity, DataHalf, Target
  <2>2. CASE reg[index] = Zero
    <3>1. InPoll(t)'
      BY <1>5, <2>2 DEF PollData, InPoll
    <3>2. CASE Executed(MyJob(t))
      <4>1. /\ Sees(t, "served", CommandAnswer(req[t].kind, MyJob(t)))
            /\ ServicePhase'[t] = "served"
            /\ ServiceReply'[t] = CommandAnswer(req[t].kind, MyJob(t))
        BY <1>1, <1>2, <2>1, <3>1, <3>2 DEF Phases, Sees
      <4> QED BY <1>1, <4>1, Stutter
    <3>3. CASE ~Executed(MyJob(t))
      <4>1. Sees(t, "called", <<>>) /\ ServicePhase'[t] = "called" /\ ServiceReply'[t] = <<>>
        BY <1>1, <1>2, <2>1, <3>1, <3>3 DEF Phases, Sees
      <4> QED BY <1>1, <4>1, Stutter
    <3> QED BY <3>2, <3>3
  <2>3. CASE reg[index] # Zero
    <3>1. Executed(MyJob(t))
      BY <2>1, <2>3 DEF Running, Answered
    <3>2. Sees(t, "served", CommandAnswer(req[t].kind, MyJob(t)))
      BY <2>1, <3>1 DEF Phases
    <3>3. pc'[t] = AfterStatus(t)
      BY <1>5, <2>3 DEF PollData
    <3>4. CASE req[t].kind = "query"
      <4>1. InFetch(t)'
        BY <3>3, <3>4 DEF AfterStatus, InFetch
      <4>2. /\ ServicePhase'[t] = "served"
            /\ ServiceReply'[t] = CommandAnswer(req[t].kind, MyJob(t))
        BY <1>1, <1>2, <2>1, <3>1, <4>1 DEF Phases, Sees
      <4> QED BY <1>1, <3>2, <4>2, Stutter
    <3>5. CASE req[t].kind # "query"
      <4>1. After(t)'
        BY <3>3, <3>5 DEF AfterStatus, After
      <4>2. IsAnswer(t, got[t])'
        BY <2>1, <4>1 DEF CallOK
      <4>4. got'[t] = CommandAnswer(req[t].kind, MyJob(t))
        BY <1>1, <1>2, <2>1, <4>2 DEF IsAnswer
      <4>3. /\ ServicePhase'[t] = "served"
            /\ ServiceReply'[t] = CommandAnswer(req[t].kind, MyJob(t))
        BY <4>1, <4>4 DEF Phases, Sees
      <4> QED BY <1>1, <3>2, <4>3, Stutter
    <3> QED BY <3>4, <3>5
  <2> QED BY <2>2, <2>3
<1>6. CASE FetchData(t)
  <2>1. InFetch(t) /\ CallOK(t)' /\ pc'[t] \in {"fetch", "unlock"}
    BY <1>6, FetchServe DEF FetchData, InFetch
  <2>2. CASE req[t].kind = "read"
    <3>1. After(t)' /\ got'[t] = <<reg[Smn(req[t].word)]>> /\ req[t].word \in Word
      <4>1. step[t] <= LastFetch(req[t]) /\ step[t] \in Nat /\ LastFetch(req[t]) = 0
        BY <2>1, <2>2, NargsAssumption DEF InFetch, StepOK, LastFetch
      <4>2. pc'[t] = "unlock"
        BY <1>6, <4>1 DEF FetchData
      <4>3. index = Smn(req[t].word)
        BY <1>6, <2>2 DEF FetchData, BusInv, AddressIntegrity, DataHalf, Target, FetchTarget
      <4>4. req[t] \in Request
        BY <2>1 DEF InFetch
      <4>5. got[t] = <<>>
        BY <1>3, <2>1, <2>2 DEF CallOK
      <4> QED BY <1>6, <4>2, <4>3, <4>4, <4>5 DEF FetchData, After, Request
    <3>2. /\ Sees(t, "called", <<>>)
          /\ ServicePhase'[t] = "served" /\ ServiceReply'[t] = <<reg[Smn(req[t].word)]>>
      BY <2>1, <2>2, <3>1 DEF Phases, Sees
    <3>3. Memory[req[t].word] = reg[Smn(req[t].word)]
      BY <3>1 DEF Memory
    <3>4. Service!Read(t)
      BY <1>1, <2>2, <3>2, <3>3 DEF Service!Read, Service!Reply, Sees, Memory
    <3> QED BY <3>4 DEF Service!Next
  <2>3. CASE req[t].kind = "query"
    <3>1. Executed(MyJob(t)) /\ req[t].kind \in Commands
      BY <1>3, <2>1, <2>3 DEF CallOK, Commands
    <3>2. Sees(t, "served", CommandAnswer(req[t].kind, MyJob(t)))
      BY <2>1, <3>1 DEF Phases
    <3>3. /\ ServicePhase'[t] = "served"
          /\ ServiceReply'[t] = CommandAnswer(req[t].kind, MyJob(t))
      <4>1. CASE pc'[t] = "fetch"
        BY <1>1, <1>2, <3>1, <4>1 DEF Phases, Sees, InFetch
      <4>2. CASE pc'[t] = "unlock"
        <5>1. After(t)' /\ got'[t] = CommandAnswer(req[t].kind, MyJob(t))
          BY <1>1, <1>2, <2>1, <3>1, <4>2 DEF CallOK, IsAnswer, After
        <5> QED BY <5>1 DEF Phases, Sees
      <4> QED BY <2>1, <4>1, <4>2
    <3> QED BY <1>1, <3>2, <3>3, Stutter
  <2> QED BY <1>3, <2>1, <2>2, <2>3 DEF CallOK
<1>7. CASE ProbeData(t)
  <2>1. InProbe(t) /\ After(t)' /\ CallOK(t)'
    BY <1>7, AddressServe DEF ProbeData, InProbe, After
  <2>2. req[t].kind = "probe"
    BY <1>3, <2>1 DEF CallOK
  <2>3. got'[t] = <<Probed>>
    BY <1>1, <2>1, <2>2 DEF CallOK, IsAnswer
  <2>4. /\ Sees(t, "called", <<>>)
        /\ ServicePhase'[t] = "served" /\ ServiceReply'[t] = <<Probed>>
    BY <2>1, <2>3 DEF Phases, Sees
  <2>5. Service!Probe(t)
    BY <1>1, <2>2, <2>4, SameWords DEF Service!Probe, Service!Reply, Sees, Memory
  <2> QED BY <2>5 DEF Service!Next
<1> QED BY <1>4, <1>5, <1>6, <1>7

LEMMA ThreadService ==
    ASSUME Inv, Phases, Phases', NEW t \in Thread, ThreadStep(t)
    PROVE  Service!Next \/ UNCHANGED Service!vars
<1>1. ASSUME NEW u \in Thread, u # t
      PROVE  ServicePhase'[u] = ServicePhase[u] /\ ServiceReply'[u] = ServiceReply[u]
  <2>1. UNCHANGED <<pc[u], req[u], calls[u], got[u]>>
    BY <1>1 DEF Inv, TypeInv, TypeOK, ThreadStep, Call, TakeLock, OpenFile, OpenFails,
          TakeFlock, GiveUp, SetAddress, WriteData, PollData, PollGiveUp, FetchData,
          ProbeData, Expire, Raise, Unlock, Return, Goto
  <2>2. executed' = executed
    BY DEF ThreadStep, Call, TakeLock, OpenFile, OpenFails, TakeFlock, GiveUp, SetAddress,
          WriteData, PollData, PollGiveUp, FetchData, ProbeData, Expire, Raise, Unlock,
          Return, busVars, WriteIndex, WriteRegister
  <2>3. Executed(MyJob(u))' <=> Executed(MyJob(u))
    BY <2>1, <2>2 DEF Executed, MyJob
  <2> QED BY <2>1, <2>3, SeenFrame
<1>2. /\ ServicePhase' = [ServicePhase EXCEPT ![t] = ServicePhase'[t]]
      /\ ServiceReply' = [ServiceReply EXCEPT ![t] = ServiceReply'[t]]
  BY <1>1, SeenStep
<1>3. ~(OpenFails(t) \/ GiveUp(t) \/ PollGiveUp(t) \/ Expire(t) \/ Raise(t))
  BY DEF Inv, NoFault, ServeInv, CallOK, OpenFails, GiveUp, PollGiveUp, Expire, Raise
<1> QED BY <1>2, <1>3, GuardService, WriteService, ReadService DEF ThreadStep

\* The answer of the SMU is the moment at which the command is executed.
LEMMA AnswerService ==
    ASSUME Inv, Phases, Phases', NEW m \in Mailbox, Answer(m)
    PROVE  Service!Next \/ UNCHANGED Service!vars
<1> USE DEF Inv, TypeInv, TypeOK
<1>1. PICK v \in pending[m] :
        /\ executed' = executed \cup
              {[cmd |-> v, args |-> [i \in 0..NARGS-1 |-> reg[Arg(m, i)]]]}
        /\ reg' = [r \in Reg |->
              IF r = Rsp(m) THEN RspOf(v.job)
              ELSE IF r \in Args(m) THEN OutOf(v.job)
              ELSE reg[r]]
  BY DEF Answer, Firmware
<1>2. UNCHANGED <<pc, req, calls, got>>
  BY DEF Answer, threadVars
<1>3. PICK t \in Thread : InPoll(t) /\ req[t].box = m
  BY <1>1 DEF ServeInv, DoorbellOK
<1>4. Running(t) /\ req[t].kind \in Commands
  BY <1>1, <1>3 DEF ServeInv, CallOK, Answered
<1>5. v = OpOf(MyJob(t)) /\ v.job = MyJob(t)
  BY <1>1, <1>3, <1>4 DEF Running, OpOf
<1> DEFINE e == [cmd |-> v, args |-> [i \in 0..NARGS-1 |-> reg[Arg(m, i)]]]
<1>6. e = [cmd |-> OpOf(MyJob(t)), args |-> ArgumentsOf(MyJob(t))]
  <2>1. [i \in 0..NARGS-1 |-> reg[Arg(m, i)]] = ArgumentsOf(MyJob(t))
    BY <1>3, <1>4 DEF Running, Loaded, ArgumentsOf
  <2> QED BY <1>5, <2>1
<1>7. MyJob(t)' = MyJob(t)
  BY <1>2 DEF MyJob
<1>8. Executed(MyJob(t))'
  <2>1. e \in executed' /\ e.cmd = OpOf(MyJob(t))
    BY <1>1, <1>5
  <2> HIDE DEF e
  <2>2. \E x \in executed' : x.cmd = OpOf(MyJob(t))
    BY <2>1
  <2> QED BY <1>7, <2>2 DEF Executed
<1>9. ASSUME NEW u \in Thread, u # t
      PROVE  ServicePhase'[u] = ServicePhase[u] /\ ServiceReply'[u] = ServiceReply[u]
  <2>1. OpOf(MyJob(u)) # v /\ MyJob(u)' = MyJob(u)
    BY <1>2, <1>5, <1>9 DEF OpOf, MyJob
  <2>2. Executed(MyJob(u))' <=> Executed(MyJob(u))
    BY <1>1, <2>1 DEF Executed
  <2> QED BY <1>2, <2>2, SeenFrame
<1>10. /\ ServicePhase' = [ServicePhase EXCEPT ![t] = ServicePhase'[t]]
       /\ ServiceReply' = [ServiceReply EXCEPT ![t] = ServiceReply'[t]]
  BY <1>9, SeenStep
<1>11. Sees(t, "called", <<>>)
  BY <1>3, <1>4 DEF Phases, Running
<1>12. /\ ServicePhase'[t] = "served"
       /\ ServiceReply'[t] = CommandAnswer(req[t].kind, MyJob(t))
  <2>1. InPoll(t)' /\ req'[t] = req[t]
    BY <1>2, <1>3 DEF InPoll
  <2> QED BY <1>4, <1>7, <1>8, <2>1 DEF Phases, Sees
<1>13. Memory' = Memory
  <2>1. ASSUME NEW w \in Word PROVE reg'[Smn(w)] = reg[Smn(w)]
    <3>1. Smn(w) \in Reg /\ Smn(w) # Rsp(m) /\ Smn(w) \notin Args(m)
      BY Layout
    <3> QED BY <1>1, <3>1
  <2> QED BY <2>1 DEF Memory
<1>14. executed' = executed \cup {[cmd |-> OpOf(MyJob(t)), args |-> ArgumentsOf(MyJob(t))]}
  BY <1>1, <1>6
<1> HIDE DEF e
<1>15. Service!Execute(t)
  BY <1>2, <1>4, <1>10, <1>11, <1>12, <1>13, <1>14, SameWords
     DEF Service!Execute, Service!Reply, Sees, Memory
<1> QED BY <1>15 DEF Service!Next

LEMMA StepService == Inv /\ [Next]_vars => [Service!Next]_(Service!vars)
<1> SUFFICES ASSUME Inv, [Next]_vars PROVE Service!Next \/ UNCHANGED Service!vars
  OBVIOUS
<1>1. Phases /\ Phases'
  BY PhasesBefore
<1>2. CASE \E t \in Thread : ThreadStep(t)
  BY <1>1, <1>2, ThreadService
<1>3. CASE \E p \in Process : Crash(p)
  BY <1>3 DEF Crash, Inv, NoFault
<1>4. CASE \E m \in Mailbox : Answer(m)
  BY <1>1, <1>4, AnswerService
<1>5. CASE UNCHANGED vars
  <2>1. UNCHANGED <<pc, req, calls, got, reg, executed>>
    BY <1>5 DEF vars, busVars, threadVars
  <2>2. ServicePhase' = ServicePhase /\ ServiceReply' = ServiceReply
    BY <2>1 DEF ServicePhase, ServiceReply, Served, MyJob
  <2> QED BY <2>1, <2>2 DEF Service!vars
<1> QED BY <1>2, <1>3, <1>4, <1>5 DEF Next, Finished

\* When nothing fails, whatever the interleaving, the callers see a service
\* that executes each call at once between its invocation and its return:
\* the sequences of _send, _query, read_smn and write_smn are atomic
\* (linux.py:268-381).
THEOREM ServiceIsImplemented ==
    ASSUME NoFault
    PROVE  Spec => ImplementsService
<1> QED BY FaultlessInv, InitService, StepService, PTL
        DEF ImplementsService, Service!Spec, Spec

=============================================================================
