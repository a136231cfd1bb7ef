----------------------------- MODULE MacOsProofs -----------------------------
(***************************************************************************)
(* Proofs about MacOs, for every set of threads, processes, mailboxes and  *)
(* addresses, any number of calls, polls and faults.                       *)
(***************************************************************************)
EXTENDS MacOs, SequenceTheorems, TLAPS

-----------------------------------------------------------------------------
(* The inductive invariant.                                                *)

\* What has happened so far is what OnlyMeantWrites withstands.
Quiet == harm \subseteq {"cut", "slow"}

\* A register sequence stays within its registers, and an access in hand
\* belongs to a call.
ThreadStepOK(t) ==
    /\ pc[t] = "idle" => step[t] = 0
    /\ pc[t] # "idle" => req[t] \in Request
    /\ pc[t] # "access" => half[t] = 1
    /\ pc[t] \in {"lock", "flock"} =>
          step[t] = 0 /\ stage[t] = IF req[t].kind = "read" THEN "fetch" ELSE "write"
    /\ pc[t] = "access" =>
          /\ stage[t] = "write" => req[t].kind # "read" /\ step[t] <= LastWrite(req[t])
          /\ stage[t] = "fetch" /\ req[t].kind # "read" => step[t] <= NARGS - 1

StepOK == \A t \in Thread : ThreadStepOK(t)

\* Who is in the register sequence has the lock file.
FlockOK == \A t \in Thread : pc[t] \in {"access", "leave"} => flock = t

\* The connection that is open is that of the backend; close() closes
\* DirectHW first, and forgets the backend last.
LifeOK ==
    \A p \in Process :
       /\ conn[p] \subseteq {backend[p]} \ {None}
       /\ backend[p] = None => closing[p] = 0
       /\ closing[p] # 0 => "directhw" \notin conn[p]
       /\ closing[p] = 2 => conn[p] = {}

\* Between the steps of an access CF8 and the index are where the thread has
\* put them, if its calls still reach the hardware.
PairsOK(t) ==
    pc[t] = "access" =>
       /\ half[t] = 2 => /\ backend[Own(t)] # "iopci"
                         /\ "directhw" \in conn[Own(t)] => cf8 = "NB_ADDR"
       /\ half[t] = 3 => (conn[Own(t)] # {} => index = Target(t))
       /\ half[t] = 4 => /\ backend[Own(t)] # "iopci"
                         /\ "directhw" \in conn[Own(t)] =>
                               cf8 = "NB_DATA" /\ index = Target(t)

PairInv == Quiet => \A t \in Thread : PairsOK(t)

TypeInv == TypeOK /\ StepOK
IInv    == TypeInv /\ FlockOK /\ LifeOK /\ PairInv

-----------------------------------------------------------------------------
(* Type correctness.                                                       *)

LEMMA JobType == ASSUME TypeOK, NEW t \in Thread PROVE MyJob(t) \in Job
BY DEF MyJob, Job, TypeOK

LEMMA ValueTypes ==
    ASSUME NEW j \in Job
    PROVE  /\ OpOf(j) \in Value /\ ArgOf(j) \in Value /\ DataOf(j) \in Value
           /\ Zero \in Value /\ Stray \in Value
BY DEF Value, OpOf, ArgOf, DataOf, Zero, Stray

LEMMA WriteValueType == ASSUME TypeOK, NEW t \in Thread PROVE WriteValue(t) \in Value
BY JobType, ValueTypes DEF WriteValue

\* Where the registers lie: all that the proofs use of the addresses.
LEMMA Layout ==
    /\ \A m \in Mailbox : Rsp(m) \in Reg /\ Msg(m) \in Reg /\ Rsp(m) # Msg(m)
    /\ \A m \in Mailbox, i \in 0..NARGS-1 :
          Arg(m, i) \in Reg /\ Arg(m, i) \in Args(m)
    /\ \A m, n \in Mailbox, i \in 0..NARGS-1 : Arg(m, i) # Rsp(n) /\ Arg(m, i) # Msg(n)
    /\ \A m \in Mailbox : \A i, k \in 0..NARGS-1 : Arg(m, i) = Arg(m, k) => i = k
    /\ \A w \in Word : Smn(w) \in Reg
    /\ \A w \in Word, m \in Mailbox : Smn(w) # Rsp(m) /\ Smn(w) # Msg(m) /\ Smn(w) \notin Args(m)
    /\ \A m, n \in Mailbox : Rsp(m) # Msg(n) /\ (Msg(m) = Msg(n) => m = n)
<1>1. \A m \in Mailbox, i \in 0..NARGS-1 : Arg(m, i) \in Args(m)
  BY DEF Args
<1>2. \A m \in Mailbox : Registers(m) \subseteq Reg
  BY DEF Reg
<1>3. \A m \in Mailbox : \A i, k \in 0..NARGS-1 : Arg(m, i) = Arg(m, k) => i = k
  BY AddressAssumption, NargsAssumption DEF Arg
<1> QED BY <1>1, <1>2, <1>3, ApartAssumption DEF Registers, Reg, Smn

\* What a register sequence writes: its mailbox and no other's message.
LEMMA Written ==
    ASSUME NEW q \in Request, NEW k \in 0..LastWrite(q)
    PROVE  /\ \A m \in Mailbox : WriteTarget(q, k) = Msg(m) =>
                q.kind # "write" /\ m = q.box /\ k = LastWrite(q)
           /\ q.kind # "write" => \A w \in Word : WriteTarget(q, k) # Smn(w)
<1>1. q.box \in Mailbox /\ q.word \in Word
  BY DEF Request
<1>2. CASE q.kind = "write"
  BY <1>1, <1>2, Layout DEF WriteTarget
<1>3. CASE q.kind # "write"
  <2>1. CASE k = LastWrite(q)
    <3>1. WriteTarget(q, k) = Msg(q.box)
      BY <1>3, <2>1 DEF WriteTarget
    <3>2. \A w \in Word : Msg(q.box) # Smn(w)
      BY <1>1, Layout
    <3>3. \A m \in Mailbox : Msg(q.box) = Msg(m) => m = q.box
      BY <1>1, Layout
    <3> QED BY <1>3, <2>1, <3>1, <3>2, <3>3
  <2>2. CASE WriteTarget(q, k) = Rsp(q.box)
    BY <1>1, <1>3, <2>2, Layout
  <2>3. CASE k # LastWrite(q) /\ WriteTarget(q, k) # Rsp(q.box)
    <3>1. PICK i \in 0..NARGS-1 : WriteTarget(q, k) = Arg(q.box, i)
      <4>1. CASE k = ArgStep(q)
        BY <1>3, <2>3, <4>1, NargsAssumption DEF WriteTarget
      <4>2. CASE k # ArgStep(q)
        <5>1. k # 0 /\ k - 1 \in 0..NARGS-1
          BY <1>3, <2>3, <4>2, NargsAssumption DEF WriteTarget, LastWrite, ArgStep
        <5> QED BY <1>3, <2>3, <4>2, <5>1 DEF WriteTarget
      <4> QED BY <4>1, <4>2
    <3>2. Arg(q.box, i) \in Args(q.box) /\ \A m \in Mailbox : Arg(q.box, i) # Msg(m)
      BY <1>1, Layout
    <3> QED BY <1>1, <3>1, <3>2, Layout
  <2> QED BY <2>1, <2>2, <2>3
<1> QED BY <1>2, <1>3

LEMMA TargetType ==
    ASSUME TypeInv, NEW t \in Thread, pc[t] = "access"
    PROVE  Target(t) \in Reg
<1> DEFINE q == req[t]
<1>1. q.box \in Mailbox /\ q.word \in Word
  BY DEF TypeInv, StepOK, ThreadStepOK, Request
<1>2. step[t] \in Nat /\ stage[t] \in {"write", "poll", "fetch"}
  BY NargsAssumption, PollAssumption DEF TypeInv, TypeOK
<1>3. /\ Smn(q.word) \in Reg /\ Rsp(q.box) \in Reg /\ Msg(q.box) \in Reg
      /\ \A i \in 0..NARGS-1 : Arg(q.box, i) \in Reg
  BY <1>1, Layout
<1>4. CASE stage[t] = "write"
  <2>1. step[t] <= LastWrite(q)
    BY <1>4 DEF TypeInv, StepOK, ThreadStepOK
  <2>2. WriteTarget(q, step[t]) \in Reg
    BY <1>2, <1>3, <2>1, NargsAssumption DEF WriteTarget, LastWrite, ArgStep
  <2> QED BY <2>2, <1>4 DEF Target
<1>5. CASE stage[t] = "poll"
  BY <1>3, <1>5 DEF Target
<1>6. CASE stage[t] = "fetch"
  <2>1. q.kind # "read" => step[t] \in 0..NARGS-1
    BY <1>2, <1>6, NargsAssumption DEF TypeInv, StepOK, ThreadStepOK
  <2> QED BY <2>1, <1>3, <1>6 DEF Target
<1> QED BY <1>2, <1>4, <1>5, <1>6

LEMMA RequestBox ==
    ASSUME TypeInv, NEW t \in Thread, pc[t] # "idle"
    PROVE  req[t] \in Request
BY DEF TypeInv, StepOK, ThreadStepOK

\* The bus stays well typed when it does not change, when the index moves
\* to a register, and when a word is written.
LEMMA IndexTypes ==
    ASSUME BusTypeOK, NEW r \in Reg, WriteIndex(r) PROVE BusTypeOK'
BY DEF BusTypeOK, WriteIndex

LEMMA WriteTypes ==
    ASSUME BusTypeOK, NEW v \in Value, WriteRegister(index, v) PROVE BusTypeOK'
BY DEF BusTypeOK, WriteRegister

LEMMA AnswerTypes ==
    ASSUME BusTypeOK, NEW m \in Mailbox, Firmware(m) PROVE BusTypeOK'
<1> USE DEF BusTypeOK
<1>1. PICK v \in pending[m] :
        /\ pending' = [pending EXCEPT ![m] = @ \ {v}]
        /\ executed' = executed \cup
              {[cmd |-> v, args |-> [i \in 0..NARGS-1 |-> reg[Arg(m, i)]]]}
        /\ reg' = [r \in Reg |->
              IF r = Rsp(m) THEN RspOf(v.job)
              ELSE IF r \in Args(m) THEN OutOf(v.job)
              ELSE reg[r]]
        /\ UNCHANGED index
  BY DEF Firmware
<1>2. v \in Value
  OBVIOUS
<1>3. RspOf(v.job) \in Value /\ OutOf(v.job) \in Value
  BY <1>2 DEF Value, RspOf, OutOf
<1>4. \A i \in 0..NARGS-1 : reg[Arg(m, i)] \in Value
  BY Layout
<1>5. executed' \subseteq Execution
  BY <1>1, <1>2, <1>4 DEF Execution, Arguments
<1> QED BY <1>1, <1>3, <1>5

LEMMA StrayWord == ASSUME NEW w \in Word PROVE Smn(w) \in Reg
BY Layout

\* Outcome and Note keep the histories well typed.
LEMMA HistoryTypes ==
    ASSUME TypeOK, NEW t \in Thread, NEW ok \in BOOLEAN, NEW what \in SUBSET Harm,
           Outcome(t, ok, what)
    PROVE  /\ mishaps' \in 0..MaxMishaps /\ harm' \subseteq Harm /\ harm \subseteq harm'
           /\ ok => Open(t)
           /\ Quiet' /\ Open(t) => ok
<1>1. mishaps \in 0..MaxMishaps /\ harm \subseteq Harm
  BY DEF TypeOK
<1>2. CASE ok = Open(t) /\ Note(what) /\ UNCHANGED mishaps
  <2>1. harm' = harm \cup what /\ mishaps' = mishaps
    BY <1>2 DEF Note
  <2>2. ok <=> Open(t)
    BY <1>2
  <2> QED BY <1>1, <2>1, <2>2
<1>3. CASE Open(t) /\ ~ok /\ Mishap(what \cup {"refused"})
  <2>1. /\ harm' = harm \cup (what \cup {"refused"})
        /\ mishaps < MaxMishaps /\ mishaps' = mishaps + 1
    BY <1>3 DEF Note, Mishap
  <2>2. ~Quiet'
    BY <2>1 DEF Quiet
  <2>3. mishaps' \in 0..MaxMishaps
    BY <1>1, <2>1, MacBoundAssumption
  <2>4. harm' \subseteq Harm /\ harm \subseteq harm'
    BY <1>1, <2>1 DEF Harm
  <2> QED BY <1>3, <2>2, <2>3, <2>4
<1> QED BY <1>2, <1>3 DEF Outcome

LEMMA InitTypes == Init => TypeInv
<1> SUFFICES ASSUME Init PROVE TypeInv
  OBVIOUS
<1>1. BusTypeOK
  <2>1. Smn(ProbeWord) \in Reg
    BY WordAssumption, StrayWord
  <2>2. Zero \in Value
    BY DEF Zero, Value
  <2> QED BY <2>1, <2>2 DEF Init, BusInit, BusTypeOK
<1>2. TypeOK
  BY <1>1, MacProcAssumption, MacBoundAssumption, NargsAssumption DEF Init, TypeOK, Harm, ConfigReg
<1>3. StepOK
  BY DEF Init, StepOK, ThreadStepOK
<1> QED BY <1>2, <1>3 DEF TypeInv

\* init() and close() leave the calls alone.
LEMMA LifeTypes ==
    ASSUME TypeInv, NEW p \in Process, Initialise(p) \/ Close(p)
    PROVE  TypeInv'
<1> USE DEF TypeInv
<1>1. UNCHANGED <<busVars, cf8, pc, req, calls, seqVars, lockVars>>
  BY DEF Initialise, Close
<1>2. StepOK'
  BY <1>1 DEF StepOK, ThreadStepOK, seqVars
<1>3. /\ backend' \in [Process -> Path \cup {None}] /\ conn' \in [Process -> SUBSET Path]
      /\ closing' \in [Process -> 0..2]
  <2>1. CASE Initialise(p)
    BY <2>1 DEF Initialise, Choice, Path, TypeOK
  <2>2. CASE Close(p)
    BY <2>2 DEF Close, TypeOK
  <2> QED BY <2>1, <2>2
<1>4. mishaps' \in 0..MaxMishaps /\ harm' \subseteq Harm
  <2>1. mishaps \in 0..MaxMishaps /\ harm \subseteq Harm
    BY DEF TypeOK
  <2>2. CASE Initialise(p)
    <3>1. mishaps' = mishaps
      BY <2>2 DEF Initialise
    <3>2. harm' = harm \cup (IF Busy(p) THEN {"reinit"} ELSE {})
      BY <2>2 DEF Initialise, Note
    <3> QED BY <2>1, <3>1, <3>2 DEF Harm
  <2>3. CASE Close(p)
    <3>1. harm' = harm \cup (IF Busy(p) THEN {"cut"} ELSE {})
      BY <2>3 DEF Close, Note, Mishap
    <3>2. CASE mishaps' = mishaps
      BY <2>1, <3>1, <3>2 DEF Harm
    <3>3. CASE mishaps' # mishaps
      <4>1. mishaps < MaxMishaps /\ mishaps' = mishaps + 1
        BY <2>3, <3>3 DEF Close, Note, Mishap
      <4> QED BY <2>1, <3>1, <4>1, MacBoundAssumption DEF Harm
    <3> QED BY <3>2, <3>3
  <2> QED BY <2>2, <2>3
<1>5. TypeOK'
  BY <1>1, <1>3, <1>4 DEF TypeOK, busVars, seqVars, lockVars, BusTypeOK
<1> QED BY <1>2, <1>5

\* The steps around a register sequence.
LEMMA GuardTypes ==
    ASSUME TypeInv, NEW t \in Thread,
           Call(t) \/ TakeLock(t) \/ Acquire(t) \/ Leave(t)
    PROVE  TypeInv'
<1> USE DEF TypeInv, TypeOK, BusTypeOK, busVars, seqVars, lockVars, lifeVars, histVars
<1>1. CASE Call(t)
  <2>1. TypeOK'
    <3>1. harm' \subseteq Harm
      BY <1>1 DEF Call, Note, Harm
    <3>2. calls' \in [Thread -> 0..MaxCalls] /\ req' \in [Thread -> Request \cup {NoRequest}]
      BY <1>1, MacBoundAssumption DEF Call
    <3>3. stage' \in [Thread -> {"write", "poll", "fetch"}]
      BY <1>1 DEF Call
    <3>4. step[t] = 0 /\ stage'[t] # "poll" /\ step' = step
      BY <1>1 DEF Call, StepOK, ThreadStepOK
    <3>5. \A u \in Thread : step'[u] \in 0 .. (IF stage'[u] = "poll" THEN POLL_N - 1
                                               ELSE NARGS + 2)
      BY <1>1, <3>4, NargsAssumption DEF Call
    <3> QED BY <1>1, <3>1, <3>2, <3>3, <3>4, <3>5 DEF Call
  <2>2. StepOK'
    BY <1>1 DEF Call, StepOK, ThreadStepOK
  <2> QED BY <2>1, <2>2
<1>2. CASE TakeLock(t)
  <2>1. TypeOK'
    BY <1>2, MacProcAssumption DEF TakeLock
  <2>2. StepOK'
    BY <1>2 DEF TakeLock, StepOK, ThreadStepOK
  <2> QED BY <2>1, <2>2
<1>3. CASE Acquire(t)
  <2>1. TypeOK'
    BY <1>3 DEF Acquire
  <2>2. StepOK'
    BY <1>3, NargsAssumption DEF Acquire, StepOK, ThreadStepOK, LastWrite
  <2> QED BY <2>1, <2>2
<1>4. CASE Leave(t)
  <2>1. lock' \in [Process -> Thread \cup {NoThread}]
    BY <1>4, MacProcAssumption DEF Leave
  <2>2. got' \in [Thread -> Seq(Value \cup {Failed})]
    <3>1. <<>> \in Seq(Value \cup {Failed})
      OBVIOUS
    <3> QED BY <1>4, <3>1 DEF Leave
  <2>3. TypeOK'
    BY <1>4, <2>1, <2>2, NargsAssumption DEF Leave
  <2>4. StepOK'
    BY <1>4 DEF Leave, StepOK, ThreadStepOK
  <2> QED BY <2>3, <2>4
<1> QED BY <1>1, <1>2, <1>3, <1>4

\* The steps of an access before its last.
LEMMA HalfTypes ==
    ASSUME TypeInv, NEW t \in Thread, SetPort(t) \/ SetIndex(t)
    PROVE  TypeInv'
<1> USE DEF TypeInv
<1>1. /\ pc[t] = "access"
      /\ half' = [half EXCEPT ![t] = half'[t]] /\ half'[t] \in 1..4
      /\ UNCHANGED <<pc, req, calls, stage, step, got, lockVars, lifeVars>>
  BY DEF SetPort, SetIndex, TypeOK
<1>2. cf8' \in ConfigReg
  BY DEF SetPort, SetIndex, TypeOK, ConfigReg
<1>3. mishaps' \in 0..MaxMishaps /\ harm' \subseteq Harm
  <2>1. PICK ok \in BOOLEAN : Outcome(t, ok, {})
    BY DEF SetPort, SetIndex
  <2> QED BY <2>1, HistoryTypes
<1>4. BusTypeOK'
  <2>1. CASE SetPort(t)
    BY <2>1 DEF SetPort, busVars, BusTypeOK, TypeOK
  <2>2. CASE SetIndex(t)
    <3>1. \/ WriteIndex(Target(t)) \/ WriteRegister(index, Stray) \/ UNCHANGED busVars
      BY <2>2 DEF SetIndex
    <3>2. Target(t) \in Reg /\ Stray \in Value
      BY <1>1, TargetType DEF Stray, Value
    <3> QED BY <3>1, <3>2, IndexTypes, WriteTypes DEF TypeOK, busVars, BusTypeOK
  <2> QED BY <2>1, <2>2
<1>5. TypeOK'
  BY <1>1, <1>2, <1>3, <1>4 DEF TypeOK, lockVars, lifeVars
<1>6. ASSUME NEW u \in Thread PROVE ThreadStepOK(u)'
  <2>1. /\ pc'[u] = pc[u] /\ stage'[u] = stage[u] /\ step'[u] = step[u]
        /\ req'[u] = req[u] /\ (u # t => half'[u] = half[u])
    BY <1>1 DEF TypeOK
  <2>2. ThreadStepOK(u)
    BY DEF StepOK
  <2> QED BY <1>1, <2>1, <2>2 DEF ThreadStepOK, LastWrite
<1> QED BY <1>5, <1>6 DEF StepOK

\* Where a register sequence goes after a write, a poll and a fetch.
NextPlace(t) ==
    /\ pc' = [pc EXCEPT ![t] = pc'[t]]
    /\ stage' = [stage EXCEPT ![t] = stage'[t]]
    /\ step' = [step EXCEPT ![t] = step'[t]]
    /\ \/ pc'[t] = "leave" /\ stage'[t] \in {"write", "fetch"} /\ step'[t] = 0
       \/ /\ pc'[t] = "access" /\ stage'[t] = "write" /\ step'[t] = step[t] + 1
          /\ req[t].kind # "read" /\ step'[t] <= LastWrite(req[t])
       \/ pc'[t] = "access" /\ stage'[t] = "poll" /\ step'[t] = 0
       \/ /\ pc'[t] = "access" /\ stage'[t] = "poll" /\ step'[t] = step[t] + 1
          /\ step'[t] <= POLL_N - 1
       \/ pc'[t] = "access" /\ stage'[t] = "fetch" /\ step'[t] = 0
       \/ /\ pc'[t] = "access" /\ stage'[t] = "fetch" /\ step'[t] = step[t] + 1
          /\ step'[t] <= NARGS - 1

LEMMA PlaceTypes ==
    ASSUME TypeInv, NEW t \in Thread, pc[t] = "access", NextPlace(t),
           half' = [half EXCEPT ![t] = 1],
           UNCHANGED <<cf8, req, calls, lockVars, lifeVars>>,
           BusTypeOK', mishaps' \in 0..MaxMishaps, harm' \subseteq Harm,
           got' \in [Thread -> Seq(Value \cup {Failed})]
    PROVE  TypeInv'
<1> USE DEF TypeInv
<1>1. step[t] \in Nat /\ LastWrite(req[t]) <= NARGS + 2 /\ LastWrite(req[t]) \in Nat
  BY NargsAssumption, PollAssumption DEF TypeOK, LastWrite
<1>2. /\ pc'[t] \in {"leave", "access"} /\ stage'[t] \in {"write", "poll", "fetch"}
      /\ step'[t] \in 0 .. (IF stage'[t] = "poll" THEN POLL_N - 1 ELSE NARGS + 2)
  BY <1>1, NargsAssumption, PollAssumption DEF NextPlace
<1>3. /\ pc' = [pc EXCEPT ![t] = pc'[t]]
      /\ stage' = [stage EXCEPT ![t] = stage'[t]]
      /\ step' = [step EXCEPT ![t] = step'[t]]
  BY DEF NextPlace
<1>4. \A u \in Thread :
         step'[u] \in 0 .. (IF stage'[u] = "poll" THEN POLL_N - 1 ELSE NARGS + 2)
  BY <1>2, <1>3 DEF TypeOK
<1>8. step' \in [Thread -> Nat]
  <2>1. step'[t] \in Nat
    BY <1>2, NargsAssumption, PollAssumption
  <2> QED BY <2>1, <1>3 DEF TypeOK
<1>9. /\ pc' \in [Thread -> {"idle", "lock", "flock", "access", "leave"}]
      /\ stage' \in [Thread -> {"write", "poll", "fetch"}]
      /\ half' \in [Thread -> 1..4]
  <2>1. pc' \in [Thread -> {"idle", "lock", "flock", "access", "leave"}]
    BY <1>2, <1>3 DEF TypeOK
  <2>2. stage' \in [Thread -> {"write", "poll", "fetch"}]
    BY <1>2, <1>3 DEF TypeOK
  <2>3. half' \in [Thread -> 1..4]
    BY DEF TypeOK
  <2> QED BY <2>1, <2>2, <2>3
<1>10. /\ cf8' \in ConfigReg /\ req' \in [Thread -> Request \cup {NoRequest}]
       /\ calls' \in [Thread -> 0..MaxCalls]
       /\ lock' \in [Process -> Thread \cup {NoThread}]
       /\ flock' \in Thread \cup {NoThread}
       /\ backend' \in [Process -> Path \cup {None}]
       /\ conn' \in [Process -> SUBSET Path]
       /\ closing' \in [Process -> 0..2]
  BY DEF TypeOK, lockVars, lifeVars
<1>5. TypeOK'
  BY <1>4, <1>8, <1>9, <1>10 DEF TypeOK
<1>6. ThreadStepOK(t)'
  <2>1. req[t] \in Request /\ req' = req /\ half'[t] = 1
    BY RequestBox DEF TypeOK
  <2>2. CASE pc'[t] = "leave"
    BY <2>1, <2>2 DEF ThreadStepOK
  <2>3. CASE pc'[t] = "access"
    <3>1. stage'[t] = "write" => req[t].kind # "read" /\ step'[t] <= LastWrite(req[t])
      BY <2>3 DEF NextPlace
    <3>2. stage'[t] = "fetch" => step'[t] <= NARGS - 1
      BY <2>3, NargsAssumption DEF NextPlace
    <3> QED BY <2>1, <2>3, <3>1, <3>2 DEF ThreadStepOK, LastWrite
  <2> QED BY <1>2, <2>2, <2>3
<1>7. ASSUME NEW u \in Thread, u # t PROVE ThreadStepOK(u)'
  <2>1. /\ pc'[u] = pc[u] /\ stage'[u] = stage[u] /\ step'[u] = step[u]
        /\ half'[u] = half[u] /\ req'[u] = req[u]
    BY <1>3, <1>7 DEF TypeOK
  <2> QED BY <2>1 DEF StepOK, ThreadStepOK, LastWrite
<1> QED BY <1>5, <1>6, <1>7 DEF StepOK

LEMMA WriteDataTypes ==
    ASSUME TypeInv, NEW t \in Thread, WriteData(t)
    PROVE  TypeInv'
<1> USE DEF TypeInv
<1>1. pc[t] = "access" /\ stage[t] = "write"
  BY DEF WriteData, AtData
<1>2. step[t] \in Nat /\ LastWrite(req[t]) \in Nat
  BY <1>1, NargsAssumption DEF TypeOK, LastWrite
<1>3. NextPlace(t)
  <2>1. AfterWrite(t) /\ req[t].kind # "read" /\ step[t] <= LastWrite(req[t])
    BY <1>1 DEF WriteData, StepOK, ThreadStepOK
  <2> QED BY <1>2, <2>1 DEF AfterWrite, Goto, NextPlace, TypeOK
<1>4. PICK ok \in BOOLEAN :
        /\ Outcome(t, ok, {})
        /\ \/ ok /\ Reached(t) = "NB_DATA" /\ WriteRegister(index, WriteValue(t))
           \/ ok /\ Reached(t) = "NB_ADDR" /\ \E w \in Word : WriteIndex(Smn(w))
           \/ (~ok \/ Reached(t) = "other") /\ UNCHANGED busVars
  BY DEF WriteData
<1>5. mishaps' \in 0..MaxMishaps /\ harm' \subseteq Harm
  BY <1>4, HistoryTypes
<1>6. BusTypeOK'
  <2>1. WriteValue(t) \in Value
    BY WriteValueType
  <2> QED BY <1>4, <2>1, StrayWord, IndexTypes, WriteTypes DEF TypeOK, busVars, BusTypeOK
<1>7. got' \in [Thread -> Seq(Value \cup {Failed})]
  BY DEF WriteData, AfterWrite, TypeOK
<1> QED BY <1>1, <1>3, <1>5, <1>6, <1>7, PlaceTypes DEF WriteData

LEMMA ReadDataTypes ==
    ASSUME TypeInv, NEW t \in Thread, ReadData(t)
    PROVE  TypeInv'
<1> USE DEF TypeInv
<1>1. pc[t] = "access" /\ stage[t] \in {"poll", "fetch"}
  BY DEF ReadData, AtData, TypeOK
<1>2. step[t] \in Nat
  BY NargsAssumption, PollAssumption DEF TypeOK
<1>3. PICK ok \in BOOLEAN, word \in Value :
        /\ IF stage[t] = "poll" THEN AfterPoll(t, word) ELSE AfterFetch(t, word)
        /\ Outcome(t, ok, IF stage[t] = "poll" /\ word = Zero /\ step[t] = POLL_N - 1
                          THEN {"slow"} ELSE {})
  <2>1. PICK ok \in BOOLEAN :
          LET word == IF ~ok THEN Zero
                      ELSE IF Reached(t) = "NB_DATA" THEN reg[index] ELSE Stray
          IN /\ IF stage[t] = "poll" THEN AfterPoll(t, word) ELSE AfterFetch(t, word)
             /\ Outcome(t, ok, IF stage[t] = "poll" /\ word = Zero /\ step[t] = POLL_N - 1
                               THEN {"slow"} ELSE {})
    BY DEF ReadData
  <2>2. Zero \in Value /\ reg[index] \in Value /\ Stray \in Value
    BY DEF TypeOK, BusTypeOK, Zero, Stray, Value
  <2> QED BY <2>1, <2>2
<1>4. mishaps' \in 0..MaxMishaps /\ harm' \subseteq Harm
  BY <1>3, HistoryTypes DEF Harm
<1>5. NextPlace(t)
  <2>1. CASE stage[t] = "poll"
    BY <1>2, <1>3, <2>1, PollAssumption DEF AfterPoll, Goto, NextPlace, TypeOK
  <2>2. CASE stage[t] = "fetch"
    BY <1>2, <1>3, <2>2, NargsAssumption DEF AfterFetch, Goto, NextPlace, TypeOK
  <2> QED BY <1>1, <2>1, <2>2
<1>6. got' \in [Thread -> Seq(Value \cup {Failed})]
  <2> DEFINE S == Seq(Value \cup {Failed})
  <2>1. <<word>> \in S /\ Append(got[t], word) \in S /\ <<Failed>> \in S
    BY DEF TypeOK
  <2>2. <<Failed>> \o [i \in 1..NARGS |-> Zero] \in S
    <3>1. [i \in 1..NARGS |-> Zero] \in S
      BY NargsAssumption DEF Zero, Value
    <3> QED BY <2>1, <3>1
  <2>3. \/ got' = got \/ got' = [got EXCEPT ![t] = <<word>>]
        \/ got' = [got EXCEPT ![t] = <<Failed>>]
        \/ got' = [got EXCEPT ![t] = <<Failed>> \o [i \in 1..NARGS |-> Zero]]
        \/ got' = [got EXCEPT ![t] = Append(got[t], word)]
    BY <1>3 DEF AfterPoll, AfterFetch
  <2>4. got \in [Thread -> S]
    BY DEF TypeOK
  <2> HIDE DEF S
  <2>5. got' \in [Thread -> S]
    BY <2>1, <2>2, <2>3, <2>4
  <2> QED BY <2>5 DEF S
<1>7. BusTypeOK'
  BY DEF ReadData, TypeOK, busVars, BusTypeOK
<1> QED BY <1>1, <1>4, <1>5, <1>6, <1>7, PlaceTypes DEF ReadData

LEMMA StepTypes == TypeInv /\ [Next]_vars => TypeInv'
<1> SUFFICES ASSUME TypeInv, [Next]_vars PROVE TypeInv'
  OBVIOUS
<1> USE DEF seqVars, lockVars, lifeVars, histVars
<1>1. CASE \E t \in Thread : Call(t) \/ Progress(t)
  BY <1>1, GuardTypes, HalfTypes, WriteDataTypes, ReadDataTypes DEF Progress
<1>2. CASE \E p \in Process : Initialise(p) \/ Close(p)
  BY <1>2, LifeTypes
<1>3. CASE \E m \in Mailbox : Answer(m)
  <2>1. BusTypeOK'
    BY <1>3, AnswerTypes DEF Answer, TypeInv, TypeOK
  <2> QED BY <1>3, <2>1 DEF Answer, TypeInv, TypeOK, StepOK, ThreadStepOK
<1>4. CASE MovePort
  <2>1. mishaps' \in 0..MaxMishaps /\ harm' \subseteq Harm /\ cf8' \in ConfigReg
    BY <1>4, MacBoundAssumption DEF MovePort, Mishap, Note, Harm, ConfigReg, TypeInv, TypeOK
  <2> QED BY <1>4, <2>1 DEF MovePort, TypeInv, TypeOK, StepOK, ThreadStepOK, busVars, BusTypeOK
<1>5. CASE UNCHANGED vars
  BY <1>5 DEF vars, TypeInv, TypeOK, StepOK, ThreadStepOK, busVars, BusTypeOK
<1> QED BY <1>1, <1>2, <1>3, <1>4, <1>5 DEF Next, Finished

\* Every reachable state is well typed, and the register sequences stay
\* within their bounds (mailbox.py, macos.py).
THEOREM TypeCorrect == Spec => []TypeOK
<1>1. TypeInv => TypeOK
  BY DEF TypeInv
<1> QED BY <1>1, InitTypes, StepTypes, PTL DEF Spec

-----------------------------------------------------------------------------
(* The lock file and the connections.                                      *)

LEMMA FlockStep == TypeInv /\ FlockOK /\ [Next]_vars => FlockOK'
<1> SUFFICES ASSUME TypeInv, FlockOK, [Next]_vars PROVE FlockOK'
  OBVIOUS
<1> USE DEF TypeInv, TypeOK, FlockOK, seqVars, lockVars, lifeVars, histVars
<1>n. NoThread \notin Thread
  BY ThreadAssumption
<1>1. ASSUME NEW t \in Thread, Call(t) \/ TakeLock(t) PROVE FlockOK'
  BY <1>1 DEF Call, TakeLock
<1>2. ASSUME NEW t \in Thread, Acquire(t) PROVE FlockOK'
  BY <1>2, <1>n DEF Acquire
<1>3. ASSUME NEW t \in Thread, Leave(t) PROVE FlockOK'
  BY <1>3 DEF Leave
<1>4. ASSUME NEW t \in Thread, SetPort(t) \/ SetIndex(t) PROVE FlockOK'
  BY <1>4 DEF SetPort, SetIndex
<1>5. ASSUME NEW t \in Thread, WriteData(t) PROVE FlockOK'
  <2>1. /\ pc[t] = "access" /\ flock' = flock
        /\ pc' = [pc EXCEPT ![t] = pc'[t]]
    BY <1>5 DEF WriteData, AtData, AfterWrite, Goto
  <2> QED BY <2>1
<1>6. ASSUME NEW t \in Thread, ReadData(t) PROVE FlockOK'
  <2>1. pc[t] = "access" /\ flock' = flock
    BY <1>6 DEF ReadData, AtData
  <2>2. pc' = [pc EXCEPT ![t] = pc'[t]]
    BY <1>6 DEF ReadData, AfterPoll, AfterFetch, Goto
  <2> QED BY <2>1, <2>2
<1>7. CASE UNCHANGED <<pc, flock>>
  BY <1>7
<1>8. CASE \E p \in Process : Initialise(p) \/ Close(p)
  BY <1>7, <1>8 DEF Initialise, Close
<1>9. CASE (\E m \in Mailbox : Answer(m)) \/ MovePort \/ UNCHANGED vars
  BY <1>7, <1>9 DEF Answer, MovePort, vars
<1> QED BY <1>1, <1>2, <1>3, <1>4, <1>5, <1>6, <1>8, <1>9 DEF Next, Progress, Finished

LEMMA LifeStep == TypeInv /\ LifeOK /\ [Next]_vars => LifeOK'
<1> SUFFICES ASSUME TypeInv, LifeOK, [Next]_vars PROVE LifeOK'
  OBVIOUS
<1> USE DEF TypeInv, TypeOK, LifeOK, Path, None
<1>1. ASSUME NEW p \in Process, Initialise(p) PROVE LifeOK'
  <2>1. PICK choice \in Path :
          /\ backend' = [backend EXCEPT ![p] = choice]
          /\ conn' = [conn EXCEPT ![p] = conn[p] \cup {choice}]
    BY <1>1 DEF Initialise, Choice
  <2>2. backend[p] = None /\ closing[p] = 0 /\ closing' = closing
    BY <1>1 DEF Initialise
  <2>3. conn[p] = {}
    BY <2>2
  <2> QED BY <2>1, <2>2, <2>3
<1>2. ASSUME NEW p \in Process, Close(p) PROVE LifeOK'
  <2>1. /\ closing' = [closing EXCEPT ![p] = (closing[p] + 1) % 3]
        /\ conn' = [conn EXCEPT ![p] = conn[p] \
                       (IF closing[p] = 0 THEN {"directhw"} ELSE {"iopci"})]
        /\ backend' = [backend EXCEPT ![p] = IF closing[p] = 2 THEN None ELSE backend[p]]
    BY <1>2 DEF Close
  <2>2. closing[p] # 0 \/ backend[p] # None
    BY <1>2 DEF Close
  <2>3. CASE closing[p] = 0
    BY <2>1, <2>2, <2>3
  <2>4. CASE closing[p] = 1
    BY <2>1, <2>4
  <2>5. CASE closing[p] = 2
    BY <2>1, <2>5
  <2> QED BY <2>3, <2>4, <2>5
<1>3. CASE UNCHANGED lifeVars
  BY <1>3 DEF lifeVars
<1>4. CASE \E t \in Thread : Call(t) \/ Progress(t)
  BY <1>3, <1>4 DEF Progress, Call, TakeLock, Acquire, Leave, SetPort, SetIndex,
                    WriteData, ReadData
<1>5. CASE (\E m \in Mailbox : Answer(m)) \/ MovePort \/ UNCHANGED vars
  BY <1>3, <1>5 DEF Answer, MovePort, vars
<1> QED BY <1>1, <1>2, <1>4, <1>5 DEF Next, Finished

-----------------------------------------------------------------------------
(* The two pairs of registers.                                             *)

\* What has gone wrong is not forgotten.
LEMMA HarmGrows == TypeInv /\ [Next]_vars => harm \subseteq harm'
<1> SUFFICES ASSUME TypeInv, [Next]_vars PROVE harm \subseteq harm'
  OBVIOUS
<1>1. ASSUME NEW t \in Thread, SetPort(t) \/ SetIndex(t) \/ WriteData(t) \/ ReadData(t)
      PROVE  harm \subseteq harm'
  BY <1>1 DEF SetPort, SetIndex, WriteData, ReadData, Outcome, Note, Mishap
<1>2. ASSUME NEW t \in Thread, Call(t) \/ TakeLock(t) \/ Acquire(t) \/ Leave(t)
      PROVE  harm \subseteq harm'
  BY <1>2 DEF Call, TakeLock, Acquire, Leave, Note, histVars
<1>3. ASSUME NEW p \in Process, Initialise(p) \/ Close(p) PROVE harm \subseteq harm'
  BY <1>3 DEF Initialise, Close, Note, Mishap
<1>4. CASE (\E m \in Mailbox : Answer(m)) \/ MovePort \/ UNCHANGED vars
  BY <1>4 DEF Answer, MovePort, Note, Mishap, vars, histVars
<1> QED BY <1>1, <1>2, <1>3, <1>4 DEF Next, Progress, Finished

\* A thread keeps its registers while it does not move, nobody touches them,
\* and its process does not initialise again.
LEMMA PairsFrame ==
    ASSUME TypeInv, NEW u \in Thread, PairsOK(u),
           UNCHANGED <<pc[u], stage[u], step[u], half[u], req[u], cf8, index>>,
           conn'[Own(u)] \subseteq conn[Own(u)],
           backend'[Own(u)] \in {backend[Own(u)], None}
    PROVE  PairsOK(u)'
<1>1. Target(u)' = Target(u)
  BY DEF Target, WriteTarget, LastWrite, ArgStep
<1> QED BY <1>1 DEF PairsOK, Own, None

\* One half of an access puts the registers where the next one needs them.
LEMMA HalfPairs ==
    ASSUME TypeInv, LifeOK, Quiet, Quiet', NEW t \in Thread, PairsOK(t),
           SetPort(t) \/ SetIndex(t)
    PROVE  PairsOK(t)'
<1> DEFINE p == Own(t)
<1>1. /\ pc[t] = "access" /\ half[t] \in 1..4 /\ p \in Process
      /\ UNCHANGED <<pc, req, stage, step, backend, conn>>
  BY MacProcAssumption DEF SetPort, SetIndex, TypeInv, TypeOK, lifeVars, Own
<1>2. Target(t)' = Target(t)
  BY <1>1 DEF Target, WriteTarget, LastWrite, ArgStep
<1>3. conn[p] \subseteq {backend[p]}
  BY <1>1 DEF LifeOK
<1>4. CASE SetPort(t)
  <2>1. PICK ok \in BOOLEAN :
          /\ cf8' = IF ~ok THEN cf8 ELSE IF half[t] = 1 THEN "NB_ADDR" ELSE "NB_DATA"
          /\ Outcome(t, ok, {})
    BY <1>4 DEF SetPort
  <2>2. Open(t) => ok
    BY <2>1, HistoryTypes DEF TypeInv
  <2>3. half[t] \in {1, 3} /\ half'[t] = half[t] + 1 /\ UNCHANGED index
    BY <1>4 DEF SetPort, busVars, TypeInv, TypeOK
  <2>4. backend[p] # "iopci" /\ PathOf(t) = "directhw"
    BY <1>4, <2>3 DEF SetPort, PathOf
  <2>5. "directhw" \in conn[p] =>
           cf8' = IF half[t] = 1 THEN "NB_ADDR" ELSE "NB_DATA"
    BY <2>1, <2>2, <2>4 DEF Open
  <2>6. half[t] = 3 /\ "directhw" \in conn[p] => index = Target(t)
    BY <1>1 DEF PairsOK
  <2> QED BY <1>1, <1>2, <2>3, <2>4, <2>5, <2>6 DEF PairsOK, Own
<1>5. CASE SetIndex(t)
  <2>1. PICK ok \in BOOLEAN :
          /\ Outcome(t, ok, {})
          /\ \/ ok /\ Reached(t) = "NB_ADDR" /\ WriteIndex(Target(t))
             \/ ok /\ Reached(t) = "NB_DATA" /\ WriteRegister(index, Stray)
             \/ (~ok \/ Reached(t) = "other") /\ UNCHANGED busVars
    BY <1>5 DEF SetIndex
  <2>2. Open(t) => ok
    BY <2>1, HistoryTypes DEF TypeInv
  <2>3. half'[t] = 3
    BY <1>5 DEF SetIndex, TypeInv, TypeOK
  <2>4. conn[p] # {} => Open(t) /\ Reached(t) = "NB_ADDR"
    <3>1. CASE half[t] = 2
      BY <1>1, <1>3, <3>1 DEF PairsOK, PathOf, Open, Reached, TypeInv, TypeOK, Path
    <3>2. CASE half[t] = 1 /\ PathOf(t) = "iopci"
      BY <1>3, <3>2 DEF PathOf, Open, Reached
    <3> QED BY <1>5, <3>1, <3>2 DEF SetIndex
  <2>5. conn[p] # {} => index' = Target(t)
    BY <2>1, <2>2, <2>4 DEF WriteIndex
  <2> QED BY <1>1, <1>2, <2>3, <2>5 DEF PairsOK, Own
<1> QED BY <1>4, <1>5

LEMMA PairStep == IInv /\ [Next]_vars => PairInv'
<1> SUFFICES ASSUME IInv, [Next]_vars, Quiet', NEW u \in Thread PROVE PairsOK(u)'
  BY DEF PairInv
<1> USE DEF IInv
<1>q. Quiet /\ PairsOK(u)
  BY HarmGrows DEF Quiet, PairInv
<1>o. Own(u) \in Process
  BY MacProcAssumption DEF Own
<1> USE DEF seqVars, lockVars, lifeVars, histVars
<1>1. ASSUME NEW t \in Thread, Call(t) \/ TakeLock(t) \/ Acquire(t) \/ Leave(t)
      PROVE  PairsOK(u)'
  <2>1. CASE u = t
    <3>1. pc'[u] # "access" \/ half'[u] = 1
      BY <1>1, <2>1 DEF Call, TakeLock, Acquire, Leave, TypeInv, TypeOK, StepOK, ThreadStepOK
    <3> QED BY <3>1 DEF PairsOK
  <2>2. CASE u # t
    <3>1. UNCHANGED <<pc[u], stage[u], step[u], half[u], req[u], cf8, index, conn, backend>>
      BY <1>1, <2>2 DEF Call, TakeLock, Acquire, Leave, TypeInv, TypeOK, busVars
    <3> QED BY <1>q, <3>1, PairsFrame
  <2> QED BY <2>1, <2>2
<1>2. ASSUME NEW t \in Thread, SetPort(t) \/ SetIndex(t) PROVE PairsOK(u)'
  <2>1. CASE u = t
    BY <1>q, <1>2, <2>1, HalfPairs
  <2>2. CASE u # t
    <3>1. pc[u] # "access" /\ pc' = pc
      BY <1>2, <2>2 DEF SetPort, SetIndex, FlockOK
    <3> QED BY <3>1 DEF PairsOK
  <2> QED BY <2>1, <2>2
<1>3. ASSUME NEW t \in Thread, WriteData(t) \/ ReadData(t) PROVE PairsOK(u)'
  <2>1. CASE u = t
    <3>1. half'[u] = 1
      BY <1>3, <2>1 DEF WriteData, ReadData, TypeInv, TypeOK
    <3> QED BY <3>1 DEF PairsOK
  <2>2. CASE u # t
    <3>1. pc[t] = "access" /\ pc' = [pc EXCEPT ![t] = pc'[t]]
      BY <1>3 DEF WriteData, ReadData, AtData, AfterWrite, AfterPoll, AfterFetch, Goto
    <3>2. pc[u] # "access" /\ pc'[u] = pc[u]
      BY <2>2, <3>1 DEF FlockOK, TypeInv, TypeOK
    <3> QED BY <3>2 DEF PairsOK
  <2> QED BY <2>1, <2>2
<1>4. ASSUME NEW p \in Process, Initialise(p) PROVE PairsOK(u)'
  <2>1. UNCHANGED <<pc, stage, step, half, req, cf8, index>>
    BY <1>4 DEF Initialise, busVars
  <2>2. CASE pc[u] # "access"
    BY <2>1, <2>2 DEF PairsOK
  <2>3. CASE Own(u) # p
    <3>1. conn'[Own(u)] = conn[Own(u)] /\ backend'[Own(u)] = backend[Own(u)]
      BY <1>o, <1>4, <2>3 DEF Initialise, TypeInv, TypeOK
    <3> QED BY <1>q, <2>1, <3>1, PairsFrame
  <2>4. CASE Own(u) = p /\ pc[u] = "access"
    <3>1. Busy(p)
      BY <2>4 DEF Busy, Own
    <3>2. harm' = harm \cup {"reinit"}
      BY <1>4, <3>1 DEF Initialise, Note
    <3> QED BY <3>2 DEF Quiet
  <2> QED BY <2>2, <2>3, <2>4
<1>5. ASSUME NEW p \in Process, Close(p) PROVE PairsOK(u)'
  <2>1. UNCHANGED <<pc, stage, step, half, req, cf8, index>>
    BY <1>5 DEF Close, busVars
  <2>2. /\ conn'[Own(u)] \subseteq conn[Own(u)]
        /\ backend'[Own(u)] \in {backend[Own(u)], None}
    BY <1>o, <1>5 DEF Close, TypeInv, TypeOK
  <2> QED BY <1>q, <2>1, <2>2, PairsFrame
<1>6. CASE \E m \in Mailbox : Answer(m)
  <2>1. UNCHANGED <<pc, stage, step, half, req, cf8, index, conn, backend>>
    BY <1>6 DEF Answer, Firmware
  <2> QED BY <1>q, <2>1, PairsFrame
<1>7. CASE MovePort
  BY <1>7 DEF MovePort, Mishap, Note, Quiet
<1>8. CASE UNCHANGED vars
  <2>1. UNCHANGED <<pc, stage, step, half, req, cf8, index, conn, backend>>
    BY <1>8 DEF vars, busVars
  <2> QED BY <1>q, <2>1, PairsFrame
<1> QED BY <1>1, <1>2, <1>3, <1>4, <1>5, <1>6, <1>7, <1>8 DEF Next, Progress, Finished

LEMMA InitInv == Init => IInv
<1> SUFFICES ASSUME Init PROVE IInv
  OBVIOUS
<1>1. FlockOK /\ PairInv
  BY DEF Init, FlockOK, PairInv, PairsOK
<1>2. LifeOK
  BY DEF Init, LifeOK
<1> QED BY <1>1, <1>2, InitTypes DEF IInv

LEMMA StepInv == IInv /\ [Next]_vars => IInv'
BY StepTypes, FlockStep, LifeStep, PairStep DEF IInv

-----------------------------------------------------------------------------
(* What is written.                                                        *)

\* What OnlyMeantWrites says of one step.
Meant == /\ \/ \E m \in Mailbox : Answer(m)
            \/ \A r \in Reg : reg'[r] # reg[r] =>
                  \E t \in Thread : /\ pc[t] = "access" /\ stage[t] = "write"
                                    /\ Target(t) = r /\ WriteValue(t) = reg'[r]
         /\ index' # index =>
               \E t \in Thread : pc[t] = "access" /\ Target(t) = index'

LEMMA IndexMeant ==
    ASSUME IInv, Quiet, Quiet', NEW t \in Thread, SetIndex(t)
    PROVE  Meant
<1> USE DEF IInv
<1>1. PICK ok \in BOOLEAN :
        /\ Outcome(t, ok, {})
        /\ \/ ok /\ Reached(t) = "NB_ADDR" /\ WriteIndex(Target(t))
           \/ ok /\ Reached(t) = "NB_DATA" /\ WriteRegister(index, Stray)
           \/ (~ok \/ Reached(t) = "other") /\ UNCHANGED busVars
  BY DEF SetIndex
<1>2. pc[t] = "access" /\ PairsOK(t)
  BY DEF SetIndex, PairInv
<1>3. ok => Open(t)
  BY <1>1, HistoryTypes DEF TypeInv
<1>4. Open(t) => Reached(t) = "NB_ADDR"
  BY <1>2 DEF SetIndex, PairsOK, PathOf, Open, Reached
<1>5. WriteIndex(Target(t)) \/ UNCHANGED busVars
  BY <1>1, <1>3, <1>4
<1> QED BY <1>2, <1>5 DEF Meant, WriteIndex, busVars

LEMMA DataMeant ==
    ASSUME IInv, Quiet, Quiet', NEW t \in Thread, WriteData(t)
    PROVE  Meant
<1> USE DEF IInv
<1>1. PICK ok \in BOOLEAN :
        /\ Outcome(t, ok, {})
        /\ \/ ok /\ Reached(t) = "NB_DATA" /\ WriteRegister(index, WriteValue(t))
           \/ ok /\ Reached(t) = "NB_ADDR" /\ \E w \in Word : WriteIndex(Smn(w))
           \/ (~ok \/ Reached(t) = "other") /\ UNCHANGED busVars
  BY DEF WriteData
<1>2. pc[t] = "access" /\ stage[t] = "write" /\ PairsOK(t)
  BY DEF WriteData, AtData, PairInv
<1>3. ok => Open(t)
  BY <1>1, HistoryTypes DEF TypeInv
<1>4. Open(t) => Reached(t) = "NB_DATA" /\ index = Target(t)
  <2>1. CASE half[t] = 4
    BY <1>2, <2>1 DEF PairsOK, PathOf, Open, Reached
  <2>2. CASE half[t] = 3 /\ PathOf(t) = "iopci"
    BY <1>2, <2>2 DEF PairsOK, Open, Reached
  <2> QED BY <2>1, <2>2 DEF WriteData, AtData
<1>5. \/ WriteRegister(Target(t), WriteValue(t)) \/ UNCHANGED busVars
  BY <1>1, <1>3, <1>4
<1>6. reg \in [Reg -> Value]
  BY DEF TypeInv, TypeOK, BusTypeOK
<1>7. UNCHANGED index
  BY <1>5 DEF WriteRegister, busVars
<1>8. ASSUME NEW r \in Reg, reg'[r] # reg[r]
      PROVE  Target(t) = r /\ WriteValue(t) = reg'[r]
  <2>1. reg' = [reg EXCEPT ![Target(t)] = WriteValue(t)]
    BY <1>5, <1>8 DEF WriteRegister, busVars
  <2> QED BY <1>6, <1>8, <2>1
<1> QED BY <1>2, <1>7, <1>8 DEF Meant

\* The registers are changed by the SMU, and by threads that write what they
\* mean where they mean it, although their accesses take four steps through
\* two pairs that other threads and processes use too, and although close()
\* may come at any time (macos.py:176-198).
THEOREM WritesAreMeant == Spec => OnlyMeantWrites
<1>1. IInv /\ [Next]_vars => [harm' \subseteq {"cut", "slow"} => Meant]_vars
  <2> SUFFICES ASSUME IInv, [Next]_vars, Quiet' PROVE Meant \/ UNCHANGED vars
    BY DEF Quiet
  <2>q. Quiet
    BY HarmGrows DEF Quiet, IInv
  <2>1. CASE UNCHANGED busVars
    BY <2>1 DEF Meant, busVars
  <2>2. CASE \E t \in Thread : SetIndex(t) \/ WriteData(t)
    BY <2>q, <2>2, IndexMeant, DataMeant
  <2>3. CASE \E m \in Mailbox : Answer(m)
    <3>1. UNCHANGED index
      BY <2>3 DEF Answer, Firmware
    <3> QED BY <2>3, <3>1 DEF Meant
  <2>4. ASSUME NEW t \in Thread, Call(t) \/ Progress(t)
        PROVE  UNCHANGED busVars \/ SetIndex(t) \/ WriteData(t)
    BY <2>4 DEF Progress, Call, TakeLock, Acquire, Leave, SetPort, ReadData
  <2>5. ASSUME NEW p \in Process, Initialise(p) \/ Close(p) PROVE UNCHANGED busVars
    BY <2>5 DEF Initialise, Close
  <2>6. CASE MovePort \/ UNCHANGED vars
    BY <2>1, <2>6 DEF MovePort, vars
  <2> QED BY <2>1, <2>2, <2>3, <2>4, <2>5, <2>6 DEF Next, Finished
<1>2. [harm' \subseteq {"cut", "slow"} => Meant]_vars =>
         [harm' \subseteq {"cut", "slow"} =>
            /\ \/ \E m \in Mailbox : Answer(m)
               \/ \A r \in Reg : reg'[r] # reg[r] =>
                     \E t \in Thread : /\ pc[t] = "access" /\ stage[t] = "write"
                                       /\ Target(t) = r /\ WriteValue(t) = reg'[r]
            /\ index' # index =>
                  \E t \in Thread : pc[t] = "access" /\ Target(t) = index']_vars
  BY DEF Meant
<1> QED BY <1>1, <1>2, InitInv, StepInv, PTL DEF Spec, OnlyMeantWrites

-----------------------------------------------------------------------------
(* The service, while nothing has gone wrong.                              *)

Calm == harm = {}

Executed(j) == \E e \in executed : e.cmd = OpOf(j)

InWrite(t) == pc[t] = "access" /\ stage[t] = "write"
InPoll(t)  == pc[t] = "access" /\ stage[t] = "poll"
InFetch(t) == pc[t] = "access" /\ stage[t] = "fetch"
Before(t)  == pc[t] \in {"lock", "flock"}
After(t)   == pc[t] = "leave"

\* The arguments of the thread's command are in their registers.
Loaded(t) == \A i \in 0..NARGS-1 : reg[Arg(req[t].box, i)] = ArgumentsOf(MyJob(t))[i]

\* The outputs of the thread's command are in their registers.
Output(t) == \A i \in 0..NARGS-1 : reg[Arg(req[t].box, i)] = OutOf(MyJob(t))

\* What has been written before step k: a query clears the first argument
\* long before it fills it in.
Prepared(t, k) ==
    /\ k > 0 => reg[Rsp(req[t].box)] = Zero
    /\ \A i \in 0..NARGS-1 : i + 1 < k =>
          reg[Arg(req[t].box, i)] =
             IF i = 0 /\ k > ArgStep(req[t]) THEN ArgOf(MyJob(t)) ELSE Zero

\* The command is with the SMU, or the SMU has answered it.
Running(t)  == /\ pending[req[t].box] = {OpOf(MyJob(t))}
               /\ reg[Rsp(req[t].box)] = Zero /\ Loaded(t)
               /\ ~Executed(MyJob(t))
Answered(t) == /\ pending[req[t].box] = {}
               /\ reg[Rsp(req[t].box)] = RspOf(MyJob(t)) /\ Output(t)
               /\ Executed(MyJob(t))

\* The first n words of the answer.
Words(t, n) == [i \in 1..n |-> IF i = 1 THEN RspOf(MyJob(t)) ELSE OutOf(MyJob(t))]

ItsAnswer(t) == /\ req[t].kind \in Commands => /\ got[t] = CommandAnswer(req[t].kind, MyJob(t))
                                               /\ Executed(MyJob(t))
                /\ req[t].kind = "write" => got[t] = <<>>

\* How far a call has come, and what it has done so far.
CallOK(t) ==
    /\ pc[t] = "idle" \/ Before(t) \/ InWrite(t) \/ InPoll(t) => got[t] = <<>>
    /\ Before(t) \/ InWrite(t) => ~Executed(MyJob(t))
    /\ InWrite(t) => req[t].kind \in Commands \cup {"write"}
    /\ InWrite(t) /\ req[t].kind \in Commands => Prepared(t, step[t])
    /\ InPoll(t)  => req[t].kind \in Commands /\ (Running(t) \/ Answered(t))
    /\ InFetch(t) => req[t].kind \in {"read", "query"}
    /\ InFetch(t) /\ req[t].kind = "read" => got[t] = <<>>
    /\ InFetch(t) /\ req[t].kind = "query" =>
          Output(t) /\ Executed(MyJob(t)) /\ got[t] = Words(t, step[t] + 1)
    /\ After(t) => ItsAnswer(t)

\* A doorbell is rung only by the thread that waits for the answer.
DoorbellOK == \A m \in Mailbox : pending[m] # {} =>
                 \E t \in Thread : InPoll(t) /\ req[t].box = m

\* What has been executed was called.
HistoryOK == \A e \in executed : \E t \in Thread, n \in Nat :
                n <= calls[t] /\ e.cmd = OpOf([thread |-> t, n |-> n])

\* While a backend is in use its connection is open.
LiveOK == \A p \in Process : backend[p] # None /\ closing[p] = 0 => conn[p] = {backend[p]}
BusyOK == \A t \in Thread : pc[t] # "idle" => backend[Own(t)] # None /\ closing[Own(t)] = 0

ServeInv == BusyOK /\ (\A t \in Thread : CallOK(t)) /\ DoorbellOK /\ HistoryOK

\* All that is known of a state in which nothing has gone wrong.
Inv == IInv /\ LiveOK /\ Calm /\ ServeInv

LEMMA LiveStep == TypeInv /\ LifeOK /\ LiveOK /\ [Next]_vars => LiveOK'
<1> SUFFICES ASSUME TypeInv, LifeOK, LiveOK, [Next]_vars PROVE LiveOK'
  OBVIOUS
<1> USE DEF TypeInv, TypeOK, LifeOK, LiveOK, Path, None
<1>1. ASSUME NEW p \in Process, Initialise(p) PROVE LiveOK'
  <2>1. PICK choice \in Path :
          /\ backend' = [backend EXCEPT ![p] = choice]
          /\ conn' = [conn EXCEPT ![p] = conn[p] \cup {choice}]
    BY <1>1 DEF Initialise, Choice
  <2>2. backend[p] = None /\ closing[p] = 0 /\ closing' = closing
    BY <1>1 DEF Initialise
  <2>3. conn[p] = {}
    BY <2>2
  <2> QED BY <2>1, <2>2, <2>3
<1>2. ASSUME NEW p \in Process, Close(p) PROVE LiveOK'
  <2>1. /\ closing' = [closing EXCEPT ![p] = (closing[p] + 1) % 3]
        /\ conn' = [conn EXCEPT ![p] = conn'[p]]
        /\ backend' = [backend EXCEPT ![p] = IF closing[p] = 2 THEN None ELSE backend[p]]
    BY <1>2 DEF Close
  <2>2. closing[p] \in 0..2
    OBVIOUS
  <2>3. closing'[p] = 0 => backend'[p] = None
    BY <2>1, <2>2
  <2> QED BY <2>1, <2>3
<1>3. CASE UNCHANGED lifeVars
  BY <1>3 DEF lifeVars
<1>4. CASE \E t \in Thread : Call(t) \/ Progress(t)
  BY <1>3, <1>4 DEF Progress, Call, TakeLock, Acquire, Leave, SetPort, SetIndex,
                    WriteData, ReadData
<1>5. CASE (\E m \in Mailbox : Answer(m)) \/ MovePort \/ UNCHANGED vars
  BY <1>3, <1>5 DEF Answer, MovePort, vars
<1> QED BY <1>1, <1>2, <1>4, <1>5 DEF Next, Finished

LEMMA InitServe == Init => LiveOK /\ ServeInv
<1> SUFFICES ASSUME Init PROVE LiveOK /\ ServeInv
  OBVIOUS
<1>1. \A t \in Thread : CallOK(t)
  BY DEF Init, CallOK, Before, After, InWrite, InPoll, InFetch
<1>2. DoorbellOK /\ HistoryOK
  BY DEF Init, BusInit, DoorbellOK, HistoryOK
<1>3. LiveOK /\ BusyOK
  BY DEF Init, LiveOK, BusyOK
<1> QED BY <1>1, <1>2, <1>3 DEF ServeInv

\* One thread at most is in the register sequence.
LEMMA Alone ==
    ASSUME IInv, NEW t \in Thread, NEW u \in Thread, pc[t] = "access", pc[u] = "access"
    PROVE  t = u
BY DEF IInv, FlockOK

\* A call in its register sequence reaches the hardware.
LEMMA Connected ==
    ASSUME Inv, NEW t \in Thread, pc[t] = "access"
    PROVE  Open(t)
<1> DEFINE p == Own(t)
<1>1. p \in Process /\ backend[p] \in Path /\ conn[p] = {backend[p]}
  BY MacProcAssumption DEF Inv, IInv, TypeInv, TypeOK, ServeInv, BusyOK, LiveOK, Own
<1>2. half[t] \in 1..4 /\ (half[t] \in {2, 4} => backend[p] # "iopci")
  BY DEF Inv, IInv, TypeInv, TypeOK, PairInv, PairsOK, Calm, Quiet
<1> QED BY <1>1, <1>2 DEF Open, PathOf, Path

LEMMA NothingRefused ==
    ASSUME Calm, Calm', NEW t \in Thread, Open(t), NEW ok \in BOOLEAN, NEW what,
           Outcome(t, ok, what)
    PROVE  ok /\ what = {}
BY DEF Outcome, Mishap, Note, Calm

\* The steps of an access before its last touch no register.
LEMMA HalfSteps ==
    ASSUME Inv, Calm', NEW t \in Thread, SetPort(t) \/ SetIndex(t)
    PROVE  UNCHANGED <<reg, pending, executed, pc, req, calls, stage, step, got>>
<1>1. UNCHANGED <<pc, req, calls, stage, step, got>>
  BY DEF SetPort, SetIndex
<1>2. CASE SetPort(t)
  BY <1>1, <1>2 DEF SetPort, busVars
<1>3. CASE SetIndex(t)
  <2>1. PICK ok \in BOOLEAN :
          /\ Outcome(t, ok, {})
          /\ \/ ok /\ Reached(t) = "NB_ADDR" /\ WriteIndex(Target(t))
             \/ ok /\ Reached(t) = "NB_DATA" /\ WriteRegister(index, Stray)
             \/ (~ok \/ Reached(t) = "other") /\ UNCHANGED busVars
    BY <1>3 DEF SetIndex
  <2>2. pc[t] = "access" /\ PairsOK(t) /\ Open(t)
    BY <1>3, Connected DEF SetIndex, Inv, IInv, PairInv, Calm, Quiet
  <2>3. Reached(t) = "NB_ADDR"
    BY <1>3, <2>2 DEF SetIndex, PairsOK, PathOf, Open, Reached
  <2> QED BY <1>1, <2>1, <2>3 DEF WriteIndex, busVars
<1> QED BY <1>2, <1>3

\* The last step of an access is at the register it is meant for.
LEMMA AtTarget ==
    ASSUME Inv, NEW t \in Thread, AtData(t)
    PROVE  pc[t] = "access" /\ Open(t) /\ Reached(t) = "NB_DATA" /\ index = Target(t)
<1>1. pc[t] = "access" /\ PairsOK(t) /\ Open(t)
  BY Connected DEF AtData, Inv, IInv, PairInv, Calm, Quiet
<1>2. CASE half[t] = 4
  BY <1>1, <1>2 DEF PairsOK, PathOf, Open, Reached
<1>3. CASE half[t] = 3 /\ PathOf(t) = "iopci"
  BY <1>1, <1>3 DEF PairsOK, Open, Reached
<1> QED BY <1>1, <1>2, <1>3 DEF AtData

LEMMA DataWritten ==
    ASSUME Inv, Calm', NEW t \in Thread, WriteData(t)
    PROVE  /\ InWrite(t) /\ WriteRegister(Target(t), WriteValue(t)) /\ AfterWrite(t)
           /\ Target(t) = WriteTarget(req[t], step[t]) /\ Target(t) \in Reg
           /\ req[t] \in Request /\ req[t].box \in Mailbox /\ req[t].word \in Word
           /\ step[t] \in 0..LastWrite(req[t])
           /\ UNCHANGED <<req, calls>>
<1>1. /\ AtData(t) /\ InWrite(t) /\ AfterWrite(t) /\ UNCHANGED <<req, calls>>
      /\ Open(t) /\ Reached(t) = "NB_DATA" /\ index = Target(t)
  BY AtTarget DEF WriteData, InWrite, AtData
<1>2. WriteRegister(Target(t), WriteValue(t))
  <2>1. PICK ok \in BOOLEAN :
          /\ Outcome(t, ok, {})
          /\ \/ ok /\ Reached(t) = "NB_DATA" /\ WriteRegister(index, WriteValue(t))
             \/ ok /\ Reached(t) = "NB_ADDR" /\ \E w \in Word : WriteIndex(Smn(w))
             \/ (~ok \/ Reached(t) = "other") /\ UNCHANGED busVars
    BY DEF WriteData
  <2>2. ok
    BY <1>1, <2>1, NothingRefused DEF Inv
  <2> QED BY <1>1, <2>1, <2>2
<1>3. Target(t) = WriteTarget(req[t], step[t]) /\ Target(t) \in Reg
  BY <1>1, TargetType DEF InWrite, Target, Inv, IInv
<1>4. req[t] \in Request /\ req[t].box \in Mailbox /\ req[t].word \in Word
  BY <1>1, RequestBox DEF InWrite, Request, Inv, IInv
<1>5. step[t] \in 0..LastWrite(req[t])
  BY <1>1, NargsAssumption
     DEF InWrite, Inv, IInv, TypeInv, TypeOK, StepOK, ThreadStepOK, LastWrite
<1> QED BY <1>1, <1>2, <1>3, <1>4, <1>5

LEMMA DataRead ==
    ASSUME Inv, Calm', NEW t \in Thread, ReadData(t)
    PROVE  /\ pc[t] = "access" /\ req[t] \in Request
           /\ IF stage[t] = "poll" THEN AfterPoll(t, reg[Target(t)])
                                   ELSE AfterFetch(t, reg[Target(t)])
           /\ InPoll(t) \/ InFetch(t)
           /\ InPoll(t) /\ reg[Target(t)] = Zero => step[t] # POLL_N - 1
           /\ UNCHANGED <<reg, pending, executed, req, calls>>
<1>1. /\ AtData(t) /\ stage[t] # "write" /\ UNCHANGED <<reg, pending, executed, req, calls>>
      /\ pc[t] = "access" /\ Open(t) /\ Reached(t) = "NB_DATA" /\ index = Target(t)
  BY AtTarget DEF ReadData, busVars
<1>2. PICK ok \in BOOLEAN :
        LET word == IF ~ok THEN Zero
                    ELSE IF Reached(t) = "NB_DATA" THEN reg[index] ELSE Stray
        IN /\ IF stage[t] = "poll" THEN AfterPoll(t, word) ELSE AfterFetch(t, word)
           /\ Outcome(t, ok, IF stage[t] = "poll" /\ word = Zero /\ step[t] = POLL_N - 1
                             THEN {"slow"} ELSE {})
  BY DEF ReadData
<1> DEFINE word == IF ~ok THEN Zero
                   ELSE IF Reached(t) = "NB_DATA" THEN reg[index] ELSE Stray
           what == IF stage[t] = "poll" /\ word = Zero /\ step[t] = POLL_N - 1
                   THEN {"slow"} ELSE {}
<1>3. Outcome(t, ok, what) /\ (IF stage[t] = "poll" THEN AfterPoll(t, word)
                                                    ELSE AfterFetch(t, word))
  BY <1>2
<1>4. ok /\ what = {}
  <2> HIDE DEF what
  <2> QED BY <1>1, <1>3, NothingRefused DEF Inv
<1>5. word = reg[Target(t)]
  BY <1>1, <1>4
<1>6. InPoll(t) \/ InFetch(t)
  BY <1>1 DEF InPoll, InFetch, Inv, IInv, TypeInv, TypeOK
<1>7. InPoll(t) /\ reg[Target(t)] = Zero => step[t] # POLL_N - 1
  BY <1>4, <1>5 DEF InPoll
<1>8. req[t] \in Request
  BY <1>1, RequestBox DEF Inv, IInv
<1> HIDE DEF word, what
<1> QED BY <1>1, <1>3, <1>5, <1>6, <1>7, <1>8

\* A call stays as it is while its thread does not move, and, if it is in
\* its register sequence, nobody touches the registers.
LEMMA CallFrame ==
    ASSUME NEW u \in Thread, CallOK(u),
           UNCHANGED <<pc[u], req[u], calls[u], stage[u], step[u], got[u]>>,
           Executed(MyJob(u))' <=> Executed(MyJob(u)),
           pc[u] = "access" => UNCHANGED <<reg, pending>>
    PROVE  CallOK(u)'
<1>1. MyJob(u)' = MyJob(u)
  BY DEF MyJob
<1>2. ItsAnswer(u)' <=> ItsAnswer(u)
  BY <1>1 DEF ItsAnswer
<1>3. CASE pc[u] = "access"
  <2>1. ArgStep(req[u])' = ArgStep(req[u])
    BY DEF ArgStep
  <2>2. /\ Prepared(u, step[u])' <=> Prepared(u, step[u])
        /\ Output(u)' <=> Output(u)
        /\ Loaded(u)' <=> Loaded(u)
        /\ Words(u, step[u] + 1)' = Words(u, step[u] + 1)
    BY <1>1, <1>3, <2>1 DEF Prepared, Output, Loaded, Words
  <2>3. /\ Running(u)' <=> Running(u)
        /\ Answered(u)' <=> Answered(u)
    BY <1>1, <1>3, <2>2 DEF Running, Answered
  <2> QED BY <1>1, <1>2, <2>2, <2>3 DEF CallOK, Before, After, InWrite, InPoll, InFetch
<1>4. CASE pc[u] # "access"
  <2>1. ~InWrite(u)' /\ ~InPoll(u)' /\ ~InFetch(u)'
    BY <1>4 DEF InWrite, InPoll, InFetch
  <2> QED BY <1>1, <1>2, <2>1 DEF CallOK, Before, After
<1> QED BY <1>3, <1>4

\* What a step of one thread leaves alone.
LEMMA OthersStay ==
    ASSUME Inv, Calm', NEW t \in Thread, Call(t) \/ Progress(t)
    PROVE  /\ executed' = executed
           /\ \A u \in Thread \ {t} :
                 /\ UNCHANGED <<pc[u], req[u], calls[u], stage[u], step[u], got[u]>>
                 /\ pc[u] = "access" => UNCHANGED <<reg, pending>>
<1> USE DEF Inv, IInv, TypeInv, TypeOK, seqVars, lockVars, lifeVars, histVars, busVars
<1>1. CASE Call(t) \/ TakeLock(t) \/ Acquire(t) \/ Leave(t)
  BY <1>1 DEF Call, TakeLock, Acquire, Leave
<1>2. CASE SetPort(t) \/ SetIndex(t)
  BY <1>2, HalfSteps
<1>3. CASE WriteData(t)
  <2>1. /\ pc[t] = "access" /\ executed' = executed /\ UNCHANGED <<req, calls>>
        /\ AfterWrite(t)
    BY <1>3, DataWritten DEF InWrite, WriteRegister
  <2>2. \A u \in Thread \ {t} : UNCHANGED <<pc[u], stage[u], step[u], got[u]>>
    BY <2>1 DEF AfterWrite, Goto
  <2>3. \A u \in Thread \ {t} : pc[u] # "access"
    BY <2>1, Alone
  <2> QED BY <2>1, <2>2, <2>3
<1>4. CASE ReadData(t)
  <2>1. /\ UNCHANGED <<reg, pending, executed, req, calls>>
        /\ \E word : AfterPoll(t, word) \/ AfterFetch(t, word)
    BY <1>4, DataRead
  <2>2. \A u \in Thread \ {t} : UNCHANGED <<pc[u], stage[u], step[u], got[u]>>
    BY <2>1 DEF AfterPoll, AfterFetch, Goto
  <2> QED BY <2>1, <2>2
<1> QED BY <1>1, <1>2, <1>3, <1>4 DEF Progress

\* Entry into the locks and exit from them.
LEMMA GuardServe ==
    ASSUME Inv, NEW t \in Thread, Call(t) \/ TakeLock(t) \/ Acquire(t) \/ Leave(t)
    PROVE  CallOK(t)'
<1> USE DEF Inv, IInv, TypeInv, TypeOK, seqVars, busVars
<1>0. CallOK(t) /\ ThreadStepOK(t)
  BY DEF ServeInv, StepOK
<1>1. UNCHANGED <<reg, pending, executed>>
  BY DEF Call, TakeLock, Acquire, Leave
<1>2. CASE Call(t)
  <2>1. /\ calls'[t] = calls[t] + 1 /\ pc[t] = "idle" /\ Before(t)'
        /\ calls[t] \in Nat /\ got' = got
    BY <1>2, MacBoundAssumption DEF Call, Before
  <2>2. ~Executed(MyJob(t))'
    <3> SUFFICES ASSUME NEW e \in executed, e.cmd = OpOf([thread |-> t, n |-> calls[t] + 1])
                 PROVE  FALSE
      BY <1>1, <2>1 DEF Executed, MyJob
    <3>1. PICK u \in Thread, n \in Nat :
            n <= calls[u] /\ e.cmd = OpOf([thread |-> u, n |-> n])
      BY DEF ServeInv, HistoryOK
    <3>2. u = t /\ n = calls[t] + 1
      BY <3>1 DEF OpOf
    <3> QED BY <2>1, <3>1, <3>2
  <2> QED BY <1>0, <2>1, <2>2 DEF CallOK, Before, After, InWrite, InPoll, InFetch
<1>3. CASE TakeLock(t)
  <2>1. Before(t) /\ Before(t)' /\ UNCHANGED <<req, calls, stage, step, got>>
    BY <1>3 DEF TakeLock, Before
  <2>2. Executed(MyJob(t))' <=> Executed(MyJob(t))
    BY <1>1, <2>1 DEF Executed, MyJob
  <2> QED BY <1>0, <2>1, <2>2 DEF CallOK, Before, After, InWrite, InPoll, InFetch
<1>4. CASE Acquire(t)
  <2>1. /\ pc[t] = "flock" /\ pc'[t] = "access" /\ step[t] = 0
        /\ stage[t] = IF req[t].kind = "read" THEN "fetch" ELSE "write"
        /\ req[t] \in Request
        /\ UNCHANGED <<req, calls, stage, step, got>>
    BY <1>0, <1>4 DEF Acquire, ThreadStepOK
  <2>2. (Executed(MyJob(t))' <=> Executed(MyJob(t))) /\ ~Executed(MyJob(t)) /\ got[t] = <<>>
    BY <1>0, <1>1, <2>1 DEF Executed, MyJob, CallOK, Before
  <2>3. req[t].kind \in {"send", "query", "read", "write"}
    BY <2>1, KindsAssumption, MacBackendAssumption DEF Request
  <2>4. Prepared(t, step[t])'
    <3>1. step'[t] = 0
      BY <2>1
    <3>2. \A i \in 0..NARGS-1 : ~(i + 1 < 0)
      BY NargsAssumption
    <3> QED BY <3>1, <3>2 DEF Prepared
  <2>5. CASE req[t].kind = "read"
    BY <1>0, <2>1, <2>2, <2>5 DEF CallOK, Before, After, InWrite, InPoll, InFetch
  <2>6. CASE req[t].kind # "read"
    BY <1>0, <2>1, <2>2, <2>3, <2>4, <2>6
       DEF CallOK, Before, After, InWrite, InPoll, InFetch, Commands
  <2> QED BY <2>5, <2>6
<1>5. CASE Leave(t)
  <2>1. pc'[t] = "idle" /\ got'[t] = <<>>
    BY <1>5 DEF Leave
  <2> QED BY <2>1 DEF CallOK, Before, After, InWrite, InPoll, InFetch
<1> QED BY <1>2, <1>3, <1>4, <1>5

\* While a thread writes its registers, no doorbell is rung.
LEMMA QuietDoorbells ==
    ASSUME Inv, NEW t \in Thread, InWrite(t), NEW m \in Mailbox
    PROVE  pending[m] = {}
<1>1. ASSUME pending[m] # {} PROVE FALSE
  <2>1. PICK u \in Thread : InPoll(u) /\ req[u].box = m
    BY <1>1 DEF Inv, ServeInv, DoorbellOK
  <2>2. u = t
    BY <2>1, Alone DEF Inv, InPoll, InWrite
  <2> QED BY <2>1, <2>2 DEF InPoll, InWrite
<1> QED BY <1>1

LEMMA WriteServe ==
    ASSUME Inv, Calm', NEW t \in Thread, WriteData(t)
    PROVE  CallOK(t)'
<1> USE DEF Inv, IInv, TypeInv, TypeOK, Goto
<1> DEFINE m == req[t].box
           k == step[t]
           q == req[t]
<1>0. CallOK(t)
  BY DEF ServeInv
<1>1. /\ InWrite(t) /\ m \in Mailbox /\ k \in 0..LastWrite(q) /\ AfterWrite(t)
      /\ Target(t) = WriteTarget(q, k) /\ Target(t) \in Reg
      /\ WriteRegister(Target(t), WriteValue(t)) /\ UNCHANGED <<req, calls>>
  BY DataWritten
<1>2. UNCHANGED <<executed, got>>
  BY <1>1 DEF AfterWrite, WriteRegister
<1>3. /\ MyJob(t)' = MyJob(t) /\ (Executed(MyJob(t))' <=> Executed(MyJob(t)))
      /\ ~Executed(MyJob(t)) /\ got[t] = <<>>
  BY <1>0, <1>1, <1>2 DEF MyJob, Executed, CallOK
<1>4. reg' = [reg EXCEPT ![Target(t)] = WriteValue(t)] /\ reg \in [Reg -> Value]
  BY <1>1 DEF WriteRegister, BusTypeOK
<1>r. /\ Rsp(m) \in Reg /\ Msg(m) \in Reg /\ \A i \in 0..NARGS-1 : Arg(m, i) \in Reg
      /\ Rsp(m) # Msg(m)
      /\ \A i \in 0..NARGS-1 : Arg(m, i) # Rsp(m) /\ Arg(m, i) # Msg(m)
      /\ \A i, n \in 0..NARGS-1 : Arg(m, i) = Arg(m, n) => i = n
  BY <1>1, Layout
<1>5. CASE q.kind = "write"
  <2>1. pc'[t] = "leave"
    BY <1>1, <1>5 DEF AfterWrite, LastWrite
  <2>2. ItsAnswer(t)'
    BY <1>1, <1>2, <1>3, <1>5 DEF ItsAnswer, Commands
  <2> QED BY <2>1, <2>2 DEF CallOK, Before, After, InWrite, InPoll, InFetch
<1>6. CASE q.kind \in Commands
  <2>0. /\ Prepared(t, k) /\ q.kind # "write" /\ k \in Nat /\ NARGS \in Nat /\ NARGS > 0
        /\ \/ LastWrite(q) = NARGS + 1 /\ ArgStep(q) = 1
           \/ LastWrite(q) = NARGS + 2 /\ ArgStep(q) = NARGS + 1
    BY <1>0, <1>1, <1>6, NargsAssumption DEF LastWrite, ArgStep, Commands, CallOK
  <2> DEFINE wanted(i, n) == IF i = 0 /\ n > ArgStep(q) THEN ArgOf(MyJob(t)) ELSE Zero
  <2>p. /\ k > 0 => reg[Rsp(m)] = Zero
        /\ \A i \in 0..NARGS-1 : i + 1 < k => reg[Arg(m, i)] = wanted(i, k)
    BY <2>0 DEF Prepared
  <2>1. CASE k < LastWrite(q)
    <3>1. InWrite(t)' /\ step'[t] = k + 1
      BY <1>1, <2>1 DEF AfterWrite, InWrite
    <3>2. reg'[Rsp(m)] = Zero /\ \A i \in 0..NARGS-1 : i + 1 < k + 1 =>
                                      reg'[Arg(m, i)] = wanted(i, k + 1)
      <4>1. CASE k = 0
        <5>1. Target(t) = Rsp(m) /\ WriteValue(t) = Zero
          BY <1>1, <2>0, <4>1 DEF WriteTarget, WriteValue
        <5>2. \A i \in 0..NARGS-1 : ~(i + 1 < k + 1)
          BY <4>1
        <5> QED BY <1>4, <1>r, <5>1, <5>2
      <4>2. CASE k # 0 /\ k = ArgStep(q)
        <5>1. Target(t) = Arg(m, 0) /\ WriteValue(t) = ArgOf(MyJob(t)) /\ 0 \in 0..NARGS-1
          BY <1>1, <2>0, <2>1, <4>2 DEF WriteTarget, WriteValue
        <5>2. reg'[Rsp(m)] = Zero
          BY <1>4, <1>r, <2>0, <2>p, <4>2, <5>1
        <5>3. ASSUME NEW i \in 0..NARGS-1, i + 1 < k + 1
              PROVE  reg'[Arg(m, i)] = wanted(i, k + 1)
          <6>1. CASE i = 0
            <7>1. wanted(i, k + 1) = ArgOf(MyJob(t))
              BY <2>0, <4>2, <6>1
            <7> QED BY <1>4, <1>r, <5>1, <6>1, <7>1
          <6>2. CASE i # 0
            <7>1. i + 1 < k
              BY <2>0, <4>2, <5>3, <6>2
            <7>2. reg[Arg(m, i)] = Zero /\ wanted(i, k + 1) = Zero
              BY <2>p, <6>2, <7>1
            <7>3. Arg(m, i) # Arg(m, 0)
              BY <1>r, <5>1, <6>2
            <7> QED BY <1>4, <1>r, <5>1, <7>2, <7>3
          <6> QED BY <6>1, <6>2
        <5> QED BY <5>2, <5>3
      <4>3. CASE k # 0 /\ k # ArgStep(q)
        <5>1. /\ k - 1 \in 0..NARGS-1 /\ Target(t) = Arg(m, k - 1)
              /\ WriteValue(t) = Zero
          BY <1>1, <2>0, <2>1, <4>3 DEF WriteTarget, WriteValue
        <5>2. reg'[Rsp(m)] = Zero
          BY <1>4, <1>r, <2>0, <2>p, <4>3, <5>1
        <5>3. ASSUME NEW i \in 0..NARGS-1, i + 1 < k + 1
              PROVE  reg'[Arg(m, i)] = wanted(i, k + 1)
          <6>1. CASE i = k - 1
            <7>1. wanted(i, k + 1) = Zero
              BY <2>0, <4>3, <6>1
            <7> QED BY <1>4, <1>r, <5>1, <6>1, <7>1
          <6>2. CASE i # k - 1
            <7>1. i + 1 < k
              BY <2>0, <5>3, <6>2
            <7>2. wanted(i, k + 1) = wanted(i, k)
              BY <2>0, <4>3
            <7>3. reg[Arg(m, i)] = wanted(i, k + 1)
              BY <2>p, <7>1, <7>2
            <7>4. Arg(m, i) # Arg(m, k - 1)
              BY <1>r, <5>1, <6>2
            <7> QED BY <1>4, <1>r, <5>1, <7>3, <7>4
          <6> QED BY <6>1, <6>2
        <5> QED BY <5>2, <5>3
      <4> QED BY <4>1, <4>2, <4>3
    <3>3. Prepared(t, step[t])'
      <4>1. req'[t] = q /\ step'[t] = k + 1 /\ ArgStep(req[t])' = ArgStep(q)
        BY <1>1, <3>1 DEF ArgStep
      <4> QED BY <1>3, <3>2, <4>1 DEF Prepared
    <3> QED BY <1>1, <1>2, <1>3, <1>6, <3>1, <3>3
            DEF CallOK, Before, After, InWrite, InPoll, InFetch
  <2>2. CASE k = LastWrite(q)
    <3>1. InPoll(t)'
      BY <1>1, <2>0, <2>2 DEF AfterWrite, InPoll
    <3>2. Target(t) = Msg(m) /\ WriteValue(t) = OpOf(MyJob(t))
      BY <1>1, <2>0, <2>2 DEF WriteTarget, WriteValue
    <3>3. pending[m] = {}
      BY <1>1, QuietDoorbells
    <3>4. pending'[m] = {OpOf(MyJob(t))}
      <4>1. pending'[m] = pending[m] \cup {OpOf(MyJob(t))}
        BY <1>1, <3>2 DEF WriteRegister
      <4> QED BY <3>3, <4>1
    <3>5. reg'[Rsp(m)] = Zero
      BY <1>4, <1>r, <2>0, <2>p, <2>2, <3>2
    <3>6. ASSUME NEW i \in 0..NARGS-1 PROVE reg'[Arg(m, i)] = ArgumentsOf(MyJob(t))[i]
      <4>1. reg[Arg(m, i)] = wanted(i, k)
        BY <2>0, <2>p, <2>2
      <4>2. wanted(i, k) = ArgumentsOf(MyJob(t))[i]
        BY <2>0, <2>2 DEF ArgumentsOf
      <4> QED BY <1>4, <1>r, <3>2, <4>1, <4>2
    <3>7. Running(t)'
      BY <1>1, <1>3, <3>4, <3>5, <3>6 DEF Running, Loaded
    <3> QED BY <1>1, <1>2, <1>3, <1>6, <3>1, <3>7
            DEF CallOK, Before, After, InWrite, InPoll, InFetch
  <2> QED BY <1>1, <2>0, <2>1, <2>2
<1> QED BY <1>0, <1>1, <1>5, <1>6 DEF CallOK


\* One more word of the answer.
LEMMA NextWord ==
    ASSUME NEW t \in Thread, NEW n \in Nat, n > 0
    PROVE  Append(Words(t, n), OutOf(MyJob(t))) = Words(t, n + 1)
<1> DEFINE w(i) == IF i = 1 THEN RspOf(MyJob(t)) ELSE OutOf(MyJob(t))
           S == {RspOf(MyJob(t)), OutOf(MyJob(t))}
<1>1. Words(t, n) = [i \in 1..n |-> w(i)] /\ Words(t, n + 1) = [i \in 1..n+1 |-> w(i)]
  BY DEF Words
<1>2. \A i \in Nat : w(i) \in S
  OBVIOUS
<1>3. \A i \in 1..n+1 : i \notin 1..n => w(i) = OutOf(MyJob(t))
  OBVIOUS
<1>4. OutOf(MyJob(t)) \in S
  OBVIOUS
<1> HIDE DEF w, S
<1>5. Words(t, n) \in Seq(S) /\ Len(Words(t, n)) = n
  BY <1>1, <1>2
<1> DEFINE a == Append(Words(t, n), OutOf(MyJob(t)))
<1>6. /\ a \in Seq(S) /\ Len(a) = n + 1
      /\ \A i \in 1..n : a[i] = Words(t, n)[i]
      /\ a[n + 1] = OutOf(MyJob(t))
  BY <1>4, <1>5, AppendProperties
<1> HIDE DEF a
<1>7. a = [i \in 1..n+1 |-> a[i]]
  <2>1. a \in [1..Len(a) -> S]
    BY <1>6, LenProperties
  <2> QED BY <1>6, <2>1
<1>8. ASSUME NEW i \in 1..n+1 PROVE a[i] = w(i)
  BY <1>1, <1>3, <1>6, <1>8
<1> QED BY <1>1, <1>7, <1>8 DEF a

\* A response that is still zero is read again; any other is the answer, and
\* the doorbell is quiet.
LEMMA PollServe ==
    ASSUME Inv, Calm', NEW t \in Thread, ReadData(t), InPoll(t)
    PROVE  /\ CallOK(t)'
           /\ IF reg[Rsp(req[t].box)] = Zero THEN InPoll(t)'
              ELSE /\ pending[req[t].box] = {} /\ Executed(MyJob(t))
                   /\ InFetch(t)' \/ After(t)'
<1> USE DEF Inv, IInv, TypeInv, TypeOK, Goto
<1> DEFINE word == reg[Rsp(req[t].box)]
<1>0. /\ CallOK(t) /\ req[t].kind \in Commands /\ got[t] = <<>> /\ req[t] \in Request
      /\ AfterPoll(t, word) /\ (word = Zero => step[t] # POLL_N - 1)
      /\ step[t] \in 0..POLL_N-1
      /\ UNCHANGED <<reg, pending, executed, req, calls>>
  <2>1. CallOK(t) /\ Target(t) = Rsp(req[t].box)
    BY DEF ServeInv, InPoll, Target
  <2>2. /\ AfterPoll(t, reg[Target(t)]) /\ req[t] \in Request
        /\ reg[Target(t)] = Zero => step[t] # POLL_N - 1
        /\ UNCHANGED <<reg, pending, executed, req, calls>>
    BY DataRead DEF InPoll
  <2>3. step[t] \in 0..POLL_N-1
    BY DEF InPoll
  <2> QED BY <2>1, <2>2, <2>3 DEF CallOK
<1>2. /\ MyJob(t)' = MyJob(t)
      /\ Output(t)' <=> Output(t)
      /\ Loaded(t)' <=> Loaded(t)
      /\ Executed(MyJob(t))' <=> Executed(MyJob(t))
  BY <1>0 DEF MyJob, Output, Loaded, Executed
<1>3. CASE word = Zero
  <2>1. step[t] < POLL_N - 1
    BY <1>0, <1>3, PollAssumption
  <2>2. pc'[t] = "access" /\ stage'[t] = "poll" /\ UNCHANGED got
    BY <1>0, <1>3, <2>1 DEF AfterPoll, InPoll
  <2>3. /\ Running(t)' <=> Running(t)
        /\ Answered(t)' <=> Answered(t)
    BY <1>0, <1>2 DEF Running, Answered
  <2> QED BY <1>0, <1>2, <1>3, <2>2, <2>3
          DEF CallOK, Before, After, InWrite, InPoll, InFetch
<1>4. CASE word # Zero
  <2>1. Answered(t)
    BY <1>0, <1>4 DEF CallOK, Running
  <2>2. /\ got'[t] = <<RspOf(MyJob(t))>> /\ stage'[t] = "fetch" /\ step'[t] = 0
        /\ pc'[t] = IF req[t].kind = "query" THEN "access" ELSE "leave"
    BY <1>0, <1>4, <2>1 DEF AfterPoll, Answered
  <2>3. CASE req[t].kind = "query"
    <3>1. got'[t] = Words(t, 1)
      BY <2>2 DEF Words
    <3>2. Words(t, 1)' = Words(t, 1)
      BY <1>2 DEF Words
    <3>3. InFetch(t)' /\ step'[t] + 1 = 1
      BY <2>2, <2>3 DEF InFetch
    <3>4. got'[t] = Words(t, step[t] + 1)'
      BY <3>1, <3>2, <3>3
    <3>5. Output(t)' /\ Executed(MyJob(t))'
      BY <1>2, <2>1 DEF Answered
    <3> QED BY <1>0, <1>4, <2>1, <2>3, <3>3, <3>4, <3>5
            DEF CallOK, Before, After, InWrite, InPoll, InFetch, Answered
  <2>4. CASE req[t].kind = "send"
    <3>1. After(t)'
      BY <2>2, <2>4 DEF After
    <3>2. Executed(MyJob(t))'
      BY <1>2, <2>1 DEF Answered
    <3>3. ItsAnswer(t)'
      BY <1>0, <1>2, <2>2, <2>4, <3>2 DEF ItsAnswer, CommandAnswer
    <3> QED BY <1>0, <1>4, <2>1, <3>1, <3>3
            DEF CallOK, Before, After, InWrite, InPoll, InFetch, Answered
  <2> QED BY <1>0, <2>3, <2>4 DEF Commands
<1> QED BY <1>3, <1>4

\* The words fetched are the outputs of the thread's command, or the word
\* at the address it was asked for.
LEMMA FetchServe ==
    ASSUME Inv, Calm', NEW t \in Thread, ReadData(t), InFetch(t)
    PROVE  /\ CallOK(t)'
           /\ InFetch(t)' \/ After(t)'
           /\ req[t].kind = "read" => After(t)' /\ got'[t] = <<reg[Smn(req[t].word)]>>
<1> USE DEF Inv, IInv, TypeInv, TypeOK, Goto
<1> DEFINE k == step[t]
<1>0. /\ CallOK(t) /\ req[t].kind \in {"read", "query"}
      /\ AfterFetch(t, reg[Target(t)]) /\ req[t] \in Request
      /\ UNCHANGED <<reg, pending, executed, req, calls>>
  <2>1. CallOK(t) /\ stage[t] # "poll"
    BY DEF ServeInv, InFetch
  <2> QED BY <2>1, DataRead DEF CallOK
<1>2. /\ MyJob(t)' = MyJob(t)
      /\ Output(t)' <=> Output(t)
      /\ Executed(MyJob(t))' <=> Executed(MyJob(t))
      /\ \A n : Words(t, n)' = Words(t, n)
  BY <1>0 DEF MyJob, Output, Executed, Words
<1>3. got'[t] = Append(got[t], reg[Target(t)])
  BY <1>0 DEF AfterFetch
<1>4. CASE req[t].kind = "read"
  <2>1. After(t)'
    BY <1>0, <1>4 DEF AfterFetch, After
  <2>2. got'[t] = <<reg[Smn(req[t].word)]>>
    BY <1>0, <1>3, <1>4 DEF CallOK, Target, InFetch
  <2>3. ItsAnswer(t)'
    BY <1>0, <1>4 DEF ItsAnswer, Commands
  <2> QED BY <2>1, <2>2, <2>3 DEF CallOK, Before, After, InWrite, InPoll, InFetch
<1>5. CASE req[t].kind = "query"
  <2>1. k \in 0..NARGS-1
    BY <1>5, NargsAssumption DEF StepOK, ThreadStepOK, InFetch
  <2>2. Output(t) /\ Executed(MyJob(t)) /\ got[t] = Words(t, k + 1)
    BY <1>0, <1>5 DEF CallOK
  <2>3. reg[Target(t)] = OutOf(MyJob(t))
    BY <1>5, <2>1, <2>2 DEF Target, Output, InFetch
  <2>4. got'[t] = Words(t, k + 2)
    <3>1. Append(Words(t, k + 1), OutOf(MyJob(t))) = Words(t, (k + 1) + 1)
      <4>1. k + 1 \in Nat /\ k + 1 > 0
        BY <2>1
      <4> HIDE DEF k
      <4> QED BY <4>1, NextWord
    <3>2. (k + 1) + 1 = k + 2
      BY <2>1
    <3> QED BY <1>3, <2>2, <2>3, <3>1, <3>2
  <2>5. CASE k < NARGS - 1
    <3>1. InFetch(t)' /\ step'[t] = k + 1
      BY <1>0, <1>5, <2>5 DEF AfterFetch, InFetch
    <3>2. step'[t] + 1 = k + 2
      BY <2>1, <3>1
    <3>3. got'[t] = Words(t, step[t] + 1)'
      BY <1>2, <2>4, <3>2
    <3> QED BY <1>0, <1>2, <1>5, <2>2, <3>1, <3>3
            DEF CallOK, Before, After, InWrite, InPoll, InFetch
  <2>6. CASE k = NARGS - 1
    <3>1. After(t)'
      BY <1>0, <2>6, NargsAssumption DEF AfterFetch, After
    <3>2. k + 2 = NARGS + 1
      BY <2>6, NargsAssumption
    <3>3. got'[t] = CommandAnswer("query", MyJob(t))
      BY <2>4, <3>2 DEF Words, CommandAnswer
    <3>4. ItsAnswer(t)'
      BY <1>0, <1>2, <1>5, <2>2, <3>3 DEF ItsAnswer
    <3> QED BY <1>5, <3>1, <3>4 DEF CallOK, Before, After, InWrite, InPoll, InFetch
  <2>7. k < NARGS - 1 \/ k = NARGS - 1
    BY <2>1, NargsAssumption
  <2> QED BY <2>5, <2>6, <2>7
<1> QED BY <1>0, <1>4, <1>5

\* The SMU serves the command of the one thread that waits for it.
LEMMA AnswerServe ==
    ASSUME Inv, NEW m \in Mailbox, Answer(m)
    PROVE  ServeInv'
<1> USE DEF Inv, IInv, TypeInv, TypeOK
<1>1. PICK v \in pending[m] :
        /\ pending' = [pending EXCEPT ![m] = @ \ {v}]
        /\ executed' = executed \cup
              {[cmd |-> v, args |-> [i \in 0..NARGS-1 |-> reg[Arg(m, i)]]]}
        /\ reg' = [r \in Reg |->
              IF r = Rsp(m) THEN RspOf(v.job)
              ELSE IF r \in Args(m) THEN OutOf(v.job)
              ELSE reg[r]]
  BY DEF Answer, Firmware
<1>2. UNCHANGED <<pc, req, calls, stage, step, got, backend, closing>>
  BY DEF Answer, seqVars, lifeVars
<1>3. PICK t \in Thread : InPoll(t) /\ req[t].box = m
  BY <1>1 DEF ServeInv, DoorbellOK
<1>5. CallOK(t)
  BY DEF ServeInv
<1>6. Running(t)
  BY <1>1, <1>3, <1>5 DEF CallOK, Answered
<1>7. v = OpOf(MyJob(t)) /\ v.job = MyJob(t)
  BY <1>1, <1>3, <1>6 DEF Running, OpOf
<1>8. MyJob(t)' = MyJob(t)
  BY <1>2 DEF MyJob
<1>9. CallOK(t)'
  <2>1. pending'[m] = {}
    BY <1>1, <1>3, <1>6, <1>7 DEF Running, BusTypeOK
  <2>2. reg'[Rsp(m)] = RspOf(MyJob(t))
    <3>1. Rsp(m) \in Reg
      BY Layout
    <3> QED BY <1>1, <1>7, <3>1
  <2>3. ASSUME NEW i \in 0..NARGS-1 PROVE reg'[Arg(m, i)] = OutOf(MyJob(t))
    <3>1. /\ Arg(m, i) \in Reg /\ Arg(m, i) # Rsp(m)
          /\ Arg(m, i) \in Args(m)
      BY Layout
    <3> QED BY <1>1, <1>7, <3>1
  <2>4. Executed(MyJob(t))'
    <3> DEFINE a == [i \in 0..NARGS-1 |-> reg[Arg(m, i)]]
    <3>0. [cmd |-> v, args |-> a] \in executed'
      BY <1>1
    <3> HIDE DEF a
    <3>1. PICK e \in executed' : e.cmd = v
      BY <3>0
    <3>2. OpOf(MyJob(t))' = v
      BY <1>7, <1>8
    <3> QED BY <3>1, <3>2 DEF Executed
  <2>5. Answered(t)'
    BY <1>2, <1>3, <1>8, <2>1, <2>2, <2>3, <2>4 DEF Answered, Output
  <2> QED BY <1>2, <1>3, <1>5, <2>5
          DEF CallOK, Before, After, InWrite, InPoll, InFetch
<1>10. ASSUME NEW u \in Thread, u # t PROVE CallOK(u)'
  <2>1. pc[u] # "access"
    BY <1>3, <1>10, Alone DEF InPoll
  <2>2. OpOf(MyJob(u)) # v
    BY <1>7, <1>10 DEF OpOf, MyJob
  <2>3. MyJob(u)' = MyJob(u)
    BY <1>2 DEF MyJob
  <2>4. Executed(MyJob(u))' <=> Executed(MyJob(u))
    BY <1>1, <2>2, <2>3 DEF Executed
  <2>5. CallOK(u)
    BY DEF ServeInv
  <2> QED BY <1>2, <2>1, <2>4, <2>5, CallFrame
<1>11. DoorbellOK'
  <2>1. ASSUME NEW n \in Mailbox, pending'[n] # {}
        PROVE  \E u \in Thread : InPoll(u)' /\ req'[u].box = n
    <3>1. pending[n] # {}
      BY <1>1, <2>1 DEF BusTypeOK
    <3> QED BY <1>2, <3>1 DEF ServeInv, DoorbellOK, InPoll
  <2> QED BY <2>1 DEF DoorbellOK
<1>12. HistoryOK'
  <2>1. ASSUME NEW e \in executed'
        PROVE  \E u \in Thread, n \in Nat :
                 n <= calls'[u] /\ e.cmd = OpOf([thread |-> u, n |-> n])
    <3>1. CASE e \in executed
      BY <1>2, <3>1 DEF ServeInv, HistoryOK
    <3>2. CASE e = [cmd |-> v, args |-> [i \in 0..NARGS-1 |-> reg[Arg(m, i)]]]
      <4>1. e.cmd = OpOf(MyJob(t))
        BY <1>7, <3>2
      <4>2. calls[t] \in Nat /\ calls[t] <= calls'[t]
        BY <1>2, MacBoundAssumption
      <4> QED BY <4>1, <4>2 DEF MyJob
    <3> QED BY <1>1, <2>1, <3>1, <3>2
  <2> QED BY <2>1 DEF HistoryOK
<1>13. BusyOK'
  BY <1>2 DEF ServeInv, BusyOK, Own
<1> QED BY <1>9, <1>10, <1>11, <1>12, <1>13 DEF ServeInv

\* What a thread does to the history, and to the doorbells.
LEMMA ThreadHistory ==
    ASSUME Inv, Calm', NEW t \in Thread, Call(t) \/ Progress(t)
    PROVE  HistoryOK'
<1> USE DEF Inv, IInv, TypeInv, TypeOK
<1>1. executed' = executed
  BY OthersStay
<1>2. \A u \in Thread : calls[u] \in Nat /\ calls'[u] \in Nat /\ calls[u] <= calls'[u]
  <2>1. CASE Call(t)
    BY <2>1, MacBoundAssumption DEF Call
  <2>2. CASE calls' = calls
    BY <2>2, MacBoundAssumption
  <2> QED BY <2>1, <2>2
          DEF Progress, TakeLock, Acquire, Leave, SetPort, SetIndex, WriteData, ReadData
<1>3. ASSUME NEW e \in executed
      PROVE  \E u \in Thread, n \in Nat :
               n <= calls'[u] /\ e.cmd = OpOf([thread |-> u, n |-> n])
  <2>1. PICK u \in Thread, n \in Nat :
               n <= calls[u] /\ e.cmd = OpOf([thread |-> u, n |-> n])
    BY DEF ServeInv, HistoryOK
  <2>2. n <= calls'[u]
    BY <1>2, <2>1
  <2> QED BY <2>1, <2>2
<1> QED BY <1>1, <1>3 DEF HistoryOK

LEMMA ThreadDoorbells ==
    ASSUME Inv, Calm', NEW t \in Thread, Call(t) \/ Progress(t)
    PROVE  DoorbellOK'
<1> USE DEF Inv, IInv, TypeInv, TypeOK, Goto
<1>1. CASE WriteData(t)
  <2>1. /\ InWrite(t) /\ Target(t) = WriteTarget(req[t], step[t])
        /\ WriteRegister(Target(t), WriteValue(t)) /\ AfterWrite(t)
        /\ step[t] \in 0..LastWrite(req[t]) /\ req' = req
    BY <1>1, DataWritten
  <2> SUFFICES ASSUME NEW m \in Mailbox, pending'[m] # {}
               PROVE  \E u \in Thread : InPoll(u)' /\ req'[u].box = m
    BY DEF DoorbellOK
  <2>2. pending[m] = {}
    BY <2>1, QuietDoorbells
  <2>3. Target(t) = Msg(m)
    BY <2>1, <2>2 DEF WriteRegister
  <2>q. req[t] \in Request
    BY <2>1 DEF InWrite, Inv, TypeInv, StepOK, ThreadStepOK
  <2>4. req[t].kind # "write"
    BY <2>1, <2>3, <2>q, Written
  <2>5. m = req[t].box /\ step[t] = LastWrite(req[t])
    BY <2>1, <2>3, <2>q, Written
  <2>6. InPoll(t)'
    <3>1. ~(step[t] < LastWrite(req[t]))
      BY <2>5, NargsAssumption DEF LastWrite
    <3> QED BY <2>1, <2>4, <3>1 DEF AfterWrite, InPoll
  <2> QED BY <2>1, <2>5, <2>6
<1>2. CASE ~WriteData(t)
  <2>1. UNCHANGED <<reg, pending>>
    <3>1. CASE SetPort(t) \/ SetIndex(t)
      BY <3>1, HalfSteps
    <3>2. CASE ~(SetPort(t) \/ SetIndex(t))
      BY <1>2, <3>2 DEF Progress, Call, TakeLock, Acquire, Leave, ReadData, busVars
    <3> QED BY <3>1, <3>2
  <2> SUFFICES ASSUME NEW m \in Mailbox, pending[m] # {}
               PROVE  \E u \in Thread : InPoll(u)' /\ req'[u].box = m
    BY <2>1 DEF DoorbellOK
  <2>2. PICK u \in Thread : InPoll(u) /\ req[u].box = m
    BY DEF ServeInv, DoorbellOK
  <2>3. CASE u # t
    <3>1. UNCHANGED <<pc[u], req[u], stage[u]>>
      BY <2>3, OthersStay
    <3> QED BY <2>2, <3>1 DEF InPoll
  <2>4. CASE u = t /\ ReadData(t)
    <3>1. InPoll(t)'
      BY <2>2, <2>4, PollServe
    <3>2. req' = req
      BY <2>4, DataRead
    <3> QED BY <2>2, <2>4, <3>1, <3>2
  <2>5. CASE u = t /\ (SetPort(t) \/ SetIndex(t))
    BY <2>2, <2>5, HalfSteps DEF InPoll
  <2>6. CASE Call(t) \/ TakeLock(t) \/ Acquire(t) \/ Leave(t)
    <3>1. pc[t] # "access"
      BY <2>6 DEF Call, TakeLock, Acquire, Leave
    <3>2. u # t
      BY <2>2, <3>1 DEF InPoll
    <3> QED BY <2>3, <3>2
  <2> QED BY <1>2, <2>3, <2>4, <2>5, <2>6 DEF Progress
<1> QED BY <1>1, <1>2

\* A call that begins while close() is at work has its harm, and so has a
\* close() during a call.
LEMMA ThreadBusy ==
    ASSUME Inv, Calm', NEW t \in Thread, Call(t) \/ Progress(t)
    PROVE  BusyOK'
<1> USE DEF Inv, IInv, TypeInv, TypeOK, lifeVars
<1>1. UNCHANGED <<backend, closing>>
  BY DEF Progress, Call, TakeLock, Acquire, Leave, SetPort, SetIndex, WriteData, ReadData
<1>2. ASSUME NEW u \in Thread, u # t PROVE pc'[u] = pc[u]
  BY <1>2, OthersStay
<1>3. CASE Call(t)
  <2>1. backend[Own(t)] # None /\ closing[Own(t)] = 0
    BY <1>3 DEF Call, Note, Calm
  <2> QED BY <1>1, <1>2, <2>1 DEF ServeInv, BusyOK, Own
<1>4. CASE Progress(t)
  <2>1. pc[t] # "idle"
    BY <1>4 DEF Progress, TakeLock, Acquire, Leave, SetPort, SetIndex, WriteData, ReadData,
                AtData
  <2> QED BY <1>1, <1>2, <2>1 DEF ServeInv, BusyOK, Own
<1> QED BY <1>3, <1>4

LEMMA ThreadServe ==
    ASSUME Inv, Calm', NEW t \in Thread, Call(t) \/ Progress(t)
    PROVE  ServeInv'
<1>1. CallOK(t)'
  <2>1. CASE Call(t) \/ TakeLock(t) \/ Acquire(t) \/ Leave(t)
    BY <2>1, GuardServe
  <2>2. CASE SetPort(t) \/ SetIndex(t)
    <3>1. UNCHANGED <<reg, pending, executed, pc, req, calls, stage, step, got>>
      BY <2>2, HalfSteps
    <3>2. Executed(MyJob(t))' <=> Executed(MyJob(t))
      BY <3>1 DEF Executed, MyJob
    <3>3. CallOK(t)
      BY DEF Inv, ServeInv
    <3> QED BY <3>1, <3>2, <3>3, CallFrame
  <2>3. CASE WriteData(t)
    BY <2>3, WriteServe
  <2>4. CASE ReadData(t)
    <3>1. InPoll(t) \/ InFetch(t)
      BY <2>4, DataRead
    <3>2. CASE InPoll(t)
      BY <2>4, <3>2, PollServe
    <3>3. CASE InFetch(t)
      BY <2>4, <3>3, FetchServe
    <3> QED BY <3>1, <3>2, <3>3
  <2> QED BY <2>1, <2>2, <2>3, <2>4 DEF Progress
<1>2. ASSUME NEW u \in Thread \ {t} PROVE CallOK(u)'
  <2>1. CallOK(u)
    BY DEF Inv, ServeInv
  <2>2. /\ UNCHANGED <<pc[u], req[u], calls[u], stage[u], step[u], got[u]>>
        /\ pc[u] = "access" => UNCHANGED <<reg, pending>>
        /\ executed' = executed
    BY OthersStay
  <2>3. Executed(MyJob(u))' <=> Executed(MyJob(u))
    BY <2>2 DEF Executed, MyJob
  <2> QED BY <2>1, <2>2, <2>3, CallFrame
<1> QED BY <1>1, <1>2, ThreadHistory, ThreadDoorbells, ThreadBusy DEF ServeInv

\* A step that leaves the calls and the registers alone.
LEMMA QuietServe ==
    ASSUME Inv, UNCHANGED <<reg, pending, executed, pc, req, calls, stage, step, got>>, BusyOK'
    PROVE  ServeInv'
<1>1. ASSUME NEW u \in Thread PROVE CallOK(u)'
  <2>1. CallOK(u)
    BY DEF Inv, ServeInv
  <2>2. Executed(MyJob(u))' <=> Executed(MyJob(u))
    BY DEF Executed, MyJob
  <2> QED BY <2>1, <2>2, CallFrame
<1>2. DoorbellOK' /\ HistoryOK'
  BY DEF Inv, ServeInv, DoorbellOK, HistoryOK, InPoll
<1> QED BY <1>1, <1>2 DEF ServeInv

LEMMA StepServe == Inv /\ Calm' /\ [Next]_vars => ServeInv'
<1> SUFFICES ASSUME Inv, Calm', [Next]_vars PROVE ServeInv'
  OBVIOUS
<1> USE DEF busVars, seqVars
<1>1. CASE \E t \in Thread : Call(t) \/ Progress(t)
  BY <1>1, ThreadServe
<1>2. CASE \E m \in Mailbox : Answer(m)
  BY <1>2, AnswerServe
<1>3. ASSUME NEW p \in Process, Initialise(p) \/ Close(p) PROVE ServeInv'
  <2>1. UNCHANGED <<reg, pending, executed, pc, req, calls, stage, step, got>>
    BY <1>3 DEF Initialise, Close
  <2>2. ~Busy(p)
    BY <1>3 DEF Initialise, Close, Note, Mishap, Calm
  <2>3. ASSUME NEW u \in Thread, pc[u] # "idle"
        PROVE  backend'[Own(u)] = backend[Own(u)] /\ closing'[Own(u)] = closing[Own(u)]
    <3>1. Own(u) # p /\ Own(u) \in Process
      BY <2>2, <2>3, MacProcAssumption DEF Busy, Own
    <3> QED BY <1>3, <3>1 DEF Initialise, Close, Inv, IInv, TypeInv, TypeOK
  <2>4. BusyOK'
    BY <2>1, <2>3 DEF Inv, ServeInv, BusyOK, Own
  <2> QED BY <2>1, <2>4, QuietServe
<1>4. CASE MovePort
  BY <1>4 DEF MovePort, Mishap, Note, Calm
<1>5. CASE UNCHANGED vars
  <2>1. UNCHANGED <<reg, pending, executed, pc, req, calls, stage, step, got, backend, closing>>
    BY <1>5 DEF vars, lifeVars
  <2>2. BusyOK'
    BY <2>1 DEF Inv, ServeInv, BusyOK, Own
  <2> QED BY <2>1, <2>2, QuietServe
<1> QED BY <1>1, <1>2, <1>3, <1>4, <1>5 DEF Next, Finished

\* What is known of every state.
CalmInv == IInv /\ LiveOK /\ (Calm => ServeInv)

LEMMA CalmStep == CalmInv /\ [Next]_vars => CalmInv'
<1> SUFFICES ASSUME CalmInv, [Next]_vars PROVE CalmInv'
  OBVIOUS
<1>1. IInv' /\ LiveOK'
  BY StepInv, LiveStep DEF CalmInv, IInv
<1>2. Calm' => Calm
  BY HarmGrows DEF Calm, CalmInv, IInv
<1>3. Calm' => ServeInv'
  BY <1>2, StepServe DEF CalmInv, Inv
<1> QED BY <1>1, <1>3 DEF CalmInv


-----------------------------------------------------------------------------
(* The refinement: while nothing has gone wrong, the module implements     *)
(* SmuService.                                                             *)

\* What the callers see, as in the substitution of Service.
Phase  == [t \in Thread |-> IF pc[t] = "idle" THEN "idle"
                            ELSE IF Served(t) THEN "served" ELSE "called"]
Reply  == [t \in Thread |-> IF pc[t] = "leave" THEN got[t]
                            ELSE IF pc[t] # "idle" /\ Served(t)
                            THEN CommandAnswer(req[t].kind, MyJob(t)) ELSE <<>>]
Memory == [w \in Word |-> reg[Smn(w)]]

\* The words of the service are those of this module.
LEMMA SameWords ==
    /\ Service!Zero = Zero /\ Service!NoRequest = NoRequest
    /\ Service!Request = Request /\ Service!Commands = Commands
    /\ \A j : /\ Service!OpOf(j) = OpOf(j) /\ Service!DataOf(j) = DataOf(j)
              /\ Service!ArgumentsOf(j) = ArgumentsOf(j)
              /\ \A k : Service!CommandAnswer(k, j) = CommandAnswer(k, j)
    /\ \A t \in Thread : Service!MyJob(t) = MyJob(t)
<1>1. Service!Zero = Zero /\ Service!NoRequest = NoRequest
  BY DEF Service!Zero, Service!NoRequest, Service!NoJob, Zero, NoRequest, NoJob
<1>2. Service!Request = Request /\ Service!Commands = Commands
  BY DEF Service!Request, Service!Commands, Request, Commands
<1>3. ASSUME NEW j
      PROVE  /\ Service!OpOf(j) = OpOf(j) /\ Service!DataOf(j) = DataOf(j)
             /\ Service!ArgOf(j) = ArgOf(j)
             /\ Service!RspOf(j) = RspOf(j) /\ Service!OutOf(j) = OutOf(j)
  BY DEF Service!OpOf, Service!DataOf, Service!ArgOf, Service!RspOf, Service!OutOf,
         OpOf, DataOf, ArgOf, RspOf, OutOf
<1>4. ASSUME NEW j PROVE Service!ArgumentsOf(j) = ArgumentsOf(j)
  BY <1>1, <1>3 DEF Service!ArgumentsOf, ArgumentsOf
<1>5. ASSUME NEW j, NEW k PROVE Service!CommandAnswer(k, j) = CommandAnswer(k, j)
  BY <1>3 DEF Service!CommandAnswer, CommandAnswer
<1>6. ASSUME NEW t \in Thread PROVE Service!MyJob(t) = MyJob(t)
  BY DEF Service!MyJob, MyJob
<1> QED BY <1>1, <1>2, <1>3, <1>4, <1>5, <1>6

\* What a caller sees of a thread's call: nothing yet, or its answer.
Sees(t, p, words) == Phase[t] = p /\ Reply[t] = words

Phases == \A t \in Thread :
    /\ pc[t] = "idle" => Sees(t, "idle", <<>>)
    /\ Before(t) \/ InWrite(t) => Sees(t, "called", <<>>)
    /\ InPoll(t) /\ ~Executed(MyJob(t)) => Sees(t, "called", <<>>)
    /\ (InPoll(t) \/ InFetch(t)) /\ Executed(MyJob(t)) /\ req[t].kind \in Commands =>
          Sees(t, "served", CommandAnswer(req[t].kind, MyJob(t)))
    /\ InFetch(t) /\ req[t].kind = "read" => Sees(t, "called", <<>>)
    /\ After(t) => Sees(t, "served", got[t])

LEMMA PhasesHold == Inv => Phases
<1> SUFFICES ASSUME Inv, NEW t \in Thread
             PROVE  /\ pc[t] = "idle" => Sees(t, "idle", <<>>)
                    /\ Before(t) \/ InWrite(t) => Sees(t, "called", <<>>)
                    /\ InPoll(t) /\ ~Executed(MyJob(t)) => Sees(t, "called", <<>>)
                    /\ (InPoll(t) \/ InFetch(t)) /\ Executed(MyJob(t))
                       /\ req[t].kind \in Commands =>
                          Sees(t, "served", CommandAnswer(req[t].kind, MyJob(t)))
                    /\ InFetch(t) /\ req[t].kind = "read" => Sees(t, "called", <<>>)
                    /\ After(t) => Sees(t, "served", got[t])
  BY DEF Phases
<1>1. CallOK(t)
  BY DEF Inv, ServeInv
<1>2. Phase[t] = IF pc[t] = "idle" THEN "idle"
                 ELSE IF Served(t) THEN "served" ELSE "called"
  BY DEF Phase
<1>3. Reply[t] = IF pc[t] = "leave" THEN got[t]
                 ELSE IF pc[t] # "idle" /\ Served(t)
                 THEN CommandAnswer(req[t].kind, MyJob(t)) ELSE <<>>
  BY DEF Reply
<1>4. Served(t) <=> IF req[t].kind \in Commands THEN Executed(MyJob(t)) ELSE pc[t] = "leave"
  BY DEF Served, Executed
<1>5. CASE pc[t] = "idle"
  BY <1>2, <1>3, <1>5 DEF Sees, Before, After, InWrite, InPoll, InFetch
<1>6. CASE Before(t) \/ InWrite(t)
  <2>1. ~Served(t)
    BY <1>1, <1>4, <1>6 DEF CallOK, Before, InWrite
  <2> QED BY <1>2, <1>3, <1>6, <2>1 DEF Sees, Before, After, InWrite, InPoll, InFetch
<1>8. CASE InPoll(t)
  <2>1. Served(t) <=> Executed(MyJob(t))
    BY <1>1, <1>4, <1>8 DEF CallOK
  <2> QED BY <1>2, <1>3, <1>8, <2>1 DEF Sees, Before, After, InWrite, InPoll, InFetch
<1>9. CASE InFetch(t)
  <2>1. req[t].kind = "read" => ~Served(t) /\ req[t].kind \notin Commands
    BY <1>4, <1>9 DEF InFetch, Commands
  <2>2. req[t].kind \in Commands => (Served(t) <=> Executed(MyJob(t)))
    BY <1>4
  <2> QED BY <1>2, <1>3, <1>9, <2>1, <2>2 DEF Sees, Before, After, InWrite, InPoll, InFetch
<1>10. CASE After(t)
  <2>1. Served(t)
    BY <1>1, <1>4, <1>10 DEF CallOK, After, ItsAnswer
  <2> QED BY <1>2, <1>3, <1>10, <2>1 DEF Sees, Before, After, InWrite, InPoll, InFetch
<1> QED BY <1>5, <1>6, <1>8, <1>9, <1>10 DEF Before, After, InWrite, InPoll, InFetch

\* The call of a thread that does not move is seen as before.
LEMMA SeenFrame ==
    ASSUME NEW u \in Thread, UNCHANGED <<pc[u], req[u], calls[u], got[u]>>,
           Executed(MyJob(u))' <=> Executed(MyJob(u))
    PROVE  Phase'[u] = Phase[u] /\ Reply'[u] = Reply[u]
<1>1. MyJob(u)' = MyJob(u)
  BY DEF MyJob
<1>2. Served(u)' <=> Served(u)
  BY <1>1 DEF Served, Executed
<1> QED BY <1>1, <1>2 DEF Phase, Reply

\* What a step does to the calls of the service is said thread by thread.
LEMMA SeenStep ==
    ASSUME NEW t \in Thread,
           \A u \in Thread \ {t} : Phase'[u] = Phase[u] /\ Reply'[u] = Reply[u]
    PROVE  /\ Phase' = [Phase EXCEPT ![t] = Phase'[t]]
           /\ Reply' = [Reply EXCEPT ![t] = Reply'[t]]
<1>1. Phase = [u \in Thread |-> Phase[u]] /\ Phase' = [u \in Thread |-> Phase'[u]]
  BY DEF Phase
<1>2. Reply = [u \in Thread |-> Reply[u]] /\ Reply' = [u \in Thread |-> Reply'[u]]
  BY DEF Reply
<1> HIDE DEF Phase, Reply
<1> QED BY <1>1, <1>2

\* A step that changes nothing the callers see.
LEMMA Stutter ==
    ASSUME NEW t \in Thread,
           Phase' = [Phase EXCEPT ![t] = Phase'[t]],
           Reply' = [Reply EXCEPT ![t] = Reply'[t]],
           NEW p, NEW words, Sees(t, p, words),
           Phase'[t] = p, Reply'[t] = words,
           UNCHANGED <<req, calls, executed, Memory>>
    PROVE  UNCHANGED Service!vars
<1>1. Phase' = Phase
  <2>1. Phase = [Phase EXCEPT ![t] = Phase[t]]
    BY DEF Phase
  <2> QED BY <2>1 DEF Sees
<1>2. Reply' = Reply
  <2>1. Reply = [Reply EXCEPT ![t] = Reply[t]]
    BY DEF Reply
  <2> QED BY <2>1 DEF Sees
<1> QED BY <1>1, <1>2 DEF Service!vars, Memory, Phase, Reply

\* Entry into the locks and exit from them: the service is called, and it
\* returns.
LEMMA GuardService ==
    ASSUME Inv, Phases, Phases', NEW t \in Thread,
           Phase' = [Phase EXCEPT ![t] = Phase'[t]],
           Reply' = [Reply EXCEPT ![t] = Reply'[t]],
           Call(t) \/ TakeLock(t) \/ Acquire(t) \/ Leave(t)
    PROVE  Service!Next \/ UNCHANGED Service!vars
<1> USE DEF Inv, IInv, TypeInv, TypeOK, seqVars
<1>1. UNCHANGED <<reg, executed, Memory>>
  BY DEF Call, TakeLock, Acquire, Leave, busVars, Memory
<1>2. CASE Call(t)
  <2>1. pc[t] = "idle" /\ Before(t)'
    BY <1>2 DEF Call, Before
  <2>2. Sees(t, "idle", <<>>) /\ Phase'[t] = "called" /\ Reply'[t] = <<>>
    BY <2>1 DEF Phases, Sees, Before
  <2>3. Reply' = Reply
    <3>1. Reply = [Reply EXCEPT ![t] = Reply[t]]
      BY DEF Reply
    <3> QED BY <2>2, <3>1 DEF Sees
  <2>5. \E q \in Request : req' = [req EXCEPT ![t] = q]
    BY <1>2 DEF Call
  <2>6. calls[t] < MaxCalls /\ calls' = [calls EXCEPT ![t] = @ + 1]
    BY <1>2 DEF Call
  <2>7. Phase[t] = "idle" /\ Phase' = [Phase EXCEPT ![t] = "called"]
    BY <2>2 DEF Sees
  <2>4. Service!Call(t)
    BY <1>1, <2>3, <2>5, <2>6, <2>7, SameWords DEF Service!Call, Memory, Phase, Reply
  <2> QED BY <2>4 DEF Service!Next
<1>3. CASE TakeLock(t) \/ Acquire(t)
  <2>1. Before(t) /\ UNCHANGED <<req, calls, stage>>
    BY <1>3 DEF TakeLock, Acquire, Before
  <2>2. Before(t)' \/ InWrite(t)' \/ (InFetch(t)' /\ req'[t].kind = "read")
    <3>1. CASE TakeLock(t)
      BY <3>1 DEF TakeLock, Before
    <3>2. CASE Acquire(t)
      <4>1. /\ stage[t] = IF req[t].kind = "read" THEN "fetch" ELSE "write"
            /\ pc'[t] = "access"
        BY <3>2 DEF Acquire, StepOK, ThreadStepOK
      <4> QED BY <2>1, <4>1 DEF InWrite, InFetch
    <3> QED BY <1>3, <3>1, <3>2
  <2>3. Sees(t, "called", <<>>) /\ Phase'[t] = "called" /\ Reply'[t] = <<>>
    BY <2>1, <2>2 DEF Phases, Sees
  <2> QED BY <1>1, <2>1, <2>3, Stutter
<1>5. CASE Leave(t)
  <2>1. After(t) /\ pc'[t] = "idle"
    BY <1>5 DEF Leave, After
  <2>2. Phase[t] = "served" /\ Phase'[t] = "idle" /\ Reply'[t] = <<>>
    BY <2>1 DEF Phases, Sees
  <2>4. req' = [req EXCEPT ![t] = NoRequest] /\ calls' = calls
    BY <1>5 DEF Leave
  <2>3. Service!Return(t)
    BY <1>1, <2>2, <2>4, SameWords DEF Service!Return, Memory, Phase, Reply
  <2> QED BY <2>3 DEF Service!Next
<1> QED BY <1>2, <1>3, <1>5


\* The last step of a write is the write of the service; the writes of a
\* command are not seen.
LEMMA WriteService ==
    ASSUME Inv, Calm', Phases, Phases', NEW t \in Thread,
           Phase' = [Phase EXCEPT ![t] = Phase'[t]],
           Reply' = [Reply EXCEPT ![t] = Reply'[t]],
           WriteData(t)
    PROVE  Service!Next \/ UNCHANGED Service!vars
<1> USE DEF Inv, IInv, TypeInv, TypeOK, Goto
<1>1. /\ InWrite(t) /\ Target(t) = WriteTarget(req[t], step[t]) /\ Target(t) \in Reg
      /\ WriteRegister(Target(t), WriteValue(t)) /\ req[t].word \in Word
      /\ AfterWrite(t) /\ UNCHANGED <<req, calls>>
      /\ step[t] \in 0..LastWrite(req[t])
  BY DataWritten
<1>2. UNCHANGED <<executed, req, calls, got>>
  BY <1>1 DEF AfterWrite, WriteRegister
<1>3. CallOK(t) /\ CallOK(t)'
  BY WriteServe DEF ServeInv
<1>4. got[t] = <<>>
  BY <1>1, <1>3 DEF CallOK
<1>5. Sees(t, "called", <<>>)
  BY <1>1 DEF Phases
<1>6. reg' = [reg EXCEPT ![Target(t)] = WriteValue(t)] /\ reg \in [Reg -> Value]
  BY <1>1 DEF WriteRegister, BusTypeOK
<1>7. \A w \in Word : Smn(w) \in Reg
  BY Layout
<1>8. CASE req[t].kind = "write"
  <2>1. After(t)'
    <3>1. ~(step[t] < LastWrite(req[t]))
      BY <1>1, <1>8 DEF LastWrite
    <3> QED BY <1>1, <1>8, <3>1 DEF AfterWrite, After
  <2>2. Phase'[t] = "served" /\ Reply'[t] = <<>>
    BY <1>2, <1>4, <2>1 DEF Phases, Sees
  <2>3. Target(t) = Smn(req[t].word) /\ WriteValue(t) = DataOf(MyJob(t))
    BY <1>1, <1>8 DEF WriteTarget, WriteValue
  <2>4. Memory' = [Memory EXCEPT ![req[t].word] = DataOf(MyJob(t))]
    <3>1. ASSUME NEW w \in Word
          PROVE  reg'[Smn(w)] = IF w = req[t].word THEN DataOf(MyJob(t)) ELSE reg[Smn(w)]
      <4>1. Smn(w) = Smn(req[t].word) <=> w = req[t].word
        BY DEF Smn
      <4> QED BY <1>6, <1>7, <2>3, <4>1
    <3>2. [Memory EXCEPT ![req[t].word] = DataOf(MyJob(t))]
            = [w \in Word |-> IF w = req[t].word THEN DataOf(MyJob(t)) ELSE reg[Smn(w)]]
      BY DEF Memory
    <3> QED BY <3>1, <3>2 DEF Memory
  <2>6. /\ Phase[t] = "called" /\ Phase' = [Phase EXCEPT ![t] = "served"]
        /\ Reply' = [Reply EXCEPT ![t] = <<>>]
    BY <1>5, <2>2 DEF Sees
  <2>5. Service!Write(t)
    BY <1>2, <1>8, <2>4, <2>6, SameWords
       DEF Service!Write, Service!Reply, Memory, Phase, Reply
  <2> QED BY <2>5 DEF Service!Next
<1>9. CASE req[t].kind # "write"
  <2>1. \A w \in Word : Target(t) # Smn(w)
    <3>1. req[t] \in Request /\ step[t] \in 0..LastWrite(req[t])
      BY <1>1 DEF InWrite, StepOK, ThreadStepOK
    <3> QED BY <1>1, <1>9, <3>1, Written
  <2>2. Memory' = Memory
    BY <1>6, <1>7, <2>1 DEF Memory
  <2>3. req[t].kind \in Commands
    BY <1>1, <1>3, <1>9 DEF CallOK
  <2>4. ~Executed(MyJob(t))'
    BY <1>1, <1>2, <1>3 DEF CallOK, Executed, MyJob
  <2>5. InWrite(t)' \/ InPoll(t)'
    <3>1. pc[t] = "access" /\ stage[t] = "write"
      BY <1>1 DEF InWrite
    <3> QED BY <1>1, <1>9, <3>1 DEF AfterWrite, InWrite, InPoll
  <2>6. Phase'[t] = "called" /\ Reply'[t] = <<>>
    BY <2>4, <2>5 DEF Phases, Sees
  <2> QED BY <1>2, <1>5, <2>2, <2>6, Stutter
<1> QED BY <1>8, <1>9

\* The polls are not seen, nor is what a query fetches; the last step of a
\* read is the read of the service.
LEMMA ReadService ==
    ASSUME Inv, Calm', Phases, Phases', NEW t \in Thread,
           Phase' = [Phase EXCEPT ![t] = Phase'[t]],
           Reply' = [Reply EXCEPT ![t] = Reply'[t]],
           ReadData(t)
    PROVE  Service!Next \/ UNCHANGED Service!vars
<1> USE DEF Inv, IInv, TypeInv, TypeOK
<1>1. /\ UNCHANGED <<reg, executed, req, calls, Memory>> /\ req[t] \in Request
      /\ InPoll(t) \/ InFetch(t)
  BY DataRead DEF Memory
<1>2. MyJob(t)' = MyJob(t) /\ (Executed(MyJob(t))' <=> Executed(MyJob(t)))
  BY <1>1 DEF MyJob, Executed
<1>3. CallOK(t)
  BY DEF ServeInv
\* A call that is served stays so: its answer is the same before and after.
<1>4. ASSUME Executed(MyJob(t)), req[t].kind \in Commands,
             InPoll(t)' \/ InFetch(t)' \/ After(t)', CallOK(t)'
      PROVE  UNCHANGED Service!vars
  <2>1. Sees(t, "served", CommandAnswer(req[t].kind, MyJob(t)))
    BY <1>1, <1>4 DEF Phases
  <2>2. Phase'[t] = "served" /\ Reply'[t] = CommandAnswer(req[t].kind, MyJob(t))
    <3>1. CASE InPoll(t)' \/ InFetch(t)'
      BY <1>1, <1>2, <1>4, <3>1 DEF Phases, Sees
    <3>2. CASE After(t)'
      <4>1. got'[t] = CommandAnswer(req[t].kind, MyJob(t))
        BY <1>1, <1>2, <1>4, <3>2 DEF CallOK, ItsAnswer
      <4> QED BY <3>2, <4>1 DEF Phases, Sees
    <3> QED BY <1>4, <3>1, <3>2
  <2> QED BY <1>1, <2>1, <2>2, Stutter
<1>5. CASE InPoll(t)
  <2>1. req[t].kind \in Commands /\ CallOK(t)' /\ (Running(t) \/ Answered(t))
    BY <1>3, <1>5, PollServe DEF CallOK
  <2>2. CASE Executed(MyJob(t))
    <3>1. InPoll(t)' \/ InFetch(t)' \/ After(t)'
      BY <1>5, PollServe
    <3> QED BY <1>4, <2>1, <2>2, <3>1
  <2>3. CASE ~Executed(MyJob(t))
    <3>1. InPoll(t)'
      BY <1>5, <2>1, <2>3, PollServe DEF Answered, Running
    <3>2. Sees(t, "called", <<>>) /\ Phase'[t] = "called" /\ Reply'[t] = <<>>
      BY <1>2, <1>5, <2>3, <3>1 DEF Phases, Sees
    <3> QED BY <1>1, <3>2, Stutter
  <2> QED BY <2>2, <2>3
<1>6. CASE InFetch(t)
  <2>1. CallOK(t)' /\ (InFetch(t)' \/ After(t)')
    BY <1>6, FetchServe
  <2>2. CASE req[t].kind = "read"
    <3>1. After(t)' /\ got'[t] = <<reg[Smn(req[t].word)]>> /\ req[t].word \in Word
      BY <1>1, <1>6, <2>2, FetchServe DEF Request
    <3>2. /\ Sees(t, "called", <<>>)
          /\ Phase'[t] = "served" /\ Reply'[t] = <<reg[Smn(req[t].word)]>>
      BY <1>6, <2>2, <3>1 DEF Phases, Sees
    <3>3. Memory[req[t].word] = reg[Smn(req[t].word)]
      BY <3>1 DEF Memory
    <3>5. /\ Phase[t] = "called" /\ Phase' = [Phase EXCEPT ![t] = "served"]
          /\ Reply' = [Reply EXCEPT ![t] = <<Memory[req[t].word]>>]
      BY <3>2, <3>3 DEF Sees
    <3>4. Service!Read(t)
      BY <1>1, <2>2, <3>5 DEF Service!Read, Service!Reply, Memory, Phase, Reply
    <3> QED BY <3>4 DEF Service!Next
  <2>3. CASE req[t].kind = "query"
    <3>1. Executed(MyJob(t)) /\ req[t].kind \in Commands
      BY <1>3, <1>6, <2>3 DEF CallOK, Commands
    <3> QED BY <1>4, <2>1, <3>1
  <2> QED BY <1>3, <1>6, <2>2, <2>3 DEF CallOK
<1> QED BY <1>1, <1>5, <1>6

LEMMA ThreadService ==
    ASSUME Inv, Calm', Phases, Phases', NEW t \in Thread, Call(t) \/ Progress(t)
    PROVE  Service!Next \/ UNCHANGED Service!vars
<1>1. ASSUME NEW u \in Thread, u # t
      PROVE  Phase'[u] = Phase[u] /\ Reply'[u] = Reply[u]
  <2>1. UNCHANGED <<pc[u], req[u], calls[u], got[u]>> /\ executed' = executed
    BY <1>1, OthersStay
  <2>2. Executed(MyJob(u))' <=> Executed(MyJob(u))
    BY <2>1 DEF Executed, MyJob
  <2> QED BY <2>1, <2>2, SeenFrame
<1>2. /\ Phase' = [Phase EXCEPT ![t] = Phase'[t]]
      /\ Reply' = [Reply EXCEPT ![t] = Reply'[t]]
  BY <1>1, SeenStep
<1>3. CASE SetPort(t) \/ SetIndex(t)
  <2>1. UNCHANGED <<reg, executed, pc, req, calls, got>>
    BY <1>3, HalfSteps
  <2>2. Executed(MyJob(t))' <=> Executed(MyJob(t))
    BY <2>1 DEF Executed, MyJob
  <2>3. Sees(t, Phase[t], Reply[t]) /\ Phase'[t] = Phase[t] /\ Reply'[t] = Reply[t]
    BY <2>1, <2>2, SeenFrame DEF Sees
  <2>4. UNCHANGED <<req, calls, executed, Memory>>
    BY <2>1 DEF Memory
  <2> QED BY <1>2, <2>3, <2>4, Stutter
<1> QED BY <1>2, <1>3, GuardService, WriteService, ReadService DEF Progress

\* The answer of the SMU is the moment at which the command is executed.
LEMMA AnswerService ==
    ASSUME Inv, Phases, Phases', NEW m \in Mailbox, Answer(m)
    PROVE  Service!Next \/ UNCHANGED Service!vars
<1> USE DEF Inv, IInv, TypeInv, TypeOK
<1>1. PICK v \in pending[m] :
        /\ executed' = executed \cup
              {[cmd |-> v, args |-> [i \in 0..NARGS-1 |-> reg[Arg(m, i)]]]}
        /\ reg' = [r \in Reg |->
              IF r = Rsp(m) THEN RspOf(v.job)
              ELSE IF r \in Args(m) THEN OutOf(v.job)
              ELSE reg[r]]
  BY DEF Answer, Firmware
<1>2. UNCHANGED <<pc, stage, req, calls, got>>
  BY DEF Answer, seqVars
<1>3. PICK t \in Thread : InPoll(t) /\ req[t].box = m
  BY <1>1 DEF ServeInv, DoorbellOK
<1>4. Running(t) /\ req[t].kind \in Commands
  BY <1>1, <1>3 DEF ServeInv, CallOK, Answered
<1>5. v = OpOf(MyJob(t)) /\ v.job = MyJob(t)
  BY <1>1, <1>3, <1>4 DEF Running, OpOf
<1> DEFINE e == [cmd |-> v, args |-> [i \in 0..NARGS-1 |-> reg[Arg(m, i)]]]
<1>6. e = [cmd |-> OpOf(MyJob(t)), args |-> ArgumentsOf(MyJob(t))]
  <2>1. [i \in 0..NARGS-1 |-> reg[Arg(m, i)]] = ArgumentsOf(MyJob(t))
    BY <1>3, <1>4 DEF Running, Loaded, ArgumentsOf
  <2> QED BY <1>5, <2>1
<1>7. MyJob(t)' = MyJob(t)
  BY <1>2 DEF MyJob
<1>8. Executed(MyJob(t))'
  <2>1. e \in executed' /\ e.cmd = OpOf(MyJob(t))
    BY <1>1, <1>5
  <2> HIDE DEF e
  <2>2. \E x \in executed' : x.cmd = OpOf(MyJob(t))
    BY <2>1
  <2> QED BY <1>7, <2>2 DEF Executed
<1>9. ASSUME NEW u \in Thread, u # t
      PROVE  Phase'[u] = Phase[u] /\ Reply'[u] = Reply[u]
  <2>1. OpOf(MyJob(u)) # v /\ MyJob(u)' = MyJob(u)
    BY <1>2, <1>5, <1>9 DEF OpOf, MyJob
  <2>2. Executed(MyJob(u))' <=> Executed(MyJob(u))
    BY <1>1, <2>1 DEF Executed
  <2> QED BY <1>2, <2>2, SeenFrame
<1>10. /\ Phase' = [Phase EXCEPT ![t] = Phase'[t]]
       /\ Reply' = [Reply EXCEPT ![t] = Reply'[t]]
  BY <1>9, SeenStep
<1>11. Sees(t, "called", <<>>)
  BY <1>3, <1>4 DEF Phases, Running
<1>12. Phase'[t] = "served" /\ Reply'[t] = CommandAnswer(req[t].kind, MyJob(t))
  <2>1. InPoll(t)' /\ req'[t] = req[t]
    BY <1>2, <1>3 DEF InPoll
  <2> QED BY <1>4, <1>7, <1>8, <2>1 DEF Phases, Sees
<1>13. Memory' = Memory
  <2>1. ASSUME NEW w \in Word PROVE reg'[Smn(w)] = reg[Smn(w)]
    <3>1. Smn(w) \in Reg /\ Smn(w) # Rsp(m) /\ Smn(w) \notin Args(m)
      BY Layout
    <3> QED BY <1>1, <3>1
  <2> QED BY <2>1 DEF Memory
<1>14. executed' = executed \cup {[cmd |-> OpOf(MyJob(t)), args |-> ArgumentsOf(MyJob(t))]}
  BY <1>1, <1>6
<1> HIDE DEF e
<1>16. /\ Phase[t] = "called" /\ Phase' = [Phase EXCEPT ![t] = "served"]
       /\ Reply' = [Reply EXCEPT ![t] = CommandAnswer(req[t].kind, MyJob(t))]
  BY <1>10, <1>11, <1>12 DEF Sees
<1>15. Service!Execute(t)
  BY <1>2, <1>4, <1>13, <1>14, <1>16, SameWords
     DEF Service!Execute, Service!Reply, Memory, Phase, Reply
<1> QED BY <1>15 DEF Service!Next

LEMMA StepService ==
    CalmInv /\ CalmInv' /\ [Next]_vars =>
       [harm' = {} => Service!Next \/ UNCHANGED Service!vars]_vars
<1> SUFFICES ASSUME CalmInv, CalmInv', [Next]_vars, Calm'
             PROVE  Service!Next \/ UNCHANGED Service!vars
  BY DEF Calm
<1>1. Inv /\ Inv'
  <2>1. Calm
    BY HarmGrows DEF Calm, CalmInv, IInv
  <2> QED BY <2>1 DEF CalmInv, Inv
<1>2. Phases /\ Phases'
  BY <1>1, PhasesHold, PTL
<1>3. CASE \E t \in Thread : Call(t) \/ Progress(t)
  BY <1>1, <1>2, <1>3, ThreadService
<1>4. CASE \E m \in Mailbox : Answer(m)
  BY <1>1, <1>2, <1>4, AnswerService
<1>5. CASE UNCHANGED <<busVars, pc, req, calls, seqVars>>
  BY <1>5 DEF Service!vars, busVars, seqVars, Served, MyJob
<1>6. CASE (\E p \in Process : Initialise(p) \/ Close(p)) \/ MovePort \/ UNCHANGED vars
  BY <1>5, <1>6 DEF Initialise, Close, MovePort, vars
<1> QED BY <1>3, <1>4, <1>6 DEF Next, Finished

\* As long as no call is refused, no driver moves CF8, no close() or init()
\* comes during a call and the SMU answers within its polls, the callers see
\* a service that executes each call at once between its invocation and its
\* return, although every access takes up to four steps (macos.py:165-198,
\* with mailbox_send and mailbox_query of mailbox.py).
THEOREM ServiceIsImplemented == Spec => ImplementsService
<1>1. Init => CalmInv
  BY InitInv, InitServe DEF CalmInv
<1> QED BY <1>1, CalmStep, StepService, PTL DEF Spec, ImplementsService

=============================================================================
