----------------------------- MODULE SmuService -----------------------------
(***************************************************************************)
(* What the functions of zenmaster/smu.py promise to those who call them:  *)
(* a call takes effect at one instant between its invocation and its       *)
(* return.  A command is executed once, with the arguments given, and      *)
(* answered by the SMU; registers read as they were last written.          *)
(***************************************************************************)
EXTENDS SmuWords, Sequences

CONSTANTS
    MaxCalls    \* bound: calls made by one thread

VARIABLES
    phase,      \* "idle", "called" or "served", per thread
    req,        \* the call each thread is making
    calls,      \* how many calls each thread has made
    reply,      \* what the call will return
    mem,        \* the registers outside the mailboxes
    executed    \* what the SMU has executed

vars == <<phase, req, calls, reply, mem, executed>>

MyJob(t) == [thread |-> t, n |-> calls[t]]

Init == /\ phase = [t \in Thread |-> "idle"]
        /\ req = [t \in Thread |-> NoRequest]
        /\ calls = [t \in Thread |-> 0]
        /\ reply = [t \in Thread |-> <<>>]
        /\ mem = [w \in Word |-> Zero]
        /\ executed = {}

Call(t) == /\ phase[t] = "idle"
           /\ calls[t] < MaxCalls
           /\ phase' = [phase EXCEPT ![t] = "called"]
           /\ \E q \in Request : req' = [req EXCEPT ![t] = q]
           /\ calls' = [calls EXCEPT ![t] = @ + 1]
           /\ UNCHANGED <<reply, mem, executed>>

Reply(t, words) == /\ phase[t] = "called"
                   /\ phase' = [phase EXCEPT ![t] = "served"]
                   /\ reply' = [reply EXCEPT ![t] = words]
                   /\ UNCHANGED <<req, calls>>

Execute(t) == /\ req[t].kind \in Commands
              /\ Reply(t, CommandAnswer(req[t].kind, MyJob(t)))
              /\ executed' = executed \cup
                    {[cmd |-> OpOf(MyJob(t)), args |-> ArgumentsOf(MyJob(t))]}
              /\ UNCHANGED mem

Read(t) == /\ req[t].kind = "read"
           /\ Reply(t, <<mem[req[t].word]>>)
           /\ UNCHANGED <<mem, executed>>

Write(t) == /\ req[t].kind = "write"
            /\ Reply(t, <<>>)
            /\ mem' = [mem EXCEPT ![req[t].word] = DataOf(MyJob(t))]
            /\ UNCHANGED executed

Probe(t) == /\ req[t].kind = "probe"
            /\ Reply(t, <<Probed>>)
            /\ UNCHANGED <<mem, executed>>

Return(t) == /\ phase[t] = "served"
             /\ phase' = [phase EXCEPT ![t] = "idle"]
             /\ req' = [req EXCEPT ![t] = NoRequest]
             /\ reply' = [reply EXCEPT ![t] = <<>>]
             /\ UNCHANGED <<calls, mem, executed>>

Next == \E t \in Thread : \/ Call(t)
                          \/ Execute(t) \/ Read(t) \/ Write(t) \/ Probe(t)
                          \/ Return(t)

Spec == Init /\ [][Next]_vars

=============================================================================
