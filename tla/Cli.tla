-------------------------------- MODULE Cli ---------------------------------
(***************************************************************************)
(* zenmaster/cli.py, main(): from the command line to an exit code.  The   *)
(* order of the checks is the code's: words first, then the privileges,    *)
(* then the backend, the reads, and the tuning loop around apply().        *)
(*                                                                         *)
(* The command line is one of the lines of CommandLine: its flags, and the *)
(* words argparse leaves, in which a shell's quotes may hide spaces and    *)
(* further quotes.  A word is [tokens, broken]: the tokens shlex.split     *)
(* finds in it, and whether a quote is left open.                          *)
(***************************************************************************)
EXTENDS Apply, FiniteSets, SequencesExt

CONSTANTS
    CommandLine,    \* records [flags, words, reapply]
    Cpu,            \* what detect() may find: families, and "other"
    MaxPass         \* bound: passes of the reapply loop

ASSUME MaxPassAssumption == MaxPass \in Nat \ {0}
QuotedWord == [tokens : Seq(Token) \ {<<>>}, broken : BOOLEAN]
ASSUME LineAssumption ==
    \A l \in CommandLine :
        /\ l.reapply \in BOOLEAN
        /\ l.words \in Seq(QuotedWord)
        /\ l.flags \subseteq
              {"help", "version", "json", "info", "table", "dump", "sensors"}

VARIABLES
    line,       \* the command line
    root,       \* the user may use the hardware
    pc,         \* where main() is
    backend,    \* smu.init() has succeeded
    end,        \* how the program ended
    pass,       \* passes of the loop begun
    before      \* the requests of the pass before this one: added

vars == <<line, root, pc, backend, end, pass, before, cpu, applyVars>>
mainVars == <<line, root, cpu>>

Reads == <<"table", "dump", "sensors">>
Has(flag) == flag \in line.flags
Rest      == line.words # <<>>

\* Exit codes: a traceback and argparse's errors aside, 0 or 1.
ExitsWithZero == end \in {"help", "version", "info", "read", "applied", "stopped"}

\* A word as the check of main() sees it: its first token, when a value
\* follows that one; otherwise a name that includes whatever comes after.
WordKnown(w) ==
    LET t == w.tokens[1]
    IN  /\ Len(w.tokens) = 1 \/ t.eq
        /\ t.name # "" => t.name \in AllKnownArgs /\ (t.eq \/ IsFlagArg(t.name))

LineTokens == [i \in DOMAIN line.words |-> line.words[i].tokens]
Tokens == FlattenSeq(LineTokens)
Broken == \E i \in DOMAIN line.words : line.words[i].broken

Exit(how) == pc' = "exit" /\ end' = how

Init ==
    /\ line \in CommandLine /\ root \in BOOLEAN /\ cpu \in Cpu
    /\ pc = "start" /\ backend = FALSE /\ end = "none" /\ pass = 0 /\ before = <<>>
    /\ ApplyInit

\* Everything before the hardware: help, version, the processor, the words.
Start ==
    /\ pc = "start"
    /\ IF Has("help") \/ (line.flags = {} /\ ~Rest /\ ~line.reapply) THEN Exit("help")
       ELSE IF Has("version") THEN Exit("version")
       ELSE IF cpu = "other" THEN Exit("unsupported")
       ELSE IF \E i \in DOMAIN line.words : ~WordKnown(line.words[i]) THEN Exit("help")
       ELSE IF line.flags \ {"json"} = {} /\ ~Rest THEN Exit("nothing")
       ELSE pc' = "info" /\ UNCHANGED end
    /\ UNCHANGED <<mainVars, backend, pass, before, applyVars>>

\* What is left to do after the reads up to number n.
MoreAfter(n) == Rest \/ \E i \in n + 1 .. 3 : Has(Reads[i])

\* --info initialises the backend when it can, and goes on when it cannot.
Info ==
    /\ pc = "info"
    /\ \/ Has("info") /\ root /\ backend' \in BOOLEAN
       \/ ~(Has("info") /\ root) /\ UNCHANGED backend
    /\ IF Has("info") /\ ~MoreAfter(0) THEN Exit("info")
       ELSE pc' = "backend" /\ UNCHANGED end
    /\ UNCHANGED <<mainVars, pass, before, applyVars>>

Backend ==
    /\ pc = "backend"
    /\ \/ backend /\ pc' = "table" /\ UNCHANGED <<backend, end>>
       \/ ~backend /\ ~root /\ Exit("not root") /\ UNCHANGED backend
       \/ ~backend /\ root /\ backend' = TRUE /\ pc' = "table" /\ UNCHANGED end
       \/ ~backend /\ root /\ Exit("backend error") /\ UNCHANGED backend
    /\ UNCHANGED <<mainVars, pass, before, applyVars>>

\* _show_table, _dump_pm_table, _show_sensors: one read of the PM table,
\* which may fail or raise.
Read(n) ==
    /\ pc = Reads[n]
    /\ LET next == IF n = 3 THEN "loop" ELSE Reads[n + 1]
       IN  \/ ~Has(Reads[n]) /\ pc' = next /\ UNCHANGED end
           \/ Has(Reads[n]) /\ MoreAfter(n) /\ pc' = next /\ UNCHANGED end
           \/ Has(Reads[n]) /\ ~MoreAfter(n) /\ Exit("read")
           \/ Has(Reads[n]) /\ \E how \in {"no table", "traceback"} : Exit(how)
    /\ UNCHANGED <<mainVars, backend, pass, before, applyVars>>

\* One turn of the loop: the words are joined and split again.
BeginPass ==
    /\ pc = "loop" /\ pass < MaxPass
    /\ pc' = "apply" /\ pass' = pass + 1
    /\ before' = sent
    /\ Begin(Tokens, Broken)
    /\ UNCHANGED <<mainVars, backend, end>>

Apply ==
    /\ pc = "apply" /\ ApplyNext
    /\ UNCHANGED <<mainVars, pc, backend, end, pass, before>>

\* The results are printed; without --reapply they decide the exit code.
Report ==
    /\ pc = "apply" /\ apc = "done"
    /\ IF line.reapply THEN pc' = "loop" /\ UNCHANGED end
       ELSE Exit(IF rejected THEN "rejected" ELSE "applied")
    /\ UNCHANGED <<mainVars, backend, pass, before, applyVars>>

\* Only KeyboardInterrupt is caught around the loop.
Traceback ==
    /\ pc = "apply" /\ apc = "raised"
    /\ Exit("traceback")
    /\ UNCHANGED <<mainVars, backend, pass, before, applyVars>>

Interrupt ==
    /\ pc \in {"apply", "loop"}
    /\ Exit("stopped")
    /\ UNCHANGED <<mainVars, backend, pass, before, applyVars>>

Next ==
    \/ Start \/ Info \/ Backend
    \/ \E n \in 1 .. 3 : Read(n)
    \/ BeginPass \/ Apply \/ Report \/ Traceback \/ Interrupt

Spec == Init /\ [][Next]_vars

-----------------------------------------------------------------------------

\* Every variable keeps its shape; the program ends one way, at its end.
TypeOK ==
    /\ pc \in {"start", "info", "backend", "table", "dump", "sensors", "loop", "apply", "exit"}
    /\ (pc = "exit") = (end # "none")
    /\ apc \in {"idle", "next", "send", "done", "raised"}
    /\ word \in Word
    /\ tok \in 0 .. Len(tokens)
    /\ (apc = "send") => msgs # <<>>
    /\ backend \in BOOLEAN /\ anyOk \in BOOLEAN /\ rejected \in BOOLEAN

\* The requests an argument stands for: one to each mailbox that takes it, none
\* when it is refused before anything is sent.
Asked(n) ==
    LET t  == Tokens[n]
        ms == IF t.name = "" \/ Refused(cpu, t) THEN <<>> ELSE Lookup(cpu, Canonical(t.name))
    IN  [i \in DOMAIN ms |-> <<n, Mailbox(ms[i]), ms[i].op>>]

\* When apply() returns, every mailbox of every argument has been asked once, in
\* the order of the line: neither an argument refused before, nor a mailbox
\* that refused, has kept another from being asked (apply.py:126-232).
EveryMailboxAsked ==
    apc = "done" /\ ~Broken =>
        [i \in DOMAIN sent |-> <<sent[i].tok, sent[i].box, sent[i].op>>]
            = FlattenSeq([n \in DOMAIN Tokens |-> Asked(n)])

\* When main() exits with the success of a tuning run, the SMU has accepted a
\* message for every argument of the line, hidden in a quoted word or not;
\* one of the two mailboxes of an argument is enough (cli.py:683, apply.py:229).
AppliedMeansAll ==
    end = "applied" => \A n \in DOMAIN Tokens : Tokens[n].name # "" => Applied(n)

\* What apply() returns speaks of every argument, in the order of the line:
\* the result list skips none, whatever was refused before it (apply.py:131).
EveryTokenReported ==
    apc = "done" /\ ~Broken =>
        /\ \A n \in DOMAIN Tokens :
               Tokens[n].name # "" => \E i \in DOMAIN results : results[i].tok = n
        /\ \A i, j \in DOMAIN results : i < j => results[i].tok <= results[j].tok

\* Each pass of the reapply loop sends what the pass before it sent, in the
\* same order, though the SMU refuses other messages each time (cli.py:677).
PassesRepeat ==
    pass > 1 => \A i \in DOMAIN sent : i \in DOMAIN before /\ sent[i] = before[i]

\* What the fields of a packed word have room for, val being core:v, ccd:core:v
\* or ccd:ccx:core:v.  The code cuts off whatever lies beyond, as its masks say.
CoreFits(val, cores) ==
    LET core == val[Len(val) - 1] IN
    /\ Len(val) <= 4
    /\ 0 <= core /\ core < cores
    /\ Len(val) > 2 => 0 <= val[1] /\ val[1] < 16
    /\ Len(val) > 3 => 0 <= val[2] /\ val[2] < 16

\* A core:v and a ccd:core:v count the cores of the CCD, a ccd:ccx:core:v those
\* of the CCX.  HSMP has four bits for the core.
CoresOf(val) == IF Len(val) = 4 THEN 8 ELSE 128
CcdOf(val)   == IF Len(val) = 2 THEN 0 ELSE val[1]

\* The core a packed word names is the one of the value.
CoreRead(val, w) ==
    /\ Nibble7(w) = CcdOf(val)
    /\ val[Len(val) - 1] = IF Len(val) = 4 THEN Nibble5(w) ELSE 8 * Nibble6(w) + Nibble5(w)
HsmpCoreRead(val, w) ==
    (w[1] \div 2) % 16 = val[Len(val) - 1] /\ w[1] \div 32 = CcdOf(val)

Number(w) == w[1] * 65536 + w[2]

\* The word of an argument, read as the SMU reads it, says what the user asked
\* for, if the value fits: a core's offset (whether the CCX given is the one in
\* the word is CcxReachesWord below), a core's clock, an offset for all cores,
\* a number that may be given in finer units, and a number times n.
MeansCoper(val, w) ==
    LET v == val[Len(val)]
    IN  IF IsHsmp(cpu)
        THEN -32768 <= v /\ v < 32768 /\ CoreFits(val, 16) =>
                 HsmpCoreRead(val, w) /\ Signed(w[2], 65536) = v
        ELSE -524288 <= v /\ v < 524288 /\ CoreFits(val, CoresOf(val)) =>
                 CoreRead(val, w) /\ Signed(Low20(w), 1048576) = v
MeansClock(val, w) ==
    LET v == val[Len(val)]
    IN  0 <= v /\ CoreFits(val, CoresOf(val)) =>
            /\ CoreRead(val, w)
            /\ Len(val) = 4 => Nibble6(w) = val[2]
            /\ Low20(w) = IF v < 8000 THEN v ELSE 8000
MeansOffset(v, w) ==
    IF IsHsmp(cpu) THEN -32768 <= v /\ v < 32768 => Signed(Number(w), 65536) = v
    ELSE -524288 <= v /\ v < 524288 => Signed(Number(w), 1048576) = v
MeansScaled(v, w, below, units) ==
    0 <= v /\ v < below * units => Number(w) < below /\ Number(w) \in {v, v \div units}
MeansTimes(v, w, n) ==
    0 <= v /\ (n * v) \div 65536 < 65536 => Number(w) = n * v

Means(name, val, w) ==
    LET v == val[Len(val)]
    IN  IF name = "set-coper" /\ Len(val) > 1 THEN MeansCoper(val, w)
        ELSE IF name = "oc-clk-per-core" /\ Len(val) > 1 THEN MeansClock(val, w)
        ELSE IF \/ name \in {"set-coall", "set-cogfx"}
                \/ name = "set-coper" /\ (IsHsmp(cpu) \/ v < 0)
        THEN MeansOffset(v, w)
        ELSE IF name = "tctl-temp" THEN MeansScaled(v, w, 1000, 1000)
        ELSE IF name = "pbo-scalar" /\ IsHsmp(cpu) THEN MeansScaled(v, w, 100, 10)
        ELSE MeansTimes(v, w, IF name \in SkinArg THEN 256 ELSE 1)

\* Every request carries the value its argument was given, in the fields and the
\* scale in which the SMU reads it, and no request carries the value of another
\* argument; flags and queries carry 0 (apply.py:27-101, 137-196).
SentMeansAsked ==
    \A i \in DOMAIN sent :
        LET t == Tokens[sent[i].tok]
        IN  IF IsFlagArg(Canonical(t.name)) THEN sent[i].word = <<0, 0>>
            ELSE Means(Canonical(t.name), t.val, sent[i].word)

\* "packing the CCD/CCX/core bitfields directly into SMU Arg0": the ccx of
\* ccd:ccx:core:val is the one in the word (apply.py:59).
CcxReachesWord ==
    \A i \in DOMAIN sent :
        LET t == Tokens[sent[i].tok]
        IN  t.name = "set-coper" /\ Len(t.val) = 4 /\ ~IsHsmp(cpu)
                => Nibble6(sent[i].word) = t.val[2]
=============================================================================
