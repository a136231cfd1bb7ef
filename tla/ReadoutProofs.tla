---------------------------- MODULE ReadoutProofs ----------------------------
(***************************************************************************)
(* For any programs and machines, and any number of calls of close(): what *)
(* the calls of Readout return and raise.                                  *)
(***************************************************************************)
EXTENDS Readout, FiniteSetTheorems, SequenceTheorems, WellFoundedInduction, TLAPS

-----------------------------------------------------------------------------
(* The calls of a program.                                                 *)

Calls(p) == {p[i] : i \in DOMAIN p}

\* What can be left of a program.
Rests == Programs \cup {<<"bios", "version", "ccd">>, <<"version", "ccd">>, <<>>}

\* The calls that reach the backend, and where the thread is in one.
Reaching == LibraryCall \ {"resolve", "start", "decode"}
Inside   == {"ensure", "access", "file"}

LEMMA OneCall ==
    ASSUME NEW c
    PROVE  /\ <<c>> # <<>>
           /\ Head(<<c>>) = c
           /\ Tail(<<c>>) = <<>>
           /\ Calls(<<c>>) = {c}
  BY DEF Calls

LEMMA NoCall == Calls(<<>>) = {}
  BY DEF Calls

LEMMA Longer ==
    /\ Head(Info) = "start" /\ Tail(Info) = <<"bios", "version", "ccd">>
    /\ Calls(Info) = {"start", "bios", "version", "ccd"}
    /\ Head(<<"bios", "version", "ccd">>) = "bios"
    /\ Tail(<<"bios", "version", "ccd">>) = <<"version", "ccd">>
    /\ Calls(<<"bios", "version", "ccd">>) = {"bios", "version", "ccd"}
    /\ Head(<<"version", "ccd">>) = "version" /\ Tail(<<"version", "ccd">>) = <<"ccd">>
    /\ Calls(<<"version", "ccd">>) = {"version", "ccd"}
    /\ Head(Sensors) = "table" /\ Tail(Sensors) = <<"cores">>
    /\ Calls(Sensors) = {"table", "cores"}
  BY DEF Calls, Info, Sensors

\* A program makes no call twice, start only as its first, and send alone.
LEMMA RestFacts ==
    ASSUME NEW p \in Rests, p # <<>>
    PROVE  /\ Head(p) \in LibraryCall
           /\ Tail(p) \in Rests
           /\ Calls(p) = {Head(p)} \cup Calls(Tail(p))
           /\ Head(p) \notin Calls(Tail(p))
           /\ "start" \notin Calls(Tail(p))
           /\ Head(p) = "send" => p = <<"send">>
           /\ Head(p) # "send" => "send" \notin Calls(p)
<1>1. CASE p = Info
    BY <1>1, Longer DEF Rests, LibraryCall
<1>2. CASE p = Sensors
    <2>1. "cores" \in LibraryCall  BY DEF LibraryCall
    <2>2. <<"cores">> \in Rests  BY <2>1, Zenon DEF Rests, Programs
    <2>3. Calls(<<"cores">>) = {"cores"}  BY OneCall, Zenon
    <2> QED  BY <1>2, <2>2, <2>3, Longer DEF LibraryCall
<1>3. CASE p = <<"bios", "version", "ccd">>
    BY <1>3, Longer DEF Rests, LibraryCall
<1>4. CASE p = <<"version", "ccd">>
    <2>1. "ccd" \in LibraryCall  BY DEF LibraryCall
    <2>2. <<"ccd">> \in Rests  BY <2>1, Zenon DEF Rests, Programs
    <2>3. Calls(<<"ccd">>) = {"ccd"}  BY OneCall, Zenon
    <2> QED  BY <1>4, <2>2, <2>3, Longer DEF LibraryCall
<1>5. ASSUME NEW c \in LibraryCall, p = <<c>> PROVE p # <<>> /\ Head(p) = c /\ Tail(p) = <<>> /\ Calls(p) = {c} /\ Calls(Tail(p)) = {}
    BY <1>5, OneCall, NoCall
<1>6. CASE \E c \in LibraryCall : p = <<c>>
    BY <1>5, <1>6 DEF Rests
<1> QED  BY <1>1, <1>2, <1>3, <1>4, <1>6 DEF Rests, Programs

\* A function with one more value, or with one changed.
LEMMA WithFacts ==
    ASSUME NEW f, NEW c, NEW v
    PROVE  /\ DOMAIN With(f, c, v) = {c} \cup DOMAIN f
           /\ With(f, c, v)[c] = v
           /\ \A d \in DOMAIN f : d # c => With(f, c, v)[d] = f[d]
  BY DEF With

LEMMA Changed ==
    ASSUME NEW f, NEW c, NEW v
    PROVE  LET g == [f EXCEPT ![c] = v]
           IN  /\ DOMAIN g = DOMAIN f
               /\ c \in DOMAIN f => g[c] = v
               /\ \A d \in DOMAIN f : d # c => g[d] = f[d]
  OBVIOUS

-----------------------------------------------------------------------------
(* The processor.                                                          *)

\* Numbers have a least one.
LEMMA Least ==
    ASSUME NEW S, S \subseteq Nat, S # {}
    PROVE  \E n \in S : \A i \in S : ~(i < n)
<1>1. PICK n \in S : \A i \in S : <<i, n>> \notin OpToRel(<, Nat)
    BY NatLessThanWellFounded, WFMin, Zenon
<1>2. n \in S  BY <1>1
<1>3. \A i \in S : ~(i < n)  BY <1>1 DEF OpToRel
<1> QED  BY <1>2, <1>3, Zenon

\* The code names of _FAMILY_SOCKET, written out.
LEMMA SocketsAre ==
    Supported = SocketFamilies.AM4_V1 \cup SocketFamilies.FT5_FP5_AM4
                \cup SocketFamilies.AM4_V2 \cup SocketFamilies.FP6_AM4
                \cup SocketFamilies.FF3 \cup SocketFamilies.FT6_FP7_FP8
                \cup SocketFamilies.AM5_V1 \cup SocketFamilies.AM5_MOBILE
                \cup SocketFamilies.AM5_FIRERANGE \cup SocketFamilies.FP10_AM5
<1>1. DOMAIN SocketFamilies =
        {"AM4_V1", "FT5_FP5_AM4", "AM4_V2", "FP6_AM4", "FF3", "FT6_FP7_FP8", "AM5_V1",
         "AM5_MOBILE", "AM5_FIRERANGE", "FP10_AM5"}
    BY DEF SocketFamilies
<1> QED  BY <1>1, Zenon DEF Supported

\* PM_TABLE_CMDS knows the same code names.
LEMMA TableKnown == \A code : HasTable(code) <=> code \in Supported
  BY SocketsAre DEF HasTable, VersionMessage, SocketFamilies

\* The desktop names are among them; the names of what is not known are not.
LEMMA NamesKnown ==
    /\ DesktopFamilies \subseteq Supported
    /\ "Intel" \notin Supported /\ "Unknown" \notin Supported
  BY SocketsAre DEF DesktopFamilies, SocketFamilies

\* Every case of the dispatch gives one of them.
LEMMA CasesKnown1 == \A i \in DOMAIN Zen1And2 : Zen1And2[i].code \in Supported
  BY SocketsAre DEF Zen1And2, In, At, SocketFamilies
LEMMA CasesKnown2 == \A i \in DOMAIN Zen3And4 : Zen3And4[i].code \in Supported
  BY SocketsAre DEF Zen3And4, In, At, SocketFamilies
LEMMA CasesKnown3 == \A i \in DOMAIN Zen5And6 : Zen5And6[i].code \in Supported
  BY SocketsAre DEF Zen5And6, In, At, SocketFamilies

\* So the first case that fits does, and its family has an architecture.
LEMMA CodeKnown ==
    ASSUME NEW cpu, cpu.family \in Nat
    PROVE  \/ Codename(cpu) \in Supported /\ cpu.family \in Architectures
           \/ Codename(cpu) \in {"Intel", "Unknown"}
<1> DEFINE cases == IF cpu.family - 22 \in DOMAIN Cases THEN Cases[cpu.family - 22] ELSE <<>>
           hits  == {i \in DOMAIN cases : /\ cases[i].lo <= cpu.model /\ cpu.model <= cases[i].hi
                                          /\ cases[i].mark \in cpu.marks \cup {Unmarked}}
           first == CHOOSE i \in hits : \A j \in hits : i <= j
<1>1. Codename(cpu) = IF "Intel" \in cpu.marks THEN "Intel"
                      ELSE IF hits = {} THEN "Unknown" ELSE cases[first].code
    BY Zenon DEF Codename
<1>2. CASE hits = {}  BY <1>1, <1>2, Zenon
<1>3. ASSUME hits # {} PROVE cases[first].code \in Supported /\ cpu.family \in Architectures
    <2>1. DOMAIN Cases = 1 .. 4  BY DEF Cases
    <2>2. cpu.family - 22 \in 1 .. 4 /\ cases = Cases[cpu.family - 22]
        BY <1>3, <2>1
    <2>3. \/ cases = Zen1And2 \/ cases = <<In(0, 255, Unmarked, "Dhyana")>>
          \/ cases = Zen3And4 \/ cases = Zen5And6
        BY <2>2 DEF Cases
    <2>4. /\ DOMAIN Zen1And2 \subseteq Nat /\ DOMAIN Zen3And4 \subseteq Nat
          /\ DOMAIN Zen5And6 \subseteq Nat
        BY DEF Zen1And2, Zen3And4, Zen5And6
    <2>5. DOMAIN cases \subseteq Nat  BY <2>3, <2>4
    <2> HIDE DEF cases
    <2>6. hits \subseteq Nat  BY <2>5
    <2>7. hits \subseteq DOMAIN cases  OBVIOUS
    <2> HIDE DEF hits
    <2>8. PICK n \in hits : \A i \in hits : ~(i < n)  BY <1>3, <2>6, Least, Zenon
    <2>9. n \in hits /\ \A i \in hits : n <= i  BY <2>6, <2>8
    <2>10. first \in hits  BY <2>9, Zenon
    <2> HIDE DEF first
    <2>11. first \in DOMAIN cases  BY <2>7, <2>10
    <2>12. cases[first].code \in Supported
        <3>1. CASE cases = <<In(0, 255, Unmarked, "Dhyana")>>
            <4>1. first = 1  BY <2>11, <3>1
            <4>2. cases[first].code = "Dhyana"  BY <3>1, <4>1 DEF In
            <4> QED  BY <4>2, SocketsAre DEF SocketFamilies
        <3> QED  BY <2>3, <2>11, <3>1, CasesKnown1, CasesKnown2, CasesKnown3, Zenon
    <2> QED  BY <2>2, <2>12 DEF Architectures
<1> HIDE DEF hits, cases, first
<1> QED  BY <1>1, <1>2, <1>3, Zenon

\* The type of a processor agrees with both tables.
LEMMA CpuServed ==
    ASSUME NEW cpu, cpu.family \in Nat
    PROVE  /\ CpuType(cpu) \in {"Amd_Apu", "Amd_Desktop_Cpu"} <=> Codename(cpu) \in Supported
           /\ CpuType(cpu) \in {"Amd_Apu", "Amd_Desktop_Cpu"} <=> HasTable(Codename(cpu))
  BY CodeKnown, NamesKnown, TableKnown DEF CpuType

-----------------------------------------------------------------------------
(* Where the thread is, and what it has not come to yet.                   *)

Place ==
    /\ job \in Jobs
    /\ program \in Rests
    /\ pc \in Inside \cup {"next", "done"}
    /\ raised \in Exception \cup {"none"}
    /\ raised # "none" => pc = "done"
    /\ pc \in Inside => Making(Reaching)
    /\ pc = "next" => k = 1 /\ words = <<>>

Ahead ==
    /\ pc # "done" => Calls(program) \cap DOMAIN shown = {}
    /\ pc = "next" => Calls(program) \cap DOMAIN outcomes = {}
    /\ pc \in Inside => /\ Head(program) \in DOMAIN outcomes
                        /\ Calls(Tail(program)) \cap DOMAIN outcomes = {}
    /\ "start" \in Calls(program) => DOMAIN outcomes = {}
    /\ "send" \in DOMAIN outcomes => program \in {<<"send">>, <<>>}

\* A call returns; the program ends; a call goes on; another thread's step.
LEMMA Leaves ==
    ASSUME Place, Ahead, program # <<>>, pc # "done", NEW v, Return(v),
           job' = job, DOMAIN outcomes' = DOMAIN outcomes
    PROVE  Place' /\ Ahead'
<1>1. /\ Tail(program) \in Rests
      /\ Calls(program) = {Head(program)} \cup Calls(Tail(program))
      /\ Head(program) \notin Calls(Tail(program))
      /\ "start" \notin Calls(Tail(program))
    BY RestFacts DEF Place
<1>2. /\ program' = Tail(program) /\ pc' = "next" /\ k' = 1 /\ words' = <<>>
      /\ raised' = raised
      /\ DOMAIN shown' = {Head(program)} \cup DOMAIN shown
    BY WithFacts, Zenon DEF Return
<1>3. Calls(Tail(program)) \cap DOMAIN outcomes = {}
    BY <1>1 DEF Place, Ahead, Inside
<1>4. "send" \in DOMAIN outcomes => Tail(program) = <<>>
    BY OneCall, Zenon DEF Ahead
<1>5. Place'  BY <1>1, <1>2, Zenon DEF Place, Inside
<1>6. Calls(program') = Calls(Tail(program))  BY <1>2
<1>7. Ahead'  BY <1>1, <1>2, <1>3, <1>4, <1>6 DEF Ahead, Inside
<1> QED  BY <1>5, <1>7

LEMMA Stops ==
    ASSUME Place, Ahead, pc' = "done", job' = job, program' = program,
           raised' \in Exception \cup {"none"}, DOMAIN outcomes' = DOMAIN outcomes
    PROVE  Place' /\ Ahead'
<1>1. Calls(program') = Calls(program)  OBVIOUS
<1> QED  BY <1>1 DEF Place, Ahead, Inside

LEMMA GoesOn ==
    ASSUME Place, Ahead, pc \in Inside, NEW place \in Inside, NEW n, GoOn(place, n),
           job' = job, DOMAIN outcomes' = DOMAIN outcomes
    PROVE  Place' /\ Ahead'
<1>1. pc' = place /\ program' = program /\ shown' = shown /\ raised' = raised  BY DEF GoOn
<1>2. Calls(program') = Calls(program) /\ Calls(Tail(program')) = Calls(Tail(program))  BY <1>1
<1>3. Making(Reaching)' <=> Making(Reaching)  BY <1>1 DEF Making, Reaching, LibraryCall
<1> QED  BY <1>1, <1>2, <1>3 DEF Place, Ahead, Inside

LEMMA Idles ==
    ASSUME Place, Ahead, UNCHANGED <<job, program, pc, k, words, shown, raised, outcomes>>
    PROVE  Place' /\ Ahead'
<1>1. Calls(program') = Calls(program) /\ Calls(Tail(program')) = Calls(Tail(program))  OBVIOUS
<1>2. Making(Reaching)' <=> Making(Reaching)  BY DEF Making, Reaching, LibraryCall
<1> QED  BY <1>1, <1>2 DEF Place, Ahead

\* What an access leaves as it was.
LEMMA AccessFacts ==
    ASSUME NEW calls, NEW o, Access(calls, o)
    PROVE  /\ pc = "access" /\ program # <<>> /\ Head(program) \in calls
           /\ o \in Outcome
           /\ o = "SMUNotInitialized" => ~up
           /\ o = "ArgumentError" => job.wide /\ Making({"read_smn", "write_smn", "send"})
           /\ ~up => o \in {"SMUNotInitialized", "served", "refused"}
           /\ ~up /\ ~Making({"table", "cores"}) => o = "SMUNotInitialized"
           /\ job' = job /\ up' = up /\ denied' = denied /\ overtaken' = overtaken
           /\ outcomes' = [outcomes EXCEPT ![Head(program)] = Append(outcomes[Head(program)], o)]
           /\ DOMAIN outcomes' = DOMAIN outcomes
<1>1. /\ pc = "access" /\ program # <<>> /\ Head(program) \in calls
      /\ job' = job /\ up' = up /\ denied' = denied /\ overtaken' = overtaken
      /\ outcomes' = [outcomes EXCEPT ![Head(program)] = Append(outcomes[Head(program)], o)]
    BY Zenon DEF Access, Making, history
<1>2. /\ up => o \in {"served", "refused", "OSError"} \cup
                      (IF job.wide /\ Making({"read_smn", "write_smn", "send"})
                       THEN {"ArgumentError"} ELSE {})
      /\ ~up => o \in {"SMUNotInitialized"} \cup
                       (IF Making({"table", "cores"}) THEN {"served", "refused"} ELSE {})
    BY Zenon DEF Access
<1>3. DOMAIN outcomes' = DOMAIN outcomes  BY <1>1, Changed
<1> QED  BY <1>1, <1>2, <1>3 DEF Outcome

\* A file is read.
LEMMA FileFacts ==
    ASSUME VersionFile
    PROVE  /\ pc = "file" /\ job' = job /\ DOMAIN outcomes' = DOMAIN outcomes
           /\ \E s : outcomes' = [outcomes EXCEPT ![Head(program)] = s]
           /\ \/ \E v : Return(v)
              \/ \E n : GoOn("file", n)
<1>1. PICK o \in {"served", "refused"} :
        /\ outcomes' = [outcomes EXCEPT ![Head(program)] = Append(outcomes[Head(program)], o)]
        /\ \/ \E v : Return(v)
           \/ \E n : GoOn("file", n)
    BY Zenon DEF VersionFile, File
<1>2. DOMAIN outcomes' = DOMAIN outcomes  BY <1>1, Changed
<1> QED  BY <1>1, <1>2, Zenon DEF VersionFile, File

\* One case per action.
LEMMA PlaceKept ==
    ASSUME Place, Ahead, [Next]_vars
    PROVE  Place' /\ Ahead'
<1> USE DEF Inside
<1>1. CASE Compute
    <2>1. pc = "next" /\ program # <<>> /\ job' = job /\ outcomes' = outcomes
        BY <1>1 DEF Compute, Making
    <2>2. \E v : Return(v)  BY <1>1, Zenon DEF Compute
    <2> QED  BY <2>1, <2>2, Leaves, Zenon
<1>2. CASE Start
    <2>1. pc = "next" /\ program # <<>> /\ job' = job /\ outcomes' = outcomes
        BY <1>2 DEF Start, Making
    <2>2. \/ Return(TRUE)
          \/ pc' = "done" /\ program' = program /\ raised' = raised
          \/ Raise("OSError")
        BY <1>2, Zenon DEF Start
    <2>3. CASE Return(TRUE)  BY <2>1, <2>3, Leaves, Zenon
    <2>4. CASE pc' = "done" /\ program' = program /\ raised' = raised
        BY <2>1, <2>4, Stops, Zenon DEF Place
    <2>5. CASE Raise("OSError")
        BY <2>1, <2>5, Stops, Zenon DEF Raise, Exception
    <2> QED  BY <2>2, <2>3, <2>4, <2>5
<1>3. CASE Begin
    <2>1. /\ pc = "next" /\ program # <<>> /\ job' = job
          /\ Head(program) \in LibraryCall \ {"resolve", "start", "decode"}
        BY <1>3 DEF Begin, Making
    <2>2. CASE Raise("UnsupportedCPU") /\ outcomes' = outcomes
        BY <2>1, <2>2, Stops, Zenon DEF Raise, Exception
    <2>3. CASE GoOn("ensure", 1) /\ outcomes' = With(outcomes, Head(program), <<>>)
        <3>1. /\ pc' = "ensure" /\ program' = program /\ shown' = shown /\ raised' = raised
            BY <2>3 DEF GoOn
        <3>2. DOMAIN outcomes' = {Head(program)} \cup DOMAIN outcomes
            BY <2>3, WithFacts, Zenon
        <3>3. /\ Calls(program) = {Head(program)} \cup Calls(Tail(program))
              /\ Head(program) \notin Calls(Tail(program))
              /\ "start" \notin Calls(Tail(program))
              /\ Head(program) = "send" => program = <<"send">>
            BY <2>1, RestFacts, Zenon DEF Place
        <3>4. Calls(program') = Calls(program) /\ Calls(Tail(program')) = Calls(Tail(program))
            BY <3>1
        <3>5. Making(Reaching)'  BY <2>1, <3>1 DEF Making, Reaching
        <3>6. Place'  BY <2>1, <3>1, <3>5 DEF Place
        <3>7. Ahead'  BY <2>1, <3>1, <3>2, <3>3, <3>4 DEF Place, Ahead
        <3> QED  BY <3>6, <3>7
    <2> QED  BY <1>3, <2>2, <2>3, Zenon DEF Begin
<1>4. CASE Ensure
    <2>1. /\ pc = "ensure" /\ program # <<>> /\ job' = job /\ outcomes' = outcomes
        BY <1>4 DEF Ensure, Place, Making
    <2>2. \/ \E v : Return(v)
          \/ \E place \in Inside : \E n : GoOn(place, n)
        BY <1>4, Zenon DEF Ensure
    <2>3. CASE \E v : Return(v)  BY <2>1, <2>3, Leaves, Zenon
    <2>4. CASE \E place \in Inside : \E n : GoOn(place, n)  BY <2>1, <2>4, GoesOn, Zenon
    <2> QED  BY <2>2, <2>3, <2>4
<1>5. ASSUME NEW calls, NEW o, Access(calls, o),
             \/ \E v : Return(v)
             \/ \E place \in Inside : \E n : GoOn(place, n)
             \/ Raise(o) /\ o \in Exception
             \/ pc' = "done" /\ program' = program /\ raised' = raised
      PROVE  Place' /\ Ahead'
    <2>1. pc = "access" /\ program # <<>> /\ job' = job /\ DOMAIN outcomes' = DOMAIN outcomes
        BY <1>5, AccessFacts, Zenon
    <2>2. CASE \E v : Return(v)  BY <2>1, <2>2, Leaves, Zenon
    <2>3. CASE \E place \in Inside : \E n : GoOn(place, n)  BY <2>1, <2>3, GoesOn, Zenon
    <2>4. CASE Raise(o) /\ o \in Exception  BY <2>1, <2>4, Stops, Zenon DEF Raise
    <2>5. CASE pc' = "done" /\ program' = program /\ raised' = raised
        BY <2>1, <2>5, Stops, Zenon DEF Place
    <2> QED  BY <1>5, <2>2, <2>3, <2>4, <2>5, Zenon
<1>6. CASE AccessSmn  BY <1>5, <1>6, Zenon DEF AccessSmn, Exception
<1>7. CASE QueryBios
    <2>1. PICK o \in Outcome : /\ Access({"bios"}, o)
                              /\ \/ \E v : Return(v)
                                 \/ Raise(o) /\ o # "served" /\ o # "refused"
        BY <1>7, Zenon DEF QueryBios
    <2>2. o # "served" /\ o # "refused" => o \in Exception  BY DEF Outcome, Exception
    <2>3. (\E v : Return(v)) \/ (Raise(o) /\ o \in Exception)  BY <2>1, <2>2, Zenon
    <2> QED  BY <1>5, <2>1, <2>3, Zenon
<1>8. CASE QueryVersion
    <2>1. PICK o \in Outcome : /\ Access({"version"}, o)
                              /\ \/ \E v : Return(v)
                                 \/ \E place \in Inside : \E n : GoOn(place, n)
                                 \/ Raise(o) /\ o # "served" /\ o # "refused"
        BY <1>8, Zenon DEF QueryVersion
    <2>2. o # "served" /\ o # "refused" => o \in Exception  BY DEF Outcome, Exception
    <2> QED  BY <1>5, <2>1, <2>2, Zenon
<1>9. CASE VersionFile
    <2>1. /\ pc = "file" /\ job' = job /\ DOMAIN outcomes' = DOMAIN outcomes
          /\ \/ \E v : Return(v)
             \/ \E n : GoOn("file", n)
        BY <1>9, FileFacts, Zenon
    <2>2. program # <<>>  BY <2>1 DEF Place, Making
    <2>3. CASE \E v : Return(v)  BY <2>1, <2>2, <2>3, Leaves, Zenon
    <2>4. CASE \E n : GoOn("file", n)  BY <2>1, <2>4, GoesOn, Zenon
    <2> QED  BY <2>1, <2>3, <2>4
<1>10. CASE SendArg  BY <1>5, <1>10, Zenon DEF SendArg, Exception
<1>11. CASE ReadTable
    <2>1. PICK o \in Outcome : /\ Access({"table", "cores"}, o)
                              /\ \/ \E v : Return(v)
                                 \/ pc' = "done" /\ program' = program /\ raised' = raised
                                 \/ Raise(o) /\ o # "served" /\ o # "refused"
        BY <1>11, Zenon DEF ReadTable
    <2>2. o # "served" /\ o # "refused" => o \in Exception  BY DEF Outcome, Exception
    <2> QED  BY <1>5, <2>1, <2>2, Zenon
<1>12. CASE Finish  BY <1>12, Stops, Zenon DEF Finish, Place
<1>13. CASE OtherInit \/ OtherClose  BY <1>13, Idles, Zenon DEF OtherInit, OtherClose
<1>14. CASE Done \/ UNCHANGED vars  BY <1>14, Idles, Zenon DEF Done, vars
<1>15. CASE EnsureRaises
    <2>1. /\ pc = "ensure" /\ program # <<>> /\ job' = job /\ outcomes' = outcomes
        BY <1>15 DEF EnsureRaises, Place, Making
    <2>2. (\E v : Return(v)) \/ Raise("OSError")  BY <1>15, Zenon DEF EnsureRaises
    <2>3. CASE \E v : Return(v)  BY <2>1, <2>3, Leaves, Zenon
    <2>4. CASE Raise("OSError")  BY <2>1, <2>4, Stops, Zenon DEF Raise, Exception
    <2> QED  BY <2>2, <2>3, <2>4
<1> QED  BY <1>1, <1>2, <1>3, <1>4, <1>6, <1>7, <1>8, <1>9, <1>10, <1>11, <1>12, <1>13, <1>14,
            <1>15, Zenon DEF Next

LEMMA PlaceAtFirst == Init => Place /\ Ahead
<1> SUFFICES ASSUME Init PROVE Place /\ Ahead  OBVIOUS
<1>1. job \in Jobs /\ program \in Programs  BY JobsAssumption, Zenon DEF Init
<1>2. /\ pc = "next" /\ k = 1 /\ words = <<>> /\ raised = "none"
      /\ DOMAIN shown = {} /\ DOMAIN outcomes = {}
    BY DEF Init
<1> QED  BY <1>1, <1>2 DEF Place, Ahead, Rests, Inside

\* In every reachable state the thread is at a place of the call it makes, and
\* no call ahead of it has shown anything (the programs of cli.py, smu.py).
THEOREM Whereabouts == Spec => [](Place /\ Ahead)
<1> QED  BY PlaceAtFirst, PlaceKept, PTL DEF Spec

-----------------------------------------------------------------------------
(* A step is of one call, and leaves what the others have made.            *)

\* What becomes of the program, of what is shown, and of the outcomes.
LEMMA StepIs ==
    ASSUME Place, Ahead, [Next]_vars
    PROVE  /\ job' = job
           /\ \/ shown' = shown /\ program' = program
              \/ program # <<>> /\ \E v : Return(v)
              \/ pc' = "done" /\ DOMAIN shown' = {"ccd"} /\ DOMAIN outcomes' = {}
           /\ \/ outcomes' = outcomes
              \/ program # <<>> /\ outcomes' = With(outcomes, Head(program), <<>>)
              \/ program # <<>> /\ \E s : outcomes' = [outcomes EXCEPT ![Head(program)] = s]
<1>1. CASE Compute  BY <1>1, Zenon DEF Compute, Making
<1>2. CASE Start
    <2>1. /\ pc = "next" /\ program # <<>> /\ job' = job /\ outcomes' = outcomes
          /\ Head(program) = "start"
        BY <1>2 DEF Start, Making
    <2>2. \/ Return(TRUE)
          \/ pc' = "done" /\ \E v : shown' = [ccd |-> v]
          \/ shown' = shown /\ program' = program
        BY <1>2, Zenon DEF Start, Raise
    <2>3. "start" \in Calls(program)  BY <2>1, RestFacts DEF Place
    <2>4. DOMAIN outcomes' = {}  BY <2>1, <2>3, Zenon DEF Ahead
    <2>5. ASSUME NEW v, shown' = [ccd |-> v] PROVE DOMAIN shown' = {"ccd"}  BY <2>5
    <2> QED  BY <2>1, <2>2, <2>4, <2>5, Zenon
<1>3. CASE Begin  BY <1>3, Zenon DEF Begin, Raise, GoOn, Making
<1>4. CASE Ensure
    <2>1. pc = "ensure" /\ program # <<>> /\ job' = job /\ outcomes' = outcomes
        BY <1>4 DEF Ensure, Place, Making, Inside
    <2>2. \/ \E v : Return(v)
          \/ shown' = shown /\ program' = program
        BY <1>4, Zenon DEF Ensure, GoOn
    <2> QED  BY <2>1, <2>2, Zenon
<1>5. ASSUME NEW calls, NEW o, Access(calls, o)
      PROVE  /\ program # <<>> /\ job' = job
             /\ \E s : outcomes' = [outcomes EXCEPT ![Head(program)] = s]
    BY <1>5, AccessFacts, Zenon
<1>6. CASE AccessSmn  BY <1>5, <1>6, Zenon DEF AccessSmn, GoOn, Raise
<1>7. CASE QueryBios  BY <1>5, <1>7, Zenon DEF QueryBios, Raise
<1>8. CASE QueryVersion  BY <1>5, <1>8, Zenon DEF QueryVersion, GoOn, Raise
<1>9. CASE VersionFile
    <2>1. pc = "file"  BY <1>9, FileFacts
    <2>2. program # <<>>  BY <2>1 DEF Place, Making, Inside
    <2> QED  BY <1>9, <2>2, FileFacts, Zenon DEF GoOn
<1>10. CASE SendArg  BY <1>5, <1>10, Zenon DEF SendArg, GoOn, Raise
<1>11. CASE ReadTable  BY <1>5, <1>11, Zenon DEF ReadTable, Raise
<1>12. CASE Finish \/ OtherInit \/ OtherClose \/ Done \/ UNCHANGED vars
    BY <1>12, Zenon DEF Finish, OtherInit, OtherClose, Done, vars
<1>13. CASE EnsureRaises
    <2>1. pc = "ensure" /\ program # <<>> /\ job' = job /\ outcomes' = outcomes
        BY <1>13 DEF EnsureRaises, Place, Making, Inside
    <2>2. \/ \E v : Return(v)
          \/ shown' = shown /\ program' = program
        BY <1>13, Zenon DEF EnsureRaises, Raise
    <2> QED  BY <2>1, <2>2, Zenon
<1> QED  BY <1>1, <1>2, <1>3, <1>4, <1>6, <1>7, <1>8, <1>9, <1>10, <1>11, <1>12, <1>13,
            Zenon DEF Next

\* What is over stays as it is.
LEMMA DoneStays ==
    ASSUME pc = "done", [Next]_vars, Place
    PROVE  UNCHANGED vars
<1>1. ~Compute /\ ~Start /\ ~Begin /\ ~Ensure /\ ~EnsureRaises /\ ~VersionFile /\ ~Finish
    BY DEF Compute, Start, Begin, Ensure, EnsureRaises, VersionFile, File, Finish
<1>2. \A calls, o : ~Access(calls, o)  BY AccessFacts, Zenon
<1>3. ~AccessSmn /\ ~QueryBios /\ ~QueryVersion /\ ~SendArg /\ ~ReadTable
    BY <1>2, Zenon DEF AccessSmn, QueryBios, QueryVersion, SendArg, ReadTable
<1>4. ~OtherInit /\ ~OtherClose  BY DEF OtherInit, OtherClose
<1> QED  BY <1>1, <1>3, <1>4, Zenon DEF Next, Done

\* A call that is not being made is not begun by a step of another, and what
\* is known of it stays.
LEMMA OthersKept ==
    ASSUME Place, Ahead, [Next]_vars, NEW c, ~Making({c})
    PROVE  /\ \/ c \in DOMAIN shown' => c \in DOMAIN shown /\ shown'[c] = shown[c]
              \/ c = "ccd" /\ DOMAIN outcomes' = {}
           /\ c \in DOMAIN outcomes <=> c \in DOMAIN outcomes'
           /\ c \in DOMAIN outcomes => outcomes'[c] = outcomes[c]
           /\ pc' \in Inside => ~Making({c})'
<1>1. program # <<>> => Head(program) # c  BY Zenon DEF Making
<1>2. ASSUME shown' = shown, program' = program
      PROVE  /\ c \in DOMAIN shown' => c \in DOMAIN shown /\ shown'[c] = shown[c]
             /\ ~Making({c})'
    BY <1>2, Zenon DEF Making
<1>3. ASSUME program # <<>>, NEW v, Return(v)
      PROVE  /\ c \in DOMAIN shown' => c \in DOMAIN shown /\ shown'[c] = shown[c]
             /\ pc' \notin Inside
    <2>1. shown' = With(shown, Head(program), v) /\ pc' = "next"  BY <1>3, Zenon DEF Return
    <2>2. pc' \notin Inside  BY <2>1 DEF Inside
    <2>3. /\ DOMAIN shown' = {Head(program)} \cup DOMAIN shown
          /\ \A d \in DOMAIN shown : d # Head(program) => shown'[d] = shown[d]
        BY <2>1 DEF With
    <2> QED  BY <1>1, <1>3, <2>2, <2>3
<1>4. ASSUME pc' = "done", DOMAIN shown' = {"ccd"}, DOMAIN outcomes' = {}
      PROVE  /\ \/ c \in DOMAIN shown' => c \in DOMAIN shown /\ shown'[c] = shown[c]
                \/ c = "ccd" /\ DOMAIN outcomes' = {}
             /\ pc' \notin Inside
    BY <1>4 DEF Inside
<1>5. /\ c \in DOMAIN outcomes <=> c \in DOMAIN outcomes'
      /\ c \in DOMAIN outcomes => outcomes'[c] = outcomes[c]
    <2>1. CASE outcomes' = outcomes  BY <2>1, Zenon
    <2>2. CASE program # <<>> /\ outcomes' = With(outcomes, Head(program), <<>>)
        <3>1. /\ DOMAIN outcomes' = {Head(program)} \cup DOMAIN outcomes
              /\ \A d \in DOMAIN outcomes : d # Head(program) => outcomes'[d] = outcomes[d]
            BY <2>2 DEF With
        <3> QED  BY <1>1, <2>2, <3>1
    <2>3. ASSUME program # <<>>, NEW s, outcomes' = [outcomes EXCEPT ![Head(program)] = s]
          PROVE  /\ DOMAIN outcomes' = DOMAIN outcomes
                 /\ c \in DOMAIN outcomes => outcomes'[c] = outcomes[c]
        BY <1>1, <2>3, Changed
    <2> QED  BY StepIs, <2>1, <2>2, <2>3, Zenon
<1> QED  BY StepIs, <1>2, <1>3, <1>4, <1>5, Zenon

-----------------------------------------------------------------------------
(* The processor that is shown.                                            *)

ResolveInv == "resolve" \in DOMAIN shown => shown["resolve"] = Code

LEMMA ResolveKept ==
    ASSUME Place, Ahead, ResolveInv, [Next]_vars
    PROVE  ResolveInv'
<1>1. job' = job  BY StepIs, Zenon
<1>2. Code' = Code  BY <1>1 DEF Code
<1>3. CASE ~Making({"resolve"})
    <2>1. "resolve" \in DOMAIN shown'
            => "resolve" \in DOMAIN shown /\ shown'["resolve"] = shown["resolve"]
        BY <1>3, OthersKept
    <2> QED  BY <1>2, <2>1, Zenon DEF ResolveInv
<1>4. CASE Making({"resolve"})
    <2>1. program # <<>> /\ Head(program) = "resolve"  BY <1>4 DEF Making
    <2>2. CASE Compute
        <3>1. Return(Code)  BY <2>1, <2>2 DEF Compute, Making
        <3>2. shown' = With(shown, "resolve", Code)  BY <2>1, <3>1, Zenon DEF Return
        <3>3. shown'["resolve"] = Code  BY <3>2 DEF With
        <3> QED  BY <1>2, <3>3, Zenon DEF ResolveInv
    <2>3. CASE ~Compute
        <3>1. ~Start /\ ~Begin  BY <2>1 DEF Start, Begin, Making
        <3>2. pc \notin Inside  BY <2>1, Zenon DEF Place, Making, Reaching
        <3>3. ~Ensure /\ ~EnsureRaises /\ ~VersionFile
            BY <3>2 DEF Ensure, EnsureRaises, VersionFile, File, Inside
        <3>4. \A calls, o : ~Access(calls, o)  BY <3>2, AccessFacts DEF Inside
        <3>5. ~AccessSmn /\ ~QueryBios /\ ~QueryVersion /\ ~SendArg /\ ~ReadTable
            BY <3>4, Zenon DEF AccessSmn, QueryBios, QueryVersion, SendArg, ReadTable
        <3>6. shown' = shown
            BY <2>3, <3>1, <3>3, <3>5, Zenon DEF Next, Finish, OtherInit, OtherClose, Done, vars
        <3> QED  BY <1>2, <3>6, Zenon DEF ResolveInv
    <2> QED  BY <2>2, <2>3
<1> QED  BY <1>3, <1>4

(***************************************************************************)
(* main() lets a processor through exactly when both tables know its code  *)
(* name, whatever its numbers and its name (hardware.py:158-317,           *)
(* runner.py:14-61, pmtable.py:3-50).                                      *)
(***************************************************************************)
THEOREM EveryProcessorServed == Spec => []ProcessorServed
<1>1. Init => ResolveInv  BY DEF Init, ResolveInv
<1>2. Place /\ ResolveInv => ProcessorServed
    <2> SUFFICES ASSUME Place, ResolveInv, "resolve" \in DOMAIN shown
                 PROVE  LET admitted == CpuType(job.cpu) \in {"Amd_Apu", "Amd_Desktop_Cpu"}
                        IN  /\ admitted <=> shown["resolve"] \in Supported
                            /\ admitted <=> HasTable(shown["resolve"])
        BY Zenon DEF ProcessorServed
    <2>1. job.cpu.family \in Nat  BY JobsAssumption, Zenon DEF Place
    <2>2. shown["resolve"] = Codename(job.cpu)  BY Zenon DEF ResolveInv, Code
    <2> QED  BY <2>1, <2>2, CpuServed, Zenon
<1> QED  BY <1>1, <1>2, Whereabouts, ResolveKept, PTL DEF Spec

-----------------------------------------------------------------------------
(* What is raised.                                                         *)

Registers == {"read_smn", "write_smn", "ccd"}
Loud      == {"bios", "version", "table", "cores"}

\* An access finds no backend only where close() has come, or init() has
\* failed in a call that tries all the same.
Backed == pc = "access" /\ ~up => overtaken \/ (denied /\ ~Making(Registers))

\* Only get_ccd_count ensures a backend after its first access.
Untouched == pc = "ensure" => outcomes[Head(program)] = <<>> \/ (Making({"ccd"}) /\ k # 1)

RaiseInv == Backed /\ Untouched /\ RaisedForCause

\* A step that raises nothing, and an access that may.
LEMMA QuietStep ==
    ASSUME Place, pc # "done", pc' # "access", raised' = raised, Untouched'
    PROVE  RaiseInv'
<1>1. raised' = "none"  BY DEF Place
<1> QED  BY <1>1 DEF RaiseInv, Backed, RaisedForCause

\* get_ccd_count goes on to its next read.
LEMMA NextRead ==
    ASSUME Making({"ccd"}), NEW n \in {2, 3}, GoOn("ensure", n)
    PROVE  Untouched'
<1>1. program' = program /\ k' = n /\ n # 1  BY DEF GoOn
<1> QED  BY <1>1, Zenon DEF Untouched, Making

LEMMA AccessRaises ==
    ASSUME Place, RaiseInv, NEW calls, NEW o, Access(calls, o),
           \/ pc' # "access" /\ raised' = raised /\ Untouched'
           \/ pc' = "access" /\ program' = program /\ raised' = raised
           \/ pc' = "file" /\ raised' = raised
           \/ /\ Raise(o) /\ o \in {"SMUNotInitialized", "OSError", "ArgumentError"}
              /\ o = "OSError" => calls \subseteq Loud
              /\ o = "ArgumentError" => "send" \notin calls
    PROVE  RaiseInv'
<1>1. /\ pc = "access" /\ program # <<>> /\ Head(program) \in calls
      /\ o = "SMUNotInitialized" => ~up
      /\ o = "ArgumentError" => job.wide /\ Making({"read_smn", "write_smn", "send"})
      /\ up' = up /\ denied' = denied /\ overtaken' = overtaken /\ job' = job
    BY AccessFacts, Zenon
<1>2. CASE pc' # "access" /\ raised' = raised /\ Untouched'  BY <1>1, <1>2, QuietStep, Zenon
<1>3. CASE pc' = "access" /\ program' = program /\ raised' = raised
    <2>1. Making(Registers)' <=> Making(Registers)  BY <1>3 DEF Making, Registers
    <2>2. Backed'  BY <1>1, <2>1, Zenon DEF RaiseInv, Backed
    <2>3. raised' = "none"  BY <1>1, <1>3 DEF Place
    <2>4. Untouched'  BY <1>3 DEF Untouched
    <2> QED  BY <2>2, <2>3, <2>4 DEF RaiseInv, RaisedForCause
<1>4. CASE pc' = "file" /\ raised' = raised
    <2>1. Untouched'  BY <1>4 DEF Untouched
    <2> QED  BY <1>1, <1>4, <2>1, QuietStep, Zenon
<1>5. CASE /\ Raise(o) /\ o \in {"SMUNotInitialized", "OSError", "ArgumentError"}
           /\ o = "OSError" => calls \subseteq Loud
           /\ o = "ArgumentError" => "send" \notin calls
    <2>1. pc' = "done" /\ program' = program /\ raised' = o  BY <1>5, Zenon DEF Raise
    <2>2. /\ Making(Registers)' <=> Making(Registers)
          /\ Making({"start", "bios", "version", "table", "cores"})'
               <=> Making({"start", "bios", "version", "table", "cores"})
          /\ Making({"read_smn", "write_smn"})' <=> Making({"read_smn", "write_smn"})
        BY <2>1 DEF Making, Registers
    <2>3. o = "SMUNotInitialized" => overtaken \/ (denied /\ ~Making(Registers))
        BY <1>1, Zenon DEF RaiseInv, Backed
    <2>4. o = "OSError" => Making({"start", "bios", "version", "table", "cores"})
        BY <1>1, <1>5 DEF Making, Loud
    <2>5. o = "ArgumentError" => job.wide /\ Making({"read_smn", "write_smn"})
        BY <1>1, <1>5 DEF Making
    <2>6. Backed' /\ Untouched'  BY <2>1 DEF Backed, Untouched
    <2>7. RaisedForCause'
        <3>1. o = "SMUNotInitialized" => overtaken' \/ (denied' /\ ~Making(Registers)')
            BY <1>1, <2>2, <2>3, Zenon
        <3>2. o = "OSError" => Making({"start", "bios", "version", "table", "cores"})'
            BY <2>2, <2>4, Zenon
        <3>3. o = "ArgumentError" => job'.wide /\ Making({"read_smn", "write_smn"})'
            BY <1>1, <2>2, <2>5, Zenon
        <3> QED  BY <2>1, <3>1, <3>2, <3>3, Zenon DEF RaisedForCause, Registers
    <2> QED  BY <2>6, <2>7 DEF RaiseInv
<1> QED  BY <1>2, <1>3, <1>4, <1>5, Zenon

LEMMA RaiseKept ==
    ASSUME Place, Ahead, RaiseInv, [Next]_vars
    PROVE  RaiseInv'
<1>0. pc' # "ensure" => Untouched'  BY DEF Untouched
<1>1. CASE Compute
    <2>1. pc = "next" /\ pc' = "next" /\ raised' = raised
        BY <1>1, Zenon DEF Compute, Return
    <2> QED  BY <1>0, <2>1, QuietStep
<1>2. CASE Start
    <2>1. /\ pc = "next" /\ Making({"start"})
          /\ \/ pc' \in {"next", "done"} /\ raised' = raised
             \/ Raise("OSError")
        BY <1>2, Zenon DEF Start, Return
    <2>2. CASE pc' \in {"next", "done"} /\ raised' = raised
        BY <1>0, <2>1, <2>2, QuietStep
    <2>3. CASE Raise("OSError")
        <3>1. pc' = "done" /\ program' = program /\ raised' = "OSError"
            BY <2>3, Zenon DEF Raise
        <3>2. Making({"start", "bios", "version", "table", "cores"})'
            BY <2>1, <3>1 DEF Making
        <3> QED  BY <1>0, <3>1, <3>2 DEF RaiseInv, Backed, RaisedForCause
    <2> QED  BY <2>1, <2>2, <2>3
<1>3. CASE Begin
    <2>1. pc = "next"  BY <1>3 DEF Begin
    <2>2. CASE Raise("UnsupportedCPU")
        <3>1. pc' = "done" /\ raised' = "UnsupportedCPU"  BY <2>2, Zenon DEF Raise
        <3> QED  BY <1>0, <3>1 DEF RaiseInv, Backed, RaisedForCause
    <2>3. CASE GoOn("ensure", 1) /\ outcomes' = With(outcomes, Head(program), <<>>)
        <3>1. pc' = "ensure" /\ raised' = raised /\ program' = program  BY <2>3 DEF GoOn
        <3>2. outcomes'[Head(program)] = <<>>  BY <2>3 DEF With
        <3>3. Untouched'  BY <3>1, <3>2, Zenon DEF Untouched
        <3> QED  BY <2>1, <3>1, <3>3, QuietStep
    <2> QED  BY <1>3, <2>2, <2>3, Zenon DEF Begin
<1>4. CASE Ensure
    <2>1. pc = "ensure" /\ (denied' <=> (denied \/ ~up'))  BY <1>4, Zenon DEF Ensure
    <2>2. \/ \E v : Return(v)
          \/ Making({"ccd"}) /\ \E n \in {2, 3} : GoOn("ensure", n)
          \/ GoOn("access", k) /\ (up' \/ ~Making(Registers))
        <3>1. Making(Registers) => Making({"read_smn", "write_smn"}) \/ Making({"ccd"})
            BY DEF Making, Registers
        <3> QED  BY <1>4, <3>1, Zenon DEF Ensure
    <2>3. ASSUME NEW v, Return(v) PROVE RaiseInv'
        <3>1. pc' = "next" /\ raised' = raised  BY <2>3, Zenon DEF Return
        <3> QED  BY <1>0, <2>1, <3>1, QuietStep
    <2>4. ASSUME Making({"ccd"}), NEW n \in {2, 3}, GoOn("ensure", n) PROVE RaiseInv'
        <3>1. pc' = "ensure" /\ raised' = raised  BY <2>4 DEF GoOn
        <3>2. Untouched'  BY <2>4, NextRead, Zenon
        <3> QED  BY <2>1, <3>1, <3>2, QuietStep
    <2>5. CASE GoOn("access", k) /\ (up' \/ ~Making(Registers))
        <3>1. pc' = "access" /\ program' = program /\ raised' = raised  BY <2>5 DEF GoOn
        <3>2. Making(Registers)' <=> Making(Registers)  BY <3>1 DEF Making, Registers
        <3>3. raised' = "none"  BY <2>1, <3>1 DEF Place
        <3>4. Backed'  BY <2>1, <2>5, <3>2, Zenon DEF Backed
        <3> QED  BY <1>0, <3>1, <3>3, <3>4 DEF RaiseInv, RaisedForCause
    <2> QED  BY <2>2, <2>3, <2>4, <2>5, Zenon
<1>5. CASE EnsureRaises
    <2>1. /\ pc = "ensure" /\ outcomes' = outcomes
          /\ \/ Return(1)
             \/ Raise("OSError") /\ ~(Making({"ccd"}) /\ k # 1)
        BY <1>5, Zenon DEF EnsureRaises
    <2>2. CASE Return(1)
        <3>1. pc' = "next" /\ raised' = raised  BY <2>2, Zenon DEF Return
        <3> QED  BY <1>0, <2>1, <3>1, QuietStep
    <2>3. CASE Raise("OSError") /\ ~(Making({"ccd"}) /\ k # 1)
        <3>1. pc' = "done" /\ program' = program /\ raised' = "OSError"
            BY <2>3, Zenon DEF Raise
        <3>2. outcomes[Head(program)] = <<>>
            BY <2>1, <2>3, Zenon DEF RaiseInv, Untouched
        <3>3. outcomes'[Head(program')] = <<>>  BY <2>1, <3>1, <3>2, Zenon
        <3> QED  BY <1>0, <3>1, <3>3 DEF RaiseInv, Backed, RaisedForCause
    <2> QED  BY <2>1, <2>2, <2>3
<1>6. CASE AccessSmn
    <2>1. PICK o \in Outcome : /\ Access(Registers, o)
                              /\ \/ \E v : Return(v)
                                 \/ Making({"ccd"}) /\ GoOn("ensure", 3)
                                 \/ Raise(o) /\ o \in {"SMUNotInitialized", "ArgumentError"}
        BY <1>6, Zenon DEF AccessSmn, Registers
    <2>2. ASSUME NEW v, Return(v) PROVE pc' # "access" /\ raised' = raised /\ Untouched'
        <3>1. pc' = "next" /\ raised' = raised  BY <2>2, Zenon DEF Return
        <3> QED  BY <1>0, <3>1
    <2>3. ASSUME Making({"ccd"}), GoOn("ensure", 3)
          PROVE  pc' # "access" /\ raised' = raised /\ Untouched'
        <3>1. pc' = "ensure" /\ raised' = raised  BY <2>3, Zenon DEF GoOn
        <3>2. 3 \in {2, 3}  OBVIOUS
        <3> QED  BY <2>3, <3>1, <3>2, NextRead, Zenon
    <2>4. "send" \notin Registers  BY DEF Registers
    <2>5. \/ pc' # "access" /\ raised' = raised /\ Untouched'
          \/ Raise(o) /\ o \in {"SMUNotInitialized", "ArgumentError"}
        BY <2>1, <2>2, <2>3, Zenon
    <2> QED  BY <2>1, <2>4, <2>5, AccessRaises
<1>7. CASE QueryBios
    <2>1. PICK o \in Outcome : /\ Access({"bios"}, o)
                              /\ \/ \E v : Return(v)
                                 \/ Raise(o) /\ o # "served" /\ o # "refused"
        BY <1>7, Zenon DEF QueryBios
    <2>2. \/ pc' # "access" /\ raised' = raised /\ Untouched'
          \/ Raise(o) /\ o \in {"SMUNotInitialized", "OSError", "ArgumentError"}
        BY <1>0, <2>1 DEF Return, Outcome
    <2>3. {"bios"} \subseteq Loud /\ "send" \notin {"bios"}  BY DEF Loud
    <2> QED  BY <2>1, <2>2, <2>3, AccessRaises, Zenon
<1>8. CASE QueryVersion
    <2>1. PICK o \in Outcome : /\ Access({"version"}, o)
                              /\ \/ \E v : Return(v)
                                 \/ GoOn("access", 2)
                                 \/ GoOn("file", 3)
                                 \/ Raise(o) /\ o # "served" /\ o # "refused"
        BY <1>8, Zenon DEF QueryVersion
    <2>2. \/ pc' # "access" /\ raised' = raised /\ Untouched'
          \/ pc' = "access" /\ program' = program /\ raised' = raised
          \/ pc' = "file" /\ raised' = raised
          \/ Raise(o) /\ o \in {"SMUNotInitialized", "OSError", "ArgumentError"}
        BY <1>0, <2>1 DEF Return, GoOn, Outcome
    <2>3. {"version"} \subseteq Loud /\ "send" \notin {"version"}  BY DEF Loud
    <2> QED  BY <2>1, <2>2, <2>3, AccessRaises, Zenon
<1>9. CASE VersionFile
    <2>1. pc = "file" /\ pc' \in {"next", "file"} /\ raised' = raised
        <3>1. /\ pc = "file"
              /\ \/ \E v : Return(v)
                 \/ \E n : GoOn("file", n)
            BY <1>9, FileFacts, Zenon
        <3> QED  BY <3>1, Zenon DEF Return, GoOn
    <2> QED  BY <1>0, <2>1, QuietStep
<1>10. CASE SendArg
    <2>1. PICK o \in Outcome : /\ Access({"send"}, o)
                              /\ \/ \E v : Return(v)
                                 \/ \E n : GoOn("access", n)
                                 \/ Raise(o) /\ o = "SMUNotInitialized"
        BY <1>10, Zenon DEF SendArg
    <2>2. \/ pc' # "access" /\ raised' = raised /\ Untouched'
          \/ pc' = "access" /\ program' = program /\ raised' = raised
          \/ Raise(o) /\ o = "SMUNotInitialized"
        BY <1>0, <2>1 DEF Return, GoOn
    <2> QED  BY <2>1, <2>2, AccessRaises
<1>11. CASE ReadTable
    <2>1. PICK o \in Outcome : /\ Access({"table", "cores"}, o)
                              /\ \/ \E v : Return(v)
                                 \/ pc' = "done" /\ raised' = raised
                                 \/ Raise(o) /\ o # "served" /\ o # "refused"
        BY <1>11, Zenon DEF ReadTable
    <2>2. \/ pc' # "access" /\ raised' = raised /\ Untouched'
          \/ Raise(o) /\ o \in {"SMUNotInitialized", "OSError", "ArgumentError"}
        BY <1>0, <2>1 DEF Return, Outcome
    <2>3. {"table", "cores"} \subseteq Loud /\ "send" \notin {"table", "cores"}  BY DEF Loud
    <2> QED  BY <2>1, <2>2, <2>3, AccessRaises, Zenon
<1>12. CASE Finish
    <2>1. pc = "next" /\ pc' = "done" /\ raised' = raised  BY <1>12 DEF Finish
    <2> QED  BY <1>0, <2>1, QuietStep
<1>13. CASE OtherInit \/ OtherClose
    <2>1. /\ pc' = pc /\ raised' = raised /\ pc # "done" /\ program' = program
          /\ outcomes' = outcomes /\ k' = k
          /\ up' \/ overtaken'
        BY <1>13, Zenon DEF OtherInit, OtherClose
    <2>2. raised' = "none"  BY <2>1 DEF Place
    <2>3. Backed'  BY <2>1, Zenon DEF Backed
    <2>4. Untouched'  BY <2>1, Zenon DEF RaiseInv, Untouched, Making
    <2> QED  BY <2>2, <2>3, <2>4 DEF RaiseInv, RaisedForCause
<1>14. CASE Done \/ UNCHANGED vars
    <2>1. UNCHANGED vars  BY <1>14, Zenon DEF Done
    <2>2. \A calls : Making(calls)' <=> Making(calls)  BY <2>1, Zenon DEF vars, Making
    <2> QED  BY <2>1, <2>2, Zenon DEF vars, history, RaiseInv, Backed, Untouched, RaisedForCause
<1> QED  BY <1>1, <1>2, <1>3, <1>4, <1>5, <1>6, <1>7, <1>8, <1>9, <1>10, <1>11, <1>12, <1>13,
            <1>14, Zenon DEF Next

(***************************************************************************)
(* SMUNotInitialized leaves a call only where a close() has overtaken it   *)
(* or init() has failed in it; an OSError leaves the functions that hide   *)
(* the failures of their accesses only before the first of them, from      *)
(* init(); an argument that cannot be packed leaves only read_smn and      *)
(* write_smn (smu.py:171-301).                                             *)
(***************************************************************************)
THEOREM RaisesExplained == Spec => []RaisedForCause
<1>1. Init => RaiseInv  BY DEF Init, RaiseInv, Backed, Untouched, RaisedForCause
<1>2. RaiseInv => RaisedForCause  BY DEF RaiseInv
<1> QED  BY <1>1, <1>2, Whereabouts, RaiseKept, PTL DEF Spec

-----------------------------------------------------------------------------
(* The steps of a call that is being made.                                 *)

\* The only accesses are those of the call.
LEMMA OwnAccess ==
    ASSUME NEW c, Making({c}), NEW calls, NEW o, Access(calls, o)
    PROVE  c \in calls
  BY AccessFacts DEF Making

\* A call begins with its first step to the backend, and no outcome.
LEMMA Begun ==
    ASSUME Place, Ahead, NEW c \in Reaching, c # "send", Making({c}), Begin
    PROVE  /\ pc' = "ensure" /\ k' = 1 /\ words' = <<>>
           /\ program' = program /\ shown' = shown
           /\ c \in DOMAIN outcomes' /\ outcomes'[c] = <<>>
           /\ c \notin DOMAIN shown'
<1>1. program # <<>> /\ Head(program) = c /\ ~Making({"send"}) /\ pc = "next"
    BY DEF Making, Begin
<1>2. /\ GoOn("ensure", 1) /\ words' = words
      /\ outcomes' = With(outcomes, c, <<>>)
    BY <1>1, Zenon DEF Begin
<1>3. c \in DOMAIN outcomes' /\ outcomes'[c] = <<>>  BY <1>2 DEF With
<1>4. c \in Calls(program)  BY <1>1, RestFacts DEF Place
<1>5. c \notin DOMAIN shown  BY <1>1, <1>4 DEF Ahead
<1> QED  BY <1>1, <1>2, <1>3, <1>5 DEF GoOn, Place

\* A call that reaches the backend is neither of those that do not.
LEMMA NotOthers ==
    ASSUME Place, NEW c \in Reaching, Making({c})
    PROVE  ~Compute /\ ~Start /\ ~Finish
  BY DEF Compute, Start, Finish, Making, Reaching

-----------------------------------------------------------------------------
(* The version.                                                            *)

Unserved == Outcome \ {"served"}

AskedOnce  == outcomes["version"] = <<>>
AskedTwice == \E o \in Unserved : outcomes["version"] = <<o>>
AskedOut   == \E o, q \in Unserved : outcomes["version"] = <<o, q>>
AskedFile  == \E o, q, r \in Unserved : outcomes["version"] = <<o, q, r>>

\* Which sources have been asked when the thread is in get_smu_version.
VersionPlace ==
    pc \in Inside /\ Making({"version"}) =>
        \/ pc \in {"ensure", "access"} /\ k = 1 /\ AskedOnce
        \/ pc = "access" /\ k = 2 /\ AskedTwice
        \/ pc = "file" /\ k = 3 /\ AskedOut
        \/ pc = "file" /\ k = 4 /\ AskedFile

VersionInv ==
    /\ VersionPlace
    /\ "version" \in DOMAIN shown => "version" \in DOMAIN outcomes
    /\ VersionIsFirmwares

\* One outcome more, after none and one, after two and three.
LEMMA AppendShort ==
    ASSUME NEW o
    PROVE  /\ Append(<<>>, o) = <<o>>
           /\ \A p : Append(<<p>>, o) = <<p, o>>
<1>1. Append(<<>>, o) = <<o>>  OBVIOUS
<1>2. ASSUME NEW p PROVE Append(<<p>>, o) = <<p, o>>
    <2>1. <<p>> \in Seq({p, o}) /\ Len(<<p>>) = 1 /\ <<p>>[1] = p  OBVIOUS
    <2>2. /\ Append(<<p>>, o) \in Seq({p, o}) /\ Len(Append(<<p>>, o)) = 2
          /\ Append(<<p>>, o)[1] = p /\ Append(<<p>>, o)[2] = o
        BY <2>1, AppendProperties
    <2>3. <<p, o>> \in Seq({p, o}) /\ Len(<<p, o>>) = 2  OBVIOUS
    <2>4. \A i \in 1 .. 2 : Append(<<p>>, o)[i] = <<p, o>>[i]  BY <2>2
    <2> QED  BY <2>2, <2>3, <2>4, SeqEqual, Zenon
<1> QED  BY <1>1, <1>2

LEMMA AppendLonger ==
    ASSUME NEW o
    PROVE  /\ \A p, q : Append(<<p, q>>, o) = <<p, q, o>>
           /\ \A p, q, r : Append(<<p, q, r>>, o) = <<p, q, r, o>>
<1>1. ASSUME NEW p, NEW q PROVE Append(<<p, q>>, o) = <<p, q, o>>
    <2> DEFINE T == {p, q, o}
    <2>1. <<p, q>> \in Seq(T) /\ Len(<<p, q>>) = 2 /\ o \in T  OBVIOUS
    <2>2. /\ Append(<<p, q>>, o) \in Seq(T) /\ Len(Append(<<p, q>>, o)) = 3
          /\ Append(<<p, q>>, o)[1] = p /\ Append(<<p, q>>, o)[2] = q
          /\ Append(<<p, q>>, o)[3] = o
        BY <2>1, AppendProperties
    <2>3. <<p, q, o>> \in Seq(T) /\ Len(<<p, q, o>>) = 3  OBVIOUS
    <2>4. \A i \in 1 .. 3 : Append(<<p, q>>, o)[i] = <<p, q, o>>[i]  BY <2>2
    <2> QED  BY <2>2, <2>3, <2>4, SeqEqual, Zenon
<1>2. ASSUME NEW p, NEW q, NEW r PROVE Append(<<p, q, r>>, o) = <<p, q, r, o>>
    <2> DEFINE T == {p, q, r, o}
    <2>1. <<p, q, r>> \in Seq(T) /\ Len(<<p, q, r>>) = 3 /\ o \in T  OBVIOUS
    <2>2. /\ Append(<<p, q, r>>, o) \in Seq(T) /\ Len(Append(<<p, q, r>>, o)) = 4
          /\ Append(<<p, q, r>>, o)[1] = p /\ Append(<<p, q, r>>, o)[2] = q
          /\ Append(<<p, q, r>>, o)[3] = r /\ Append(<<p, q, r>>, o)[4] = o
        BY <2>1, AppendProperties
    <2>3. <<p, q, r, o>> \in Seq(T) /\ Len(<<p, q, r, o>>) = 4  OBVIOUS
    <2>4. \A i \in 1 .. 4 : Append(<<p, q, r>>, o)[i] = <<p, q, r, o>>[i]  BY <2>2
    <2> QED  BY <2>2, <2>3, <2>4, SeqEqual, Zenon
<1> QED  BY <1>1, <1>2

LEMMA NoVersionYet ==
    ASSUME VersionPlace', "version" \notin DOMAIN shown'
    PROVE  VersionInv'
  BY Zenon DEF VersionInv, VersionIsFirmwares

LEMMA VersionIdle ==
    ASSUME VersionInv, UNCHANGED <<program, pc, k, shown, outcomes>>
    PROVE  VersionInv'
  BY Zenon DEF VersionInv, VersionPlace, VersionIsFirmwares, Making, AskedOnce, AskedTwice,
           AskedOut, AskedFile

\* An access of get_smu_version ends.
LEMMA VersionAnswered ==
    ASSUME Place, Ahead, VersionInv, Making({"version"}), QueryVersion
    PROVE  VersionInv'
<1>1. PICK o \in Outcome :
        /\ Access({"version"}, o)
        /\ IF o = "served" THEN Return(Firmware)
           ELSE IF k = 1 THEN GoOn("access", 2) /\ UNCHANGED words
           ELSE IF o = "refused" THEN GoOn("file", 3) /\ UNCHANGED words
           ELSE Raise(o)
    BY Zenon DEF QueryVersion
<1> DEFINE old == outcomes["version"]
           new == outcomes'["version"]
<1>2. /\ pc = "access" /\ program # <<>> /\ Head(program) = "version"
      /\ outcomes' = [outcomes EXCEPT !["version"] = Append(old, o)]
    BY <1>1, AccessFacts
<1>3. "version" \in DOMAIN outcomes  BY <1>2 DEF Ahead, Inside
<1>4. "version" \in DOMAIN outcomes' /\ new = Append(old, o)  BY <1>2, <1>3
<1>5. \/ k = 1 /\ new = <<o>>
      \/ k = 2 /\ \E p \in Unserved : new = <<p, o>>
    <2>1. \/ k = 1 /\ old = <<>>
          \/ k = 2 /\ \E p \in Unserved : old = <<p>>
        BY <1>2 DEF VersionInv, VersionPlace, Inside, AskedOnce, AskedTwice
    <2> QED  BY <1>4, <2>1, AppendShort, Zenon
<1>6. "version" \notin DOMAIN shown
    <2>1. "version" \in Calls(program)  BY <1>2, RestFacts DEF Place
    <2> QED  BY <1>2, <2>1 DEF Ahead
<1>7. CASE o = "served"
    <2>1. pc' = "next" /\ shown' = With(shown, "version", Firmware)
        BY <1>1, <1>2, <1>7 DEF Return
    <2>2. shown'["version"] = Firmware  BY <2>1 DEF With
    <2>3. \E i \in DOMAIN new \cap (1 .. 3) : new[i] = "served"
        <3>1. CASE new = <<o>>
            <4>1. 1 \in DOMAIN new \cap (1 .. 3) /\ new[1] = "served"  BY <1>7, <3>1
            <4> QED  BY <4>1
        <3>2. ASSUME NEW p, new = <<p, o>> PROVE \E i \in DOMAIN new \cap (1 .. 3) : new[i] = "served"
            <4>1. 2 \in DOMAIN new \cap (1 .. 3) /\ new[2] = "served"  BY <1>7, <3>2
            <4> QED  BY <4>1
        <3> HIDE DEF new
        <3> QED  BY <1>5, <3>1, <3>2, Zenon
    <2>4. VersionIsFirmwares'  BY <2>2, <2>3, Zenon DEF VersionIsFirmwares
    <2>5. VersionPlace'  BY <2>1 DEF VersionPlace, Inside
    <2> QED  BY <1>4, <2>4, <2>5, Zenon DEF VersionInv
<1>8. CASE o # "served"
    <2>1. o \in Unserved  BY <1>8 DEF Unserved
    <2>2. CASE k = 1
        <3>1. pc' = "access" /\ k' = 2 /\ shown' = shown
            BY <1>1, <1>8, <2>2, Zenon DEF GoOn
        <3>2. new = <<o>>  BY <1>5, <2>2
        <3>3. AskedTwice'  BY <2>1, <3>2 DEF AskedTwice
        <3> QED  BY <1>6, <3>1, <3>3, NoVersionYet, Zenon DEF VersionPlace
    <2>3. CASE k # 1 /\ o = "refused"
        <3>1. pc' = "file" /\ k' = 3 /\ shown' = shown
            BY <1>1, <1>8, <2>3, Zenon DEF GoOn
        <3>2. \E p \in Unserved : new = <<p, o>>  BY <1>5, <2>3
        <3>3. AskedOut'  BY <2>1, <3>2, Zenon DEF AskedOut
        <3> QED  BY <1>6, <3>1, <3>3, NoVersionYet, Zenon DEF VersionPlace
    <2>4. CASE k # 1 /\ o # "refused"
        <3>1. pc' = "done" /\ shown' = shown
            BY <1>1, <1>8, <2>4, Zenon DEF Raise
        <3>2. VersionPlace'  BY <3>1 DEF VersionPlace, Inside
        <3> QED  BY <1>6, <3>1, <3>2, NoVersionYet
    <2> QED  BY <2>2, <2>3, <2>4
<1> QED  BY <1>7, <1>8

\* A file is read, that of the SMU's version or that of the driver's.
LEMMA VersionFound ==
    ASSUME Place, Ahead, VersionInv, Making({"version"}), VersionFile
    PROVE  VersionInv'
<1> DEFINE old == outcomes["version"]
           new == outcomes'["version"]
<1>1. program # <<>> /\ Head(program) = "version"  BY DEF Making
<1>2. PICK o \in {"served", "refused"} :
        /\ pc = "file" /\ outcomes' = [outcomes EXCEPT !["version"] = Append(old, o)]
        /\ IF o = "served" THEN Return(IF k = 3 THEN Firmware ELSE Driver)
           ELSE IF k = 3 THEN GoOn("file", 4)
           ELSE Return(Zero)
    BY <1>1, Zenon DEF VersionFile, File
<1>3. "version" \in DOMAIN outcomes  BY <1>1, <1>2 DEF Ahead, Inside
<1>4. "version" \in DOMAIN outcomes' /\ new = Append(old, o)  BY <1>2, <1>3
<1>5. "version" \notin DOMAIN shown
    <2>1. "version" \in Calls(program)  BY <1>1, RestFacts DEF Place
    <2> QED  BY <1>2, <2>1 DEF Ahead
<1>6. \/ k = 3 /\ \E p, q \in Unserved : old = <<p, q>>
      \/ k = 4 /\ \E p, q, r \in Unserved : old = <<p, q, r>>
    BY <1>2 DEF VersionInv, VersionPlace, Inside, AskedOut, AskedFile
<1>7. ASSUME NEW v, Return(v)
      PROVE  pc' = "next" /\ shown'["version"] = v /\ VersionPlace'
    <2>1. pc' = "next" /\ shown' = With(shown, "version", v)
        BY <1>1, <1>7, Zenon DEF Return
    <2>2. shown'["version"] = v  BY <2>1 DEF With
    <2> QED  BY <2>1, <2>2 DEF VersionPlace, Inside
<1>8. CASE k = 3
    <2>1. PICK p \in Unserved, q \in Unserved : new = <<p, q, o>>
        <3>1. PICK p \in Unserved, q \in Unserved : old = <<p, q>>  BY <1>6, <1>8
        <3>2. new = <<p, q, o>>  BY <1>4, <3>1, AppendLonger, Zenon
        <3> QED  BY <3>2
    <2>2. CASE o = "served"
        <3>1. shown'["version"] = Firmware /\ VersionPlace'  BY <1>2, <1>7, <1>8, <2>2, Zenon
        <3>2. 3 \in DOMAIN new \cap (1 .. 3) /\ new[3] = "served"  BY <2>1, <2>2
        <3>3. VersionIsFirmwares'  BY <3>1, <3>2, Zenon DEF VersionIsFirmwares
        <3> QED  BY <1>4, <3>1, <3>3, Zenon DEF VersionInv
    <2>3. CASE o # "served"
        <3>1. pc' = "file" /\ k' = 4 /\ shown' = shown  BY <1>2, <1>8, <2>3, Zenon DEF GoOn
        <3>2. o \in Unserved  BY <2>3 DEF Unserved, Outcome
        <3>3. AskedFile'  BY <2>1, <3>2, Zenon DEF AskedFile
        <3> QED  BY <1>5, <3>1, <3>3, NoVersionYet, Zenon DEF VersionPlace
    <2> QED  BY <2>2, <2>3
<1>9. CASE k = 4
    <2>1. PICK p \in Unserved, q \in Unserved, r \in Unserved : new = <<p, q, r, o>>
        <3>1. PICK p \in Unserved, q \in Unserved, r \in Unserved : old = <<p, q, r>>
            BY <1>6, <1>9
        <3>2. new = <<p, q, r, o>>  BY <1>4, <3>1, AppendLonger, Zenon
        <3> QED  BY <3>2
    <2>2. /\ Len(new) = 4 /\ new[4] = o
          /\ ~\E i \in DOMAIN new \cap (1 .. 3) : new[i] = "served"
        <3>1. p # "served" /\ q # "served" /\ r # "served"  BY DEF Unserved
        <3> QED  BY <2>1, <3>1
    <2>3. k # 3  BY <1>9
    <2>4. shown'["version"] = (IF o = "served" THEN Driver ELSE Zero) /\ VersionPlace'
        BY <1>2, <1>7, <2>3, Zenon
    <2>5. VersionIsFirmwares'  BY <2>2, <2>4, Zenon DEF VersionIsFirmwares
    <2> QED  BY <1>4, <2>4, <2>5, Zenon DEF VersionInv
<1> QED  BY <1>6, <1>8, <1>9

LEMMA VersionKept ==
    ASSUME Place, Ahead, VersionInv, [Next]_vars
    PROVE  VersionInv'
<1>1. CASE ~Making({"version"})
    <2>1. /\ "version" \in DOMAIN shown'
                => "version" \in DOMAIN shown /\ shown'["version"] = shown["version"]
          /\ "version" \in DOMAIN outcomes <=> "version" \in DOMAIN outcomes'
          /\ "version" \in DOMAIN outcomes => outcomes'["version"] = outcomes["version"]
          /\ pc' \in Inside => ~Making({"version"})'
        <3>1. "version" # "ccd"  OBVIOUS
        <3> QED  BY <1>1, <3>1, OthersKept, Zenon
    <2>2. VersionPlace'  BY <2>1, Zenon DEF VersionPlace
    <2>3. CASE "version" \notin DOMAIN shown'  BY <2>2, <2>3, NoVersionYet
    <2>4. CASE "version" \in DOMAIN shown'
        <3>1. /\ "version" \in DOMAIN shown /\ "version" \in DOMAIN outcomes
              /\ "version" \in DOMAIN outcomes'
              /\ shown'["version"] = shown["version"]
              /\ outcomes'["version"] = outcomes["version"]
            BY <2>1, <2>4 DEF VersionInv
        <3> QED  BY <2>2, <3>1, Zenon DEF VersionInv, VersionIsFirmwares
    <2> QED  BY <2>3, <2>4
<1>2. CASE Making({"version"})
    <2>1. "version" \in Reaching /\ "version" # "send"  BY DEF Reaching, LibraryCall
    <2>2. program # <<>> /\ Head(program) = "version"  BY <1>2 DEF Making
    <2>3. ~Compute /\ ~Start /\ ~Finish  BY <1>2, <2>1, NotOthers
    <2>4. ~AccessSmn /\ ~QueryBios /\ ~SendArg /\ ~ReadTable
        <3>1. \A calls, o : Access(calls, o) => "version" \in calls
            BY <1>2, OwnAccess, Zenon
        <3>2. /\ "version" \notin {"read_smn", "write_smn", "ccd"} /\ "version" \notin {"bios"}
              /\ "version" \notin {"send"} /\ "version" \notin {"table", "cores"}
            OBVIOUS
        <3> QED  BY <3>1, <3>2, Zenon DEF AccessSmn, QueryBios, SendArg, ReadTable
    <2>5. pc # "done" => "version" \notin DOMAIN shown
        <3>1. "version" \in Calls(program)  BY <2>2, RestFacts DEF Place
        <3> QED  BY <3>1 DEF Ahead
    <2>6. CASE Begin
        <3>1. /\ pc' = "ensure" /\ k' = 1 /\ outcomes'["version"] = <<>>
              /\ "version" \notin DOMAIN shown'
            BY <1>2, <2>1, <2>6, Begun
        <3>2. VersionPlace'  BY <3>1 DEF VersionPlace, AskedOnce
        <3> QED  BY <3>1, <3>2, NoVersionYet
    <2>7. CASE Ensure
        <3>1. /\ ~Making({"read_smn", "write_smn"}) /\ ~Making({"ccd"}) /\ ~Making({"send"})
              /\ pc = "ensure"
            BY <2>2, <2>7 DEF Making, Ensure
        <3>2. GoOn("access", k) /\ outcomes' = outcomes  BY <2>7, <3>1, Zenon DEF Ensure
        <3>3. pc' = "access" /\ k' = k /\ shown' = shown  BY <3>2 DEF GoOn
        <3>4. k = 1 /\ AskedOnce
            BY <1>2, <3>1 DEF VersionInv, VersionPlace, Inside
        <3>5. AskedOnce'  BY <3>2, <3>4 DEF AskedOnce
        <3>6. VersionPlace'  BY <3>3, <3>4, <3>5 DEF VersionPlace
        <3> QED  BY <2>5, <3>1, <3>3, <3>6, NoVersionYet
    <2>8. CASE QueryVersion  BY <1>2, <2>8, VersionAnswered
    <2>9. CASE VersionFile  BY <1>2, <2>9, VersionFound
    <2>10. CASE OtherInit \/ OtherClose \/ Done \/ UNCHANGED vars
        BY <2>10, VersionIdle, Zenon DEF OtherInit, OtherClose, Done, vars
    <2>11. CASE EnsureRaises
        <3>1. pc = "ensure" /\ Raise("OSError")
            <4>1. ~Making({"ccd"})  BY <2>2 DEF Making
            <4> QED  BY <2>11, <4>1, Zenon DEF EnsureRaises
        <3>2. pc' = "done" /\ shown' = shown  BY <3>1, Zenon DEF Raise
        <3>3. VersionPlace'  BY <3>2 DEF VersionPlace, Inside
        <3> QED  BY <2>5, <3>1, <3>2, <3>3, NoVersionYet
    <2> QED  BY <2>3, <2>4, <2>6, <2>7, <2>8, <2>9, <2>10, <2>11, Zenon DEF Next
<1> QED  BY <1>1, <1>2

(***************************************************************************)
(* A version shown is the firmware's as soon as the backend, the query or  *)
(* the file of the SMU's version has given it; the driver's is shown only  *)
(* when its file has been read after all three of them have given nothing  *)
(* (smu.py:236-262, get_smu_version).                                      *)
(***************************************************************************)
THEOREM VersionTold == Spec => []VersionIsFirmwares
<1>1. Init => VersionInv
    BY DEF Init, VersionInv, VersionPlace, VersionIsFirmwares, Inside
<1>2. VersionInv => VersionIsFirmwares  BY DEF VersionInv
<1> QED  BY <1>1, <1>2, Whereabouts, VersionKept, PTL DEF Spec

-----------------------------------------------------------------------------
(* The CCDs.                                                               *)

\* Some number of CCDs, never 0.
LEMMA CountPositive ==
    ASSUME NEW first, NEW second
    PROVE  CountCcds(first, second) \in Nat /\ CountCcds(first, second) > 0
<1> DEFINE disabled == {b + 2 : b \in second \cap (0..5)} \cup {b - 30 : b \in first \cap {30, 31}}
           enabled  == {b - 22 : b \in first \cap (22..29)} \ disabled
<1>1. CountCcds(first, second) = IF enabled = {} THEN 1 ELSE Cardinality(enabled)
    BY Zenon DEF CountCcds
<1>2. enabled \subseteq 0 .. 7  OBVIOUS
<1> HIDE DEF enabled
<1>3. IsFiniteSet(0 .. 7)
    <2>1. 0 \in Int /\ 7 \in Int  OBVIOUS
    <2> QED  BY <2>1, FS_Interval, Zenon
<1>4. IsFiniteSet(enabled)  BY <1>2, <1>3, FS_Subset
<1>5. Cardinality(enabled) \in Nat  BY <1>4, FS_CardinalityType
<1>6. enabled # {} => Cardinality(enabled) # 0  BY <1>4, FS_EmptySet
<1> QED  BY <1>1, <1>5, <1>6

\* From the whole of both fuses, those that are there and not disabled.
LEMMA CountExact ==
    ASSUME job \in Jobs, job.present # job.disabled
    PROVE  CountCcds(Fuse1, Fuse2) = Cardinality(job.present \ job.disabled)
<1> DEFINE there == job.present
           off   == job.disabled
           disabled == {b + 2 : b \in Fuse2 \cap (0..5)} \cup {b - 30 : b \in Fuse1 \cap {30, 31}}
           enabled  == {b - 22 : b \in Fuse1 \cap (22..29)} \ disabled
<1>1. CountCcds(Fuse1, Fuse2) = IF enabled = {} THEN 1 ELSE Cardinality(enabled)
    BY Zenon DEF CountCcds
<1>2. there \subseteq 0 .. 7 /\ off \subseteq there  BY JobsAssumption, Zenon
<1>3. /\ Fuse1 = {b + 22 : b \in there} \cup {b + 30 : b \in off \cap {0, 1}}
      /\ Fuse2 = {b - 2 : b \in off \ {0, 1}}
    BY Zenon DEF Fuse1, Fuse2
<1> HIDE DEF there, off
<1>4. disabled = off
    <2>1. \A b \in off : b \in Int /\ 0 <= b /\ b <= 7  BY <1>2
    <2>2. ASSUME NEW b \in off PROVE b \in disabled
        <3>1. CASE b \in {0, 1}
            <4>1. b + 30 \in Fuse1 \cap {30, 31} /\ (b + 30) - 30 = b  BY <1>3, <2>1, <3>1
            <4> QED  BY <4>1
        <3>2. CASE b \notin {0, 1}
            <4>1. b - 2 \in Fuse2 /\ b - 2 \in 0 .. 5 /\ (b - 2) + 2 = b
                BY <1>3, <2>1, <2>2, <3>2
            <4> QED  BY <4>1
        <3> QED  BY <3>1, <3>2
    <2>3. ASSUME NEW b \in Fuse2 \cap (0..5) PROVE b + 2 \in off
        <3>1. PICK c \in off \ {0, 1} : b = c - 2  BY <1>3, <2>3
        <3>2. b + 2 = c  BY <2>1, <3>1
        <3> QED  BY <3>1, <3>2
    <2>4. ASSUME NEW b \in Fuse1 \cap {30, 31} PROVE b - 30 \in off
        <3>1. \A c \in there : b # c + 22  BY <1>2, <2>4
        <3>2. PICK c \in off \cap {0, 1} : b = c + 30  BY <1>3, <2>4, <3>1
        <3>3. b - 30 = c  BY <2>1, <3>2
        <3> QED  BY <3>2, <3>3
    <2> QED  BY <2>2, <2>3, <2>4
<1>5. {b - 22 : b \in Fuse1 \cap (22..29)} = there
    <2>1. \A b \in there : b \in Int /\ 0 <= b /\ b <= 7  BY <1>2
    <2>2. ASSUME NEW b \in there PROVE b \in {c - 22 : c \in Fuse1 \cap (22..29)}
        <3>1. b + 22 \in Fuse1 \cap (22..29) /\ (b + 22) - 22 = b  BY <1>3, <2>1
        <3> QED  BY <3>1
    <2>3. ASSUME NEW b \in Fuse1 \cap (22..29) PROVE b - 22 \in there
        <3>1. \A c \in {0, 1} : b # c + 30  BY <2>3
        <3>2. PICK c \in there : b = c + 22  BY <1>3, <2>3, <3>1
        <3>3. b - 22 = c  BY <2>1, <3>2
        <3> QED  BY <3>2, <3>3
    <2> QED  BY <2>2, <2>3
<1>6. enabled = there \ off  BY <1>4, <1>5, Zenon
<1>7. there \ off # {}  BY <1>2 DEF there, off
<1> HIDE DEF enabled, disabled
<1> QED  BY <1>1, <1>6, <1>7, Zenon DEF there, off

\* What has been read of the first fuse.
FirstRead ==
    \/ words = <<Fuse1>> /\ outcomes["ccd"] = <<"served">>
    \/ /\ words = <<Zero>>
       /\ outcomes["ccd"] = <<>> \/ \E o \in Unserved : outcomes["ccd"] = <<o>>

CcdPlace ==
    pc \in Inside /\ Making({"ccd"}) =>
        \/ pc \in {"ensure", "access"} /\ k \in {1, 2} /\ outcomes["ccd"] = <<>>
        \/ pc \in {"ensure", "access"} /\ k = 3 /\ FirstRead

CcdInv ==
    /\ pc = "access" /\ Making({"ccd"}) => k # 1
    /\ CcdPlace
    /\ CcdExact

LEMMA NoCcdYet ==
    ASSUME CcdPlace', pc' = "access" /\ Making({"ccd"})' => k' # 1, "ccd" \notin DOMAIN shown'
    PROVE  CcdInv'
  BY Zenon DEF CcdInv, CcdExact

LEMMA CcdIdle ==
    ASSUME CcdInv, UNCHANGED <<job, program, pc, k, words, shown, outcomes>>
    PROVE  CcdInv'
  BY Zenon DEF CcdInv, CcdPlace, CcdExact, Making, FirstRead, Fuse1

\* A read of a fuse ends.
LEMMA CcdRead ==
    ASSUME Place, Ahead, CcdInv, Making({"ccd"}), AccessSmn
    PROVE  CcdInv'
<1> DEFINE old == outcomes["ccd"]
           new == outcomes'["ccd"]
           got(o, word) == IF o = "served" THEN word ELSE Zero
<1>1. PICK o \in Outcome :
        /\ Access({"read_smn", "write_smn", "ccd"}, o)
        /\ IF o \in {"SMUNotInitialized", "ArgumentError"} THEN Raise(o)
           ELSE IF k = 2 THEN GoOn("ensure", 3) /\ words' = <<got(o, Fuse1)>>
           ELSE Return(CountCcds(words[1], got(o, Fuse2)))
    BY Zenon DEF AccessSmn
<1>2. /\ pc = "access" /\ program # <<>> /\ Head(program) = "ccd" /\ job' = job
      /\ outcomes' = [outcomes EXCEPT !["ccd"] = Append(old, o)]
    <2>1. Head(program) = "ccd"  BY DEF Making
    <2> QED  BY <1>1, <2>1, AccessFacts, Zenon
<1>3. "ccd" \in DOMAIN outcomes  BY <1>2 DEF Ahead, Inside
<1>4. "ccd" \in DOMAIN outcomes' /\ new = Append(old, o)  BY <1>2, <1>3
<1>5. "ccd" \notin DOMAIN shown
    <2>1. "ccd" \in Calls(program)  BY <1>2, RestFacts DEF Place
    <2> QED  BY <1>2, <2>1 DEF Ahead
<1>6. Fuse1' = Fuse1  BY <1>2 DEF Fuse1
<1>7. \/ k = 2 /\ old = <<>>
      \/ k = 3 /\ FirstRead
    BY <1>2 DEF CcdInv, CcdPlace, Inside
<1>8. CASE o \in {"SMUNotInitialized", "ArgumentError"}
    <2>1. pc' = "done" /\ shown' = shown  BY <1>1, <1>8, Zenon DEF Raise
    <2>2. CcdPlace'  BY <2>1 DEF CcdPlace, Inside
    <2> QED  BY <1>5, <2>1, <2>2, NoCcdYet
<1>9. CASE o \notin {"SMUNotInitialized", "ArgumentError"} /\ k = 2
    <2>1. pc' = "ensure" /\ k' = 3 /\ shown' = shown /\ words' = <<got(o, Fuse1)>>
        BY <1>1, <1>9, Zenon DEF GoOn
    <2>2. new = <<o>>
        <3>1. old = <<>>  BY <1>7, <1>9
        <3> QED  BY <1>4, <3>1, AppendShort, Zenon
    <2>3. FirstRead'
        <3>1. CASE o = "served"
            <4>1. words' = <<Fuse1>>  BY <2>1, <3>1
            <4> QED  BY <1>6, <2>2, <3>1, <4>1, Zenon DEF FirstRead
        <3>2. CASE o # "served"
            <4>1. words' = <<Zero>> /\ o \in Unserved  BY <2>1, <3>2 DEF Unserved
            <4> QED  BY <2>2, <4>1, Zenon DEF FirstRead
        <3> QED  BY <3>1, <3>2
    <2>4. CcdPlace'  BY <2>1, <2>3 DEF CcdPlace
    <2> QED  BY <1>5, <2>1, <2>4, NoCcdYet
<1>10. CASE o \notin {"SMUNotInitialized", "ArgumentError"} /\ k # 2
    <2>1. /\ pc' = "next"
          /\ shown' = With(shown, "ccd", CountCcds(words[1], got(o, Fuse2)))
        BY <1>1, <1>2, <1>10, Zenon DEF Return
    <2>2. shown'["ccd"] = CountCcds(words[1], got(o, Fuse2))  BY <2>1 DEF With
    <2>3. shown'["ccd"] > 0  BY <2>2, CountPositive
    <2>4. ASSUME new = <<"served", "served">>, job'.present # job'.disabled
          PROVE  shown'["ccd"] = Cardinality(job'.present \ job'.disabled)
        <3>1. old # <<>> => \/ words = <<Fuse1>> /\ old = <<"served">>
                           \/ \E p \in Unserved : old = <<p>>
            BY <1>7, <1>10 DEF FirstRead
        <3>2. old # <<>>
            <4>1. <<o>> # <<"served", "served">>  OBVIOUS
            <4> QED  BY <1>4, <2>4, <4>1, AppendShort, Zenon
        <3>3. \A p : <<p, o>> = <<"served", "served">> => p = "served" /\ o = "served"
            OBVIOUS
        <3>4. "served" \notin Unserved  BY DEF Unserved
        <3>5. words = <<Fuse1>> /\ o = "served"
            BY <1>4, <2>4, <3>1, <3>2, <3>3, <3>4, AppendShort, Zenon
        <3>6. shown'["ccd"] = CountCcds(Fuse1, Fuse2)  BY <2>2, <3>5
        <3> QED  BY <1>2, <2>4, <3>6, CountExact, Zenon DEF Place
    <2>5. CcdExact'  BY <2>3, <2>4, Zenon DEF CcdExact
    <2>6. CcdPlace'  BY <2>1 DEF CcdPlace, Inside
    <2> QED  BY <2>1, <2>5, <2>6 DEF CcdInv
<1> QED  BY <1>8, <1>9, <1>10

LEMMA CcdKept ==
    ASSUME Place, Ahead, CcdInv, [Next]_vars
    PROVE  CcdInv'
<1>1. job' = job  BY StepIs, Zenon
<1>2. CASE ~Making({"ccd"})
    <2>1. /\ \/ "ccd" \in DOMAIN shown' => "ccd" \in DOMAIN shown /\ shown'["ccd"] = shown["ccd"]
             \/ DOMAIN outcomes' = {}
          /\ "ccd" \in DOMAIN outcomes <=> "ccd" \in DOMAIN outcomes'
          /\ "ccd" \in DOMAIN outcomes => outcomes'["ccd"] = outcomes["ccd"]
          /\ pc' \in Inside => ~Making({"ccd"})'
        BY <1>2, OthersKept, Zenon
    <2>2. /\ CcdPlace'
          /\ ~(pc' = "access" /\ Making({"ccd"})')
        BY <2>1 DEF CcdPlace, Inside
    <2>3. CcdExact'
        <3>1. SUFFICES ASSUME "ccd" \in DOMAIN shown', "ccd" \in DOMAIN outcomes'
                       PROVE  /\ "ccd" \in DOMAIN shown /\ "ccd" \in DOMAIN outcomes
                              /\ shown'["ccd"] = shown["ccd"]
                              /\ outcomes'["ccd"] = outcomes["ccd"]
            BY <1>1, Zenon DEF CcdInv, CcdExact
        <3> QED  BY <2>1, <3>1
    <2> QED  BY <2>2, <2>3, Zenon DEF CcdInv
<1>3. CASE Making({"ccd"})
    <2>1. "ccd" \in Reaching /\ "ccd" # "send"  BY DEF Reaching, LibraryCall
    <2>2. program # <<>> /\ Head(program) = "ccd"  BY <1>3 DEF Making
    <2>3. ~Compute /\ ~Start /\ ~Finish  BY <1>3, <2>1, NotOthers
    <2>4. ~QueryBios /\ ~QueryVersion /\ ~SendArg /\ ~ReadTable
        <3>1. \A calls, o : Access(calls, o) => "ccd" \in calls
            BY <1>3, OwnAccess, Zenon
        <3>2. /\ "ccd" \notin {"bios"} /\ "ccd" \notin {"version"}
              /\ "ccd" \notin {"send"} /\ "ccd" \notin {"table", "cores"}
            OBVIOUS
        <3> QED  BY <3>1, <3>2, Zenon DEF QueryBios, QueryVersion, SendArg, ReadTable
    <2>5. pc # "done" => "ccd" \notin DOMAIN shown
        <3>1. "ccd" \in Calls(program)  BY <2>2, RestFacts DEF Place
        <3> QED  BY <3>1 DEF Ahead
    <2>6. CASE Begin
        <3>1. /\ pc' = "ensure" /\ k' = 1 /\ words' = <<>> /\ outcomes'["ccd"] = <<>>
              /\ "ccd" \notin DOMAIN shown'
            BY <1>3, <2>1, <2>6, Begun
        <3>2. CcdPlace'  BY <3>1 DEF CcdPlace
        <3> QED  BY <3>1, <3>2, NoCcdYet
    <2>7. CASE Ensure
        <3>1. /\ ~Making({"read_smn", "write_smn"})
              /\ pc = "ensure" /\ outcomes' = outcomes
            BY <2>2, <2>7 DEF Making, Ensure
        <3>2. IF k = 1 THEN IF up' THEN GoOn("ensure", 2) ELSE Return(1)
              ELSE IF ~up' THEN IF k = 2 THEN GoOn("ensure", 3) /\ words' = <<Zero>>
                                ELSE Return(CountCcds(words[1], Zero))
              ELSE GoOn("access", k) /\ words' = words
            <4>1. ~Making({"send"})  BY <2>2 DEF Making
            <4> QED  BY <1>3, <2>7, <3>1, <4>1, Zenon DEF Ensure
        <3>3. \/ k \in {1, 2} /\ outcomes["ccd"] = <<>>
              \/ k = 3 /\ FirstRead
            BY <1>3, <3>1 DEF CcdInv, CcdPlace, Inside
        <3>4. ASSUME NEW v, Return(v), v \in Nat, v > 0, outcomes["ccd"] # <<"served", "served">>
              PROVE  CcdInv'
            <4>1. pc' = "next" /\ shown' = With(shown, "ccd", v)
                BY <2>2, <3>4, Zenon DEF Return
            <4>2. shown'["ccd"] = v  BY <4>1 DEF With
            <4>3. CcdExact'  BY <3>1, <3>4, <4>2, Zenon DEF CcdExact
            <4>4. CcdPlace'  BY <4>1 DEF CcdPlace, Inside
            <4> QED  BY <4>1, <4>3, <4>4 DEF CcdInv
        <3>5. outcomes["ccd"] # <<"served", "served">>
            <4>1. /\ Len(<<"served", "served">>) = 2 /\ Len(<<"served">>) = 1
                  /\ Len(<<>>) = 0 /\ \A o : Len(<<o>>) = 1 /\ 1 # 2 /\ 0 # 2
                OBVIOUS
            <4> QED  BY <3>3, <4>1, Zenon DEF FirstRead
        <3>6. CASE k = 1 /\ up'
            <4>1. pc' = "ensure" /\ k' = 2 /\ shown' = shown  BY <3>2, <3>6, Zenon DEF GoOn
            <4>2. CcdPlace'  BY <3>1, <3>3, <3>6, <4>1 DEF CcdPlace
            <4> QED  BY <2>5, <3>1, <4>1, <4>2, NoCcdYet
        <3>7. CASE k = 1 /\ ~up'
            <4>1. Return(1)  BY <3>2, <3>7, Zenon
            <4>2. 1 \in Nat /\ 1 > 0  OBVIOUS
            <4> QED  BY <3>4, <3>5, <4>1, <4>2, Zenon
        <3>8. CASE k = 2 /\ ~up'
            <4>1. pc' = "ensure" /\ k' = 3 /\ shown' = shown /\ words' = <<Zero>>
                BY <3>2, <3>8 DEF GoOn
            <4>2. outcomes'["ccd"] = <<>>  BY <3>1, <3>3, <3>8
            <4>3. FirstRead'  BY <4>1, <4>2, Zenon DEF FirstRead
            <4>4. CcdPlace'  BY <4>1, <4>3 DEF CcdPlace
            <4> QED  BY <2>5, <3>1, <4>1, <4>4, NoCcdYet
        <3>9. CASE k # 1 /\ k # 2 /\ ~up'
            <4>1. Return(CountCcds(words[1], Zero))  BY <3>2, <3>9, Zenon
            <4> QED  BY <3>4, <3>5, <4>1, CountPositive, Zenon
        <3>10. CASE k # 1 /\ up'
            <4>1. pc' = "access" /\ k' = k /\ shown' = shown /\ words' = words
                BY <3>2, <3>10, Zenon DEF GoOn
            <4>2. FirstRead => FirstRead'
                BY <1>1, <3>1, <4>1, Zenon DEF FirstRead, Fuse1
            <4>3. CcdPlace'  BY <3>1, <3>3, <3>10, <4>1, <4>2 DEF CcdPlace
            <4> QED  BY <2>5, <3>1, <3>10, <4>1, <4>3, NoCcdYet
        <3> QED  BY <3>6, <3>7, <3>8, <3>9, <3>10, Zenon
    <2>8. CASE AccessSmn  BY <1>3, <2>8, CcdRead
    <2>9. CASE VersionFile
        <3>1. pc = "file"  BY <2>9, FileFacts
        <3> QED  BY <1>3, <3>1 DEF CcdInv, CcdPlace, Inside
    <2>10. CASE OtherInit \/ OtherClose \/ Done \/ UNCHANGED vars
        BY <2>10, CcdIdle, Zenon DEF OtherInit, OtherClose, Done, vars
    <2>11. CASE EnsureRaises
        <3>1. /\ pc = "ensure" /\ outcomes' = outcomes
              /\ IF k # 1 THEN Return(1) ELSE Raise("OSError")
            BY <1>3, <2>11, Zenon DEF EnsureRaises
        <3>2. CASE Raise("OSError")
            <4>1. pc' = "done" /\ shown' = shown  BY <3>2, Zenon DEF Raise
            <4>2. CcdPlace'  BY <4>1 DEF CcdPlace, Inside
            <4> QED  BY <2>5, <3>1, <4>1, <4>2, NoCcdYet
        <3>3. CASE Return(1)
            <4>1. pc' = "next" /\ shown' = With(shown, "ccd", 1)
                BY <2>2, <3>3, Zenon DEF Return
            <4>2. shown'["ccd"] = 1 /\ 1 > 0  BY <4>1 DEF With
            <4>3. outcomes["ccd"] # <<"served", "served">>
                <5>1. outcomes["ccd"] = <<>> \/ FirstRead
                    BY <1>3, <3>1 DEF CcdInv, CcdPlace, Inside
                <5>2. /\ Len(<<"served", "served">>) = 2 /\ Len(<<"served">>) = 1
                      /\ Len(<<>>) = 0 /\ \A o : Len(<<o>>) = 1 /\ 1 # 2 /\ 0 # 2
                    OBVIOUS
                <5> QED  BY <5>1, <5>2, Zenon DEF FirstRead
            <4>4. CcdExact'  BY <3>1, <4>2, <4>3, Zenon DEF CcdExact
            <4>5. CcdPlace'  BY <4>1 DEF CcdPlace, Inside
            <4> QED  BY <4>1, <4>4, <4>5 DEF CcdInv
        <3> QED  BY <3>1, <3>2, <3>3
    <2> QED  BY <2>3, <2>4, <2>6, <2>7, <2>8, <2>9, <2>10, <2>11, Zenon DEF Next
<1> QED  BY <1>2, <1>3

(***************************************************************************)
(* The CCD count is that of the CCDs that are there and not disabled when  *)
(* both fuses have been read, whichever they are, and never 0 (smu.py,     *)
(* get_ccd_count).                                                         *)
(***************************************************************************)
THEOREM CcdsCounted == Spec => []CcdExact
<1>1. Init => CcdInv
    BY DEF Init, CcdInv, CcdPlace, CcdExact, Inside
<1>2. CcdInv => CcdExact  BY DEF CcdInv
<1> QED  BY <1>1, <1>2, Whereabouts, CcdKept, PTL DEF Spec

-----------------------------------------------------------------------------
(* The statuses of send_arg.                                               *)

Statuses == {OK, Rejected, Failed}

\* An entry is the status of the access of its own message.
Tells(status, o) ==
    /\ status = OK <=> o = "served"
    /\ status = Failed <=> o \in {"OSError", "ArgumentError"}

Reports(list, o) ==
    /\ list \in Seq(Statuses) /\ o \in Seq(Outcome)
    /\ Len(list) = Len(o)
    /\ \A i \in 1 .. Len(list) : Tells(list[i], o[i])

StatusOf(o) == IF o = "served" THEN OK ELSE IF o = "refused" THEN Rejected ELSE Failed

LEMMA StatusFacts ==
    ASSUME NEW o \in Outcome, o # "SMUNotInitialized"
    PROVE  StatusOf(o) \in Statuses /\ Tells(StatusOf(o), o)
<1>1. OK # Rejected /\ OK # Failed /\ Rejected # Failed
    <2>1. /\ 2 \in Rejected /\ 2 \in Failed /\ 2 \notin OK
          /\ 1 \in Failed /\ 1 \notin Rejected
        BY DEF OK, Rejected, Failed
    <2> QED  BY <2>1
<1>2. \/ o = "served" /\ StatusOf(o) = OK
      \/ o = "refused" /\ StatusOf(o) = Rejected
      \/ o \in {"OSError", "ArgumentError"} /\ StatusOf(o) = Failed
    BY DEF Outcome, StatusOf
<1>3. "served" \notin {"OSError", "ArgumentError"} /\ "refused" \notin {"OSError", "ArgumentError"}
    OBVIOUS
<1> QED  BY <1>1, <1>2, <1>3, Zenon DEF Tells, Statuses

LEMMA NothingReported == Reports(<<>>, <<>>) /\ Len(<<>>) = 0
  BY DEF Reports

\* One message more keeps the list in step with the outcomes.
LEMMA OneMoreReported ==
    ASSUME NEW list, NEW o, Reports(list, o), NEW x \in Outcome,
           x # "SMUNotInitialized"
    PROVE  /\ Reports(Append(list, StatusOf(x)), Append(o, x))
           /\ Len(Append(list, StatusOf(x))) = Len(list) + 1
<1> DEFINE list2 == Append(list, StatusOf(x))
           o2    == Append(o, x)
<1>1. /\ list \in Seq(Statuses) /\ o \in Seq(Outcome) /\ Len(list) = Len(o)
      /\ \A i \in 1 .. Len(list) : Tells(list[i], o[i])
    BY DEF Reports
<1>2. StatusOf(x) \in Statuses /\ Tells(StatusOf(x), x)  BY StatusFacts
<1>3. /\ list2 \in Seq(Statuses) /\ Len(list2) = Len(list) + 1
      /\ \A i \in 1 .. Len(list) : list2[i] = list[i]
      /\ list2[Len(list) + 1] = StatusOf(x)
    <2>1. StatusOf(x) \in Statuses /\ list \in Seq(Statuses)  BY <1>1, <1>2
    <2> QED  BY <2>1, AppendProperties, SMT
<1>4. /\ o2 \in Seq(Outcome) /\ Len(o2) = Len(o) + 1
      /\ \A i \in 1 .. Len(o) : o2[i] = o[i]
      /\ o2[Len(o) + 1] = x
    <2>1. o \in Seq(Outcome) /\ x \in Outcome  BY <1>1
    <2> QED  BY <2>1, AppendProperties, SMT
<1> HIDE DEF list2, o2
<1>5. Len(list) \in Nat  BY <1>1, LenProperties
<1>6. ASSUME NEW i \in 1 .. Len(list2) PROVE Tells(list2[i], o2[i])
    <2>1. i \in 1 .. Len(list) \/ i = Len(list) + 1  BY <1>3, <1>5
    <2> QED  BY <1>1, <1>2, <1>3, <1>4, <2>1, Zenon
<1>7. Reports(list2, o2)  BY <1>1, <1>3, <1>4, <1>6, Zenon DEF Reports
<1> QED  BY <1>3, <1>7 DEF list2, o2

\* How far send_arg has come.  After the first message only close() can have
\* taken the backend away.
SendPlace ==
    pc \in Inside /\ Making({"send"}) =>
        /\ pc \in {"ensure", "access"}
        /\ Reports(words, outcomes["send"])
        /\ k = Len(words) + 1
        /\ pc = "ensure" => words = <<>>
        /\ words # <<>> /\ ~up => overtaken

SendInv == SendPlace /\ SentIsReported

LEMMA NotYetSent ==
    ASSUME SendPlace', "send" \notin DOMAIN outcomes'
    PROVE  SendInv'
  BY Zenon DEF SendInv, SentIsReported

LEMMA NotYetReported ==
    ASSUME SendPlace', "send" \notin DOMAIN shown', raised' = "none"
    PROVE  SendInv'
  BY Zenon DEF SendInv, SentIsReported

LEMMA SendIdle ==
    ASSUME SendInv, UNCHANGED <<job, program, pc, k, words, shown, raised, outcomes>>,
           \/ up' = up /\ overtaken' = overtaken
           \/ (up' \/ overtaken') /\ raised = "none"
    PROVE  SendInv'
<1>1. Messages' = Messages  BY DEF Messages, Code
<1>2. SendPlace'  BY Zenon DEF SendInv, SendPlace, Making
<1>3. SentIsReported'  BY <1>1, Zenon DEF SendInv, SentIsReported
<1> QED  BY <1>2, <1>3 DEF SendInv

\* The list of all the messages is what is shown.
LEMMA ListReturned ==
    ASSUME Place, Making({"send"}), raised = "none", job' = job, NEW list, Return(list),
           Reports(list, outcomes'["send"]), Len(list) = Len(Messages)
    PROVE  SendInv'
<1>1. /\ pc' = "next" /\ raised' = "none"
      /\ shown' = With(shown, "send", list)
    <2>1. Head(program) = "send"  BY DEF Making
    <2> QED  BY <2>1, Zenon DEF Return
<1>2. shown'["send"] = list  BY <1>1 DEF With
<1>3. Messages' = Messages  BY DEF Messages, Code
<1>4. DOMAIN list = 1 .. Len(list)  BY LenProperties, Zenon DEF Reports
<1>5. SentIsReported'
    BY <1>1, <1>2, <1>3, <1>4, Zenon DEF SentIsReported, Reports, Tells
<1>6. SendPlace'  BY <1>1 DEF SendPlace, Inside
<1> QED  BY <1>5, <1>6 DEF SendInv

\* A message of send_arg ends.
LEMMA MessageSent ==
    ASSUME Place, Ahead, SendInv, Making({"send"}), SendArg
    PROVE  SendInv'
<1> DEFINE old == outcomes["send"]
           new == outcomes'["send"]
<1>1. PICK o \in Outcome :
        /\ Access({"send"}, o)
        /\ IF o = "SMUNotInitialized" THEN Raise(o)
           ELSE IF k = Len(Messages) THEN Return(Append(words, StatusOf(o)))
           ELSE GoOn("access", k + 1) /\ words' = Append(words, StatusOf(o))
    BY Zenon DEF SendArg, StatusOf
<1>2. /\ pc = "access" /\ program # <<>> /\ Head(program) = "send" /\ job' = job
      /\ o = "SMUNotInitialized" <=> ~up
      /\ (up' <=> up) /\ (overtaken' <=> overtaken)
      /\ outcomes' = [outcomes EXCEPT !["send"] = Append(old, o)]
    <2>1. Head(program) = "send"  BY DEF Making
    <2>2. ~Making({"table", "cores"})  BY <2>1 DEF Making
    <2> QED  BY <1>1, <2>1, <2>2, AccessFacts, Zenon
<1>3. "send" \in DOMAIN outcomes  BY <1>2 DEF Ahead, Inside
<1>4. "send" \in DOMAIN outcomes' /\ new = Append(old, o)  BY <1>2, <1>3
<1>5. "send" \notin DOMAIN shown
    <2>1. "send" \in Calls(program)  BY <1>2, RestFacts DEF Place
    <2> QED  BY <1>2, <2>1 DEF Ahead
<1>6. /\ Reports(words, old) /\ k = Len(words) + 1
      /\ words # <<>> /\ ~up => overtaken
    BY <1>2 DEF SendInv, SendPlace, Inside
<1>7. raised = "none"  BY <1>2 DEF Place
<1>8. o # "SMUNotInitialized" => /\ Reports(Append(words, StatusOf(o)), new)
                                 /\ Len(Append(words, StatusOf(o))) = k
    BY <1>4, <1>6, OneMoreReported, Zenon
<1>9. Len(words) \in Nat /\ words \in Seq(Statuses)  BY <1>6, LenProperties DEF Reports
<1>10. CASE o = "SMUNotInitialized"
    <2>1. pc' = "done" /\ shown' = shown  BY <1>1, <1>10, Zenon DEF Raise
    <2>2. ASSUME NEW i \in DOMAIN new, new[i] = "served" PROVE overtaken'
        <3>1. old \in Seq(Outcome) /\ Len(old) = Len(words)  BY <1>6 DEF Reports
        <3>2. /\ DOMAIN new = 1 .. Len(old) + 1
              /\ new[Len(old) + 1] = o
            BY <1>1, <1>4, <3>1, AppendProperties
        <3>3. o # "served"  BY <1>10
        <3>4. i # Len(old) + 1  BY <2>2, <3>2, <3>3, Zenon
        <3>5. Len(words) # 0  BY <1>9, <2>2, <3>1, <3>2, <3>4
        <3>6. words # <<>>  BY <3>5, NothingReported, Zenon
        <3> QED  BY <1>2, <1>6, <1>10, <3>6, Zenon
    <2>3. SentIsReported'  BY <1>5, <2>1, <2>2, Zenon DEF SentIsReported
    <2>4. SendPlace'  BY <2>1 DEF SendPlace, Inside
    <2> QED  BY <2>3, <2>4 DEF SendInv
<1>11. CASE o # "SMUNotInitialized" /\ k = Len(Messages)
    <2>1. Return(Append(words, StatusOf(o)))  BY <1>1, <1>11, Zenon
    <2> QED  BY <1>2, <1>7, <1>8, <1>11, <2>1, ListReturned, Zenon
<1>12. CASE o # "SMUNotInitialized" /\ k # Len(Messages)
    <2>1. /\ pc' = "access" /\ k' = k + 1 /\ shown' = shown /\ raised' = raised
          /\ words' = Append(words, StatusOf(o))
        BY <1>1, <1>12, Zenon DEF GoOn
    <2>2. up'  BY <1>2, <1>12, Zenon
    <2>3. SendPlace'  BY <1>8, <1>12, <2>1, <2>2 DEF SendPlace
    <2> QED  BY <1>5, <1>7, <2>1, <2>3, NotYetReported, Zenon
<1> QED  BY <1>10, <1>11, <1>12

LEMMA SendKept ==
    ASSUME Place, Ahead, SendInv, [Next]_vars
    PROVE  SendInv'
<1>1. job' = job  BY StepIs, Zenon
<1>2. CASE ~Making({"send"})
    <2>1. /\ "send" \in DOMAIN shown' => "send" \in DOMAIN shown /\ shown'["send"] = shown["send"]
          /\ "send" \in DOMAIN outcomes <=> "send" \in DOMAIN outcomes'
          /\ "send" \in DOMAIN outcomes => outcomes'["send"] = outcomes["send"]
          /\ pc' \in Inside => ~Making({"send"})'
        <3>1. "send" # "ccd"  OBVIOUS
        <3> QED  BY <1>2, <3>1, OthersKept, Zenon
    <2>2. SendPlace'  BY <2>1, Zenon DEF SendPlace
    <2>3. CASE "send" \notin DOMAIN outcomes  BY <2>1, <2>2, <2>3, NotYetSent, Zenon
    <2>4. CASE "send" \in DOMAIN outcomes
        <3>1. program = <<>>
            <4>1. <<"send">> # <<>> /\ Head(<<"send">>) = "send"  OBVIOUS
            <4> QED  BY <1>2, <2>4, <4>1, Zenon DEF Ahead, Making
        <3>2. pc \notin Inside /\ (pc # "done" => raised = "none")
            BY <3>1 DEF Place, Making
        <3>3. CASE pc = "done"
            <4>1. UNCHANGED vars  BY <3>3, DoneStays
            <4> QED  BY <4>1, SendIdle, Zenon DEF vars, history
        <3>4. CASE pc # "done"
            <4>1. raised' = "none"
                <5>1. ~Compute /\ ~Start /\ ~Begin /\ ~Ensure /\ ~EnsureRaises /\ ~VersionFile
                    BY <3>1, <3>2 DEF Compute, Start, Begin, Ensure, EnsureRaises, VersionFile,
                                      File, Making, Inside
                <5>2. \A calls, o : ~Access(calls, o)  BY <3>1, AccessFacts, Zenon
                <5>3. ~AccessSmn /\ ~QueryBios /\ ~QueryVersion /\ ~SendArg /\ ~ReadTable
                    BY <5>2, Zenon DEF AccessSmn, QueryBios, QueryVersion, SendArg, ReadTable
                <5>4. raised' = raised
                    BY <5>1, <5>3, Zenon DEF Next, Finish, OtherInit, OtherClose, Done, vars
                <5> QED  BY <3>2, <3>4, <5>4
            <4>2. Messages' = Messages  BY <1>1 DEF Messages, Code
            <4>3. SentIsReported'
                BY <2>1, <2>4, <4>1, <4>2, Zenon DEF SendInv, SentIsReported
            <4> QED  BY <2>2, <4>3 DEF SendInv
        <3> QED  BY <3>3, <3>4
    <2> QED  BY <2>3, <2>4
<1>3. CASE Making({"send"})
    <2>1. "send" \in Reaching  BY DEF Reaching, LibraryCall
    <2>2. program # <<>> /\ Head(program) = "send" /\ "send" \in Calls(program)
        <3>1. program # <<>> /\ Head(program) = "send"  BY <1>3 DEF Making
        <3> QED  BY <3>1, RestFacts DEF Place
    <2>3. ~Compute /\ ~Start /\ ~Finish  BY <1>3, <2>1, NotOthers
    <2>4. ~AccessSmn /\ ~QueryBios /\ ~QueryVersion /\ ~ReadTable
        <3>1. \A calls, o : Access(calls, o) => "send" \in calls
            BY <1>3, OwnAccess, Zenon
        <3>2. /\ "send" \notin {"read_smn", "write_smn", "ccd"} /\ "send" \notin {"bios"}
              /\ "send" \notin {"version"} /\ "send" \notin {"table", "cores"}
            OBVIOUS
        <3> QED  BY <3>1, <3>2, Zenon DEF AccessSmn, QueryBios, QueryVersion, ReadTable
    <2>5. pc # "done" => "send" \notin DOMAIN shown /\ raised = "none"
        BY <2>2 DEF Ahead, Place
    <2>6. CASE Begin
        <3>1. pc = "next" /\ words = <<>> /\ "send" \notin DOMAIN outcomes
            BY <2>2, <2>6 DEF Begin, Ahead, Place
        <3>2. CASE Raise("UnsupportedCPU") /\ outcomes' = outcomes
            <4>1. pc' = "done"  BY <3>2, Zenon DEF Raise
            <4>2. SendPlace'  BY <4>1 DEF SendPlace, Inside
            <4> QED  BY <3>1, <3>2, <4>2, NotYetSent, Zenon
        <3>3. CASE /\ GoOn("ensure", 1) /\ words' = words
                   /\ outcomes' = With(outcomes, Head(program), <<>>)
            <4>1. /\ pc' = "ensure" /\ k' = 1 /\ shown' = shown /\ raised' = raised
                  /\ words' = <<>>
                BY <3>1, <3>3, Zenon DEF GoOn
            <4>2. outcomes'["send"] = <<>>  BY <2>2, <3>3 DEF With
            <4>3. k' = Len(words') + 1  BY <4>1
            <4>4. SendPlace'  BY <4>1, <4>2, <4>3, NothingReported DEF SendPlace
            <4>5. "send" \notin DOMAIN shown /\ raised = "none"  BY <2>5, <3>1
            <4> QED  BY <4>1, <4>4, <4>5, NotYetReported, Zenon
        <3> QED  BY <2>6, <3>2, <3>3, Zenon DEF Begin
    <2>7. CASE Ensure
        <3>1. /\ ~Making({"read_smn", "write_smn"}) /\ ~Making({"ccd"})
              /\ pc = "ensure" /\ outcomes' = outcomes
            BY <2>2, <2>7 DEF Making, Ensure
        <3>2. IF Messages = <<>> THEN Return(<<>>) ELSE GoOn("access", k) /\ words' = words
            BY <1>3, <2>7, <3>1, Zenon DEF Ensure
        <3>3. Reports(words, outcomes["send"]) /\ k = Len(words) + 1 /\ words = <<>>
            BY <1>3, <3>1 DEF SendInv, SendPlace, Inside
        <3>4. "send" \notin DOMAIN shown /\ raised = "none"  BY <2>5, <3>1
        <3>5. CASE Messages = <<>>
            <4>1. Return(<<>>)  BY <3>2, <3>5
            <4>2. Reports(<<>>, outcomes'["send"])  BY <3>1, <3>3, Zenon
            <4>3. Len(<<>>) = Len(Messages)  BY <3>5, Zenon
            <4> QED  BY <1>1, <1>3, <3>4, <4>1, <4>2, <4>3, ListReturned, Zenon
        <3>6. CASE Messages # <<>>
            <4>1. /\ pc' = "access" /\ k' = k /\ shown' = shown /\ raised' = raised
                  /\ words' = words
                BY <3>2, <3>6, Zenon DEF GoOn
            <4>2. Reports(words', outcomes'["send"])  BY <3>1, <3>3, <4>1, Zenon
            <4>3. k' = Len(words') + 1  BY <3>3, <4>1, Zenon
            <4>4. SendPlace'  BY <3>3, <4>1, <4>2, <4>3 DEF SendPlace
            <4> QED  BY <3>4, <4>1, <4>4, NotYetReported, Zenon
        <3> QED  BY <3>5, <3>6
    <2>8. CASE SendArg  BY <1>3, <2>8, MessageSent
    <2>9. CASE VersionFile
        <3>1. pc = "file"  BY <2>9, FileFacts
        <3> QED  BY <1>3, <3>1 DEF SendInv, SendPlace, Inside
    <2>10. CASE OtherInit \/ OtherClose
        <3>1. /\ UNCHANGED <<job, program, pc, k, words, shown, raised, outcomes>>
              /\ pc # "done" /\ (up' \/ overtaken')
            BY <2>10, Zenon DEF OtherInit, OtherClose
        <3> QED  BY <2>5, <3>1, SendIdle, Zenon
    <2>11. CASE Done \/ UNCHANGED vars
        <3>1. UNCHANGED vars  BY <2>11, Zenon DEF Done
        <3>2. /\ UNCHANGED <<job, program, pc, k, words, shown, raised, outcomes>>
              /\ up' = up /\ overtaken' = overtaken
            BY <3>1, Zenon DEF vars, history
        <3> QED  BY <3>2, SendIdle, Zenon
    <2>12. CASE EnsureRaises
        <3>1. pc = "ensure" /\ outcomes' = outcomes /\ Raise("OSError")
            <4>1. ~Making({"ccd"})  BY <2>2 DEF Making
            <4> QED  BY <2>12, <4>1, Zenon DEF EnsureRaises
        <3>2. pc' = "done" /\ shown' = shown  BY <3>1, Zenon DEF Raise
        <3>3. "send" \notin DOMAIN shown'  BY <2>5, <3>1, <3>2
        <3>4. {outcomes'["send"][i] : i \in DOMAIN outcomes'["send"]} = {}
            <4>1. Reports(words, outcomes["send"]) /\ words = <<>>
                BY <1>3, <3>1 DEF SendInv, SendPlace, Inside
            <4>2. outcomes["send"] \in Seq(Outcome) /\ Len(outcomes["send"]) = 0
                BY <4>1, NothingReported DEF Reports
            <4> QED  BY <3>1, <4>2
        <3>5. SentIsReported'  BY <3>3, <3>4, Zenon DEF SentIsReported
        <3>6. SendPlace'  BY <3>2 DEF SendPlace, Inside
        <3> QED  BY <3>5, <3>6 DEF SendInv
    <2> QED  BY <2>3, <2>4, <2>6, <2>7, <2>8, <2>9, <2>10, <2>11, <2>12, Zenon DEF Next
<1> QED  BY <1>2, <1>3

(***************************************************************************)
(* send_arg has a status for every message of the argument, in order, and  *)
(* each is that of its own access: OK where the SMU has answered OK, and   *)
(* SMU_FAILED where it has raised.  A list that an exception takes away    *)
(* after the SMU has answered OK to a message, a close() has cost          *)
(* (smu.py:192-213, send_arg).                                             *)
(***************************************************************************)
THEOREM EveryMessageReported == Spec => []SentIsReported
<1>1. Init => SendInv
    BY DEF Init, SendInv, SendPlace, SentIsReported, Inside
<1>2. SendInv => SentIsReported  BY DEF SendInv
<1> QED  BY <1>1, <1>2, Whereabouts, SendKept, PTL DEF Spec

-----------------------------------------------------------------------------
(* The cells of the cores.                                                 *)

\* The array of x has n cells before another array begins.
RoomOf(bases, x, n) ==
    \A y \in DOMAIN bases \ {x} : bases[y] < bases[x] \/ bases[y] >= bases[x] + 4 * n

\* So has that of every metric a core needs.
Room(bases, n) ==
    /\ Core \subseteq DOMAIN bases /\ DOMAIN bases \subseteq Metric
    /\ \A x \in DOMAIN bases : bases[x] \in Nat
    /\ \A x \in Core : RoomOf(bases, x, n)

\* The temperatures follow the voltages of n cores, and there is room for the
\* others up to 16.
Follows(bases, n) ==
    bases["temp"] = bases["volt"] + 4 * n /\ RoomOf(bases, "temp", 16 - n)

LEMMA RoomPicasso == Room(Picasso, 8)
  BY DEF Room, RoomOf, Picasso, Main, Core, Metric
LEMMA RoomMatisse == Room(Matisse, 8) /\ Follows(Matisse, 8)
  BY DEF Room, RoomOf, Follows, Matisse, Full, Core, Metric
LEMMA RoomApus == \A b \in {Lucienne, Renoir, EarlyCezanne, Rembrandt} : Room(b, 8) /\ Follows(b, 8)
  BY DEF Room, RoomOf, Follows, Lucienne, Renoir, EarlyCezanne, Rembrandt, Main, Core, Metric
LEMMA RoomVanGogh == Room(VanGogh, 4) /\ Follows(VanGogh, 4)
  BY DEF Room, RoomOf, Follows, VanGogh, Main, Core, Metric
LEMMA RoomStrix == Room(StrixPoint, 12) /\ Follows(StrixPoint, 12)
  BY DEF Room, RoomOf, Follows, StrixPoint, Full, Core, Metric
LEMMA RoomNarrow == /\ Room(Raphael, 8) /\ Follows(Raphael, 8)
                    /\ Room(Granite, 8) /\ Follows(Granite, 8)
  BY DEF Room, RoomOf, Follows, Raphael, Granite, Full, Core, Metric
LEMMA RoomWide == Room(StrixHalo, 16) /\ Room(WideRaphael, 16) /\ Room(WideGranite, 16)
  BY DEF Room, RoomOf, StrixHalo, WideRaphael, WideGranite, Full, Core, Metric

LEMMA BasesAre ==
    ASSUME NEW ver
    PROVE  \/ Prefix(ver) = \h1e /\ Bases(ver) = Picasso
           \/ Bases(ver) \in {Matisse, Lucienne, Renoir, EarlyCezanne, Rembrandt, Raphael, Granite}
           \/ Bases(ver) \in {VanGogh, StrixPoint}
           \/ Bases(ver) \in {StrixHalo, WideRaphael, WideGranite}
           \/ Bases(ver) = <<>>
<1> DEFINE b == Bases(ver)
           f == Prefix(ver)
<1>1. \/ f = \h1e /\ b = Picasso
      \/ f = \h37 /\ b \in {Lucienne, Renoir}
      \/ f \in {\h40, \h45, \h4c} /\ b \in {EarlyCezanne, Rembrandt}
      \/ f \in {\h24, \h2d, \h38} /\ b = Matisse
      \/ f = \h3f /\ b = VanGogh
      \/ f \in {\h5d, \h65} /\ b = StrixPoint
      \/ f = \h64 /\ b = StrixHalo
      \/ f = \h54 /\ b = IF Wide(ver) THEN WideRaphael ELSE Raphael
      \/ f = \h62 /\ b = IF Wide(ver) THEN WideGranite ELSE Granite
      \/ b = <<>>
    BY SMT DEF Bases
<1> HIDE DEF b
<1> QED  BY <1>1, SMT DEF b

LEMMA Counts ==
    ASSUME NEW ver, NEW ccds \in {1, 2}
    PROVE  /\ CoreCount(ver, ccds) \in 0 .. 16
           /\ ccds = 1 /\ Prefix(ver) = \h1e => CoreCount(ver, ccds) <= 8
  BY SMT DEF CoreCount, Wide

\* There is room for every core, or what is taken for the voltage of the first
\* without any is a temperature.
LEMMA TrueCount ==
    ASSUME NEW ver, NEW ccds \in {1, 2}, ccds = 2 => Prefix(ver) # \h1e
    PROVE  \/ Bases(ver) = <<>>
           \/ \E n \in Nat : Room(Bases(ver), n) /\ CoreCount(ver, ccds) <= n
           \/ \E n \in {4, 8, 12} : Room(Bases(ver), n) /\ Follows(Bases(ver), n)
<1>1. CASE Prefix(ver) = \h1e /\ Bases(ver) = Picasso
    <2>1. ccds = 1  BY <1>1
    <2>2. CoreCount(ver, ccds) <= 8 /\ 8 \in Nat  BY <1>1, <2>1, Counts
    <2> QED  BY <1>1, <2>2, RoomPicasso, Zenon
<1>2. CASE Bases(ver) \in {Matisse, Lucienne, Renoir, EarlyCezanne, Rembrandt, Raphael, Granite}
    BY <1>2, RoomMatisse, RoomApus, RoomNarrow, Zenon
<1>3. CASE Bases(ver) \in {VanGogh, StrixPoint}
    BY <1>3, RoomVanGogh, RoomStrix, Zenon
<1>4. CASE Bases(ver) \in {StrixHalo, WideRaphael, WideGranite}
    <2>1. CoreCount(ver, ccds) <= 16 /\ 16 \in Nat  BY Counts
    <2> QED  BY <1>4, <2>1, RoomWide, Zenon
<1> QED  BY <1>1, <1>2, <1>3, <1>4, BasesAre, Zenon

\* An offset within the room of an array lies in it.
LEMMA WithinRoom ==
    ASSUME NEW bases, NEW x \in DOMAIN bases, \A y \in DOMAIN bases : bases[y] \in Nat,
           NEW n \in Nat, RoomOf(bases, x, n), NEW d \in Nat, d < n
    PROVE  ArrayAt(bases, bases[x] + 4 * d) = x
<1> DEFINE off     == bases[x] + 4 * d
           under   == {y \in DOMAIN bases : bases[y] <= off}
           Last(y) == y \in under /\ \A z \in under : bases[z] <= bases[y]
<1>1. \A y \in DOMAIN bases \ {x} : bases[y] < bases[x] \/ bases[y] >= bases[x] + 4 * n
    BY DEF RoomOf
<1>2. off = bases[x] + 4 * d /\ off \in Nat  OBVIOUS
<1> HIDE DEF off
<1>3. Last(x)
    <2>1. x \in under  BY <1>2
    <2>2. ASSUME NEW z \in under PROVE bases[z] <= bases[x]
        BY <1>1, <1>2, <2>2
    <2> QED  BY <2>1, <2>2
<1>4. ASSUME NEW y, Last(y) PROVE y = x
    <2>1. bases[x] <= bases[y] /\ y \in DOMAIN bases /\ bases[y] <= off
        BY <1>3, <1>4
    <2> QED  BY <1>1, <1>2, <2>1
<1> HIDE DEF under
<1>5. (CHOOSE y \in under : \A z \in under : bases[z] <= bases[y]) = x
    BY <1>3, <1>4
<1> QED  BY <1>5 DEF ArrayAt, under, off

\* The cell at a place of an array.
LEMMA CellWithin ==
    ASSUME NEW ver, NEW size, NEW m \in DOMAIN Bases(ver), NEW c \in Nat,
           Cell(ver, size, m, c) # NoCell,
           NEW x, NEW d \in Nat, Bases(ver)[x] \in Nat,
           Bases(ver)[m] + 4 * c = Bases(ver)[x] + 4 * d,
           ArrayAt(Bases(ver), Bases(ver)[x] + 4 * d) = x
    PROVE  Cell(ver, size, m, c) = [metric |-> x, core |-> d]
<1> DEFINE bases == Bases(ver)
           off   == bases[m] + 4 * c
<1>1. ArrayAt(bases, off) = x
    <2>1. off = bases[x] + 4 * d  OBVIOUS
    <2> HIDE DEF off
    <2> QED  BY <2>1
<1>2. (off - bases[x]) \div 4 = d
    <2>1. off = bases[x] + 4 * d  OBVIOUS
    <2> HIDE DEF off, bases
    <2> QED  BY <2>1 DEF bases
<1>3. Cell(ver, size, m, c) = [metric |-> ArrayAt(bases, off),
                               core |-> (off - bases[ArrayAt(bases, off)]) \div 4]
    BY DEF Cell
<1> HIDE DEF off, bases
<1> QED  BY <1>1, <1>2, <1>3

LEMMA Distrusted ==
    ASSUME NEW state \in {"parked"} \cup Load
    PROVE  ~(Typical[state]["temp"] < Limit["volt"])
  BY SMT DEF Load, Typical, Full, Limit, Main

\* A core is listed with cells of its own.
LEMMA ListedOwn ==
    ASSUME NEW ver, NEW size, NEW ccds \in {1, 2}, NEW load \in Load, NEW parked,
           ccds = 2 => Prefix(ver) # \h1e,
           NEW entry \in CoreSensorsOf(ver, size, ccds, load, parked), NEW m \in Core
    PROVE  entry.cells[m] = [metric |-> m, core |-> entry.core]
<1> DEFINE n == CoreCount(ver, ccds)
           State(cell) == IF cell.core \in parked THEN "parked" ELSE load
           value(cell) == Typical[State(cell)][cell.metric]
           believed(x, c) == LET cell == Cell(ver, size, x, c)
                             IN  cell # NoCell /\ 0 < value(cell) /\ value(cell) < Limit[x]
<1>1. PICK c \in 0 .. n - 1 :
          /\ entry = [core |-> c, cells |-> [x \in Metric |-> Cell(ver, size, x, c)]]
          /\ \A x \in Core : believed(x, c)
    BY DEF CoreSensorsOf
<1>2. Bases(ver) # <<>>  BY DEF CoreSensorsOf
<1>3. entry.core = c /\ entry.cells[m] = Cell(ver, size, m, c)  BY <1>1 DEF Metric
<1>4. \A x \in Core : Cell(ver, size, x, c) # NoCell  BY <1>1
<1>5. n \in 0 .. 16  BY Counts
<1> HIDE DEF n
<1>6. c \in Nat /\ c < n  BY <1>5
<1>7. ASSUME NEW y \in Core, NEW x \in Core, NEW d \in Nat, NEW r \in Nat, NEW q \in Nat,
             Room(Bases(ver), r), RoomOf(Bases(ver), x, q), d < q,
             Bases(ver)[y] + 4 * c = Bases(ver)[x] + 4 * d
      PROVE  Cell(ver, size, y, c) = [metric |-> x, core |-> d]
    <2>1. /\ x \in DOMAIN Bases(ver) /\ y \in DOMAIN Bases(ver)
          /\ \A z \in DOMAIN Bases(ver) : Bases(ver)[z] \in Nat
        BY <1>7 DEF Room
    <2>2. ArrayAt(Bases(ver), Bases(ver)[x] + 4 * d) = x  BY <1>7, <2>1, WithinRoom
    <2>3. Cell(ver, size, y, c) # NoCell  BY <1>4
    <2> QED  BY <1>6, <1>7, <2>1, <2>2, <2>3, CellWithin
<1>8. ASSUME NEW r \in Nat, Room(Bases(ver), r), c < r
      PROVE  Cell(ver, size, m, c) = [metric |-> m, core |-> c]
    <2>1. RoomOf(Bases(ver), m, r)  BY <1>8 DEF Room
    <2> QED  BY <1>6, <1>7, <1>8, <2>1
<1>9. ASSUME NEW r \in Nat, Room(Bases(ver), r), n <= r
      PROVE  Cell(ver, size, m, c) = [metric |-> m, core |-> c]
    BY <1>5, <1>6, <1>8, <1>9
<1>10. ASSUME NEW r \in {4, 8, 12}, Room(Bases(ver), r), Follows(Bases(ver), r)
       PROVE  Cell(ver, size, m, c) = [metric |-> m, core |-> c]
    <2>1. CASE c < r  BY <1>8, <1>10, <2>1
    <2>2. CASE ~(c < r)
        <3> DEFINE cell == Cell(ver, size, "volt", c)
                   bases == Bases(ver)
        <3>1. "volt" \in Core /\ "temp" \in Core  BY DEF Core
        <3>2. bases["volt"] \in Nat  BY <1>10, <3>1 DEF Room
        <3>3. /\ r \in Nat /\ 16 - r \in Nat /\ c - r \in Nat /\ c - r < 16 - r
              /\ bases["volt"] + 4 * c = bases["temp"] + 4 * (c - r)
            BY <1>5, <1>6, <1>10, <2>2, <3>2 DEF Follows
        <3>4. RoomOf(bases, "temp", 16 - r)  BY <1>10 DEF Follows
        <3>5. cell = [metric |-> "temp", core |-> c - r]
            BY <1>7, <1>10, <3>1, <3>3, <3>4
        <3>6. value(cell) = Typical[State(cell)]["temp"]  BY <3>5
        <3>7. State(cell) \in {"parked"} \cup Load  OBVIOUS
        <3>8. value(cell) < Limit["volt"]  BY <1>1, <3>1
        <3> QED  BY <3>6, <3>7, <3>8, Distrusted
    <2> QED  BY <2>1, <2>2
<1>11. Cell(ver, size, m, c) = [metric |-> m, core |-> c]
    BY <1>2, <1>9, <1>10, TrueCount DEF n
<1> QED  BY <1>3, <1>11

\* Every array has room for every core, within the table.
Complete(ver) ==
    LET n == CoreCount(ver, 1)
    IN  /\ TableSize[ver] \in Nat
        /\ \A m \in DOMAIN Bases(ver) :
              RoomOf(Bases(ver), m, n) /\ Bases(ver)[m] + 4 * n <= TableSize[ver]

LEMMA Trusted ==
    ASSUME NEW load \in Load, NEW m \in Core
    PROVE  0 < Typical[load][m] /\ Typical[load][m] < Limit[m]
  BY SMT DEF Load, Core, Typical, Full, Limit, Main

\* A core that runs is listed.
LEMMA CompleteLists ==
    ASSUME NEW ver, Complete(ver), Bases(ver) # <<>>, NEW load \in Load, NEW parked,
           NEW c \in 0 .. CoreCount(ver, 1) - 1, c \notin parked
    PROVE  \E entry \in CoreSensorsOf(ver, TableSize[ver], 1, load, parked) :
              /\ entry.core = c
              /\ \A m \in DOMAIN Bases(ver) : entry.cells[m] = [metric |-> m, core |-> c]
<1> DEFINE n     == CoreCount(ver, 1)
           size  == TableSize[ver]
           entry == [core |-> c, cells |-> [m \in Metric |-> Cell(ver, size, m, c)]]
<1>1. /\ Core \subseteq DOMAIN Bases(ver) /\ DOMAIN Bases(ver) \subseteq Metric
      /\ \A m \in DOMAIN Bases(ver) : Bases(ver)[m] \in Nat
    <2>1. \E r : Room(Bases(ver), r)  BY TrueCount
    <2> QED  BY <2>1 DEF Room
<1>2. n \in 0 .. 16  BY Counts
<1>3. /\ size \in Nat
      /\ \A m \in DOMAIN Bases(ver) :
            RoomOf(Bases(ver), m, n) /\ Bases(ver)[m] + 4 * n <= size
    BY DEF Complete
<1> HIDE DEF n, size
<1>4. c \in Nat /\ c < n /\ n \in Nat  BY <1>2 DEF n
<1>5. ASSUME NEW m \in DOMAIN Bases(ver)
      PROVE  Cell(ver, size, m, c) = [metric |-> m, core |-> c]
    <2> DEFINE bases == Bases(ver)
               off   == bases[m] + 4 * c
    <2>1. bases[m] \in Nat /\ bases[m] + 4 * n <= size  BY <1>1, <1>3
    <2>2. ~(off + 4 > size)  BY <1>2, <1>3, <1>4, <2>1
    <2>3. ArrayAt(bases, off) = m  BY <1>1, <1>3, <1>4, WithinRoom
    <2>4. (off - bases[m]) \div 4 = c
        <3> HIDE DEF bases
        <3> QED  BY <1>4, <2>1
    <2>5. Cell(ver, size, m, c) = [metric |-> ArrayAt(bases, off),
                                   core |-> (off - bases[ArrayAt(bases, off)]) \div 4]
        BY <2>2 DEF Cell
    <2> HIDE DEF off, bases
    <2> QED  BY <2>3, <2>4, <2>5
<1>6. Bases(ver)["power"] \in Nat /\ Bases(ver)["power"] + 4 * n <= size
    <2>1. "power" \in DOMAIN Bases(ver)  BY <1>1 DEF Core
    <2> QED  BY <1>1, <1>3, <2>1
<1>7. ~(size < 4)  BY <1>3, <1>4, <1>6
<1>8. ASSUME NEW m \in Core
      PROVE  LET cell  == Cell(ver, size, m, c)
                 value == Typical[IF cell.core \in parked THEN "parked" ELSE load][cell.metric]
             IN  cell # NoCell /\ 0 < value /\ value < Limit[m]
    <2>1. Cell(ver, size, m, c) = [metric |-> m, core |-> c]  BY <1>1, <1>5
    <2>2. [metric |-> m, core |-> c] # NoCell
        <3>1. m # "none"  BY DEF Core
        <3> QED  BY <3>1 DEF NoCell
    <2> QED  BY <2>1, <2>2, Trusted
<1>9. entry \in CoreSensorsOf(ver, size, 1, load, parked)
    BY <1>7, <1>8 DEF CoreSensorsOf, n
<1>10. \A m \in DOMAIN Bases(ver) : entry.cells[m] = [metric |-> m, core |-> c]
    BY <1>1, <1>5
<1>11. entry.core = c  OBVIOUS
<1> HIDE DEF entry
<1> QED  BY <1>9, <1>10, <1>11 DEF size

-----------------------------------------------------------------------------
(* The cores that are shown.                                               *)

\* What the two calls that list cores show.
Listed(c) == Cores(IF c = "cores" THEN 1 ELSE job.ccds)

\* Only the version is looked for in a file.
FilePlace == pc = "file" => Making({"version"})

CoresInv ==
    /\ FilePlace
    /\ \A c \in {"cores", "decode"} : c \in DOMAIN shown => shown[c] = Listed(c)

LEMMA FileKept ==
    ASSUME Place, FilePlace, [Next]_vars
    PROVE  FilePlace'
<1>1. ASSUME NEW v, Return(v) PROVE FilePlace'
    <2>1. pc' = "next"  BY <1>1, Zenon DEF Return
    <2> QED  BY <2>1 DEF FilePlace
<1>2. ASSUME NEW e, Raise(e) PROVE FilePlace'
    <2>1. pc' = "done"  BY <1>2, Zenon DEF Raise
    <2> QED  BY <2>1 DEF FilePlace
<1>3. ASSUME NEW l \in {"ensure", "access"}, NEW n, GoOn(l, n) PROVE FilePlace'
    <2>1. pc' = l /\ l # "file"  BY <1>3 DEF GoOn
    <2> QED  BY <2>1 DEF FilePlace
<1>4. "ensure" \in {"ensure", "access"} /\ "access" \in {"ensure", "access"}  OBVIOUS
<1>5. pc' = "done" => FilePlace'  BY DEF FilePlace
<1>6. Compute => FilePlace'  BY <1>1, Zenon DEF Compute
<1>7. Start => FilePlace'  BY <1>1, <1>2, <1>5, Zenon DEF Start
<1>8. Begin => FilePlace'  BY <1>2, <1>3, <1>4, Zenon DEF Begin
<1>9. Ensure \/ EnsureRaises => FilePlace'
    BY <1>1, <1>2, <1>3, <1>4, Zenon DEF Ensure, EnsureRaises
<1>10. AccessSmn \/ SendArg => FilePlace'
    BY <1>1, <1>2, <1>3, <1>4, Zenon DEF AccessSmn, SendArg
<1>11. QueryBios \/ ReadTable => FilePlace'
    BY <1>1, <1>2, <1>5, Zenon DEF QueryBios, ReadTable
<1>12. CASE QueryVersion
    <2>1. PICK o : /\ Access({"version"}, o)
                   /\ \/ \E v : Return(v)
                      \/ GoOn("access", 2)
                      \/ GoOn("file", 3)
                      \/ Raise(o)
        BY <1>12, Zenon DEF QueryVersion
    <2>2. CASE GoOn("file", 3)
        <3>1. Making({"version"})  BY <2>1, Zenon DEF Access
        <3>2. program' = program  BY <2>2, Zenon DEF GoOn
        <3> QED  BY <3>1, <3>2, Zenon DEF FilePlace, Making
    <2> QED  BY <1>1, <1>2, <1>3, <1>4, <2>1, <2>2, Zenon
<1>13. Finish => FilePlace'  BY <1>5, Zenon DEF Finish
<1>14. CASE OtherInit \/ OtherClose \/ Done \/ UNCHANGED vars
    <2>1. UNCHANGED <<pc, program>>  BY <1>14, Zenon DEF OtherInit, OtherClose, Done, vars
    <2> QED  BY <2>1, Zenon DEF FilePlace, Making
<1>15. CASE VersionFile
    <2>1. /\ pc = "file"
          /\ \/ \E v : Return(v)
             \/ \E n : GoOn("file", n)
        BY <1>15, FileFacts, Zenon
    <2>2. CASE \E n : GoOn("file", n)
        <3>1. program' = program  BY <2>2, Zenon DEF GoOn
        <3> QED  BY <2>1, <3>1, Zenon DEF FilePlace, Making
    <2> QED  BY <1>1, <2>1, <2>2, Zenon
<1> QED
    BY <1>6, <1>7, <1>8, <1>9, <1>10, <1>11, <1>12, <1>13, <1>14, <1>15, Zenon DEF Next

\* A step of a call that lists cores shows what it lists.
LEMMA CoresShown ==
    ASSUME Place, FilePlace, [Next]_vars, NEW c \in {"cores", "decode"}, Making({c}),
           c \in DOMAIN shown'
    PROVE  \/ c \in DOMAIN shown /\ shown'[c] = shown[c]
           \/ shown'[c] = Listed(c)
<1>1. program # <<>> /\ Head(program) = c  BY Zenon DEF Making
<1>2. ASSUME NEW v, Return(v) PROVE shown'[c] = v
    <2>1. shown' = With(shown, c, v)  BY <1>1, <1>2, Zenon DEF Return
    <2> QED  BY <2>1 DEF With
<1>3. CASE Compute
    <2>1. c = "decode" /\ Return(Cores(job.ccds))  BY <1>1, <1>3 DEF Compute, Making
    <2>2. Listed(c) = Cores(job.ccds)  BY <2>1 DEF Listed
    <2> QED  BY <1>2, <2>1, <2>2, Zenon
<1>4. CASE ReadTable
    <2>1. PICK o : /\ Access({"table", "cores"}, o)
                   /\ IF o = "served"
                      THEN Return(IF Making({"cores"}) THEN Cores(1) ELSE TableWord)
                      ELSE shown' = shown
        BY <1>4, Zenon DEF ReadTable, Raise
    <2>2. c = "cores"  BY <1>1, <2>1 DEF Access, Making
    <2>3. Making({"cores"})  BY <1>1, <2>2 DEF Making
    <2>4. CASE o = "served"
        <3>1. Return(Cores(1))  BY <2>1, <2>3, <2>4, Zenon
        <3>2. Listed(c) = Cores(1)  BY <2>2 DEF Listed
        <3> QED  BY <1>2, <3>1, <3>2, Zenon
    <2>5. CASE o # "served"  BY <2>1, <2>5, Zenon
    <2> QED  BY <2>4, <2>5, Zenon
<1>5. CASE ~Compute /\ ~ReadTable
    <2>1. ~Start  BY <1>1 DEF Start, Making
    <2>2. ASSUME NEW calls, NEW o, c \notin calls PROVE ~Access(calls, o)
        BY <1>1, <2>2 DEF Access, Making
    <2>3. /\ c \notin {"read_smn", "write_smn", "ccd"} /\ c \notin {"bios"}
          /\ c \notin {"version"} /\ c \notin {"send"}
        OBVIOUS
    <2>4. ~AccessSmn /\ ~QueryBios /\ ~QueryVersion /\ ~SendArg
        BY <2>2, <2>3, Zenon DEF AccessSmn, QueryBios, QueryVersion, SendArg
    <2>5. Ensure => shown' = shown  BY <1>1, <2>3 DEF Ensure, GoOn, Making
    <2>6. ~VersionFile
        <3>1. VersionFile => Making({"version"})  BY FileFacts, Zenon DEF FilePlace
        <3> QED  BY <1>1, <3>1 DEF Making
    <2>7. Begin => shown' = shown  BY Zenon DEF Begin, Raise, GoOn
    <2>8. EnsureRaises => shown' = shown
        <3>1. ~Making({"ccd"})  BY <1>1, <2>3 DEF Making
        <3> QED  BY <3>1, Zenon DEF EnsureRaises, Raise
    <2>9. shown' = shown
        BY <1>5, <2>1, <2>4, <2>5, <2>6, <2>7, <2>8, Zenon
           DEF Next, Finish, OtherInit, OtherClose, Done, vars
    <2> QED  BY <2>9
<1> QED  BY <1>3, <1>4, <1>5, Zenon

LEMMA CoresKept ==
    ASSUME Place, Ahead, CoresInv, [Next]_vars
    PROVE  CoresInv'
<1>1. job' = job  BY StepIs, Zenon
<1>2. ASSUME NEW c \in {"cores", "decode"}, c \in DOMAIN shown' PROVE shown'[c] = Listed(c)
    <2>1. ASSUME c \in DOMAIN shown, shown'[c] = shown[c] PROVE shown'[c] = Listed(c)
        BY <1>2, <2>1, Zenon DEF CoresInv
    <2>2. CASE ~Making({c})
        <3>1. c # "ccd"  BY <1>2
        <3> QED  BY <1>2, <2>1, <2>2, <3>1, OthersKept, Zenon
    <2>3. CASE Making({c})  BY <1>2, <2>1, <2>3, CoresShown, Zenon DEF CoresInv
    <2> QED  BY <2>2, <2>3
<1>3. \A c : Listed(c)' = Listed(c)  BY <1>1 DEF Listed, Cores
<1> QED  BY <1>2, <1>3, FileKept, Zenon DEF CoresInv

LEMMA CoresAlways == Spec => [](Place /\ CoresInv)
<1>1. Init => CoresInv  BY DEF Init, CoresInv, FilePlace
<1> QED  BY <1>1, Whereabouts, CoresKept, PTL DEF Spec

(***************************************************************************)
(* For up to two CCDs, one with the tables 0x1E: a core that is listed has *)
(* the power, voltage, temperature and clock of its own cells, for every   *)
(* version of the table, every size, both loads and whichever cores are    *)
(* parked (sensors.py:651-794, read_core_sensors).  Nothing is said of the *)
(* other metrics of its entry.                                             *)
(***************************************************************************)
THEOREM CoresListedOwn == Spec => []SensorsAreOwn
<1>1. ASSUME Place, CoresInv PROVE SensorsAreOwn
    <2> SUFFICES ASSUME NEW c \in DOMAIN shown \cap {"cores", "decode"},
                        c = "cores" \/ Possible(job.ccds),
                        NEW entry \in shown[c], NEW m \in Core
                 PROVE  entry.cells[m] = [metric |-> m, core |-> entry.core]
        BY Zenon DEF SensorsAreOwn
    <2> DEFINE ccds == IF c = "cores" THEN 1 ELSE job.ccds
    <2>1. job.load \in Load  BY <1>1, JobsAssumption, Zenon DEF Place
    <2>2. ccds \in {1, 2} /\ (ccds = 2 => Prefix(job.ver) # \h1e)
        <3>1. 1 \in {1, 2} /\ 1 # 2  OBVIOUS
        <3> QED  BY <3>1, Zenon DEF Possible
    <2>3. entry \in Cores(ccds)  BY <1>1, Zenon DEF CoresInv, Listed
    <2> HIDE DEF ccds
    <2> QED  BY <2>1, <2>2, <2>3, ListedOwn DEF Cores
<1> QED  BY <1>1, CoresAlways, PTL

(***************************************************************************)
(* Where every array of a layout has room for every core within the table, *)
(* each core that runs is listed, with its own cells of all the metrics    *)
(* (sensors.py, read_core_sensors).                                        *)
(***************************************************************************)
THEOREM RunningListed == Spec => [](Complete(job.ver) => RunningCoresListed)
<1>1. ASSUME Place, CoresInv, Complete(job.ver) PROVE RunningCoresListed
    <2> SUFFICES ASSUME "cores" \in DOMAIN shown,
                        NEW c \in 0 .. CoreCount(job.ver, 1) - 1,
                        c \notin job.parked, Bases(job.ver) # <<>>
                 PROVE  \E entry \in shown["cores"] :
                           /\ entry.core = c
                           /\ \A m \in DOMAIN Bases(job.ver) :
                                 entry.cells[m] = [metric |-> m, core |-> c]
        BY Zenon DEF RunningCoresListed
    <2>1. job.load \in Load  BY <1>1, JobsAssumption, Zenon DEF Place
    <2>2. shown["cores"] = CoreSensorsOf(job.ver, TableSize[job.ver], 1, job.load, job.parked)
        BY <1>1 DEF CoresInv, Listed, Cores
    <2> QED  BY <1>1, <2>1, <2>2, CompleteLists
<1> QED  BY <1>1, CoresAlways, PTL
=============================================================================
