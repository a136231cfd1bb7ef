------------------------------ MODULE CpuDetect ------------------------------
(***************************************************************************)
(* zenmaster/hardware.py: the code name and the type of a processor, from  *)
(* the family and model numbers of CPUID and from marks in its brand       *)
(* string; and the two tables by which the rest of the program knows a     *)
(* code name, _FAMILY_SOCKET (runner.py) and PM_TABLE_CMDS (pmtable.py).   *)
(***************************************************************************)
EXTENDS Integers, Sequences

\* What the code looks for in a brand string ("15e" stands for the three model
\* numbers of a Pollock).
Mark == {"Intel", "threadripper", "epyc", "colfax", "raven", "15e", "hx", "sonoma"}

Unmarked == "no mark"

\* One case of the dispatch.
In(lo, hi, mark, code) == [lo |-> lo, hi |-> hi, mark |-> mark, code |-> code]
At(model, mark, code)  == In(model, model, mark, code)

Zen1And2 ==
    <<At(1, "threadripper", "Threadripper"), At(1, "epyc", "Naples"),
      At(1, Unmarked, "SummitRidge"), At(8, "threadripper", "Colfax"),
      At(8, "colfax", "Colfax"), At(8, Unmarked, "PinnacleRidge"),
      In(17, 18, Unmarked, "RavenRidge"), At(24, "raven", "RavenRidge2"),
      At(24, Unmarked, "Picasso"), At(32, "15e", "Pollock"), At(32, Unmarked, "Dali"),
      At(48, Unmarked, "Rome"), At(49, Unmarked, "CastlePeak"),
      In(50, 63, "threadripper", "CastlePeak"), In(50, 63, Unmarked, "Rome"),
      At(80, Unmarked, "FireFlight"), At(96, Unmarked, "Renoir"), At(104, Unmarked, "Lucienne"),
      At(113, Unmarked, "Matisse"), In(144, 145, Unmarked, "VanGogh"), At(160, Unmarked, "Mendocino")>>

Zen3And4 ==
    <<At(1, Unmarked, "Milan"), At(8, Unmarked, "Chagall"),
      In(16, 31, "threadripper", "StormPeak"), In(16, 31, Unmarked, "Genoa"),
      In(32, 33, Unmarked, "Vermeer"), At(63, Unmarked, "Rembrandt"), At(64, Unmarked, "Rembrandt"),
      At(68, Unmarked, "Rembrandt"), At(80, Unmarked, "Cezanne_Barcelo"), At(97, "hx", "DragonRange"),
      At(97, Unmarked, "Raphael"), At(116, Unmarked, "PhoenixPoint"), At(117, Unmarked, "HawkPoint"),
      At(120, Unmarked, "PhoenixPoint2"), At(124, Unmarked, "HawkPoint2"),
      In(144, 159, Unmarked, "Siena"), In(160, 175, Unmarked, "Bergamo")>>

\* "sonoma" in the name beats the models of the cases after it.
Zen5And6 ==
    <<In(0, 15, Unmarked, "Turin"), In(16, 31, Unmarked, "TurinDense"),
      At(32, Unmarked, "StrixPoint"), At(36, Unmarked, "StrixPoint"),
      At(68, "hx", "FireRange"), At(68, Unmarked, "GraniteRidge"),
      In(80, 95, Unmarked, "SonomaValley"), In(0, 255, "sonoma", "SonomaValley"),
      At(96, Unmarked, "KrackanPoint"), At(104, Unmarked, "KrackanPoint2"),
      At(112, Unmarked, "StrixHalo"), In(128, 135, Unmarked, "Medusa1"),
      In(136, 143, Unmarked, "OlympicRidge"), In(224, 227, Unmarked, "Medusa2")>>

\* The cases of the families from 23 on.
Cases == <<Zen1And2, <<In(0, 255, Unmarked, "Dhyana")>>, Zen3And4, Zen5And6>>

\* _ARCH_MAP
Architectures == 23..27

\* A processor: its numbers and the marks in its name.  The first case that
\* fits gives the code name.
Codename(cpu) ==
    LET cases == IF cpu.family - 22 \in DOMAIN Cases THEN Cases[cpu.family - 22] ELSE <<>>
        hits  == {i \in DOMAIN cases : /\ cases[i].lo <= cpu.model /\ cpu.model <= cases[i].hi
                                       /\ cases[i].mark \in cpu.marks \cup {Unmarked}}
        first == CHOOSE i \in hits : \A j \in hits : i <= j
    IN  IF "Intel" \in cpu.marks THEN "Intel"
        ELSE IF hits = {} THEN "Unknown" ELSE cases[first].code

DesktopFamilies ==
    {"SummitRidge", "Threadripper", "Naples", "PinnacleRidge", "Colfax", "Rome",
     "CastlePeak", "Matisse", "Milan", "Chagall", "Genoa", "Bergamo", "Siena",
     "StormPeak", "Vermeer", "Raphael", "Turin", "TurinDense", "GraniteRidge",
     "OlympicRidge", "Dhyana"}

\* A model number that no case names is an APU.
BugCpuType(cpu) ==
    LET code == Codename(cpu)
    IN  IF code \in DesktopFamilies THEN "Amd_Desktop_Cpu"
        ELSE IF code = "Intel" THEN "Intel"
        ELSE IF cpu.family \notin Architectures THEN "Unknown" ELSE "Amd_Apu"

CpuType(cpu) ==
    LET code == Codename(cpu)
    IN  IF code \in DesktopFamilies THEN "Amd_Desktop_Cpu"
        ELSE IF code = "Intel" THEN "Intel"
        ELSE IF code = "Unknown" \/ cpu.family \notin Architectures THEN "Unknown"
        ELSE "Amd_Apu"

-----------------------------------------------------------------------------
(* The tables indexed by a code name.                                      *)

SocketFamilies ==
    [AM4_V1        |-> {"SummitRidge", "PinnacleRidge", "Threadripper", "Naples",
                        "Colfax", "Dhyana"},
     FT5_FP5_AM4   |-> {"RavenRidge", "RavenRidge2", "Picasso", "Dali", "Pollock",
                        "FireFlight"},
     AM4_V2        |-> {"Rome", "CastlePeak", "Matisse", "Milan", "Chagall", "Vermeer"},
     FP6_AM4       |-> {"Renoir", "Lucienne", "Cezanne_Barcelo"},
     FF3           |-> {"VanGogh"},
     FT6_FP7_FP8   |-> {"Mendocino", "Rembrandt", "PhoenixPoint", "PhoenixPoint2",
                        "HawkPoint", "HawkPoint2", "SonomaValley", "StrixHalo",
                        "StrixPoint", "KrackanPoint", "KrackanPoint2"},
     AM5_V1        |-> {"Raphael", "StormPeak", "Genoa", "Bergamo", "Siena", "Turin",
                        "TurinDense", "GraniteRidge"},
     AM5_MOBILE    |-> {"DragonRange"},
     AM5_FIRERANGE |-> {"FireRange"},
     FP10_AM5      |-> {"Medusa1", "OlympicRidge", "Medusa2"}]

\* is_supported: what send_arg takes.
Supported == UNION {SocketFamilies[s] : s \in DOMAIN SocketFamilies}

\* PM_TABLE_CMDS, by the message that asks for the version.
VersionMessage ==
    {[message |-> \h08, codes |-> {"SummitRidge", "Threadripper", "Naples", "Colfax", "Rome",
                                   "CastlePeak", "Matisse", "Milan", "Chagall", "Vermeer",
                                   "Dhyana"}],
     [message |-> \h0c, codes |-> {"PinnacleRidge"} \cup SocketFamilies.FT5_FP5_AM4],
     [message |-> \h06, codes |-> SocketFamilies.FP6_AM4 \cup SocketFamilies.FF3
                                  \cup SocketFamilies.FT6_FP7_FP8],
     [message |-> \h05, codes |-> SocketFamilies.AM5_V1 \cup {"DragonRange", "FireRange"}],
     [message |-> \h04, codes |-> SocketFamilies.FP10_AM5]}

\* pm_table_supported, without the module's files.
HasTable(code) == \E row \in VersionMessage : code \in row.codes
=============================================================================
