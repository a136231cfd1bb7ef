------------------------------- MODULE Runner -------------------------------
(***************************************************************************)
(* zenmaster/runner.py: which arguments each processor family takes, and   *)
(* the mailbox messages an argument stands for.  Four of the ten command   *)
(* tables are here, each cut down to the arguments in Argument; the rest   *)
(* of each table is further rows of the same shape.                        *)
(***************************************************************************)
EXTENDS Sequences

Argument == {"stapm-limit", "tctl-temp", "apu-skin-temp", "dgpu-skin-temp",
             "skin-temp-limit", "pbo-scalar", "set-coall", "set-cogfx",
             "set-coper", "oc-clk-per-core", "enable-oc", "get-pbo-scalar",
             "get-coper"}

Mp1(name, op)  == [name |-> name, mp1 |-> TRUE, op |-> op]
Rsmu(name, op) == [name |-> name, mp1 |-> FALSE, op |-> op]

CmdAM4_V2 ==
    <<Mp1("tctl-temp", \h3e), Rsmu("tctl-temp", \h56), Rsmu("pbo-scalar", \h58),
      Mp1("oc-clk-per-core", \h27), Rsmu("oc-clk-per-core", \h5d),
      Mp1("set-coall", \h36), Rsmu("set-coall", \h0b),
      Mp1("set-coper", \h35), Rsmu("set-coper", \h0a),
      Mp1("enable-oc", \h24), Rsmu("enable-oc", \h5a), Rsmu("get-pbo-scalar", \h6c)>>

CmdFP6_AM4 ==
    <<Mp1("stapm-limit", \h14), Rsmu("stapm-limit", \h31), Mp1("tctl-temp", \h19),
      Mp1("apu-skin-temp", \h38), Mp1("dgpu-skin-temp", \h39), Rsmu("dgpu-skin-temp", \h92),
      Mp1("skin-temp-limit", \h53), Rsmu("enable-oc", \h17), Mp1("enable-oc", \h2f),
      Mp1("oc-clk-per-core", \h32), Rsmu("oc-clk-per-core", \h1a),
      Mp1("pbo-scalar", \h49), Rsmu("pbo-scalar", \h3f), Rsmu("get-pbo-scalar", \h0f),
      Mp1("set-cogfx", \h64), Rsmu("set-cogfx", \h53),
      Mp1("set-coper", \h54), Rsmu("set-coper", \h52),
      Mp1("set-coall", \h55), Rsmu("set-coall", \hb1)>>

CmdFT6_FP7_FP8 ==
    <<Mp1("stapm-limit", \h14), Rsmu("stapm-limit", \h31), Mp1("tctl-temp", \h19),
      Mp1("skin-temp-limit", \h4a), Mp1("apu-skin-temp", \h33),
      Mp1("dgpu-skin-temp", \h34), Rsmu("dgpu-skin-temp", \h92), Rsmu("enable-oc", \h17),
      Mp1("oc-clk-per-core", \h32), Rsmu("oc-clk-per-core", \h1a),
      Rsmu("pbo-scalar", \h3e), Rsmu("get-pbo-scalar", \h0f), Rsmu("set-cogfx", \hb7),
      Mp1("set-coper", \h4b), Rsmu("set-coper", \h53),
      Mp1("set-coall", \h4c), Rsmu("set-coall", \h5d)>>

CmdFP10_AM5 ==
    <<Mp1("set-coper", \h07), Mp1("set-coall", \h08), Mp1("tctl-temp", \h0c),
      Mp1("pbo-scalar", \h0d), Mp1("enable-oc", \h0e), Mp1("oc-clk-per-core", \h11),
      Mp1("stapm-limit", \h15), Mp1("get-coper", \h1b), Mp1("set-cogfx", \h23)>>

FamilySocket ==
    [Vermeer   |-> "AM4_V2",
     Renoir    |-> "FP6_AM4",
     Rembrandt |-> "FT6_FP7_FP8",
     StrixHalo |-> "FT6_FP7_FP8",
     Medusa1   |-> "FP10_AM5"]

SocketCommands ==
    [AM4_V2      |-> CmdAM4_V2,
     FP6_AM4     |-> CmdFP6_AM4,
     FT6_FP7_FP8 |-> CmdFT6_FP7_FP8,
     FP10_AM5    |-> CmdFP10_AM5]

KnownFamily == DOMAIN FamilySocket

\* The messages of an argument, in the order of the table; a family without a
\* socket takes none.
Lookup(family, name) ==
    LET named(c) == c.name = name
    IN  IF family \in KnownFamily
        THEN SelectSeq(SocketCommands[FamilySocket[family]], named) ELSE <<>>

\* all_known_args: what some family takes, not the one at hand.
AllKnownArgs ==
    UNION {{c[i].name : i \in DOMAIN c} : c \in {SocketCommands[s] : s \in DOMAIN SocketCommands}}

\* get-... arguments are queries.
IsQuery(name)   == name \in {"get-pbo-scalar", "get-coper"}
IsFlagArg(name) == name = "enable-oc" \/ IsQuery(name)

IsHsmp(family) == family \in KnownFamily /\ FamilySocket[family] = "FP10_AM5"
=============================================================================
