----------------------------- MODULE CoreSensors -----------------------------
(***************************************************************************)
(* read_core_sensors of zenmaster/sensors.py: which four bytes of a PM     *)
(* table it takes for each metric of each core, and which cores it leaves  *)
(* out because a value is not plausible.                                   *)
(*                                                                         *)
(* A table is arrays of one metric, one cell per core, each as far as the  *)
(* next known array begins.  A cell is identified by the array it lies in  *)
(* and its place there; its value is typical of the metric, in thousandths,*)
(* and of the load.                                                        *)
(***************************************************************************)
EXTENDS Integers, Sequences, TLC

Core == {"power", "volt", "temp", "clk"}            \* a core needs all of these
Metric == Core \cup {"freqeff", "c0", "cc1", "cc6"}

Prefix(ver) == (ver \div 65536) % 256
Sub(ver)    == (ver \div 256) % 256

\* The two layouts of 0x54 and 0x62: 16 cores, or 8.
Wide(ver) == \/ Prefix(ver) = \h54 /\ Sub(ver) \in {\h00, \h02, \h08}
             \/ Prefix(ver) = \h62 /\ Sub(ver) \in {\h02, \h12}

CoreCount(ver, ccds) ==
    LET fam   == Prefix(ver)
        cores == IF \/ Wide(ver) \/ fam = \h64
                    \/ fam \in {\h24, \h2d, \h38} /\ Sub(ver) \in {0, 5, 6, 7, 8}
                 THEN 16
                 ELSE IF fam \in {\h5d, \h65} THEN 12
                 ELSE IF fam \in {\h1e, \h3f} THEN 4 ELSE 8
    IN  IF ccds > 1 /\ 8 * ccds > cores THEN 8 * ccds ELSE cores

-----------------------------------------------------------------------------
(* Where the arrays begin.                                                 *)

Main(p, v, t, c) == [power |-> p, volt |-> v, temp |-> t, clk |-> c]
Full(p, v, t, c, fe, c0, cc1, cc6) ==
    [power |-> p, volt |-> v, temp |-> t, clk |-> c,
     freqeff |-> fe, c0 |-> c0, cc1 |-> cc1, cc6 |-> cc6]

\* Named by a processor that has such a table.
Picasso      == Main(\h180, \h1a0, \h624, \h1c0)
Matisse      == Full(\h24c, \h26c, \h28c, \h2ec, \h30c, \h32c, \h34c, \h36c)
Lucienne     == Main(\h31c, \h33c, \h35c, \h3bc)
Renoir       == Main(\h300, \h320, \h340, \h3a0)
VanGogh      == Main(\h238, \h248, \h258, \h288)
EarlyCezanne == Main(\h304, \h324, \h344, \h3a4)
Rembrandt    == Main(\h320, \h340, \h360, \h3c0)
StrixPoint   == Full(\h9d4, \ha04, \ha34, \ha64, \ha94, \hab4, \had4, \haf4)
StrixHalo    == Full(\hb90, \hbd0, \hc10, \hc50, \hc90, \hcd0, \hd10, \hd50)
WideRaphael  == Full(\h494, \h4d4, \h514, \h554, \h594, \h5d4, \h614, \h654)
Raphael      == Full(\h494, \h4b4, \h4d4, \h4f4, \h514, \h534, \h554, \h574)
WideGranite  == Full(\h4b4, \h4f4, \h534, \h574, \h5b4, \h5f4, \h634, \h674)
Granite      == [power |-> \h534, volt |-> \h4d4, temp |-> \h4f4, clk |-> \h514,
                 c0 |-> \h594, cc1 |-> \h5b4, cc6 |-> \h574]

\* The two versions that differ from the others of their prefix.
LucienneVersion     == \h00370005
EarlyCezanneVersion == \h00400001

Bases(ver) ==
    LET fam == Prefix(ver)
    IN  IF fam = \h1e THEN Picasso
        ELSE IF fam \in {\h24, \h2d, \h38} THEN Matisse
        ELSE IF fam = \h37 THEN IF ver = LucienneVersion THEN Lucienne ELSE Renoir
        ELSE IF fam = \h3f THEN VanGogh
        ELSE IF fam = \h40 /\ ver = EarlyCezanneVersion THEN EarlyCezanne
        ELSE IF fam \in {\h40, \h45, \h4c} THEN Rembrandt
        ELSE IF fam \in {\h5d, \h65} THEN StrixPoint
        ELSE IF fam = \h64 THEN StrixHalo
        ELSE IF fam = \h54 THEN IF Wide(ver) THEN WideRaphael ELSE Raphael
        ELSE IF fam = \h62 THEN IF Wide(ver) THEN WideGranite ELSE Granite
        ELSE <<>>

\* TABLE_SIZES, for one version or more of each layout and size.
TableSize ==
       (\h001e0001 :> \h568) @@ (\h001e0002 :> \h580) @@ (\h001e0004 :> \h608)
    @@ (\h00240003 :> \h18ac) @@ (\h00240703 :> \h7e4) @@ (\h00240802 :> \h7e0)
    @@ (\h00240903 :> \h518) @@ (\h002d0008 :> \h1ab0) @@ (\h002d0903 :> \h594)
    @@ (\h00370000 :> \h794) @@ (\h00370005 :> \h8c8) @@ (\h00380705 :> \h8f0)
    @@ (\h00380905 :> \h5d0) @@ (\h003f0000 :> \h7ac) @@ (\h00400001 :> \h910)
    @@ (\h00400005 :> \h944) @@ (\h00450004 :> \haa4) @@ (\h004c0008 :> \haf0)
    @@ (\h00540004 :> \h8bc) @@ (\h00540100 :> \h618) @@ (\h00540208 :> \h8d0)
    @@ (\h005c0402 :> \h974) @@ (\h005d0008 :> \hd54) @@ (\h00620105 :> \h724)
    @@ (\h00620205 :> \h994) @@ (\h0064010c :> \he50) @@ (\h00650004 :> \hb74)

\* The array that an offset lies in, which is the last to begin before it.
ArrayAt(bases, off) ==
    LET under == {x \in DOMAIN bases : bases[x] <= off}
    IN  CHOOSE x \in under : \A y \in under : bases[y] <= bases[x]

NoCell == [metric |-> "none", core |-> 0]

\* f(base + c * 4): the cell that lies there, if the table reaches so far.
Cell(ver, size, m, c) ==
    LET bases == Bases(ver)
        off   == bases[m] + 4 * c
        array == ArrayAt(bases, off)
    IN  IF m \notin DOMAIN bases \/ off + 4 > size THEN NoCell
        ELSE [metric |-> array, core |-> (off - bases[array]) \div 4]

-----------------------------------------------------------------------------
(* What a cell holds, and what is believed.                                *)

Load == {"light", "heavy"}

\* A parked core: no power, no clock.
Typical ==
    [parked |-> Full(0, 200, 25000, 0, 0, 0, 0, 100000),
     light  |-> Full(300, 700, 20000, 400, 50, 1000, 4000, 95000),
     heavy  |-> Full(140000, 1400, 94000, 5400, 5300, 99000, 1000, 0)]

\* A volt is anything positive.
BugLimit == Main(500000, 500000, 130000, 10000)

\* The value has to lie between 0 and the limit.
Limit == Main(500000, 2000, 130000, 10000)

\* The cores listed, with the cell each of their metrics is taken from.
CoreSensorsOf(ver, size, ccds, load, parked) ==
    LET value(cell)   == Typical[IF cell.core \in parked THEN "parked" ELSE load][cell.metric]
        believed(m, c) == LET cell == Cell(ver, size, m, c)
                          IN  cell # NoCell /\ 0 < value(cell) /\ value(cell) < Limit[m]
    IN  IF Bases(ver) = <<>> \/ size < 4 THEN {}
        ELSE {[core |-> c, cells |-> [m \in Metric |-> Cell(ver, size, m, c)]] :
                 c \in {c \in 0 .. CoreCount(ver, ccds) - 1 : \A m \in Core : believed(m, c)}}
=============================================================================
