------------------------------ MODULE CliProofs ------------------------------
(***************************************************************************)
(* For any command lines, processors and number of passes: what the        *)
(* encodings of ArgWords keep, and what main() and apply() keep of the     *)
(* line that was given.                                                    *)
(***************************************************************************)
EXTENDS Cli, SequenceTheorems, WellFoundedInduction, TLAPS

-----------------------------------------------------------------------------
(* The words of the values.                                                *)

\* The numbers of 16 bits; HalfMax keeps its name, since the prover writes a
\* named interval's elements out.
LEMMA HalfIs == ASSUME NEW x \in Int, 0 <= x, x < 65536 PROVE x \in Half
<1>1. HalfMax \in Int /\ x <= HalfMax  BY SMT DEF HalfMax
<1> QED  BY <1>1, SMT DEF Half

(***************************************************************************)
(* A 20-bit Curve Optimizer offset is a 20-bit number, and reads back as   *)
(* the offset it was made of (apply.py:31-34).                             *)
(***************************************************************************)
THEOREM OffsetSurvives ==
    ASSUME NEW v \in Int, -524288 <= v, v < 524288
    PROVE  /\ CoScale(v) \in Nat
           /\ CoScale(v) < 1048576
           /\ Signed(CoScale(v), 1048576) = v
<1>1. CASE v < 0
    <2>1. CoScale(v) = 1048576 + v  BY <1>1, SMT DEF CoScale
    <2> QED  BY <1>1, <2>1, SMT DEF Signed
<1>2. CASE v >= 0
    <2>1. CoScale(v) = v  BY <1>2, SMT DEF CoScale
    <2> QED  BY <1>2, <2>1, SMT DEF Signed
<1> QED  BY <1>1, <1>2, SMT

(***************************************************************************)
(* A PSM margin of 16 bits reads back as it was given, and larger ones as  *)
(* the nearest margin there is (apply.py:37-45).                           *)
(***************************************************************************)
THEOREM MarginSurvives ==
    ASSUME NEW v \in Int
    PROVE  /\ HsmpPsmMargin(v) \in Half
           /\ -32768 <= v /\ v < 32768 => Signed(HsmpPsmMargin(v), 65536) = v
           /\ v < -32768 => Signed(HsmpPsmMargin(v), 65536) = -32768
<1>1. HsmpPsmMargin(v) \in Half
    <2>1. /\ HsmpPsmMargin(v) \in Int
          /\ 0 <= HsmpPsmMargin(v)
          /\ HsmpPsmMargin(v) < 65536
        BY SMT DEF HsmpPsmMargin
    <2> QED  BY <2>1, HalfIs, SMT
<1>2. ASSUME v < -32768 PROVE Signed(HsmpPsmMargin(v), 65536) = -32768
    <2>1. HsmpPsmMargin(v) = 32768  BY <1>2, SMT DEF HsmpPsmMargin
    <2> QED  BY <2>1, SMT DEF Signed
<1>3. ASSUME -32768 <= v, v < 0 PROVE Signed(HsmpPsmMargin(v), 65536) = v
    <2>1. HsmpPsmMargin(v) = 65536 + v  BY <1>3, SMT DEF HsmpPsmMargin
    <2> QED  BY <1>3, <2>1, SMT DEF Signed
<1>4. ASSUME 0 <= v, v < 32768 PROVE Signed(HsmpPsmMargin(v), 65536) = v
    <2>1. HsmpPsmMargin(v) = v  BY <1>4, SMT DEF HsmpPsmMargin
    <2> QED  BY <1>4, <2>1, SMT DEF Signed
<1> QED  BY <1>1, <1>2, <1>3, <1>4, SMT

\* Two numbers joined into a word can be told apart again.
LEMMA JoinFields ==
    ASSUME NEW prefix \in Int, 0 <= prefix, prefix < 4096,
           NEW enc20 \in Nat, enc20 < 1048576
    PROVE  /\ Join(prefix, enc20) \in Word
           /\ Low20(Join(prefix, enc20)) = enc20
           /\ Nibble7(Join(prefix, enc20)) = prefix \div 256
           /\ Nibble6(Join(prefix, enc20)) = (prefix \div 16) % 16
           /\ Nibble5(Join(prefix, enc20)) = prefix % 16
<1> DEFINE h == enc20 \div 65536
           l == enc20 % 65536
           hi == prefix * 16 + h
<1>1. /\ h \in Int /\ 0 <= h /\ h < 16
      /\ l \in Int /\ 0 <= l /\ l < 65536
      /\ enc20 = h * 65536 + l
    BY SMT
<1>2. Join(prefix, enc20) = <<hi, l>>  BY SMT DEF Join
<1> HIDE DEF h, l
<1>3. /\ hi \in Int /\ 0 <= hi /\ hi < 65536
      /\ hi % 16 = h
      /\ hi \div 16 = prefix
    BY <1>1, SMT
<1>4. hi \div 256 = prefix \div 16 /\ hi \div 4096 = prefix \div 256
    BY <1>1, SMT
<1> HIDE DEF hi
<1>5. Join(prefix, enc20) \in Word
    <2>1. hi \in Half /\ l \in Half  BY <1>1, <1>3, HalfIs, SMT
    <2> QED  BY <1>2, <2>1, SMT DEF Word
<1>6. Low20(Join(prefix, enc20)) = enc20  BY <1>1, <1>2, <1>3, SMT DEF Low20
<1>7. Nibble5(Join(prefix, enc20)) = prefix % 16  BY <1>2, <1>3, SMT DEF Nibble5
<1>8. /\ Nibble6(Join(prefix, enc20)) = (prefix \div 16) % 16
      /\ Nibble7(Join(prefix, enc20)) = prefix \div 256
    BY <1>2, <1>4, SMT DEF Nibble6, Nibble7
<1> QED  BY <1>5, <1>6, <1>7, <1>8, SMT

CoreWord(ccd, core, enc20) ==
    Join((ccd % 16) * 256 + ((core \div 8) % 16) * 16 + (core % 8), enc20)

\* The fields of the word for a core: the CCX named is the one that holds the
\* core, and core the number within it.
LEMMA CoreFields ==
    ASSUME NEW ccd \in Int, 0 <= ccd, ccd < 16,
           NEW core \in Int, 0 <= core, core < 128,
           NEW enc20 \in Nat, enc20 < 1048576
    PROVE  /\ CoreWord(ccd, core, enc20) \in Word
           /\ Nibble7(CoreWord(ccd, core, enc20)) = ccd
           /\ 8 * Nibble6(CoreWord(ccd, core, enc20)) + Nibble5(CoreWord(ccd, core, enc20)) = core
           /\ Low20(CoreWord(ccd, core, enc20)) = enc20
<1> DEFINE ccx == core \div 8
           c == core % 8
           prefix == ccd * 256 + ccx * 16 + c
           w == CoreWord(ccd, core, enc20)
<1>1. /\ ccx \in Int /\ 0 <= ccx /\ ccx < 16
      /\ c \in Int /\ 0 <= c /\ c < 8
      /\ core = 8 * ccx + c
    BY SMT
<1>2. w = Join((ccd % 16) * 256 + (ccx % 16) * 16 + c, enc20)  BY SMT DEF CoreWord
<1> HIDE DEF ccx, c, w
<1>3. ccd % 16 = ccd  BY SMT
<1>4. ccx % 16 = ccx  BY <1>1, SMT
<1>5. w = Join(prefix, enc20)  BY <1>2, <1>3, <1>4, SMT
<1>6. prefix \in Int /\ 0 <= prefix /\ prefix < 4096  BY <1>1, SMT
<1>7. prefix \div 256 = ccd  BY <1>1, SMT
<1>8. prefix % 16 = c  BY <1>1, SMT
<1>9. (prefix \div 16) % 16 = ccx
    <2>1. prefix \div 16 = ccd * 16 + ccx  BY <1>1, SMT
    <2> QED  BY <1>1, <2>1, SMT
<1> HIDE DEF prefix
<1>10. /\ w \in Word
       /\ Low20(w) = enc20
       /\ Nibble7(w) = prefix \div 256
       /\ Nibble6(w) = (prefix \div 16) % 16
       /\ Nibble5(w) = prefix % 16
    BY <1>5, <1>6, JoinFields, SMT
<1>11. w \in Word /\ Nibble7(w) = ccd /\ 8 * Nibble6(w) + Nibble5(w) = core
       /\ Low20(w) = enc20
    BY <1>1, <1>7, <1>8, <1>9, <1>10, SMT
<1> QED  BY <1>11, SMT DEF w

\* The word for ccd:core:val on a family with the MP1 and RSMU mailboxes.
CoperWord(ccd, core, v) == PackCoper(<<ccd, core, v>>, FALSE)

(***************************************************************************)
(* ccd:core:val on a MP1/RSMU family: the word the SMU gets names the CCD, *)
(* the core and the offset the user named (apply.py:48-71), for each of    *)
(* sixteen CCDs and 128 cores.                                             *)
(***************************************************************************)
THEOREM CoperNamesCore ==
    ASSUME NEW ccd \in Int, 0 <= ccd, ccd < 16,
           NEW core \in Int, 0 <= core, core < 128,
           NEW v \in Int, -524288 <= v, v < 524288
    PROVE  /\ CoperWord(ccd, core, v) \in Word
           /\ Nibble7(CoperWord(ccd, core, v)) = ccd
           /\ 8 * Nibble6(CoperWord(ccd, core, v)) + Nibble5(CoperWord(ccd, core, v)) = core
           /\ Signed(Low20(CoperWord(ccd, core, v)), 1048576) = v
<1> DEFINE enc20 == CoScale(v)
<1>1. CoperWord(ccd, core, v) = CoreWord(ccd, core, enc20)
    BY SMT DEF PackCoper, CoperWord, CoreWord
<1>2. enc20 \in Nat /\ enc20 < 1048576 /\ Signed(enc20, 1048576) = v
    BY OffsetSurvives, SMT
<1> HIDE DEF enc20
<1> QED  BY <1>1, <1>2, CoreFields, SMT

-----------------------------------------------------------------------------
(* Every value that parses becomes a word of 32 bits.                      *)

LEMMA Word32InWord == ASSUME NEW v \in Int PROVE Word32(v) \in Word
<1> DEFINE h == (v \div 65536) % 65536
           l == v % 65536
<1>1. h \in Int /\ 0 <= h /\ h < 65536 /\ l \in Int /\ 0 <= l /\ l < 65536  BY SMT
<1>2. Word32(v) = <<h, l>>  BY SMT DEF Word32
<1> HIDE DEF h, l
<1>3. h \in Half /\ l \in Half  BY SMT, <1>1, HalfIs
<1> QED  BY SMT, <1>2, <1>3 DEF Word

LEMMA CoScaleRange ==
    ASSUME NEW v \in Int
    PROVE  CoScale(v) \in Nat /\ CoScale(v) < 1048576
BY SMT DEF CoScale

LEMMA MarginInWord == ASSUME NEW v \in Int PROVE <<0, HsmpPsmMargin(v)>> \in Word
<1>1. 0 \in Half  BY SMT, HalfIs
<1>2. HsmpPsmMargin(v) \in Half  BY SMT, MarginSurvives
<1> QED  BY SMT, <1>1, <1>2 DEF Word

\* The prefixes of both packed arguments have 12 bits.
Prefix(a, b, c) == (a % 16) * 256 + (b % 16) * 16 + (c % 8)
LEMMA PrefixRange ==
    ASSUME NEW a \in Int, NEW b \in Int, NEW c \in Int
    PROVE  Prefix(a, b, c) \in Int /\ 0 <= Prefix(a, b, c) /\ Prefix(a, b, c) < 4096
<1> DEFINE x == a % 16
           y == b % 16
           z == c % 8
<1>1. /\ x \in Int /\ 0 <= x /\ x < 16
      /\ y \in Int /\ 0 <= y /\ y < 16
      /\ z \in Int /\ 0 <= z /\ z < 8
    BY SMT
<1> HIDE DEF x, y, z
<1>2. x * 256 + y * 16 + z \in Int /\ 0 <= x * 256 + y * 16 + z /\ x * 256 + y * 16 + z < 4096
    BY <1>1, SMT
<1> QED  BY SMT, <1>2 DEF x, y, z, Prefix

\* What a value with or without a delimiter consists of.
LEMMA Elements ==
    ASSUME NEW val \in Seq(Int), val # <<>>
    PROVE  /\ Len(val) \in Nat
           /\ Len(val) = 1 \/ Len(val) = 2 \/ Len(val) = 3 \/ Len(val) > 3
           /\ val[1] \in Int
           /\ Len(val) # 1 => val[2] \in Int
           /\ Len(val) \notin {1, 2} => val[3] \in Int
           /\ Len(val) \notin {1, 2, 3} => val[4] \in Int
           /\ val[Len(val)] \in Int
<1>1. Len(val) \in Nat /\ Len(val) # 0
   BY SMT
<1>2. \A i \in 1 .. Len(val) : val[i] \in Int
    BY SMT
<1>3. ASSUME NEW n \in Nat, n # 0
      PROVE  /\ n = 1 \/ n = 2 \/ n = 3 \/ n > 3
             /\ 1 \in 1 .. n /\ n \in 1 .. n
             /\ n # 1 => 2 \in 1 .. n
             /\ n \notin {1, 2} => 3 \in 1 .. n
             /\ n \notin {1, 2, 3} => 4 \in 1 .. n
    BY <1>3, SMT
<1> QED  BY <1>1, <1>2, <1>3, Zenon

\* The words of a core, and the forms a user has for it.
CoperOf(ccd, core, offset, hsmp) ==
    IF hsmp THEN <<((ccd * 16 + core) * 2) % 65536, HsmpPsmMargin(offset)>>
    ELSE Join(Prefix(ccd, core \div 8, core), CoScale(offset))
OcOf(ccd, ccx, core, freq) ==
    Join((core % 8) + (ccx % 16) * 16 + (ccd % 16) * 256,
         (IF freq < 8000 THEN freq ELSE 8000) % 1048576)

LEMMA CoperForms ==
    ASSUME NEW val \in Seq(Int), val # <<>>, NEW hsmp \in BOOLEAN
    PROVE  /\ Len(val) = 1 => PackCoper(val, hsmp) =
             IF hsmp THEN <<0, HsmpPsmMargin(val[1])>>
             ELSE IF val[1] < 0 THEN Word32(CoScale(val[1])) ELSE Word32(val[1])
           /\ Len(val) = 2 => PackCoper(val, hsmp) = CoperOf(0, val[1], val[2], hsmp)
           /\ Len(val) = 3 => PackCoper(val, hsmp) = CoperOf(val[1], val[2], val[3], hsmp)
           /\ Len(val) \notin {1, 2, 3} => PackCoper(val, hsmp) = CoperOf(val[1], val[3], val[4], hsmp)
<1>1. CASE Len(val) = 1
   BY <1>1, SMT DEF PackCoper
<1>2. CASE Len(val) = 2
   BY <1>2, SMT DEF PackCoper, CoperOf, Prefix
<1>3. CASE Len(val) = 3
   BY <1>3, SMT DEF PackCoper, CoperOf, Prefix
<1>4. CASE Len(val) \notin {1, 2, 3}
    <2>1. Len(val) # 1 /\ Len(val) # 2 /\ Len(val) # 3  BY <1>4, Zenon
    <2>2. PackCoper(val, hsmp) = CoperOf(val[1], val[3], val[4], hsmp)
        BY <2>1, SMT DEF PackCoper, CoperOf, Prefix
    <2> QED  BY <2>1, <2>2, Zenon
<1> QED  BY <1>1, <1>2, <1>3, <1>4, Zenon
LEMMA OcForms ==
    ASSUME NEW val \in Seq(Int), val # <<>>
    PROVE  /\ Len(val) = 1 => PackOcClkPerCore(val) = Word32(val[1])
           /\ Len(val) = 2 => PackOcClkPerCore(val) = OcOf(0, val[1] \div 8, val[1], val[2])
           /\ Len(val) = 3 =>
                 PackOcClkPerCore(val) = OcOf(val[1], val[2] \div 8, val[2], val[3])
           /\ Len(val) \notin {1, 2, 3} =>
                 PackOcClkPerCore(val) = OcOf(val[1], val[2], val[3], val[4])
<1>1. CASE Len(val) = 1
    BY <1>1, SMT DEF PackOcClkPerCore
<1>2. CASE Len(val) = 2
    BY <1>2, SMT DEF PackOcClkPerCore, OcOf
<1>3. CASE Len(val) = 3
    BY <1>3, SMT DEF PackOcClkPerCore, OcOf
<1>4. CASE Len(val) \notin {1, 2, 3}
    <2>1. Len(val) # 1 /\ Len(val) # 2 /\ Len(val) # 3  BY <1>4, Zenon
    <2>2. Len(val) >= 4
        <3>1. Len(val) \in Nat /\ Len(val) # 0  BY SMT
        <3>2. ASSUME NEW n \in Nat, n # 0, n # 1, n # 2, n # 3 PROVE n >= 4
            BY <3>2, SMT
        <3> QED  BY <2>1, <3>1, <3>2, Zenon
    <2>3. PackOcClkPerCore(val) = OcOf(val[1], val[2], val[3], val[4])
        BY <2>1, <2>2, SMT DEF PackOcClkPerCore, OcOf
    <2> QED  BY <2>1, <2>3, Zenon
<1> QED  BY <1>1, <1>2, <1>3, <1>4, Zenon

LEMMA CoperOfInWord ==
    ASSUME NEW ccd \in Int, NEW core \in Int, NEW offset \in Int, NEW hsmp \in BOOLEAN
    PROVE  CoperOf(ccd, core, offset, hsmp) \in Word
<1>1. CASE hsmp
    <2> DEFINE h == ((ccd * 16 + core) * 2) % 65536
    <2>1. h \in Int /\ 0 <= h /\ h < 65536  BY SMT
    <2>2. CoperOf(ccd, core, offset, hsmp) = <<h, HsmpPsmMargin(offset)>>  BY <1>1, SMT DEF CoperOf
    <2> HIDE DEF h
    <2>3. h \in Half /\ HsmpPsmMargin(offset) \in Half  BY <2>1, HalfIs, MarginSurvives, SMT
    <2> QED  BY <2>2, <2>3, SMT DEF Word
<1>2. CASE ~hsmp
    <2> DEFINE ccx == core \div 8
               p == Prefix(ccd, ccx, core)
    <2>1. ccx \in Int  BY SMT
    <2>2. CoperOf(ccd, core, offset, hsmp) = Join(p, CoScale(offset))  BY <1>2, SMT DEF CoperOf
    <2> HIDE DEF ccx
    <2>3. p \in Int /\ 0 <= p /\ p < 4096  BY <2>1, PrefixRange, SMT
    <2>4. CoScale(offset) \in Nat /\ CoScale(offset) < 1048576  BY CoScaleRange, SMT
    <2> HIDE DEF p
    <2> QED  BY <2>2, <2>3, <2>4, JoinFields, SMT
<1> QED  BY <1>1, <1>2

LEMMA OcOfInWord ==
    ASSUME NEW ccd \in Int, NEW ccx \in Int, NEW core \in Int, NEW freq \in Int
    PROVE  OcOf(ccd, ccx, core, freq) \in Word
<1> DEFINE p == (core % 8) + (ccx % 16) * 16 + (ccd % 16) * 256
           f == (IF freq < 8000 THEN freq ELSE 8000) % 1048576
<1>1. OcOf(ccd, ccx, core, freq) = Join(p, f)  BY SMT DEF OcOf
<1>2. f \in Nat /\ f < 1048576  BY SMT
<1>3. p \in Int /\ 0 <= p /\ p < 4096
    <2>1. /\ Prefix(ccd, ccx, core) \in Int
          /\ 0 <= Prefix(ccd, ccx, core) /\ Prefix(ccd, ccx, core) < 4096
        BY PrefixRange, SMT
    <2>2. p = Prefix(ccd, ccx, core)  BY SMT DEF Prefix
    <2> HIDE DEF p
    <2> QED  BY <2>1, <2>2, SMT
<1> HIDE DEF p, f
<1> QED  BY <1>1, <1>2, <1>3, JoinFields, SMT

LEMMA PackCoperInWord ==
    ASSUME NEW val \in Seq(Int), val # <<>>, NEW hsmp \in BOOLEAN
    PROVE  PackCoper(val, hsmp) \in Word
<1>1. CASE Len(val) = 1
    <2>1. val[1] \in Int  BY Elements, Zenon
    <2>2. \A x \in Int : CoScale(x) \in Int  BY CoScaleRange, SMT
    <2> QED  BY <1>1, <2>1, <2>2, CoperForms, MarginInWord, Word32InWord, Zenon
<1>2. CASE Len(val) # 1
    <2>1. \E ccd, core, offset \in Int : PackCoper(val, hsmp) = CoperOf(ccd, core, offset, hsmp)
        <3>1. 0 \in Int  OBVIOUS
        <3> QED  BY <1>2, <3>1, CoperForms, Elements, Zenon
    <2> QED  BY <2>1, CoperOfInWord, Zenon
<1> QED  BY <1>1, <1>2

LEMMA PackOcInWord ==
    ASSUME NEW val \in Seq(Int), val # <<>>
    PROVE  PackOcClkPerCore(val) \in Word
<1>1. CASE Len(val) = 1
    BY <1>1, Elements, OcForms, Word32InWord, Zenon
<1>2. CASE Len(val) # 1
    <2>1. \E ccd, ccx, core, freq \in Int : PackOcClkPerCore(val) = OcOf(ccd, ccx, core, freq)
        <3>1. 0 \in Int /\ \A x \in Int : x \div 8 \in Int  BY SMT
        <3>2. CASE Len(val) = 2
            <4>1. PackOcClkPerCore(val) = OcOf(0, val[1] \div 8, val[1], val[2])
                BY <3>2, OcForms, Zenon
            <4>2. 0 \in Int /\ val[1] \div 8 \in Int /\ val[1] \in Int /\ val[2] \in Int
                BY <3>2, <3>1, Elements, Zenon
            <4> QED  BY <4>1, <4>2, SMT
        <3>3. CASE Len(val) = 3
            <4>1. PackOcClkPerCore(val) = OcOf(val[1], val[2] \div 8, val[2], val[3])
                BY <3>3, OcForms, Zenon
            <4>2. Len(val) \notin {1, 2}  BY <3>3
            <4>3. val[1] \in Int /\ val[2] \in Int /\ val[3] \in Int
                BY <1>2, <4>2, Elements, Zenon
            <4>4. val[2] \div 8 \in Int  BY <3>1, <4>3, Zenon
            <4> QED  BY <4>1, <4>3, <4>4, Zenon
        <3>4. CASE Len(val) \notin {1, 2, 3}
            <4>1. PackOcClkPerCore(val) = OcOf(val[1], val[2], val[3], val[4])
                BY <3>4, OcForms, Zenon
            <4>2. val[1] \in Int /\ val[2] \in Int /\ val[3] \in Int /\ val[4] \in Int
                BY <3>4, Elements, Zenon
            <4> QED  BY <4>1, <4>2, SMT
        <3> QED  BY <1>2, <3>2, <3>3, <3>4, Zenon
    <2> QED  BY <2>1, OcOfInWord, Zenon
<1> QED  BY <1>1, <1>2

LEMMA EncodeInWord ==
    ASSUME NEW name, NEW val \in Seq(Int), NEW hsmp \in BOOLEAN, Parses(name, val)
    PROVE  Encode(name, val, hsmp) \in Word
<1>1. val # <<>>
    <2>1. val # <<>> \/ Len(val) = 1  BY SMT DEF Parses
    <2> QED  BY SMT, <2>1
<1>2. CASE name = "set-coper"  BY SMT, <1>1, <1>2, PackCoperInWord DEF Encode
<1>3. CASE name = "oc-clk-per-core"  BY SMT, <1>1, <1>3, PackOcInWord DEF Encode
<1>4. CASE name \notin {"set-coper", "oc-clk-per-core"}
    <2> DEFINE v == TctlDegrees(name, val[1])
               u == SkinScale(name, IF hsmp THEN PboScale(name, v) ELSE v)
    <2>1. val[1] \in Int  BY SMT, <1>1
    <2>2. v \in Int  BY <2>1, SMT DEF TctlDegrees
    <2>3. Encode(name, val, hsmp) =
             IF name \in {"set-coall", "set-cogfx"}
             THEN IF hsmp THEN <<0, HsmpPsmMargin(v)>> ELSE Word32(CoScale(v))
             ELSE Word32(u)
        BY SMT, <1>4 DEF Encode
    <2> HIDE DEF v
    <2>4. CoScale(v) \in Int  BY SMT, <2>2, CoScaleRange
    <2>5. u \in Int
        <3>1. PboScale(name, v) \in Int  BY <2>2, SMT DEF PboScale
        <3> DEFINE x == IF hsmp THEN PboScale(name, v) ELSE v
        <3>2. x \in Int  BY SMT, <2>2, <3>1
        <3> HIDE DEF x
        <3>3. SkinScale(name, x) \in Int  BY <3>2, SMT DEF SkinScale
        <3> QED  BY SMT, <3>3 DEF x
    <2> HIDE DEF u
    <2> QED  BY SMT, <2>2, <2>3, <2>4, <2>5, MarginInWord, Word32InWord
<1> QED  BY SMT, <1>2, <1>3, <1>4

-----------------------------------------------------------------------------
(* What is checked before anything is sent.                                *)

\* Nothing reaches the SMU before main() has found the processor supported, the
\* user privileged, the backend initialised, and the first argument of every
\* word a known one (cli.py:616-657).  That is all main() checks: apply() finds
\* an ill-formed value, an argument the family lacks, or an unknown argument
\* further on in a quoted word, when the arguments before it have been sent.
CheckedBeforeSent ==
    sent # <<>> =>
        /\ root /\ backend /\ cpu # "other"
        /\ \A i \in DOMAIN line.words : WordKnown(line.words[i])

\* What each place of main() has behind it: an early return is the only way
\* past a check that failed.
Hardware == {"table", "dump", "sensors", "loop", "apply"}
LineChecked ==
    cpu # "other" /\ \A i \in DOMAIN line.words : WordKnown(line.words[i])

IInv ==
    /\ pc \in Hardware \cup {"info", "backend"} => LineChecked
    /\ pc \in Hardware => backend
    /\ backend => root
    /\ pc \in {"start", "info", "backend"} => sent = <<>>
    /\ sent # <<>> => backend /\ LineChecked

LEMMA IInvImplies == IInv => CheckedBeforeSent
BY DEF IInv, CheckedBeforeSent, LineChecked

LEMMA IInvInit == Init => IInv
BY DEF Init, ApplyInit, IInv, Hardware

\* A step of main() that leaves the line and the requests alone keeps
\* LineChecked.
LEMMA SameLine == ASSUME UNCHANGED mainVars PROVE LineChecked' = LineChecked
BY DEF mainVars, LineChecked, WordKnown

LEMMA IInvNext == IInv /\ [Next]_vars => IInv'
<1> SUFFICES ASSUME IInv, [Next]_vars PROVE IInv'
    OBVIOUS
<1> USE DEF Hardware
\* A step past the checks, which sends nothing.
<1>1. ASSUME pc \in Hardware, UNCHANGED <<mainVars, backend, sent>>,
             pc' \in Hardware \cup {"exit"}
      PROVE  IInv'
    <2>1. backend /\ root /\ LineChecked  BY <1>1 DEF IInv
    <2>2. UNCHANGED mainVars /\ backend' = backend /\ sent' = sent  BY <1>1
    <2>3. LineChecked' /\ root'  BY <2>1, <2>2, SameLine DEF mainVars
    <2>4. pc' \notin {"start", "info", "backend"}  BY <1>1
    <2> QED  BY <2>1, <2>2, <2>3, <2>4 DEF IInv
<1>2. CASE Start
    <2>1. /\ UNCHANGED mainVars /\ backend' = backend /\ sent' = sent
          /\ pc = "start"
        BY <1>2 DEF Start, applyVars
    <2>2. sent = <<>>  BY <2>1 DEF IInv
    <2>3. pc' = "exit" \/ (pc' = "info" /\ LineChecked)
        BY <1>2 DEF Start, Exit, LineChecked
    <2>4. pc' = "exit" \/ (pc' = "info" /\ LineChecked')  BY <2>1, <2>3, SameLine
    <2> QED  BY <2>1, <2>2, <2>4 DEF IInv, mainVars
<1>3. CASE Info
    <2>1. UNCHANGED <<mainVars, sent>> /\ LineChecked /\ sent = <<>>
        <3>1. UNCHANGED <<mainVars, sent>> /\ pc = "info"  BY <1>3 DEF Info, applyVars
        <3> QED  BY <3>1 DEF IInv
    <2>2. pc' \in {"exit", "backend"}  BY <1>3 DEF Info, Exit
    <2>3. backend' => root
        <3>1. root \/ backend' = backend  BY <1>3 DEF Info
        <3> QED  BY <3>1 DEF IInv
    <2> QED  BY <2>1, <2>2, <2>3, SameLine DEF IInv, mainVars
<1>4. CASE Backend
    <2>1. UNCHANGED <<mainVars, sent>> /\ LineChecked /\ sent = <<>>
        <3>1. UNCHANGED <<mainVars, sent>> /\ pc = "backend"  BY <1>4 DEF Backend, applyVars
        <3> QED  BY <3>1 DEF IInv
    <2>2. pc' = "exit" \/ (pc' = "table" /\ backend')
        <3>1. \/ pc' = "exit"
              \/ pc' = "table" /\ backend /\ backend' = backend
              \/ pc' = "table" /\ backend' = TRUE
            BY <1>4 DEF Backend, Exit
        <3>2. backend' = TRUE => backend'  OBVIOUS
        <3> QED  BY <3>1, <3>2
    <2>3. backend' => root
        <3>1. root \/ backend' = backend  BY <1>4 DEF Backend
        <3> QED  BY <3>1 DEF IInv
    <2> QED  BY <2>1, <2>2, <2>3, SameLine DEF IInv, mainVars
<1>5. ASSUME NEW n \in 1 .. 3, Read(n) PROVE IInv'
    <2>1. UNCHANGED <<mainVars, backend, sent>>
        <3>1. UNCHANGED <<mainVars, backend, pass, before, applyVars>>  BY <1>5 DEF Read
        <3> QED  BY <3>1 DEF applyVars
    <2>2. /\ Reads[n] \in Hardware
          /\ n # 3 => Reads[n + 1] \in Hardware
        BY SMT DEF Reads
    <2>3. pc \in Hardware /\ pc' \in Hardware \cup {"exit"}
        BY <1>5, <2>2 DEF Read, Exit
    <2> QED  BY <1>1, <2>1, <2>3
<1>6. CASE BeginPass
    <2>1. pc \in Hardware /\ UNCHANGED <<mainVars, backend>> /\ pc' = "apply" /\ sent' = <<>>
        BY <1>6 DEF BeginPass, Begin
    <2> QED  BY <2>1, SameLine DEF IInv, mainVars
<1>7. CASE Apply
    <2>1. pc \in Hardware /\ UNCHANGED <<mainVars, backend, pc>>  BY <1>7 DEF Apply
    <2> QED  BY <2>1, SameLine DEF IInv, mainVars
<1>8. CASE Report \/ Traceback \/ Interrupt
    <2>1. UNCHANGED <<mainVars, backend, sent>>
        BY <1>8 DEF Report, Traceback, Interrupt, applyVars
    <2>2. pc \in Hardware  BY <1>8 DEF Report, Traceback, Interrupt
    <2>3. pc' \in Hardware \cup {"exit"}
        BY <1>8 DEF Report, Traceback, Interrupt, Exit
    <2> QED  BY <1>1, <2>1, <2>2, <2>3
<1>9. CASE UNCHANGED vars
    BY <1>9, SameLine DEF vars, mainVars, applyVars, IInv
<1> QED  BY <1>2, <1>3, <1>4, <1>5, <1>6, <1>7, <1>8, <1>9 DEF Next

(***************************************************************************)
(* Nothing reaches the SMU before main() has checked everything            *)
(* (cli.py:616-657).                                                       *)
(***************************************************************************)
THEOREM NothingSentUnchecked == Spec => []CheckedBeforeSent
BY IInvInit, IInvNext, IInvImplies, PTL DEF Spec

-----------------------------------------------------------------------------
(* Sequences.                                                              *)

LEMMA Least ==
    ASSUME NEW S, S \subseteq Nat, S # {}
    PROVE  \E n \in S : \A i \in S : ~(i < n)
<1>1. PICK n \in S : \A i \in S : <<i, n>> \notin OpToRel(<, Nat)
    BY NatLessThanWellFounded, WFMin, Zenon
<1>2. n \in S  BY <1>1
<1>3. \A i \in S : ~(i < n)  BY <1>1 DEF OpToRel
<1> QED  BY <1>2, <1>3, Zenon

\* Numbers from 1 on of which the first has a property and each passes it on.
LEMMA Upward ==
    ASSUME NEW n \in Nat, NEW P, 1 \in P, \A m \in 1 .. n : m + 1 \in 1 .. n /\ m \in P => m + 1 \in P
    PROVE  \A m \in 1 .. n : m \in P
<1> DEFINE Bad == (1 .. n) \ P
<1>1. SUFFICES ASSUME Bad # {} PROVE FALSE
    OBVIOUS
<1>2. Bad \subseteq Nat  OBVIOUS
<1>3. PICK m \in Bad : \A i \in Bad : ~(i < m)  BY <1>1, <1>2, Least, Zenon
<1>4. m \in 1 .. n /\ m \notin P /\ m # 1  OBVIOUS
<1>5. m - 1 \in 1 .. n /\ (m - 1) + 1 = m /\ m - 1 < m  BY <1>4
<1>6. m - 1 \in P  BY <1>3, <1>5
<1> QED  BY <1>4, <1>5, <1>6

LEMMA FlattenInSeq ==
    ASSUME NEW S, NEW s \in Seq(Seq(S))
    PROVE  FlattenSeq(s) \in Seq(S)
<1> DEFINE n == Len(s)
           Unfolds(f, m) == f = [i \in 1 .. m |-> IF i = 1 THEN s[i] ELSE f[i - 1] \o s[i]]
<1>1. n \in Nat /\ \A i \in 1 .. n : s[i] \in Seq(S)  OBVIOUS
<1>2. CASE n = 0
    <2>1. s = <<>>  BY <1>2, EmptySeq
    <2> QED  BY <1>2, <2>1 DEF FlattenSeq
<1>3. CASE n # 0
    <2> HIDE DEF n
    <2> DEFINE Def == {m \in 1 .. n : \E f : Unfolds(f, m)}
    <2>1. 1 \in Def
        <3> DEFINE f == [i \in 1 .. 1 |-> s[1]]
        <3>1. Unfolds(f, 1)  OBVIOUS
        <3>2. 1 \in 1 .. n  BY <1>1, <1>3
        <3> HIDE DEF f
        <3>3. \E g : Unfolds(g, 1)  BY <3>1
        <3> HIDE DEF Unfolds
        <3> QED  BY <3>2, <3>3
    <2>2. ASSUME NEW m \in 1 .. n, m + 1 \in 1 .. n, m \in Def PROVE m + 1 \in Def
        <3>1. PICK f : Unfolds(f, m)  BY <2>2
        <3> DEFINE g == [i \in 1 .. m + 1 |-> IF i = m + 1 THEN f[m] \o s[i] ELSE f[i]]
        <3>2. Unfolds(g, m + 1)
            <4>1. ASSUME NEW i \in 1 .. m + 1
                  PROVE  g[i] = IF i = 1 THEN s[i] ELSE g[i - 1] \o s[i]
                <5>1. CASE i = m + 1
                    <6>1. i # 1 /\ i - 1 = m /\ m \in 1 .. m + 1 /\ m # m + 1  BY <1>1, <5>1
                    <6> QED  BY <5>1, <6>1
                <5>2. CASE i # m + 1 /\ i # 1
                    <6>1. i \in 1 .. m /\ i - 1 \in 1 .. m + 1 /\ i - 1 # m + 1  BY <1>1, <5>2
                    <6>2. f[i] = f[i - 1] \o s[i]  BY <3>1, <5>2, <6>1
                    <6> QED  BY <5>2, <6>1, <6>2
                <5>3. CASE i # m + 1 /\ i = 1
                    <6>1. i \in 1 .. m  BY <1>1, <5>3
                    <6>2. f[i] = s[i]  BY <3>1, <5>3, <6>1
                    <6> QED  BY <5>3, <6>2
                <5> QED  BY <5>1, <5>2, <5>3
            <4> QED  BY <4>1
        <3> QED  BY <2>2, <3>2
    <2>3. n \in Def
        <3> HIDE DEF Def
        <3>1. \A m \in 1 .. n : m \in Def  BY <1>1, <2>1, <2>2, Upward
        <3>2. n \in 1 .. n  BY <1>1, <1>3
        <3> QED  BY <3>1, <3>2
    <2> DEFINE flatten == CHOOSE f : Unfolds(f, n)
    <2>4. Unfolds(flatten, n)  BY <2>3
    <2>5. FlattenSeq(s) = flatten[n]  BY <1>3 DEF FlattenSeq, n
    <2> HIDE DEF flatten
    <2> DEFINE Good == {m \in 1 .. n : flatten[m] \in Seq(S)}
    <2>6. 1 \in Good
        <3>1. 1 \in 1 .. n  BY <1>1, <1>3
        <3> QED  BY <1>1, <2>4, <3>1
    <2>7. ASSUME NEW m \in 1 .. n, m + 1 \in 1 .. n, m \in Good PROVE m + 1 \in Good
        <3>1. m + 1 # 1 /\ (m + 1) - 1 = m  BY <1>1
        <3>2. flatten[m + 1] = flatten[m] \o s[m + 1]  BY <2>4, <2>7, <3>1
        <3>3. flatten[m] \o s[m + 1] \in Seq(S)  BY <1>1, <2>7, ConcatProperties
        <3> QED  BY <2>7, <3>2, <3>3
    <2>8. n \in Good
        <3> HIDE DEF Good
        <3>1. \A m \in 1 .. n : m \in Good  BY <1>1, <2>6, <2>7, Upward
        <3>2. n \in 1 .. n  BY <1>1, <1>3
        <3> QED  BY <3>1, <3>2
    <2> QED  BY <2>5, <2>8
<1> QED  BY <1>2, <1>3
-----------------------------------------------------------------------------
(* The invariants of main() and of the call of apply() in it.              *)

\* What a pass gives to apply().
Preset == IF Broken THEN <<>> ELSE Tokens
Result == [tok : Nat, st : Status \cup {"error"}]

BeforeLoop == {"start", "info", "backend", "table", "dump", "sensors"}

\* Where main() and apply() are at the same time.
PhaseOK ==
    /\ pass = 0 => apc = "idle" /\ sent = <<>>
    /\ pass > 0 => apc # "idle" /\ tokens = Preset
    /\ pass > 0 /\ Broken => apc = "done" /\ rejected
    /\ pc \in BeforeLoop => pass = 0
    /\ pc = "loop" /\ pass > 0 => apc = "done"
    /\ pc = "apply" => pass > 0
    /\ end = "applied" => pass > 0 /\ apc = "done" /\ ~rejected

\* TypeOK, and what sequences the call is made of.
MainOK ==
    /\ line \in CommandLine /\ pass \in Nat
    /\ pc \in BeforeLoop \cup {"loop", "apply", "exit"}
    /\ (pc = "exit") <=> (end # "none")
    /\ backend \in BOOLEAN
CallOK ==
    /\ apc \in {"idle", "next", "send", "done", "raised"}
    /\ tokens \in Seq(Token)
    /\ tok \in 0 .. Len(tokens)
    /\ apc = "send" => msgs # <<>>
    /\ word \in Word
    /\ anyOk \in BOOLEAN /\ rejected \in BOOLEAN
    /\ results \in Seq(Result)
    /\ \E S : sent \in Seq(S)

TInv == MainOK /\ CallOK /\ PhaseOK

\* The tokens apply() is done with.
Taken == IF apc \in {"send", "raised"} THEN tok - 1 ELSE tok

Reported(n) == \E i \in DOMAIN results : results[i].tok = n
RInv ==
    /\ apc \in {"send", "raised"} => tok > 0
    /\ apc = "done" => tok = Len(tokens)
    /\ \A i \in DOMAIN results : results[i].tok <= tok
    /\ \A i, j \in DOMAIN results : i < j => results[i].tok <= results[j].tok
    /\ \A n \in 1 .. Taken : tokens[n].name # "" => Reported(n)
    /\ ~rejected => \A n \in 1 .. Taken : tokens[n].name # "" => Applied(n)
    /\ apc = "send" /\ anyOk => Applied(tok)

\* A token whose messages are sent, these messages, and the word they carry.
Sends(n)    == tokens[n].name # "" /\ ~Refused(cpu, tokens[n])
NameOf(n)   == Canonical(tokens[n].name)
Messages(n) == Lookup(cpu, NameOf(n))
WordOf(n)   == Encode(NameOf(n), IF IsFlagArg(NameOf(n)) THEN <<0>> ELSE tokens[n].val, IsHsmp(cpu))
Req(n, ms) ==
    [tok |-> n, box |-> Mailbox(Head(ms)), op |-> Head(ms).op, left |-> ms,
     word |-> IF IsQuery(NameOf(n)) THEN <<0, 0>> ELSE WordOf(n)]

\* Every request is one of a token that may be sent, with that token's word.
SInv ==
    /\ apc = "send" => tok > 0 /\ Sends(tok) /\ word = WordOf(tok)
    /\ \A i \in DOMAIN sent :
          /\ sent[i].tok \in 1 .. tok
          /\ Sends(sent[i].tok)
          /\ sent[i] = Req(sent[i].tok, sent[i].left)

\* The next token after n with messages is m; the request after q is r.
NoneSent(n, m) == \A k \in n + 1 .. m : ~Sends(k)
NextSent(n, m) == m \in n + 1 .. Len(tokens) /\ Sends(m) /\ NoneSent(n, m - 1)
Starts(n, r)   == \E m \in 1 .. Len(tokens) : NextSent(n, m) /\ r = Req(m, Messages(m))
Follows(q, r) ==
    IF Tail(q.left) # <<>> THEN r = Req(q.tok, Tail(q.left)) ELSE Starts(q.tok, r)

Due(s, r)  == IF s = <<>> THEN Starts(0, r) ELSE Follows(s[Len(s)], r)
Over(s, n) == IF s = <<>> THEN NoneSent(0, n)
              ELSE Tail(s[Len(s)].left) = <<>> /\ NoneSent(s[Len(s)].tok, n)
Chained(s) == \A i \in DOMAIN s :
                 IF i = 1 THEN Starts(0, s[i]) ELSE Follows(s[i - 1], s[i])

\* The requests s of a pass that is at token n, and those of the pass before
\* it, b, are determined by the tokens alone.
ChainOf(s, b, n, ms) ==
    /\ Chained(s)
    /\ apc = "next" => Over(s, n)
    /\ apc = "send" => Due(s, Req(n, ms))
    /\ apc = "done" => Over(s, Len(tokens))
    /\ pass > 1 =>
          /\ \E S : b \in Seq(S)
          /\ Chained(b)
          /\ Over(b, Len(tokens))
ChainInv ==
    \A s, b, n, ms : s = sent /\ b = before /\ n = tok /\ ms = msgs => ChainOf(s, b, n, ms)

-----------------------------------------------------------------------------
(* Types.                                                                  *)

\* What Append does to a sequence of anything.
LEMMA Appended ==
    ASSUME NEW s, NEW x, \E S : s \in Seq(S)
    PROVE  /\ \E S : Append(s, x) \in Seq(S)
           /\ Len(s) \in Nat /\ DOMAIN s = 1 .. Len(s)
           /\ Len(Append(s, x)) = Len(s) + 1
           /\ DOMAIN Append(s, x) = 1 .. Len(s) + 1
           /\ Append(s, x)[Len(s) + 1] = x
           /\ \A i \in 1 .. Len(s) : Append(s, x)[i] = s[i]
           /\ Append(s, x) # <<>>
<1>1. PICK S : s \in Seq(S)  OBVIOUS
<1> DEFINE T == S \cup {x}
<1>2. s \in Seq(T) /\ x \in T  BY <1>1, SeqMonotonic
<1> HIDE DEF T
<1>3. /\ Append(s, x) \in Seq(T) /\ Append(s, x) # <<>>
      /\ Len(Append(s, x)) = Len(s) + 1
      /\ \A i \in 1 .. Len(s) : Append(s, x)[i] = s[i]
      /\ Append(s, x)[Len(s) + 1] = x
    BY <1>2, AppendProperties
<1>4. Len(s) \in Nat /\ DOMAIN s = 1 .. Len(s)  BY <1>2, LenProperties
<1>5. DOMAIN Append(s, x) = 1 .. Len(s) + 1  BY <1>3, LenProperties
<1> QED  BY <1>3, <1>4, <1>5

\* The words of the line, split again.
LEMMA TokensIn ==
    ASSUME NEW S, line \in CommandLine,
           \A i \in DOMAIN line.words : line.words[i].tokens \in Seq(S)
    PROVE  Tokens \in Seq(S)
<1> DEFINE ws == line.words
<1>1. ws \in Seq(QuotedWord)  BY LineAssumption
<1>2. Len(ws) \in Nat /\ DOMAIN ws = 1 .. Len(ws)  BY <1>1, LenProperties
<1>3. LineTokens = [i \in 1 .. Len(ws) |-> ws[i].tokens]  BY <1>2 DEF LineTokens
<1>4. \A i \in DOMAIN ws : ws[i].tokens \in Seq(S)  OBVIOUS
<1>5. LineTokens \in Seq(Seq(S))
    <2> HIDE DEF ws
    <2> QED  BY <1>2, <1>3, <1>4, IsASeq
<1> QED  BY <1>5, FlattenInSeq DEF Tokens

LEMMA PresetIsTokens == line \in CommandLine => Preset \in Seq(Token)
<1> SUFFICES ASSUME line \in CommandLine PROVE Preset \in Seq(Token)
    OBVIOUS
<1>1. line.words \in Seq(QuotedWord)  BY LineAssumption
<1>2. ASSUME NEW i \in DOMAIN line.words PROVE line.words[i].tokens \in Seq(Token)
    <2>1. line.words[i] \in QuotedWord  BY <1>1, LenProperties, ElementOfSeq
    <2> QED  BY <2>1 DEF QuotedWord
<1>3. Tokens \in Seq(Token)  BY <1>2, TokensIn
<1> QED  BY <1>3, EmptySeq DEF Preset

LEMMA TInvImplies == TInv => TypeOK
BY DEF TInv, MainOK, CallOK, TypeOK, BeforeLoop

LEMMA TInvInit == Init => TInv
<1> SUFFICES ASSUME Init PROVE TInv
    OBVIOUS
<1> USE DEF Init, ApplyInit
<1>1. MainOK  BY DEF MainOK, BeforeLoop
<1>2. CallOK
    <2>1. tokens \in Seq(Token) /\ results \in Seq(Result) /\ \E S : sent \in Seq(S)
        BY EmptySeq
    <2>2. word \in Word
        <3>1. 0 \in Half  BY HalfIs
        <3> QED  BY <3>1 DEF Word
    <2>3. tok \in 0 .. Len(tokens)  BY EmptySeq
    <2> QED  BY <2>1, <2>2, <2>3 DEF CallOK
<1>3. PhaseOK  BY DEF PhaseOK
<1> QED  BY <1>1, <1>2, <1>3 DEF TInv

\* A step of main() alone: the line, the passes and the call stay.
Quiet == UNCHANGED <<mainVars, pass, before, applyVars>>
LEMMA StepKinds == [Next]_vars => Quiet \/ BeginPass \/ Apply
<1> SUFFICES ASSUME [Next]_vars PROVE Quiet \/ BeginPass \/ Apply
    OBVIOUS
<1>1. CASE Start \/ Info \/ Backend
    BY <1>1 DEF Start, Info, Backend, Quiet
<1>2. CASE \E n \in 1 .. 3 : Read(n)
    BY <1>2 DEF Read, Quiet
<1>3. CASE Report \/ Traceback \/ Interrupt
    BY <1>3 DEF Report, Traceback, Interrupt, Quiet
<1>4. CASE UNCHANGED vars
    BY <1>4 DEF vars, Quiet, mainVars
<1> QED  BY <1>1, <1>2, <1>3, <1>4 DEF Next

LEMMA QuietCall == CallOK /\ Quiet => CallOK'
BY DEF Quiet, applyVars, CallOK

\* What begins a pass.
LEMMA BeginCall == TInv /\ BeginPass => CallOK'
<1> SUFFICES ASSUME TInv, BeginPass PROVE CallOK'
    OBVIOUS
<1>0. CallOK /\ line \in CommandLine  BY DEF TInv, MainOK
<1>1. /\ tokens' = Preset /\ tok' = 0 /\ sent' = <<>>
      /\ UNCHANGED <<msgs, word, anyOk>>
      /\ apc' \in {"done", "next"}
      /\ rejected' = Broken
      /\ results' \in {<<[tok |-> 0, st |-> "error"]>>, <<>>}
    BY DEF BeginPass, Begin, Preset
<1>2. tokens' \in Seq(Token) /\ tok' \in 0 .. Len(tokens')
    <2>1. tokens' \in Seq(Token)  BY <1>0, <1>1, PresetIsTokens
    <2>2. Len(tokens') \in Nat  BY <2>1, LenProperties
    <2> QED  BY <1>1, <2>1, <2>2
<1>3. results' \in Seq(Result)
    <2>1. [tok |-> 0, st |-> "error"] \in Result  BY DEF Result
    <2>2. <<[tok |-> 0, st |-> "error"]>> \in Seq(Result) /\ <<>> \in Seq(Result)
        BY <2>1
    <2> QED  BY <1>1, <2>2
<1>4. \E S : sent' \in Seq(S)  BY <1>1, EmptySeq
<1>5. rejected' \in BOOLEAN  BY <1>1 DEF Broken
<1> QED  BY <1>0, <1>1, <1>2, <1>3, <1>4, <1>5 DEF CallOK

\* The token taken, and its word.
LEMMA TakenToken ==
    ASSUME CallOK, TakeToken
    PROVE  /\ tok' = tok + 1 /\ tok' \in 1 .. Len(tokens) /\ tokens' = tokens
           /\ tok \in Nat /\ tokens[tok'] \in Token
<1>1. tok \in Nat /\ tok < Len(tokens) /\ tok' = tok + 1 /\ Len(tokens) \in Nat /\ tokens' = tokens
    BY LenProperties DEF CallOK, TakeToken
<1>2. tok' \in 1 .. Len(tokens)  BY <1>1
<1>3. tokens \in Seq(Token)  BY DEF CallOK
<1>4. tokens[tok'] \in Token  BY <1>2, <1>3, ElementOfSeq
<1> QED  BY <1>1, <1>2, <1>4

LEMMA StartedWord ==
    ASSUME NEW t \in Token, ~Refused(cpu, t)
    PROVE  Encode(Canonical(t.name), IF IsFlagArg(Canonical(t.name)) THEN <<0>> ELSE t.val,
                  IsHsmp(cpu)) \in Word
<1> DEFINE name == Canonical(t.name)
           val  == IF IsFlagArg(name) THEN <<0>> ELSE t.val
<1>1. t.val \in Seq(Int)  BY DEF Token
<1>2. val \in Seq(Int)
    <2>1. <<0>> \in Seq(Int)  OBVIOUS
    <2> QED  BY <1>1, <2>1, Zenon
<1>3. Parses(name, val)
    <2>1. CASE IsFlagArg(name)
        <3>1. val = <<0>>  BY <2>1, Zenon
        <3>2. <<0>> # <<>> /\ Len(<<0>>) = 1  OBVIOUS
        <3> QED  BY <3>1, <3>2, Zenon DEF Parses
    <2>2. CASE ~IsFlagArg(name)
        <3>1. val = t.val  BY <2>2, Zenon
        <3>2. Parses(name, t.val)  BY <2>2, Zenon DEF Refused
        <3> QED  BY <3>1, <3>2
    <2> QED  BY <2>1, <2>2
<1>4. IsHsmp(cpu) \in BOOLEAN  BY DEF IsHsmp
<1> HIDE DEF name, val
<1>5. Encode(name, val, IsHsmp(cpu)) \in Word  BY <1>2, <1>3, <1>4, EncodeInWord
<1> QED  BY <1>5 DEF name, val

LEMMA ApplyCall == CallOK /\ ApplyNext => CallOK'
<1> SUFFICES ASSUME CallOK, ApplyNext PROVE CallOK'
    OBVIOUS
<1>0. CallOK  OBVIOUS
<1>1. CASE SkipToken
    <2>1. tok' \in 0 .. Len(tokens) /\ tokens' = tokens
        <3>1. TakeToken  BY <1>1 DEF SkipToken
        <3> QED  BY <3>1, TakenToken
    <2> QED  BY <1>0, <1>1, <2>1 DEF SkipToken, CallOK
<1>2. CASE RefuseToken
    <2>1. tok' \in 0 .. Len(tokens) /\ tokens' = tokens /\ tok' \in Nat
        <3>1. TakeToken  BY <1>2 DEF RefuseToken
        <3> QED  BY <3>1, TakenToken
    <2>2. results' \in Seq(Result)
        <3>1. [tok |-> tok', st |-> "error"] \in Result  BY <2>1 DEF Result
        <3>2. results' = Append(results, [tok |-> tok', st |-> "error"])  BY <1>2 DEF RefuseToken
        <3>3. results \in Seq(Result)  BY DEF CallOK
        <3> QED  BY <3>1, <3>2, <3>3, AppendProperties
    <2>3. rejected' = TRUE /\ UNCHANGED <<apc, msgs, word, anyOk, sent>>
        BY <1>2 DEF RefuseToken
    <2> QED  BY <1>0, <2>1, <2>2, <2>3 DEF CallOK
<1>3. CASE StartToken
    <2>1. TakeToken  BY <1>3 DEF StartToken
    <2>2. tok' \in 0 .. Len(tokens) /\ tokens' = tokens /\ tokens[tok + 1] \in Token
        BY <2>1, TakenToken
    <2> DEFINE t == tokens[tok + 1]
    <2>3. /\ ~Refused(cpu, t)
          /\ msgs' = Lookup(cpu, Canonical(t.name))
          /\ word' = Encode(Canonical(t.name),
                            IF IsFlagArg(Canonical(t.name)) THEN <<0>> ELSE t.val, IsHsmp(cpu))
          /\ anyOk' = FALSE /\ apc' = "send" /\ UNCHANGED <<results, rejected, sent>>
        BY <1>3 DEF StartToken
    <2> HIDE DEF t
    <2>4. word' \in Word  BY <2>2, <2>3, StartedWord DEF t
    <2>5. msgs' # <<>>  BY <2>3 DEF Refused
    <2> QED  BY <1>0, <2>2, <2>3, <2>4, <2>5 DEF CallOK
<1>4. ASSUME NEW status \in Status, Send(status) PROVE CallOK'
    <2>1. results' \in Seq(Result)
        <3>1. tok \in Nat  BY DEF CallOK
        <3>2. [tok |-> tok, st |-> status] \in Result  BY <3>1 DEF Result
        <3>3. results' = Append(results, [tok |-> tok, st |-> status])  BY <1>4 DEF Send
        <3>4. results \in Seq(Result)  BY DEF CallOK
        <3> QED  BY <3>2, <3>3, <3>4, AppendProperties
    <2>2. \E S : sent' \in Seq(S)
        <3>1. sent' = Append(sent, Request(Head(msgs)))  BY <1>4 DEF Send
        <3>2. \E S : sent \in Seq(S)  BY DEF CallOK
        <3> QED  BY <3>1, <3>2, Appended
    <2>3. /\ apc' \in {"next", "send"} /\ (apc' = "send" => msgs' # <<>>)
          /\ UNCHANGED <<tokens, tok, word>>
        BY <1>4 DEF Send
    <2>4. anyOk' \in BOOLEAN /\ rejected' \in BOOLEAN
        <3>1. anyOk' = (anyOk \/ status = "ok")  BY <1>4 DEF Send
        <3>2. rejected' = (rejected \/ (msgs' = <<>> /\ ~anyOk'))  BY <1>4 DEF Send
        <3> QED  BY <3>1, <3>2, Zenon
    <2> QED  BY <1>0, <2>1, <2>2, <2>3, <2>4 DEF CallOK
<1>5. CASE SendRaises
    <2>1. \E S : sent' \in Seq(S)
        <3>1. sent' = Append(sent, Request(Head(msgs)))  BY <1>5 DEF SendRaises
        <3>2. \E S : sent \in Seq(S)  BY DEF CallOK
        <3> QED  BY <3>1, <3>2, Appended
    <2> QED  BY <1>0, <1>5, <2>1 DEF SendRaises, CallOK
<1>6. CASE Return
    BY <1>0, <1>6 DEF Return, CallOK
<1> QED  BY <1>1, <1>2, <1>3, <1>4, <1>5, <1>6 DEF ApplyNext

\* Broken and Preset are about the line alone.
LEMMA SameLinePreset == ASSUME line' = line PROVE Broken' = Broken /\ Tokens' = Tokens /\ Preset' = Preset
BY DEF Broken, Tokens, LineTokens, Preset

\* A step of main() that leaves a place by its check, or ends.
LEMMA QuietMain ==
    ASSUME TInv, Quiet, pc # "exit", backend' \in BOOLEAN,
           \/ pc' = "exit" /\ end' # "none"
           \/ pc' \in BeforeLoop \cup {"loop"} /\ end' = end,
           pc' \in BeforeLoop => pc \in BeforeLoop,
           pc' = "loop" => pc \in BeforeLoop \/ (pc = "apply" /\ apc = "done"),
           end' = "applied" => end = "applied" \/ (pc = "apply" /\ apc = "done" /\ ~rejected)
    PROVE  TInv'
<1>0. MainOK /\ CallOK /\ PhaseOK  BY DEF TInv
<1>1. /\ line' = line /\ pass' = pass /\ apc' = apc /\ tokens' = tokens
      /\ rejected' = rejected /\ sent' = sent
    BY DEF Quiet, mainVars, applyVars
<1>2. MainOK'
    <2>1. pc' \in BeforeLoop \cup {"loop", "apply", "exit"}  OBVIOUS
    <2>2. end = "none"  BY <1>0 DEF MainOK
    <2>3. (pc' = "exit") <=> (end' # "none")
        <3>1. "exit" \notin BeforeLoop \cup {"loop"}  BY DEF BeforeLoop
        <3> QED  BY <2>2, <3>1
    <2> QED  BY <1>0, <1>1, <2>1, <2>3 DEF MainOK
<1>3. CallOK'  BY <1>0, QuietCall
<1>4. PhaseOK'
    <2>1. Broken' = Broken /\ Preset' = Preset  BY <1>1, SameLinePreset
    <2>2. pc' = "apply" => pass' > 0  BY DEF BeforeLoop
    <2>3. pc' = "loop" /\ pass' > 0 => apc' = "done"
        <3>1. pc \in BeforeLoop => pass = 0  BY <1>0 DEF PhaseOK
        <3> QED  BY <1>1, <3>1
    <2>4. end' = "applied" => pass' > 0 /\ apc' = "done" /\ ~rejected'
        BY <1>0, <1>1 DEF PhaseOK
    <2>5. pc' \in BeforeLoop => pass' = 0  BY <1>0, <1>1 DEF PhaseOK
    <2> QED  BY <1>0, <1>1, <2>1, <2>2, <2>3, <2>4, <2>5 DEF PhaseOK
<1> QED  BY <1>2, <1>3, <1>4 DEF TInv

LEMMA TInvNext == TInv /\ [Next]_vars => TInv'
<1> SUFFICES ASSUME TInv, [Next]_vars PROVE TInv'
    OBVIOUS
<1>0. MainOK /\ CallOK /\ PhaseOK  BY DEF TInv
<1>1. backend \in BOOLEAN  BY <1>0 DEF MainOK
<1>2. CASE Start
    <2>1. Quiet /\ pc = "start" /\ backend' = backend  BY <1>2 DEF Start, Quiet
    <2>2. \/ pc' = "exit" /\ end' \notin {"none", "applied"}
          \/ pc' = "info" /\ end' = end
        BY <1>2 DEF Start, Exit
    <2> QED  BY <1>1, <2>1, <2>2, QuietMain DEF BeforeLoop
<1>3. CASE Info
    <2>1. Quiet /\ pc = "info"  BY <1>3 DEF Info, Quiet
    <2>2. backend' \in BOOLEAN  BY <1>1, <1>3 DEF Info
    <2>3. \/ pc' = "exit" /\ end' \notin {"none", "applied"}
          \/ pc' = "backend" /\ end' = end
        BY <1>3 DEF Info, Exit
    <2> QED  BY <2>1, <2>2, <2>3, QuietMain DEF BeforeLoop
<1>4. CASE Backend
    <2>1. Quiet /\ pc = "backend"  BY <1>4 DEF Backend, Quiet
    <2>2. backend' \in BOOLEAN  BY <1>1, <1>4 DEF Backend
    <2>3. \/ pc' = "exit" /\ end' \notin {"none", "applied"}
          \/ pc' = "table" /\ end' = end
        BY <1>4 DEF Backend, Exit
    <2> QED  BY <2>1, <2>2, <2>3, QuietMain DEF BeforeLoop
<1>5. ASSUME NEW n \in 1 .. 3, Read(n) PROVE TInv'
    <2>1. Quiet /\ backend' = backend  BY <1>5 DEF Read, Quiet
    <2>2. /\ Reads[n] \in BeforeLoop
          /\ n # 3 => Reads[n + 1] \in BeforeLoop
        BY SMT DEF Reads, BeforeLoop
    <2>3. pc = Reads[n]  BY <1>5 DEF Read
    <2>4. \/ pc' = "exit" /\ end' \notin {"none", "applied"}
          \/ pc' \in BeforeLoop \cup {"loop"} /\ end' = end
        BY <1>5, <2>2 DEF Read, Exit
    <2>5. pc \in BeforeLoop /\ pc # "exit"  BY <2>2, <2>3 DEF BeforeLoop
    <2>6. backend' \in BOOLEAN  BY <1>1, <2>1
    <2> QED  BY <2>1, <2>4, <2>5, <2>6, QuietMain
<1>6. CASE BeginPass
    <2>1. MainOK'
        <3>1. pc = "loop" /\ pc' = "apply" /\ pass' = pass + 1 /\ UNCHANGED <<line, backend, end>>
            BY <1>6 DEF BeginPass, mainVars
        <3> QED  BY <1>0, <3>1 DEF MainOK
    <2>2. CallOK'  BY <1>6, BeginCall
    <2>3. PhaseOK'
        <3>1. pc = "loop" /\ pc' = "apply" /\ pass' = pass + 1 /\ UNCHANGED <<line, end>>
              /\ pass \in Nat /\ end = "none"
            BY <1>0, <1>6 DEF BeginPass, mainVars, MainOK
        <3>2. pass' > 0 /\ pass' # 0  BY <3>1
        <3>3. /\ tokens' = Preset
              /\ apc' = IF Broken THEN "done" ELSE "next"
              /\ rejected' = Broken
            BY <1>6 DEF BeginPass, Begin, Preset
        <3>4. Broken' = Broken /\ Preset' = Preset  BY <3>1, SameLinePreset
        <3> QED  BY <3>1, <3>2, <3>3, <3>4 DEF PhaseOK, BeforeLoop
    <2> QED  BY <2>1, <2>2, <2>3 DEF TInv
<1>7. CASE Apply
    <2>1. ApplyNext /\ UNCHANGED <<line, pc, backend, end, pass>> /\ pc = "apply"
        BY <1>7 DEF Apply, mainVars
    <2>2. MainOK'  BY <1>0, <2>1 DEF MainOK
    <2>3. CallOK'  BY <1>0, <2>1, ApplyCall
    <2>4. PhaseOK'
        <3>1. pass > 0 /\ tokens = Preset /\ pass # 0 /\ pass \in Nat /\ end = "none"
            BY <1>0, <2>1 DEF PhaseOK, MainOK
        <3>2. apc # "done" /\ apc' # "idle" /\ tokens' = tokens
            BY <2>1 DEF ApplyNext, SkipToken, RefuseToken, StartToken, TakeToken, Send,
                        SendRaises, Return
        <3>3. ~Broken  BY <1>0, <3>1, <3>2 DEF PhaseOK
        <3>4. Broken' = Broken /\ Preset' = Preset  BY <2>1, SameLinePreset
        <3> QED  BY <2>1, <3>1, <3>2, <3>3, <3>4 DEF PhaseOK, BeforeLoop
    <2> QED  BY <2>2, <2>3, <2>4 DEF TInv
<1>8. CASE Report
    <2>1. Quiet /\ pc = "apply" /\ apc = "done" /\ backend' = backend  BY <1>8 DEF Report, Quiet
    <2>2. \/ pc' = "exit" /\ end' # "none" /\ (end' = "applied" => ~rejected)
          \/ pc' = "loop" /\ end' = end
        BY <1>8 DEF Report, Exit
    <2> QED  BY <1>1, <2>1, <2>2, QuietMain DEF BeforeLoop
<1>9. CASE Traceback \/ Interrupt
    <2>1. Quiet /\ pc \in {"apply", "loop"} /\ backend' = backend
        BY <1>9 DEF Traceback, Interrupt, Quiet
    <2>2. pc' = "exit" /\ end' \notin {"none", "applied"}
        BY <1>9 DEF Traceback, Interrupt, Exit
    <2> QED  BY <1>1, <2>1, <2>2, QuietMain DEF BeforeLoop
<1>10. CASE UNCHANGED vars
    <2>1. MainOK'  BY <1>0, <1>10 DEF vars, MainOK
    <2>2. Quiet  BY <1>10 DEF vars, Quiet, mainVars
    <2>3. CallOK'  BY <1>0, <2>2, QuietCall
    <2>4. PhaseOK'
        <3>1. Broken' = Broken /\ Preset' = Preset  BY <1>10, SameLinePreset DEF vars
        <3> QED  BY <1>0, <1>10, <3>1 DEF vars, applyVars, PhaseOK
    <2> QED  BY <2>1, <2>3, <2>4 DEF TInv
<1> QED  BY <1>2, <1>3, <1>4, <1>5, <1>6, <1>7, <1>8, <1>9, <1>10 DEF Next

LEMMA TInvAlways == Spec => []TInv
BY TInvInit, TInvNext, PTL DEF Spec

(***************************************************************************)
(* main() and apply() keep their variables' types, whatever the values on  *)
(* the line: every value that parses becomes a word of 32 bits             *)
(* (apply.py:27-101, 181-196).                                             *)
(***************************************************************************)
THEOREM TypeCorrect == Spec => []TypeOK
BY TInvAlways, TInvImplies, PTL

-----------------------------------------------------------------------------
(* The results of a call.                                                  *)

\* A result appended for the token in hand.
LEMMA MoreResults ==
    ASSUME CallOK, NEW r \in Result, results' = Append(results, r)
    PROVE  /\ \A n : (Reported(n) => Reported(n)') /\ (Applied(n) => Applied(n)')
           /\ Reported(r.tok)'
           /\ \A n : r = [tok |-> n, st |-> "ok"] => Applied(n)'
           /\ \A b \in Nat :
                 (\A i \in DOMAIN results : results[i].tok <= b) /\ r.tok <= b
                    => \A i \in DOMAIN results' : results'[i].tok <= b
           /\ (\A i \in DOMAIN results : results[i].tok <= r.tok)
              /\ (\A i, j \in DOMAIN results : i < j => results[i].tok <= results[j].tok)
                 => \A i, j \in DOMAIN results' : i < j => results'[i].tok <= results'[j].tok
<1> DEFINE n == Len(results)
<1>1. results \in Seq(Result)  BY DEF CallOK
<1>2. /\ n \in Nat /\ DOMAIN results = 1 .. n
      /\ DOMAIN results' = 1 .. n + 1
      /\ results'[n + 1] = r
      /\ \A i \in 1 .. n : results'[i] = results[i]
    <2>1. \E S : results \in Seq(S)  BY <1>1
    <2> QED  BY <2>1, Appended
<1> HIDE DEF n
<1>3. n + 1 \in DOMAIN results' /\ \A i \in 1 .. n : i \in DOMAIN results'  BY <1>2
<1>4. \A k : (Reported(k) => Reported(k)') /\ (Applied(k) => Applied(k)')
    BY <1>2, <1>3 DEF Reported, Applied
<1>5. Reported(r.tok)' /\ \A k : r = [tok |-> k, st |-> "ok"] => Applied(k)'
    BY <1>2, <1>3 DEF Reported, Applied
<1>6. ASSUME NEW i \in DOMAIN results'
      PROVE  \/ i \in DOMAIN results /\ results'[i] = results[i]
             \/ i = n + 1 /\ results'[i] = r
    BY <1>2
<1>7. ASSUME NEW b \in Nat, \A i \in DOMAIN results : results[i].tok <= b, r.tok <= b,
             NEW i \in DOMAIN results'
      PROVE  results'[i].tok <= b
    BY <1>6, <1>7
<1>8. ASSUME \A i \in DOMAIN results : results[i].tok <= r.tok,
             \A i, j \in DOMAIN results : i < j => results[i].tok <= results[j].tok,
             NEW i \in DOMAIN results', NEW j \in DOMAIN results', i < j
      PROVE  results'[i].tok <= results'[j].tok
    <2>1. i \in DOMAIN results /\ results'[i] = results[i]
        <3>1. i # n + 1  BY <1>2, <1>8
        <3> QED  BY <1>6, <3>1
    <2> QED  BY <1>6, <1>8, <2>1
<1> QED  BY <1>4, <1>5, <1>7, <1>8

LEMMA RInvInit == Init => RInv
BY EmptySeq DEF Init, ApplyInit, RInv, Taken

LEMMA QuietResults == RInv /\ Quiet => RInv'
<1> SUFFICES ASSUME RInv, Quiet PROVE RInv'
    OBVIOUS
<1>1. UNCHANGED <<apc, tokens, tok, anyOk, results, rejected>>  BY DEF Quiet, applyVars
<1>2. Taken' = Taken  BY <1>1 DEF Taken
<1>3. \A n : Reported(n)' = Reported(n) /\ Applied(n)' = Applied(n)  BY <1>1 DEF Reported, Applied
<1> QED  BY <1>1, <1>2, <1>3 DEF RInv

LEMMA BeginResults == TInv /\ BeginPass => RInv'
<1> SUFFICES ASSUME BeginPass PROVE RInv'
    OBVIOUS
<1>1. /\ tok' = 0 /\ apc' = IF Broken THEN "done" ELSE "next"
      /\ tokens' = IF Broken THEN <<>> ELSE Tokens
      /\ results' = IF Broken THEN <<[tok |-> 0, st |-> "error"]>> ELSE <<>>
    BY DEF BeginPass, Begin
<1>2. Taken' = 0  BY <1>1 DEF Taken
<1>3. apc' = "done" => tok' = Len(tokens')  BY <1>1, EmptySeq
<1>4. \A i \in DOMAIN results' : i = 1 /\ results'[i].tok = 0
    <2>1. CASE Broken
        <3> DEFINE r == [tok |-> 0, st |-> "error"]
        <3>1. r.tok = 0  OBVIOUS
        <3> HIDE DEF r
        <3>2. results' = <<r>>  BY <1>1, <2>1 DEF r
        <3> QED  BY <3>1, <3>2
    <2>2. CASE ~Broken
        BY <1>1, <2>2
    <2> QED  BY <2>1, <2>2
<1>5. 1 .. Taken' = {}  BY <1>2
<1> HIDE DEF Taken
<1>6. ~(apc' = "send") /\ ~(apc' = "raised")  BY <1>1
<1>7. \A i \in DOMAIN results' : results'[i].tok <= tok'  BY <1>1, <1>4
<1>8. \A i, j \in DOMAIN results' : i < j => results'[i].tok <= results'[j].tok  BY <1>4
<1> QED  BY <1>3, <1>5, <1>6, <1>7, <1>8, Zenon DEF RInv

LEMMA ApplyResults == CallOK /\ RInv /\ ApplyNext => RInv'
<1> SUFFICES ASSUME CallOK, RInv, ApplyNext PROVE RInv'
    OBVIOUS
<1>0. tok \in Nat /\ Len(tokens) \in Nat /\ results \in Seq(Result)
    BY LenProperties DEF CallOK
<1> DEFINE Named(n) == tokens[n].name # ""
\* The next token is taken, with a result for it or without.
<1>1. ASSUME TakeToken, apc' = "next", UNCHANGED anyOk,
             \/ UNCHANGED <<results, rejected>> /\ ~Named(tok + 1)
             \/ /\ results' = Append(results, [tok |-> tok', st |-> "error"])
                /\ rejected' = TRUE
      PROVE  RInv'
    <2>1. tok' = tok + 1 /\ tokens' = tokens /\ tok' \in Nat /\ Taken' = tok + 1 /\ Taken = tok
        <3>1. tok' = tok + 1 /\ tokens' = tokens /\ apc = "next"  BY <1>1 DEF TakeToken
        <3>2. Taken' = tok'  BY <1>1 DEF Taken
        <3>3. Taken = tok  BY <3>1 DEF Taken
        <3> QED  BY <1>0, <3>1, <3>2, <3>3
    <2> DEFINE r == [tok |-> tok', st |-> "error"]
    <2>2. r \in Result /\ r.tok = tok'  BY <2>1 DEF Result
    <2> HIDE DEF r
    <2>3. \A i \in DOMAIN results : results[i].tok <= tok'
        <3>1. ASSUME NEW i \in DOMAIN results PROVE results[i].tok <= tok'
            <4>1. results[i].tok \in Nat
                <5>1. results[i] \in Result  BY <1>0, LenProperties, ElementOfSeq
                <5> QED  BY <5>1 DEF Result
            <4>2. results[i].tok <= tok  BY DEF RInv
            <4> QED  BY <1>0, <2>1, <4>1, <4>2
        <3> QED  BY <3>1
    <2>4. \A i \in DOMAIN results' : results'[i].tok <= tok'
        <3>1. CASE results' = results  BY <2>3, <3>1
        <3>2. CASE results' = Append(results, r)
            <4>1. r.tok <= tok'  BY <2>1, <2>2
            <4> QED  BY <2>1, <2>2, <2>3, <3>2, <4>1, MoreResults
        <3> QED  BY <1>1, <3>1, <3>2 DEF r
    <2>5. \A i, j \in DOMAIN results' : i < j => results'[i].tok <= results'[j].tok
        <3>1. CASE results' = results  BY <3>1 DEF RInv
        <3>2. CASE results' = Append(results, r)
            <4>1. \A i, j \in DOMAIN results : i < j => results[i].tok <= results[j].tok  BY DEF RInv
            <4> QED  BY <2>2, <2>3, <3>2, <4>1, MoreResults
        <3> QED  BY <1>1, <3>1, <3>2 DEF r
    <2>6. ASSUME NEW n \in 1 .. tok + 1, Named(n) PROVE Reported(n)' /\ (~rejected' => Applied(n)')
        <3>1. n \in 1 .. tok \/ n = tok + 1  BY <1>0
        <3>2. CASE UNCHANGED <<results, rejected>> /\ ~Named(tok + 1)
            <4>1. n \in 1 .. tok  BY <2>6, <3>1, <3>2
            <4>2. Reported(n) /\ (~rejected => Applied(n))  BY <2>1, <2>6, <4>1 DEF RInv
            <4> QED  BY <3>2, <4>2 DEF Reported, Applied
        <3>3. CASE results' = Append(results, r) /\ rejected' = TRUE
            <4>1. CASE n \in 1 .. tok
                <5>1. Reported(n)  BY <2>1, <2>6, <4>1 DEF RInv
                <5> QED  BY <2>2, <3>3, <5>1, MoreResults
            <4>2. CASE n = tok + 1
                <5>1. n = r.tok  BY <2>1, <2>2, <4>2
                <5> QED  BY <2>2, <3>3, <5>1, MoreResults
            <4> QED  BY <3>1, <4>1, <4>2
        <3> QED  BY <1>1, <3>2, <3>3 DEF r
    <2>7. ~(apc' \in {"send", "raised"}) /\ apc' # "done"  BY <1>1
    <2> QED  BY <2>1, <2>4, <2>5, <2>6, <2>7 DEF RInv
<1>2. CASE SkipToken
    <2>1. TakeToken /\ apc' = "next" /\ UNCHANGED anyOk
        BY <1>2 DEF SkipToken, TakeToken
    <2>2. UNCHANGED <<results, rejected>> /\ ~Named(tok + 1)  BY <1>2 DEF SkipToken
    <2> QED  BY <1>1, <2>1, <2>2
<1>3. CASE RefuseToken
    <2>1. TakeToken /\ apc' = "next" /\ UNCHANGED anyOk
        BY <1>3 DEF RefuseToken, TakeToken
    <2>2. results' = Append(results, [tok |-> tok', st |-> "error"]) /\ rejected' = TRUE
        BY <1>3 DEF RefuseToken
    <2> QED  BY <1>1, <2>1, <2>2
<1>4. CASE StartToken
    <2>1. TakeToken /\ anyOk' = FALSE /\ apc' = "send" /\ UNCHANGED <<results, rejected>>
        BY <1>4 DEF StartToken
    <2>2. tok' = tok + 1 /\ tokens' = tokens /\ apc = "next"  BY <2>1, TakenToken DEF TakeToken
    <2>3. Taken' = tok /\ Taken = tok /\ tok' > 0  BY <1>0, <2>1, <2>2 DEF Taken
    <2>4. \A i \in DOMAIN results : results[i].tok <= tok'
        <3>1. ASSUME NEW i \in DOMAIN results PROVE results[i].tok <= tok'
            <4>1. results[i].tok \in Nat
                <5>1. results[i] \in Result  BY <1>0, LenProperties, ElementOfSeq
                <5> QED  BY <5>1 DEF Result
            <4>2. results[i].tok <= tok  BY DEF RInv
            <4> QED  BY <1>0, <2>2, <4>1, <4>2
        <3> QED  BY <3>1
    <2> QED  BY <2>1, <2>2, <2>3, <2>4 DEF RInv, Reported, Applied
<1>5. ASSUME NEW status \in Status, Send(status) PROVE RInv'
    <2> DEFINE r == [tok |-> tok, st |-> status]
    <2>1. /\ apc = "send" /\ tok' = tok /\ tokens' = tokens
          /\ results' = Append(results, r)
          /\ anyOk' = (anyOk \/ status = "ok")
          /\ apc' = IF msgs' = <<>> THEN "next" ELSE "send"
          /\ rejected' = (rejected \/ (msgs' = <<>> /\ ~anyOk'))
        BY <1>5 DEF Send
    <2>2. r \in Result /\ r.tok = tok /\ (status = "ok" => r = [tok |-> tok, st |-> "ok"])
        BY <1>0 DEF Result
    <2> HIDE DEF r
    <2>3. /\ \A n : (Reported(n) => Reported(n)') /\ (Applied(n) => Applied(n)')
          /\ Reported(tok)'
          /\ status = "ok" => Applied(tok)'
        BY <2>1, <2>2, MoreResults
    <2>4. \A i \in DOMAIN results' : results'[i].tok <= tok'
        <3>1. \A i \in DOMAIN results : results[i].tok <= tok  BY DEF RInv
        <3>2. r.tok <= tok  BY <1>0, <2>2
        <3> QED  BY <1>0, <2>1, <2>2, <3>1, <3>2, MoreResults
    <2>5. \A i, j \in DOMAIN results' : i < j => results'[i].tok <= results'[j].tok
        <3>1. /\ \A i \in DOMAIN results : results[i].tok <= r.tok
              /\ \A i, j \in DOMAIN results : i < j => results[i].tok <= results[j].tok
            BY <2>2 DEF RInv
        <3> QED  BY <2>1, <2>2, <3>1, MoreResults
    <2>6. anyOk' => Applied(tok)'
        BY <2>1, <2>3, Zenon DEF RInv
    <2>7. Taken = tok - 1 /\ tok > 0  BY <2>1 DEF Taken, RInv
    <2>8. Taken' = tok - 1 \/ (Taken' = tok /\ msgs' = <<>>)  BY <2>1 DEF Taken
    <2>9. ASSUME NEW n \in 1 .. Taken', Named(n) PROVE Reported(n)' /\ (~rejected' => Applied(n)')
        <3>1. n \in 1 .. Taken \/ (n = tok /\ msgs' = <<>>)  BY <1>0, <2>7, <2>8
        <3>2. CASE n \in 1 .. Taken
            <4>1. Reported(n) /\ (~rejected => Applied(n))  BY <2>9, <3>2 DEF RInv
            <4> QED  BY <2>1, <2>3, <4>1, Zenon
        <3>3. CASE n = tok /\ msgs' = <<>>
            <4>1. ASSUME ~anyOk' PROVE rejected'
                <5>1. msgs' = <<>> /\ ~anyOk'  BY <3>3, <4>1
                <5>2. rejected' = (rejected \/ (msgs' = <<>> /\ ~anyOk'))  BY <2>1
                <5>3. (rejected \/ (msgs' = <<>> /\ ~anyOk')) = TRUE  BY <5>1
                <5> QED  BY <5>2, <5>3
            <4>2. tok' = n  BY <2>1, <3>3
            <4> QED  BY <2>3, <2>6, <4>1, <4>2 DEF Reported, Applied
        <3> QED  BY <3>1, <3>2, <3>3
    <2>10. apc' # "done" /\ tok' > 0  BY <2>1, <2>7
    <2> QED  BY <2>1, <2>4, <2>5, <2>6, <2>9, <2>10, Zenon DEF RInv
<1>6. CASE SendRaises
    <2>1. /\ apc = "send" /\ apc' = "raised"
          /\ UNCHANGED <<tokens, tok, results, rejected, anyOk>>
        BY <1>6 DEF SendRaises
    <2>2. Taken' = Taken  BY <2>1 DEF Taken
    <2> QED  BY <2>1, <2>2 DEF RInv, Reported, Applied
<1>7. CASE Return
    <2>1. /\ apc = "next" /\ apc' = "done" /\ tok = Len(tokens)
          /\ UNCHANGED <<tokens, tok, results, rejected, anyOk>>
        BY <1>7 DEF Return
    <2>2. Taken' = Taken  BY <2>1 DEF Taken
    <2> QED  BY <2>1, <2>2 DEF RInv, Reported, Applied
<1> QED  BY <1>2, <1>3, <1>4, <1>5, <1>6, <1>7 DEF ApplyNext

LEMMA RInvAlways == Spec => []RInv
<1>1. TInv /\ RInv /\ [Next]_vars => RInv'
    BY StepKinds, QuietResults, BeginResults, ApplyResults DEF TInv, Apply
<1> QED  BY <1>1, RInvInit, TInvAlways, PTL DEF Spec

(***************************************************************************)
(* The exit code of success means that the SMU has accepted a message for  *)
(* every argument, for any line and whatever it refuses (apply.py:229).    *)
(***************************************************************************)
THEOREM SuccessMeansAll == Spec => []AppliedMeansAll
<1>1. TInv /\ RInv => AppliedMeansAll
    <2> SUFFICES ASSUME TInv, RInv, end = "applied", NEW n \in DOMAIN Tokens, Tokens[n].name # ""
                 PROVE  Applied(n)
        BY DEF AppliedMeansAll
    <2>1. pass > 0 /\ apc = "done" /\ ~rejected  BY DEF TInv, PhaseOK
    <2>2. ~Broken /\ tokens = Tokens  BY <2>1 DEF TInv, PhaseOK, Preset
    <2>3. DOMAIN Tokens = 1 .. Taken
        BY <2>1, <2>2, LenProperties DEF TInv, CallOK, RInv, Taken
    <2> QED  BY <2>1, <2>2, <2>3 DEF RInv
<1> QED  BY <1>1, TInvAlways, RInvAlways, PTL

(***************************************************************************)
(* The list apply() returns skips no argument and keeps their order, for   *)
(* any line (apply.py:131-219).                                            *)
(***************************************************************************)
THEOREM EveryArgumentReported == Spec => []EveryTokenReported
<1>1. TInv /\ RInv => EveryTokenReported
    <2> SUFFICES ASSUME TInv, RInv, apc = "done", ~Broken
                 PROVE  /\ \A n \in DOMAIN Tokens : Tokens[n].name # "" => Reported(n)
                        /\ \A i, j \in DOMAIN results : i < j => results[i].tok <= results[j].tok
        BY DEF EveryTokenReported, Reported
    <2>1. pass > 0
        <3>1. pass # 0 /\ pass \in Nat  BY DEF TInv, PhaseOK, MainOK
        <3> QED  BY <3>1
    <2>2. tokens = Tokens  BY <2>1 DEF TInv, PhaseOK, Preset
    <2>3. DOMAIN Tokens = 1 .. Taken
        BY <2>2, LenProperties DEF TInv, CallOK, RInv, Taken
    <2> QED  BY <2>2, <2>3 DEF RInv
<1> QED  BY <1>1, TInvAlways, RInvAlways, PTL

-----------------------------------------------------------------------------
(* The words say what was asked.                                           *)

LEMMA Word32Reads ==
    ASSUME NEW u \in Nat, u \div 65536 < 65536
    PROVE  /\ Word32(u)[1] * 65536 + Word32(u)[2] = u
           /\ u < 65536 => Word32(u)[1] = 0 /\ Word32(u)[2] = u
           /\ u < 1048576 => Low20(Word32(u)) = u
<1> DEFINE h == u \div 65536
           l == u % 65536
<1>1. h \in Nat /\ h < 65536 /\ l \in Nat /\ l < 65536 /\ u = h * 65536 + l  BY SMT
<1>2. Word32(u) = <<h % 65536, l>>  BY SMT DEF Word32
<1> HIDE DEF h, l
<1>3. h % 65536 = h  BY <1>1, SMT
<1>4. Word32(u)[1] = h /\ Word32(u)[2] = l  BY <1>2, <1>3, SMT
<1>5. u < 65536 => h = 0 /\ l = u  BY <1>1, SMT
<1>6. ASSUME u < 1048576 PROVE Low20(Word32(u)) = u
    <2>1. h % 16 = h  BY <1>1, <1>6, SMT
    <2> QED  BY <1>1, <1>4, <2>1, SMT DEF Low20
<1> QED  BY <1>1, <1>4, <1>5, <1>6, SMT

\* What the fields of a packed word have room for.
PrefixFits(ccd, ccx, core, enc20) ==
    /\ ccd \in Int /\ 0 <= ccd /\ ccd < 16
    /\ ccx \in Int /\ 0 <= ccx /\ ccx < 16
    /\ core \in Int
    /\ enc20 \in Nat /\ enc20 < 1048576
LEMMA PrefixFields ==
    ASSUME NEW ccd, NEW ccx, NEW core, NEW enc20, PrefixFits(ccd, ccx, core, enc20)
    PROVE  /\ Nibble7(Join(Prefix(ccd, ccx, core), enc20)) = ccd
           /\ Nibble6(Join(Prefix(ccd, ccx, core), enc20)) = ccx
           /\ Nibble5(Join(Prefix(ccd, ccx, core), enc20)) = core % 8
           /\ Low20(Join(Prefix(ccd, ccx, core), enc20)) = enc20
<1> DEFINE c == core % 8
           prefix == ccd * 256 + ccx * 16 + c
           w == Join(Prefix(ccd, ccx, core), enc20)
<1>0. /\ ccd \in Int /\ 0 <= ccd /\ ccd < 16
      /\ ccx \in Int /\ 0 <= ccx /\ ccx < 16
      /\ core \in Int
      /\ enc20 \in Nat /\ enc20 < 1048576
    BY DEF PrefixFits
<1>1. c \in Int /\ 0 <= c /\ c < 8  BY <1>0, SMT
<1>2. w = Join((ccd % 16) * 256 + (ccx % 16) * 16 + c, enc20)  BY <1>0, SMT DEF Prefix
<1>3. ccd % 16 = ccd /\ ccx % 16 = ccx  BY <1>0, SMT
<1> HIDE DEF c, w
<1>4. w = Join(prefix, enc20)  BY <1>2, <1>3, SMT
<1>5. prefix \in Int /\ 0 <= prefix /\ prefix < 4096  BY <1>0, <1>1, SMT
<1>6. prefix \div 256 = ccd  BY <1>0, <1>1, SMT
<1>7. prefix % 16 = c  BY <1>0, <1>1, SMT
<1>8. (prefix \div 16) % 16 = ccx
    <2>1. prefix \div 16 = ccd * 16 + ccx  BY <1>0, <1>1, SMT
    <2> QED  BY <1>0, <1>1, <2>1, SMT
<1> HIDE DEF prefix
<1>9. /\ Low20(w) = enc20
      /\ Nibble7(w) = prefix \div 256
      /\ Nibble6(w) = (prefix \div 16) % 16
      /\ Nibble5(w) = prefix % 16
    BY <1>0, <1>4, <1>5, JoinFields, SMT
<1>10. Nibble7(w) = ccd /\ Nibble6(w) = ccx /\ Nibble5(w) = c /\ Low20(w) = enc20
    BY <1>6, <1>7, <1>8, <1>9, SMT
<1> QED  BY <1>10 DEF w, c

\* The packed words of set-coper, read where the SMU reads them.
HsmpWord(ccd, core, v) == <<((ccd * 16 + core) * 2) % 65536, HsmpPsmMargin(v)>>
LEMMA HsmpReads ==
    ASSUME NEW ccd \in Int, 0 <= ccd, ccd < 16,
           NEW core \in Int, 0 <= core, core < 16,
           NEW v \in Int, -32768 <= v, v < 32768
    PROVE  /\ (HsmpWord(ccd, core, v)[1] \div 2) % 16 = core
           /\ HsmpWord(ccd, core, v)[1] \div 32 = ccd
           /\ Signed(HsmpWord(ccd, core, v)[2], 65536) = v
<1> DEFINE h == ((ccd * 16 + core) * 2) % 65536
           m == HsmpPsmMargin(v)
<1>1. h = (ccd * 16 + core) * 2  BY SMT
<1>2. (h \div 2) % 16 = core /\ h \div 32 = ccd  BY <1>1, SMT
<1>3. Signed(m, 65536) = v  BY MarginSurvives, SMT
<1>4. HsmpWord(ccd, core, v) = <<h, m>>  BY DEF HsmpWord
<1> HIDE DEF h, m
<1>5. HsmpWord(ccd, core, v)[1] = h /\ HsmpWord(ccd, core, v)[2] = m  BY <1>4, SMT
<1> QED  BY <1>2, <1>3, <1>5

LEMMA CoperReads ==
    ASSUME NEW ccd \in Int, 0 <= ccd, ccd < 16,
           NEW core \in Int, 0 <= core, core < 128,
           NEW v \in Int, -524288 <= v, v < 524288,
           NEW hsmp \in BOOLEAN, ~hsmp
    PROVE  /\ Nibble7(CoperOf(ccd, core, v, hsmp)) = ccd
           /\ 8 * Nibble6(CoperOf(ccd, core, v, hsmp)) + Nibble5(CoperOf(ccd, core, v, hsmp)) = core
           /\ core < 8 => Nibble5(CoperOf(ccd, core, v, hsmp)) = core
           /\ Signed(Low20(CoperOf(ccd, core, v, hsmp)), 1048576) = v
<1> DEFINE w == CoperOf(ccd, core, v, hsmp)
           e == CoScale(v)
           x == core \div 8
           j == Join(Prefix(ccd, x, core), e)
<1>1. e \in Nat /\ e < 1048576 /\ Signed(e, 1048576) = v  BY OffsetSurvives, SMT
<1>2. x \in Int /\ 0 <= x /\ x < 16 /\ 8 * x + (core % 8) = core  BY SMT
<1>3. core < 8 => core % 8 = core  BY SMT
<1>4. w = j  BY DEF CoperOf
<1> HIDE DEF e, x, w
<1>5. Nibble7(j) = ccd /\ Nibble6(j) = x /\ Nibble5(j) = core % 8 /\ Low20(j) = e
    <2>1. PrefixFits(ccd, x, core, e)  BY <1>1, <1>2, SMT DEF PrefixFits
    <2> QED  BY <2>1, PrefixFields DEF j
<1>6. Nibble7(w) = ccd /\ Nibble6(w) = x /\ Nibble5(w) = core % 8 /\ Low20(w) = e
    BY <1>4, <1>5
<1> QED  BY <1>1, <1>2, <1>3, <1>6, SMT DEF w

\* The three forms of a value for one core, and what fits them.
CoreForm(val) == Len(val) = 2 \/ Len(val) = 3 \/ Len(val) = 4
LEMMA CoreForms ==
    ASSUME NEW val \in Seq(Int), Len(val) > 1, NEW cores \in Nat, CoreFits(val, cores)
    PROVE  /\ val # <<>> /\ CoreForm(val)
           /\ CcdOf(val) \in Int /\ 0 <= CcdOf(val) /\ CcdOf(val) < 16
           /\ val[Len(val) - 1] \in Int /\ 0 <= val[Len(val) - 1] /\ val[Len(val) - 1] < cores
           /\ Len(val) = 4 => val[2] \in Int /\ 0 <= val[2] /\ val[2] < 16
           /\ val[Len(val)] \in Int
<1>1. val # <<>> /\ Len(val) \in Nat
    <2>1. val = <<>> => Len(val) = 0  BY EmptySeq, Zenon
    <2>2. ~(0 > 1)  OBVIOUS
    <2> QED  BY <2>1, <2>2, LenProperties, Zenon
<1>2. /\ Len(val) <= 4
      /\ 0 <= val[Len(val) - 1]
      /\ val[Len(val) - 1] < cores
      /\ Len(val) > 2 => 0 <= val[1] /\ val[1] < 16
      /\ Len(val) > 3 => 0 <= val[2] /\ val[2] < 16
    BY DEF CoreFits
<1>3. CoreForm(val)
    <2>1. \A n \in Nat : n > 1 /\ n <= 4 => n = 2 \/ n = 3 \/ n = 4  BY SMT
    <2> QED  BY <1>1, <1>2, <2>1, Zenon DEF CoreForm
<1>4. val[1] \in Int /\ val[2] \in Int /\ val[Len(val)] \in Int
    <2>1. 2 # 1 /\ 3 # 1 /\ 4 # 1  OBVIOUS
    <2>2. Len(val) # 1  BY <1>3, <2>1, Zenon DEF CoreForm
    <2> QED  BY <1>1, <2>2, Elements, Zenon
<1>5. CcdOf(val) \in Int /\ 0 <= CcdOf(val) /\ CcdOf(val) < 16
    <2>1. CASE Len(val) = 2
        <3>1. 0 \in Int /\ 0 <= 0 /\ 0 < 16  BY SMT
        <3> QED  BY <2>1, <3>1, Zenon DEF CcdOf
    <2>2. CASE Len(val) # 2
        <3>1. 3 > 2 /\ 4 > 2  BY SMT
        <3>2. Len(val) > 2  BY <1>3, <2>2, <3>1, Zenon DEF CoreForm
        <3> QED  BY <1>2, <1>4, <2>2, <3>2, Zenon DEF CcdOf
    <2> QED  BY <2>1, <2>2
<1>6. val[Len(val) - 1] \in Int
    <2>1. Len(val) - 1 \in 1 .. Len(val)  BY <1>3, SMT DEF CoreForm
    <2> QED  BY <2>1, SMT
<1>7. Len(val) = 4 => val[2] \in Int /\ 0 <= val[2] /\ val[2] < 16  BY <1>2, <1>4, SMT
<1> QED  BY <1>1, <1>2, <1>3, <1>4, <1>5, <1>6, <1>7, Zenon

\* What fits the fields of a CCX and a core.
LEMMA CoresInFields ==
    ASSUME NEW val
    PROVE  /\ CoresOf(val) \in Nat
           /\ \A x \in Int : x < CoresOf(val) => x < 128 /\ (Len(val) = 4 => x < 8)
BY SMT DEF CoresOf

LEMMA PackedOf ==
    ASSUME NEW val \in Seq(Int), val # <<>>, CoreForm(val), NEW hsmp \in BOOLEAN
    PROVE  PackCoper(val, hsmp) = CoperOf(CcdOf(val), val[Len(val) - 1], val[Len(val)], hsmp)
<1> DEFINE w == PackCoper(val, hsmp)
<1>1. CASE Len(val) = 2
    <2>1. CcdOf(val) = 0 /\ val[Len(val) - 1] = val[1] /\ val[Len(val)] = val[2]
        BY <1>1, SMT DEF CcdOf
    <2>2. w = CoperOf(0, val[1], val[2], hsmp)  BY <1>1, CoperForms, Zenon
    <2> QED  BY <2>1, <2>2, Zenon
<1>2. CASE Len(val) = 3
    <2>1. CcdOf(val) = val[1] /\ val[Len(val) - 1] = val[2] /\ val[Len(val)] = val[3]
        BY <1>2, SMT DEF CcdOf
    <2>2. w = CoperOf(val[1], val[2], val[3], hsmp)  BY <1>2, CoperForms, Zenon
    <2> QED  BY <2>1, <2>2, Zenon
<1>3. CASE Len(val) = 4
    <2>1. CcdOf(val) = val[1] /\ val[Len(val) - 1] = val[3] /\ val[Len(val)] = val[4]
        BY <1>3, SMT DEF CcdOf
    <2>2. Len(val) \notin {1, 2, 3}  BY <1>3, SMT
    <2>3. w = CoperOf(val[1], val[3], val[4], hsmp)  BY <2>2, CoperForms, Zenon
    <2> QED  BY <2>1, <2>3, Zenon
<1> QED  BY <1>1, <1>2, <1>3 DEF CoreForm

LEMMA CoperMeans ==
    ASSUME NEW val \in Seq(Int), Len(val) > 1
    PROVE  MeansCoper(val, PackCoper(val, IsHsmp(cpu)))
<1> DEFINE hsmp == IsHsmp(cpu)
           ccd  == CcdOf(val)
           core == val[Len(val) - 1]
           v    == val[Len(val)]
           w    == PackCoper(val, hsmp)
<1>0. hsmp \in BOOLEAN  BY Zenon DEF IsHsmp
<1>1. ASSUME hsmp, -32768 <= v, v < 32768, CoreFits(val, 16)
      PROVE  HsmpCoreRead(val, w) /\ Signed(w[2], 65536) = v
    <2>1. /\ val # <<>> /\ CoreForm(val)
          /\ ccd \in Int /\ 0 <= ccd /\ ccd < 16
          /\ core \in Int /\ 0 <= core /\ core < 16
          /\ v \in Int
        <3>1. 16 \in Nat  BY SMT
        <3> QED  BY <1>1, <3>1, CoreForms
    <2>2. w = HsmpWord(ccd, core, v)
        <3>1. w = CoperOf(ccd, core, v, hsmp)  BY <1>0, <2>1, PackedOf
        <3>2. hsmp  BY <1>1
        <3> QED  BY <3>1, <3>2, SMT DEF CoperOf, HsmpWord
    <2> HIDE DEF hsmp, ccd, core, v, w
    <2>3. (w[1] \div 2) % 16 = core /\ w[1] \div 32 = ccd /\ Signed(w[2], 65536) = v
        BY <1>1, <2>1, <2>2, HsmpReads
    <2> QED  BY <2>3 DEF HsmpCoreRead, ccd, core
<1>2. ASSUME ~hsmp, -524288 <= v, v < 524288, CoreFits(val, CoresOf(val))
      PROVE  CoreRead(val, w) /\ Signed(Low20(w), 1048576) = v
    <2>1. /\ val # <<>> /\ CoreForm(val)
          /\ ccd \in Int /\ 0 <= ccd /\ ccd < 16
          /\ core \in Int /\ 0 <= core /\ core < CoresOf(val)
          /\ v \in Int
        BY <1>2, CoresInFields, CoreForms
    <2>2. w = CoperOf(ccd, core, v, hsmp)  BY <1>0, <2>1, PackedOf
    <2>3. core < 128 /\ (Len(val) = 4 => core < 8)  BY <2>1, CoresInFields
    <2> HIDE DEF hsmp, ccd, core, v, w
    <2>4. /\ Nibble7(w) = ccd
          /\ 8 * Nibble6(w) + Nibble5(w) = core
          /\ core < 8 => Nibble5(w) = core
          /\ Signed(Low20(w), 1048576) = v
        BY <1>0, <1>2, <2>1, <2>2, <2>3, CoperReads, SMT
    <2> QED  BY <2>3, <2>4, SMT DEF CoreRead, ccd, core
<1> QED  BY <1>1, <1>2, SMT DEF MeansCoper

LEMMA ClockMeans ==
    ASSUME NEW val \in Seq(Int), Len(val) > 1
    PROVE  MeansClock(val, PackOcClkPerCore(val))
<1> DEFINE ccd  == CcdOf(val)
           core == val[Len(val) - 1]
           v    == val[Len(val)]
           ccx  == IF Len(val) = 4 THEN val[2] ELSE core \div 8
           f    == IF v < 8000 THEN v ELSE 8000
           w    == PackOcClkPerCore(val)
<1> SUFFICES ASSUME 0 <= v, CoreFits(val, CoresOf(val))
             PROVE  /\ CoreRead(val, w)
                    /\ Len(val) = 4 => Nibble6(w) = val[2]
                    /\ Low20(w) = f
    BY SMT DEF MeansClock
<1>1. /\ val # <<>> /\ CoreForm(val)
      /\ ccd \in Int /\ 0 <= ccd /\ ccd < 16
      /\ core \in Int /\ 0 <= core /\ core < CoresOf(val)
      /\ Len(val) = 4 => val[2] \in Int /\ 0 <= val[2] /\ val[2] < 16
      /\ v \in Int
    BY CoresInFields, CoreForms
<1>2. core < 128 /\ (Len(val) = 4 => core < 8)  BY <1>1, CoresInFields
<1>3. w = OcOf(ccd, ccx, core, v)
    <2>1. CASE Len(val) = 2
        <3>1. ccd = 0 /\ ccx = val[1] \div 8 /\ core = val[1] /\ v = val[2]  BY <2>1, SMT DEF CcdOf
        <3>2. w = OcOf(0, val[1] \div 8, val[1], val[2])  BY <1>1, <2>1, OcForms, Zenon
        <3> QED  BY <3>1, <3>2, Zenon
    <2>2. CASE Len(val) = 3
        <3>1. ccd = val[1] /\ ccx = val[2] \div 8 /\ core = val[2] /\ v = val[3]  BY <2>2, SMT DEF CcdOf
        <3>2. w = OcOf(val[1], val[2] \div 8, val[2], val[3])  BY <1>1, <2>2, OcForms, Zenon
        <3> QED  BY <3>1, <3>2, Zenon
    <2>3. CASE Len(val) = 4
        <3>1. ccd = val[1] /\ ccx = val[2] /\ core = val[3] /\ v = val[4]  BY <2>3, SMT DEF CcdOf
        <3>2. Len(val) \notin {1, 2, 3}  BY <2>3, SMT
        <3>3. w = OcOf(val[1], val[2], val[3], val[4])  BY <1>1, <3>2, OcForms, Zenon
        <3> QED  BY <3>1, <3>3, Zenon
    <2> QED  BY <1>1, <2>1, <2>2, <2>3 DEF CoreForm
<1>4. /\ ccx \in Int /\ 0 <= ccx /\ ccx < 16
      /\ Len(val) # 4 => 8 * ccx + (core % 8) = core
      /\ Len(val) = 4 => core % 8 = core
    <2> HIDE DEF core
    <2>1. core \div 8 \in Int /\ 0 <= core \div 8 /\ core \div 8 < 16 /\ 8 * (core \div 8) + (core % 8) = core
        BY <1>1, <1>2, SMT
    <2>2. core < 8 => core % 8 = core  BY <1>1, SMT
    <2> QED  BY <1>1, <1>2, <2>1, <2>2, Zenon
<1>5. Len(val) = 4 => ccx = val[2]  OBVIOUS
<1>6. 0 <= v  OBVIOUS
<1> HIDE DEF ccd, core, v, ccx, w
<1>7. f \in Nat /\ f < 1048576 /\ f % 1048576 = f  BY <1>1, <1>6, SMT
<1> DEFINE j == Join(Prefix(ccd, ccx, core), f)
<1>8. w = j
    <2> DEFINE p == (core % 8) + (ccx % 16) * 16 + (ccd % 16) * 256
    <2>1. w = Join(p, f % 1048576)  BY <1>3 DEF OcOf
    <2>2. p = Prefix(ccd, ccx, core)  BY <1>1, <1>4, SMT DEF Prefix
    <2> HIDE DEF f, p
    <2> QED  BY <1>7, <2>1, <2>2, SMT
<1> HIDE DEF f
<1>9. Nibble7(j) = ccd /\ Nibble6(j) = ccx /\ Nibble5(j) = core % 8 /\ Low20(j) = f
    <2>1. PrefixFits(ccd, ccx, core, f)  BY <1>1, <1>4, <1>7, SMT DEF PrefixFits
    <2> QED  BY <2>1, PrefixFields DEF j
<1>10. Nibble7(w) = ccd /\ Nibble6(w) = ccx /\ Nibble5(w) = core % 8 /\ Low20(w) = f
    BY <1>8, <1>9
<1>11. CoreRead(val, w)
    <2>1. core = IF Len(val) = 4 THEN Nibble5(w) ELSE 8 * Nibble6(w) + Nibble5(w)
        BY <1>4, <1>10, Zenon
    <2> QED  BY <1>10, <2>1, Zenon DEF CoreRead, ccd, core
<1>12. Len(val) = 4 => Nibble6(w) = val[2]  BY <1>5, <1>10
<1> QED  BY <1>10, <1>11, <1>12

\* The words of values of one number.
LEMMA OneNumber ==
    ASSUME NEW val \in Seq(Int), Len(val) = 1
    PROVE  val # <<>> /\ val[1] \in Int /\ val[Len(val)] = val[1]
<1>1. val # <<>>  BY EmptySeq, SMT
<1> QED  BY <1>1, Elements, Zenon

LEMMA NumberOfWord32 ==
    ASSUME NEW u \in Nat, u \div 65536 < 65536
    PROVE  Number(Word32(u)) = u
BY Word32Reads DEF Number

OffsetWord(v, hsmp) == IF hsmp THEN <<0, HsmpPsmMargin(v)>> ELSE Word32(CoScale(v))
LEMMA OffsetMeans ==
    ASSUME NEW v \in Int
    PROVE  MeansOffset(v, OffsetWord(v, IsHsmp(cpu)))
<1> DEFINE hsmp == IsHsmp(cpu)
           w == OffsetWord(v, hsmp)
<1>1. ASSUME hsmp, -32768 <= v, v < 32768 PROVE Signed(Number(w), 65536) = v
    <2> DEFINE m == HsmpPsmMargin(v)
    <2>1. Signed(m, 65536) = v  BY <1>1, MarginSurvives, SMT
    <2>2. m \in Int  BY <1>1, SMT DEF HsmpPsmMargin
    <2>3. w = <<0, m>>  BY <1>1 DEF OffsetWord
    <2> HIDE DEF m, w
    <2>4. Number(<<0, m>>) = m  BY <2>2, SMT DEF Number
    <2>5. Number(w) = m  BY <2>3, <2>4
    <2> QED  BY <2>1, <2>5
<1>2. ASSUME ~hsmp, -524288 <= v, v < 524288 PROVE Signed(Number(w), 1048576) = v
    <2> DEFINE e == CoScale(v)
    <2>1. e \in Nat /\ e < 1048576 /\ Signed(e, 1048576) = v  BY <1>2, OffsetSurvives, SMT
    <2>2. w = Word32(e)  BY <1>2 DEF OffsetWord
    <2> HIDE DEF e, w
    <2>3. e \div 65536 < 65536  BY <2>1, SMT
    <2>4. Number(w) = e  BY <2>1, <2>2, <2>3, NumberOfWord32
    <2> QED  BY <2>1, <2>4
<1> QED  BY <1>1, <1>2, SMT DEF MeansOffset

\* A number, and its multiple, reads back when it has 32 bits.
LEMMA TimesMeans ==
    ASSUME NEW v \in Int, NEW n \in Nat
    PROVE  MeansTimes(v, Word32(v * n), n)
<1> SUFFICES ASSUME 0 <= v, (n * v) \div 65536 < 65536 PROVE Number(Word32(v * n)) = n * v
    BY SMT DEF MeansTimes
<1> DEFINE u == v * n
<1>1. u = n * v /\ u \in Nat  BY SMT
<1>2. u \div 65536 < 65536  BY <1>1
<1> HIDE DEF u
<1>3. Number(Word32(u)) = u  BY <1>1, <1>2, NumberOfWord32, SMT
<1> QED  BY <1>1, <1>3 DEF u

\* The word of an argument says what its value asked for.
LEMMA EncodeMeans ==
    ASSUME NEW name, NEW val \in Seq(Int), Parses(name, val)
    PROVE  Means(name, val, Encode(name, val, IsHsmp(cpu)))
<1> DEFINE hsmp == IsHsmp(cpu)
           v == val[Len(val)]
           w == Encode(name, val, hsmp)
           packed == {"set-coper", "oc-clk-per-core"}
           offset == name \in {"set-coall", "set-cogfx"} \/ (name = "set-coper" /\ (hsmp \/ v < 0))
<1>0. hsmp \in BOOLEAN  BY Zenon DEF IsHsmp
<1>1. Len(val) \in Nat /\ (Len(val) > 1 => name \in packed)
      /\ (~(Len(val) > 1) => Len(val) = 1)
    <2>1. name \notin packed => Len(val) = 1  BY Zenon DEF Parses
    <2>2. name \in packed => val # <<>>  BY Zenon DEF Parses
    <2>3. Len(val) \in Nat /\ (val # <<>> => Len(val) # 0)  BY SMT
    <2>4. \A n \in Nat : n # 0 /\ ~(n > 1) => n = 1  BY SMT
    <2>5. ~(1 > 1) /\ 1 \in Nat  BY SMT
    <2> QED  BY <2>1, <2>2, <2>3, <2>4, <2>5, Zenon
<1>2. CASE name = "set-coper" /\ Len(val) > 1
    <2>1. w = PackCoper(val, hsmp)  BY <1>2, Zenon DEF Encode
    <2>2. MeansCoper(val, PackCoper(val, hsmp))  BY <1>2, CoperMeans
    <2> HIDE DEF w
    <2>3. Means(name, val, w)  BY <1>2, <2>1, <2>2, Zenon DEF Means
    <2> QED  BY <2>3, Zenon DEF w
<1>3. CASE name = "oc-clk-per-core" /\ Len(val) > 1
    <2>0. name # "set-coper"  BY <1>3, SMT
    <2>1. w = PackOcClkPerCore(val)  BY <1>3, <2>0, Zenon DEF Encode
    <2>2. MeansClock(val, PackOcClkPerCore(val))  BY <1>3, ClockMeans
    <2> HIDE DEF w
    <2>3. Means(name, val, w)  BY <1>3, <2>0, <2>1, <2>2, Zenon DEF Means
    <2> QED  BY <2>3, Zenon DEF w
<1>4. CASE Len(val) = 1
    <2>0. val # <<>> /\ v \in Int /\ val[1] = v /\ ~(Len(val) > 1)  BY <1>4, OneNumber, SMT
    <2>1. CASE offset
        <3>1. w = OffsetWord(v, hsmp)
            <4>1. CASE name = "set-coper"
                <5>1. w = PackCoper(val, hsmp)  BY <4>1, Zenon DEF Encode
                <5>2. PackCoper(val, hsmp) = IF hsmp THEN <<0, HsmpPsmMargin(v)>>
                          ELSE IF v < 0 THEN Word32(CoScale(v)) ELSE Word32(v)
                    BY <1>0, <1>4, <2>0, CoperForms, Zenon
                <5>3. hsmp \/ v < 0  BY <2>1, <4>1, SMT
                <5> QED  BY <5>1, <5>2, <5>3, Zenon DEF OffsetWord
            <4>2. CASE name \in {"set-coall", "set-cogfx"}
                <5>1. name # "set-coper" /\ name # "oc-clk-per-core" /\ name # "tctl-temp"
                    BY <4>2, SMT
                <5> QED  BY <2>0, <4>2, <5>1, Zenon DEF Encode, TctlDegrees, OffsetWord
            <4> QED  BY <2>1, <4>1, <4>2
        <3>2. MeansOffset(v, OffsetWord(v, hsmp))  BY <2>0, OffsetMeans, Zenon
        <3>3. name # "oc-clk-per-core"  BY <2>1, SMT
        <3> HIDE DEF w
        <3>4. Means(name, val, w)  BY <2>0, <2>1, <3>1, <3>2, <3>3, Zenon DEF Means
        <3> QED  BY <3>4, Zenon DEF w
    <2>2. CASE name = "tctl-temp"
        <3> DEFINE u == IF v >= 1000 THEN v \div 1000 ELSE v
        <3>0. name \notin packed /\ name \notin {"set-coall", "set-cogfx"} /\ name # "pbo-scalar"
              /\ name \notin SkinArg
            BY <2>2, SMT DEF SkinArg
        <3>1. w = Word32(u)
            BY <2>0, <2>2, <3>0, SMT DEF Encode, TctlDegrees, SkinScale, PboScale
        <3>2. MeansScaled(v, Word32(u), 1000, 1000)
            <4> SUFFICES ASSUME 0 <= v, v < 1000 * 1000
                         PROVE  Number(Word32(u)) < 1000 /\ Number(Word32(u)) \in {v, v \div 1000}
                BY SMT DEF MeansScaled
            <4>1. u \in Nat /\ u < 1000 /\ u \div 65536 < 65536 /\ u \in {v, v \div 1000}
                BY <2>0, SMT
            <4> HIDE DEF u
            <4>2. Number(Word32(u)) = u  BY <4>1, NumberOfWord32, SMT
            <4> QED  BY <4>1, <4>2, SMT
        <3> HIDE DEF w, u
        <3>3. Means(name, val, w)  BY <2>0, <2>2, <3>0, <3>1, <3>2, Zenon DEF Means
        <3> QED  BY <3>3, Zenon DEF w
    <2>3. CASE name = "pbo-scalar" /\ hsmp
        <3> DEFINE u == IF v >= 100 THEN v \div 10 ELSE v
        <3>0. name \notin packed /\ name \notin {"set-coall", "set-cogfx"} /\ name # "tctl-temp"
              /\ name \notin SkinArg
            BY <2>3, SMT DEF SkinArg
        <3>1. w = Word32(u)
            BY <2>0, <2>3, <3>0, SMT DEF Encode, TctlDegrees, SkinScale, PboScale
        <3>2. MeansScaled(v, Word32(u), 100, 10)
            <4> SUFFICES ASSUME 0 <= v, v < 100 * 10
                         PROVE  Number(Word32(u)) < 100 /\ Number(Word32(u)) \in {v, v \div 10}
                BY SMT DEF MeansScaled
            <4>1. u \in Nat /\ u < 100 /\ u \div 65536 < 65536 /\ u \in {v, v \div 10}
                BY <2>0, SMT
            <4> HIDE DEF u
            <4>2. Number(Word32(u)) = u  BY <4>1, NumberOfWord32, SMT
            <4> QED  BY <4>1, <4>2, SMT
        <3> HIDE DEF w, u
        <3>3. Means(name, val, w)  BY <2>0, <2>3, <3>0, <3>1, <3>2, Zenon DEF Means
        <3> QED  BY <3>3, Zenon DEF w
\* Every other value goes as it was given, or times 256.
    <2>4. CASE ~offset /\ name # "tctl-temp" /\ ~(name = "pbo-scalar" /\ hsmp)
        <3> DEFINE n == IF name \in SkinArg THEN 256 ELSE 1
        <3>0. v * 1 = v /\ n \in Nat  BY <2>0, SMT
        <3>1. w = Word32(v * n)
            <4>1. CASE name = "set-coper"
                <5>1. w = PackCoper(val, hsmp)  BY <4>1, Zenon DEF Encode
                <5>2. w = Word32(v)
                    BY <1>0, <1>4, <2>0, <2>4, <4>1, <5>1, CoperForms, Zenon
                <5>3. name \notin SkinArg  BY <4>1, SMT DEF SkinArg
                <5> QED  BY <3>0, <5>2, <5>3, Zenon
            <4>2. CASE name = "oc-clk-per-core"
                <5>0. name # "set-coper" /\ name \notin SkinArg  BY <4>2, SMT DEF SkinArg
                <5>1. w = PackOcClkPerCore(val)  BY <4>2, <5>0, Zenon DEF Encode
                <5>2. w = Word32(v)  BY <1>4, <2>0, <5>1, OcForms, Zenon
                <5> QED  BY <3>0, <5>0, <5>2, Zenon
            <4>3. CASE name \notin packed
                <5>1. w = Word32(SkinScale(name, v))
                    BY <2>0, <2>4, <4>3, Zenon DEF Encode, TctlDegrees, PboScale
                <5>2. SkinScale(name, v) = v * n  BY <3>0, Zenon DEF SkinScale
                <5> QED  BY <5>1, <5>2, Zenon
            <4> QED  BY <4>1, <4>2, <4>3, SMT
        <3>2. MeansTimes(v, Word32(v * n), n)
            <4> HIDE DEF n, v
            <4> QED  BY <2>0, <3>0, TimesMeans, Zenon
        <3> HIDE DEF w
        <3>3. Means(name, val, w)  BY <2>0, <2>4, <3>1, <3>2, Zenon DEF Means
        <3> QED  BY <3>3, Zenon DEF w
    <2> QED  BY <2>1, <2>2, <2>3, <2>4
<1>5. (name = "set-coper" /\ Len(val) > 1) \/ (name = "oc-clk-per-core" /\ Len(val) > 1) \/ Len(val) = 1
    BY <1>1, SMT
<1> QED  BY <1>2, <1>3, <1>4, <1>5

\* A flag's word is zero.
LEMMA FlagWord ==
    ASSUME NEW name, IsFlagArg(name), NEW hsmp \in BOOLEAN
    PROVE  Encode(name, <<0>>, hsmp) = <<0, 0>>
<1>1. name \in {"enable-oc", "get-pbo-scalar", "get-coper"}  BY DEF IsFlagArg, IsQuery
<1>2. Encode(name, <<0>>, hsmp) = Word32(0)
    BY <1>1, SMT DEF Encode, TctlDegrees, SkinScale, PboScale, SkinArg
<1>3. Word32(0) = <<0, 0>>  BY SMT DEF Word32
<1> QED  BY <1>2, <1>3

-----------------------------------------------------------------------------
(* The requests of a call.                                                 *)

\* What is said of tokens is about the tokens and the processor alone.
LEMMA SameTokens ==
    ASSUME tokens' = tokens, cpu' = cpu
    PROVE  \A n, ms : /\ Sends(n)' = Sends(n)
                      /\ WordOf(n)' = WordOf(n)
                      /\ Messages(n)' = Messages(n)
                      /\ Req(n, ms)' = Req(n, ms)
<1> SUFFICES ASSUME NEW n, NEW ms
             PROVE  /\ Sends(n)' = Sends(n)
                    /\ WordOf(n)' = WordOf(n)
                    /\ Messages(n)' = Messages(n)
                    /\ Req(n, ms)' = Req(n, ms)
    OBVIOUS
<1>1. NameOf(n)' = NameOf(n)  BY DEF NameOf
<1>2. WordOf(n)' = WordOf(n)  BY <1>1 DEF WordOf
<1>3. Mailbox(Head(ms))' = Mailbox(Head(ms))  BY DEF Mailbox
<1> QED  BY <1>1, <1>2, <1>3 DEF Sends, Messages, Req

\* A request of the token in hand.
LEMMA RequestIsReq == SInv /\ apc = "send" => Request(Head(msgs)) = Req(tok, msgs)
BY DEF SInv, Request, Req, NameOf

LEMMA SInvInit == Init => SInv
BY DEF Init, ApplyInit, SInv

LEMMA QuietRequests == SInv /\ Quiet => SInv'
<1> SUFFICES ASSUME SInv, Quiet PROVE SInv'
    OBVIOUS
<1>1. UNCHANGED <<cpu, apc, tokens, tok, word, sent>>  BY DEF Quiet, mainVars, applyVars
<1>2. \A n, ms : Sends(n)' = Sends(n) /\ WordOf(n)' = WordOf(n) /\ Req(n, ms)' = Req(n, ms)
    BY <1>1, SameTokens
<1>3. Sends(tok)' = Sends(tok) /\ WordOf(tok)' = WordOf(tok)
    BY <1>1 DEF Sends, WordOf, NameOf
<1> QED  BY <1>1, <1>2, <1>3 DEF SInv

LEMMA BeginRequests == BeginPass => SInv'
BY DEF BeginPass, Begin, SInv

LEMMA ApplyRequests == CallOK /\ SInv /\ ApplyNext /\ UNCHANGED mainVars => SInv'
<1> SUFFICES ASSUME CallOK, SInv, ApplyNext, UNCHANGED mainVars PROVE SInv'
    OBVIOUS
<1>0. /\ tok \in Nat /\ Len(tokens) \in Nat
      /\ \E S : sent \in Seq(S)
      /\ cpu' = cpu
    BY LenProperties DEF CallOK, mainVars
\* The next token is taken, and nothing sent.
<1>1. ASSUME TakeToken, sent' = sent,
             apc' = "send" => Sends(tok)' /\ word' = WordOf(tok)'
      PROVE  SInv'
    <2>1. tok' = tok + 1 /\ tokens' = tokens  BY <1>1 DEF TakeToken
    <2>2. \A n, ms : Sends(n)' = Sends(n) /\ Req(n, ms)' = Req(n, ms)
        BY <1>0, <2>1, SameTokens
    <2>3. tok' > 0  BY <1>0, <2>1
    <2>4. ASSUME NEW i \in DOMAIN sent'
          PROVE  /\ sent'[i].tok \in 1 .. tok'
                 /\ Sends(sent[i].tok)'
                 /\ sent'[i] = Req(sent[i].tok, sent[i].left)'
        <3>1. /\ sent[i].tok \in 1 .. tok
              /\ Sends(sent[i].tok)
              /\ sent[i] = Req(sent[i].tok, sent[i].left)
            BY <1>1, <2>4 DEF SInv
        <3> DEFINE q == sent[i]
        <3>2. q.tok \in 1 .. tok'  BY <1>0, <2>1, <3>1
        <3>3. Sends(q.tok)' /\ q = Req(q.tok, q.left)'
            <4>1. sent'[i] = sent[i]  BY <1>1
            <4>2. Sends(q.tok)'
                BY <1>0, <2>1, <3>1, <4>1 DEF Sends
            <4>3. Req(q.tok, q.left)' = Req(q.tok, q.left)
                BY <1>0, <2>1, <4>1 DEF Req, WordOf, NameOf, Mailbox
            <4> QED  BY <3>1, <4>1, <4>2, <4>3
        <3> QED  BY <1>1, <3>2, <3>3
    <2> QED  BY <1>1, <2>3, <2>4 DEF SInv
\* A request is made for the token in hand.
<1>2. ASSUME apc = "send", sent' = Append(sent, Request(Head(msgs))),
             UNCHANGED <<tokens, tok, word>>
      PROVE  SInv'
    <2> DEFINE r == Req(tok, msgs)
    <2>1. sent' = Append(sent, r)  BY <1>2, RequestIsReq
    <2>2. tok > 0 /\ Sends(tok) /\ word = WordOf(tok)  BY <1>2 DEF SInv
    <2>3. r.tok = tok /\ r.left = msgs  BY DEF Req
    <2> HIDE DEF r
    <2>4. ASSUME NEW i \in DOMAIN sent'
          PROVE  /\ sent'[i].tok \in 1 .. tok
                 /\ Sends(sent'[i].tok)
                 /\ sent'[i] = Req(sent'[i].tok, sent'[i].left)
        <3>1. CASE i \in DOMAIN sent /\ sent'[i] = sent[i]  BY <3>1 DEF SInv
        <3>2. CASE sent'[i] = r
            <4>1. tok \in 1 .. tok  BY <1>0, <2>2
            <4> QED  BY <2>2, <2>3, <3>2, <4>1 DEF r
        <3>3. \/ i \in DOMAIN sent /\ sent'[i] = sent[i]
              \/ sent'[i] = r
            BY <1>0, <2>1, Appended
        <3> QED  BY <3>1, <3>2, <3>3
    <2>5. \A n, ms : Sends(n)' = Sends(n) /\ WordOf(n)' = WordOf(n) /\ Req(n, ms)' = Req(n, ms)
        BY <1>0, <1>2, SameTokens
    <2>6. Sends(tok)' /\ word' = WordOf(tok)'
        BY <1>0, <1>2, <2>2 DEF Sends, WordOf, NameOf
    <2>7. \A i \in DOMAIN sent' :
             /\ (sent[i].tok \in 1 .. tok)'
             /\ Sends(sent[i].tok)'
             /\ (sent[i] = Req(sent[i].tok, sent[i].left))'
        BY <1>0, <1>2, <2>4 DEF Sends, Req, WordOf, NameOf, Mailbox
    <2> QED  BY <1>2, <2>2, <2>6, <2>7 DEF SInv
<1>3. CASE SkipToken \/ RefuseToken
    <2>1. TakeToken /\ sent' = sent /\ apc' = apc  BY <1>3 DEF SkipToken, RefuseToken
    <2>2. apc = "next"  BY <2>1 DEF TakeToken
    <2> QED  BY <1>1, <2>1, <2>2
<1>4. CASE StartToken
    <2>1. TakeToken /\ sent' = sent  BY <1>4 DEF StartToken
    <2>2. tok' = tok + 1 /\ tokens' = tokens  BY <2>1 DEF TakeToken
    <2>3. Sends(tok)' /\ word' = WordOf(tok)'
        BY <1>0, <1>4, <2>2 DEF StartToken, Sends, WordOf, NameOf
    <2> QED  BY <1>1, <2>1, <2>3
<1>5. CASE \E status \in Status : Send(status)
    BY <1>2, <1>5 DEF Send
<1>6. CASE SendRaises
    BY <1>2, <1>6 DEF SendRaises
<1>7. CASE Return
    <2>1. UNCHANGED <<tokens, tok, word, sent, cpu>> /\ apc' = "done"
        BY <1>0, <1>7 DEF Return
    <2>2. \A n, ms : Sends(n)' = Sends(n) /\ Req(n, ms)' = Req(n, ms)
        BY <2>1, SameTokens
    <2> QED  BY <2>1, <2>2 DEF SInv
<1> QED  BY <1>3, <1>4, <1>5, <1>6, <1>7 DEF ApplyNext

LEMMA SInvAlways == Spec => []SInv
<1>1. TInv /\ SInv /\ [Next]_vars => SInv'
    BY StepKinds, QuietRequests, BeginRequests, ApplyRequests DEF TInv, Apply
<1> QED  BY <1>1, SInvInit, TInvAlways, PTL DEF Spec

\* A request is one of a token of the line.
LEMMA SentOfLine ==
    TInv /\ SInv => \A i \in DOMAIN sent : ~Broken /\ tokens = Tokens /\ sent[i].tok \in DOMAIN Tokens
<1> SUFFICES ASSUME TInv, SInv, NEW i \in DOMAIN sent
             PROVE  ~Broken /\ tokens = Tokens /\ sent[i].tok \in DOMAIN Tokens
    OBVIOUS
<1>1. sent # <<>>  OBVIOUS
<1>2. pass > 0
    <2>1. pass # 0 /\ pass \in Nat  BY <1>1 DEF TInv, PhaseOK, MainOK
    <2> QED  BY <2>1
<1>3. tokens = Preset  BY <1>2 DEF TInv, PhaseOK
<1>4. sent[i].tok \in 1 .. Len(tokens) /\ DOMAIN tokens = 1 .. Len(tokens)
    <2>1. sent[i].tok \in 1 .. tok  BY DEF SInv
    <2>2. tok \in 0 .. Len(tokens) /\ tokens \in Seq(Token)  BY DEF TInv, CallOK
    <2> QED  BY <2>1, <2>2, LenProperties
<1>5. ~Broken
    <2>1. ASSUME Broken PROVE FALSE
        <3>1. tokens = <<>>  BY <1>3, <2>1 DEF Preset
        <3>2. Len(tokens) = 0  BY <3>1
        <3> QED  BY <1>4, <3>2
    <2> QED  BY <2>1
<1> QED  BY <1>3, <1>4, <1>5 DEF Preset

(***************************************************************************)
(* Every request carries the value its argument was given, read as the SMU *)
(* reads it, for any line, processor and pass: each argument, each of the  *)
(* four notations of a core (but for the CCX given to set-coper) and every *)
(* value the fields have room for (apply.py:27-101, 137-196).              *)
(***************************************************************************)
THEOREM MeansAsked == Spec => []SentMeansAsked
<1>1. ASSUME TInv, SInv PROVE SentMeansAsked
    <2> SUFFICES ASSUME NEW i \in DOMAIN sent
                 PROVE  LET t == Tokens[sent[i].tok]
                        IN  IF IsFlagArg(Canonical(t.name)) THEN sent[i].word = <<0, 0>>
                            ELSE Means(Canonical(t.name), t.val, sent[i].word)
        BY DEF SentMeansAsked
    <2> DEFINE n == sent[i].tok
               t == Tokens[n]
               name == Canonical(t.name)
               w == sent[i].word
               hsmp == IsHsmp(cpu)
    <2>0. hsmp \in BOOLEAN  BY DEF IsHsmp
    <2>1. tokens = Tokens /\ n \in DOMAIN Tokens  BY <1>1, SentOfLine
    <2>2. t \in Token
        <3>1. tokens \in Seq(Token)  BY <1>1 DEF TInv, CallOK
        <3> QED  BY <2>1, <3>1, LenProperties, ElementOfSeq
    <2>3. t.val \in Seq(Int)  BY <2>2 DEF Token
    <2>4. Sends(n) /\ sent[i] = Req(n, sent[i].left)  BY <1>1 DEF SInv
    <2>5. w = IF IsQuery(name) THEN <<0, 0>>
              ELSE Encode(name, IF IsFlagArg(name) THEN <<0>> ELSE t.val, hsmp)
        <3>1. w = Req(n, sent[i].left).word  BY <2>4
        <3> QED  BY <2>1, <3>1 DEF Req, WordOf, NameOf
    <2>6. ~IsFlagArg(name) => Parses(name, t.val)
        BY <2>1, <2>4 DEF Sends, Refused
    <2> HIDE DEF t, w, hsmp
    <2>7. CASE IsFlagArg(name)
        <3>1. w = <<0, 0>>
            <4>1. Encode(name, <<0>>, hsmp) = <<0, 0>>  BY <2>0, <2>7, FlagWord
            <4> QED  BY <2>5, <2>7, <4>1
        <3> QED  BY <2>7, <3>1 DEF t, w
    <2>8. CASE ~IsFlagArg(name)
        <3>1. w = Encode(name, t.val, hsmp)  BY <2>5, <2>8 DEF IsFlagArg
        <3>2. Means(name, t.val, Encode(name, t.val, hsmp))
            BY <2>3, <2>6, <2>8, EncodeMeans DEF hsmp
        <3> QED  BY <2>8, <3>1, <3>2 DEF t, w
    <2> QED  BY <2>7, <2>8
<1>2. TInv /\ SInv => SentMeansAsked  BY <1>1
<1> QED  BY <1>2, TInvAlways, SInvAlways, PTL

-----------------------------------------------------------------------------
(* The order of the requests.                                              *)

LEMMA SameChain ==
    ASSUME tokens' = tokens, cpu' = cpu
    PROVE  /\ \A s : Chained(s)' <=> Chained(s)
           /\ \A s, n : Over(s, n)' <=> Over(s, n)
           /\ \A s, n, ms : Due(s, Req(n, ms))' <=> Due(s, Req(n, ms))
<1>1. \A n : Sends(n)' <=> Sends(n)  BY DEF Sends
<1>2. \A n, m : NoneSent(n, m)' <=> NoneSent(n, m)  BY <1>1 DEF NoneSent
<1>3. \A n, m : NextSent(n, m)' <=> NextSent(n, m)  BY <1>1, <1>2 DEF NextSent
<1>4. \A n, ms : Req(n, ms)' = Req(n, ms)  BY SameTokens
<1>5. \A n : Req(n, Messages(n))' = Req(n, Messages(n))
    BY DEF Req, Messages, NameOf, WordOf, Mailbox
<1>6. \A n, r : Starts(n, r)' <=> Starts(n, r)  BY <1>3, <1>5 DEF Starts
<1>7. \A q, r : Follows(q, r)' <=> Follows(q, r)  BY <1>4, <1>6 DEF Follows
<1>8. \A s : Chained(s)' <=> Chained(s)  BY <1>6, <1>7 DEF Chained
<1>9. \A s, n : Over(s, n)' <=> Over(s, n)  BY <1>2 DEF Over
<1>10. \A s, r : Due(s, r)' <=> Due(s, r)  BY <1>6, <1>7 DEF Due
<1>11. ASSUME NEW s, NEW n, NEW ms PROVE Due(s, Req(n, ms))' <=> Due(s, Req(n, ms))
    <2>1. PICK r : r = Req(n, ms)  OBVIOUS
    <2>2. Req(n, ms)' = r  BY <1>4, <2>1
    <2>3. Due(s, Req(n, ms)) <=> Due(s, r)  BY <2>1
    <2>4. Due(s, Req(n, ms))' <=> Due(s, r)'
        BY <2>2 DEF Due, Follows, Starts
    <2> QED  BY <1>10, <2>3, <2>4
<1> QED  BY <1>8, <1>9, <1>11

\* There is one request to start with after a token, and none when no token
\* after it is sent.
LEMMA StartsOnce ==
    ASSUME NEW n \in Nat, Len(tokens) \in Nat
    PROVE  /\ \A q, r : Starts(n, q) /\ Starts(n, r) => q = r
           /\ \A r : Starts(n, r) => ~NoneSent(n, Len(tokens))
<1>1. ASSUME NEW q, NEW r, Starts(n, q), Starts(n, r) PROVE q = r
    <2>1. PICK m \in 1 .. Len(tokens) : NextSent(n, m) /\ q = Req(m, Messages(m))
        BY <1>1 DEF Starts
    <2>2. PICK k \in 1 .. Len(tokens) : NextSent(n, k) /\ r = Req(k, Messages(k))
        BY <1>1 DEF Starts
    <2>3. ~(m < k)  BY <2>1, <2>2 DEF NextSent, NoneSent
    <2>4. ~(k < m)  BY <2>1, <2>2 DEF NextSent, NoneSent
    <2>5. m = k  BY <2>3, <2>4
    <2> QED  BY <2>1, <2>2, <2>5
<1>2. ASSUME NEW r, Starts(n, r) PROVE ~NoneSent(n, Len(tokens))
    BY <1>2 DEF Starts, NextSent, NoneSent
<1> QED  BY <1>1, <1>2

\* A token passed over sends nothing; one that is taken up starts.
LEMMA PassedOver ==
    ASSUME NEW s, NEW n \in Nat, n < Len(tokens), Len(tokens) \in Nat, Over(s, n),
           \E S : s \in Seq(S),
           \A i \in DOMAIN s : s[i].tok \in 1 .. n
    PROVE  /\ ~Sends(n + 1) => Over(s, n + 1)
           /\ Sends(n + 1) => Due(s, Req(n + 1, Messages(n + 1)))
<1>1. ASSUME NEW k \in Nat, k <= n, NoneSent(k, n)
      PROVE  /\ ~Sends(n + 1) => NoneSent(k, n + 1)
             /\ Sends(n + 1) => Starts(k, Req(n + 1, Messages(n + 1)))
    <2>1. ~Sends(n + 1) => NoneSent(k, n + 1)
        <3>1. \A i \in k + 1 .. n + 1 : i \in k + 1 .. n \/ i = n + 1  OBVIOUS
        <3> QED  BY <1>1, <3>1 DEF NoneSent
    <2>2. ASSUME Sends(n + 1) PROVE Starts(k, Req(n + 1, Messages(n + 1)))
        <3>1. n + 1 \in k + 1 .. Len(tokens) /\ n + 1 \in 1 .. Len(tokens) /\ (n + 1) - 1 = n
            BY <1>1
        <3>2. NextSent(k, n + 1)  BY <1>1, <2>2, <3>1 DEF NextSent
        <3> QED  BY <3>1, <3>2 DEF Starts
    <2> QED  BY <2>1, <2>2
<1>2. CASE s = <<>>
    <2>1. NoneSent(0, n)  BY <1>2 DEF Over
    <2> QED  BY <1>1, <1>2, <2>1 DEF Over, Due
<1>3. CASE s # <<>>
    <2> DEFINE q == s[Len(s)]
    <2>1. Len(s) \in DOMAIN s
        <3>1. Len(s) \in Nat /\ Len(s) # 0 /\ DOMAIN s = 1 .. Len(s)
            BY <1>3, EmptySeq, LenProperties
        <3> QED  BY <3>1
    <2>2. q.tok \in Nat /\ q.tok <= n  BY <2>1
    <2>3. Tail(q.left) = <<>> /\ NoneSent(q.tok, n)  BY <1>3 DEF Over
    <2> QED  BY <1>1, <1>3, <2>2, <2>3 DEF Over, Due, Follows
<1> QED  BY <1>2, <1>3

\* A request that is due, and what comes after it.
LEMMA NextDue ==
    ASSUME NEW s, \E S : s \in Seq(S), NEW n \in Nat, NEW ms, Chained(s), Due(s, Req(n, ms))
    PROVE  /\ Chained(Append(s, Req(n, ms)))
           /\ Tail(ms) # <<>> => Due(Append(s, Req(n, ms)), Req(n, Tail(ms)))
           /\ Tail(ms) = <<>> => Over(Append(s, Req(n, ms)), n)
<1> DEFINE r == Req(n, ms)
           t == Append(s, r)
<1>0. r.tok = n /\ r.left = ms  BY DEF Req
<1> HIDE DEF r
<1>1. /\ Len(s) \in Nat /\ DOMAIN s = 1 .. Len(s)
      /\ Len(t) = Len(s) + 1 /\ DOMAIN t = 1 .. Len(s) + 1
      /\ t[Len(s) + 1] = r
      /\ \A i \in 1 .. Len(s) : t[i] = s[i]
      /\ t # <<>>
    BY Appended
<1> HIDE DEF t
<1>2. ASSUME NEW i \in DOMAIN t
      PROVE  IF i = 1 THEN Starts(0, t[i]) ELSE Follows(t[i - 1], t[i])
    <2>1. CASE i \in 1 .. Len(s)
        <3>1. i # 1 => i - 1 \in 1 .. Len(s)  BY <1>1, <2>1
        <3>2. IF i = 1 THEN Starts(0, s[i]) ELSE Follows(s[i - 1], s[i])
            BY <1>1, <2>1 DEF Chained
        <3> QED  BY <1>1, <2>1, <3>1, <3>2
    <2>2. CASE i = Len(s) + 1
        <3>1. Due(s, r)  BY DEF r
        <3>2. CASE s = <<>>
            <4>1. i = 1  BY <2>2, <3>2
            <4> QED  BY <1>1, <2>2, <3>1, <3>2, <4>1 DEF Due
        <3>3. CASE s # <<>>
            <4>1. Len(s) # 0  BY <3>3, EmptySeq
            <4>2. i # 1 /\ i - 1 = Len(s) /\ i - 1 \in 1 .. Len(s)  BY <1>1, <2>2, <4>1
            <4> QED  BY <1>1, <2>2, <3>1, <3>3, <4>2 DEF Due
        <3> QED  BY <3>2, <3>3
    <2> QED  BY <1>1, <2>1, <2>2
<1>3. Chained(t)  BY <1>2 DEF Chained
<1>4. t[Len(t)] = r  BY <1>1
<1>5. Tail(ms) # <<>> => Due(t, Req(n, Tail(ms)))  BY <1>0, <1>1, <1>4 DEF Due, Follows
<1>6. Tail(ms) = <<>> => Over(t, n)
    <2>1. NoneSent(n, n)  BY DEF NoneSent
    <2> QED  BY <1>0, <1>1, <1>4, <2>1 DEF Over
<1> QED  BY <1>3, <1>5, <1>6 DEF t, r

LEMMA ChainInit == Init => ChainInv
BY DEF Init, ApplyInit, ChainInv, ChainOf, Chained

LEMMA QuietChain == ChainInv /\ Quiet => ChainInv'
<1> SUFFICES ASSUME ChainInv, Quiet PROVE ChainInv'
    OBVIOUS
<1>1. UNCHANGED <<cpu, apc, tokens, tok, msgs, sent, pass, before>>
    BY DEF Quiet, mainVars, applyVars
<1>2. ASSUME NEW s, NEW b, NEW n, NEW ms, ChainOf(s, b, n, ms) PROVE ChainOf(s, b, n, ms)'
    BY <1>1, <1>2, SameChain DEF ChainOf
<1> QED  BY <1>1, <1>2 DEF ChainInv

LEMMA BeginChain == TInv /\ ChainInv /\ BeginPass => ChainInv'
<1> SUFFICES ASSUME TInv, ChainInv, BeginPass PROVE ChainInv'
    OBVIOUS
<1>1. /\ pc = "loop" /\ pass' = pass + 1 /\ before' = sent /\ cpu' = cpu
      /\ tokens' = Preset /\ tok' = 0 /\ sent' = <<>>
      /\ apc' = IF Broken THEN "done" ELSE "next"
    BY DEF BeginPass, Begin, Preset, mainVars
<1>2. Chained(<<>>)'  BY DEF Chained
<1>3. Over(<<>>, 0)'  BY DEF Over, NoneSent
<1>4. apc' = "done" => Len(tokens') = 0  BY <1>1, EmptySeq DEF Preset
<1>5. ASSUME pass' > 1
      PROVE  /\ \E S : before' \in Seq(S)
             /\ \A b : b = before' => Chained(b)' /\ Over(b, Len(tokens))'
    <2>1. pass > 0  BY <1>1, <1>5 DEF TInv, MainOK
    <2>2. apc = "done" /\ tokens = Preset  BY <1>1, <2>1 DEF TInv, PhaseOK
    <2>3. tokens' = tokens  BY <1>1, <2>2
    <2>4. \A s : s = sent => Chained(s) /\ Over(s, Len(tokens))
        BY <2>2 DEF ChainInv, ChainOf
    <2>5. \E S : sent \in Seq(S)  BY DEF TInv, CallOK
    <2>6. ASSUME NEW b, b = before' PROVE Chained(b)' /\ Over(b, Len(tokens))'
        <3>1. Chained(b) /\ Over(b, Len(tokens))  BY <1>1, <2>4, <2>6
        <3>2. PICK k : k = Len(tokens)  OBVIOUS
        <3>3. Over(b, k)' /\ Chained(b)'  BY <1>1, <2>3, <3>1, <3>2, SameChain
        <3>4. k = Len(tokens')  BY <2>3, <3>2
        <3> QED  BY <3>3, <3>4 DEF Over, NoneSent
    <2> QED  BY <1>1, <2>5, <2>6
<1>6. ASSUME NEW s, NEW b, NEW n, NEW ms, s = sent', b = before', n = tok', ms = msgs'
      PROVE  ChainOf(s, b, n, ms)'
    <2>1. s = <<>> /\ n = 0  BY <1>1, <1>6
    <2>2. Chained(s)' /\ Over(s, n)'  BY <1>2, <1>3, <2>1
    <2>3. apc' # "send"  BY <1>1
    <2>4. (apc = "done" => Over(s, Len(tokens)))'
        <3>1. apc' = "done" => Len(tokens') = n  BY <1>4, <2>1
        <3> QED  BY <2>2, <3>1 DEF Over
    <2> QED  BY <1>5, <1>6, <2>2, <2>3, <2>4 DEF ChainOf
<1> QED  BY <1>6 DEF ChainInv

LEMMA ApplyChain ==
    CallOK /\ SInv /\ ChainInv /\ ApplyNext /\ UNCHANGED <<mainVars, pass, before>> => ChainInv'
<1> SUFFICES ASSUME CallOK, SInv, ChainInv, ApplyNext, UNCHANGED <<mainVars, pass, before>>
             PROVE  ChainInv'
    OBVIOUS
<1>0. /\ tok \in Nat /\ Len(tokens) \in Nat
      /\ \E S : sent \in Seq(S)
      /\ cpu' = cpu /\ pass' = pass /\ before' = before
    BY LenProperties DEF CallOK, mainVars
<1>1. tokens' = tokens
    BY DEF ApplyNext, SkipToken, RefuseToken, StartToken, TakeToken, Send, SendRaises, Return
<1>2. /\ \A s : Chained(s)' <=> Chained(s)
      /\ \A s, n : Over(s, n)' <=> Over(s, n)
      /\ \A s, n, ms : Due(s, Req(n, ms))' <=> Due(s, Req(n, ms))
    BY <1>0, <1>1, SameChain
\* What is said of the pass before stays.
<1>3. ASSUME NEW s, NEW n, NEW ms, s = sent', n = tok', ms = msgs', Chained(s),
             apc' = "next" => Over(s, n),
             apc' = "send" => Due(s, Req(n, ms)),
             apc' = "done" => n = Len(tokens) /\ Over(s, n)
      PROVE  ChainInv'
    <2>1. ASSUME NEW b, b = before' PROVE ChainOf(s, b, n, ms)'
        <3>1. PICK k : k = Len(tokens)  OBVIOUS
        <3>2. k = Len(tokens')  BY <1>1, <3>1
        <3>3. pass > 1 => (\E S : b \in Seq(S)) /\ Chained(b) /\ Over(b, k)
            BY <1>0, <2>1, <3>1 DEF ChainInv, ChainOf
        <3>4. pass' > 1 => (\E S : b \in Seq(S)) /\ Chained(b)' /\ Over(b, k)'
            BY <1>0, <1>2, <3>3
        <3>5. apc' = "done" => Over(s, k)'  BY <1>2, <1>3, <3>1
        <3>6. /\ Over(s, k)' => Over(s, Len(tokens))'
              /\ Over(b, k)' => Over(b, Len(tokens))'
            BY <3>2 DEF Over
        <3> QED  BY <1>2, <1>3, <3>4, <3>5, <3>6 DEF ChainOf
    <2> QED  BY <1>3, <2>1 DEF ChainInv
\* A token is taken.
<1>4. ASSUME TakeToken, sent' = sent,
             \/ apc' = "next" /\ ~Sends(tok + 1)
             \/ apc' = "send" /\ Sends(tok + 1) /\ msgs' = Messages(tok + 1)
      PROVE  ChainInv'
    <2>1. apc = "next" /\ tok < Len(tokens) /\ tok' = tok + 1  BY <1>4 DEF TakeToken
    <2> DEFINE n == tok
               s == sent
    <2>2. Chained(s) /\ Over(s, n)  BY <2>1 DEF ChainInv, ChainOf
    <2>3. \A i \in DOMAIN s : s[i].tok \in 1 .. n  BY DEF SInv
    <2>4. /\ ~Sends(n + 1) => Over(s, n + 1)
          /\ Sends(n + 1) => Due(s, Req(n + 1, Messages(n + 1)))
        BY <1>0, <2>1, <2>2, <2>3, PassedOver
    <2>5. PICK u, k, ms : u = s /\ k = n + 1 /\ ms = msgs'  OBVIOUS
    <2>6. apc' = "next" => Over(u, k)  BY <1>4, <2>4, <2>5
    <2>7. apc' = "send" => Due(u, Req(k, ms))  BY <1>4, <2>4, <2>5
    <2>8. Chained(u)  BY <2>2, <2>5
    <2>9. u = sent' /\ k = tok'  BY <1>4, <2>1, <2>5
    <2> QED  BY <1>3, <1>4, <2>5, <2>6, <2>7, <2>8, <2>9
\* A request is made.
<1>5. ASSUME apc = "send", sent' = Append(sent, Request(Head(msgs))), tok' = tok,
             \/ apc' = "raised"
             \/ msgs' = Tail(msgs) /\ apc' = IF msgs' = <<>> THEN "next" ELSE "send"
      PROVE  ChainInv'
    <2>1. PICK s, n, ms : s = sent /\ n = tok /\ ms = msgs  OBVIOUS
    <2>2. Chained(s) /\ Due(s, Req(n, ms))  BY <1>5, <2>1 DEF ChainInv, ChainOf
    <2>3. sent' = Append(s, Req(n, ms))  BY <1>5, <2>1, RequestIsReq
    <2>4. n \in Nat /\ \E S : s \in Seq(S)  BY <1>0, <2>1
    <2> DEFINE t == Append(s, Req(n, ms))
    <2>5. /\ Chained(t)
          /\ Tail(ms) # <<>> => Due(t, Req(n, Tail(ms)))
          /\ Tail(ms) = <<>> => Over(t, n)
        BY <2>2, <2>4, NextDue
    <2> HIDE DEF t
    <2>6. PICK u, l : u = t /\ l = msgs'  OBVIOUS
    <2>7. u = sent' /\ n = tok'  BY <1>5, <2>1, <2>3, <2>6 DEF t
    <2>8. apc' = "next" => Over(u, n)  BY <1>5, <2>1, <2>5, <2>6
    <2>9. apc' = "send" => Due(u, Req(n, l))  BY <1>5, <2>1, <2>5, <2>6
    <2>10. apc' # "done"  BY <1>5
    <2>11. Chained(u)  BY <2>5, <2>6
    <2> QED  BY <1>3, <2>6, <2>7, <2>8, <2>9, <2>10, <2>11
<1>6. CASE SkipToken
    <2>1. TakeToken /\ sent' = sent /\ apc' = "next" /\ ~Sends(tok + 1)
        BY <1>6 DEF SkipToken, TakeToken, Sends
    <2> QED  BY <1>4, <2>1
<1>7. CASE RefuseToken
    <2>1. TakeToken /\ sent' = sent /\ apc' = "next" /\ ~Sends(tok + 1)
        BY <1>7 DEF RefuseToken, TakeToken, Sends
    <2> QED  BY <1>4, <2>1
<1>8. CASE StartToken
    <2>1. /\ TakeToken /\ sent' = sent /\ apc' = "send" /\ Sends(tok + 1)
          /\ msgs' = Messages(tok + 1)
        BY <1>8 DEF StartToken, Sends, Messages, NameOf
    <2> QED  BY <1>4, <2>1
<1>9. CASE \E status \in Status : Send(status)
    BY <1>5, <1>9 DEF Send
<1>10. CASE SendRaises
    BY <1>5, <1>10 DEF SendRaises
<1>11. CASE Return
    <2>1. /\ apc = "next" /\ apc' = "done" /\ tok = Len(tokens)
          /\ UNCHANGED <<tok, sent>>
        BY <1>11 DEF Return
    <2>2. PICK s, n, ms : s = sent /\ n = tok /\ ms = msgs'  OBVIOUS
    <2>3. Chained(s) /\ Over(s, n)  BY <2>1, <2>2 DEF ChainInv, ChainOf
    <2>4. s = sent' /\ n = tok' /\ n = Len(tokens)  BY <2>1, <2>2
    <2> QED  BY <1>3, <2>1, <2>2, <2>3, <2>4
<1> QED  BY <1>6, <1>7, <1>8, <1>9, <1>10, <1>11 DEF ApplyNext

LEMMA ChainAlways == Spec => []ChainInv
<1>1. TInv /\ SInv /\ ChainInv /\ [Next]_vars => ChainInv'
    BY StepKinds, QuietChain, BeginChain, ApplyChain DEF TInv, Apply
<1> QED  BY <1>1, ChainInit, TInvAlways, SInvAlways, PTL DEF Spec

(***************************************************************************)
(* A pass of the reapply loop sends what the pass before it sent, in the   *)
(* same order, whatever the SMU answers and wherever an access raises: for *)
(* any line and any number of passes (cli.py:677).                         *)
(***************************************************************************)
THEOREM PassesAgree == Spec => []PassesRepeat
<1>1. TInv /\ SInv /\ ChainInv => PassesRepeat
    <2> SUFFICES ASSUME TInv, SInv, ChainInv, pass > 1
                 PROVE  \A i \in DOMAIN sent : i \in DOMAIN before /\ sent[i] = before[i]
        BY DEF PassesRepeat
    <2>1. /\ Chained(sent) /\ Chained(before) /\ Over(before, Len(tokens))
          /\ \E S : sent \in Seq(S)
          /\ \E S : before \in Seq(S)
        BY DEF ChainInv, ChainOf, TInv, CallOK
    <2>2. /\ Len(sent) \in Nat /\ DOMAIN sent = 1 .. Len(sent)
          /\ Len(before) \in Nat /\ DOMAIN before = 1 .. Len(before)
          /\ Len(tokens) \in Nat
        BY <2>1, LenProperties DEF TInv, CallOK
    <2> DEFINE P == {i \in 1 .. Len(sent) : i \in DOMAIN before /\ sent[i] = before[i]}
    <2>3. 1 \in DOMAIN sent => 1 \in P
        <3> SUFFICES ASSUME 1 \in DOMAIN sent PROVE 1 \in DOMAIN before /\ sent[1] = before[1]
            BY <2>2
        <3>1. Starts(0, sent[1])  BY <2>1 DEF Chained
        <3>2. ~NoneSent(0, Len(tokens))  BY <2>2, <3>1, StartsOnce
        <3>3. before # <<>>  BY <2>1, <3>2 DEF Over
        <3>4. Len(before) # 0  BY <2>1, <3>3, EmptySeq
        <3>5. 1 \in DOMAIN before  BY <2>2, <3>4
        <3>6. Starts(0, before[1])  BY <2>1, <3>5 DEF Chained
        <3> QED  BY <2>2, <3>1, <3>5, <3>6, StartsOnce
    <2>4. ASSUME NEW m \in 1 .. Len(sent), m + 1 \in 1 .. Len(sent), m \in P PROVE m + 1 \in P
        <3> DEFINE q == sent[m]
                   r == sent[m + 1]
        <3>1. m + 1 # 1 /\ (m + 1) - 1 = m  BY <2>2
        <3>2. Follows(q, r)  BY <2>1, <2>2, <2>4, <3>1 DEF Chained
        <3>3. q = before[m] /\ m \in DOMAIN before  BY <2>4
        <3>4. q.tok \in Nat
            <4>1. q.tok \in 1 .. tok  BY <2>2 DEF SInv
            <4> QED  BY <4>1
        <3> HIDE DEF q, r
        <3>5. m # Len(before)
            <4>1. ASSUME m = Len(before) PROVE FALSE
                <5>1. before # <<>>  BY <2>2, <3>3, <4>1
                <5>2. Tail(q.left) = <<>> /\ NoneSent(q.tok, Len(tokens))
                    BY <2>1, <3>3, <4>1, <5>1 DEF Over
                <5>3. Starts(q.tok, r)  BY <3>2, <5>2 DEF Follows
                <5> QED  BY <2>2, <3>4, <5>2, <5>3, StartsOnce
            <4> QED  BY <4>1
        <3>6. m + 1 \in DOMAIN before  BY <2>2, <3>3, <3>5
        <3>7. Follows(q, before[m + 1])  BY <2>1, <3>1, <3>3, <3>6 DEF Chained
        <3>8. r = before[m + 1]
            BY <2>2, <3>2, <3>4, <3>7, StartsOnce DEF Follows
        <3> QED  BY <2>4, <3>6, <3>8 DEF r
    <2>5. ASSUME NEW i \in DOMAIN sent PROVE i \in P
        <3>1. 1 \in DOMAIN sent  BY <2>2
        <3>2. \A m \in 1 .. Len(sent) : m + 1 \in 1 .. Len(sent) /\ m \in P => m + 1 \in P
            BY <2>4
        <3> HIDE DEF P
        <3>3. \A m \in 1 .. Len(sent) : m \in P  BY <2>2, <2>3, <3>1, <3>2, Upward
        <3> QED  BY <2>2, <3>3
    <2> QED  BY <2>5
<1> QED  BY <1>1, TInvAlways, SInvAlways, ChainAlways, PTL

==============================================================================
