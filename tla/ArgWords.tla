------------------------------ MODULE ArgWords ------------------------------
(***************************************************************************)
(* zenmaster/apply.py: the 32-bit words that argument values become.       *)
(*                                                                         *)
(* A value is the sequence of integers the user separated by ":" or ",";   *)
(* the empty sequence stands for a text int() refuses.  A word is a pair   *)
(* of 16-bit halves <<high, low>>, so that no model checker's integer has  *)
(* to hold 2^32.  x & (2^n - 1) of the code is x % 2^n here: both take the *)
(* remainder of a negative x from below.                                   *)
(*                                                                         *)
(* A definition named Bug... is a plausible mistake in the definition that *)
(* follows it; it is part of no specification.                             *)
(***************************************************************************)
EXTENDS Integers, Sequences

HalfMax == 65535
Half    == 0 .. HalfMax
Word    == Half \X Half

\* value & 0xFFFFFFFF
Word32(v) == <<(v \div 65536) % 65536, v % 65536>>

\* A 12-bit prefix above 20 bits: (prefix << 20) | enc20.
Join(prefix, enc20) == <<prefix * 16 + enc20 \div 65536, enc20 % 65536>>

\* _SKIN_ARGS
SkinArg == {"apu-skin-temp", "dgpu-skin-temp"}

BugSkinScale(name, v) == IF name \in SkinArg \cup {"skin-temp-limit"} THEN v * 256 ELSE v
SkinScale(name, v) == IF name \in SkinArg THEN v * 256 ELSE v

CoScale(v) ==
    IF v < 0 THEN (1048576 - (-v)) % 1048576 ELSE v % 1048576

BugHsmpPsmMargin(v) ==
    LET bit19  == (v \div 524288) % 2 = 1
        margin == IF v >= 0 /\ bit19 THEN v - 1048576 ELSE v
    IN  (IF margin < -32768 THEN -32768
         ELSE IF margin > 32767 THEN 32767 ELSE margin)
\* The margin of a signed value, or of one given as 20 bits already, kept
\* to 16 bits.
HsmpPsmMargin(v) ==
    LET bit19  == (v \div 524288) % 2 = 1
        margin == IF v >= 0 /\ bit19 THEN v - 1048576 ELSE v
    IN  (IF margin < -32768 THEN -32768
         ELSE IF margin > 32767 THEN 32767 ELSE margin) % 65536

\* _pack_coper: core:val, ccd:core:val and ccd:ccx:core:val.  The third form
\* drops its ccx: where the word has one, it is core // 8.  HSMP's core has 4
\* bits, above which the code's | with the ccd is not the + it is here.
PackCoper(val, hsmp) ==
    LET n      == Len(val)
        ccd    == IF n = 2 THEN 0 ELSE val[1]
        core   == IF n = 2 THEN val[1] ELSE IF n = 3 THEN val[2] ELSE val[3]
        offset == IF n = 2 THEN val[2] ELSE IF n = 3 THEN val[3] ELSE val[4]
        ccx    == core \div 8
    IN  IF n = 1
        THEN IF hsmp THEN <<0, HsmpPsmMargin(val[1])>>
             ELSE IF val[1] < 0 THEN Word32(CoScale(val[1])) ELSE Word32(val[1])
        ELSE IF hsmp
        THEN <<((ccd * 16 + core) * 2) % 65536, HsmpPsmMargin(offset)>>
        ELSE Join((ccd % 16) * 256 + (ccx % 16) * 16 + (core % 8), CoScale(offset))

\* _pack_oc_clk_per_core: the same forms, with the fields in other places, a
\* ccx that is used when given, and a frequency of at most 8000 MHz.
PackOcClkPerCore(val) ==
    LET n    == Len(val)
        ccd  == IF n = 2 THEN 0 ELSE val[1]
        core == IF n = 2 THEN val[1] ELSE IF n = 3 THEN val[2] ELSE val[3]
        freq == IF n = 2 THEN val[2] ELSE IF n = 3 THEN val[3] ELSE val[4]
        ccx  == IF n >= 4 THEN val[2] ELSE core \div 8
    IN  IF n = 1 THEN Word32(val[1])
        ELSE Join((core % 8) + (ccx % 16) * 16 + (ccd % 16) * 256,
                  (IF freq < 8000 THEN freq ELSE 8000) % 1048576)

\* Degrees may be given in thousandths.
TctlDegrees(name, v) == IF name = "tctl-temp" /\ v >= 1000 THEN v \div 1000 ELSE v
PboScale(name, v)    == IF name = "pbo-scalar" /\ v >= 100 THEN v \div 10 ELSE v

\* What apply() sends for an argument and its value, which was found to
\* parse: smu_val.
Encode(name, val, hsmp) ==
    IF name = "set-coper" THEN PackCoper(val, hsmp)
    ELSE IF name = "oc-clk-per-core" THEN PackOcClkPerCore(val)
    ELSE LET v == TctlDegrees(name, val[1])
         IN  IF name \in {"set-coall", "set-cogfx"}
             THEN IF hsmp THEN <<0, HsmpPsmMargin(v)>> ELSE Word32(CoScale(v))
             ELSE Word32(SkinScale(name, IF hsmp THEN PboScale(name, v) ELSE v))

(***************************************************************************)
(* The reverse direction, which the SMU takes: what the fields of a word   *)
(* say.                                                                    *)
(***************************************************************************)

\* x as a two's complement number of n values.
Signed(x, n) == IF x < n \div 2 THEN x ELSE x - n

Low20(w)   == (w[1] % 16) * 65536 + w[2]
Nibble7(w) == w[1] \div 4096
Nibble6(w) == (w[1] \div 256) % 16
Nibble5(w) == (w[1] \div 16) % 16
=============================================================================
