-------------------------------- MODULE ClkPll --------------------------------
(***************************************************************************)
(* The Pegmatite PLL (src/pegmatite/pll.c): out = ref * 4 * fbdiv /        *)
(* (refdiv * vcodiv), or ref * fbdiv / (refdiv * vcodiv) for a "deskew"    *)
(* PLL, corrected by a signed frequency offset.  The three clk_ops are    *)
(* operators of the parent rate, the node's deskew property and the       *)
(* register fields the driver reads back, a record                        *)
(*   [bypass, pu, rst |-> BYPASS_EN, PU, RESET bits,                      *)
(*    refdiv, sel, fbdiv |-> REFDIV, CLKOUT_SE_DIV_SEL, FBDIV fields,     *)
(*    offEn, offset |-> FREQ_OFFSET_EN bit, 17-bit FREQ_OFFSET field].    *)
(* The tuning fields set_rate also writes (ICP, PLL_BW_SEL, KVCO, the     *)
(* differential divider, source select, loop mode) are never read back    *)
(* and are left out.  Rates are in Hz, below 2^31; the u64 products are   *)
(* MulDiv of Div64, and bounds above 2^31 are compared by division.       *)
(***************************************************************************)
EXTENDS Integers, Div64

MHz == 1000000
GHz == 1000000000
OFFSET_SCALE == 100000000     \* the 100000000 the offsets are scaled by
TWO_20 == 1048576             \* 2^20

\* abs() of the kernel on a difference of rates below 2^31.
PAbs(x) == IF x < 0 THEN -x ELSE x

\* div_s64(x * m, d) for d > 0: the quotient truncated towards zero.
SMulDiv(x, m, d) == IF x < 0 THEN -MulDiv(-x, m, d) ELSE MulDiv(x, m, d)

(* set_rate and round_rate, lines 242-266 and 684-708: a deskew PLL takes *)
(* the largest power of two v with r * v <= 3 GHz (the loop doubles past  *)
(* it and halves back); the others the first v >= 1 with r * v within     *)
(* 1..4 GHz.  r * v <= 3 GHz is v <= 3 GHz / r; r * v stays below 2^31 in *)
(* the second loop.  r = 0 never leaves that loop.                        *)
RECURSIVE DoubleWhileBelow3G(_, _)
DoubleWhileBelow3G(r, v) ==
  IF v <= MulDiv(3, GHz, r) THEN DoubleWhileBelow3G(r, 2 * v) ELSE v \div 2

RECURSIVE StepInto1To4G(_, _)
StepInto1To4G(r, v) ==
  IF r * v < GHz \/ v > MulDiv(4, GHz, r) THEN StepInto1To4G(r, v + 1) ELSE v

VcoDiv(r, deskew) ==
  IF deskew THEN (IF r > 0 THEN DoubleWhileBelow3G(r, 1) ELSE 1)
  ELSE StepInto1To4G(r, 1)

(* The switch at lines 272-297: log2 of a power of two up to 128; any     *)
(* other vcodiv matches no case and leaves clkout_div_sel at 0.            *)
DivSel(v) ==
  IF \E k \in 0..7 : 2^k = v THEN CHOOSE k \in 0..7 : 2^k = v ELSE 0

\* Lines 331-333 and 720-722: the first refdiv with parent / refdiv <= 32 MHz.
RECURSIVE FirstRefdiv(_, _)
FirstRefdiv(p, rd) == IF p \div rd > 32 * MHz THEN FirstRefdiv(p, rd + 1) ELSE rd

(* The feedback divider at a reference divider (lines 344-348): for a     *)
(* deskew PLL fvco / (frefdiv * v) with fvco = r * v, which is r / frefdiv *)
(* (fvco <= 3 GHz does not wrap); otherwise (fvco / 4) / frefdiv.         *)
FbDiv(p, rd, r, v, deskew) ==
  IF deskew THEN r \div (p \div rd) ELSE ((r * v) \div 4) \div (p \div rd)

\* The output rate without offset (lines 353-359).
CalcRate(p, rd, v, fb, deskew) == MulDiv(IF deskew THEN p ELSE 4 * p, fb, rd * v)

(* The search of lines 364-398: from the refdiv after the first, while    *)
(* parent / refdiv >= 8 MHz, keep the refdiv whose rate is strictly       *)
(* nearer to r than the best so far.                                       *)
RECURSIVE ScanRefdiv(_, _, _, _, _, _, _)
ScanRefdiv(p, r, v, deskew, rd, best, bestRate) ==
  IF p \div rd >= 8 * MHz
    THEN LET c == CalcRate(p, rd, v, FbDiv(p, rd, r, v, deskew), deskew)
         IN  IF PAbs(bestRate - r) > PAbs(c - r)
               THEN ScanRefdiv(p, r, v, deskew, rd + 1, rd, c)
               ELSE ScanRefdiv(p, r, v, deskew, rd + 1, best, bestRate)
    ELSE best

BestRefdiv(p, r, v, deskew) ==
  LET rd0 == FirstRefdiv(p, 1)
  IN  ScanRefdiv(p, r, v, deskew, rd0 + 1, rd0,
                 CalcRate(p, rd0, v, FbDiv(p, rd0, r, v, deskew), deskew))

\* (calc_rate - fvco) * 100000000 / fvco (lines 470-485 and 826-841).
OffsetPercent(c, fvco) == SMulDiv(c - fvco, OFFSET_SCALE, fvco)

(* freq_offset, lines 463-518: bit 16 set unless the offset percent is    *)
(* positive, and 2^20 * |op| / (100000000 + op) in the low 16 bits.       *)
FreqOffset(c, fvco) ==
  LET op == OffsetPercent(c, fvco)
  IN  (IF op > 0 THEN 0 ELSE 65536) + (MulDiv(PAbs(op), TWO_20, OFFSET_SCALE + op) % 65536)

(* The register sequence at the end of pegmatite_pll_set_rate (lines     *)
(* 519-661).  The PLL is put in bypass and reset, powered up, its fields   *)
(* written through their masks, released from reset, waited on for lock  *)
(* (which may time out; the result is not used) and taken out of bypass:  *)
(* what stays is the register below.  A deskew PLL keeps its offset       *)
(* fields; a non-deskew one enables the offset and writes it.              *)
PllProgram(rd, sel, fb, fo, reg, deskew) ==
  [bypass |-> 0, pu |-> 1, rst |-> 0,
   refdiv |-> rd % 512, sel |-> sel % 8, fbdiv |-> fb % 512,
   offEn  |-> IF deskew THEN reg.offEn ELSE 1,
   offset |-> IF deskew THEN reg.offset ELSE fo % 131072]

(* pegmatite_pll_set_rate (lines 222-518): the divider search, the        *)
(* divider select and the frequency offset, then the register sequence.  *)
PllSetRate(r, p, reg, deskew) ==
  LET v   == VcoDiv(r, deskew)
      rd  == BestRefdiv(p, r, v, deskew)
      fb  == FbDiv(p, rd, r, v, deskew)
      c   == CalcRate(p, rd, v, fb, deskew)
      fo  == IF c # r /\ ~deskew THEN FreqOffset(c, r * v) ELSE 0
  IN  PllProgram(rd, DivSel(v), fb, fo, reg, deskew)

(* pegmatite_pll_recalc_rate (lines 89-220): the parent rate in bypass,   *)
(* 0 when powered down or in reset; else the divided rate, to which a     *)
(* non-deskew PLL adds (bit 16 set) or from which it subtracts            *)
(* rate * op / 100000000, with op = off * 100000000 / (2^20 + off) from   *)
(* the low 16 bits off of an enabled offset.                              *)
PllRecalcRate(p, reg, deskew) ==
  CASE reg.bypass = 1 -> p
    [] reg.pu = 0 \/ reg.rst = 1 -> 0
    [] OTHER ->
         LET c   == CalcRate(p, reg.refdiv, 2^reg.sel, reg.fbdiv, deskew)
             fo  == IF reg.offEn = 1 THEN reg.offset ELSE 0
             off == fo % 65536
             op  == MulDiv(off, OFFSET_SCALE, TWO_20 + off)
             bump == MulDiv(c, op, OFFSET_SCALE)
         IN  IF deskew \/ fo = 0 THEN c
             ELSE IF fo >= 65536 THEN c + bump ELSE c - bump

(* pegmatite_pll_round_rate (lines 663-852): the same search; the final   *)
(* rate of a deskew PLL is divided by refdiv only.  A non-deskew rate     *)
(* within 5% of fvco is answered with the request itself, on the grounds *)
(* that the frequency offset makes up the difference.                     *)
PllRoundRate(r, p, deskew) ==
  LET v  == VcoDiv(r, deskew)
      rd == BestRefdiv(p, r, v, deskew)
      fb == FbDiv(p, rd, r, v, deskew)
      c  == IF deskew THEN MulDiv(p, fb, rd) ELSE MulDiv(4 * p, fb, rd * v)
  IN  IF c # r /\ ~deskew /\ PAbs(OffsetPercent(c, r * v)) <= 5000000 THEN r ELSE c

=============================================================================
