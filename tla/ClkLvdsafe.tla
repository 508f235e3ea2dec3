------------------------------ MODULE ClkLvdsafe ------------------------------
(***************************************************************************)
(* The Pegmatite LVDS-safe clock (src/pegmatite/clklvdsafe.c): an output  *)
(* enable CLKOUT and a divider hidiv + 1 + lodiv + 1 in one register,     *)
(* whose rate operations do nothing and report 0 while the parent clock   *)
(* is not enabled.  The register is a record [hi, lo, out]; on is         *)
(* __clk_is_enabled(parent_clk).                                          *)
(***************************************************************************)
EXTENDS Integers

LHIDIV_MASK == 255
LLODIV_MASK == 255
MAX_TOTALDIV == LHIDIV_MASK + 1 + LLODIV_MASK + 1

\* The kernel's abs() on an unsigned long difference (rates below 2^31).
LAbs(x) == IF x < 0 THEN -x ELSE x

Clamp(t) == IF t < 2 THEN 2 ELSE IF t > MAX_TOTALDIV THEN MAX_TOTALDIV ELSE t

\* t, moved to t + 1 when p / (t + 1) is strictly nearer to r and t is
\* below the largest divide (lines 84-88 and 122-126).
RoundUp(p, r, t) ==
  IF t < MAX_TOTALDIV /\ LAbs(r - p \div t) > LAbs(r - p \div (t + 1)) THEN t + 1 ELSE t

\* pegmatite_clklvdsafe_is_enabled (lines 32-42)
LvdsIsEnabled(on, reg) == on /\ reg.out = 1

\* pegmatite_clklvdsafe_enable (lines 44-51): set CLKOUT.
LvdsEnable(reg) == [reg EXCEPT !.out = 1]

\* pegmatite_clkgate_disable of clklvdsafe.c (lines 136-146): clear
\* CLKOUT, unless the parent is not enabled, when nothing is written.
LvdsDisable(on, reg) == IF on THEN [reg EXCEPT !.out = 0] ELSE reg

\* pegmatite_clklvdsafe_recalc_rate (lines 53-68)
LvdsRecalcRate(p, on, reg) ==
  IF p = 0 \/ ~on THEN 0 ELSE p \div (reg.hi + 1 + reg.lo + 1)

(* pegmatite_clklvdsafe_set_rate (lines 70-110): nothing while the parent *)
(* is off or a rate is 0; else clamp t = p / r to 2..512, round it up to   *)
(* the nearer divide, clamp again, and store lodiv = t / 2 and            *)
(* hidiv = t - lodiv, each less one.                                      *)
LvdsSetRate(r, p, on, reg) ==
  IF p = 0 \/ r = 0 \/ ~on THEN reg
  ELSE LET t == Clamp(RoundUp(p, r, Clamp(p \div r)))
       IN  [reg EXCEPT !.hi = (t - t \div 2) - 1, !.lo = t \div 2 - 1]

(* pegmatite_clklvdsafe_round_rate (lines 112-134): 0 while the parent   *)
(* is off or a rate is 0; else round t = p / r up first and clamp after.  *)
(* t = 0 (r above p) divides by zero at line 123: the model keeps r <= p. *)
LvdsRoundRate(r, p, on) ==
  IF r = 0 \/ p = 0 \/ ~on THEN 0
  ELSE p \div Clamp(RoundUp(p, r, p \div r))

=============================================================================
