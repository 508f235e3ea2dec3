-------------------------------- MODULE ClkGen --------------------------------
(***************************************************************************)
(* The Pegmatite clock generator (src/unnamed/part_000): a divider with    *)
(* an optional predivider or, for the DDR clock, a single divide-by-2/4   *)
(* select bit.  The three clk_ops are pure functions of the parent rate,  *)
(* the node's configuration and the divider register, and are modelled as *)
(* operators; ClockTree holds the register and calls them.                *)
(*                                                                         *)
(* The register is a record of the fields the driver touches:             *)
(*   ds   DIV_SEL (bit 20)        enb  PRE_DIV_ENB (bit 2)                *)
(*   hi   HIDIV (bits 16-23)      lo   LODIV (bits 8-15)                  *)
(* set_rate writes them at offset 0 and recalc_rate reads them back at    *)
(* offset 4; the model takes offset 4 to show what was written at 0.  The *)
(* predivider value (bits prediv_shift..+7 of offset 4) is never written  *)
(* by the driver and is part of the configuration, as predivVal.          *)
(*                                                                         *)
(* A configuration is a record                                             *)
(*   [divSel |-> use_div_select, usePrediv |-> use_prediv,                *)
(*    maxDivide |-> max_divide, predivVal |-> the predivider field].      *)
(***************************************************************************)
EXTENDS Integers

HIDIV_MASK == 255
LODIV_MASK == 255

\* The kernel's abs() on an unsigned long difference: the difference is
\* cast to long, which gives its magnitude for rates below 2^31.
Abs(x) == IF x < 0 THEN -x ELSE x

\* The divider d = floor(p / r), moved to d + 1 when p / (d + 1) is
\* strictly nearer to r (lines 122-124 and 190-192).
NearestDiv(p, r) ==
  LET d == p \div r
  IN  IF Abs(r - p \div d) > Abs(r - p \div (d + 1)) THEN d + 1 ELSE d

\* Whether the predivider is used for a target r (lines 108 and 177).
PredivEngaged(p, r, conf) == conf.usePrediv /\ p \div conf.maxDivide > r

\* pegmatite_clkgen_recalc_rate (lines 38-77)
GenRecalcRate(p, reg, conf) ==
  IF conf.divSel
    THEN IF reg.ds = 1 THEN p \div 4 ELSE p \div 2
    ELSE LET q == IF conf.usePrediv /\ reg.enb = 1 THEN p \div conf.predivVal ELSE p
         IN  IF reg.lo # 0 /\ reg.hi # 0 THEN q \div (reg.lo + reg.hi) ELSE q

(* pegmatite_clkgen_set_rate (lines 79-153).  With the divide select, the *)
(* bit is set when p / 2 is still above r.  Otherwise, below the parent   *)
(* rate: read the predivider if the largest divide cannot reach r, apply  *)
(* it if non-zero, then divide by the nearest d, clamped to max_divide,   *)
(* split as hidiv = d / 2 and lodiv = d - hidiv.  d = 0 (no division)     *)
(* writes both fields 0.  The register is written back in one writel.    *)
GenSetRate(r, p, reg, conf) ==
  IF conf.divSel
    THEN [reg EXCEPT !.ds = IF p \div 2 > r THEN 1 ELSE 0]
    ELSE LET pv == IF p > r /\ PredivEngaged(p, r, conf) THEN conf.predivVal ELSE 0
             q  == IF pv # 0 THEN p \div pv ELSE p
             d  == IF p > r /\ q > r
                     THEN IF NearestDiv(q, r) > conf.maxDivide
                            THEN conf.maxDivide ELSE NearestDiv(q, r)
                     ELSE 0
         IN  [reg EXCEPT !.enb = IF pv # 0 THEN 1 ELSE 0,
                         !.hi = (d \div 2) % (HIDIV_MASK + 1),
                         !.lo = (d - d \div 2) % (LODIV_MASK + 1)]

\* A round_rate that keeps d = floor(p / r) and never rounds up.
GenRoundRateFloor(r, p, conf) ==
  CASE p <= r -> p
    [] conf.divSel -> IF p \div 2 <= r THEN p \div 2 ELSE p \div 4
    [] OTHER ->
         LET q == IF PredivEngaged(p, r, conf) /\ conf.predivVal # 0
                    THEN p \div conf.predivVal ELSE p
         IN  IF q <= r THEN q
             ELSE q \div (IF q \div r > conf.maxDivide THEN conf.maxDivide ELSE q \div r)

(* pegmatite_clkgen_round_rate (lines 155-203): the parent rate if it is *)
(* not above r; with the divide select, p / 2 if that reaches r, else     *)
(* p / 4; otherwise the same predivider and nearest-divider choice as     *)
(* set_rate, returning early when the predivided rate already reaches r. *)
GenRoundRate(r, p, conf) ==
  CASE p <= r -> p
    [] conf.divSel -> IF p \div 2 <= r THEN p \div 2 ELSE p \div 4
    [] OTHER ->
         LET q == IF PredivEngaged(p, r, conf) /\ conf.predivVal # 0
                    THEN p \div conf.predivVal ELSE p
         IN  IF q <= r THEN q
             ELSE q \div (IF NearestDiv(q, r) > conf.maxDivide
                            THEN conf.maxDivide ELSE NearestDiv(q, r))

(* of_pegmatite_clkgen_setup (lines 211-308): the node's properties give  *)
(* the configuration, with max-divide 16 by default; no-prediv clears     *)
(* use_prediv, use-div-sel sets the select.  The SRCSEL field it writes is *)
(* not a field of the model.                                              *)
GenConfigs(DivSels, MaxDivides, PredivVals) ==
  [divSel : DivSels, usePrediv : BOOLEAN, maxDivide : MaxDivides,
   predivVal : PredivVals]

=============================================================================
