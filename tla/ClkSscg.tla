-------------------------------- MODULE ClkSscg --------------------------------
(***************************************************************************)
(* The Pegmatite spread-spectrum clock (src/pegmatite/sscg.c): a child of *)
(* a PLL whose node maps the PLL's register block (it reads the PLL's     *)
(* fixed_mode_ssc_mode at offset 0x18).  It has only recalc_rate, which   *)
(* reports the centre of a down-spread.  A configuration is the record    *)
(*   [disabled |-> sscg_disabled, enabled |-> CSSCG_CONTROL was written   *)
(*    CSSCG_ENABLED at setup, dso |-> down_spread_offset].                *)
(***************************************************************************)
EXTENDS Integers

(* of_pegmatite_sscg_setup (lines 106-213): an "sscg-table" on a node not *)
(* marked "sscg-disabled" enables the spread, and only then is            *)
(* "down-spread-offset" read; otherwise it stays at kzalloc's 0.          *)
SscgSetup(disabled, table, dso) ==
  [disabled |-> disabled, enabled |-> table /\ ~disabled,
   dso |-> IF table /\ ~disabled THEN dso ELSE 0]

(* pegmatite_sscg_recalc_rate (lines 50-100): the parent rate when the    *)
(* sscg is disabled or the PLL is in bypass; with the spread enabled and  *)
(* an offset in thousandths of a percent, the parent rate less            *)
(* (parent / 100000) * (offset / 2).                                      *)
SscgRecalcRate(p, conf, pllBypass) ==
  IF conf.disabled \/ pllBypass = 1 \/ ~conf.enabled \/ conf.dso = 0 THEN p
  ELSE p - (p \div 100000) * (conf.dso \div 2)

=============================================================================
