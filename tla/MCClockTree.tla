------------------------------ MODULE MCClockTree -----------------------------
(***************************************************************************)
(* A 25 MHz oscillator.  Both PLLs boot programmed refdiv 1, fbdiv 12,    *)
(* clkout divider 1: 1.2 GHz for the main PLL, 300 MHz for the deskew     *)
(* one.  The sscg spreads down by 0.5%, so that gen's parent is not a     *)
(* round rate.  The clkgen node is one of three configurations without    *)
(* the divide select that between them take the nearest-divider path, the *)
(* predivider path, the max-divide clamp and a predivider engaged with a  *)
(* zero field.                                                            *)
(* The PLL nodes carry no "clock-frequency", or both carry one.          *)
(* Rates are in Hz, as the drivers see them.                              *)
(***************************************************************************)
EXTENDS ClockTree

MCPllBoot == {[bypass |-> 0, pu |-> 1, rst |-> 0, refdiv |-> 1, sel |-> 0,
               fbdiv |-> 12, offEn |-> 0, offset |-> 0]}

\* No "clock-frequency" on either node, or 800 MHz and 1.8 GHz.
MCPllDefaults == {[pll |-> 0, lpll |-> 0], [pll |-> 800000000, lpll |-> 1800000000]}

\* A 0.5% down-spread ("down-spread-offset" 500).
MCSscgConfs == {SscgSetup(FALSE, TRUE, 500)}

MCGenConfs ==
  {[divSel |-> FALSE, usePrediv |-> TRUE, maxDivide |-> 2, predivVal |-> 3],
   [divSel |-> FALSE, usePrediv |-> FALSE, maxDivide |-> 16, predivVal |-> 0],
   [divSel |-> FALSE, usePrediv |-> TRUE, maxDivide |-> 16, predivVal |-> 0]}

\* Divide select and the DDR clock are in MCGenConfsDivSel.
MCGenConfsDivSel == GenConfigs({TRUE}, {16}, {0})

\* Divided by 4 (hi 2 + lo 2).
MCGenBoot == {[ds |-> 0, enb |-> 0, hi |-> 2, lo |-> 2]}

MCFdBoot == {FdNoDivide}

=============================================================================
