-------------------------------- MODULE ClkGate -------------------------------
(***************************************************************************)
(* The Pegmatite clock gate (src/pegmatite/clkgate.c): an enable bit and, *)
(* for a node with the "reset" property, a software reset bit released   *)
(* while the clock runs.  The register is a record [en, rst].             *)
(***************************************************************************)
EXTENDS Integers

\* pegmatite_clkgate_is_enabled (lines 34-53): the enable bit, and for a
\* clock with a reset also the reset bit.
GateIsEnabled(reg, reset) == reg.en = 1 /\ (reset => reg.rst = 1)

\* pegmatite_clkgate_enable (lines 55-75): set the enable bit, then the
\* reset bit if the clock has one.
GateEnable(reg, reset) == [reg EXCEPT !.en = 1, !.rst = IF reset THEN 1 ELSE @]

\* pegmatite_clkgate_disable (lines 77-101): clear the reset bit if the
\* clock has one, then the enable bit; the status check only warns.
GateDisable(reg, reset) == [reg EXCEPT !.en = 0, !.rst = IF reset THEN 0 ELSE @]

=============================================================================
