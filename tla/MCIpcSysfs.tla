------------------------------ MODULE MCIpcSysfs ------------------------------
(* IpcSysfs for TLC: two threads using the "message" attribute on both    *)
(* tables of three slots, the first two with interrupts, while the        *)
(* attributes are rewritten.                                               *)
EXTENDS IpcSysfs, TLC

CONSTANTS t1, t2

MCThreads == {t1, t2}
MCTables == {RF_DSP, PLC_DSP}
\* channel numbers written to the attribute: "any", and one in and one out
\* of the interrupt range
MCChannelInNonNeg == {INVALID, 0, 2}
\* for the safety run over both tables: "any" and the one slot
MCChannelInSmall == {INVALID, 0}
MCSymmetry == Permutations(MCThreads)
==============================================================================
