--------------------------- MODULE MCChannelTable ---------------------------
(* ChannelTable for TLC: three threads on the RF DSP's table, two slots of *)
(* which the first takes interrupts.  The PLC table is the same code    *)
(* under its own mutex and shares nothing with this one.  Requests       *)
(* are the ones the API contract allows: any slot, or an appointed slot   *)
(* below the mode's bound.                                                *)
EXTENDS ChannelTable

CONSTANTS t1, t2, t3

MCThreads == {t1, t2, t3}
MCTables == {RF_DSP}
MCRequests ==
  {<<pt, op, md, a>> \in MCTables \X {RECEIVE} \X {INT, POLL} \X {INVALID, 0, NCh - 1} :
     a < GetMaxChannel(md)}
=============================================================================
