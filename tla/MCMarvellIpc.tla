---------------------------- MODULE MCMarvellIpc ----------------------------
(* MarvellIpc for TLC.  Clients are model values; devices are instance    *)
(* ids and a port number is a small integer.                              *)
EXTENDS MarvellIpc

CONSTANTS c1, c2

MCClients == {c1, c2}
MCClient1 == {c1}
\* a client attaches port 5 of either device
MCTargets2 == {<<0, 5>>, <<1, 5>>}
MCTargets1 == {<<0, 5>>}
=============================================================================
