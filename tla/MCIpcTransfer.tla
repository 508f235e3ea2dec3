---------------------------- MODULE MCIpcTransfer ----------------------------
EXTENDS IpcTransfer, TLC

CONSTANTS s1, s2, r1, r2

\* Two senders on RF channels 0 and 1.
MCSendThreads == {s1, s2}
MCSendHandle ==
  [t \in MCSendThreads |-> [ch |-> IF t = s1 THEN 0 ELSE 1, op |-> SEND, mode |-> POLL]]

\* An interrupt-mode receiver on channel 0 and a poll-mode one on channel 1.
MCRecvThreads == {r1, r2}
MCRecvHandle ==
  [t \in MCRecvThreads |-> IF t = r1 THEN [ch |-> 0, op |-> RECEIVE, mode |-> INT]
                                    ELSE [ch |-> 1, op |-> RECEIVE, mode |-> POLL]]

\* One of each: an interrupt-mode receiver on channel 0, a poll-mode one on
\* channel 1 and a sender on channel 2.
MCMixedThreads == {s1, r1, r2}
MCMixedHandle ==
  [t \in MCMixedThreads |->
     CASE t = s1 -> [ch |-> 2, op |-> SEND, mode |-> POLL]
       [] t = r1 -> [ch |-> 0, op |-> RECEIVE, mode |-> INT]
       [] t = r2 -> [ch |-> 1, op |-> RECEIVE, mode |-> POLL]]

\* A single interrupt-mode receiver on channel 0.
MCIntThreads == {r1}
MCIntHandle == [t \in MCIntThreads |-> [ch |-> 0, op |-> RECEIVE, mode |-> INT]]

\* A single poll-mode receiver on channel 1.
MCPollThreads == {r2}
MCPollHandle == [t \in MCPollThreads |-> [ch |-> 1, op |-> RECEIVE, mode |-> POLL]]
==============================================================================
