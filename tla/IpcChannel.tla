------------------------------ MODULE IpcChannel ------------------------------
(***************************************************************************)
(* What the Columbus IPC transfer protocol promises its callers            *)
(* (src/IPC-driver/columbus_ipc.c, columbus_ipc_send_message and           *)
(* columbus_ipc_receive_message), with registers, pages and interrupts    *)
(* abstracted away:                                                        *)
(*   - a send call is synchronous: it returns only after the DSP has       *)
(*     copied exactly the message of that call;                            *)
(*   - a receive returns the message the DSP posted last, if it has not  *)
(*     been returned on the same channel already: a channel's receives    *)
(*     return messages in the order posted, never one twice; messages may *)
(*     be lost (a receive that starts late finds a later one).  It need   *)
(*     not be a message of the receiver's channel, and may then be        *)
(*     returned on its own channel as well: the handler acknowledges      *)
(*     before the receiver reads the shared header registers, which the   *)
(*     DSP may by then have rewritten for another channel (IpcTransfer's  *)
(*     ReceivedOnOwnChannel).                                             *)
(* IpcTransfer implements it under a refinement mapping.                   *)
(***************************************************************************)
EXTENDS Integers, Bags

CONSTANTS
  Senders,     \* threads whose handle sends
  Receivers,   \* threads whose handle receives
  ChanOf,      \* ChanOf[t]: the channel of thread t's handle
  DspChans,    \* channels the DSP sends on
  MaxMsgs      \* messages each sender and each DSP channel sends

VARIABLES
  call,        \* per sender: "idle", "busy" (in a send) or "delivered"
  seq,         \* per sender: calls completed
  copied,      \* A7 messages the DSP has copied
  dspSeq,      \* per DSP channel: messages posted
  last,        \* the message the DSP posted last, or NoMsg
  a7Got        \* what receives returned: a bag of <<channel, message>>

avars == <<call, seq, copied, dspSeq, last, a7Got>>

NoMsg == <<>>

\* The message of sender t's current call, and the k-th DSP message on c.
A7Msg(t) == <<"a7", t, seq[t]>>
DspMsg(c, k) == <<"dsp", c, k>>

AInit ==
  /\ call = [t \in Senders |-> "idle"]
  /\ seq = [t \in Senders |-> 0]
  /\ copied = {}
  /\ dspSeq = [c \in DspChans |-> 0]
  /\ last = NoMsg
  /\ a7Got = EmptyBag

\* A send call starts with a new message.
Call(t) ==
  /\ call[t] = "idle" /\ seq[t] < MaxMsgs
  /\ call' = [call EXCEPT ![t] = "busy"]
  /\ UNCHANGED <<seq, copied, dspSeq, last, a7Got>>

\* The DSP copies the message of the call in progress.
Deliver(t) ==
  /\ call[t] = "busy"
  /\ copied' = copied \cup {A7Msg(t)}
  /\ call' = [call EXCEPT ![t] = "delivered"]
  /\ UNCHANGED <<seq, dspSeq, last, a7Got>>

\* The call returns.
Return(t) ==
  /\ call[t] = "delivered"
  /\ call' = [call EXCEPT ![t] = "idle"]
  /\ seq' = [seq EXCEPT ![t] = @ + 1]
  /\ UNCHANGED <<copied, dspSeq, last, a7Got>>

\* The DSP posts its next message on channel c.
Post(c) ==
  /\ dspSeq[c] < MaxMsgs
  /\ dspSeq' = [dspSeq EXCEPT ![c] = @ + 1]
  /\ last' = DspMsg(c, dspSeq[c])
  /\ UNCHANGED <<call, seq, copied, a7Got>>

\* A receive on t's channel returns the last posted message, once.
Take(t) ==
  /\ last # NoMsg
  /\ <<ChanOf[t], last>> \notin BagToSet(a7Got)
  /\ a7Got' = a7Got (+) SetToBag({<<ChanOf[t], last>>})
  /\ UNCHANGED <<call, seq, copied, dspSeq, last>>

ANext ==
  \/ \E t \in Senders : Call(t) \/ Deliver(t) \/ Return(t)
  \/ \E c \in DspChans : Post(c)
  \/ \E t \in Receivers : Take(t)

ASpec == AInit /\ [][ANext]_avars

=============================================================================
