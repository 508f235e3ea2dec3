------------------------------ MODULE IpcTransfer ------------------------------
(***************************************************************************)
(* The transfer protocol between the A7 and one DSP partner               *)
(* (src/IPC-driver/columbus_ipc.c: columbus_ipc_send_message, lines       *)
(* 763-891; columbus_ipc_receive_message, lines 903-1013;                  *)
(* columbus_ipc_irq_handler, lines 1571-1634).                             *)
(*                                                                         *)
(* A7 threads each hold a channel handle (a slot of the partner's table,   *)
(* exclusive by ChannelTable) and send or receive on it.  The registers    *)
(* of one direction are shared by all channels of the partner:            *)
(*   A7 -> DSP: header A7TOxxIPCCOMM/ADDR/DATA0/DATA1 (hdrOut), the        *)
(*              pending bits A7TOxxIPCSET/FLG (flagOut), cleared by the    *)
(*              DSP's acknowledgement;                                     *)
(*   DSP -> A7: header xxTOA7IPCCOMM/ADDR/DATA0/DATA1 (hdrIn), the status  *)
(*              bits xxTOA7IPCSTS (sts), cleared by the A7 writing        *)
(*              xxTOA7IPCACK, and one interrupt line per channel below    *)
(*              IPC_IRQ_CHANNEL_NUM.                                       *)
(* The DSP's firmware is not in this repository: it is modelled from the  *)
(* spec and the driver's comments as the mirror of the A7 side.  It       *)
(* serves a pending bit by reading the header, copying the page it names  *)
(* and acknowledging; it sends one message at a time and sends the next   *)
(* only once the A7 has cleared the status bit of the previous one.        *)
(* The page allocator is abstracted to a pool of pages (SramAlloc checks   *)
(* the allocator itself).                                                  *)
(***************************************************************************)
EXTENDS Integers, FiniteSets, Bags

CONSTANTS
  Threads,     \* A7 threads, each with a fixed handle
  Handle,      \* Handle[t] = [ch |-> slot, op |-> SEND/RECEIVE, mode |-> INT/POLL]
  NIrq,        \* IPC_IRQ_CHANNEL_NUM: channels with an interrupt line
  Chans,       \* the channel numbers in play
  DspChans,    \* channels the DSP sends on
  Pages,       \* pages of the shared RAM the senders can get
  MaxMsgs,     \* messages each A7 sender and each DSP channel sends
  KmallocFails \* whether the receive path's kmalloc may fail

SEND == 0
RECEIVE == 1
INT == 0
POLL == 1
NoPage == -1
NoMsg == <<>>

ASSUME /\ Handle \in [Threads -> [ch : Chans, op : {SEND, RECEIVE}, mode : {INT, POLL}]]
       /\ \A t \in Threads : Handle[t].mode = INT => Handle[t].ch < NIrq
       /\ \A t, u \in Threads : t # u => Handle[t].ch # Handle[u].ch
       /\ DspChans \subseteq Chans
       /\ MaxMsgs \in Nat \ {0}
       /\ KmallocFails \in BOOLEAN

Senders == {t \in Threads : Handle[t].op = SEND}
Receivers == {t \in Threads : Handle[t].op = RECEIVE}
Ch(t) == Handle[t].ch

(* Messages: <<"a7", t, k>> is the k-th message of A7 thread t,           *)
(* <<"dsp", c, k>> the k-th message the DSP sends on channel c.            *)
A7Msgs == {"a7"} \X Threads \X (0 .. MaxMsgs - 1)
DspMsgs == {"dsp"} \X DspChans \X (0 .. MaxMsgs - 1)

VARIABLES
  pc,        \* where each A7 thread is in send / receive
  seq,       \* messages each A7 sender has sent so far
  page,      \* the page a sender has allocated, or NoPage
  alloc,     \* pages the A7 owns (the abstract allocator)
  sram,      \* sram[p]: the message last copied into page p
  hdrOut,    \* A7 -> DSP header registers: [page, live] of the last writer
  flagOut,   \* A7 -> DSP pending bits
  dspGot,    \* what the DSP read: <<channel, message, page still owned>>
  hdrIn,     \* DSP -> A7 header registers: the message they describe
  sts,       \* DSP -> A7 status bits
  irqOn,     \* interrupt line enabled (enable_irq / disable_irq)
  inIsr,     \* the handler of the line is running
  done,      \* the completion count of ipc_irq[].irq_done
  dspSeq,    \* messages the DSP has sent on each channel
  dspPend,   \* the DSP message waiting for the A7's acknowledgement
  dspAcked,  \* DSP messages the DSP saw acknowledged
  a7Got      \* what A7 receivers returned: a bag of <<channel, message>>

vars == <<pc, seq, page, alloc, sram, hdrOut, flagOut, dspGot, hdrIn, sts,
          irqOn, inIsr, done, dspSeq, dspPend, dspAcked, a7Got>>

-----------------------------------------------------------------------------
(***************************************************************************)
(* columbus_ipc_send_message                                               *)
(***************************************************************************)

(* ipc_sram_alloc, then memset/memcpy of the message into the page        *)
(* (lines 788-798).  The allocator may return NULL whatever the A7 holds,  *)
(* the DSPs owning pages too: the call then returns -ENOSPC (line 792).    *)
SendAlloc(t) ==
  /\ pc[t] = "idle" /\ t \in Senders /\ seq[t] < MaxMsgs
  /\ \/ UNCHANGED <<pc, page, alloc, sram>>
     \/ \E p \in Pages \ alloc :
          /\ pc' = [pc EXCEPT ![t] = "hdr"]
          /\ page' = [page EXCEPT ![t] = p]
          /\ alloc' = alloc \cup {p}
          /\ sram' = [sram EXCEPT ![p] = <<"a7", t, seq[t]>>]
  /\ UNCHANGED <<seq, hdrOut, flagOut, dspGot, hdrIn, sts, irqOn, inIsr, done,
                 dspSeq, dspPend, dspAcked, a7Got>>

(* The four header writes: IPC_DATA_READ, the page's address, the length  *)
(* and page_num | IPC_END_MSG << 16 (lines 800-852).  No lock guards them  *)
(* against another sender to the same partner.                            *)
SendHeader(t) ==
  /\ pc[t] = "hdr"
  /\ hdrOut' = page[t]
  /\ pc' = [pc EXCEPT ![t] = "notify"]
  /\ UNCHANGED <<seq, page, alloc, sram, flagOut, dspGot, hdrIn, sts, irqOn,
                 inIsr, done, dspSeq, dspPend, dspAcked, a7Got>>

\* notify_partner: set the channel's bit through A7TOxxIPCSET (line 865).
NotifyPartner(t) ==
  /\ pc[t] = "notify"
  /\ flagOut' = [flagOut EXCEPT ![Ch(t)] = TRUE]
  /\ pc' = [pc EXCEPT ![t] = "wait_ack"]
  /\ UNCHANGED <<seq, page, alloc, sram, hdrOut, dspGot, hdrIn, sts, irqOn,
                 inIsr, done, dspSeq, dspPend, dspAcked, a7Got>>

\* A loop that exits at once, not waiting for the DSP.
SendAckedNoWait(t) == TRUE

\* A loop that never re-reads the register: ipc_flag keeps 1 << channel_num.
SendAckedStale(t) == FALSE

(* The busy-wait of lines 874-882: ipc_flag is the whole A7TOxxIPCFLG      *)
(* register, so the loop ends only when no channel's bit is set.           *)
SendAcked(t) == \A c \in Chans : ~flagOut[c]

SendWait(t) ==
  /\ pc[t] = "wait_ack"
  /\ SendAcked(t)
  /\ pc' = [pc EXCEPT ![t] = "ack"]
  /\ UNCHANGED <<seq, page, alloc, sram, hdrOut, flagOut, dspGot, hdrIn, sts,
                 irqOn, inIsr, done, dspSeq, dspPend, dspAcked, a7Got>>

(* The write of the channel's bit to ack_offset, which is xxTOA7IPCACK:    *)
(* the acknowledge register of the DSP -> A7 direction (line 884).         *)
SendAckWrite(t) ==
  /\ pc[t] = "ack"
  /\ sts' = [sts EXCEPT ![Ch(t)] = FALSE]
  /\ pc' = [pc EXCEPT ![t] = "free"]
  /\ UNCHANGED <<seq, page, alloc, sram, hdrOut, flagOut, dspGot, hdrIn, irqOn,
                 inIsr, done, dspSeq, dspPend, dspAcked, a7Got>>

\* ipc_sram_free of the page and return len (lines 888-890).
SendFree(t) ==
  /\ pc[t] = "free"
  /\ alloc' = alloc \ {page[t]}
  /\ page' = [page EXCEPT ![t] = NoPage]
  /\ seq' = [seq EXCEPT ![t] = @ + 1]
  /\ pc' = [pc EXCEPT ![t] = "idle"]
  /\ UNCHANGED <<sram, hdrOut, flagOut, dspGot, hdrIn, sts, irqOn, inIsr, done,
                 dspSeq, dspPend, dspAcked, a7Got>>

-----------------------------------------------------------------------------
(***************************************************************************)
(* columbus_ipc_receive_message                                            *)
(***************************************************************************)

\* A receive that does not clear the bit first.
RecvNoAck(t) ==
  /\ pc[t] = "idle" /\ t \in Receivers
  /\ pc' = [pc EXCEPT ![t] = IF Handle[t].mode = INT THEN "arm" ELSE "poll"]
  /\ UNCHANGED <<seq, page, alloc, sram, hdrOut, flagOut, dspGot, hdrIn, sts,
                 irqOn, inIsr, done, dspSeq, dspPend, dspAcked, a7Got>>

\* First, clear the channel's bit through xxTOA7IPCACK (lines 921-927).
RecvAck(t) ==
  /\ pc[t] = "idle" /\ t \in Receivers
  /\ sts' = [sts EXCEPT ![Ch(t)] = FALSE]
  /\ pc' = [pc EXCEPT ![t] = IF Handle[t].mode = INT THEN "arm" ELSE "poll"]
  /\ UNCHANGED <<seq, page, alloc, sram, hdrOut, flagOut, dspGot, hdrIn, irqOn,
                 inIsr, done, dspSeq, dspPend, dspAcked, a7Got>>

\* Interrupt mode: init_completion, then enable_irq (lines 940-943).
RecvArm(t) ==
  /\ pc[t] = "arm"
  /\ done' = [done EXCEPT ![Ch(t)] = 0]
  /\ irqOn' = [irqOn EXCEPT ![Ch(t)] = TRUE]
  /\ pc' = [pc EXCEPT ![t] = "wait_irq"]
  /\ UNCHANGED <<seq, page, alloc, sram, hdrOut, flagOut, dspGot, hdrIn, sts,
                 inIsr, dspSeq, dspPend, dspAcked, a7Got>>

\* A wait that goes on without a completion to consume.
RecvWaitNoBlock(t) ==
  /\ pc[t] = "wait_irq" /\ ~inIsr[Ch(t)]
  /\ done' = [done EXCEPT ![Ch(t)] = @ - 1]
  /\ irqOn' = [irqOn EXCEPT ![Ch(t)] = FALSE]
  /\ pc' = [pc EXCEPT ![t] = "read"]
  /\ UNCHANGED <<seq, page, alloc, sram, hdrOut, flagOut, dspGot, hdrIn, sts,
                 inIsr, dspSeq, dspPend, dspAcked, a7Got>>

(* wait_for_completion, then disable_irq (lines 946-948), which returns   *)
(* only once a running handler of the line has finished.                   *)
RecvWaitIrq(t) ==
  /\ pc[t] = "wait_irq"
  /\ done[Ch(t)] > 0 /\ ~inIsr[Ch(t)]
  /\ done' = [done EXCEPT ![Ch(t)] = @ - 1]
  /\ irqOn' = [irqOn EXCEPT ![Ch(t)] = FALSE]
  /\ pc' = [pc EXCEPT ![t] = "read"]
  /\ UNCHANGED <<seq, page, alloc, sram, hdrOut, flagOut, dspGot, hdrIn, sts,
                 inIsr, dspSeq, dspPend, dspAcked, a7Got>>

(* A poll loop testing ipc_status & channel_num, the channel number       *)
(* instead of its bit.                                                     *)
RecvPollMask(t) ==
  /\ pc[t] = "poll"
  /\ \E c \in Chans : sts[c] /\ (Ch(t) \div 2^c) % 2 = 1
  /\ pc' = [pc EXCEPT ![t] = "read"]
  /\ UNCHANGED <<seq, page, alloc, sram, hdrOut, flagOut, dspGot, hdrIn, sts,
                 irqOn, inIsr, done, dspSeq, dspPend, dspAcked, a7Got>>

\* Poll mode: spin until the channel's status bit is set (lines 958-966).
RecvPoll(t) ==
  /\ pc[t] = "poll"
  /\ sts[Ch(t)]
  /\ pc' = [pc EXCEPT ![t] = "read"]
  /\ UNCHANGED <<seq, page, alloc, sram, hdrOut, flagOut, dspGot, hdrIn, sts,
                 irqOn, inIsr, done, dspSeq, dspPend, dspAcked, a7Got>>

(* Read the four header registers and, for IPC_DATA_READ with the end     *)
(* marker, copy the message out and return it (lines 970-1012).  Without   *)
(* IPC_DATA_READ nothing is copied; a failed kmalloc returns -ENOMEM and   *)
(* drops the message (lines 995-1002).                                     *)
RecvRead(t) ==
  /\ pc[t] = "read"
  /\ \/ a7Got' = IF hdrIn = NoMsg THEN a7Got ELSE a7Got (+) SetToBag({<<Ch(t), hdrIn>>})
     \/ KmallocFails /\ hdrIn # NoMsg /\ UNCHANGED a7Got
  /\ pc' = [pc EXCEPT ![t] = "idle"]
  /\ UNCHANGED <<seq, page, alloc, sram, hdrOut, flagOut, dspGot, hdrIn, sts,
                 irqOn, inIsr, done, dspSeq, dspPend, dspAcked>>

-----------------------------------------------------------------------------
(***************************************************************************)
(* columbus_ipc_irq_handler for a receive channel: the line fires while   *)
(* it is enabled and the status bit is set; the handler completes the     *)
(* channel's completion (line 1625), then clears the status bit through    *)
(* xxTOA7IPCACK (line 1629).                                               *)
(***************************************************************************)
IrqComplete(c) ==
  /\ c < NIrq /\ irqOn[c] /\ sts[c] /\ ~inIsr[c]
  /\ inIsr' = [inIsr EXCEPT ![c] = TRUE]
  /\ done' = [done EXCEPT ![c] = @ + 1]
  /\ UNCHANGED <<pc, seq, page, alloc, sram, hdrOut, flagOut, dspGot, hdrIn, sts,
                 irqOn, dspSeq, dspPend, dspAcked, a7Got>>

IrqAck(c) ==
  /\ inIsr[c]
  /\ inIsr' = [inIsr EXCEPT ![c] = FALSE]
  /\ sts' = [sts EXCEPT ![c] = FALSE]
  /\ UNCHANGED <<pc, seq, page, alloc, sram, hdrOut, flagOut, dspGot, hdrIn,
                 irqOn, done, dspSeq, dspPend, dspAcked, a7Got>>

-----------------------------------------------------------------------------
(***************************************************************************)
(* The DSP (spec-modelled).                                                *)
(***************************************************************************)

(* Serve a pending bit: read the header, copy the page it names (noting   *)
(* whether the A7 still owns it) and acknowledge, which clears the bit.   *)
DspReceive(c) ==
  /\ flagOut[c]
  /\ dspGot' = dspGot \cup {<<c, sram[hdrOut], hdrOut \in alloc>>}
  /\ flagOut' = [flagOut EXCEPT ![c] = FALSE]
  /\ UNCHANGED <<pc, seq, page, alloc, sram, hdrOut, hdrIn, sts, irqOn, inIsr,
                 done, dspSeq, dspPend, dspAcked, a7Got>>

\* Send: write the header registers, then set the channel's status bit.
DspSend(c) ==
  /\ dspPend = NoMsg /\ dspSeq[c] < MaxMsgs
  /\ hdrIn' = <<"dsp", c, dspSeq[c]>>
  /\ sts' = [sts EXCEPT ![c] = TRUE]
  /\ dspPend' = <<"dsp", c, dspSeq[c]>>
  /\ dspSeq' = [dspSeq EXCEPT ![c] = @ + 1]
  /\ UNCHANGED <<pc, seq, page, alloc, sram, hdrOut, flagOut, dspGot, irqOn,
                 inIsr, done, dspAcked, a7Got>>

\* The A7 cleared the status bit: the message counts as delivered.
DspSeeAck ==
  /\ dspPend # NoMsg /\ ~sts[dspPend[2]]
  /\ dspAcked' = dspAcked \cup {dspPend}
  /\ dspPend' = NoMsg
  /\ UNCHANGED <<pc, seq, page, alloc, sram, hdrOut, flagOut, dspGot, hdrIn, sts,
                 irqOn, inIsr, done, dspSeq, a7Got>>

-----------------------------------------------------------------------------
Init ==
  /\ pc = [t \in Threads |-> "idle"]
  /\ seq = [t \in Threads |-> 0]
  /\ page = [t \in Threads |-> NoPage]
  /\ alloc = {}
  /\ sram = [p \in Pages |-> NoMsg]
  /\ hdrOut = CHOOSE p \in Pages : TRUE
  /\ flagOut = [c \in Chans |-> FALSE]
  /\ dspGot = {}
  /\ hdrIn = NoMsg
  /\ sts = [c \in Chans |-> FALSE]
  /\ irqOn = [c \in Chans |-> FALSE]
  /\ inIsr = [c \in Chans |-> FALSE]
  /\ done = [c \in Chans |-> 0]
  /\ dspSeq = [c \in DspChans |-> 0]
  /\ dspPend = NoMsg
  /\ dspAcked = {}
  /\ a7Got = EmptyBag

(* The steps of a call in progress, and a thread's step: a new call, or  *)
(* the next step of the one in progress.                                   *)
InCall(t) ==
  \/ SendHeader(t) \/ NotifyPartner(t) \/ SendWait(t) \/ SendAckWrite(t)
  \/ SendFree(t) \/ RecvArm(t) \/ RecvWaitIrq(t) \/ RecvPoll(t) \/ RecvRead(t)

ThreadStep(t) == SendAlloc(t) \/ RecvAck(t) \/ InCall(t)

Next ==
  \/ \E t \in Threads : ThreadStep(t)
  \/ \E c \in Chans : IrqComplete(c) \/ IrqAck(c) \/ DspReceive(c)
  \/ \E c \in DspChans : DspSend(c)
  \/ DspSeeAck

(* A call in progress that can take its next step eventually does (a     *)
(* busy-wait loop re-reads its register, a woken waiter runs); the        *)
(* handler runs once its line is raised; the DSP serves a pending bit and *)
(* notices an acknowledgement.  Whether a thread calls send or receive     *)
(* again is its caller's choice, and the DSP is not obliged to send: no    *)
(* fairness on SendAlloc, RecvAck or DspSend.  Weak fairness only: a spin  *)
(* loop that samples a register may keep missing a bit that other         *)
(* channels toggle.                                                        *)
Fairness ==
  /\ \A t \in Threads : WF_vars(InCall(t))
  /\ \A c \in Chans : WF_vars(IrqComplete(c)) /\ WF_vars(IrqAck(c))
                   /\ WF_vars(DspReceive(c))
  /\ WF_vars(DspSeeAck)

Spec == Init /\ [][Next]_vars /\ Fairness

-----------------------------------------------------------------------------
TypeOK ==
  /\ pc \in [Threads -> {"idle", "hdr", "notify", "wait_ack", "ack", "free",
                         "arm", "wait_irq", "poll", "read"}]
  /\ seq \in [Threads -> 0 .. MaxMsgs]
  /\ page \in [Threads -> Pages \cup {NoPage}]
  /\ alloc \subseteq Pages
  /\ sram \in [Pages -> A7Msgs \cup {NoMsg}]
  /\ hdrOut \in Pages
  /\ flagOut \in [Chans -> BOOLEAN]
  /\ dspGot \subseteq Chans \X (A7Msgs \cup {NoMsg}) \X BOOLEAN
  /\ hdrIn \in DspMsgs \cup {NoMsg}
  /\ sts \in [Chans -> BOOLEAN] /\ irqOn \in [Chans -> BOOLEAN]
  /\ inIsr \in [Chans -> BOOLEAN] /\ done \in [Chans -> Nat]
  /\ dspSeq \in [DspChans -> 0 .. MaxMsgs]
  /\ dspPend \in DspMsgs \cup {NoMsg}
  /\ dspAcked \subseteq DspMsgs
  /\ IsABag(a7Got) /\ BagToSet(a7Got) \subseteq Chans \X DspMsgs

(* The DSP never copies a page the A7 has already freed: a sender frees    *)
(* its page (line 888) only once the DSP has acknowledged, but the header  *)
(* registers the DSP reads are shared by the senders of all channels and  *)
(* written without a lock (lines 800-852).                                 *)
PageLiveWhenRead == \A e \in dspGot : e[3]

(* A receive on channel c returns a message the DSP sent on c, although    *)
(* the handler acknowledges (line 1629) before the woken receiver reads   *)
(* the shared header registers (lines 970-980).                            *)
ReceivedOnOwnChannel == \A x \in BagToSet(a7Got) : x[2][2] = x[1]

(* A DSP message the A7 has acknowledged is eventually returned by a       *)
(* receive: no acknowledgement (lines 884, 921, 1629) discards a message   *)
(* nobody read.                                                            *)
AckedIsRead ==
  \A m \in DspMsgs :
    m \in dspAcked ~> \E c \in Chans : <<c, m>> \in BagToSet(a7Got)

(* Every send that notified the DSP returns: the busy-wait of lines       *)
(* 874-882 ends once the DSP has acknowledged.                             *)
SendReturns == \A t \in Senders : pc[t] = "wait_ack" ~> pc[t] = "idle"

(* A receive returns once the DSP has signalled a message on its channel  *)
(* after the receive began: the interrupt-mode path clears, re-arms and   *)
(* enables the line in an order that cannot miss the interrupt (lines     *)
(* 921-943), waits for the handler's complete() (line 1625) and for a     *)
(* running handler in disable_irq (line 948); the poll loop (lines        *)
(* 958-966) tests the channel's bit.  A message signalled before the      *)
(* receive began is not covered: the acknowledgement of line 921 drops it *)
(* (AckedIsRead).                                                          *)
ReceiveReturns ==
  \A t \in Receivers :
    (pc[t] \in {"arm", "wait_irq", "poll"} /\ sts[Ch(t)]) ~> pc[t] = "idle"

-----------------------------------------------------------------------------
(***************************************************************************)
(* The refinement mapping onto IpcChannel.  A send call is in progress    *)
(* from its allocation to its return, and counts as delivered once the    *)
(* DSP has copied the call's own message; the DSP's last posted message   *)
(* is what the header registers hold, and a receive returns at RecvRead.  *)
(* Everything else (pending and status bits, interrupts, pages) is        *)
(* hidden: the steps that change only it are stuttering steps of          *)
(* IpcChannel.                                                             *)
(***************************************************************************)
CopiedMsgs == {e[2] : e \in dspGot}

CallState(t) ==
  CASE pc[t] = "idle" -> "idle"
    [] <<"a7", t, seq[t]>> \in CopiedMsgs -> "delivered"
    [] OTHER -> "busy"

Channel == INSTANCE IpcChannel
             WITH ChanOf <- [t \in Threads |-> Ch(t)],
                  call <- [t \in Senders |-> CallState(t)],
                  seq <- [t \in Senders |-> seq[t]],
                  copied <- CopiedMsgs,
                  last <- hdrIn

(* The transfer protocol implements IpcChannel: a send returns only after  *)
(* the DSP has copied that call's message, from the page the call filled   *)
(* (lines 800-890); a receive returns the message the DSP wrote last into *)
(* the header registers (lines 970-980) and never one already returned on *)
(* its channel, so a channel's receives return messages in the order      *)
(* posted, although the acknowledgements at lines 884, 921 and 1629 are    *)
(* shared by all channels of the partner.                                  *)
ChannelRefined == Channel!ASpec
=============================================================================
