------------------------------ MODULE MarvellIpc ------------------------------
(***************************************************************************)
(* The Marvell IPC block driver (src/marvell-ipc-driver/ipc_driver.c) and  *)
(* its sysfs client ipc_iface (the second file of ipc_api.h).              *)
(*                                                                         *)
(* Each probed device has a list of open ports guarded by the global       *)
(* semaphore list_sem, a tx_ready semaphore serialising senders, a         *)
(* tx_done semaphore the interrupt handler ups on an acknowledge, and one  *)
(* interrupt line requested with the first open port.  Received commands   *)
(* are copied by the handler into ONE static recv_data, shared by all      *)
(* devices, and handed to the work function non_isr_recv, which looks the  *)
(* port up, calls its callback and writes the acknowledge back to the     *)
(* remote side of recv_data.device.                                        *)
(*                                                                         *)
(* Every list_sem critical section is one atomic step; a down() on the    *)
(* tx semaphores is a guard.  The remote processor of each device is the  *)
(* environment: it sends commands one at a time, waiting for their        *)
(* acknowledge, and acknowledges ours.  Messages are ids <<sender, n>>.    *)
(***************************************************************************)
EXTENDS Integers, Sequences, FiniteSets

CONSTANTS
  Devices,     \* instance ids of the probed devices
  Clients,     \* threads calling the API (ipc_iface's sysfs writers)
  Targets,     \* <<device, port number>> pairs clients attach to
  PortNums,    \* port numbers the remote processors address
  AckTypes,    \* values a remote writes into the 2-bit ack field
  MaxHandles,  \* port records kmalloc'd over a behaviour
  MaxOps,      \* API calls per client
  MaxRecv,     \* commands each remote processor sends
  AllocFails,  \* whether kmalloc may return NULL
  IrqFails     \* whether request_irq may fail

ASSUME /\ Targets \subseteq Devices \X PortNums
       /\ AckTypes \subseteq 1 .. 3
       /\ MaxHandles \in Nat /\ MaxOps \in Nat /\ MaxRecv \in Nat

ACK_MSG_PROCESSED == 3
ACK_MSG_DISCARDED == 2
NoDev == -1          \* recv_data.device after the memset: NULL
NoHandle == 0        \* a NULL port pointer
None == <<>>         \* an empty register or no message
Handles == 1 .. MaxHandles
ZeroRecv == [dev |-> NoDev, port |-> 0, msg |-> None]

VARIABLES
  cpc, want, hnd, ops, mine,          \* clients
  nextH, plist, pnum, live,           \* port records and open_ports lists
  openCount, irqOn,                   \* open_count, the requested irq
  txReady, txDone, ackType,           \* the tx semaphores and ack_type
  outCmd, iirAck, iirCmd,             \* hardware registers
  isrPc, isrIir,                      \* irq_handler, per device
  recv, wqPending, wk, wkPort, wkAck, \* recv_data and non_isr_recv
  rOut, rSeq, rIn,                    \* the remote processors
  txLast, rLast, callLast             \* the last result, ack and callback

clientVars == <<cpc, want, hnd, ops, mine>>
portVars == <<nextH, plist, pnum, live, openCount, irqOn>>
txVars == <<txReady, txDone, ackType>>
hwVars == <<outCmd, iirAck, iirCmd>>
isrVars == <<isrPc, isrIir>>
wkVars == <<recv, wqPending, wk, wkPort, wkAck>>
remVars == <<rOut, rSeq, rIn>>
logVars == <<txLast, rLast, callLast>>
vars == <<clientVars, portVars, txVars, hwVars, isrVars, wkVars, remVars, logVars>>

DevOf(c) == want[c][1]
\* The first port of device d's list with number p (list_for_each_entry).
FirstPort(d, p) ==
  LET hs == {i \in DOMAIN plist[d] : pnum[plist[d][i]] = p}
  IN IF hs = {} THEN NoHandle ELSE plist[d][CHOOSE i \in hs : \A j \in hs : i <= j]

\* find_device_port (lines 139-172): a scan of the list under list_sem.
FindDevicePort(d, p) == IF d \in Devices THEN FirstPort(d, p) ELSE NoHandle

RemoveAt(s, i) == [j \in 1 .. Len(s) - 1 |-> IF j < i THEN s[j] ELSE s[j + 1]]

-----------------------------------------------------------------------------
(* ipc_attach (lines 262-306), called by port_export_set.  The port is     *)
(* looked up under list_sem, then list_sem is taken again for the insert: *)
(* nothing between the two stops another attach of the same port.        *)
AttachFind(c) ==
  /\ cpc[c] = "idle" /\ ops[c] < MaxOps
  /\ \E t \in Targets :
       /\ want' = [want EXCEPT ![c] = t]
       /\ cpc' = [cpc EXCEPT ![c] = IF FindDevicePort(t[1], t[2]) = NoHandle
                                      THEN "att_insert" ELSE "idle"]
  /\ ops' = [ops EXCEPT ![c] = @ + 1]
  /\ UNCHANGED <<hnd, mine, portVars, txVars, hwVars, isrVars, wkVars, remVars, logVars>>

(* Under list_sem: kmalloc the record, add it at the tail, request the    *)
(* irq for the first open port (its result is ignored) and count it.     *)
AttachInsert(c) ==
  LET d == DevOf(c) IN
  /\ cpc[c] = "att_insert"
  /\ \/ /\ AllocFails
        /\ cpc' = [cpc EXCEPT ![c] = "idle"]
        /\ UNCHANGED <<hnd, portVars>>
     \/ /\ nextH <= MaxHandles
        /\ cpc' = [cpc EXCEPT ![c] = "attached"]
        /\ hnd' = [hnd EXCEPT ![c] = nextH]
        /\ nextH' = nextH + 1
        /\ plist' = [plist EXCEPT ![d] = Append(@, nextH)]
        /\ pnum' = [pnum EXCEPT ![nextH] = want[c][2]]
        /\ live' = live \cup {nextH}
        /\ openCount' = [openCount EXCEPT ![d] = @ + 1]
        /\ \E ok \in IF IrqFails THEN BOOLEAN ELSE {TRUE} :
             irqOn' = [irqOn EXCEPT ![d] = IF openCount[d] = 0 THEN ok ELSE @]
  /\ UNCHANGED <<want, ops, mine, txVars, hwVars, isrVars, wkVars, remVars, logVars>>

(* ipc_detach (lines 309-358), called by port_unexport_set: under         *)
(* list_sem the first port with the handle's number is unlinked and       *)
(* freed, and the last one frees the irq, which waits for a running      *)
(* handler of that line.                                                   *)
\* A detach that forgets free_irq.
FreeIrqNoop(d) == irqOn

FreeIrq(d) == [irqOn EXCEPT ![d] = FALSE]

Detach(c) ==
  LET d == DevOf(c)
      h == FirstPort(d, pnum[hnd[c]])
      i == CHOOSE j \in DOMAIN plist[d] : plist[d][j] = h
  IN /\ cpc[c] = "attached"
     /\ \/ /\ h = NoHandle
           /\ UNCHANGED portVars
        \/ /\ h # NoHandle
           /\ openCount[d] = 1 => isrPc[d] = "idle"
           /\ plist' = [plist EXCEPT ![d] = RemoveAt(@, i)]
           /\ live' = live \ {h}
           /\ openCount' = [openCount EXCEPT ![d] = @ - 1]
           /\ irqOn' = IF openCount[d] = 1 THEN FreeIrq(d) ELSE irqOn
           /\ UNCHANGED <<nextH, pnum>>
     /\ cpc' = [cpc EXCEPT ![c] = "idle"]
     /\ hnd' = [hnd EXCEPT ![c] = NoHandle]
     /\ UNCHANGED <<want, ops, mine, txVars, hwVars, isrVars, wkVars, remVars, logVars>>

\* A send that does not take tx_ready.
SendPostNoReady(c) ==
  LET d == DevOf(c) IN
  /\ cpc[c] = "attached" /\ ops[c] < MaxOps
  /\ outCmd' = [outCmd EXCEPT ![d] = <<c, ops[c]>>]
  /\ mine' = [mine EXCEPT ![c] = <<c, ops[c]>>]
  /\ ops' = [ops EXCEPT ![c] = @ + 1]
  /\ cpc' = [cpc EXCEPT ![c] = "tx_done"]
  /\ UNCHANGED <<want, hnd, portVars, txVars, iirAck, iirCmd, isrVars,
                 wkVars, remVars, logVars>>

(* ipc_send (lines 361-402), called by port_write: down(tx_ready), the    *)
(* two data writes and the command bit with the port number.              *)
SendPost(c) ==
  LET d == DevOf(c) IN
  /\ cpc[c] = "attached" /\ ops[c] < MaxOps
  /\ txReady[d] > 0
  /\ txReady' = [txReady EXCEPT ![d] = @ - 1]
  /\ outCmd' = [outCmd EXCEPT ![d] = <<c, ops[c]>>]
  /\ mine' = [mine EXCEPT ![c] = <<c, ops[c]>>]
  /\ ops' = [ops EXCEPT ![c] = @ + 1]
  /\ cpc' = [cpc EXCEPT ![c] = "tx_done"]
  /\ UNCHANGED <<want, hnd, portVars, txDone, ackType, iirAck, iirCmd, isrVars,
                 wkVars, remVars, logVars>>

\* The result ipc_send derives from ack_type (lines 385-396).
ResultOf(t) ==
  CASE t = ACK_MSG_PROCESSED -> "e_IPC_SUCCESS"
    [] t = ACK_MSG_DISCARDED -> "e_IPC_NO_LISTENER"
    [] OTHER -> "e_IPC_ERROR"

\* down(tx_done), the result from ack_type, up(tx_ready).
SendDone(c) ==
  LET d == DevOf(c) IN
  /\ cpc[c] = "tx_done"
  /\ txDone[d] > 0
  /\ txDone' = [txDone EXCEPT ![d] = @ - 1]
  /\ txLast' = [txLast EXCEPT ![c] = <<mine[c], ackType[d].msg, ResultOf(ackType[d].type)>>]
  /\ txReady' = [txReady EXCEPT ![d] = @ + 1]
  /\ cpc' = [cpc EXCEPT ![c] = "attached"]
  /\ UNCHANGED <<want, hnd, ops, mine, portVars, ackType, hwVars, isrVars, wkVars,
                 remVars, rLast, callLast>>

-----------------------------------------------------------------------------
(***************************************************************************)
(* irq_handler (lines 221-260), one instance per device's line.            *)
(***************************************************************************)

\* A handler that ups tx_done on every interrupt, not only on an acknowledge.
IsrEnterUpAlways(d) ==
  /\ irqOn[d] /\ isrPc[d] = "idle"
  /\ iirAck[d] # None \/ iirCmd[d] # None
  /\ isrIir' = [isrIir EXCEPT ![d] = <<iirAck[d], iirCmd[d]>>]
  /\ ackType' = IF iirAck[d] # None THEN [ackType EXCEPT ![d] = iirAck[d]] ELSE ackType
  /\ txDone' = [txDone EXCEPT ![d] = @ + 1]
  /\ isrPc' = [isrPc EXCEPT ![d] = IF iirAck[d] # None THEN "ack_clear" ELSE "memset"]
  /\ UNCHANGED <<clientVars, portVars, txReady, hwVars, wkVars, remVars, logVars>>

(* Entry: the dummy write and the read of IPC_IIR.  An acknowledge sets   *)
(* ack_type and ups tx_done (lines 229-233); its bits are cleared only in *)
(* the next step.                                                         *)
IsrEnter(d) ==
  /\ irqOn[d] /\ isrPc[d] = "idle"
  /\ iirAck[d] # None \/ iirCmd[d] # None
  /\ isrIir' = [isrIir EXCEPT ![d] = <<iirAck[d], iirCmd[d]>>]
  /\ IF iirAck[d] # None
       THEN /\ ackType' = [ackType EXCEPT ![d] = iirAck[d]]
            /\ txDone' = [txDone EXCEPT ![d] = @ + 1]
            /\ isrPc' = [isrPc EXCEPT ![d] = "ack_clear"]
       ELSE /\ isrPc' = [isrPc EXCEPT ![d] = "memset"]
            /\ UNCHANGED <<ackType, txDone>>
  /\ UNCHANGED <<clientVars, portVars, txReady, hwVars, wkVars, remVars, logVars>>

\* Clear the acknowledge bits in IPC_ICR (line 235), then the command part.
IsrAckClear(d) ==
  /\ isrPc[d] = "ack_clear"
  /\ iirAck' = [iirAck EXCEPT ![d] = None]
  /\ isrPc' = [isrPc EXCEPT ![d] = IF isrIir[d][2] # None THEN "memset" ELSE "idle"]
  /\ UNCHANGED <<clientVars, portVars, txVars, outCmd, iirCmd, isrIir, wkVars,
                 remVars, logVars>>

(* The data registers are read and the shared recv_data is zeroed (lines *)
(* 242-245), whatever work is queued on it.  The INIT_WORK of line 246 is  *)
(* left out: on an item still queued it clears the pending bit, and the    *)
(* queue_work of line 256 would link the item a second time, a list        *)
(* corruption the model does not represent; wqPending keeps it queued     *)
(* once.                                                                   *)
IsrMemset(d) ==
  /\ isrPc[d] = "memset"
  /\ recv' = ZeroRecv
  /\ isrPc' = [isrPc EXCEPT ![d] = "fill"]
  /\ UNCHANGED <<clientVars, portVars, txVars, hwVars, isrIir, wqPending, wk, wkPort,
                 wkAck, remVars, logVars>>

(* recv_data is filled from the registers and IPC_IIR, the command bits   *)
(* are cleared and the work is queued (lines 248-256).                    *)
IsrFill(d) ==
  /\ isrPc[d] = "fill"
  /\ recv' = [dev |-> d, port |-> isrIir[d][2].port, msg |-> isrIir[d][2].msg]
  /\ iirCmd' = [iirCmd EXCEPT ![d] = None]
  /\ wqPending' = TRUE
  /\ isrPc' = [isrPc EXCEPT ![d] = "idle"]
  /\ UNCHANGED <<clientVars, portVars, txVars, outCmd, iirAck, isrIir, wk, wkPort,
                 wkAck, remVars, logVars>>

-----------------------------------------------------------------------------
(***************************************************************************)
(* non_isr_recv (lines 174-219) on the driver's workqueue.  A work item   *)
(* is not run twice at once; queued again while it runs, it runs again.   *)
(* Every field is read from recv_data when the code reads it.             *)
(***************************************************************************)
WorkStart ==
  /\ wqPending /\ wk = "idle"
  /\ wqPending' = FALSE
  /\ wk' = "find"
  /\ UNCHANGED <<clientVars, portVars, txVars, hwVars, isrVars, recv, wkPort, wkAck,
                 remVars, logVars>>

(* device_is_valid(data->device), then find_device_port with              *)
(* data->port_number: a port found means ACK_MSG_PROCESSED.               *)
WorkFind ==
  LET h == FindDevicePort(recv.dev, recv.port) IN
  /\ wk = "find"
  /\ wkPort' = h
  /\ wkAck' = IF h # NoHandle THEN ACK_MSG_PROCESSED ELSE ACK_MSG_DISCARDED
  /\ wk' = IF h # NoHandle THEN "call" ELSE "ack"
  /\ UNCHANGED <<clientVars, portVars, txVars, hwVars, isrVars, recv, wqPending,
                 remVars, logVars>>

(* port->recv_callback with data->cmd, data->buffer and data->len, after  *)
(* list_sem was released: the port may have been detached and freed.     *)
WorkCall ==
  /\ wk = "call"
  /\ callLast' = <<wkPort, wkPort \in live, recv.msg>>
  /\ wk' = "ack"
  /\ UNCHANGED <<clientVars, portVars, txVars, hwVars, isrVars, recv, wqPending,
                 wkPort, wkAck, remVars, txLast, rLast>>

(* The acknowledge to data->device's IPC_ISRW (line 216).  With           *)
(* data->device NULL the write dereferences NULL: the worker oopses.     *)
WorkAck ==
  /\ wk = "ack"
  /\ IF recv.dev = NoDev
       THEN /\ wk' = "oops"
            /\ UNCHANGED rIn
       ELSE /\ rIn' = [rIn EXCEPT ![recv.dev] = [type |-> wkAck, msg |-> recv.msg]]
            /\ wk' = "idle"
  /\ UNCHANGED <<clientVars, portVars, txVars, hwVars, isrVars, recv, wqPending,
                 wkPort, wkAck, rOut, rSeq, logVars>>

-----------------------------------------------------------------------------
(***************************************************************************)
(* The remote processor of each device (the environment).                  *)
(***************************************************************************)

\* It sends a command to a port and waits for the acknowledge.
RemoteSend(d) ==
  /\ rOut[d] = None /\ iirCmd[d] = None /\ rSeq[d] < MaxRecv
  /\ \E p \in PortNums :
       iirCmd' = [iirCmd EXCEPT ![d] = [port |-> p, msg |-> <<d, rSeq[d]>>]]
  /\ rOut' = [rOut EXCEPT ![d] = <<d, rSeq[d]>>]
  /\ rSeq' = [rSeq EXCEPT ![d] = @ + 1]
  /\ UNCHANGED <<clientVars, portVars, txVars, outCmd, iirAck, isrVars, wkVars, rIn,
                 logVars>>

\* It serves our command and acknowledges it with some ack type.
RemoteAckSend(d) ==
  /\ outCmd[d] # None
  /\ \E t \in AckTypes : iirAck' = [iirAck EXCEPT ![d] = [type |-> t, msg |-> outCmd[d]]]
  /\ outCmd' = [outCmd EXCEPT ![d] = None]
  /\ UNCHANGED <<clientVars, portVars, txVars, iirCmd, isrVars, wkVars, remVars, logVars>>

\* It takes an acknowledge as the answer to the command it has outstanding.
RemoteTakeAck(d) ==
  /\ rIn[d] # None
  /\ rLast' = [rLast EXCEPT ![d] = <<rOut[d], rIn[d].msg>>]
  /\ rOut' = [rOut EXCEPT ![d] = None]
  /\ rIn' = [rIn EXCEPT ![d] = None]
  /\ UNCHANGED <<clientVars, portVars, txVars, hwVars, isrVars, wkVars, rSeq, txLast,
                 callLast>>

-----------------------------------------------------------------------------
(* ipc_driver_init and ipc_platform_probe (lines 405-475, 545-572): every *)
(* device probed with no open port, tx_ready 1 and tx_done 0; recv_data   *)
(* is static and zero.                                                     *)
Init ==
  /\ cpc = [c \in Clients |-> "idle"]
  /\ want = [c \in Clients |-> CHOOSE t \in Targets : TRUE]
  /\ hnd = [c \in Clients |-> NoHandle]
  /\ ops = [c \in Clients |-> 0]
  /\ mine = [c \in Clients |-> None]
  /\ nextH = 1
  /\ plist = [d \in Devices |-> <<>>]
  /\ pnum = [h \in Handles |-> 0]
  /\ live = {}
  /\ openCount = [d \in Devices |-> 0]
  /\ irqOn = [d \in Devices |-> FALSE]
  /\ txReady = [d \in Devices |-> 1]
  /\ txDone = [d \in Devices |-> 0]
  /\ ackType = [d \in Devices |-> [type |-> 0, msg |-> None]]
  /\ outCmd = [d \in Devices |-> None]
  /\ iirAck = [d \in Devices |-> None]
  /\ iirCmd = [d \in Devices |-> None]
  /\ isrPc = [d \in Devices |-> "idle"]
  /\ isrIir = [d \in Devices |-> <<None, None>>]
  /\ recv = ZeroRecv
  /\ wqPending = FALSE
  /\ wk = "idle"
  /\ wkPort = NoHandle
  /\ wkAck = ACK_MSG_DISCARDED
  /\ rOut = [d \in Devices |-> None]
  /\ rSeq = [d \in Devices |-> 0]
  /\ rIn = [d \in Devices |-> None]
  /\ txLast = [c \in Clients |-> None]
  /\ rLast = [d \in Devices |-> None]
  /\ callLast = None

ClientStep(c) ==
  AttachFind(c) \/ AttachInsert(c) \/ Detach(c) \/ SendPost(c) \/ SendDone(c)

IsrStep(d) == IsrEnter(d) \/ IsrAckClear(d) \/ IsrMemset(d) \/ IsrFill(d)

WorkStep == WorkStart \/ WorkFind \/ WorkCall \/ WorkAck

Next ==
  \/ \E c \in Clients : ClientStep(c)
  \/ \E d \in Devices : IsrStep(d)
  \/ WorkStep
  \/ \E d \in Devices : RemoteSend(d) \/ RemoteAckSend(d) \/ RemoteTakeAck(d)

(* The handler runs once its line is raised, the worker once its item is *)
(* queued, and the remote serves commands and acknowledges; a sender      *)
(* blocked in down(tx_done) wakes once it is upped.  Clients may stop.    *)
Fairness ==
  /\ \A d \in Devices : WF_vars(IsrStep(d)) /\ WF_vars(RemoteAckSend(d))
                        /\ WF_vars(RemoteTakeAck(d))
  /\ WF_vars(WorkStep)
  /\ \A c \in Clients : WF_vars(SendDone(c))

Spec == Init /\ [][Next]_vars /\ Fairness

-----------------------------------------------------------------------------
TypeOK ==
  /\ cpc \in [Clients -> {"idle", "att_insert", "attached", "tx_done"}]
  /\ want \in [Clients -> Targets]
  /\ hnd \in [Clients -> Handles \cup {NoHandle}]
  /\ ops \in [Clients -> 0 .. MaxOps]
  /\ nextH \in 1 .. MaxHandles + 1
  /\ plist \in [Devices -> Seq(Handles)]
  /\ live \subseteq Handles
  /\ openCount \in [Devices -> Nat]
  /\ irqOn \in [Devices -> BOOLEAN]
  /\ txReady \in [Devices -> 0 .. 1]
  /\ txDone \in [Devices -> 0 .. 1]
  /\ isrPc \in [Devices -> {"idle", "ack_clear", "memset", "fill"}]
  /\ wk \in {"idle", "find", "call", "ack", "oops"}
  /\ wkAck \in {ACK_MSG_PROCESSED, ACK_MSG_DISCARDED}

(* Interrupt line and open ports agree: a device's irq is requested       *)
(* exactly while it has an open port, ipc_attach requesting it for the   *)
(* first port and ipc_detach freeing it with the last, whatever the      *)
(* order of attaches and detaches of several clients.                    *)
IrqWhileOpen ==
  \A d \in Devices : /\ openCount[d] = Len(plist[d])
                     /\ irqOn[d] <=> openCount[d] > 0

(* Every ipc_send returns the acknowledge of its own command: ack_type as *)
(* read after down(tx_done) was set by the remote's answer to the command *)
(* this call wrote, not by an earlier or a later one.                    *)
SendGetsOwnAck == \A c \in Clients : txLast[c] # None => txLast[c][1] = txLast[c][2]

(* Every acknowledge non_isr_recv writes to a remote processor answers    *)
(* the command that processor has outstanding.                           *)
RemoteAckMatches ==
  \A d \in Devices : rLast[d] # None => rLast[d][1] # None /\ rLast[d][1] = rLast[d][2]

(* Every ipc_send returns: a sender in down(tx_done) is woken.           *)
SendReturns == \A c \in Clients : cpc[c] = "tx_done" ~> cpc[c] = "attached"

(* A port's callback is only called while the port is attached.           *)
CallbackOnLivePort == callLast # None => callLast[2]

(* No port record is used after ipc_detach has kfree'd it: the handle an  *)
(* attached client holds is a live record, and non_isr_recv calls the     *)
(* callback of a live record.  ipc_detach frees the first record with the *)
(* handle's port number, which after two attaches of one port may be      *)
(* another client's, and non_isr_recv calls the callback after list_sem   *)
(* is released.                                                           *)
PortInUseIsLive ==
  /\ \A c \in Clients : cpc[c] \in {"attached", "tx_done"} => hnd[c] \in live
  /\ CallbackOnLivePort
=============================================================================
