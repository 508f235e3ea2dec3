------------------------------- MODULE IpcSysfs -------------------------------
(***************************************************************************)
(* The sysfs / debugfs front-end of the Columbus IPC driver               *)
(* (src/IPC-driver/columbus_ipc.c, lines 143-150 and 1161-1449) over the  *)
(* channel tables.                                                         *)
(*                                                                         *)
(* Five attributes set the globals current_partner, current_operation,   *)
(* current_mode, current_channel and current_page, each write checked     *)
(* against the others' values at that moment and none under a lock.  The  *)
(* binary attribute "message" reads the globals, takes a channel with     *)
(* columbus_ipc_get_channel, sends or receives on it and puts it back.    *)
(* The channel operations are ChannelTable's; the transfer itself is      *)
(* IpcTransfer's and is the "hold" state of the thread here.               *)
(***************************************************************************)
EXTENDS ChannelTable

CONSTANTS
  PartnerIn,   \* integers a user writes to "partner"
  OpIn,        \* ... to "operation"
  ModeIn,      \* ... to "mode"
  ChannelIn,   \* ... to "channel"
  PageIn       \* ... to "page"

VARIABLES
  curPartner,  \* current_partner
  curOp,       \* current_operation
  curMode,     \* current_mode
  curChannel,  \* current_channel
  curPage      \* current_page

sysVars == <<curPartner, curOp, curMode, curChannel, curPage>>
allVars == <<vars, sysVars>>

\* Every request the globals can describe when "message" is used.
SysfsRequests ==
  ({INVALID, RF_DSP, PLC_DSP} \X {INVALID, SEND, RECEIVE} \X {INVALID, INT, POLL}
     \X ({INVALID} \cup ChannelIn))

-----------------------------------------------------------------------------
(* The attribute writers.  A value kstrtoint cannot parse, or one a       *)
(* writer rejects, returns -EINVAL and changes nothing: a stuttering step. *)

\* columbus_ipc_partner_write (lines 1178-1201)
PartnerWrite(v) ==
  /\ v \in {RF_DSP, PLC_DSP}
  /\ curPartner' = v
  /\ UNCHANGED <<vars, curOp, curMode, curChannel, curPage>>

\* columbus_ipc_operation_write (lines 1221-1247)
OperationWrite(v) ==
  /\ v \in {SEND, RECEIVE}
  /\ curOp' = v
  /\ UNCHANGED <<vars, curPartner, curMode, curChannel, curPage>>

\* columbus_ipc_mode_write (lines 1267-1290)
ModeWrite(v) ==
  /\ v \in {INT, POLL}
  /\ curMode' = v
  /\ UNCHANGED <<vars, curPartner, curOp, curChannel, curPage>>

(* columbus_ipc_channel_write (lines 1308-1343): a mode must be set, and  *)
(* the channel must be below that mode's bound; only upper bounds are     *)
(* checked.                                                                *)
ChannelWrite(v) ==
  /\ curMode # INVALID
  /\ ~(curMode = POLL /\ v >= NCh)
  /\ ~(curMode = INT /\ v >= NIrq)
  /\ curChannel' = v
  /\ UNCHANGED <<vars, curPartner, curOp, curMode, curPage>>

\* page_store (lines 1346-1364): any integer is taken.
PageStore(v) ==
  /\ curPage' = v
  /\ UNCHANGED <<vars, curPartner, curOp, curMode, curChannel>>

(* columbus_ipc_message_read (lines 1367-1411) and                        *)
(* columbus_ipc_message_write (lines 1414-1449): get a channel with the   *)
(* globals as they are now.  A NULL handle returns -EINVAL; a handle is   *)
(* used for the transfer and then put back (ChannelTable's hold, put and  *)
(* clear steps).  A read at a non-zero offset returns 0 at once.          *)
SysfsGetChannel(t) ==
  /\ GetChannel(t, <<curPartner, curOp, curMode, curChannel>>)
  /\ UNCHANGED sysVars

MessageRead(t) == SysfsGetChannel(t)

MessageWrite(t) == SysfsGetChannel(t)

-----------------------------------------------------------------------------
\* The globals' initialisers (lines 143-150) and the zeroed tables.
SysfsInit ==
  /\ Init
  /\ curPartner = INVALID /\ curOp = INVALID /\ curMode = INVALID
  /\ curChannel = INVALID /\ curPage = INVALID

SysfsNext ==
  \/ \E v \in PartnerIn : PartnerWrite(v)
  \/ \E v \in OpIn : OperationWrite(v)
  \/ \E v \in ModeIn : ModeWrite(v)
  \/ \E v \in ChannelIn : ChannelWrite(v)
  \/ \E v \in PageIn : PageStore(v)
  \/ \E t \in Threads : MessageRead(t) \/ MessageWrite(t)
  \/ \E t \in Threads : TableStep(t) /\ UNCHANGED sysVars

SysfsSpec == SysfsInit /\ [][SysfsNext]_allVars

=============================================================================
