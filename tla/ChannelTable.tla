----------------------------- MODULE ChannelTable -----------------------------
(***************************************************************************)
(* The channel tables of the Columbus IPC driver                           *)
(* (src/IPC-driver/columbus_ipc.c, lines 99-125 and 460-658).              *)
(*                                                                         *)
(* One table of NCh slots per DSP partner, each guarded by its own mutex   *)
(* (ipc_rf_req_tbl_mutex, ipc_plc_req_tbl_mutex).  columbus_ipc_get_channel *)
(* takes the partner's mutex, lets get_free_channel claim the appointed    *)
(* slot or the first unused one below the mode's bound (NIrq for           *)
(* interrupt mode, NCh for poll mode), unlocks, and only then stamps the   *)
(* slot with its partner, operation, mode and magic words                  *)
(* (set_ipc_channel).  columbus_ipc_put_channel checks the magic words     *)
(* without the lock, then clears the slot under it.                        *)
(***************************************************************************)
EXTENDS Integers, FiniteSets

CONSTANTS
  Threads,     \* kernel threads calling the channel API
  NCh,         \* A7_RF_IPC_CHANNEL_NUM = A7_PLC_IPC_CHANNEL_NUM
  NIrq,        \* IPC_IRQ_CHANNEL_NUM
  Requests,    \* the <<partner, operation, mode, appointed>> callers pass
  Tables,      \* the partners whose tables the callers use
  NoThread     \* model value: a mutex nobody holds

\* the values of misc/columbus_ipc.h (src/unnamed/part_002)
RF_DSP == 0
PLC_DSP == 1
SEND == 0
RECEIVE == 1
INT == 0
POLL == 1
INVALID == -1                  \* COLUMBUS_IPC_INVALID

Partners == {RF_DSP, PLC_DSP}
Slots == 0 .. NCh - 1

ASSUME /\ NIrq \in 1 .. NCh
       /\ Tables \subseteq Partners
       /\ NoThread \notin Threads
       /\ Requests \subseteq Int \X Int \X Int \X Int

VARIABLES
  used,      \* used[pt][i]: the slot's used field
  chan,      \* chan[pt][i]: [op, mode, magic] stamped by set_ipc_channel
  lock,      \* lock[pt]: holder of that partner's table mutex
  pc,        \* where each thread is in get_channel / put_channel
  req,       \* the arguments of the thread's current get_channel
  i,         \* get_free_channel's scan index
  hnd        \* the slot the thread's handle points at, or INVALID

vars == <<used, chan, lock, pc, req, i, hnd>>

\* The arguments of a thread that is in no call.
NoRequest == <<CHOOSE pt \in Tables : TRUE, SEND, POLL, INVALID>>

\* clear_ipc_channel's all-invalid slot (lines 517-526)
Cleared == [op |-> INVALID, mode |-> INVALID, magic |-> FALSE]

PartnerOf(t) == req[t][1]

(* get_lock and get_channels (lines 529-555): the RF mutex and table for   *)
(* the RF partner, the PLC ones for any other value (the IPC_BUG on it is  *)
(* empty).  Both index the tables and mutexes by partner number here.     *)
GetChannels(p) == IF p = RF_DSP THEN RF_DSP ELSE PLC_DSP

\* A get_lock that tests for the PLC partner and takes RF's mutex otherwise.
GetLockPlcFirst(p) == IF p = PLC_DSP THEN PLC_DSP ELSE RF_DSP

GetLockOf(p) == IF p = RF_DSP THEN RF_DSP ELSE PLC_DSP

TableOf(t) == GetChannels(PartnerOf(t))
LockOf(t) == GetLockOf(PartnerOf(t))

ASSUME \A r \in Requests : GetChannels(r[1]) \in Tables
ModeOf(t) == req[t][3]
AppointedOf(t) == req[t][4]

\* get_max_channel (lines 558-570)
GetMaxChannel(mode) == IF mode = INT THEN NIrq ELSE NCh

-----------------------------------------------------------------------------
(* columbus_ipc_get_channel (lines 573-594): its IPC_BUG argument checks   *)
(* are empty in production builds; the thread blocks on the mutex.        *)
GetChannel(t, r) ==
  /\ pc[t] = "idle"
  /\ pc' = [pc EXCEPT ![t] = "get_lock"]
  /\ req' = [req EXCEPT ![t] = r]
  /\ UNCHANGED <<used, chan, lock, i, hnd>>

\* A version of the lock step that does not wait for the mutex.
GetLockNoWait(t) ==
  /\ pc[t] = "get_lock"
  /\ pc' = [pc EXCEPT ![t] = "scan"]
  /\ i' = [i EXCEPT ![t] = 0]
  /\ UNCHANGED <<used, chan, lock, req, hnd>>

\* mutex_lock(plock) (line 594), the scan starting at slot 0
GetLock(t) ==
  /\ pc[t] = "get_lock"
  /\ lock[LockOf(t)] = NoThread
  /\ lock' = [lock EXCEPT ![LockOf(t)] = t]
  /\ pc' = [pc EXCEPT ![t] = "scan"]
  /\ i' = [i EXCEPT ![t] = 0]
  /\ UNCHANGED <<used, chan, req, hnd>>

(* get_free_channel with an appointed slot (lines 479-484): read its used *)
(* field; NULL if it is in use.  An appointed slot outside the table       *)
(* indexes memory next to the table (the IPC_BUG range checks are empty): *)
(* this model has no such memory and treats it as in use.                 *)
CheckAppointed(t) ==
  LET a == AppointedOf(t) IN
  /\ pc[t] = "scan" /\ a # INVALID
  /\ IF a \in Slots /\ ~used[TableOf(t)][a]
     THEN /\ pc' = [pc EXCEPT ![t] = "claim"]
          /\ i' = [i EXCEPT ![t] = a]
     ELSE /\ pc' = [pc EXCEPT ![t] = "get_unlock"]
          /\ UNCHANGED i
  /\ UNCHANGED <<used, chan, lock, req, hnd>>

\* A version of the scan that claims the slot after the free one it read.
ScanSlotOffByOne(t) ==
  /\ pc[t] = "scan" /\ AppointedOf(t) = INVALID
  /\ i[t] < GetMaxChannel(ModeOf(t))
  /\ IF used[TableOf(t)][i[t]]
     THEN /\ i' = [i EXCEPT ![t] = @ + 1]
          /\ UNCHANGED pc
     ELSE /\ pc' = [pc EXCEPT ![t] = "claim"]
          /\ i' = [i EXCEPT ![t] = @ + 1]
  /\ UNCHANGED <<used, chan, lock, req, hnd>>

(* One iteration of the scan for a free slot (lines 490-491): read the     *)
(* slot's used field; go on to the next slot if it is in use.              *)
ScanSlot(t) ==
  /\ pc[t] = "scan" /\ AppointedOf(t) = INVALID
  /\ i[t] < GetMaxChannel(ModeOf(t))
  /\ IF used[TableOf(t)][i[t]]
     THEN /\ i' = [i EXCEPT ![t] = @ + 1]
          /\ UNCHANGED pc
     ELSE /\ pc' = [pc EXCEPT ![t] = "claim"]
          /\ UNCHANGED i
  /\ UNCHANGED <<used, chan, lock, req, hnd>>

(* The slot read as unused is marked used and returned (lines 482-483 and *)
(* 492-493).                                                               *)
ClaimSlot(t) ==
  /\ pc[t] = "claim"
  /\ used' = [used EXCEPT ![TableOf(t)][i[t]] = TRUE]
  /\ hnd' = [hnd EXCEPT ![t] = i[t]]
  /\ pc' = [pc EXCEPT ![t] = "get_unlock"]
  /\ UNCHANGED <<chan, lock, req, i>>

\* A version of the scan that stops one slot short of the bound.
ScanExhaustedEarly(t) ==
  /\ pc[t] = "scan" /\ AppointedOf(t) = INVALID
  /\ i[t] = GetMaxChannel(ModeOf(t)) - 1
  /\ pc' = [pc EXCEPT ![t] = "get_unlock"]
  /\ UNCHANGED <<used, chan, lock, req, i, hnd>>

\* The scan ran off the mode's bound: NULL (line 498).
ScanExhausted(t) ==
  /\ pc[t] = "scan" /\ AppointedOf(t) = INVALID
  /\ i[t] = GetMaxChannel(ModeOf(t))
  /\ pc' = [pc EXCEPT ![t] = "get_unlock"]
  /\ UNCHANGED <<used, chan, lock, req, i, hnd>>

\* A version of the unlock that forgets to unlock when returning NULL.
GetUnlockLeakOnNull(t) ==
  /\ pc[t] = "get_unlock"
  /\ lock' = IF hnd[t] = INVALID THEN lock ELSE [lock EXCEPT ![LockOf(t)] = NoThread]
  /\ pc' = [pc EXCEPT ![t] = IF hnd[t] = INVALID THEN "idle" ELSE "set"]
  /\ req' = IF hnd[t] = INVALID THEN [req EXCEPT ![t] = NoRequest] ELSE req
  /\ i' = [i EXCEPT ![t] = 0]
  /\ UNCHANGED <<used, chan, hnd>>

\* mutex_unlock(plock) (line 598); NULL goes back to the caller.
GetUnlock(t) ==
  /\ pc[t] = "get_unlock"
  /\ lock' = [lock EXCEPT ![LockOf(t)] = NoThread]
  /\ pc' = [pc EXCEPT ![t] = IF hnd[t] = INVALID THEN "idle" ELSE "set"]
  /\ req' = IF hnd[t] = INVALID THEN [req EXCEPT ![t] = NoRequest] ELSE req
  /\ i' = [i EXCEPT ![t] = 0]
  /\ UNCHANGED <<used, chan, hnd>>

\* set_ipc_channel after the unlock (lines 600-601, 501-511).
SetIpcChannel(t) ==
  /\ pc[t] = "set"
  /\ chan' = [chan EXCEPT ![TableOf(t)][hnd[t]] =
                [op |-> req[t][2], mode |-> ModeOf(t), magic |-> TRUE]]
  /\ pc' = [pc EXCEPT ![t] = "hold"]
  /\ UNCHANGED <<used, lock, req, i, hnd>>

(* columbus_ipc_put_channel (lines 609-629): the IPC_BUG checks of the     *)
(* magic words, used, partner, operation and mode, then mutex_lock.        *)
PutChannel(t) ==
  /\ pc[t] = "hold"
  /\ pc' = [pc EXCEPT ![t] = "put_lock"]
  /\ UNCHANGED <<used, chan, lock, req, i, hnd>>

PutLock(t) ==
  /\ pc[t] = "put_lock"
  /\ lock[LockOf(t)] = NoThread
  /\ lock' = [lock EXCEPT ![LockOf(t)] = t]
  /\ pc' = [pc EXCEPT ![t] = "clear"]
  /\ UNCHANGED <<used, chan, req, i, hnd>>

\* clear_ipc_channel under the lock, then mutex_unlock (lines 631-633).
ClearIpcChannel(t) ==
  /\ pc[t] = "clear"
  /\ used' = [used EXCEPT ![TableOf(t)][hnd[t]] = FALSE]
  /\ chan' = [chan EXCEPT ![TableOf(t)][hnd[t]] = Cleared]
  /\ lock' = [lock EXCEPT ![LockOf(t)] = NoThread]
  /\ pc' = [pc EXCEPT ![t] = "idle"]
  /\ hnd' = [hnd EXCEPT ![t] = INVALID]
  /\ req' = [req EXCEPT ![t] = NoRequest]
  /\ UNCHANGED i

-----------------------------------------------------------------------------
\* The tables are zero-initialised statics: used = IPC_CHANNEL_UNUSED.
Init ==
  /\ used = [pt \in Tables |-> [s \in Slots |-> FALSE]]
  /\ chan = [pt \in Tables |-> [s \in Slots |-> [op |-> 0, mode |-> 0, magic |-> FALSE]]]
  /\ lock = [pt \in Tables |-> NoThread]
  /\ pc = [t \in Threads |-> "idle"]
  /\ req = [t \in Threads |-> NoRequest]
  /\ i = [t \in Threads |-> 0]
  /\ hnd = [t \in Threads |-> INVALID]

TableStep(t) ==
  \/ GetLock(t) \/ CheckAppointed(t) \/ ScanSlot(t) \/ ClaimSlot(t)
  \/ ScanExhausted(t)
  \/ GetUnlock(t) \/ SetIpcChannel(t) \/ PutChannel(t) \/ PutLock(t)
  \/ ClearIpcChannel(t)

Next ==
  \/ \E t \in Threads, r \in Requests : GetChannel(t, r)
  \/ \E t \in Threads : TableStep(t)

(* A call blocked on a table mutex gets it eventually once it is free      *)
(* infinitely often (kernel mutexes hand off to waiters); the steps of a   *)
(* call in progress are taken.  Callers need not call or put at all.       *)
Fairness ==
  \A t \in Threads :
    /\ SF_vars(GetLock(t)) /\ SF_vars(PutLock(t))
    /\ WF_vars(CheckAppointed(t) \/ ScanSlot(t) \/ ClaimSlot(t) \/ ScanExhausted(t))
    /\ WF_vars(GetUnlock(t)) /\ WF_vars(SetIpcChannel(t))
    /\ WF_vars(ClearIpcChannel(t))

Spec == Init /\ [][Next]_vars /\ Fairness

-----------------------------------------------------------------------------
TypeOK ==
  /\ used \in [Tables -> [Slots -> BOOLEAN]]
  /\ lock \in [Tables -> Threads \cup {NoThread}]
  /\ pc \in [Threads -> {"idle", "get_lock", "scan", "claim", "get_unlock", "set",
                         "hold", "put_lock", "clear"}]
  /\ req \in [Threads -> Requests \cup {NoRequest}]
  /\ i \in [Threads -> 0 .. NCh]
  /\ hnd \in [Threads -> Slots \cup {INVALID}]

HasHandle(t) == pc[t] \in {"set", "hold", "put_lock", "clear"}

(* Exclusive handles: two threads never hold handles to the same slot of   *)
(* the same partner's table, and every slot a handle points at is marked  *)
(* used (spec section 8: acquire never returns two live handles to one     *)
(* slot, whatever the interleaving of get_channel and put_channel).        *)
ExclusiveHandles ==
  /\ \A t \in Threads : HasHandle(t) => used[TableOf(t)][hnd[t]]
  /\ \A t, u \in Threads :
       t # u /\ HasHandle(t) /\ HasHandle(u) /\ TableOf(t) = TableOf(u)
         => hnd[t] # hnd[u]

(* No spurious exhaustion: when a scan for any free slot gives up, every   *)
(* slot below the mode's bound is in use at that moment; a slot released  *)
(* behind the scan does not make get_channel report "no channel" while    *)
(* the scan still holds the lock.                                          *)
NoSpuriousExhaustion ==
  \A t \in Threads :
    pc[t] = "get_unlock" /\ hnd[t] = INVALID /\ AppointedOf(t) = INVALID
      => \A s \in 0 .. GetMaxChannel(ModeOf(t)) - 1 : used[TableOf(t)][s]

(* get_free_channel's own contract (the IPC_BUGs of lines 474-477, empty *)
(* in production builds): whenever a scan starts for an appointed slot,   *)
(* that slot lies in [0, max_channel) for the request's mode, so          *)
(* channels[appointed_channel] (line 481) stays inside the table and an   *)
(* interrupt-mode handle stays below NIrq, where channel2num (line 651)   *)
(* and ipc_irq[] expect it.                                                *)
AppointedInBound ==
  \A t \in Threads :
    pc[t] = "scan" /\ AppointedOf(t) # INVALID
      => AppointedOf(t) \in 0 .. GetMaxChannel(ModeOf(t)) - 1

(* Every get_channel call returns: a thread that starts one eventually is *)
(* back at idle or holds a handle.                                         *)
GetChannelReturns ==
  \A t \in Threads : pc[t] = "get_lock" ~> pc[t] \in {"idle", "hold"}
=============================================================================
