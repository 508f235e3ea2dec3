------------------------------ MODULE SramAlloc ------------------------------
(***************************************************************************)
(* The shared-RAM page ownership map and the page allocator of the        *)
(* Columbus IPC driver (src/IPC-driver/columbus_ipc.c, lines 191-457).     *)
(*                                                                         *)
(* The shared RAM is NPages pages of PageSize bytes.  Each page has a      *)
(* hardware owner (the SRMSELx status registers): free, the A7 (this       *)
(* driver), the RF DSP or the PLC DSP.  A7 kernel threads allocate a run   *)
(* of pages with ipc_sram_alloc and give it back with ipc_sram_free, the   *)
(* way columbus_ipc_send_message does.  The search for a free run          *)
(* (find_consecutive_free_sram_pages) runs before ipc_sram_mutex is taken; *)
(* the page-by-page grab and release run under it.  The two DSPs take and  *)
(* give back free pages through their own request registers at any time:   *)
(* ipc_sram_mutex does not serialise them (comment at lines 135-139).      *)
(***************************************************************************)
EXTENDS Integers, FiniteSets

CONSTANTS
  Threads,    \* A7 kernel threads calling ipc_sram_alloc / ipc_sram_free
  NPages,     \* SHARED_RAM_PAGE_NUM
  PageSize,   \* COLUMBUS_IPC_PAGE_SIZE
  Sizes,      \* message lengths the callers pass as "size"
  Pins,       \* page numbers callers pin a message to; NoPage means "any"
  DSPs,       \* the partners that contend for pages: a subset of {RF, PLC}
  NoThread    \* model value: nobody holds ipc_sram_mutex

ASSUME /\ NPages \in Nat \ {0}
       /\ PageSize \in Nat \ {0}
       /\ Sizes \subseteq Int
       /\ Pins \subseteq Int
       /\ NoThread \notin Threads

\* enum ownership (lines 191-196): the two-bit field of each page
FREE == "free"
A7   == "a7"
RF   == "rf"
PLC  == "plc"
Ownership == {FREE, A7, RF, PLC}
Partners  == {RF, PLC}
ASSUME DSPs \subseteq Partners

Pages == 0 .. NPages - 1
SramSize == NPages * PageSize        \* COLUMBUS_IPC_SRAM_SIZE
NoPage == -1                          \* the -1 "no page" of the code

VARIABLES
  own,     \* the ownership map held by SRMSEL0/SRMSEL1
  mutex,   \* ipc_sram_mutex: its holder or NoThread
  pc,      \* where each thread is in alloc / free
  npg,     \* npages of the thread's current request
  start,   \* page_num: first page of the run being grabbed, held or freed
  idx,     \* i: loop index of try_to_grab_sram_pages / free_sram_pages
  ret      \* what the thread's last ipc_sram_alloc returned (a page or NoPage)

vars == <<own, mutex, pc, npg, start, idx, ret>>

PC == {"idle", "lock", "grab", "hold", "release"}

-----------------------------------------------------------------------------
(***************************************************************************)
(* find_consecutive_free_sram_pages (lines 263-306), the loop as written:  *)
(* count and start are reset on every page that is not free, the loop     *)
(* breaks once count reaches npages, and the result is start if count is  *)
(* exactly npages.                                                         *)
(***************************************************************************)
RECURSIVE ScanFree(_, _, _, _, _)
ScanFree(o, n, i, count, st) ==
  IF i >= NPages \/ count >= n
  THEN IF count = n THEN st ELSE NoPage
  ELSE IF o[i] = FREE
       THEN ScanFree(o, n, i + 1, count + 1, IF st = -1 THEN i ELSE st)
       ELSE ScanFree(o, n, i + 1, 0, -1)

\* A version of the loop that forgets to reset start on an occupied page.
FindFreeNoStartReset(o, n) ==
  LET RECURSIVE S(_, _, _)
      S(j, c, s) == IF j >= NPages \/ c >= n
                    THEN IF c = n THEN s ELSE NoPage
                    ELSE IF o[j] = FREE
                         THEN S(j + 1, c + 1, IF s = -1 THEN j ELSE s)
                         ELSE S(j + 1, 0, s)
  IN S(0, 0, -1)

FindConsecutiveFreeSramPages(o, n) == ScanFree(o, n, 0, 0, -1)

\* A rounding that adds a page even when the size is a whole number of pages.
NPagesOfAlwaysInc(size) == size \div PageSize + 1

\* ipc_sram_alloc's rounding of a byte size up to whole pages (lines 402-404)
NPagesOf(size) == size \div PageSize + (IF size % PageSize # 0 THEN 1 ELSE 0)

(***************************************************************************)
(* grab_one_sram_page (lines 219-240).  The code reads the page's owner    *)
(* and gives up unless it is free; then it writes the request and reads   *)
(* the owner back.  The hardware grants a request for a page that is free *)
(* or already the requester's.  A partner taking the page between the     *)
(* read and the write makes the read-back fail, which is the same result  *)
(* as the first check failing, so the grab is one step.  A page number    *)
(* past the last page reads and writes registers beyond SRMSEL1 and       *)
(* A7SRP31REQ (IPC_BUG is empty in production builds): the outcome is     *)
(* undefined and both are possible.                                       *)
(***************************************************************************)
HwGrants(p, who) == own[p] \in {FREE, who}

GrabOutcomesUnchecked(p) ==
  IF p \in Pages THEN {HwGrants(p, A7)} ELSE BOOLEAN

GrabOutcomes(p) ==
  IF p \in Pages THEN {own[p] = FREE /\ HwGrants(p, A7)} ELSE BOOLEAN

\* What the ownership map becomes when the A7's request for page p succeeds.
Granted(p) == IF p \in Pages THEN [own EXCEPT ![p] = A7] ELSE own

\* release_one_sram_page (lines 243-257): request "free" for the page.
Released(p) ==
  IF p \in Pages /\ own[p] = A7 THEN [own EXCEPT ![p] = FREE] ELSE own

\* The locals of a call are gone once it returns.
ReturnLocals(t) ==
  /\ npg' = [npg EXCEPT ![t] = 0]
  /\ start' = [start EXCEPT ![t] = NoPage]
  /\ idx' = [idx EXCEPT ![t] = 0]

-----------------------------------------------------------------------------
(***************************************************************************)
(* ipc_sram_alloc (lines 382-431) up to the mutex in                       *)
(* try_to_grab_sram_pages (lines 318-345).  Requests with a size outside  *)
(* (0, SramSize] or a pinned page past the end return NULL.  Unpinned     *)
(* requests search for a run first, without the mutex, and return NULL   *)
(* when none is found.  Otherwise the thread waits for the mutex.         *)
(***************************************************************************)
SramAllocBegin(t, size, pin) ==
  LET n == NPagesOf(size)
      s == IF pin = NoPage THEN FindConsecutiveFreeSramPages(own, n) ELSE pin
  IN /\ pc[t] = "idle"
     /\ size > 0 /\ size <= SramSize
     /\ pin = NoPage \/ (pin >= 0 /\ pin < NPages)
     /\ IF s = NoPage
        THEN /\ ret' = [ret EXCEPT ![t] = NoPage]
             /\ UNCHANGED <<pc, npg, start, idx>>
        ELSE /\ pc' = [pc EXCEPT ![t] = "lock"]
             /\ npg' = [npg EXCEPT ![t] = n]
             /\ start' = [start EXCEPT ![t] = s]
             /\ idx' = [idx EXCEPT ![t] = 0]
             /\ UNCHANGED ret
     /\ UNCHANGED <<own, mutex>>

\* mutex_lock(&ipc_sram_mutex) before the grab loop (line 345)
GrabLock(t) ==
  /\ pc[t] = "lock" /\ mutex = NoThread
  /\ mutex' = t
  /\ pc' = [pc EXCEPT ![t] = "grab"]
  /\ UNCHANGED <<own, npg, start, idx, ret>>

\* One iteration of the grab loop (lines 347-356) that succeeds.
GrabPage(t) ==
  LET p == start[t] + idx[t] IN
  /\ pc[t] = "grab" /\ idx[t] < npg[t]
  /\ TRUE \in GrabOutcomes(p)
  /\ own' = Granted(p)
  /\ idx' = [idx EXCEPT ![t] = @ + 1]
  /\ UNCHANGED <<mutex, pc, npg, start, ret>>

(* One iteration that fails: break, unlock, return -1.  The pages grabbed  *)
(* so far in this call stay owned by the A7 (no rollback).                 *)
GrabFail(t) ==
  LET p == start[t] + idx[t] IN
  /\ pc[t] = "grab" /\ idx[t] < npg[t]
  /\ FALSE \in GrabOutcomes(p)
  /\ mutex' = NoThread
  /\ pc' = [pc EXCEPT ![t] = "idle"]
  /\ ret' = [ret EXCEPT ![t] = NoPage]
  /\ ReturnLocals(t)
  /\ UNCHANGED own

\* All npages grabbed: unlock and return the start page (lines 358-361).
GrabDone(t) ==
  /\ pc[t] = "grab" /\ idx[t] = npg[t]
  /\ mutex' = NoThread
  /\ pc' = [pc EXCEPT ![t] = "hold"]
  /\ ret' = [ret EXCEPT ![t] = start[t]]
  /\ UNCHANGED <<own, npg, start, idx>>

\* ipc_sram_free (lines 433-457) with the same size: free_sram_pages locks.
FreeLock(t) ==
  /\ pc[t] = "hold" /\ mutex = NoThread
  /\ mutex' = t
  /\ pc' = [pc EXCEPT ![t] = "release"]
  /\ idx' = [idx EXCEPT ![t] = 0]
  /\ UNCHANGED <<own, npg, start, ret>>

\* One iteration of the release loop of free_sram_pages (lines 372-373).
ReleasePage(t) ==
  /\ pc[t] = "release" /\ idx[t] < npg[t]
  /\ own' = Released(start[t] + idx[t])
  /\ idx' = [idx EXCEPT ![t] = @ + 1]
  /\ UNCHANGED <<mutex, pc, npg, start, ret>>

\* mutex_unlock at the end of free_sram_pages (line 375).
FreeDone(t) ==
  /\ pc[t] = "release" /\ idx[t] = npg[t]
  /\ mutex' = NoThread
  /\ pc' = [pc EXCEPT ![t] = "idle"]
  /\ ReturnLocals(t)
  /\ UNCHANGED <<own, ret>>

(***************************************************************************)
(* The DSPs: through their own request registers a partner takes a free   *)
(* page or gives back one it owns, at any moment.                          *)
(***************************************************************************)
PartnerGrab(d, p) ==
  /\ own[p] = FREE
  /\ own' = [own EXCEPT ![p] = d]
  /\ UNCHANGED <<mutex, pc, npg, start, idx, ret>>

PartnerRelease(d, p) ==
  /\ own[p] = d
  /\ own' = [own EXCEPT ![p] = FREE]
  /\ UNCHANGED <<mutex, pc, npg, start, idx, ret>>

-----------------------------------------------------------------------------
Init ==
  /\ own = [p \in Pages |-> FREE]
  /\ mutex = NoThread
  /\ pc = [t \in Threads |-> "idle"]
  /\ npg = [t \in Threads |-> 0]
  /\ start = [t \in Threads |-> NoPage]
  /\ idx = [t \in Threads |-> 0]
  /\ ret = [t \in Threads |-> NoPage]

Next ==
  \/ \E t \in Threads, size \in Sizes, pin \in Pins : SramAllocBegin(t, size, pin)
  \/ \E t \in Threads :
       \/ GrabLock(t) \/ GrabPage(t) \/ GrabFail(t) \/ GrabDone(t)
       \/ FreeLock(t) \/ ReleasePage(t) \/ FreeDone(t)
  \/ \E d \in DSPs, p \in Pages : PartnerGrab(d, p) \/ PartnerRelease(d, p)

Spec == Init /\ [][Next]_vars

-----------------------------------------------------------------------------
\* The pages of the shared RAM a thread believes are its own right now.
HeldPages(t) ==
  Pages \cap
    CASE pc[t] = "grab"    -> start[t] .. start[t] + idx[t] - 1
      [] pc[t] = "hold"    -> start[t] .. start[t] + npg[t] - 1
      [] pc[t] = "release" -> start[t] + idx[t] .. start[t] + npg[t] - 1
      [] OTHER             -> {}

\* The lowest page that starts a run of n free pages, or NoPage.
FirstFit(o, n) ==
  LET fits == {s \in 0 .. NPages - n : \A j \in s .. s + n - 1 : o[j] = FREE}
  IN IF fits = {} THEN NoPage ELSE CHOOSE s \in fits : \A f \in fits : s <= f

TypeOK ==
  /\ own \in [Pages -> Ownership]
  /\ mutex \in Threads \cup {NoThread}
  /\ pc \in [Threads -> PC]
  /\ npg \in [Threads -> 0 .. NPages]
  /\ start \in [Threads -> {NoPage} \cup Pages]
  /\ idx \in [Threads -> 0 .. NPages]
  /\ ret \in [Threads -> {NoPage} \cup Pages]

(* Exclusive ownership: every page a thread believes it has grabbed and   *)
(* not yet released is owned by the A7 in hardware, and no two threads    *)
(* believe they own the same page.  This is what grab_one_sram_page's     *)
(* "already occupied" check and ipc_sram_mutex are for: a page handed to   *)
(* one sender is never handed to a second sender or to a DSP.              *)
ExclusiveOwnership ==
  /\ \A t \in Threads : \A p \in HeldPages(t) : own[p] = A7
  /\ \A t, u \in Threads : t # u => HeldPages(t) \cap HeldPages(u) = {}

(* First fit: in every reachable ownership map, for every run length,    *)
(* find_consecutive_free_sram_pages returns the lowest page that starts a *)
(* run of that many free pages, and "none" only when there is no such    *)
(* run (spec section 4.2 and the unit test at lines 1806-1857).           *)
FindIsFirstFit ==
  \A n \in 1 .. NPages : FindConsecutiveFreeSramPages(own, n) = FirstFit(own, n)

(* No leaked page: every page the A7 owns is a page some thread is        *)
(* holding, grabbing or releasing; a failed allocation gives back what it *)
(* grabbed.                                                                *)
NoLeakedPage ==
  \A p \in Pages : own[p] = A7 => \E t \in Threads : p \in HeldPages(t)

(* Requests in range: the driver only ever asks the hardware for pages of *)
(* the shared RAM: a pinned run never runs past the last page.            *)
RequestsInRange ==
  \A t \in Threads : pc[t] = "grab" /\ idx[t] < npg[t] => start[t] + idx[t] \in Pages
=============================================================================
