# TLA+ models of the Columbus IPC driver, the Marvell IPC driver and the Pegmatite clocks

These modules model the drivers in `src/` so that TLC can check them. The
main subject is the Columbus IPC driver (`src/IPC-driver/columbus_ipc.c`).
It lets threads on the A7 core exchange messages with two DSPs, RF and PLC,
through a 32-page shared RAM (SRAM) and a block of IPC registers. Every
definition is written from the C source. The map in `PROJECT.json` names the
lines that each definition translates. Run the checks from this directory:

    tlc -workers 2 -config <cfg> <MC module>

## 1. The system: inventory

| Part | Source | State | Operations | Interacts with |
|---|---|---|---|---|
| Page ownership map | `columbus_ipc.c` 190-257 | 2 bits per page in SRMSEL0/1: free, A7, RF, PLC | `get_sram_page_ownership`, `grab_one_sram_page`, `release_one_sram_page` | the DSPs, which take pages through their own request registers |
| Page allocator | 263-457 | `ipc_sram_mutex` | `find_consecutive_free_sram_pages` (runs without the mutex), `try_to_grab_sram_pages`, `free_sram_pages`, `ipc_sram_alloc`, `ipc_sram_free` | ownership map; the send path |
| Channel tables | 99-125, 466-658 | `ipc_rf_channel[16]` and `ipc_plc_channel[16]`, each slot holding used, partner, op, mode and magic words; one mutex per table | `get_free_channel`, `set_ipc_channel`, `clear_ipc_channel`, `columbus_ipc_get_channel`, `columbus_ipc_put_channel`, `channel2num` | API callers, sysfs |
| Transfer protocol | 660-1013 | per partner and direction: header registers COMM/ADDR/DATA0/DATA1, SET/FLG/STS pending bits, ACK | `columbus_ipc_send_message`, `columbus_ipc_receive_message`, `notify_partner` | allocator, IRQ handler, DSP |
| IRQ bridge | 1571-1634 | `ipc_irq[16]`, each with an `irq_done` completion | `columbus_ipc_irq_handler` | receive path in interrupt mode |
| sysfs / debugfs front-end | 1161-1449 | `current_partner`, `current_operation`, `current_mode`, `current_channel` and `current_page` globals, with no lock | the attribute read/write handlers, `page_store`, `columbus_ipc_message_read/write` | channel tables, transfer |
| Misc device, probe/remove, unit tests | 1647-2204 | `open_count`, resources | open/close/ioctl, probe, remove | everything (set-up) |
| Marvell IPC driver | `marvell-ipc-driver/ipc_driver.c` | semaphores, a work queue, a global `recv_data` | attach/detach, send/receive, ISR | its own hardware |
| Clock drivers | `pegmatite/*.c`, `unnamed/part_000` (clkgen) | divider registers, PLL settings, gate bits, a software multiplier | `recalc_rate`, `round_rate`, `set_rate`, `enable`, `disable`, `is_enabled` | the common clock framework, which calls them and caches rates |
| RTC and watchdog | `unnamed/part_001` | time and alarm registers, watchdog timer | read/set time, alarm, start/stop/ping | hardware |
| I2C test client | `i2c-test-driver/i2c-test.c` | a test client | transfers | the I2C core |

Without `DEBUG`, `IPC_BUG` expands to nothing (lines 44-47). None of its
range and state checks runs in a production build. The models follow
the production build.

The behaviours that are hard to test:

- interleavings between concurrent callers: the search and the grab happen
  under different locks; the slot is stamped after the unlock; senders write
  the header registers without a lock;
- interleavings between the A7 and a DSP writing the same registers;
- when an acknowledgement happens relative to the read it should follow;
- partial failure in the middle of a loop;
- numeric edges of page and channel indices;
- busy-waits with no timeout.

## 2. The modules

### SramAlloc: shared-RAM page ownership and the page allocator

State:

- `own`: the ownership map, one of FREE, A7, RF, PLC per page;
- `mutex`: `ipc_sram_mutex`;
- the locals of each thread's call: `pc`, `npg`, `start`, `idx`, `ret`.

Actions:

- `SramAllocBegin` is `ipc_sram_alloc` up to the mutex. It covers the size and
  pin checks, the rounding up to pages and the unlocked first-fit search.
- `GrabLock`, `GrabPage`, `GrabFail` and `GrabDone` are the grab loop of
  `try_to_grab_sram_pages`. `GrabFail` unlocks and returns -1 with no
  rollback, as the code does.
- `FreeLock`, `ReleasePage` and `FreeDone` are `ipc_sram_free` and
  `free_sram_pages`.
- `PartnerGrab` and `PartnerRelease` are the DSPs. Their firmware is not in the
  repository, so these two come from the spec.

`grab_one_sram_page` reads the owner, writes the request and reads the owner
back. It is one step. A DSP acting between the read and the write makes the
read-back fail, which is the same result as the first check failing. A page
number past the last page reads and writes registers beyond the map. Its
outcome is a nondeterministic choice (`GrabOutcomes`).

`ScanFree` is the search loop, written as a RECURSIVE operator line for line.
`FirstFit` is a reference definition that the search is checked against.

### ChannelTable: the per-partner channel tables

State:

- `used` and `chan`: the slot fields;
- `lock`: the table mutex;
- the locals of each thread's call: `pc`, `req`, `i`, `hnd`.

Actions:

- `columbus_ipc_get_channel` is `GetChannel`, then `GetLock`, then the steps
  of `get_free_channel`, then `GetUnlock`, then `SetIpcChannel`.
- The steps of `get_free_channel` are `CheckAppointed` or `ScanSlot`, then
  `ClaimSlot`, or `ScanExhausted`. Reading a slot's `used` field and setting
  it are separate steps, as in the C code. The mutex is the only thing that
  makes them atomic.
- `SetIpcChannel` stamps the slot after the unlock, as the code does.
- `columbus_ipc_put_channel` is `PutChannel`, then `PutLock`, then
  `ClearIpcChannel`.

### IpcTransfer: the send and receive protocol, the IRQ handler and a DSP

The model covers one partner, the RF DSP. The PLC half uses the same code on
its own registers.

Each A7 thread holds a fixed handle: a channel, an operation and a mode.
ChannelTable checks that handles are exclusive, so here the handles are
simply given.

State:

- `hdrOut`, `flagOut`: the A7 to DSP header registers and pending bits;
- `hdrIn`, `sts`: the DSP to A7 header registers and status bits;
- `irqOn`, `inIsr`, `done`: the interrupt lines and the completions;
- `alloc`, `sram`: an abstract page pool and the page contents. SramAlloc
  checks the real allocator;
- histories used only by the properties: `dspGot`, `dspAcked`, `a7Got`.

Actions:

- The send path is `SendAlloc`, `SendHeader`, `NotifyPartner`, `SendWait`,
  `SendAckWrite` and `SendFree`, in that order.
- The receive path starts with `RecvAck`. Interrupt mode then takes `RecvArm`
  and `RecvWaitIrq`; poll mode takes `RecvPoll`. Both end with `RecvRead`.
- The handler is `IrqComplete` (the `complete()` call) followed by `IrqAck`.
- `RecvWaitIrq` includes `disable_irq`, which waits for a running handler to
  finish.
- The DSP, from the spec, is `DspReceive`, `DspSend` and `DspSeeAck`. It
  serves a pending bit by reading the header and acknowledging. It sends one
  message at a time, and sends the next only after the A7 has cleared the
  previous one's status bit. This is the most careful partner the protocol
  allows.

The four header register writes (and the four reads) are one step each. The
races found already appear at that granularity. A finer model could only add
torn headers.

### IpcChannel: what the transfer protocol promises, and the refinement

`IpcChannel` is the abstract specification of the transfer protocol. It has
no registers, pages or interrupts. Its state:

- `call`: each sender is idle, busy in a send, or delivered;
- `seq`: the number of calls each sender has completed;
- `copied`: the A7 messages the DSP has copied;
- `dspSeq`: the number of messages the DSP has posted per channel;
- `last`: the message the DSP posted last;
- `a7Got`: what receives returned.

Its actions:

- `Call`, `Deliver` and `Return` make a send synchronous: a call returns only
  after the DSP has copied that call's own message.
- `Post` is the DSP posting its next message on a channel.
- `Take` is a receive. It returns the message the DSP posted last, if that
  message has not been returned on the receiver's channel before. So the
  receives of one channel return messages in the order posted (spec section
  5), none twice, and a receive that starts late misses the earlier ones.

`Take` does not promise the receiver's own channel, and it does not promise a
message is returned only once across channels. The protocol keeps neither
promise: the handler acknowledges before the woken receiver reads the shared
header registers, and the DSP may rewrite them in between. The transfer run
found this while the refinement was being written. One receiver returns
another channel's message, and then that channel's receiver returns it too.

`IpcTransfer` defines the refinement mapping:

- a sender's call is busy from `SendAlloc` to `SendFree`;
- the call counts as delivered once `dspGot` holds its own message
  (`CallState`);
- `copied` is the messages in `dspGot`;
- `last` is the header registers `hdrIn`, which only `DspSend` writes and
  `RecvRead` reads.

The headers, pending bits, status bits, interrupts and pages are hidden, so
the steps that change only them are stuttering steps of `IpcChannel`.
`ChannelRefined == Channel!ASpec`, where `Channel` is
`INSTANCE IpcChannel WITH` that mapping, is a property of the transfer run.

### IpcSysfs: the attribute front-end over the channel tables

`IpcSysfs` extends `ChannelTable`. It adds the five unprotected globals
(`curPartner`, `curOp`, `curMode`, `curChannel`, `curPage`, lines 143-150).

Actions:

- `PartnerWrite`, `OperationWrite`, `ModeWrite`, `ChannelWrite` and
  `PageStore` are the attribute writers.
- A value a writer rejects is a stuttering step.
- `ChannelWrite` checks the channel only against the bound of the mode
  current at that moment, and only from above (lines 1308-1343).
- `MessageRead` and `MessageWrite` take a channel with the globals as they
  are now. The rest of the call is ChannelTable's steps.

### MarvellIpc: the Marvell IPC driver

`MarvellIpc` models `ipc_driver.c` and the sysfs client `ipc_iface` in
`ipc_api.h`.

- Clients attach to a port, send, detach and re-attach.
- `ipc_attach` looks the port up under `list_sem`, releases it, and inserts
  under a second `down`. `AttachFind` and `AttachInsert` are these two steps.
- A `list_sem` critical section is one step.
- `tx_ready` and `tx_done` are counting semaphores, modelled as counters.
- The interrupt handler is four steps:
  - `IsrEnter` ups `tx_done` on an acknowledge (line 233), before
    `IsrAckClear` clears the bits (line 235);
  - `IsrMemset` and `IsrFill` zero and refill the single static
    `recv_data`, which every device shares.
- The work item is `WorkStart`, `WorkFind`, `WorkCall` and `WorkAck`.
  - It is non-reentrant.
  - A work item queued while running is queued again.
  - The callback runs after `list_sem` is released.
- The remote side is `RemoteSend`, `RemoteAckSend` and `RemoteTakeAck`. It
  sends a command and waits for its acknowledge.
- `request_irq` failing is a nondeterministic outcome whose result the code
  ignores. A failed allocation is another such outcome.
- Only the last send result, acknowledge and callback are kept
  (`txLast`, `rLast`, `callLast`). Histories made the state space too large.
- Port records are handles from a finite set (`MaxHandles`); `live` is the
  set not yet kfree'd. `ipc_detach` frees the first record of the list whose
  port number equals the handle's, as the code's loop does, not the handle
  itself. `PortInUseIsLive` states that an attached client's handle, and a
  port whose callback is called, are live records.

### The clock tree: Div64, ClkPll, ClkSscg, ClkGen, ClkFd, ClkLvdsafe, ClkGate, OcFactor, ClockTree

Each clock driver's `clk_ops` are pure functions of the parent rate, the
node's configuration and the driver's register. Each driver module defines
them as operators:

- `Div64`: `floor(a * b / c)` for rates in Hz, computed one bit of `b` at
  a time. The drivers form these u64 products with `do_div`, and the
  products do not fit in TLC's integers.
- `ClkPll` (`pll.c`): the PLL.
  - `round_rate` and `set_rate` search for the post-divider `vcodiv`, then
    for the reference divider whose rate is nearest the request, then
    compute the feedback divider. These searches are RECURSIVE operators.
  - A non-deskew PLL corrects the rest with a signed fixed-point frequency
    offset (`FreqOffset`). `recalc_rate` decodes it again.
  - The register is a record of the fields `recalc_rate` reads back.
    `PllProgram` is the register sequence at the end of `set_rate`.
  - The tuning fields (charge pump, bandwidth, KVCO) are written but never
    read back, so they are left out.
  - The lock wait may time out. `set_rate` ignores that and returns 0, so the
    timeout changes nothing the model can see.
- `ClkSscg` (`sscg.c`): the spread-spectrum clock below the main PLL.
  - The node's setup decides whether the spread is enabled and its offset.
  - `recalc_rate` reports the centre of a down-spread.
- `ClkGen` (`unnamed/part_000`): the divider with an optional predivider, or
  the DDR clock's divide-by-2/4 select bit.
  - `set_rate` writes the divider fields at offset 0, and `recalc_rate`
    reads them at offset 4. The model takes offset 4 to show what was written
    at offset 0.
  - The predivider value is never written by the driver. It is part of the
    configuration.
- `ClkFd` (`clkfd.c`): the fractional divider of the UART clocks.
  - The approximation loop and the rein-in loop are RECURSIVE operators.
  - The 16-bit fields keep their width.
- `ClkLvdsafe` (`clklvdsafe.c`): a divider and an output enable whose rate
  operations do nothing, and report 0, while the parent gate is off.
- `ClkGate` (`clkgate.c`): the enable and software-reset bits.
- `OcFactor` (`off-chip-factor-clock.c`): a software multiplier.

`ClockTree` composes them into a tree:

- `osc → pll → sscg → gen → fd`, `osc → lpll → gate → lvds` and
  `osc → ocf`. `lpll` is a "deskew" PLL.
- Its state is the two PLL registers, the sscg configuration, the registers, the multiplier, the framework's cached rates,
  the gate's enable users and the promise each `clk_set_rate` made.
- The common clock framework is not in the repository. It is the environment:
  - `SetPll`, `SetGen`, `SetFd`, `SetLvds` and `SetOcf` are
    `clk_set_rate`: the driver's `round_rate`, then its `set_rate` with the
    rounded rate, then `recalc_rate` of the clock and of every cached clock
    below it (`MainChain` below the main PLL).
  - A PLL's new rate voids the promises of the clocks below it.
  - The framework returns early when the rounded rate equals the current
    one. The comparison it makes depends on the kernel version, so the model
    always goes through `set_rate`. This over-approximates.
  - `ConsumerEnable`, `ConsumerDisable`, `LvdsClkEnable` and
    `LvdsClkDisable` are `clk_enable` and `clk_disable`. They enable a parent
    before its child and disable it after. The gate's op runs when its
    enable count leaves or reaches zero.
- Each framework call holds the prepare or enable lock, so it is one step.
- `lvds` is registered `CLK_GET_RATE_NOCACHE`, so its reported rate is a
  fresh recalc (`Reported`).
- `Init` takes the clkgen configuration from the node's properties and the
  registers as the boot loader left them. The gate is optionally "always-used".
- `PllSetup` is `of_pegmatite_pll_setup`: a PLL node's "clock-frequency"
  is set with `clk_set_rate` right after registration, before any clock
  below it exists. Its register and its promise are part of `Init`.
- `LvdsRateAfterEnable` asks what `RoundedRateDelivered` leaves out: a
  rate set on lvds while its gate is off. Once lvds is enabled, it should
  run at what `round_rate` answers for the request with the gate on.
- Rates are in Hz. `pll.c` compares rates with fixed bounds (1-4 GHz for the
  VCO, 8-32 MHz after the reference divider), so abstract units would change
  its decisions.

## 3. The runs

| Run | Expect | Properties | What it shows |
|---|---|---|---|
| `sramalloc` | pass | TypeOK, ExclusiveOwnership, FindIsFirstFit | Two threads and a DSP never share a page. The unlocked search returns the first fit in every reachable map. |
| `sramalloc_leak` | violation | NoLeakedPage | A grab loop that fails part-way leaks the pages it already took. |
| `channeltable` | pass | TypeOK, ExclusiveHandles, NoSpuriousExhaustion, GetChannelReturns | Three threads never hold one slot twice. NULL is returned only when every slot below the mode's bound is in use. Every get_channel returns. |
| `sysfs_channel_range` | violation | AppointedInBound | A channel accepted in poll mode stays set after the mode attribute switches to interrupt. get_free_channel is then asked for a slot past the interrupt channels. |
| `transfer` | pass | TypeOK, PageLiveWhenRead, SendReturns, ReceiveReturns, ChannelRefined | With one sender and two receivers (one interrupt, one poll), the DSP reads only live pages. Every send returns. A receive returns once the DSP signals a message on its channel after the receive began. The protocol implements `IpcChannel`: a receive returns the DSP's last message, never twice on one channel. |
| `transfer_header_race` | violation | PageLiveWhenRead | Two senders: the DSP copies a freed page. |
| `transfer_wrong_channel` | violation | ReceivedOnOwnChannel | The handler's ACK lets the DSP overwrite the header before the woken receiver reads it. |
| `marvell` | pass | TypeOK, IrqWhileOpen, SendGetsOwnAck | The irq is requested exactly while a port is open. Each send returns the acknowledge of its own command. |
| `marvell_lost_ack` | violation | SendReturns | The handler's clear of the ACK bits, after it ups `tx_done`, erases the next command's acknowledge. `ipc_send` blocks forever. |
| `clocktree` | pass | TypeOK, GenRoundNearest | In the Hz tree with both PLLs, the sscg and every divider, with rate changes and enables interleaved, clkgen rounds to the nearest divided rate when the predivider is out. |
| `clocktree_rates` | violation | RoundedRateDelivered | A 400 MHz PLL request needs `vcodiv` 3, which the `switch` of `pll.c` has no case for, so `clkout_div_sel` stays 0 and the PLL runs at 1.2 GHz. |
| `marvell_freed_port` | violation | PortInUseIsLive | Two clients attach port 5 at once, so both insert a record. The second client's detach frees the first client's record, and that client keeps a freed handle. |

Each property of a passing run has a mutant in `PROJECT.json`: a plausible bug
in the mapped code that TLC must catch. Examples:

- the first-fit loop forgetting to reset `start`;
- a scan that stops one slot early;
- a send that does not wait for the acknowledgement;
- a receive that does not acknowledge, which `ChannelRefined` catches;
- `ipc_send` posting without taking `tx_ready`;
- `round_rate` without the round-up to the nearer divider.

Some cfgs are not runs. They remain for reference:

- `MCIpcSysfs.cfg`: the attribute writers, checked against `ExclusiveHandles`;
- `MCSramAllocRange.cfg`: a pinned run past page 31 (`RequestsInRange`);
- `MCIpcTransferLost.cfg`: the first ACK of a poll receive (`AckedIsRead`);
- `MCClockTreeFdHigh.cfg`: a clkfd request above half the parent's rate,
  which sets a zero denominator (`denom & 0xffff` of 0x10000) and violates
  `RoundedRateDelivered`.
- `MCClockTreeLvdsOrder.cfg`: a consumer sets the lvds rate while the gate
  is off, then enables lvds. The divider was never written, and lvds runs at
  half the deskew PLL's rate (`LvdsRateAfterEnable`, 3 states).
- `MCClockTreeDdr.cfg`: the clkgen divide select with a 1.2 GHz request.
  1197 MHz is promised and 598.5 MHz reported (`RoundedRateDelivered`).
- `MCMarvellIpcCallback.cfg`: one client. A detach between the work item's
  lookup and its callback, which run on either side of `up(list_sem)`,
  violates `PortInUseIsLive`.
- `MCMarvellIpcShared.cfg`: two devices share the one static `recv_data`.
  One command is never acknowledged and another is acknowledged twice
  (`RemoteAckMatches`).
- `MCMarvellIpcIrqFail.cfg`: `request_irq` fails at attach. No command is
  acknowledged and the first `ipc_send` never returns (`SendReturns`).

Their findings are recorded as hazards in `PROJECT.json`.

### Bounds and why they are enough

- **SramAlloc**: 4 pages of 4 bytes, 2 threads and one DSP.
  - The sizes are 0, 3, 8, 16 and 17: zero, rounded-up, whole, all of RAM
    and too large.
  - The pins are none and page 1.
- **ChannelTable**: 2 slots, of which the first takes interrupts, and 3
  threads.
  - The appointed slots are "any", 0 and the last.
  - Three threads overfill both the poll and the interrupt parts.
- **IpcSysfs** (range run): 3 slots, 2 of them for interrupts.
  - The channel attribute is written 0 or 2, and the mode attribute either
    mode, so a poll-mode channel of 2 survives a switch to interrupt mode.
- **IpcTransfer**: 3 channels, the DSP sends on 2 of them, 2 messages per
  channel, 2 pages, and kmalloc may fail.
  - Two messages per channel are enough for one to overwrite the next.
- **MarvellIpc**: one device, port 5, two clients, at most 3 operations per
  client and 2 remote commands.
  - Two devices exceed 25 million states. `MCMarvellIpcShared.cfg` uses
    them with one operation each.
  - `RemoteAckMatches` (every acknowledge the work function writes answers
    the remote's outstanding command) is not a property of the pass run:
    with one device the remote waits for each acknowledge, so the handler
    never refills `recv_data` while work is pending, and the property
    holds whatever the code does there. `MCMarvellIpcShared.cfg` shows it
    violated.
- **ClockTree**: each PLL step evaluates the full divider search in Hz, so
  every request set holds one or two rates.
  - A 25 MHz oscillator. Both PLLs boot at refdiv 1, fbdiv 12 and divider 1:
    1.2 GHz for the main PLL and 300 MHz for the deskew one.
  - The main PLL is asked for 600 MHz and the deskew PLL for 2 GHz
    (`clocktree_rates` asks for 400 MHz).
  - The sscg spreads down by 0.5%, so gen's parent is not a round rate.
  - The clkgen configurations have max-divide 2 or 16 and a predivider of
    0 or 3, with or without `use_prediv`. They take the nearest-divider
    path, the predivider path and the clamp.
  - gen is asked for 100 MHz and 400 MHz. The second needs an odd divider.
  - fd is asked for the UART rate 1843200 Hz, lvds for 74.25 MHz and ocf for
    130 MHz.
  - The PLL nodes carry no "clock-frequency", or 800 MHz and 1.8 GHz.
  - `RoundedRateDelivered` (each clock runs at the rate its `round_rate`
    promised once `set_rate` has written it) is not a property of the
    pass run: these code paths violate it, and the hazards list the
    requests that do (1066 MHz, a deskew rate at or below 1.5 GHz, an fd
    request above half its parent, the divide select).
  - The run reaches about 38,000 states.

### Fairness

- **ChannelTable**: strong fairness on the mutex acquisitions, because
  kernel mutexes hand the lock to a waiter. Weak fairness on the other steps
  of a call in progress.
- **IpcTransfer**: weak fairness on the steps of a call in progress
  (`InCall`), on the handler and on the DSP's serving and acknowledging. A
  busy-wait samples its register and can keep missing a bit, so it is only
  weak. Starting a call (`SendAlloc`, `RecvAck`) is the caller's choice and
  sending is the DSP's, so neither is fair: a poll receiver that never calls
  again can leave its status bit set, and the DSP, which keeps one message
  outstanding, then never sends on another channel. `ReceiveReturns`
  therefore speaks of a message signalled after the receive began.
- **MarvellIpc**: weak fairness on the handler, the work item, the remote's
  acknowledging and on a sender's return after its `down(tx_done)`.
- Runs whose threads end blocked for good, as the code's would, say
  `CHECK_DEADLOCK FALSE`: `transfer` and `marvell`.
- `IpcChannel` is a safety specification. `ChannelRefined` checks the
  transfer protocol's steps against it; the liveness of sends and receives
  is `SendReturns` and `ReceiveReturns`.
- `clocktree` has no liveness property. Every one of its actions is always
  enabled, so it checks deadlock.

## 4. Not modelled

- COLUMBUS_IPC_CDL_INTERACTIVE code, debug dumps and `dev_dbg` output.
- The alignment check of a pinned address.
- Probe, remove, and the power-management stubs of the Columbus driver. They
  are set-up code and do not run concurrently with the API.
- The in-kernel unit tests, whose first-fit expectations `FindIsFirstFit`
  restates.
- In `pll.c`: the tuning fields `set_rate` writes and never reads back, the
  register writes' order within `set_rate` (it holds the framework's lock),
  and the lock wait, whose timeout `set_rate` ignores.
- In `sscg.c`: the contents of the "sscg-table" written at setup. Only
  whether the spread is enabled, and its offset, reach `recalc_rate`.
- PLL requests outside what TLC's integers and a terminating recursion can
  hold (a hazard): above 3 GHz a deskew PLL's `vcodiv` becomes 0 and it
  divides by zero; at 0 or above 4 GHz a non-deskew PLL's `vcodiv` loop does
  not end.
- The RTC and watchdog (`unnamed/part_001`) and the I2C test client. They are
  register I/O and a probe sequence without concurrency or a protocol to
  check. The I2C client's check `if (cmp_0 | cmp_0)` ignores the second
  buffer's comparison, a typo a model of a single sequential test adds
  nothing to.
- The `INIT_WORK` of `irq_handler` (`ipc_driver.c` line 246) on a work item
  that may still be queued: it clears the item's pending bit, and the
  following `queue_work` would link it twice. `IsrMemset` keeps the item
  queued once.
- The Columbus misc device's `open_count` (`columbus_ipc.c`): it is incremented without a lock and
  never read, so no behaviour depends on it.
