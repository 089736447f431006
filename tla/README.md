# Verification of nerves_system_smt1019

TLA+ models, TLC runs and TLAPS proofs for the Nerves system of the SMT1019
panel (Rockchip RK3576). `PROJECT.json` is the machine-readable index: which
definition stands for which source lines, which run checks which property,
which mutation of the code each property catches, and which hazards of the code
the properties are about.

## 1. Inventory

The repository is a Buildroot/Nerves system: configuration, the scripts of an
A/B update, two small programs, and a vendor WiFi driver shipped as source. By
lines it is mostly data: firmware arrays, the regulatory database, GL and ISP
headers, message layouts. Driver file names below are those of
`package/aic8800/src/aic8800_fdrv`.

| Component | State it keeps | Operations | What is hard about it | Module |
| --- | --- | --- | --- | --- |
| fwup tasks (`fwup.conf`, `fwup-ops.conf`) | the U-Boot environment (`nerves_fw_active`, `_validated`, `_booted`, metadata per slot), kernel, dtb and rootfs of slots A and B, `extlinux.conf`, the shared resource partition | `complete`, `upgrade`, `revert`, `prevent-revert`, `validate`, `status`, `factory-reset`, `provision` | power may fail between any two operations; nothing is rolled back; after an upgrade the active slot is not the running one | FirmwareUpdate |
| U-Boot scripts (`uboot/uboot.env`) | the same environment, in memory and saved | `nerves_init`, `nerves_revert`, `nerves_boot`, distro boot | the revert decision spans two boots; one copy of the environment | FirmwareUpdate |
| startup guard, heart, watchdog (external) | whether the running firmware reads as unvalidated | validate when all applications run; restart the board otherwise | disarmed by a stale `upgrade_available=0` | FirmwareUpdate |
| command manager (`rwnx_cmds.c`, `rwnx_msg_tx.c`) | list of commands, `queue_sz`, `state`, pool of 40, completions | queue, force_defer, worker, msgind, drain | senders, worker, receive thread and timeouts race; confirmations are matched by id | CmdMgr |
| SDIO bus (`aicwf_sdio.c`, `aicwf_txrxif.c`) | `cmd_buf`, transmit and receive queues, the firmware's buffers, the chip's power state | three threads, the interrupt, the inactivity timer, suspend, remove | one unlocked command buffer; sleep against wake; completions that count | SdioBus |
| receive reordering (`rwnx_rx.c`) | window start, held frames, free pool, timer, work | one frame, expiry, flush, teardown | 12-bit numbers; a timer against frames and teardown | ReorderWindow, RxReorder |
| TCP ack filter (`aicwf_tcp_ack.c`) | entry per connection, the withheld ack, a 5 ms timer | transmit, expiry, pushed segment received, load, unload | an ack replaced while it is being sent | TcpAck |
| transmit queues (`rwnx_txq.c`, `rwnx_tx.c`) | queues per peer and TID, stop reasons, hardware queue lists, credits, service periods | transmit, process, confirm, retry, power save, channel, flush | lists and counters changed by the stack, the tasklet and indications | TxQueues |
| cfg80211 glue (`rwnx_main.c`, `rwnx_msg_rx.c`) | interface, connection state, channel contexts, scan request, remain-on-channel element, station table | open, close, connect, disconnect, external auth, scan, RoC, mgmt_tx, add/del/probe station, stop_ap | the receive thread runs beside the stack's calls without a lock | StaConnection, ScanRequest, RemainOnChannel, ApStations |
| radar detection (`rwnx_radar.c`) | pulse queues and candidate sequences per type and frequency | a pulse, a change of region | what noise between the pulses does to a sequence | RadarPattern |
| camsnap (`camsnap.c`) | V4L2 buffer ring, two files, stop flag | capture loop, two atomic writes | kills and short writes between any two calls; readers | CamSnap |
| smt-audio-dsp (`hpf_limiter.c`) | filters, cached controls | run, activate | change detection on clamped values | HpfLimiter |
| aic8800_bsp, btlpm, loading scripts, kernel patches, libmali, rkaiq, build | | | | not modelled, section 7 |

Interaction. Fwup, U-Boot and nerves_runtime never call each other; everything
goes through the environment and the slots, across reboots. In the driver the
stack's calls (serialised by cfg80211's locks) send commands through the command
manager to the SDIO bus; confirmations, indications and frames come back through
one receive thread, which runs the handlers. `cmd_mgr_run_callback` no longer
takes `cb_lock` (`rwnx_cmds.c:414` is commented out), so the calls and the
handlers interleave everywhere. Frames pass the ack filter, then the transmit
queues, then the bus. camsnap and the limiter are processes of their own.

Correctness, in a sentence per part. Update: whatever is interrupted, the device
boots a whole release, keeps a whole one to revert to while the new one is
unproven, settles every update and can always be updated again. Command manager:
list, counter and pool agree, the firmware has one command at a time, a
confirmation reaches its own command. Bus: nothing that waits is left without
somebody to serve it, the firmware's buffers are not overrun, an idle chip
sleeps, removal ends. Reordering: frames leave in order and none waits for ever.
Ack filter: the newest ack gets out. Transmit queues: a queue that can transmit
is in its list exactly once and gets processed; a sleeping peer gets what it
asked for. Glue: once all is quiet driver, stack and firmware agree; what was
lent is given back once; what was promised is told. Radar: what is detected is a
radar and what is a radar is detected. camsnap: readers see whole pictures.
Limiter: the filters are those of the controls.

## 2. How the models are laid out

One module per component holds its state, one action per locked section, handler
or step between two points where another actor can come in, and its properties.
A module's constants say which parts of the environment act (`Inputs`, `Kinds`,
`Tasks`, or a set of choices such as `Allows`, `RuleSets`, one of which a variable
`allow`, `rules` holds for a whole behaviour), because some properties hold only when
something does not happen: which, is part of the result.

An MC module instantiates a component, or several that belong together, in a few
*settings*: the variable `setting` is chosen initially and never changes, and each
setting is an instance of the component with other constants. One run then
covers a subsystem with every environment that was worth distinguishing, each
property states in which settings it holds, and the fairness of a liveness
property applies in the setting it is about. Components that a setting does not
look at stand still in their initial state.

A mutant of a definition, what it would be with a plausible bug in the code, is
an operator `Bug...` in front of it. It is used by nothing; it is there so that
every property can be shown to fail on some wrong version of the code.

### SlotUpdate and FirmwareUpdate

`SlotUpdate` is the abstract specification of an A/B update: a current release, a
spare one, whether the current one is on trial, and five steps, each all or
nothing. `Promise` maps FirmwareUpdate to it: the kernel of the active slot, that of
the other slot if its metadata is set, `nerves_fw_validated = 0`, an environment
whose CRC is wrong. Run `ota` checks the refinement where a section of the
environment is one write; with separate writes a cut can leave a switch half made,
and it does not hold.

`FirmwareUpdate` holds fwup tasks, U-Boot scripts and the startup guard, because
they are one protocol over shared storage.

- *State.* The environment variables keep their names; `platform` is the set of
  slots with `platform` and `architecture` set, `uuid` the per-slot
  `nerves_fw_uuid`; `store[f][s]` the copy of kernel, device tree or root file
  system in a slot, whose content is a release, `Torn` or `Erased`; `extlinux`
  the slot the recovery file boots; `resource` the shared partition; `power`,
  `slot`, `guard` the board; `task` the running fwup task and its next
  operation; `vouched` a history variable, the slots whose own firmware has
  validated them since they were written.
- *Actions.* One per fwup operation, in the order of the tasks and of the
  `file-resource` list: `UnsetPlatform`, `UnsetUuid`, `Trim`, `BeginWrite`/
  `EndWrite` per resource, `BeginExtlinux`/`EndExtlinux`, `BeginResource`/
  `EndResource`, the on-finish writes, `RevertSwitch`, `FatRm`,
  `ValidateFirmware`. U-Boot: `nerves_init`, `nerves_boot`, `DistroBoot`.
  Starting a task is guarded by its `require-uboot-variable` lines. Faults:
  `PowerCut`, `TaskError`, `EnvTear`, `SaveenvTorn`, `Reboot`.
- *A write* is torn from the moment it begins until it ends. The environment is a
  single block with a CRC: a cut inside its write makes it invalid.
- `env_coalesced` covers both ways fwup's environment operations of one section
  may reach the eMMC: as one write, or one per variable. Like `rules` it is chosen
  initially, from the constant `EnvCoalesced`, and never changes.
- *Legacy* releases are those whose `validate` still wrote
  `upgrade_available=0`, which the comments in `fwup-ops.conf` and `uboot.env`
  describe as the reason for the unsets.
- `rules`, one of `RuleSets`, are what an operator keeps to. `reboot_after_switch`: no further task
  between a switch of the active slot and the reboot (usage note 3 of
  `fwup-ops.conf`). `prevent_revert_validated`: `prevent-revert` only from a
  validated firmware. These two are `SafetyRules`. `revert_vouched`: `revert`
  only to a firmware that once validated itself; only the trust property needs
  it.

### CmdMgr

- *State.* `cmds`, `queue_sz`, `state` as in `struct rwnx_cmd_mgr`; `used`,
  `flags`, `msg`, `complete` the entries of `cmd_array`; `pc`/`own` the sender
  threads; `work`, `wpc`, `next` the work item and the worker; `fw` what the
  firmware has and may answer; `rx` and `lock` the receive path.
- *Steps.* A section under `cmd_mgr->lock` is one step; what happens outside it
  is a step of its own: the wake-up test of a deferred command (`Wake`), the
  push, the free and the re-wake after completion (`Notify`, `WorkerFree`), the
  expiry of a timer and the lock taken after it (`TimedOut`, `CallerGivesUp`).
  The receive path takes and releases the lock in two steps, because one path
  of `cmd_mgr_queue` releases a lock it never took.
- *Kinds* of command: with a buffer for the confirmation, without, always
  deferred (`ME_TRAFFIC_IND_REQ`, `MM_SET_ARPOFFLOAD_REQ`), forced deferral,
  and without confirmation.
- *Left out*: `NONBLOCK` and `WAIT_ACK` (never set in this driver), the `DONE`
  flag and `result`, the token, the return when the bus is down, indications
  that no command awaits, drain and deinit, the unused `llind`.

### SdioBus

Frames are counted, not told apart. `txpc`, `rxpc`, `irqpc`, `pwrpc` are the
threads and the interrupt; completions (`bustx_trgg` ...) count as the kernel's
do, up to `MaxTrgg`; `tx_pktcnt`, `fw_avail_bufcnt` and `state` are the code's
unlocked copies, `free` the firmware's real buffers. `cmd_buf` is the one buffer
every command is built in. A command may be refused (no buffer in eleven rounds
of polling), lost with the bus, or overwritten before it leaves; the latter only
by an unconfirmed one, because confirmed ones are one at a time (CmdMgr).
`fw_avail_bufcnt` is stale when commands went out after it was read, and the
`Thresh` buffers data leaves alone cover one confirmed command and fewer than
`Thresh` unconfirmed ones. So `FwNotOverrun` is stated for fewer than that
(`unasked` is their history); more of them can overrun the firmware.

### ReorderWindow and RxReorder

`ReorderWindow` is the abstract specification: unbounded frame numbers, what is
held and what was released. `RxReorder` is the driver's buffer for one traffic
class: `reord_process_unit` and everything it calls, the timer, its handler and
work item, `reord_flush_tid`, `reord_deinit_sta`, sequence numbers modulo `SnMod`
compared as the macros do. Frames arrive lost, repeated, reordered up to `MaxGap`
and wrapped around; what else may happen, memory running short
or a teardown during a timeout, is `allow`. `WindowRefined` says that RxReorder
implements ReorderWindow under the mapping that unwraps the numbers. The variables of
the window are in `ReorderWindowState`, with what is promised of it.

### TcpAck

Transmit contexts, an entry per connection with its timer and the handler in
three parts (fired, taken the ack, transmitted it), the receive path that notes
pushed data, and load and unload. An ack is its connection, number and class.
The scan for a free entry may count one twice when a seqlock read is repeated,
so `max_num` may run ahead (`MaxDrift`). TcpAckState holds the variables and
what is promised of them in every state, so that the run and the theorem name one
definition; CamSnapState does the same for CamSnap.

### TxQueues

The queues of one peer of an access point: queueing, the tasklet's pass over the
hardware queues, the stop reasons, power save with its counters and service
periods, confirmations and retries, netdev flow control, teardown and the next
peer on the same index. A section under `tx_lock` is one action. `STOP_FULL` is
left out because as built a push spends no credit; so is the order of a hardware
queue's list. What may happen in a behaviour is in `allow`, chosen initially from the
constant `Allows` and never changed, so that the properties that hold only under
conditions can say so. Confirmations come from the receive thread without `tx_lock`; the
input `race` lets them fall into somebody else's section, and without it they
are treated as if they took the lock. Assumed of the environment: the firmware
returns the buffers of a peer before its index is reused, and the stack
serialises its calls per subqueue.

### StaConnection, ScanRequest, RemainOnChannel, ApStations

A call of the stack is in progress (`op`, `th`), one receive thread handles
`fifo` in order, `fw` is the firmware's task. A handler is one step where nothing
it does can be seen by the call, and several where it can. The firmware is
external and modelled from what the handlers expect of it: an accepted connect
ends in one connect_ind, an abort in a failed one; disconnect_ind comes only
after a success; roaming is disconnect_ind(reassoc) and then connect_ind; a
cancelled scan reports its end before the cancel is confirmed; a RoC is
confirmed, switches and expires in that order; a station's index is its own
until it is deleted. `start_ap` is modelled as accepted. Each of the four keeps what
may happen in a behaviour in a variable (`allow`, `scan_allow`, `roc_allow`), chosen
initially from a constant (`Allows`, `ScanAllows`, `RocAllows`) and never changed, so
that one specification, and one theorem, speaks of all of them. The variables of
scans and RoC are in modules of their own (`ScanRequestState`,
`RemainOnChannelState`), with what is true of them, so that MCStation and the proofs
can speak of them beside those of a connection; MCStation looks at one part of a
station interface in a behaviour (`part`).

### RadarPattern

Pulse queues and sequences of the detectors, pulse by pulse, with small numbers:
PRI 12 to 14 with tolerance 1, bursts of 5 with threshold 3; for the long
type windows and bursts of the same proportions. History are `seen` (the pulses
a detector took), `dropped` (those its full queue dropped) and a sequence's
`burst`. The window takes the queue's tail of old pulses, as the loop does. The
32-bit width of the time between pulses and the paths for a failed allocation
are left out.

### CamSnap and HpfLimiter

CamSnap: the buffers of the ring (`owner`), the loop's position, the two paths
written through a temporary file and a rename, failures of every call, kills,
restarts by the supervisor, SIGTERM, and a reader that opens and reads in steps.
The loop tests `stop` (`Loop`) and then waits for a frame (`Dqbuf`): signal() lets
the wait be restarted, so a SIGTERM that comes after the test is noticed once one
more frame has been taken, handled and requeued.
HpfLimiter: the controls a host writes, the clamped copies, and the filters as
the values they were designed from; `Lo` and `Hi` lie beyond the values where the
code does not clamp.

## 3. Runs

Each question is asked of one subsystem in all its settings. Where several
invariants of a module are about one idea, the MC module conjoins them, with the
type invariant of the module, under one name; the table gives the parts in
parentheses. FirmwareUpdate's TypeOK and HpfLimiter's FiltersInRange are proved
(section 5) and not run.

| Run | States | Settings | Properties and what they show |
| --- | --- | --- | --- |
| `ota` | 1,065,000 | `one_write`: every task, three releases (a legacy factory one, a healthy one, one that never starts), all rules; `each_write`: separate environment writes, `SafetyRules`; `unattended`: nobody reverts or validates by hand | MetadataTruthful, NeverBricked, RunningSlotIntact, GuardArmed, UpgradePossible, DeltaSources, UnvalidatedFreezesSlots: no interruption loses a slot, the guard or the ability to update. Promised: the update implements SlotUpdate. Trusted: only firmware that validated itself boots without the automatic revert. Recovers: without an operator every update is settled and a healthy firmware comes back |
| `cmd` | 342,000 | `mixed`: every kind of command from two threads with one id; `forced`: plain commands against forced deferral | ListConsistent (QueueConsistent, PoolSuffices): list, counter and entries agree and the entries suffice. OneAnswerEach (OneOutstanding, CfmMatches, CfmBufferLive): one command is outstanding and its confirmation reaches its sender. ForcedServed: commands deferred behind others are pushed, and senders return even if the firmware is silent |
| `receive` | 32,000 | `window`: the abstract window; `short`: memory runs short; `torn`: teardown at any time | WindowRefined: the driver implements the window. WindowBound, OrderedRelease: of the window. BufferConsistent (UpSorted, HeldIsTimed, NoDangling, PoolConserved): order, timers and entries of the driver's buffer. HeldServed: a held frame leaves |
| `transmit` | 592,000 | `asleep`, `switch`, `reuse`: queues with a sleeping peer, a channel that is left, a peer that is replaced; `acks`, `one_ack`: as many entries as connections, and fewer | QueuesConsistent (ListedHasWork, LinkedOnce, ReadyIsListed, RetriesFirst, PsCounts, AsleepIsLimited): no queue is forgotten and a sleeping peer gets what it asked for. QueuesServed (FlowReleased, SpEnds): subqueues are woken, service periods end. HeldConsistent, NewestAckSent: the filter loses no ack |
| `sdio` | 567,000 | `suspend`: data, confirmed commands, scans, suspend; `receive`: unconfirmed commands, frames, failed allocations; `remove`: all until removal | BuffersSuffice (FwNotOverrun, CmdBuffered). WaitersServed (TxServed, RxServed, AggrDrained, CmdAwake, ActiveIsTimed): no lost wake-up, no command to a sleeping chip. TrafficFlows (CmdAnswered, DataSent), BusRests (IdleSleeps, RemoveEnds): everything ends |
| `station` | 245,000 | one part each: connections with all of `Inputs`, with `StaFaults`, with `sae` and `roam`, with `sae`; scans with all of `ScanInputs`, with `close` and `fails`, with `close`; RoC with all of `RocInputs`, with `refuse` and `preempt`, with `refuse` | ApRecorded (with ChanCounted, NoNullVif), LinkAgrees (with StateAgrees), RightScan (with ScanningIsTrue), RocMatches (OwnAreSilent, ReadyFirst, EventsMatch, NoneLost), RequestsEnd (DisconnectEnds, CloseReturns, ScanEnds, ExpiryTold, RocEnds), each part for the inputs its conjunct names |
| `ap` | 823,000 | `all`: everything that may go wrong; `losing`: stations are lost; `calm`: calls and sleeping stations | StationsAgree: SlotsAgree whatever happens, PsAgrees and StopDeletesAll when calm. IndicationsServed (LossRemoved, ProbeAnswered) when stations are lost |
| `radar` | 635,000 | `train`: one short type with noise; `bursts`: one long type; `several`: three types, two regions, three frequencies | DetectorsConsistent (QueueBounded, CountsExact, BurstsCounted, Merged): what a detector counts is what it saw. TrainDetected: every radar is found. PatternReal: what is reported is one. MultipleCorrect: `pde_get_multiple` against its definition for all small arguments |
| `board` | 516,000 | `dsp`; `faulty`, `skipping`, `signalled`: camsnap | CoeffsCurrent. ReaderSeesWhole (PictureWhole, FrameIsOurs). Publishes: the picture is published for ever however often a frame is skipped, and a daemon asked to stop leaves (Stops), also from the wait for a frame |
| `recovery_path` | violation | `one_write` | RecoveryBoots, finding 1 |
| `prevent_revert_running` | violation | `one_write`, no rules | PreventsOtherSlot, finding 2 |
| `txq_credits` | violation | `asleep`, with the code's 64 credits | ListedHasWork, finding 3 |

Bounds. FirmwareUpdate is finite as it stands: only the number of releases is
bounded; three let a delta's base, its target and a wrongly present content all
differ. CmdMgr: 5 entries, the least `CmdMgrAssumption` allows for two callers
and a queue limit of 2 (callers + limit + the one entry the worker has unlinked
and not freed; with the code's 16 and 40 it allows 23 senders). Reordering:
16 numbers and a window of 4, and frames 13 to 34, which wrap twice. Bus: a queue of 2, one buffer
kept for commands, 3 buffers, so that the frames can use up all of them. Transmit
queues: three buffers, two data queues and the management queue, which shares a
hardware queue with one of them. Acks: numbers that wrap at the second one.
Glue: calls, scans and requests are counted (7 or 8, 3 or 4, 3): each is more than
one complete round with another on top. Access point: two stations on two
entries, 4 calls with faults and 6 without. Radar: 8 pulses, one more than the
threshold and a burst of noise. camsnap: a ring of 2 instead of 4, two faults.

Deadlock is checked in `ota` and `receive`. The others may stop: a manager whose
wake-up was lost (`cmd`), a removed driver (`sdio`), bounded calls (`transmit`,
`station`, `ap`, `radar`), a stopped camsnap (`board`).

Fairness, always in one setting and only for what the code or the kernel
schedules. `ota`: U-Boot runs when the board is powered, a started fwup task goes
on, the guard validates a healthy firmware, heart or the watchdog restarts an
unhealthy one (`WATCHDOG_NOWAYOUT` and heart are configured); nothing obliges the
operator and power cuts are always allowed, but Recovers asks that they do not
strike for ever exactly while U-Boot runs. `cmd`: threads run, timers expire, and
a sender back from its wait gets the spinlock, which is a queue in this kernel
(strong fairness of `Return`); the firmware need not answer. `receive`,
`transmit`, `sdio`: timers expire, handlers, work items, tasklets and threads
run; the firmware frees its buffers, and confirms. `station`, `ap`: threads run
and the firmware answers and ends what it began. `board`: the daemon runs, the
camera delivers, the supervisor restarts it.

## 4. Findings and claims the code does not keep

Findings with a run of their own:

1. `recovery_path`: `upgrade` rewrites `extlinux.conf` after the dtb and before
   the root file system, in place. Interrupted there, and with the environment
   then torn (for instance by the retry of the upgrade), the recovery boot finds
   a torn file or an incomplete slot; the documents say a bad environment cannot
   brick the device.
2. `prevent_revert_running`: "Check that we're running on B" checks which slot
   is active, so between an upgrade and the reboot the running slot is erased.
3. `txq_credits`: `rwnx_tx_retry` adds a credit that nothing takes away;
   `credits` is a signed byte that starts at 64, and the 64th retry trips
   `BUG_ON(txq->credits <= 0)`.

The properties in this table state what a comment or a document says, and TLC
finds them violated in an instance with the constants given (the module's own
`Spec`, or `LiveSpec` for the temporal ones); where a module chooses its inputs from
`Allows`, `ScanAllows` or `RocAllows`, the inputs of the one set given. The definitions are in the modules;
the passing runs check the conditions under which those that have such conditions
do hold.

| Property | Instance | Where | What happens, and what is claimed |
| --- | --- | --- | --- |
| FirmwareUpdate!TrustedActive | `RuleSets = {SafetyRules}` | fwup-ops.conf:113 | `revert` writes `nerves_fw_validated=1` also for a slot U-Boot reverted from; README.md:145 says new firmware is reverted "unless the application validates it" |
| FirmwareUpdate!DeltaResource | all tasks | fwup.conf:227 | the shared resource partition is a delta source: after a revert a delta upgrade stops there; fwup.conf:42 says a revert affects "only U-Boot-time display/splash" |
| CmdMgr!DeferredServed | two callers of kind `traffic` | rwnx_cmds.c:234 | `queue_sz` is read after the unlock: two always-deferred commands both read 2 and nobody wakes the worker |
| CmdMgr!LockHeld | all kinds | rwnx_cmds.c:166 | a sender that sees CRASHED unlocks without having locked; rwnx_cmds.c:47 asserts the lock |
| RxReorder!PoolConserved | `alloc_fails` | rwnx_rx.c:1744 | a recv_msdu is lost when `reord_init_sta` fails; aicwf_txrxif.h:191 "when submit frame to net, enqueue" |
| TcpAck!AllocExclusive | two `CPU` | aicwf_tcp_ack.c:583 | an index is handed out again before `busy` is set; aicwf_tcp_ack.h:68 "lock for tcp ack alloc and free" |
| TcpAck!InfoNotWithheld | `Types = {1, 2}` | aicwf_tcp_ack.c:435 | the class of an ack is not looked at; :208 "1 for ack which can be drop" |
| SdioBus!DataAwake | `data`, `command` | aicwf_sdio.c:1923 | after a pass with only a command the power thread may put the chip to sleep under the data loop; its check says "sdio state err" |
| TxQueues!LinkedOnce | `race` | sdio_host.c:109 | confirmations run without the lock; rwnx_tx.c:2177 "called with tx_lock hold" |
| TxQueues!FlowReleased | `csa` | rwnx_msg_rx.c:531 | queues restarted after a channel switch announcement are not processed; rwnx_txq.c:1224 "To be called when HW queue list is modified" |
| TxQueues!SpEnds | `ps`, `chan` | rwnx_tx.c:198 | a service period stopped by another reason never ends; rwnx_tx.c:153 "make sure that @pkt_req are pushed" |
| TxQueues!StuckIsFreed | `ps`, `leave` | rwnx_tx.c:1471 | a buffer queued after the flush stays; rwnx_txq.c:194 "Any buffer stuck in a queue will be freed" |
| TxQueues!FlowFlag | `ps`, `leave` | rwnx_txq.c:118 | the flag is dropped and the subqueue stays stopped; rwnx_txq.h:161 "associated netdev queue is currently stopped" |
| TxQueues!TimSet | `ps`, `chan` | rwnx_tx.c:109 | the calls that set the TIM are commented out; rwnx_tx.c:65 "Update TIM if some packet are ready" |
| TxQueues!AsleepIsLimited | `ps`, `interrupt` | rwnx_tx.c:189 | an interrupted period leaves the queue listed without a limit; rwnx_txq.c:977 "push_limit indicates the maximum" |
| HpfLimiter!RecomputedWhenMoved | a control outside its range | hpf_limiter.c:146 | clamped copies are compared with what the host wrote; :63 "only recomputed when something moves" |
| StaConnection!NoNullVif | `defer`, `roam` | rwnx_msg_rx.c:1014 | a late disconnect_ind uses a table entry that is NULL; rwnx_main.c:1262 "Ensure that we won't process disconnect ind" |
| StaConnection!NoLostConnect | none; `einval`; `sae`, `noowner` | rwnx_main.c:2387, :2442, rwnx_msg_tx.c:404 | a connect that returned 0 gets no result; rwnx_main.c:2357 "If the connection fails for some reason, call cfg80211_connect_result()" |
| ScanRequest!OnlyLent | `close`; all | rwnx_main.c:1174, :2163 | a request is given back twice, or was never given; rwnx_main.c:2122 "valid until passed to cfg80211_scan_done()" |
| RemainOnChannel!EventsMatch | all | rwnx_main.c:3736 | the cookie is read after the confirmation; rwnx_defs.h:643 "Counter used to identify RoC request" |
| RemainOnChannel!StillPending | `refuse`, `preempt` | rwnx_main.c:3966 | the element goes away while it is looked at; :3963 "Check that a RoC is already pending" |
| RemainOnChannel!FreedOnce | all | rwnx_main.c:1191 | close and the expiry both free the element |
| RemainOnChannel!NoneLost | `close`; `preempt` | rwnx_main.c:1192, rwnx_tx.c:2033 | frames stay in a queue nobody empties; rwnx_txq.c:371 "Any buffer stuck in a queue will be freed" |
| ApStations!PsAgrees | `early`; `preempt` | rwnx_main.c:2738 | a station that wakes while it is added is taken to sleep; :2682 "handling potential PS mode change indications correctly" |
| ApStations!StopDeletesAll | `lost` | rwnx_main.c:3369 | stop_ap does not wait for the staloss work; :3368 "delete any remaining STA" |
| ApStations!ProbeAnswered | `preempt` | rwnx_main.c:3493 | the cookie is read after the work was queued, and counted up (:3053) after it was answered, so one that was answered may be returned again; :3464 "must return a cookie that it later passes to cfg80211_probe_status()" |
| RadarPattern!BurstPulses | long type | rwnx_radar.c:833 | pulses closer than `pri_max` are ignored; :816 "the number of pulse in the current burst" |

Known limits that no line of the repository contradicts: with separate
environment writes a cut between `nerves_fw_active` and `nerves_fw_validated`
leaves a new firmware trusted (so Trusted and TrustTheorem ask for coalesced
writes); after a timeout a late confirmation is copied into the buffer of a
sender that has returned (CfmBufferLive asks that nothing timed out); when a
timer expires while `reord_deinit_sta` runs, the worker re-arms a timer on freed
memory (NoDangling asks that none does); a roaming station can leave
`drv_conn_state` behind (StateAgrees and DisconnectEnds ask that none roams); a
long radar's sequence still counts a burst that the full queue dropped
(`rwnx_radar.c:454` tells nobody; BurstsCounted adds `dropped`), so with the
code's 20 bursts it can count more than the window holds; as many unconfirmed
commands as data leaves buffers for, sent before the buffers are read again,
overrun the firmware (FwNotOverrun asks for fewer); when one context replaces a
withheld ack while another has transmitted for the entry for 5 ms, the timer
finds `in_send_msg` set and nobody looks at the ack again until the next one
(`aicwf_tcp_ack.c:49`; HeldConsistent with two `CPU`).

## 5. Proofs

TLAPS proves for every value of the constants:

- `BoardProofs`, the programs of the board. Of FirmwareUpdate: `TypeCorrect`; where the
  operator keeps the safety rules (`SafeOperator`: they are in every set of `RuleSets`)
  `MetadataTheorem`, `NeverBrickedTheorem`, `RunningSlotTheorem`, `GuardTheorem`,
  `UpgradeTheorem`, `DeltaTheorem`, the action property `FreezeTheorem`, and
  `TrustTheorem`, which speaks of the behaviours with coalesced writes and all rules.
  The argument is one inductive invariant,
  `IInv` (theorem `Invariance`). The properties are not inductive: that a slot is
  complete when its metadata is set depends on how far the task has come, on the
  task working on the slot that is neither active nor running, and on the active
  firmware being validated while a task that writes a slot runs. `IInv` says
  this, `InvStep` shows that each action keeps it. Assumption:
  `ConstantsAssumption`.
  `PromiseTheorem`: with coalesced writes, `Spec => Promise!Spec`. `IInv` gives
  each step its abstract counterpart; `OneWriteInv` excludes the states between two
  writes of a section. `WayBackTheorem` carries an invariant of the abstract update
  over to the code: a release on trial has one to go back to.
  `CoeffsTheorem`, `RangeTheorem` of the limiter, for all controls, values and ranges
  with `Lo <= Hi`. `WholeTheorem` of camsnap, for a
  ring of any length and any period: a reader sees no part of a picture, and the
  frame that is written is not the camera's. A file's path holds a whole picture or
  nothing because only a rename of a complete temporary file changes it, and a
  kill leaves it alone.
- `ReorderProofs`, the reordering of received frames, for every window size, number
  range and set of frames that meet `RxAssumption`: numbers that are compared lie
  less than half their range apart. `WindowTheorem` and `OrderTheorem` of the
  abstract window: what is held lies behind a hole and inside the window, and frames
  leave in order. `RefinementTheorem`: `Spec => WindowRefined`, so the same is true of
  the driver's buffer. `BufferTheorem`: BufferConsistent, whatever is in `allow`.
  The invariant `RxInv` adds where the window stands (`CtrlInv`): `Pos` is the frame
  that `ind_sn` is the number of, at most one behind the newest frame and at most a
  window before it; the held frames are sorted, distinct and behind it (`HeldInv`).
  For frames that near, `SN_LESS` of their numbers is the order of the frames.
  `reord_rxframes_process` is a fold, and what it returns for every list is
  shown without an induction theorem: the closed form (`Found`: the first hole,
  and whether a frame lies behind it) obeys the equation that defines the fold, and a
  least set where the two differ cannot exist (lemma `Processed`).
- `TransmitProofs`, what holds frames back on their way out.
  `HeldTheorem` of the ack filter, for any number of entries, connections, classes of
  ack and any limit, and one transmit context: HeldConsistent. An entry that is
  free or old is at rest (`EntryInv`), so expiry and a new connection find nothing
  withheld in it; what the context found out about the entries stays true until
  it acts (`ContextInv`). Assumptions: `Constants`, `OneContext`; with two contexts
  it is not true (section 4).
  `QueuesTheorem` of the transmit queues, for any queues in any order, hardware queues,
  credits, stop levels and numbers of buffers, and every set of inputs:
  QueuesConsistent. A queue by itself is sound (`Sound`): it is linked as
  often as its flag says, has for a push limit the buffers and the credits, and no
  limit but while its peer sleeps. Because a buffer is in one place only
  (`Placed`), the last retry is found where the code looks for it.
  The peer's state says which queues are in use and which sleep (`PeerInv`),
  the confirmation under way is about a queue that still waits to be linked
  (`CfmInv`), and the counters are sums (`Totals`): `pkt_ready` that of the lengths
  while the peer sleeps, `sp_cnt` that of the limits, and no less than it once the peer
  has woken, which clears the limits and keeps the counter, or begun to leave. Sums
  over a set of queues are what a fold computes; that any element may be
  added last, and that a sum falls by the sum of what is taken away, is shown without an
  induction theorem, by a smallest set where it is not so (lemmas `SumStep`,
  `SumLess`). Assumption: `TxqAssumption`. The conditions are those of the
  property: confirmations serialised (no `race`), retries that have not made the
  signed credits overflow, and for the counters no interrupted service period
  (section 4 has what goes wrong without each).
- `RadarPatternProofs`. `MultipleTheorem`: what `pde_get_multiple` returns for
  every distance, PRI and tolerance; `MultipleCorrectTheorem`
  states it of the invariant the run checks. `DetectorsTheorem`, for every table
  of types, frequencies and pulses: DetectorsConsistent. A detector's row of the
  invariant (`Row`) adds what its counts rest on: no detector saw a pulse later
  than the last one; a short type's queue holds every pulse seen since its
  oldest, so that a new sequence counts them all; a long type's sequence has a
  deadline no later than a window after each queued burst, so that none leaves
  the queue before the sequence looks at it. Two detectors next to each other
  (`Apart`) stay idle because an active neighbour takes the pulse.
  `TrainTheorem` and `RealTheorem`, of the short types: TrainDetected and PatternReal.
  `Track` adds that the pulses a sequence counts are linked, each within the tolerance
  of the one before, so that n of them are within n - 1 tolerances; that no sequence
  passes the check, so that one that does after a pulse is one the pulse joined or
  started; and that the queue holds the whole window until as many pulses came as it
  takes. The last pulse of a train then starts a sequence that counts the train, or one
  that counts more is there and keeps it from being made (`longest`): either passes
  (`Enough`), since its matching and its false pulses are together no more than the
  pulses since the reset. Assumption: `RadarAssumption`, which says of short types what
  the tables do (`rwnx_radar.c:104`, `:149`): one PRI, a threshold between 2 and the
  pulses of a burst, and PRIs of at least two tolerances. Interleaved and weather
  types, with several PRIs or a threshold by the PRI, have no such statement.
- `CmdMgrProofs`. `ListTheorem` and `AnswerTheorem`, for any number of callers of
  any kinds: list, counter and entries agree, the pool never runs out, one
  command is outstanding and its confirmation reaches its sender. `IInv`
  (theorem `Inductive`) says who holds each entry: the list, a caller between
  allocation and return, or the worker with the one it unlinked. The
  pool suffices by counting (`EntryFree`): the used entries are the callers',
  the queue's, at most its limit, and the worker's. Assumption:
  `CmdMgrAssumption`, which the code's 40 entries meet for 23 senders.
- `SdioBusProofs`. `WaitersTheorem`: no lost wake-up of the three threads,
  `BuffersTheorem`: the firmware's buffers suffice, for all queue lengths and
  buffer counts with `Thresh < Buffers` and `Thresh < tx_aggr_counter`. `IInv`
  bounds what the copies can be wrong by at each point of the threads: the counts
  by the frames in hand, `fw_avail_bufcnt` by the commands sent since it was
  read. The attempt showed that FwNotOverrun without its condition held in the
  run only by the bound on unconfirmed commands. Assumption: `SdioAssumption`.
- `ApStationsProofs`. `StationsTheorem`, for any stations, any table, any sets of
  inputs and any bounds: StationsAgree. The property speaks of quiet states; the
  invariant says what holds on the way there. `PlaceInv`: each entry the firmware
  has is in exactly one place, listed by the driver, in an addition not yet filled
  in, in the hands of the call or of the staloss work, or in a delete command
  under way; so two of them never delete the same entry and an entry in use again
  is not taken for the old one. `QueueInv`: only the first command has
  somebody waiting for it, and the firmware answers one at a time. `CalmInv`, for
  `allow = {}`: of each station the last indication under way, or else the
  driver's flag, says whether it sleeps, and stop_ap has emptied the list and
  waited for every deletion before it sends its own command. Assumption:
  `ApAssumption`.
- `StationProofs`, whatever may go wrong on a station interface and for any bounds.
  `ApTheorem`: ApRecorded. The invariant speaks of the messages under way: there is
  a set of them (`Story`) after which the firmware has a connection, such that
  every indication fits where it stands; it begins with what the driver recorded
  and ends with what the firmware does. So a disconnect_ind always comes to a driver
  that has an access point, however late it is, and the driver never drops one.
  `CmdInv`, without `defer` and with a manager that works: the call waits for the
  one command in flight, and the confirmation of the removal is the last thing the
  firmware says; without `sae` the manager always works (`PlainInv`).
  `LinkTheorem`: LinkAgrees, in the behaviours its conjuncts name. A second story
  (`Tale`) is what the messages under way will tell the stack, for which a roam is a
  connection that goes on: it begins with what the stack knows, once the receive
  thread is done (`StackNow`), and ends with the firmware. The two can differ in one
  case, a connection that came up while it was being given up (`Unwanted`), whose end
  is due because the firmware knows or is about to be told (`LeaveInv`).
  `StayInv`, where nobody roams: `drv_conn_state` agrees with the channel context, or
  something that sets it is under way. That nothing under way means no change takes an
  induction along the queue (`NoLink`), over a set of numbers by its least element
  (`NatMin`).
  `ScanTheorem`: RightScan. A scan is in one place, in the firmware, on its way or
  in the handler (`PlaceInv`), and it is the one that the driver knows until
  rwnx_close forgets it (`OwnInv`), which waits for the end to come before the
  confirmation of the cancellation (`AnswerInv`).
  `RocTheorem`: RocMatches. `ToldInv` and `OwnAreSilent` hold whatever may happen:
  the driver's own request is marked from its making, and `counted` decides who is
  told. Without preemption and close, a request ends once (`EndInv`): its end is in
  the firmware, on its way or in the handler, and so long the driver keeps its
  element and its cookie (`CookieInv`); nothing is heard of it before its
  confirmation (`BeginInv`); frames wait only for a request that is active and
  whose end flushes them (`QueueInv`). `ExpiryTheorem` is the action property of
  RequestsEnd about exp_ind. Assumptions: `StaAssumption`, `ScanAssumption`,
  `RocAssumption`.

The assumptions on constants are named in the modules that declare them and TLC
evaluates them on the runs; those of CamSnap and TcpAck, which runs instantiate with
several values, are hypotheses of their theorems (`Constants`), true of each of them.

## 6. Only model-checked

- All liveness: fairness and ENABLED are out of the prover's reach. Every invariant
  of a passing run is stated by a theorem of section 5.

## 7. Not modelled

- Update: `factory-reset` and `provision` (application partition and serial
  number only); two fwup processes at once (`fwup-ops.conf:198`: both rewrite the
  one environment, nothing serialises them); damage to the FAT's own tables;
  reordering of eMMC writes across fwup operations; U-Boot's binary.
- Command manager: drain and deinit (`rwnx_cmds.c:500`: drain completes every
  command and the woken senders unlink them again); starvation of a sender that
  polls for an empty list (`rwnx_cmds.c:158`). That `rwnx_send_msg` returns 0
  whatever happened (`rwnx_msg_tx.c:404`) is modelled in StaConnection.
- Bus: probing, register access, block mode; `CONFIG_OOB`, `TEMP_CONTROL`,
  `TX_NETIF_FLOWCTRL` are off in this build.
- Receive: header parsing, A-MSDU splitting, and defragmentation, whose timers
  race with frames and with the removal of the interface (`rwnx_rx.c:1895`,
  `:2245`, `rwnx_main.c:5911`).
- Transmit: broadcast, unknown-peer queues, TDLS, VLAN, the descriptor ring.
- Glue: P2P, mesh, TDLS, keys, beacons, monitor mode; channel switch announcement
  (`rwnx_main.c:714`, `:4080`); the channel availability check of DFS
  (`rwnx_radar.c:1294`), where the work, the cancel and `start_ap` share
  `cac.vif` under different locks.
- `aic8800_bsp`: firmware download and power sequencing, register tables behind
  one lock. `aic8800_btlpm`, `btsdio`, the USB paths and scheduled scan are
  not built. debugfs, firmware traces, the bridge extension, beamforming and
  MU-MIMO are diagnostics or disabled.
- The loading scripts run once and end in a modprobe. Of the kernel patches only
  the deferred probe of the Ethernet driver has a loop, a counter up to 30.
- Data: firmware arrays, the regulatory database, GL and ISP headers, `lmac_msg.h`
  and the other message layouts. Together with the files that are not built
  they are most of the repository's lines, which is why the map covers a small
  share of them.

## 8. Plan

1. *done* FirmwareUpdate and CmdMgr with their theorems and runs.
2. *done* The abstract update and its refinement; bus, reordering with its refinement, ack filter, transmit queues,
   connections, scans, RoC, access point, radar patterns, camsnap, limiter.
3. *done* Theorems of CmdMgr, SdioBus, CamSnap, the limiter, the detectors and
   patterns of RadarPattern, the ack filter, the reordering and its refinement, ApStations,
   ApRecorded, LinkAgrees, RightScan and RocMatches of a
   station, and the transmit queues.
4. Drain and deinit of the command manager; the channel availability check;
   defragmentation; channel switch announcements.
