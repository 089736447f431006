------------------------------- MODULE SdioBus -------------------------------
(***************************************************************************)
(* The SDIO bus of the aic8800 driver (aicwf_sdio.c, aicwf_txrxif.c): the  *)
(* transmit thread that sends commands and aggregated data against the     *)
(* firmware's free buffers, the interrupt and the receive thread, the      *)
(* power thread that puts the chip to sleep behind an inactivity timer,    *)
(* system suspend, and removal.  Frames are counted, not told apart.  A    *)
(* semaphore's holder is read off the program counters.                    *)
(***************************************************************************)
EXTENDS Integers

CONSTANTS QMax, RxMax,   \* TXQLEN and MAX_RXQLEN
          Thresh,        \* DATA_FLOW_CTRL_THRESH: buffers kept for commands
          Buffers,       \* the firmware's receive buffers
          tx_aggr_counter, \* most frames in one transfer
          MaxTrgg,       \* bound on what a completion counts
          MaxMade,       \* bound on the frames and unconfirmed commands
          Inputs         \* which of AllInputs happen in the instance

AllInputs == {"data", "command", "unconfirmed", "receive", "nomemory", "scan", "suspend", "remove"}

ASSUME SdioAssumption == /\ {QMax, RxMax, Thresh, Buffers, tx_aggr_counter, MaxTrgg, MaxMade} \subseteq Nat \ {0}
                         /\ Thresh < Buffers /\ Thresh < tx_aggr_counter /\ Inputs \subseteq AllInputs

VARIABLES
  bus,          \* bus_if->state
  rm,           \* how far aicwf_sdio_remove has come
  state,        \* sdiodev->state of the chip
  timer,        \* the inactivity timer is pending
  suspended, scanning,
  txpc, bustx_trgg, txq, tx_pktcnt, aggr_count, fw_avail_bufcnt, txnow,   \* transmit thread
  cmd_txstate, cmd_buf,   \* the one command buffer is to be sent; the kind of command in it
  asked,        \* the command manager waits for an answer
  faults,       \* what befell commands: "refused" (no firmware buffer in eleven
                \* rounds of polling), "bus" (transfer failed), "overwritten"
  free, held,   \* free buffers of the firmware; one of the others holds a command
  made, unasked,   \* frames and unconfirmed commands so far; only the latter
  irqpc, rxpc, busrx_trgg, rxq, rx_cnt,   \* interrupt and receive thread
  leaked,       \* a failed allocation left rx_cnt too high
  pwrpc, pwrctrl_trgg   \* power thread

chip == <<state, timer>>
load == <<txq, tx_pktcnt, aggr_count, fw_avail_bufcnt, txnow>>
tx == <<txpc, bustx_trgg, load>>
cmd == <<cmd_txstate, cmd_buf, asked, faults, held>>
rx == <<irqpc, rxpc, busrx_trgg, rxq, rx_cnt, leaked>>
pwr == <<pwrpc, pwrctrl_trgg>>
env == <<bus, rm, suspended, scanning>>
sent == <<made, unasked>>
vars == <<chip, tx, cmd, rx, pwr, env, free, sent>>

TypeOK ==
  /\ bus \in {"up", "down"} /\ rm \in {"no", "down", "stopped", "txgone", "rxgone", "gone"}
  /\ state \in {"active", "sleep"}
  /\ timer \in BOOLEAN /\ suspended \in BOOLEAN /\ scanning \in BOOLEAN /\ txnow \in BOOLEAN
  /\ cmd_txstate \in BOOLEAN /\ asked \in BOOLEAN /\ held \in BOOLEAN /\ leaked \in BOOLEAN
  /\ cmd_buf \in {"confirmed", "unconfirmed"} /\ faults \subseteq {"refused", "bus", "overwritten"}
  /\ txpc \in {"wait", "wake", "cmd", "msg", "data", "loop", "aggr", "exit"}
  /\ irqpc \in {"idle", "inc", "check"} /\ rxpc \in {"wait", "deq", "proc", "wake", "exit"}
  /\ pwrpc \in {"wait", "sleep", "asleep", "exit"}
  /\ bustx_trgg \in 0 .. MaxTrgg /\ busrx_trgg \in 0 .. MaxTrgg /\ pwrctrl_trgg \in 0 .. MaxTrgg
  /\ txq \in 0 .. QMax /\ tx_pktcnt \in 0 .. QMax + 1 /\ aggr_count \in 0 .. Buffers
  /\ fw_avail_bufcnt \in 0 .. Buffers /\ free \in Int
  /\ rxq \in 0 .. RxMax /\ rx_cnt \in -1 .. RxMax + 2
  /\ made \in 0 .. MaxMade /\ unasked \in 0 .. MaxMade

(* aicwf_sdio_bus_init and aicwf_bus_init: the chip sleeps, the threads wait. *)
Init ==
  /\ bus = "up" /\ rm = "no" /\ state = "sleep" /\ timer = FALSE /\ suspended = FALSE /\ scanning = FALSE
  /\ txpc = "wait" /\ bustx_trgg = 0 /\ txq = 0 /\ tx_pktcnt = 0
  /\ aggr_count = 0 /\ fw_avail_bufcnt = 0 /\ txnow = FALSE
  /\ cmd_txstate = FALSE /\ cmd_buf = "confirmed" /\ asked = FALSE /\ faults = {} /\ free = Buffers /\ held = FALSE /\ made = 0 /\ unasked = 0
  /\ irqpc = "idle" /\ rxpc = "wait" /\ busrx_trgg = 0 /\ rxq = 0 /\ rx_cnt = 0 /\ leaked = FALSE
  /\ pwrpc = "wait" /\ pwrctrl_trgg = 0

complete(n) == IF n < MaxTrgg THEN n + 1 ELSE n
Semaphore == pwrpc # "asleep"                                   \* pwrctl_wakeup_sema is free
TxCtl == txpc \notin {"msg", "loop", "aggr"}                    \* txctl_sema is free

-----------------------------------------------------------------------------
(* Power state *)

(* aicwf_sdio_pwr_stctl(SDIO_ACTIVE_ST) with aicwf_sdio_wakeup. *)
PwrActive ==
  \/ bus = "up" /\ Semaphore /\ state' = "active" /\ timer' = TRUE
  \/ bus = "down" /\ UNCHANGED chip

Idle == tx_pktcnt <= 0 /\ ~cmd_txstate /\ rx_cnt = 0
MaySleep == state = "active" /\ ~scanning /\ Idle

aicwf_sdio_bus_pwrctl ==
  /\ timer /\ timer' = FALSE
  /\ pwrctrl_trgg' = IF bus = "up" THEN complete(pwrctrl_trgg) ELSE pwrctrl_trgg
  /\ UNCHANGED <<state, tx, cmd, rx, pwrpc, env, free, sent>>

(* aicwf_sdio_pwrctl_thread: the counters are looked at without a lock. *)
BugBusyForgets ==
  /\ pwrpc = "wait" /\ pwrctrl_trgg > 0
  /\ pwrctrl_trgg' = pwrctrl_trgg - 1
  /\ pwrpc' = IF bus = "up" /\ Idle THEN "sleep" ELSE "wait"
  /\ UNCHANGED <<chip, tx, cmd, rx, env, free, sent>>
aicwf_sdio_pwrctl_thread ==
  /\ pwrpc = "wait" /\ pwrctrl_trgg > 0
  /\ pwrctrl_trgg' = pwrctrl_trgg - 1
  /\ pwrpc' = IF bus = "up" /\ Idle THEN "sleep" ELSE "wait"
  /\ timer' = (timer \/ (bus = "up" /\ ~Idle))
  /\ UNCHANGED <<state, tx, cmd, rx, env, free, sent>>

(* aicwf_sdio_sleep_allow looks again, under the semaphore. *)
BugNoSecondLook ==
  /\ pwrpc = "sleep"
  /\ pwrpc' = IF bus = "up" /\ state = "active" THEN "asleep" ELSE "wait"
  /\ UNCHANGED <<state, timer, tx, cmd, rx, pwrctrl_trgg, env, free, sent>>
BugNoRearm ==
  /\ pwrpc = "sleep"
  /\ pwrpc' = IF bus = "up" /\ MaySleep THEN "asleep" ELSE "wait"
  /\ UNCHANGED <<state, timer, tx, cmd, rx, pwrctrl_trgg, env, free, sent>>
aicwf_sdio_sleep_allow ==
  /\ pwrpc = "sleep"
  /\ pwrpc' = IF bus = "up" /\ MaySleep THEN "asleep" ELSE "wait"
  /\ timer' = (timer \/ (bus = "up" /\ state = "active" /\ ~MaySleep))
  /\ UNCHANGED <<state, tx, cmd, rx, pwrctrl_trgg, env, free, sent>>

Sleep ==
  /\ pwrpc = "asleep" /\ pwrpc' = "wait"
  /\ state' = "sleep" /\ timer' = FALSE
  /\ UNCHANGED <<tx, cmd, rx, pwrctrl_trgg, env, free, sent>>

(* One attempt to sleep, then the bus is suspended whatever came of it. *)
aicwf_sdio_suspend ==
  /\ "suspend" \in Inputs /\ ~suspended /\ rm = "no" /\ suspended' = TRUE
  /\ IF state = "active"
     THEN /\ TxCtl /\ Semaphore
          /\ state' = IF MaySleep THEN "sleep" ELSE "active"
          /\ timer' = ~MaySleep
     ELSE UNCHANGED chip
  /\ UNCHANGED <<tx, cmd, rx, pwr, bus, rm, scanning, free, sent>>

aicwf_sdio_resume ==
  /\ suspended /\ suspended' = FALSE
  /\ PwrActive
  /\ UNCHANGED <<tx, cmd, rx, pwr, bus, rm, scanning, free, sent>>

Scan == /\ "scan" \in Inputs /\ rm = "no" /\ scanning' = ~scanning
        /\ UNCHANGED <<chip, tx, cmd, rx, pwr, bus, rm, suspended, free, sent>>

-----------------------------------------------------------------------------
(* Producers *)

aicwf_sdio_bus_txdata ==
  /\ "data" \in Inputs /\ bus = "up" /\ ~suspended /\ made < MaxMade /\ made' = made + 1
  /\ IF txq < QMax
     THEN txq' = txq + 1 /\ tx_pktcnt' = tx_pktcnt + 1 /\ bustx_trgg' = complete(bustx_trgg)
     ELSE UNCHANGED <<txq, tx_pktcnt, bustx_trgg>>
  /\ UNCHANGED <<chip, txpc, aggr_count, fw_avail_bufcnt, txnow, cmd, rx, pwr, env, free, unasked>>

(* aicwf_set_cmd_tx builds the command in the one buffer, without a lock, and
   aicwf_sdio_bus_txmsg triggers the thread. *)
aicwf_sdio_bus_txmsg(kind) ==
  /\ bus = "up" /\ ~suspended
  /\ cmd_txstate' = TRUE /\ cmd_buf' = kind /\ bustx_trgg' = complete(bustx_trgg)
  /\ faults' = faults \union (IF cmd_txstate THEN {"overwritten"} ELSE {})
  /\ UNCHANGED <<chip, txpc, load, held, rx, pwr, env, free>>

(* The command manager has one command outstanding at a time. *)
CmdMgrSends ==
  /\ "command" \in Inputs /\ ~asked /\ asked' = TRUE
  /\ aicwf_sdio_bus_txmsg("confirmed") /\ UNCHANGED sent

(* rwnx_send_msg without a confirmation asks nobody. *)
SendUnconfirmed ==
  /\ "unconfirmed" \in Inputs /\ made < MaxMade /\ made' = made + 1 /\ unasked' = unasked + 1
  /\ aicwf_sdio_bus_txmsg("unconfirmed") /\ UNCHANGED asked

(* The firmware has dealt with a frame, or with the command, which it answers. *)
FwFrees ==
  /\ Buffers - free > (IF held THEN 1 ELSE 0) /\ free' = free + 1
  /\ UNCHANGED <<chip, tx, cmd, rx, pwr, env, sent>>

FwAnswers ==
  /\ held /\ held' = FALSE /\ asked' = FALSE /\ free' = free + 1
  /\ UNCHANGED <<chip, tx, cmd_txstate, cmd_buf, faults, rx, pwr, env, sent>>

-----------------------------------------------------------------------------
(* sdio_bustx_thread *)

TxGoto(p) == txpc' = p

BugDataOnly ==
  /\ txpc = "wait" /\ bustx_trgg > 0 /\ bustx_trgg' = bustx_trgg - 1
  /\ TxGoto(CASE bus = "down" -> "exit"
              [] bus = "up" /\ tx_pktcnt > 0 -> "wake"
              [] OTHER -> "wait")
  /\ UNCHANGED <<chip, load, cmd, rx, pwr, env, free, sent>>
TxTriggered ==
  /\ txpc = "wait" /\ bustx_trgg > 0 /\ bustx_trgg' = bustx_trgg - 1
  /\ TxGoto(CASE bus = "down" -> "exit"
              [] bus = "up" /\ (tx_pktcnt > 0 \/ cmd_txstate) -> "wake"
              [] OTHER -> "wait")
  /\ UNCHANGED <<chip, load, cmd, rx, pwr, env, free, sent>>

TxWakes ==
  /\ txpc = "wake" /\ PwrActive
  /\ TxGoto("cmd") \/ (bus = "down" /\ TxGoto("wait"))
  /\ UNCHANGED <<bustx_trgg, load, cmd, rx, pwr, env, free, sent>>

TxCommand ==
  /\ txpc = "cmd"
  /\ TxGoto(CASE ~cmd_txstate -> "data"
              [] cmd_txstate /\ state = "active" -> "msg"
              [] OTHER -> "wait")
  /\ UNCHANGED <<chip, bustx_trgg, load, cmd, rx, pwr, env, free, sent>>

(* aicwf_sdio_tx_msg: polls for a buffer and sends; the bus may fail.  Without
   a buffer cmd_txstate stays set. *)
aicwf_sdio_tx_msg ==
  /\ txpc = "msg" /\ TxGoto("data")
  /\ \/ /\ free > 0 /\ cmd_txstate' = FALSE
        /\ \/ free' = free - 1 /\ held' = (held \/ cmd_buf = "confirmed") /\ UNCHANGED faults
           \/ faults' = faults \union {"bus"} /\ UNCHANGED <<free, held>>
     \/ free <= 0 /\ faults' = faults \union {"refused"} /\ UNCHANGED <<free, held, cmd_txstate>>
  /\ UNCHANGED <<chip, bustx_trgg, load, cmd_buf, asked, rx, pwr, env, sent>>

aicwf_sdio_flow_ctrl == IF free <= Thresh THEN 0
                        ELSE IF free > tx_aggr_counter THEN tx_aggr_counter ELSE free

TxData ==
  /\ txpc = "data" /\ TxGoto(IF state = "active" THEN "loop" ELSE "wait")
  /\ fw_avail_bufcnt' = IF state = "active" /\ txq > 0 THEN aicwf_sdio_flow_ctrl ELSE fw_avail_bufcnt
  /\ UNCHANGED <<chip, bustx_trgg, txq, tx_pktcnt, aggr_count, txnow, cmd, rx, pwr, env, free, sent>>

(* aicwf_sdio_aggr_send: what is aggregated goes out in one transfer. *)
aicwf_sdio_aggr_send ==
  /\ fw_avail_bufcnt' = fw_avail_bufcnt - aggr_count
  /\ free' = free - aggr_count /\ aggr_count' = 0

BugLeavesEarly ==
  /\ txpc = "loop" /\ (txq = 0 \/ bus = "down" \/ fw_avail_bufcnt <= Thresh)
  /\ TxGoto("wait")
  /\ UNCHANGED <<chip, bustx_trgg, load, cmd, rx, pwr, env, free, sent>>
TxLeaves ==
  /\ txpc = "loop" /\ (txq = 0 \/ bus = "down" \/ (fw_avail_bufcnt <= Thresh /\ cmd_txstate))
  /\ TxGoto("wait")
  /\ UNCHANGED <<chip, bustx_trgg, load, cmd, rx, pwr, env, free, sent>>

InLoop == txpc = "loop" /\ txq > 0 /\ bus = "up"

TxPolls ==
  /\ InLoop /\ fw_avail_bufcnt <= Thresh /\ ~cmd_txstate
  /\ fw_avail_bufcnt' = aicwf_sdio_flow_ctrl
  /\ UNCHANGED <<chip, txpc, bustx_trgg, txq, tx_pktcnt, aggr_count, txnow, cmd, rx, pwr, env, free, sent>>

BugNoReserve == aggr_count = fw_avail_bufcnt
Full == aggr_count = fw_avail_bufcnt - Thresh

(* aicwf_sdio_send: a full aggregate is sent, else one more frame joins it. *)
TxTakes ==
  /\ InLoop /\ fw_avail_bufcnt > Thresh /\ txnow' = cmd_txstate
  /\ IF Full
     THEN /\ aicwf_sdio_aggr_send /\ TxGoto(IF txnow' THEN "wait" ELSE "loop")
          /\ UNCHANGED txq
     ELSE /\ txq' = txq - 1 /\ aggr_count' = aggr_count + 1 /\ TxGoto("aggr")
          /\ UNCHANGED <<fw_avail_bufcnt, free>>
  /\ UNCHANGED <<chip, bustx_trgg, tx_pktcnt, cmd, rx, pwr, env, sent>>

(* "when aggr finish or there is cmd to send, just send this aggr pkt to fw" *)
BugForgetsCmd ==
  /\ txpc = "aggr"
  /\ IF tx_pktcnt = 1 \/ Full THEN aicwf_sdio_aggr_send ELSE UNCHANGED <<aggr_count, fw_avail_bufcnt, free>>
  /\ tx_pktcnt' = tx_pktcnt - 1 /\ TxGoto(IF txnow THEN "wait" ELSE "loop")
  /\ UNCHANGED <<chip, bustx_trgg, txq, txnow, cmd, rx, pwr, env, sent>>
TxAggregated ==
  /\ txpc = "aggr"
  /\ IF tx_pktcnt = 1 \/ txnow \/ Full THEN aicwf_sdio_aggr_send ELSE UNCHANGED <<aggr_count, fw_avail_bufcnt, free>>
  /\ tx_pktcnt' = tx_pktcnt - 1 /\ TxGoto(IF txnow THEN "wait" ELSE "loop")
  /\ UNCHANGED <<chip, bustx_trgg, txq, txnow, cmd, rx, pwr, env, sent>>

-----------------------------------------------------------------------------
(* aicwf_sdio_hal_irqhandler and sdio_busrx_thread *)

aicwf_sdio_enq_rxpkt ==
  /\ "receive" \in Inputs /\ irqpc = "idle" /\ bus = "up" /\ ~suspended
  /\ IF rxq < RxMax THEN rxq' = rxq + 1 /\ irqpc' = "inc" ELSE irqpc' = "check" /\ UNCHANGED rxq
  /\ UNCHANGED <<chip, tx, cmd, rxpc, busrx_trgg, rx_cnt, leaked, pwr, env, free, sent>>

IrqCounts ==
  /\ irqpc = "inc" /\ irqpc' = "check" /\ rx_cnt' = rx_cnt + 1
  /\ UNCHANGED <<chip, tx, cmd, rxpc, busrx_trgg, rxq, leaked, pwr, env, free, sent>>

(* The receive thread is woken only for the first frame. *)
BugWakesEmpty ==
  /\ irqpc = "check" /\ irqpc' = "idle"
  /\ busrx_trgg' = IF rx_cnt = 0 THEN complete(busrx_trgg) ELSE busrx_trgg
  /\ UNCHANGED <<chip, tx, cmd, rxpc, rxq, rx_cnt, leaked, pwr, env, free, sent>>
IrqTriggers ==
  /\ irqpc = "check" /\ irqpc' = "idle"
  /\ busrx_trgg' = IF rx_cnt = 1 THEN complete(busrx_trgg) ELSE busrx_trgg
  /\ UNCHANGED <<chip, tx, cmd, rxpc, rxq, rx_cnt, leaked, pwr, env, free, sent>>

RxTriggered ==
  /\ rxpc = "wait" /\ busrx_trgg > 0 /\ busrx_trgg' = busrx_trgg - 1
  /\ rxpc' = IF bus = "up" THEN "deq" ELSE "exit"
  /\ UNCHANGED <<chip, tx, cmd, irqpc, rxq, rx_cnt, leaked, pwr, env, free, sent>>

RxDequeues ==
  /\ rxpc = "deq"
  /\ IF rxq = 0 THEN rxpc' = "wake" /\ UNCHANGED rxq ELSE rxpc' = "proc" /\ rxq' = rxq - 1
  /\ UNCHANGED <<chip, tx, cmd, irqpc, busrx_trgg, rx_cnt, leaked, pwr, env, free, sent>>

(* The block is taken apart; when a message cannot be copied the thread
   returns at once, rx_cnt as it was. *)
aicwf_process_rxframes ==
  /\ rxpc = "proc"
  /\ \/ rxpc' = "deq" /\ rx_cnt' = rx_cnt - 1 /\ UNCHANGED leaked
     \/ "nomemory" \in Inputs /\ ~leaked /\ rxpc' = "wait" /\ leaked' = TRUE /\ UNCHANGED rx_cnt
  /\ UNCHANGED <<chip, tx, cmd, irqpc, busrx_trgg, rxq, pwr, env, free, sent>>

RxWakes ==
  /\ rxpc = "wake" /\ PwrActive /\ rxpc' = "wait"
  /\ UNCHANGED <<tx, cmd, irqpc, busrx_trgg, rxq, rx_cnt, leaked, pwr, env, free, sent>>

-----------------------------------------------------------------------------
(* aicwf_sdio_remove *)

aicwf_sdio_remove ==
  /\ "remove" \in Inputs /\ rm = "no" /\ ~suspended /\ rm' = "down" /\ bus' = "down"
  /\ UNCHANGED <<chip, tx, cmd, rx, pwr, suspended, scanning, free, sent>>

(* aicwf_sdio_bus_stop and complete_all of the transmit thread's trigger. *)
BugNoCompleteAll ==
  /\ rm = "down" /\ irqpc = "idle" /\ TxCtl /\ rm' = "stopped"
  /\ timer' = FALSE /\ txq' = 0
  /\ UNCHANGED <<state, txpc, bustx_trgg, tx_pktcnt, aggr_count, fw_avail_bufcnt, txnow, cmd, rx, pwr, bus, suspended, scanning, free, sent>>
aicwf_sdio_bus_stop ==
  /\ rm = "down" /\ irqpc = "idle" /\ TxCtl /\ rm' = "stopped"
  /\ timer' = FALSE /\ txq' = 0 /\ bustx_trgg' = MaxTrgg
  /\ UNCHANGED <<state, txpc, tx_pktcnt, aggr_count, fw_avail_bufcnt, txnow, cmd, rx, pwr, bus, suspended, scanning, free, sent>>

(* aicwf_bus_deinit and aicwf_tx_deinit wait for the thread. *)
aicwf_bus_deinit ==
  /\ rm = "stopped" /\ txpc = "exit" /\ rm' = "txgone" /\ busrx_trgg' = MaxTrgg
  /\ UNCHANGED <<chip, tx, cmd, irqpc, rxpc, rxq, rx_cnt, leaked, pwr, bus, suspended, scanning, free, sent>>

aicwf_rx_deinit ==
  /\ rm = "txgone" /\ rxpc = "exit" /\ rm' = "rxgone" /\ rxq' = 0 /\ pwrctrl_trgg' = MaxTrgg
  /\ UNCHANGED <<chip, tx, cmd, irqpc, rxpc, busrx_trgg, rx_cnt, leaked, pwrpc, bus, suspended, scanning, free, sent>>

aicwf_sdio_release ==
  /\ rm = "rxgone" /\ pwrpc = "wait" /\ rm' = "gone" /\ pwrpc' = "exit" /\ timer' = FALSE
  /\ UNCHANGED <<state, tx, cmd, rx, pwrctrl_trgg, bus, suspended, scanning, free, sent>>

-----------------------------------------------------------------------------
TxStep == \/ TxTriggered \/ TxWakes \/ TxCommand \/ aicwf_sdio_tx_msg \/ TxData
          \/ TxLeaves \/ TxPolls \/ TxTakes \/ TxAggregated
IrqStep == IrqCounts \/ IrqTriggers
RxStep == RxTriggered \/ RxDequeues \/ aicwf_process_rxframes \/ RxWakes
PwrStep == aicwf_sdio_pwrctl_thread \/ aicwf_sdio_sleep_allow \/ Sleep
RemoveStep == aicwf_sdio_bus_stop \/ aicwf_bus_deinit \/ aicwf_rx_deinit \/ aicwf_sdio_release

Next ==
  \/ TxStep \/ IrqStep \/ RxStep \/ PwrStep \/ RemoveStep \/ aicwf_sdio_bus_pwrctl
  \/ aicwf_sdio_bus_txdata \/ CmdMgrSends \/ SendUnconfirmed \/ FwFrees \/ FwAnswers
  \/ aicwf_sdio_enq_rxpkt \/ aicwf_sdio_suspend \/ aicwf_sdio_resume \/ Scan
  \/ aicwf_sdio_remove

(* The threads and the interrupt run, timers expire, the firmware works
   through its buffers, a suspended system is resumed. *)
Fairness ==
  /\ WF_vars(TxStep) /\ WF_vars(IrqStep) /\ WF_vars(RxStep) /\ WF_vars(PwrStep)
  /\ WF_vars(RemoveStep) /\ WF_vars(aicwf_sdio_bus_pwrctl)
  /\ WF_vars(FwFrees) /\ WF_vars(FwAnswers) /\ WF_vars(aicwf_sdio_resume)

Spec == Init /\ [][Next]_vars
LiveSpec == Spec /\ Fairness

-----------------------------------------------------------------------------
(* The firmware is not sent more than it has buffers for, although the driver's
   count of them goes stale when a frame arrives after the queue was found
   empty: the reserve of Thresh makes up for the confirmed command sent since,
   and for one unconfirmed command less than Thresh. *)
FwNotOverrun == unasked < Thresh => free >= 0

(* No frame stays behind in the aggregation buffer when the thread waits. *)
AggrDrained == txpc = "wait" /\ bus = "up" => aggr_count = 0

(* A command is transferred to an awake chip only, until the bus goes down. *)
CmdAwake == txpc = "msg" /\ bus = "up" => state = "active"

(* An awake chip has a timer or the power thread looking after it. *)
ActiveIsTimed == bus = "up" /\ state = "active" => timer \/ pwrctrl_trgg > 0 \/ pwrpc # "wait"

(* The transmit thread does not wait while there is work, unless the firmware
   refused a command: nobody triggers it again for that one. *)
TxServed == txpc = "wait" /\ bus = "up" /\ (txq > 0 \/ cmd_txstate) => bustx_trgg > 0 \/ "refused" \in faults

(* With confirmed commands only, one at a time, the reserve always holds a
   buffer for a command: none is refused, and none overwritten before it left. *)
CmdBuffered == unasked = 0 => faults \subseteq {"bus"}

(* The receive thread, triggered for the first frame only, never waits with
   frames in its queue, unless an allocation failed. *)
RxServed == rxpc = "wait" /\ irqpc = "idle" /\ bus = "up" /\ rxq > 0 => busrx_trgg > 0 \/ leaked

(* The count of free firmware buffers may be stale but the reserve makes up for
   it: the firmware is not overrun, and with confirmed commands only none finds
   no buffer or is overwritten in cmd_buf before it left (aicwf_sdio_send). *)
BuffersSuffice == TypeOK /\ FwNotOverrun /\ CmdBuffered

(* No wake-up is lost: a thread that waits has nothing to do or was triggered,
   an aggregate was sent before its thread waits, a command finds the chip
   awake, and a chip that is awake has a timer that will let it sleep
   (sdio_bustx_thread, sdio_busrx_thread, aicwf_sdio_pwrctl_thread). *)
WaitersServed == TxServed /\ RxServed /\ AggrDrained /\ CmdAwake /\ ActiveIsTimed

(* The data loop's check "sdio state err": data is transferred to an awake
   chip only.
   Not kept by the code, see the README. *)
DataAwake == [][aggr_count > 0 /\ aggr_count' = 0 => state = "active"]_vars

(* A confirmed command is answered unless the bus failed, the firmware had no
   buffer, or an unconfirmed one was built in the same buffer before it left. *)
CmdAnswered == asked ~> ~asked \/ bus = "down" \/ faults # {}

(* So is every data frame. *)
DataSent == txq > 0 ~> txq = 0 \/ bus = "down" \/ "refused" \in faults

(* A bus that stays idle lets the chip sleep. *)
IdleSleeps == <>[](Idle /\ ~scanning /\ rxpc = "wait" /\ ~suspended) => []<>(state = "sleep" \/ bus = "down")

(* Removal ends: every thread leaves. *)
RemoveEnds == rm = "down" ~> rm = "gone"
=============================================================================
