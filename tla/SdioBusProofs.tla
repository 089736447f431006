---------------------------- MODULE SdioBusProofs ----------------------------
(***************************************************************************)
(* Proofs about SdioBus, for any queue lengths, number of firmware buffers *)
(* and reserve.  Each counter the threads share without a lock is tied to  *)
(* what it counts and to where the threads are.                            *)
(***************************************************************************)
EXTENDS SdioBus, TLAPS

One(b) == IF b THEN 1 ELSE 0

\* An unconfirmed command waits in cmd_buf.
Pending == cmd_txstate /\ cmd_buf = "unconfirmed"

\* Removal begins by taking the bus down, and goes on when nobody interrupts.
RemoveInv ==
  /\ bus = "up" <=> rm = "no"
  /\ rm \in {"stopped", "txgone", "rxgone", "gone"} => irqpc = "idle"
  /\ rm \in {"rxgone", "gone"} => rxpc = "exit"

\* The free buffers, the one of the confirmed command and those of unconfirmed
\* ones are at least what the driver believes, and at least the reserve.
Slack == free + One(held) + unasked - One(Pending)

BufferInv ==
  /\ free <= Buffers - One(held)
  /\ fw_avail_bufcnt <= Slack /\ Thresh <= Slack
  /\ unasked <= made
  /\ unasked = 0 => cmd_buf = "confirmed" /\ faults \subseteq {"bus"}
  /\ held => asked
  /\ cmd_txstate /\ cmd_buf = "confirmed" => asked /\ ~held

\* What is aggregated is less than the buffers at hand, and frames of the
\* same burst are still to come.
AggrInv ==
  /\ bus = "up" => tx_pktcnt = txq + One(txpc = "aggr")
  /\ txpc = "aggr" => tx_pktcnt > 0
  /\ txpc \in {"wake", "cmd", "msg", "data"} => aggr_count = 0
  /\ txpc = "wait" /\ bus = "up" => aggr_count = 0
  /\ txpc = "loop" /\ aggr_count > 0 => /\ aggr_count < fw_avail_bufcnt - Thresh
                                        /\ bus = "up" => txq > 0
  /\ txpc = "aggr" => aggr_count > 0 /\ aggr_count <= fw_avail_bufcnt - Thresh

\* The chip does not sleep while the transmit thread has work it woke up for.
Awake == state = "active" /\ pwrpc # "asleep"

WakeInv ==
  bus = "up" =>
    /\ txpc \in {"wake", "cmd"} => tx_pktcnt > 0 \/ cmd_txstate
    /\ txpc \in {"cmd", "msg"} => Awake
    /\ txpc = "data" /\ txq > 0 => bustx_trgg > 0 \/ Awake

\* Work that came too late for this round of the transmit thread triggers the
\* next.
TriggerInv ==
  /\ txpc = "msg" => cmd_txstate
  /\ txpc = "aggr" /\ txnow => cmd_txstate
  /\ bus = "up" /\ txpc \in {"wait", "data", "loop", "aggr"} /\ cmd_txstate
       => bustx_trgg > 0 \/ "refused" \in faults
  /\ bus = "up" /\ txpc = "wait" /\ txq > 0 => bustx_trgg > 0 \/ "refused" \in faults

\* rx_cnt counts the queued blocks and the one being taken apart, not the one
\* the interrupt has still to count.  The first block of a queue that was found
\* empty triggers the receive thread.
RxInv ==
  /\ rm \notin {"rxgone", "gone"} =>
       rx_cnt = rxq + One(rxpc = "proc") + One(leaked) - One(irqpc = "inc")
  /\ ~leaked /\ rxpc \in {"wait", "wake"} /\ rxq > 0 =>
       \/ busrx_trgg > 0
       \/ irqpc = "inc" /\ rxq = 1
       \/ irqpc = "check" /\ rx_cnt = 1

IInv == /\ TypeOK /\ RemoveInv /\ BufferInv /\ AggrInv /\ WakeInv
        /\ TriggerInv /\ RxInv /\ ActiveIsTimed

-----------------------------------------------------------------------------
(* The steps.                                                               *)

USE DEF chip, load, tx, cmd, rx, pwr, env, sent

\* A conjunct keeps its truth in a step that changes none of its variables.
LEMMA Kept ==
  ASSUME IInv
  PROVE  /\ UNCHANGED <<bus, rm, irqpc, rxpc>> => RemoveInv'
         /\ UNCHANGED <<free, held, unasked, cmd_txstate, cmd_buf, fw_avail_bufcnt, made, faults, asked>>
            => BufferInv'
         /\ UNCHANGED <<bus, tx_pktcnt, txq, txpc, aggr_count, fw_avail_bufcnt>> => AggrInv'
         /\ UNCHANGED <<bus, txpc, tx_pktcnt, cmd_txstate, state, pwrpc, txq, bustx_trgg>>
            => WakeInv'
         /\ UNCHANGED <<txpc, cmd_txstate, txnow, bus, bustx_trgg, faults, txq>> => TriggerInv'
         /\ UNCHANGED <<rm, rx_cnt, rxq, rxpc, leaked, irqpc, busrx_trgg>> => RxInv'
         /\ UNCHANGED <<bus, state, timer, pwrctrl_trgg, pwrpc>> => ActiveIsTimed'
<1>1. UNCHANGED <<bus, rm, irqpc, rxpc>> => RemoveInv'
  BY DEF IInv, RemoveInv
<1>2. UNCHANGED <<free, held, unasked, cmd_txstate, cmd_buf, fw_avail_bufcnt, made, faults, asked>> => BufferInv'
  BY DEF IInv, BufferInv, Slack, Pending, One
<1>3. UNCHANGED <<bus, tx_pktcnt, txq, txpc, aggr_count, fw_avail_bufcnt>> => AggrInv'
  BY DEF IInv, AggrInv, One
<1>4. UNCHANGED <<bus, txpc, tx_pktcnt, cmd_txstate, state, pwrpc, txq, bustx_trgg>> => WakeInv'
  BY DEF IInv, WakeInv, Awake
<1>5. UNCHANGED <<txpc, cmd_txstate, txnow, bus, bustx_trgg, faults, txq>> => TriggerInv'
  BY DEF IInv, TriggerInv
<1>6. UNCHANGED <<rm, rx_cnt, rxq, rxpc, leaked, irqpc, busrx_trgg>> => RxInv'
  BY DEF IInv, RxInv, One
<1>7. UNCHANGED <<bus, state, timer, pwrctrl_trgg, pwrpc>> => ActiveIsTimed'
  BY DEF IInv, ActiveIsTimed
<1> QED BY <1>1, <1>2, <1>3, <1>4, <1>5, <1>6, <1>7

\* The timer hands over to the power thread.
LEMMA aicwf_sdio_bus_pwrctlStep ==
  ASSUME IInv, aicwf_sdio_bus_pwrctl
  PROVE  IInv'
<1> USE SdioAssumption DEF aicwf_sdio_bus_pwrctl, complete
<1>1. TypeOK'
  <2>1. timer' \in BOOLEAN
    BY Zenon DEF IInv, TypeOK
  <2> QED BY <2>1 DEF IInv, TypeOK
<1>2. RemoveInv' /\ BufferInv' /\ AggrInv' /\ WakeInv' /\ TriggerInv' /\ RxInv'
  BY Kept
<1>3. ActiveIsTimed' BY DEF IInv, TypeOK, ActiveIsTimed
<1> QED BY <1>1, <1>2, <1>3 DEF IInv

\* A busy bus re-arms the timer.
LEMMA aicwf_sdio_pwrctl_threadStep ==
  ASSUME IInv, aicwf_sdio_pwrctl_thread
  PROVE  IInv'
<1> USE SdioAssumption DEF aicwf_sdio_pwrctl_thread, Idle
<1>1. TypeOK' BY DEF IInv, TypeOK
<1>2. RemoveInv' /\ BufferInv' /\ AggrInv' /\ TriggerInv' /\ RxInv' BY Kept
<1>3. WakeInv' BY DEF IInv, TypeOK, WakeInv, Awake
<1>4. ActiveIsTimed' BY DEF IInv, TypeOK, ActiveIsTimed
<1> QED BY <1>1, <1>2, <1>3, <1>4 DEF IInv

\* The chip may sleep only when no thread has work.
LEMMA aicwf_sdio_sleep_allowStep ==
  ASSUME IInv, aicwf_sdio_sleep_allow
  PROVE  IInv'
<1> USE SdioAssumption DEF aicwf_sdio_sleep_allow, Idle, MaySleep
<1>1. TypeOK' BY DEF IInv, TypeOK
<1>2. RemoveInv' /\ BufferInv' /\ AggrInv' /\ TriggerInv' /\ RxInv' BY Kept
<1>3. WakeInv'
  <2>1. CASE pwrpc' = "asleep"
    <3>1. bus = "up" /\ tx_pktcnt <= 0 /\ ~cmd_txstate BY <2>1 
    <3>2. txpc # "aggr" => txq <= 0 BY <3>1 DEF IInv, TypeOK, AggrInv, One
    <3> QED BY <3>1, <3>2 DEF IInv, TypeOK, WakeInv, TriggerInv
  <2>2. CASE pwrpc' # "asleep" BY <2>2 DEF IInv, WakeInv, Awake
  <2> QED BY <2>1, <2>2
<1>4. ActiveIsTimed' BY DEF IInv, TypeOK, ActiveIsTimed
<1> QED BY <1>1, <1>2, <1>3, <1>4 DEF IInv

\* Asleep, the chip needs no timer.
LEMMA SleepStep ==
  ASSUME IInv, Sleep
  PROVE  IInv'
<1> USE SdioAssumption DEF Sleep
<1>1. TypeOK'
  <2>1. timer' \in BOOLEAN
    BY Zenon DEF IInv, TypeOK
  <2> QED BY <2>1 DEF IInv, TypeOK
<1>2. RemoveInv' /\ BufferInv' /\ AggrInv' /\ TriggerInv' /\ RxInv' BY Kept
<1>3. WakeInv' BY DEF IInv, TypeOK, WakeInv, Awake
<1>4. ActiveIsTimed' BY DEF IInv, TypeOK, ActiveIsTimed
<1> QED BY <1>1, <1>2, <1>3, <1>4 DEF IInv

\* A busy chip stays awake, with a timer.
LEMMA aicwf_sdio_suspendStep ==
  ASSUME IInv, aicwf_sdio_suspend
  PROVE  IInv'
<1> USE SdioAssumption DEF aicwf_sdio_suspend, Idle, MaySleep, TxCtl, Semaphore
<1>1. TypeOK'
  <2>1. timer' \in BOOLEAN /\ suspended' \in BOOLEAN
    BY Zenon DEF IInv, TypeOK
  <2> QED BY <2>1 DEF IInv, TypeOK
<1>2. RemoveInv' /\ BufferInv' /\ AggrInv' /\ TriggerInv' /\ RxInv' BY Kept
<1>3. WakeInv' BY DEF IInv, TypeOK, WakeInv, Awake, AggrInv, RemoveInv, One
<1>4. ActiveIsTimed' BY DEF IInv, TypeOK, ActiveIsTimed
<1> QED BY <1>1, <1>2, <1>3, <1>4 DEF IInv

\* Awake again, with a timer.
LEMMA aicwf_sdio_resumeStep ==
  ASSUME IInv, aicwf_sdio_resume
  PROVE  IInv'
<1> USE SdioAssumption DEF aicwf_sdio_resume, PwrActive, Semaphore
<1>1. TypeOK'
  <2>1. timer' \in BOOLEAN /\ suspended' \in BOOLEAN
    BY Zenon DEF IInv, TypeOK
  <2> QED BY <2>1 DEF IInv, TypeOK
<1>2. RemoveInv' /\ BufferInv' /\ AggrInv' /\ TriggerInv' /\ RxInv' BY Kept
<1>3. WakeInv' BY DEF IInv, TypeOK, WakeInv, Awake
<1>4. ActiveIsTimed' BY DEF IInv, TypeOK, ActiveIsTimed
<1> QED BY <1>1, <1>2, <1>3, <1>4 DEF IInv

\* Scanning only keeps the chip awake.
LEMMA ScanStep ==
  ASSUME IInv, Scan
  PROVE  IInv'
<1> USE SdioAssumption DEF Scan
<1>1. TypeOK' BY DEF IInv, TypeOK
<1>2. RemoveInv' /\ BufferInv' /\ AggrInv' /\ WakeInv' /\ TriggerInv' /\ RxInv' /\ ActiveIsTimed'
  BY Kept
<1> QED BY <1>1, <1>2 DEF IInv

\* A frame is queued, counted and triggers.
LEMMA aicwf_sdio_bus_txdataStep ==
  ASSUME IInv, aicwf_sdio_bus_txdata
  PROVE  IInv'
<1> USE SdioAssumption DEF aicwf_sdio_bus_txdata, complete
<1>1. TypeOK' BY DEF IInv, TypeOK, AggrInv, One
<1>2. RemoveInv' /\ RxInv' /\ ActiveIsTimed' BY Kept
<1>3. BufferInv' BY DEF IInv, TypeOK, BufferInv, Slack, Pending, One
<1>4. AggrInv' BY DEF IInv, TypeOK, AggrInv, One
<1>5. WakeInv' BY DEF IInv, TypeOK, WakeInv, Awake
<1>6. TriggerInv' BY DEF IInv, TypeOK, TriggerInv
<1> QED BY <1>1, <1>2, <1>3, <1>4, <1>5, <1>6 DEF IInv

\* A confirmed command finds cmd_buf free.
LEMMA CmdMgrSendsStep ==
  ASSUME IInv, CmdMgrSends
  PROVE  IInv'
<1> USE SdioAssumption DEF CmdMgrSends, aicwf_sdio_bus_txmsg, complete
<1>1. TypeOK' BY DEF IInv, TypeOK
<1>2. RemoveInv' /\ AggrInv' /\ RxInv' /\ ActiveIsTimed' BY Kept
<1>3. BufferInv' BY DEF IInv, TypeOK, BufferInv, Slack, Pending, One
<1>4. WakeInv' BY DEF IInv, TypeOK, WakeInv, Awake
<1>5. TriggerInv' BY DEF IInv, TypeOK, TriggerInv
<1> QED BY <1>1, <1>2, <1>3, <1>4, <1>5 DEF IInv

\* An unconfirmed command may need a buffer nobody counted.
LEMMA SendUnconfirmedStep ==
  ASSUME IInv, SendUnconfirmed
  PROVE  IInv'
<1> USE SdioAssumption DEF SendUnconfirmed, aicwf_sdio_bus_txmsg, complete
<1>1. TypeOK' BY DEF IInv, TypeOK, BufferInv
<1>2. RemoveInv' /\ AggrInv' /\ RxInv' /\ ActiveIsTimed' BY Kept
<1>3. BufferInv' BY DEF IInv, TypeOK, BufferInv, Slack, Pending, One
<1>4. WakeInv' BY DEF IInv, TypeOK, WakeInv, Awake
<1>5. TriggerInv' BY DEF IInv, TypeOK, TriggerInv
<1> QED BY <1>1, <1>2, <1>3, <1>4, <1>5 DEF IInv

\* The firmware frees a buffer.
LEMMA FwFreesStep ==
  ASSUME IInv, FwFrees
  PROVE  IInv'
<1> USE SdioAssumption DEF FwFrees
<1>1. TypeOK' BY DEF IInv, TypeOK
<1>2. RemoveInv' /\ AggrInv' /\ WakeInv' /\ TriggerInv' /\ RxInv' /\ ActiveIsTimed'
  BY Kept
<1>3. BufferInv' BY DEF IInv, TypeOK, BufferInv, Slack, Pending, One
<1> QED BY <1>1, <1>2, <1>3 DEF IInv

\* The command's buffer is freed with its answer.
LEMMA FwAnswersStep ==
  ASSUME IInv, FwAnswers
  PROVE  IInv'
<1> USE SdioAssumption DEF FwAnswers
<1>1. TypeOK'
  <2>1. held' \in BOOLEAN /\ asked' \in BOOLEAN
    BY Zenon DEF IInv, TypeOK
  <2> QED BY <2>1 DEF IInv, TypeOK
<1>2. RemoveInv' /\ AggrInv' /\ WakeInv' /\ TriggerInv' /\ RxInv' /\ ActiveIsTimed'
  BY Kept
<1>3. BufferInv' BY DEF IInv, TypeOK, BufferInv, Slack, Pending, One
<1> QED BY <1>1, <1>2, <1>3 DEF IInv

\* A trigger is used up only for the work there is.
LEMMA TxTriggeredStep ==
  ASSUME IInv, TxTriggered
  PROVE  IInv'
<1> USE SdioAssumption DEF TxTriggered, TxGoto
<1>1. TypeOK' BY DEF IInv, TypeOK
<1>2. RemoveInv' /\ BufferInv' /\ RxInv' /\ ActiveIsTimed' BY Kept
<1>3. AggrInv' BY DEF IInv, TypeOK, AggrInv, One
<1>4. WakeInv' BY DEF IInv, TypeOK, WakeInv, Awake
<1>5. TriggerInv' BY DEF IInv, TypeOK, TriggerInv, AggrInv, One
<1> QED BY <1>1, <1>2, <1>3, <1>4, <1>5 DEF IInv

\* The thread wakes the chip.
LEMMA TxWakesStep ==
  ASSUME IInv, TxWakes
  PROVE  IInv'
<1> USE SdioAssumption DEF TxWakes, TxGoto, PwrActive, Semaphore
<1>1. TypeOK'
  <2>1. timer' \in BOOLEAN
    BY Zenon DEF IInv, TypeOK
  <2> QED BY <2>1 DEF IInv, TypeOK
<1>2. RemoveInv' /\ BufferInv' /\ RxInv' BY Kept
<1>3. AggrInv' BY DEF IInv, TypeOK, AggrInv, One
<1>4. WakeInv' BY DEF IInv, TypeOK, WakeInv, Awake
<1>5. TriggerInv' BY DEF IInv, TypeOK, TriggerInv
<1>6. ActiveIsTimed' BY DEF IInv, TypeOK, ActiveIsTimed
<1> QED BY <1>1, <1>2, <1>3, <1>4, <1>5, <1>6 DEF IInv

\* The chip is still awake.
LEMMA TxCommandStep ==
  ASSUME IInv, TxCommand
  PROVE  IInv'
<1> USE SdioAssumption DEF TxCommand, TxGoto
<1>1. TypeOK' BY DEF IInv, TypeOK
<1>2. RemoveInv' /\ BufferInv' /\ RxInv' /\ ActiveIsTimed' BY Kept
<1>3. AggrInv' BY DEF IInv, TypeOK, AggrInv, One
<1>4. WakeInv' BY DEF IInv, TypeOK, WakeInv, Awake
<1>5. TriggerInv' BY DEF IInv, TypeOK, TriggerInv, WakeInv, Awake
<1> QED BY <1>1, <1>2, <1>3, <1>4, <1>5 DEF IInv

\* The command takes one buffer: the reserve, or one that nobody counted.
LEMMA aicwf_sdio_tx_msgStep ==
  ASSUME IInv, aicwf_sdio_tx_msg
  PROVE  IInv'
<1> USE SdioAssumption
<1>1. /\ txpc = "msg" /\ txpc' = "data" /\ cmd_txstate
      /\ UNCHANGED <<chip, bustx_trgg, load, cmd_buf, asked, rx, pwr, env, sent>>
  BY DEF IInv, TriggerInv, aicwf_sdio_tx_msg, TxGoto
<1>2. \/ /\ free > 0 /\ cmd_txstate' = FALSE /\ free' = free - 1
         /\ held' = (held \/ cmd_buf = "confirmed") /\ faults' = faults
      \/ /\ free > 0 /\ cmd_txstate' = FALSE /\ free' = free /\ held' = held
         /\ faults' = faults \union {"bus"}
      \/ /\ free <= 0 /\ cmd_txstate' = cmd_txstate /\ free' = free /\ held' = held
         /\ faults' = faults \union {"refused"}
  BY DEF aicwf_sdio_tx_msg
<1>3. TypeOK'
  <2>1. cmd_txstate' \in BOOLEAN /\ held' \in BOOLEAN BY <1>2, Zenon DEF IInv, TypeOK
  <2>2. free' \in Int /\ faults' \subseteq {"refused", "bus", "overwritten"}
    <3>1. faults' \subseteq faults \union {"bus", "refused"} BY <1>2, Zenon
    <3>2. free' = free \/ free' = free - 1 BY <1>2, Zenon
    <3> QED BY <3>1, <3>2 DEF IInv, TypeOK
  <2> QED BY <2>1, <2>2, <1>1 DEF IInv, TypeOK
<1>4. RemoveInv' /\ RxInv' /\ ActiveIsTimed' BY <1>1, Kept
<1>5. AggrInv' BY <1>1 DEF IInv, TypeOK, AggrInv, One
<1>6. WakeInv' BY <1>1 DEF IInv, TypeOK, WakeInv, Awake
<1>7. TriggerInv' BY <1>1, <1>2 DEF IInv, TypeOK, TriggerInv
<1>8. BufferInv'
  <2>0. /\ free \in Int /\ unasked \in Nat /\ Thresh \in Nat /\ Thresh > 0 /\ Buffers \in Nat
        /\ fw_avail_bufcnt \in Nat /\ UNCHANGED <<fw_avail_bufcnt, unasked, made, cmd_buf, asked>>
        /\ cmd_buf \in {"confirmed", "unconfirmed"}
    BY <1>1 DEF IInv, TypeOK
  <2>1. CASE cmd_buf = "confirmed"
    <3>1. ~held /\ asked /\ Slack = free + unasked /\ Slack' = free' + One(held') + unasked
      BY <2>0, <2>1, <1>1 DEF IInv, BufferInv, Slack, Pending, One
    <3>2. free > 0 \/ unasked # 0 BY <3>1, <2>0 DEF IInv, BufferInv
    <3>3. CASE free' = free - 1 /\ held' /\ faults' = faults /\ ~cmd_txstate'
      BY <3>1, <3>3, <2>0, <2>1 DEF IInv, BufferInv, One
    <3>4. CASE free' = free /\ ~held' /\ faults' \subseteq faults \union {"bus"}
      BY <3>1, <3>4, <2>0, <2>1 DEF IInv, BufferInv, One
    <3>5. CASE free <= 0 /\ free' = free /\ ~held'
      BY <3>1, <3>2, <3>5, <2>0, <2>1 DEF IInv, BufferInv, One
    <3> QED BY <3>1, <3>3, <3>4, <3>5, <2>1, <1>2
  <2>2. CASE cmd_buf = "unconfirmed"
    <3>1. /\ unasked > 0 /\ Slack = free + One(held) + unasked - 1 /\ One(held) \in {0, 1}
          /\ Slack' = free' + One(held') + unasked - One(cmd_txstate')
      BY <2>0, <2>2, <1>1 DEF IInv, BufferInv, Slack, Pending, One
    <3>2. One(held') = One(held) /\ (held' => held)
      <4>1. cmd_buf # "confirmed" BY <2>2
      <4>2. held \in BOOLEAN BY DEF IInv, TypeOK
      <4>3. held' <=> held BY <4>1, <4>2, <1>2
      <4> QED BY <4>3 DEF One
    <3>3. /\ One(cmd_txstate') \in {0, 1}
          /\ free' = free \/ (free' = free - 1 /\ One(cmd_txstate') = 0)
      BY <1>2 DEF One
    <3>4. free' <= Buffers - One(held') /\ Slack <= Slack' /\ Slack \in Int /\ Slack' \in Int
      BY <3>1, <3>2, <3>3, <2>0 DEF IInv, BufferInv
    <3> HIDE DEF One, Slack
    <3>5. /\ fw_avail_bufcnt <= Slack' /\ Thresh <= Slack'
      BY <3>4, <2>0 DEF IInv, BufferInv
    <3> QED BY <3>1, <3>2, <3>4, <3>5, <2>0, <2>2 DEF IInv, BufferInv
  <2> QED BY <2>0, <2>1, <2>2
<1> QED BY <1>3, <1>4, <1>5, <1>6, <1>7, <1>8 DEF IInv

\* The buffers are counted anew if there is data.
LEMMA TxDataStep ==
  ASSUME IInv, TxData
  PROVE  IInv'
<1> USE SdioAssumption DEF TxData, TxGoto, aicwf_sdio_flow_ctrl
<1>1. TypeOK' BY DEF IInv, TypeOK, BufferInv, One
<1>2. RemoveInv' /\ RxInv' /\ ActiveIsTimed' BY Kept
<1>3. BufferInv'
  <2>1. free <= Slack /\ 0 <= Slack /\ Slack \in Int
    BY DEF IInv, TypeOK, BufferInv, Slack, Pending, One
  <2>2. Slack' = Slack BY DEF Slack, Pending
  <2> HIDE DEF Slack
  <2> QED BY <2>1, <2>2 DEF IInv, TypeOK, BufferInv
<1>4. AggrInv' BY DEF IInv, TypeOK, AggrInv, One
<1>5. WakeInv' BY DEF IInv, TypeOK, WakeInv, Awake
<1>6. TriggerInv' BY DEF IInv, TypeOK, TriggerInv, WakeInv, Awake
<1> QED BY <1>1, <1>2, <1>3, <1>4, <1>5, <1>6 DEF IInv

\* Whatever ends the loop, the aggregate was sent.
LEMMA TxLeavesStep ==
  ASSUME IInv, TxLeaves
  PROVE  IInv'
<1> USE SdioAssumption DEF TxLeaves, TxGoto
<1>1. TypeOK' BY DEF IInv, TypeOK
<1>2. RemoveInv' /\ BufferInv' /\ RxInv' /\ ActiveIsTimed' BY Kept
<1>3. AggrInv' BY DEF IInv, TypeOK, AggrInv, One
<1>4. WakeInv' BY DEF IInv, TypeOK, WakeInv, Awake
<1>5. TriggerInv' BY DEF IInv, TypeOK, TriggerInv
<1> QED BY <1>1, <1>2, <1>3, <1>4, <1>5 DEF IInv

\* The buffers are counted anew with nothing aggregated.
LEMMA TxPollsStep ==
  ASSUME IInv, TxPolls
  PROVE  IInv'
<1> USE SdioAssumption DEF TxPolls, InLoop, aicwf_sdio_flow_ctrl
<1>1. TypeOK' BY DEF IInv, TypeOK, BufferInv, One
<1>2. RemoveInv' /\ WakeInv' /\ TriggerInv' /\ RxInv' /\ ActiveIsTimed' BY Kept
<1>3. BufferInv'
  <2>1. free <= Slack /\ 0 <= Slack /\ Slack \in Int
    BY DEF IInv, TypeOK, BufferInv, Slack, Pending, One
  <2>2. Slack' = Slack BY DEF Slack, Pending
  <2> HIDE DEF Slack
  <2> QED BY <2>1, <2>2 DEF IInv, TypeOK, BufferInv
<1>4. AggrInv' BY DEF IInv, TypeOK, AggrInv, One
<1> QED BY <1>1, <1>2, <1>3, <1>4 DEF IInv

\* An aggregate never grows into the reserve.
LEMMA TxTakesStep ==
  ASSUME IInv, TxTakes
  PROVE  IInv'
<1> USE SdioAssumption DEF TxTakes, InLoop, Full, TxGoto, aicwf_sdio_aggr_send
<1>1. TypeOK' BY DEF IInv, TypeOK, AggrInv
<1>2. RemoveInv' /\ RxInv' /\ ActiveIsTimed' BY Kept
<1>3. BufferInv' BY DEF IInv, TypeOK, BufferInv, Slack, Pending, One
<1>4. AggrInv' BY DEF IInv, TypeOK, AggrInv, One
<1>5. WakeInv' BY DEF IInv, TypeOK, WakeInv, Awake
<1>6. TriggerInv' BY DEF IInv, TypeOK, TriggerInv
<1> QED BY <1>1, <1>2, <1>3, <1>4, <1>5, <1>6 DEF IInv

\* The last frame of a burst takes the aggregate along.
LEMMA TxAggregatedStep ==
  ASSUME IInv, TxAggregated
  PROVE  IInv'
<1> USE SdioAssumption DEF TxAggregated, Full, TxGoto, aicwf_sdio_aggr_send
<1>1. TypeOK' BY DEF IInv, TypeOK, AggrInv
<1>2. RemoveInv' /\ RxInv' /\ ActiveIsTimed' BY Kept
<1>3. BufferInv' BY DEF IInv, TypeOK, BufferInv, Slack, Pending, One, AggrInv
<1>4. AggrInv' BY DEF IInv, TypeOK, AggrInv, One
<1>5. WakeInv' BY DEF IInv, TypeOK, WakeInv, Awake
<1>6. TriggerInv' BY DEF IInv, TypeOK, TriggerInv
<1> QED BY <1>1, <1>2, <1>3, <1>4, <1>5, <1>6 DEF IInv

\* A block is queued before it is counted.
LEMMA aicwf_sdio_enq_rxpktStep ==
  ASSUME IInv, aicwf_sdio_enq_rxpkt
  PROVE  IInv'
<1> USE SdioAssumption DEF aicwf_sdio_enq_rxpkt
<1>1. TypeOK' BY DEF IInv, TypeOK
<1>2. BufferInv' /\ AggrInv' /\ WakeInv' /\ TriggerInv' /\ ActiveIsTimed' BY Kept
<1>3. RemoveInv' BY DEF IInv, TypeOK, RemoveInv
<1>4. RxInv' BY DEF IInv, TypeOK, RxInv, One
<1> QED BY <1>1, <1>2, <1>3, <1>4 DEF IInv

\* The block is counted.
LEMMA IrqCountsStep ==
  ASSUME IInv, IrqCounts
  PROVE  IInv'
<1> USE SdioAssumption DEF IrqCounts
<1>1. TypeOK' BY DEF IInv, TypeOK, RxInv, RemoveInv, One
<1>2. BufferInv' /\ AggrInv' /\ WakeInv' /\ TriggerInv' /\ ActiveIsTimed' BY Kept
<1>3. RemoveInv' BY DEF IInv, TypeOK, RemoveInv
<1>4. RxInv' BY DEF IInv, TypeOK, RxInv, One, RemoveInv
<1> QED BY <1>1, <1>2, <1>3, <1>4 DEF IInv

\* The first block triggers.
LEMMA IrqTriggersStep ==
  ASSUME IInv, IrqTriggers
  PROVE  IInv'
<1> USE SdioAssumption DEF IrqTriggers, complete
<1>1. TypeOK' BY DEF IInv, TypeOK
<1>2. BufferInv' /\ AggrInv' /\ WakeInv' /\ TriggerInv' /\ ActiveIsTimed' BY Kept
<1>3. RemoveInv' BY DEF IInv, TypeOK, RemoveInv
<1>4. RxInv' BY DEF IInv, TypeOK, RxInv, One
<1> QED BY <1>1, <1>2, <1>3, <1>4 DEF IInv

\* The trigger makes the thread look at the queue.
LEMMA RxTriggeredStep ==
  ASSUME IInv, RxTriggered
  PROVE  IInv'
<1> USE SdioAssumption DEF RxTriggered
<1>1. TypeOK' BY DEF IInv, TypeOK
<1>2. BufferInv' /\ AggrInv' /\ WakeInv' /\ TriggerInv' /\ ActiveIsTimed' BY Kept
<1>3. RemoveInv' BY DEF IInv, TypeOK, RemoveInv
<1>4. RxInv' BY DEF IInv, TypeOK, RxInv, One
<1> QED BY <1>1, <1>2, <1>3, <1>4 DEF IInv

\* The thread goes on to wait only from an empty queue.
LEMMA RxDequeuesStep ==
  ASSUME IInv, RxDequeues
  PROVE  IInv'
<1> USE SdioAssumption DEF RxDequeues
<1>1. TypeOK' BY DEF IInv, TypeOK
<1>2. BufferInv' /\ AggrInv' /\ WakeInv' /\ TriggerInv' /\ ActiveIsTimed' BY Kept
<1>3. RemoveInv' BY DEF IInv, TypeOK, RemoveInv
<1>4. RxInv' BY DEF IInv, TypeOK, RxInv, One
<1> QED BY <1>1, <1>2, <1>3, <1>4 DEF IInv

\* The block is uncounted after it was taken apart.
LEMMA aicwf_process_rxframesStep ==
  ASSUME IInv, aicwf_process_rxframes
  PROVE  IInv'
<1> USE SdioAssumption DEF aicwf_process_rxframes
<1>1. TypeOK'
  <2>1. leaked' \in BOOLEAN
    BY Zenon DEF IInv, TypeOK
  <2> QED BY <2>1 DEF IInv, TypeOK, RxInv, RemoveInv, One
<1>2. BufferInv' /\ AggrInv' /\ WakeInv' /\ TriggerInv' /\ ActiveIsTimed' BY Kept
<1>3. RemoveInv' BY DEF IInv, TypeOK, RemoveInv
<1>4. RxInv' BY DEF IInv, TypeOK, RxInv, One
<1> QED BY <1>1, <1>2, <1>3, <1>4 DEF IInv

\* The receive thread wakes the chip.
LEMMA RxWakesStep ==
  ASSUME IInv, RxWakes
  PROVE  IInv'
<1> USE SdioAssumption DEF RxWakes, PwrActive, Semaphore
<1>1. TypeOK'
  <2>1. timer' \in BOOLEAN
    BY Zenon DEF IInv, TypeOK
  <2> QED BY <2>1 DEF IInv, TypeOK
<1>2. BufferInv' /\ AggrInv' /\ TriggerInv' BY Kept
<1>3. RemoveInv' BY DEF IInv, TypeOK, RemoveInv
<1>4. WakeInv' BY DEF IInv, TypeOK, WakeInv, Awake
<1>5. RxInv' BY DEF IInv, TypeOK, RxInv, One
<1>6. ActiveIsTimed' BY DEF IInv, TypeOK, ActiveIsTimed
<1> QED BY <1>1, <1>2, <1>3, <1>4, <1>5, <1>6 DEF IInv

\* The bus goes down.
LEMMA aicwf_sdio_removeStep ==
  ASSUME IInv, aicwf_sdio_remove
  PROVE  IInv'
<1> USE SdioAssumption DEF aicwf_sdio_remove
<1>1. TypeOK' BY DEF IInv, TypeOK
<1>2. BufferInv' BY Kept
<1>3. RemoveInv' BY DEF IInv, TypeOK, RemoveInv
<1>4. AggrInv' BY DEF IInv, TypeOK, AggrInv, One
<1>5. WakeInv' BY DEF IInv, TypeOK, WakeInv, Awake
<1>6. TriggerInv' BY DEF IInv, TypeOK, TriggerInv
<1>7. RxInv' BY DEF IInv, TypeOK, RxInv, One
<1>8. ActiveIsTimed' BY DEF IInv, TypeOK, ActiveIsTimed
<1> QED BY <1>1, <1>2, <1>3, <1>4, <1>5, <1>6, <1>7, <1>8 DEF IInv

\* The queue is emptied with the bus down.
LEMMA aicwf_sdio_bus_stopStep ==
  ASSUME IInv, aicwf_sdio_bus_stop
  PROVE  IInv'
<1> USE SdioAssumption DEF aicwf_sdio_bus_stop, TxCtl
<1>1. TypeOK'
  <2>1. timer' \in BOOLEAN
    BY Zenon DEF IInv, TypeOK
  <2> QED BY <2>1 DEF IInv, TypeOK
<1>2. BufferInv' BY Kept
<1>3. RemoveInv' BY DEF IInv, TypeOK, RemoveInv
<1>4. AggrInv' BY DEF IInv, TypeOK, AggrInv, One, RemoveInv
<1>5. WakeInv' BY DEF IInv, TypeOK, WakeInv, Awake
<1>6. TriggerInv' BY DEF IInv, TypeOK, TriggerInv
<1>7. RxInv' BY DEF IInv, TypeOK, RxInv, One
<1>8. ActiveIsTimed' BY DEF IInv, TypeOK, ActiveIsTimed, RemoveInv
<1> QED BY <1>1, <1>2, <1>3, <1>4, <1>5, <1>6, <1>7, <1>8 DEF IInv

\* The transmit thread is gone.
LEMMA aicwf_bus_deinitStep ==
  ASSUME IInv, aicwf_bus_deinit
  PROVE  IInv'
<1> USE SdioAssumption DEF aicwf_bus_deinit
<1>1. TypeOK' BY DEF IInv, TypeOK
<1>2. BufferInv' /\ AggrInv' /\ WakeInv' /\ TriggerInv' /\ ActiveIsTimed' BY Kept
<1>3. RemoveInv' BY DEF IInv, TypeOK, RemoveInv
<1>4. RxInv' BY DEF IInv, TypeOK, RxInv, One
<1> QED BY <1>1, <1>2, <1>3, <1>4 DEF IInv

\* The receive thread is gone.
LEMMA aicwf_rx_deinitStep ==
  ASSUME IInv, aicwf_rx_deinit
  PROVE  IInv'
<1> USE SdioAssumption DEF aicwf_rx_deinit
<1>1. TypeOK' BY DEF IInv, TypeOK
<1>2. BufferInv' /\ AggrInv' /\ WakeInv' /\ TriggerInv' BY Kept
<1>3. RemoveInv' BY DEF IInv, TypeOK, RemoveInv
<1>4. RxInv' BY DEF IInv, TypeOK, RxInv, One
<1>5. ActiveIsTimed' BY DEF IInv, TypeOK, ActiveIsTimed
<1> QED BY <1>1, <1>2, <1>3, <1>4, <1>5 DEF IInv

\* The power thread is gone.
LEMMA aicwf_sdio_releaseStep ==
  ASSUME IInv, aicwf_sdio_release
  PROVE  IInv'
<1> USE SdioAssumption DEF aicwf_sdio_release
<1>1. TypeOK'
  <2>1. timer' \in BOOLEAN
    BY Zenon DEF IInv, TypeOK
  <2> QED BY <2>1 DEF IInv, TypeOK
<1>2. BufferInv' /\ AggrInv' /\ TriggerInv' BY Kept
<1>3. RemoveInv' BY DEF IInv, TypeOK, RemoveInv
<1>4. WakeInv' BY DEF IInv, TypeOK, WakeInv, Awake
<1>5. RxInv' BY DEF IInv, TypeOK, RxInv, One
<1>6. ActiveIsTimed' BY DEF IInv, TypeOK, ActiveIsTimed
<1> QED BY <1>1, <1>2, <1>3, <1>4, <1>5, <1>6 DEF IInv

-----------------------------------------------------------------------------
(* The theorems.                                                            *)

\* The invariant holds when the bus has come up.
LEMMA InitInv == Init => IInv
<1> SUFFICES ASSUME Init PROVE IInv OBVIOUS
<1> USE SdioAssumption DEF Init
<1>1. TypeOK
  <2>1. /\ timer \in BOOLEAN /\ suspended \in BOOLEAN /\ scanning \in BOOLEAN
        /\ txnow \in BOOLEAN /\ cmd_txstate \in BOOLEAN /\ asked \in BOOLEAN
        /\ held \in BOOLEAN /\ leaked \in BOOLEAN
    BY Zenon
  <2> QED BY <2>1 DEF TypeOK
<1>2. RemoveInv BY DEF RemoveInv
<1>3. BufferInv BY DEF BufferInv, Slack, Pending, One
<1>4. AggrInv BY DEF AggrInv, One
<1>5. WakeInv BY DEF WakeInv
<1>6. TriggerInv BY DEF TriggerInv
<1>7. RxInv BY DEF RxInv, One
<1>8. ActiveIsTimed BY DEF ActiveIsTimed
<1> QED BY <1>1, <1>2, <1>3, <1>4, <1>5, <1>6, <1>7, <1>8 DEF IInv

\* Every step keeps it.
LEMMA NextInv == IInv /\ [Next]_vars => IInv'
<1> SUFFICES ASSUME IInv, [Next]_vars PROVE IInv' OBVIOUS
<1>1. ASSUME TxStep PROVE IInv'
  BY <1>1, TxTriggeredStep, TxWakesStep, TxCommandStep, aicwf_sdio_tx_msgStep,
     TxDataStep, TxLeavesStep, TxPollsStep, TxTakesStep, TxAggregatedStep DEF TxStep
<1>2. ASSUME IrqStep \/ RxStep PROVE IInv'
  BY <1>2, IrqCountsStep, IrqTriggersStep, RxTriggeredStep, RxDequeuesStep,
     aicwf_process_rxframesStep, RxWakesStep DEF IrqStep, RxStep
<1>3. ASSUME PwrStep \/ RemoveStep PROVE IInv'
  BY <1>3, aicwf_sdio_pwrctl_threadStep, aicwf_sdio_sleep_allowStep, SleepStep,
     aicwf_sdio_bus_stopStep, aicwf_bus_deinitStep, aicwf_rx_deinitStep,
     aicwf_sdio_releaseStep DEF PwrStep, RemoveStep
<1>4. ASSUME UNCHANGED vars PROVE IInv'
  <2> USE <1>4 DEF vars
  <2>1. TypeOK' BY DEF IInv, TypeOK
  <2> QED BY <2>1, Kept DEF IInv
<1> QED
  BY <1>1, <1>2, <1>3, <1>4, aicwf_sdio_bus_pwrctlStep, aicwf_sdio_suspendStep,
     aicwf_sdio_resumeStep, ScanStep, aicwf_sdio_bus_txdataStep, CmdMgrSendsStep,
     SendUnconfirmedStep, FwFreesStep, FwAnswersStep, aicwf_sdio_enq_rxpktStep,
     aicwf_sdio_removeStep DEF Next

\* The invariant holds in every reachable state.
THEOREM Inductive == Spec => []IInv
BY InitInv, NextInv, PTL DEF Spec

\* For any queue lengths, any number of firmware buffers and any interleaving of
\* the two bus threads, the interrupt, the power thread, suspend and removal, no
\* wake-up is lost, no aggregate is left behind, no command goes to a sleeping
\* chip and no chip stays awake without a timer (aicwf_sdio_tx_process,
\* aicwf_sdio_hal_irqhandler, aicwf_sdio_pwrctl_thread).
THEOREM WaitersTheorem == Spec => []WaitersServed
<1>1. IInv => WaitersServed
  <2> SUFFICES ASSUME IInv PROVE WaitersServed OBVIOUS
  <2>1. TxServed BY DEF IInv, TriggerInv, TxServed
  <2>2. RxServed BY DEF IInv, TypeOK, RxInv, RxServed
  <2>3. AggrDrained BY DEF IInv, AggrInv, AggrDrained
  <2>4. CmdAwake BY DEF IInv, WakeInv, Awake, CmdAwake
  <2> QED BY <2>1, <2>2, <2>3, <2>4 DEF IInv, WaitersServed
<1> QED BY <1>1, Inductive, PTL

\* For any reserve and any number of buffers the firmware is not overrun through
\* the stale fw_avail_bufcnt before Thresh unconfirmed commands were sent, and
\* without any every command finds a buffer and leaves cmd_buf in one piece
\* (aicwf_sdio_flow_ctrl, aicwf_sdio_send, aicwf_sdio_tx_msg).
THEOREM BuffersTheorem == Spec => []BuffersSuffice
<1>1. IInv => BuffersSuffice
  <2> SUFFICES ASSUME IInv PROVE BuffersSuffice OBVIOUS
  <2>1. FwNotOverrun
    BY SdioAssumption DEF IInv, TypeOK, BufferInv, Slack, One, FwNotOverrun
  <2>2. CmdBuffered BY DEF IInv, BufferInv, CmdBuffered
  <2> QED BY <2>1, <2>2 DEF IInv, BuffersSuffice
<1> QED BY <1>1, Inductive, PTL
=============================================================================
