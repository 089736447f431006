-------------------------- MODULE RemainOnChannel --------------------------
(***************************************************************************)
(* Remaining on a channel (RoC) in the AIC8800 WiFi driver: the requests   *)
(* of cfg80211, the ones the driver makes itself to send a management      *)
(* frame, and the indications of the firmware.                             *)
(*                                                                         *)
(* The calls of the stack are serialised; the receive thread runs beside   *)
(* them, and neither takes a lock.                                         *)
(***************************************************************************)
EXTENDS RemainOnChannelState

call == <<roc_elem, mgmt_roc, on_chan, freed>>
user == <<given, ready, expired>>
count == <<rocs, txs, roc_closes>>
vars == <<roc_allow, call, roc_cookie_cnt, txq, lost, user, roc_op, roc_rx, roc_fifo, roc_fw, count>>

Init ==
  /\ roc_allow \in RocAllows
  /\ roc_elem = 0 /\ mgmt_roc = {} /\ on_chan = {}
  /\ freed = [r \in Roc |-> 0] /\ roc_cookie_cnt = 1
  /\ txq = [active |-> FALSE, stopped |-> FALSE, frames |-> {}] /\ lost = {}
  /\ given = [r \in Roc |-> 0] /\ ready = given /\ expired = given
  /\ roc_op = None /\ roc_rx = 0 /\ roc_fifo = <<>> /\ roc_fw = 0
  /\ rocs = 0 /\ txs = 0 /\ roc_closes = 0

-----------------------------------------------------------------------------
(* The off-channel queue.                                                   *)

\* A new list head: frames still queued are forgotten.
rwnx_txq_offchan_init ==
  /\ txq' = [active |-> TRUE, stopped |-> TRUE, frames |-> {}]
  /\ lost' = lost \union txq.frames

\* Nothing happens to a queue that is inactive already.
BugNoFlush ==
  txq' = [txq EXCEPT !.active = FALSE]
rwnx_txq_offchan_deinit ==
  txq' = IF txq.active THEN [txq EXCEPT !.active = FALSE, !.frames = {}] ELSE txq

\* A queue that starts is listed and its frames go out.
rwnx_txq_offchan_start ==
  txq' = IF txq.active THEN [txq EXCEPT !.stopped = FALSE, !.frames = {}] ELSE txq

\* In a queue that is not stopped the frame goes out, or is freed if the
\* queue is inactive.
rwnx_txq_queue_skb(f) ==
  txq' = IF txq.stopped THEN [txq EXCEPT !.frames = @ \union {f}] ELSE txq

-----------------------------------------------------------------------------
(* Calls of the stack.                                                      *)

\* The request starts, unless there is another one, and is sent.  mgmt: it is
\* the driver's own, for a management frame.
rwnx_cfg80211_remain_on_channel_(mgmt) ==
  /\ roc_elem = 0 /\ rocs < MaxRocs
  /\ rocs' = rocs + 1 /\ roc_elem' = rocs'
  /\ mgmt_roc' = IF mgmt THEN mgmt_roc \union {rocs'} ELSE mgmt_roc
  /\ rwnx_txq_offchan_init
  /\ roc_op' = [pc |-> "sent", roc |-> rocs', mgmt |-> mgmt]
  /\ UNCHANGED <<on_chan, freed, roc_cookie_cnt, user, roc_rx, roc_fifo, roc_fw, roc_closes>>

rwnx_cfg80211_remain_on_channel ==
  /\ roc_op = None /\ rwnx_cfg80211_remain_on_channel_(FALSE)
  /\ UNCHANGED txs

\* The confirmation is there: the caller takes the cookie, or gives up.
RocReturns ==
  /\ roc_op.pc = "confirmed"
  /\ IF roc_op.ok
       THEN /\ given' = IF roc_op.mgmt THEN given
                        ELSE [given EXCEPT ![roc_op.roc] = roc_cookie_cnt]
            /\ roc_op' = IF roc_op.mgmt THEN [pc |-> "xmit"] ELSE None
            /\ UNCHANGED <<roc_elem, freed, txq>>
       ELSE /\ roc_elem' = 0 /\ freed' = [freed EXCEPT ![roc_op.roc] = @ + 1]
            /\ rwnx_txq_offchan_deinit /\ roc_op' = None /\ UNCHANGED given
  /\ UNCHANGED <<mgmt_roc, on_chan, roc_cookie_cnt, lost, ready, expired, roc_rx, roc_fifo,
                 roc_fw, count>>

\* A frame to an unknown peer needs a request: the one that is pending, or
\* one of the driver's own.
rwnx_cfg80211_mgmt_tx ==
  /\ roc_op = None /\ txs < MaxTx[roc_allow] /\ txs' = txs + 1
  /\ \/ /\ roc_elem # 0 /\ roc_op' = [pc |-> "look"]
        /\ UNCHANGED <<call, roc_cookie_cnt, txq, lost, user, roc_rx, roc_fifo, roc_fw, rocs, roc_closes>>
     \/ rwnx_cfg80211_remain_on_channel_(TRUE)

\* Its interface and channel are read from the element; they may not fit.
MgmtTxLooks ==
  /\ roc_op.pc = "look" /\ roc_op' \in {[pc |-> "xmit"], None}
  /\ UNCHANGED <<call, roc_cookie_cnt, txq, lost, user, roc_rx, roc_fifo, roc_fw, count>>

rwnx_start_mgmt_xmit ==
  /\ roc_op.pc = "xmit" /\ roc_op' = IF txq.active THEN [pc |-> "queue"] ELSE None
  /\ UNCHANGED <<call, roc_cookie_cnt, txq, lost, user, roc_rx, roc_fifo, roc_fw, count>>

XmitQueues ==
  /\ roc_op.pc = "queue" /\ roc_op' = None /\ rwnx_txq_queue_skb(txs)
  /\ UNCHANGED <<call, roc_cookie_cnt, lost, user, roc_rx, roc_fifo, roc_fw, count>>

\* The cookie is not looked at.
rwnx_cfg80211_cancel_remain_on_channel ==
  /\ roc_op = None /\ roc_elem # 0 /\ roc_op' = [pc |-> "cancel"]
  /\ UNCHANGED <<call, roc_cookie_cnt, txq, lost, user, roc_rx, roc_fifo, roc_fw, count>>

\* rwnx_close drops the request and later removes the interface.
rwnx_close ==
  /\ roc_op = None /\ "close" \in roc_allow /\ roc_closes < MaxRocs
  /\ roc_closes' = roc_closes + 1
  /\ IF roc_elem = 0
       THEN roc_op' = [pc |-> "remove"] /\ UNCHANGED freed
       ELSE roc_op' = [pc |-> "forget"] /\ freed' = [freed EXCEPT ![roc_elem] = @ + 1]
  /\ UNCHANGED <<roc_elem, mgmt_roc, on_chan, roc_cookie_cnt, txq, lost, user, roc_rx,
                 roc_fifo, roc_fw, rocs, txs>>

CloseForgets ==
  /\ roc_op.pc = "forget" /\ roc_op' = [pc |-> "remove"] /\ roc_elem' = 0
  /\ UNCHANGED <<mgmt_roc, on_chan, freed, roc_cookie_cnt, txq, lost, user, roc_rx,
                 roc_fifo, roc_fw, count>>

-----------------------------------------------------------------------------
(* The receive thread.                                                      *)

Received(id) == roc_rx = 0 /\ roc_fifo # <<>> /\ Head(roc_fifo).id = id /\ roc_fifo' = Tail(roc_fifo)

\* Without preemption a call that does not wait is not interrupted.
MayInterrupt ==
  roc_op.pc \in {"none", "sent", "cancel", "remove"} \/ "preempt" \in roc_allow

Confirmed ==
  /\ Received("cfm")
  /\ roc_op' = IF roc_op.pc = "sent"
             THEN [pc |-> "confirmed", ok |-> Head(roc_fifo).ok, roc |-> roc_op.roc,
                   mgmt |-> roc_op.mgmt]
             ELSE None
  /\ UNCHANGED <<call, roc_cookie_cnt, txq, lost, user, roc_rx, roc_fw, count>>

BugTellsAlways ==
  /\ Received("switch") /\ MayInterrupt
  /\ IF roc_elem = 0
       THEN UNCHANGED <<ready, on_chan>>
       ELSE /\ on_chan' = on_chan \union {roc_elem}
            /\ ready' = [ready EXCEPT ![roc_elem] = roc_cookie_cnt]
  /\ rwnx_txq_offchan_start
  /\ UNCHANGED <<roc_elem, mgmt_roc, freed, roc_cookie_cnt, lost, given, expired, roc_op,
                 roc_rx, roc_fw, count>>
BugNotOnChan ==
  /\ Received("switch") /\ MayInterrupt
  /\ ready' = IF roc_elem = 0 \/ roc_elem \in mgmt_roc THEN ready
              ELSE [ready EXCEPT ![roc_elem] = roc_cookie_cnt]
  /\ rwnx_txq_offchan_start
  /\ UNCHANGED <<call, roc_cookie_cnt, lost, given, expired, roc_op, roc_rx, roc_fw, count>>
rwnx_rx_chan_switch_ind ==
  /\ Received("switch") /\ MayInterrupt
  /\ IF roc_elem = 0
       THEN UNCHANGED <<ready, on_chan>>
       ELSE /\ on_chan' = on_chan \union {roc_elem}
            /\ ready' = IF roc_elem \in mgmt_roc THEN ready
                        ELSE [ready EXCEPT ![roc_elem] = roc_cookie_cnt]
  /\ rwnx_txq_offchan_start
  /\ UNCHANGED <<roc_elem, mgmt_roc, freed, roc_cookie_cnt, lost, given, expired, roc_op,
                 roc_rx, roc_fw, count>>

\* The cookie counter wraps and skips 0.
NextCookie == IF roc_cookie_cnt = MaxCookie THEN 1 ELSE roc_cookie_cnt + 1

BugCountsFirst ==
  /\ Received("exp") /\ MayInterrupt
  /\ IF roc_elem = 0
       THEN UNCHANGED <<expired, roc_cookie_cnt, txq, roc_rx>>
       ELSE /\ expired' = IF roc_elem \notin mgmt_roc /\ roc_elem \in on_chan
                            THEN [expired EXCEPT ![roc_elem] = NextCookie]
                            ELSE expired
            /\ rwnx_txq_offchan_deinit
            /\ roc_cookie_cnt' = NextCookie /\ roc_rx' = roc_elem
  /\ UNCHANGED <<call, lost, given, ready, roc_op, roc_fw, count>>
BugTellsUnready ==
  /\ Received("exp") /\ MayInterrupt
  /\ IF roc_elem = 0
       THEN UNCHANGED <<expired, roc_cookie_cnt, txq, roc_rx>>
       ELSE /\ expired' = IF roc_elem \notin mgmt_roc
                            THEN [expired EXCEPT ![roc_elem] = roc_cookie_cnt]
                            ELSE expired
            /\ rwnx_txq_offchan_deinit
            /\ roc_cookie_cnt' = NextCookie /\ roc_rx' = roc_elem
  /\ UNCHANGED <<call, lost, given, ready, roc_op, roc_fw, count>>
rwnx_rx_remain_on_channel_exp_ind ==
  /\ Received("exp") /\ MayInterrupt
  /\ IF roc_elem = 0
       THEN UNCHANGED <<expired, roc_cookie_cnt, txq, roc_rx>>
       ELSE /\ expired' = IF roc_elem \notin mgmt_roc /\ roc_elem \in on_chan
                            THEN [expired EXCEPT ![roc_elem] = roc_cookie_cnt]
                            ELSE expired
            /\ rwnx_txq_offchan_deinit
            /\ roc_cookie_cnt' = NextCookie /\ roc_rx' = roc_elem
  /\ UNCHANGED <<call, lost, given, ready, roc_op, roc_fw, count>>

BugFreesOnly ==
  /\ roc_rx # 0 /\ roc_rx' = 0 /\ freed' = [freed EXCEPT ![roc_rx] = @ + 1]
  /\ UNCHANGED <<roc_elem, mgmt_roc, on_chan, roc_cookie_cnt, txq, lost, user, roc_op,
                 roc_fifo, roc_fw, count>>
ExpIndFrees ==
  /\ roc_rx # 0 /\ roc_rx' = 0 /\ freed' = [freed EXCEPT ![roc_rx] = @ + 1] /\ roc_elem' = 0
  /\ UNCHANGED <<mgmt_roc, on_chan, roc_cookie_cnt, txq, lost, user, roc_op, roc_fifo, roc_fw,
                 count>>

-----------------------------------------------------------------------------
(* The firmware.  A request is confirmed, then the channel is switched to,  *)
(* then it expires; one that is cancelled or whose interface goes expires   *)
(* at once, before the confirmation or, if cancelled, after it.             *)

Send(ms) == roc_fifo' = roc_fifo \o ms
cfm(ok) == [id |-> "cfm", ok |-> ok]
switch == [id |-> "switch"]
exp == [id |-> "exp"]
FwOnly == UNCHANGED <<call, roc_cookie_cnt, txq, lost, user, roc_op, roc_rx, count>>

\* The command in flight has not been answered.
Unanswered == {cfm(ok) : ok \in BOOLEAN} \intersect {roc_fifo[i] : i \in DOMAIN roc_fifo} = {}

FwStarts ==
  /\ roc_op.pc = "sent" /\ Unanswered /\ FwOnly
  /\ \/ roc_fw = 0 /\ Send(<<cfm(TRUE)>>) /\ roc_fw' = roc_op.roc
     \/ (roc_fw # 0 \/ "refuse" \in roc_allow) /\ Send(<<cfm(FALSE)>>) /\ UNCHANGED roc_fw

\* Until then switch_ind has not been sent.
FwSwitches ==
  /\ roc_fw \in Roc /\ Send(<<switch>>) /\ roc_fw' = roc_fw + MaxRocs /\ FwOnly

FwExpires ==
  /\ roc_fw > MaxRocs /\ Send(<<exp>>) /\ roc_fw' = 0 /\ FwOnly

FwCancels ==
  /\ roc_op.pc = "cancel" /\ Unanswered /\ roc_fw' = 0 /\ FwOnly
  /\ IF roc_fw = 0
       THEN Send(<<cfm(TRUE)>>)
       ELSE Send(<<cfm(TRUE), exp>>) \/ Send(<<exp, cfm(TRUE)>>)

FwRemoves ==
  /\ roc_op.pc = "remove" /\ Unanswered /\ roc_fw' = 0 /\ FwOnly
  /\ IF roc_fw = 0 THEN Send(<<cfm(TRUE)>>) ELSE Send(<<exp, cfm(TRUE)>>)

-----------------------------------------------------------------------------
Same == UNCHANGED roc_allow
Stack ==
  /\ Same
  /\ \/ rwnx_cfg80211_remain_on_channel \/ rwnx_cfg80211_mgmt_tx
     \/ rwnx_cfg80211_cancel_remain_on_channel \/ rwnx_close
Calls ==
  /\ Same
  /\ RocReturns \/ MgmtTxLooks \/ rwnx_start_mgmt_xmit \/ XmitQueues \/ CloseForgets
Receive ==
  /\ Same
  /\ \/ Confirmed \/ rwnx_rx_chan_switch_ind \/ rwnx_rx_remain_on_channel_exp_ind
     \/ ExpIndFrees
Answers == Same /\ (FwStarts \/ FwCancels \/ FwRemoves)
Serves == Same /\ (FwSwitches \/ FwExpires)

Next == Stack \/ Calls \/ Receive \/ Answers \/ Serves

Spec == Init /\ [][Next]_vars

\* Threads run, and the firmware answers and ends what it began.
LiveSpec ==
  /\ Spec
  /\ WF_vars(Calls) /\ WF_vars(Receive) /\ WF_vars(Answers) /\ WF_vars(Serves)

-----------------------------------------------------------------------------
\* The end of a request the stack was told to be ready is told too, by the
\* time its element is freed.
ExpiryTold ==
  [][\A r \in Roc : roc_rx = r /\ roc_rx' = 0 /\ ready[r] # 0 => expired[r] # 0]_vars

\* A request ends, and another can be made.
RocEnds == (roc_elem # 0) ~> (roc_elem = 0)
=============================================================================
