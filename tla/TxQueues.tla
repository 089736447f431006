------------------------------ MODULE TxQueues ------------------------------
(***************************************************************************)
(* The transmit queues of one peer of an access point interface            *)
(* (rwnx_txq.c, the power save and confirmation parts of rwnx_tx.c).  The  *)
(* stack's transmit calls, the rx thread (firmware indications and         *)
(* confirmations), the tasklet and cfg80211's station calls work on them;  *)
(* all but the confirmations take tx_lock, so each locked section is one   *)
(* action.                                                                 *)
(*                                                                         *)
(* As built (FULLMAC, no MU-MIMO, no A-MSDU, no TX_NETIF_FLOWCTRL) pushing *)
(* a buffer does not spend a credit, so STOP_FULL is never set and is left *)
(* out.  The order of a hardware queue's list, which only decides who goes *)
(* first in a pass, is abstracted: linked counts how often a queue is in   *)
(* its list.                                                               *)
(***************************************************************************)
EXTENDS Integers, Sequences, FiniteSets, FiniteSetsExt, Functions

CONSTANTS
    Tids,           \* the data queues in nx_tid_prio order, a sequence
    Mgmt,           \* the management queue (TID 8)
    HwqOf,          \* rwnx_tid2hwq: queue -> hardware queue
    Uapsd,          \* uapsd_tids: the queues whose ps_id is UAPSD_ID
    Credits,        \* NX_TXQ_INITIAL_CREDITS (64)
    FlowStop,       \* RWNX_NDEV_FLOW_CTRL_STOP and _RESTART (64)
    Eapol,          \* numbers of the data buffers whose fate the firmware confirms
    MaxMade,        \* bound on the buffers sent
    MaxRetry,       \* bound on the retries the firmware asks for
    Allows          \* which sets of inputs a behaviour may have

Data == Range(Tids)
TXQ  == Data \cup {Mgmt}
PsIds == {"LEGACY", "UAPSD"}
PsOf(q) == IF q \in Uapsd THEN "UAPSD" ELSE "LEGACY"

\* The sum of f over the queues of S with ps_id p.
Total(f, S, p) == SumFunctionOnSet(f, {q \in S : PsOf(q) = p})
Reasons == {"STA_PS", "VIF_PS", "CHAN", "CSA"}
Flags   == Reasons \cup {"IN_HWQ_LIST", "NDEV_FLOW_CTRL"}

ASSUME TxqAssumption ==
    /\ Mgmt \notin Data /\ Uapsd \subseteq TXQ /\ DOMAIN HwqOf = TXQ
    /\ Credits \in 1..127 /\ FlowStop \in Nat \ {0}
    /\ MaxMade \in Nat /\ MaxRetry \in Nat /\ Eapol \subseteq 1..MaxMade
    /\ Tids \in Seq(Data) /\ \A i, j \in DOMAIN Tids : Tids[i] = Tids[j] => i = j

VARIABLES
    txq,            \* [TXQ -> struct rwnx_txq]
    ps,             \* sta->ps: active, pkt_ready, sp_cnt; and the TIM bit told to the firmware
    need,           \* hardware queues with need_processing set
    tasklet,        \* rwnx_task is scheduled
    xmit,           \* transmit calls past the TXQ_INACTIVE check, before tx_lock
    fw,             \* buffers in the firmware that it will confirm
    cfm,            \* the confirmation about to link a queue: at most one
    ndev,           \* netdev subqueues that are stopped
    vif,            \* the stop reasons of the interface's own queues
    peer,           \* "up", "leaving" or "gone"
    flushing,       \* queues deinitialised and not yet flushed
    made, retried,  \* bounds
    allow           \* which parts of the environment act in this behaviour

vars == <<txq, ps, need, tasklet, xmit, fw, cfm, ndev, vif, peer, flushing, made, retried, allow>>

\* What may happen is the same all along a behaviour.
Same == UNCHANGED allow

\* struct rwnx_txq as rwnx_txq_init leaves it.
Fresh(status) ==
    [active |-> TRUE, status |-> status, linked |-> 0, sk_list |-> <<>>, credits |-> Credits,
     nb_retry |-> 0, last_retry |-> 0, push_limit |-> 0]

PsOff == [active |-> FALSE, pkt_ready |-> [p \in PsIds |-> 0], sp_cnt |-> [p \in PsIds |-> 0],
          tim |-> [p \in PsIds |-> FALSE]]

Init ==
    /\ txq = [q \in TXQ |-> Fresh({})]
    /\ ps = PsOff
    /\ need = {} /\ tasklet = FALSE /\ xmit = {} /\ fw = {} /\ cfm = {} /\ ndev = {}
    /\ vif = {} /\ peer = "up" /\ flushing = {} /\ made = 0 /\ retried = 0
    /\ allow \in Allows

\* Confirmations run beside the sections that hold tx_lock, as the code lets them ("race"),
\* or as if they held it too, as the comment on rwnx_txdatacfm says.
Unlocked == cfm = {} \/ "race" \in allow

-----------------------------------------------------------------------------
(* Lists and stop reasons                                                  *)

rwnx_txq_is_stopped(t) == t.status \cap Reasons # {}
rwnx_txq_skb_ready(t)  == t.sk_list # <<>>

BugAddAgain(t) == [t EXCEPT !.status = @ \cup {"IN_HWQ_LIST"}, !.linked = @ + 1]

rwnx_txq_add_to_hw_list(t) ==
    IF "IN_HWQ_LIST" \in t.status THEN t
    ELSE [t EXCEPT !.status = @ \cup {"IN_HWQ_LIST"}, !.linked = @ + 1]

rwnx_txq_del_from_hw_list(t) ==
    IF "IN_HWQ_LIST" \notin t.status THEN t
    ELSE [t EXCEPT !.status = @ \ {"IN_HWQ_LIST"}, !.linked = @ - 1]

\* Hardware queues that gained a member between two values of the queues.
Linked(old, new) == {HwqOf[q] : q \in {x \in TXQ : new[x].linked > old[x].linked}}

BugStartUnlinked(t, reason) ==
    IF t.active THEN [t EXCEPT !.status = @ \ {reason}] ELSE t

rwnx_txq_start(t, reason) ==
    IF ~t.active \/ reason \notin t.status THEN t
    ELSE LET u == [t EXCEPT !.status = @ \ {reason}]
         IN IF ~rwnx_txq_is_stopped(u) /\ rwnx_txq_skb_ready(u)
            THEN rwnx_txq_add_to_hw_list(u) ELSE u

BugStopLeavesListed(t, reason) ==
    IF t.active THEN [t EXCEPT !.status = @ \cup {reason}] ELSE t

rwnx_txq_stop(t, reason) ==
    IF t.active THEN rwnx_txq_del_from_hw_list([t EXCEPT !.status = @ \cup {reason}]) ELSE t

-----------------------------------------------------------------------------
(* Queueing and pushing                                                    *)

\* skb f joins queue t: fresh buffers at the tail, retries behind the last retry at the head.
BugRetryTail(t, f, retry) ==
    IF retry THEN [t EXCEPT !.sk_list = Append(@, f), !.last_retry = f, !.nb_retry = @ + 1]
    ELSE [t EXCEPT !.sk_list = Append(@, f)]

Enqueue(t, f, retry) ==
    IF ~retry THEN [t EXCEPT !.sk_list = Append(@, f)]
    ELSE LET n == IF t.last_retry = 0 THEN 0
                  ELSE CHOOSE i \in DOMAIN t.sk_list : t.sk_list[i] = t.last_retry
         IN [t EXCEPT !.sk_list = SubSeq(@, 1, n) \o <<f>> \o SubSeq(@, n + 1, Len(@)),
                      !.last_retry = f, !.nb_retry = @ + 1]

\* sta->ps after a buffer was queued on q.
CountQueued(s, q) ==
    IF ~s.active THEN s
    ELSE LET p == PsOf(q)
         IN [s EXCEPT !.pkt_ready[p] = @ + 1, !.tim[p] = @ \/ s.pkt_ready[p] = 0]

\* The queue is too long for its netdev subqueue.
Overfull(q, t) == q \in Data /\ Len(t.sk_list) > FlowStop
MarkFlow(q, t) == IF Overfull(q, t) THEN [t EXCEPT !.status = @ \cup {"NDEV_FLOW_CTRL"}] ELSE t

rwnx_txq_get_credits(t) ==
    IF t.push_limit > 0 /\ t.credits > t.push_limit THEN t.push_limit ELSE t.credits

\* Buffers a pass over the list takes from a queue.
Pushed(t) == IF t.active THEN Min({Len(t.sk_list), Max({rwnx_txq_get_credits(t), 0})}) ELSE 0

\* rwnx_txq_get_skb_to_push: the queue is done with for this pass.
BugStaysListed(t) == rwnx_txq_get_credits(t) > Len(t.sk_list)

txq_empty(t) ==
    \/ rwnx_txq_get_credits(t) >= Len(t.sk_list)
    \/ t.push_limit > 0 /\ rwnx_txq_get_credits(t) = t.push_limit

\* push_limit left after the pass; a legacy service period is then aborted.
Rest(t) == Max({t.push_limit - Pushed(t), 0})

Wakes(t) == t.active /\ "NDEV_FLOW_CTRL" \in t.status /\ Len(t.sk_list) - Pushed(t) < FlowStop

\* One queue of the list after the pass.
AfterPass(q, t) ==
    IF ~t.active THEN [rwnx_txq_del_from_hw_list(t) EXCEPT !.sk_list = <<>>]
    ELSE LET n == Pushed(t)
             u == IF txq_empty(t) THEN rwnx_txq_del_from_hw_list(t) ELSE t
         IN [u EXCEPT !.sk_list = SubSeq(@, n + 1, Len(@)),
                      !.nb_retry = Max({@ - n, 0}),
                      !.last_retry = IF t.nb_retry <= n THEN 0 ELSE @,
                      !.push_limit = IF PsOf(q) = "LEGACY" THEN 0 ELSE Rest(t),
                      !.status = IF Wakes(t) THEN @ \ {"NDEV_FLOW_CTRL"} ELSE @]

\* sta->ps after the pass: rwnx_set_more_data_flag for every buffer pushed.
BugKeepsReady(s, served, t) ==
    LET sent(p) == Total([q \in TXQ |-> Pushed(t[q])], served, p)
    IN IF s.active THEN [s EXCEPT !.sp_cnt = [p \in PsIds |-> @[p] - sent(p)]] ELSE s

CountPushed(s, served, t) ==
    LET sent(p) == IF s.active THEN Total([q \in TXQ |-> Pushed(t[q])], served, p) ELSE 0
        rest(p) == IF p = "LEGACY" THEN Total([q \in TXQ |-> Rest(t[q])], served, p) ELSE 0
    IN [s EXCEPT !.pkt_ready = [p \in PsIds |-> @[p] - sent(p)],
                 !.sp_cnt    = [p \in PsIds |-> @[p] - sent(p) - rest(p)],
                 !.tim       = [p \in PsIds |-> @[p] /\ (sent(p) > 0 => s.pkt_ready[p] # sent(p))]]

\* rwnx_hwq_process for the hardware queues of H, starting from queues t and power save state s.
rwnx_hwq_process(H, t, s, stopped) ==
    LET served == {q \in TXQ : t[q].linked > 0 /\ HwqOf[q] \in H}
    IN /\ txq' = [q \in TXQ |-> IF q \in served THEN AfterPass(q, t[q]) ELSE t[q]]
       /\ ps' = CountPushed(s, served, t)
       /\ ndev' = stopped \ {q \in served : Wakes(t[q])}
       /\ fw' = fw \cup UNION {{[q |-> q, n |-> t[q].sk_list[i]] :
                                  i \in {j \in 1..Pushed(t[q]) : q = Mgmt \/ t[q].sk_list[j] \in Eapol}} :
                                q \in served}

-----------------------------------------------------------------------------
(* Transmission                                                            *)

\* rwnx_start_xmit and rwnx_start_mgmt_xmit up to the lock: the queue looked active.  The
\* stack makes one call at a time for a subqueue, and none for a stopped one.
XmitCheck(q) ==
    /\ Unlocked /\ made < MaxMade /\ q \notin ndev /\ \A x \in xmit : x.q # q
    /\ q = Mgmt => "mgmt" \in allow
    /\ txq[q].active
    /\ made' = made + 1
    /\ xmit' = xmit \cup {[q |-> q, n |-> made + 1]}
    /\ UNCHANGED <<txq, ps, need, tasklet, fw, cfm, ndev, vif, peer, flushing, retried>>

\* ... and under it: queue the buffer and, unless the queue is stopped, process its hwq.
XmitQueue(x) ==
    LET q == x.q
        t == MarkFlow(q, Enqueue(txq[q], x.n, FALSE))
        s == CountQueued(ps, q)
        stopped == IF Overfull(q, t) THEN ndev \cup {q} ELSE ndev
    IN /\ Unlocked
       /\ xmit' = xmit \ {x}
       /\ IF rwnx_txq_is_stopped(t)
          THEN /\ txq' = [txq EXCEPT ![q] = t] /\ ps' = s /\ ndev' = stopped
               /\ UNCHANGED <<need, fw>>
          ELSE /\ rwnx_hwq_process({HwqOf[q]}, [txq EXCEPT ![q] = rwnx_txq_add_to_hw_list(t)], s, stopped)
               /\ need' = need \ {HwqOf[q]}
       /\ UNCHANGED <<tasklet, cfm, vif, peer, flushing, made, retried>>

\* rwnx_task: rwnx_hwq_process_all.
BugOneHwq ==
    /\ Unlocked /\ tasklet
    /\ tasklet' = FALSE
    /\ \E h \in need : rwnx_hwq_process({h}, txq, ps, ndev) /\ need' = {}
    /\ UNCHANGED <<xmit, cfm, vif, peer, flushing, made, retried>>

rwnx_task ==
    /\ Unlocked /\ tasklet
    /\ tasklet' = FALSE
    /\ rwnx_hwq_process(need, txq, ps, ndev)
    /\ need' = {}
    /\ UNCHANGED <<xmit, cfm, vif, peer, flushing, made, retried>>

-----------------------------------------------------------------------------
(* Confirmation: rwnx_txdatacfm, called by the rx thread without tx_lock   *)

s8(x) == IF x > 127 THEN x - 256 ELSE x

\* rwnx_tx_retry: the buffer goes back to the head of its queue.
rwnx_tx_retry(t, n) == [Enqueue(t, n, TRUE) EXCEPT !.credits = s8(@ + 1)]

\* Everything up to linking the queue; a step of its own because no lock is held.
rwnx_txdatacfm(f, retry) ==
    LET t == txq[f.q]
        again == retry /\ t.active /\ f.q # Mgmt
        u == IF again THEN MarkFlow(f.q, rwnx_tx_retry(t, f.n)) ELSE t
        link == IF again THEN ~rwnx_txq_is_stopped(u) ELSE t.active /\ t.push_limit > 0
    IN /\ retry => retried < MaxRetry /\ "retry" \in allow
       /\ cfm = {}
       /\ fw' = fw \ {f}
       /\ need' = need \cup {HwqOf[f.q]}
       /\ txq' = [txq EXCEPT ![f.q] = u]
       /\ ps' = IF again THEN CountQueued(ps, f.q) ELSE ps
       /\ ndev' = IF again /\ Overfull(f.q, u) THEN ndev \cup {f.q} ELSE ndev
       /\ cfm' = IF link /\ "IN_HWQ_LIST" \notin u.status THEN {[q |-> f.q, status |-> u.status]} ELSE {}
       /\ retried' = IF retry THEN retried + 1 ELSE retried
       /\ UNCHANGED <<tasklet, xmit, vif, peer, flushing, made>>

\* rwnx_txq_add_to_hw_list of the confirmation.  The status it writes back is the one it
\* tested or, if the compiler reads it again, the present one.
CfmLink ==
    /\ \E c \in cfm :
         /\ \E st \in {c.status, txq[c.q].status} :
              txq' = [txq EXCEPT ![c.q].status = st \cup {"IN_HWQ_LIST"}, ![c.q].linked = @ + 1]
         /\ need' = need \cup {HwqOf[c.q]}
    /\ cfm' = {}
    /\ UNCHANGED <<ps, tasklet, xmit, fw, ndev, vif, peer, flushing, made, retried>>

-----------------------------------------------------------------------------
(* Firmware indications                                                    *)

\* Queues and power save state after rwnx_ps_bh_enable.
PsEnabled(t) ==
    [active |-> TRUE, sp_cnt |-> [p \in PsIds |-> 0], tim |-> ps.tim,
     pkt_ready |-> [p \in PsIds |-> Total([q \in TXQ |-> Len(t[q].sk_list)], TXQ, p)]]
PsStopped(t) == [q \in TXQ |-> rwnx_txq_stop(t[q], "STA_PS")]

PsDisabled(s) == [s EXCEPT !.active = FALSE, !.tim["LEGACY"] = @ /\ s.pkt_ready["LEGACY"] = 0]
PsStarted(t)  == [q \in TXQ |-> rwnx_txq_start([t[q] EXCEPT !.push_limit = 0], "STA_PS")]

\* rwnx_rx_ps_change_ind: the peer falls asleep or wakes.
rwnx_ps_bh_enable(on) ==
    /\ Unlocked /\ "ps" \in allow /\ peer = "up" /\ on # ps.active
    /\ txq' = IF on THEN PsStopped(txq) ELSE PsStarted(txq)
    /\ ps' = IF on THEN PsEnabled(txq) ELSE PsDisabled(ps)
    /\ need' = need \cup Linked(txq, txq')
    /\ tasklet' = (tasklet \/ ~on)
    /\ UNCHANGED <<xmit, fw, cfm, ndev, vif, peer, flushing, made, retried>>

\* What rwnx_ps_bh_traffic_req lets the queues push for a request of n buffers: it goes
\* through the data queues in their order while something of the request is left.
Offer(p) == [q \in TXQ |-> IF q \in Data /\ PsOf(q) = p
                           THEN Min({Len(txq[q].sk_list), txq[q].credits}) ELSE 0]
Ahead(q) == {Tids[i] : i \in {j \in DOMAIN Tids : \E k \in DOMAIN Tids : j < k /\ Tids[k] = q}}
Grant(n, p) ==
    [q \in TXQ |-> Min({Offer(p)[q], Max({0, n - SumFunctionOnSet(Offer(p), Ahead(q))})})]

\* The sleeping peer asks for n buffers, 0 for all.
rwnx_ps_bh_traffic_req(n, p) ==
    LET ready == ps.pkt_ready[p] - ps.sp_cnt[p]
        g == Grant(IF n = 0 \/ n > ready THEN ready ELSE n, p)
    IN /\ Unlocked /\ "ps" \in allow /\ ps.active
       /\ ps.sp_cnt[p] = 0 /\ ready > 0
       /\ txq' = [q \in TXQ |->
                    IF g[q] > 0 THEN rwnx_txq_add_to_hw_list([txq[q] EXCEPT !.push_limit = g[q]])
                    ELSE txq[q]]
       /\ ps' = [ps EXCEPT !.sp_cnt[p] = SumFunctionOnSet(g, TXQ)]
       /\ need' = need \cup Linked(txq, txq')
       /\ tasklet' = TRUE
       /\ UNCHANGED <<xmit, fw, cfm, ndev, vif, peer, flushing, made, retried>>

\* PS_SP_INTERRUPTED: the firmware ends a U-APSD service period.
SpInterrupted ==
    /\ Unlocked /\ "interrupt" \in allow /\ ps.active /\ ps.sp_cnt["UAPSD"] > 0
    /\ ps' = [ps EXCEPT !.sp_cnt["UAPSD"] = 0]
    /\ txq' = [q \in TXQ |-> [txq[q] EXCEPT !.push_limit = 0]]
    /\ UNCHANGED <<need, tasklet, xmit, fw, cfm, ndev, vif, peer, flushing, made, retried>>

\* rwnx_txq_vif_start and rwnx_txq_vif_stop: the peers in the interface's list.
VifStart(reason) ==
    /\ Unlocked
    /\ txq' = IF peer = "up" THEN [q \in TXQ |-> rwnx_txq_start(txq[q], reason)] ELSE txq
    /\ vif' = vif \ {reason}
    /\ need' = need \cup Linked(txq, txq')
    /\ UNCHANGED <<ps, xmit, fw, cfm, ndev, peer, flushing, made, retried>>

VifStop(reason) ==
    /\ Unlocked
    /\ txq' = IF peer = "up" THEN [q \in TXQ |-> rwnx_txq_stop(txq[q], reason)] ELSE txq
    /\ vif' = vif \cup {reason}
    /\ UNCHANGED <<ps, need, tasklet, xmit, fw, cfm, ndev, peer, flushing, made, retried>>

rwnx_rx_chan_pre_switch_ind == "chan" \in allow /\ VifStop("CHAN")
rwnx_rx_chan_switch_ind     == "chan" \in allow /\ VifStart("CHAN") /\ tasklet' = TRUE

BugNotScheduled(off) ==
    /\ "noa" \in allow
    /\ IF off THEN VifStart("VIF_PS") /\ UNCHANGED tasklet ELSE VifStop("VIF_PS")

rwnx_rx_p2p_vif_ps_change_ind(off) ==
    /\ "noa" \in allow
    /\ IF off THEN VifStart("VIF_PS") /\ tasklet' = TRUE ELSE VifStop("VIF_PS")

rwnx_rx_csa_traffic_ind(enable) ==
    /\ "csa" \in allow
    /\ IF enable THEN VifStart("CSA") /\ UNCHANGED tasklet ELSE VifStop("CSA")

-----------------------------------------------------------------------------
(* The peer leaves and another takes its place                             *)

\* rwnx_cfg80211_del_station: off the interface's list, no longer asleep.
rwnx_cfg80211_del_station ==
    /\ Unlocked /\ "leave" \in allow /\ peer = "up"
    /\ peer' = "leaving"
    /\ ps' = [ps EXCEPT !.active = FALSE]
    /\ UNCHANGED <<txq, need, tasklet, xmit, fw, cfm, ndev, vif, flushing, made, retried>>

rwnx_txq_deinit(q) ==
    /\ Unlocked /\ peer = "leaving" /\ flushing = {} /\ txq[q].active
    /\ txq' = [txq EXCEPT ![q] = [rwnx_txq_del_from_hw_list(txq[q]) EXCEPT !.active = FALSE]]
    /\ flushing' = {q}
    /\ UNCHANGED <<ps, need, tasklet, xmit, fw, cfm, ndev, vif, peer, made, retried>>

rwnx_txq_flush(q) ==
    /\ Unlocked /\ q \in flushing
    /\ flushing' = {}
    /\ txq' = [txq EXCEPT ![q].sk_list = <<>>]
    /\ peer' = IF \A x \in TXQ : ~txq[x].active THEN "gone" ELSE peer
    /\ UNCHANGED <<ps, need, tasklet, xmit, fw, cfm, ndev, vif, made, retried>>

\* rwnx_cfg80211_add_station: rwnx_txq_sta_init, then rwnx_ps_bh_enable with the peer's
\* power save state.  The firmware has returned the old peer's buffers.
rwnx_cfg80211_add_station(asleep) ==
    LET t == [q \in TXQ |-> Fresh(vif \cap {"CHAN", "VIF_PS"})]
    IN /\ Unlocked /\ peer = "gone" /\ fw = {} /\ cfm = {}
       /\ asleep => "ps" \in allow
       /\ peer' = "up"
       /\ txq' = IF asleep THEN PsStopped(t) ELSE PsStarted(t)
       /\ ps' = IF asleep THEN PsEnabled(t) ELSE PsDisabled(ps)
       /\ tasklet' = (tasklet \/ ~asleep)
       /\ UNCHANGED <<need, xmit, fw, cfm, ndev, vif, flushing, made, retried>>

-----------------------------------------------------------------------------
Next ==
    /\ \/ \E f \in fw, retry \in BOOLEAN : rwnx_txdatacfm(f, retry)
       \/ CfmLink
       \/ \E q \in TXQ : XmitCheck(q) \/ rwnx_txq_deinit(q) \/ rwnx_txq_flush(q)
       \/ \E x \in xmit : XmitQueue(x)
       \/ rwnx_task
       \/ \E on \in BOOLEAN : rwnx_ps_bh_enable(on)
       \/ \E n \in 0..1, p \in PsIds : rwnx_ps_bh_traffic_req(n, p)
       \/ SpInterrupted
       \/ rwnx_rx_chan_pre_switch_ind
       \/ rwnx_rx_chan_switch_ind
       \/ \E b \in BOOLEAN : rwnx_rx_p2p_vif_ps_change_ind(b) \/ rwnx_rx_csa_traffic_ind(b)
       \/ rwnx_cfg80211_del_station
       \/ \E b \in BOOLEAN : rwnx_cfg80211_add_station(b)
    /\ Same

Spec == Init /\ [][Next]_vars

\* The rx thread finishes what it began, transmit calls get the lock, the tasklet runs.
LiveSpec == Spec /\ WF_vars(CfmLink /\ Same) /\ WF_vars(rwnx_task /\ Same)
                 /\ WF_vars(Same /\ \E x \in xmit : XmitQueue(x))

-----------------------------------------------------------------------------
\* The queues, counters and bits stay in their types: counters never go below zero.
TypeOK ==
    /\ txq \in [TXQ -> [active : BOOLEAN, status : SUBSET Flags, linked : 0..2, sk_list : Seq(1..MaxMade),
                        credits : -128..127, nb_retry : 0..MaxRetry, last_retry : 0..MaxMade,
                        push_limit : Nat]]
    /\ ps \in [active : BOOLEAN, pkt_ready : [PsIds -> Nat], sp_cnt : [PsIds -> Nat],
               tim : [PsIds -> BOOLEAN]]
    /\ need \subseteq Range(HwqOf) /\ tasklet \in BOOLEAN /\ ndev \subseteq Data
    /\ peer \in {"up", "leaving", "gone"} /\ flushing \subseteq TXQ

\* rwnx_hwq_process stops the kernel on a queue of its list without buffer or credit
\* (BUG_ON): every active queue in a list has both, through stops, service periods,
\* retries, flushes and reuse.
ListedHasWork ==
    \A q \in TXQ : txq[q].linked > 0 /\ txq[q].active => txq[q].sk_list # <<>> /\ txq[q].credits > 0

\* IN_HWQ_LIST says whether the queue is linked, and it is linked once: linking a queue
\* twice corrupts the list.
LinkedOnce == \A q \in TXQ : txq[q].linked = IF "IN_HWQ_LIST" \in txq[q].status THEN 1 ELSE 0

\* No queue is forgotten: one that is active, has buffers and is not stopped is in its list.
ReadyIsListed ==
    \A q \in TXQ : txq[q].active /\ txq[q].sk_list # <<>> /\ ~rwnx_txq_is_stopped(txq[q])
                     => txq[q].linked > 0 \/ \E c \in cfm : c.q = q

\* While the peer sleeps, pkt_ready counts its queued buffers and sp_cnt what its
\* queues may still push.
PsCounts ==
    ps.active => \A p \in PsIds :
        /\ ps.pkt_ready[p] = Total([q \in TXQ |-> Len(txq[q].sk_list)], TXQ, p)
        /\ ps.sp_cnt[p] = Total([q \in TXQ |-> txq[q].push_limit], TXQ, p)

\* The first nb_retry buffers are the retries and last_retry_skb is the last of them,
\* which rwnx_tx_push warns about otherwise.
RetriesFirst ==
    \A q \in TXQ : LET t == txq[q]
                   IN t.active => /\ t.nb_retry <= Len(t.sk_list)
                                  /\ (t.nb_retry = 0) = (t.last_retry = 0)
                                  /\ t.nb_retry > 0 => t.sk_list[t.nb_retry] = t.last_retry

\* A sleeping peer gets no more buffers than it asked for: a queue listed while the peer
\* sleeps has a push limit.
AsleepIsLimited ==
    \A q \in TXQ : txq[q].linked > 0 /\ "STA_PS" \in txq[q].status => txq[q].push_limit > 0

\* A queue in a hardware list is there once and has something it may push, and one that
\* has is there (rwnx_txq_start, rwnx_txq_stop); retries go first; and while the peer
\* sleeps, pkt_ready and sp_cnt count what its queues hold and it gets no more than it
\* asked for, unless the firmware interrupts a service period (PS_SP_INTERRUPTED).  Asked
\* where confirmations are serialised, and while the retries have not made a queue's
\* signed credits overflow.
QueuesConsistent ==
    "race" \notin allow /\ Credits + retried <= 127
      => /\ ListedHasWork /\ LinkedOnce /\ ReadyIsListed /\ RetriesFirst
         /\ "interrupt" \notin allow => TypeOK /\ PsCounts /\ AsleepIsLimited

\* A service period ends: the buffers the peer asked for are pushed or it wakes.
SpEnds == \A p \in PsIds : ps.active /\ ps.sp_cnt[p] > 0 ~> ~ps.active \/ ps.sp_cnt[p] = 0

\* A netdev subqueue stopped for a queue that may transmit is woken again.
FlowReleased ==
    \A q \in Data : q \in ndev /\ txq[q].active /\ ~rwnx_txq_is_stopped(txq[q])
                      ~> q \notin ndev \/ ~txq[q].active \/ rwnx_txq_is_stopped(txq[q])

\* "Any buffer stuck in a queue will be freed": a deinitialised queue holds none.
\* Not kept by the code, see the README.
StuckIsFreed == \A q \in TXQ : ~txq[q].active /\ q \notin flushing => txq[q].sk_list = <<>>

\* NDEV_FLOW_CTRL says "associated netdev queue is currently stopped".
\* Not kept by the code, see the README.
FlowFlag == \A q \in Data : q \in ndev <=> "NDEV_FLOW_CTRL" \in txq[q].status

\* A sleeping peer with buffers waiting is told so: "Update TIM if some packet are ready".
\* Not kept by the code, see the README.
TimSet == \A p \in PsIds : ps.active /\ ps.pkt_ready[p] > 0 => ps.tim[p]
=============================================================================
