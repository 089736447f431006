----------------------------- MODULE MCTransmit -----------------------------
(***************************************************************************)
(* The transmit queues (TxQueues) and the TCP ack filter in front of them  *)
(* (TcpAck), each on its own, in one of several settings.  Two data        *)
(* queues, TID 7 and TID 0, and the management queue, which shares TID 7's *)
(* hardware queue.                                                         *)
(***************************************************************************)
EXTENDS TxQueues, TcpAckState

CONSTANTS p1, c1, c2,
  Settings  \* which of the settings below a behaviour may have

VARIABLE setting

MCTids  == <<"t7", "t0">>
MCHwqOf == [q \in {"t7", "t0", "mgmt"} |-> IF q = "t0" THEN "BE" ELSE "VO"]
AllSettings == {"asleep", "switch", "reuse", "acks", "one_ack"}

\* The peer sleeps and asks for buffers; the interface leaves its channel; the peer leaves
\* and another takes over its queues.
Asleep   == {"ps", "retry", "mgmt"}
Leaves   == {"ps", "chan", "noa", "retry"}
Replaced == {"ps", "csa", "interrupt", "retry", "leave"}
MCAllows == {Asleep, Leaves, Replaced}

\* Where the channel or the peer is left, a subqueue is stopped by a second buffer.
Short == INSTANCE TxQueues WITH FlowStop <- 1, MaxMade <- 2
\* As many entries as connections, acks repeated; one entry for two
\* connections, ack numbers that wrap.
Acks == INSTANCE TcpAck WITH
          CPU <- {p1}, Conn <- {c1, c2}, TCP_ACK_NUM <- 2, MaxDrop <- 2,
          SeqMod <- 8, First <- 7, Last <- 7, MaxDrift <- 1, Types <- {1}
OneAck == INSTANCE TcpAck WITH
            CPU <- {p1}, Conn <- {c1, c2}, TCP_ACK_NUM <- 1, MaxDrop <- 2,
            SeqMod <- 8, First <- 7, Last <- 8, MaxDrift <- 1, Types <- {1}

ackvars == <<busy, conn, seq, drop_cnt, psh_flag, psh_seq, msgbuf, in_send_msg,
             old, timer, handler, enable, max_num, free_index, pc, index, cur, stack, sent>>
mcvars == <<vars, ackvars, setting>>

MCInit ==
  /\ setting \in Settings /\ Init
  /\ setting = "switch" <=> allow = Leaves
  /\ setting = "reuse" <=> allow = Replaced
  /\ IF setting = "acks" THEN Acks!Init ELSE OneAck!Init
MCNext ==
  /\ \/ setting = "asleep" /\ Next /\ UNCHANGED ackvars
     \/ setting \in {"switch", "reuse"} /\ Short!Next /\ UNCHANGED ackvars
     \/ setting = "acks" /\ Acks!Next /\ UNCHANGED vars
     \/ setting = "one_ack" /\ OneAck!Next /\ UNCHANGED vars
  /\ UNCHANGED setting

Queues == setting \in {"asleep", "switch"} /\ UNCHANGED <<ackvars, allow, setting>>
CfmRuns == Queues /\ CfmLink
TaskletRuns == Queues /\ rwnx_task
XmitRuns == Queues /\ \E x \in xmit : XmitQueue(x)
AckXmitRuns == setting = "one_ack" /\ OneAck!XmitStep(p1) /\ UNCHANGED <<vars, setting>>
AckTimerRuns == setting = "one_ack" /\ OneAck!TimerStep(0) /\ UNCHANGED <<vars, setting>>

MCSpec ==
  /\ MCInit /\ [][MCNext]_mcvars
  /\ WF_mcvars(CfmRuns) /\ WF_mcvars(TaskletRuns) /\ WF_mcvars(XmitRuns)
  /\ WF_mcvars(AckXmitRuns) /\ WF_mcvars(AckTimerRuns)

\* A stopped netdev subqueue whose queue may transmit is woken again, by
\* rwnx_rx_chan_switch_ind and rwnx_rx_p2p_vif_ps_change_ind too; and a
\* service period ends, while the channel stays what it is.
QueuesServed ==
  /\ setting = "switch" => FlowReleased
  /\ setting = "asleep" => SpEnds

\* Filtering loses nothing: the newest ack of a connection is passed on.
NewestAckSent == setting = "one_ack" => OneAck!NewestAckSent
=============================================================================
