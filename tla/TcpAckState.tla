----------------------------- MODULE TcpAckState -----------------------------
(***************************************************************************)
(* The state of the TCP ack filter and of those who call it (TcpAck has    *)
(* the steps), and what the filter promises about the acks it withholds.   *)
(***************************************************************************)
EXTENDS Integers

CONSTANTS Fired, None

VARIABLES
  busy, conn, seq, drop_cnt, psh_flag, psh_seq, msgbuf, in_send_msg,   \* tcp_ack_info
  old,        \* more than ACK_OLD_TIME since last_time
  timer,      \* the entry's timer is pending
  handler,    \* tcp_ack_timeout of the entry: not running, begun, or sending an ack
  enable, max_num, free_index,   \* tcp_ack_manage
  pc, index,  \* where each transmit context is, and the index it works with
  cur,        \* the ack it transmits
  stack,      \* the newest ack number the stack produced for a connection
  sent        \* the newest that was passed on to the transmit queues

-----------------------------------------------------------------------------
(* A withheld ack has a timer that will look at it (tcp_ack_handle_new,
   tcp_ack_timeout, tcp_ack_deinit) and belongs to its entry's connection,
   although a new connection takes the entry over with its msgbuf uncleared;
   and a connection has one entry (tcp_ack_match): two would let an old ack
   overtake a new one. *)
HeldConsistent ==
  \A i \in DOMAIN msgbuf :
    /\ msgbuf[i] # None => timer[i] \/ handler[i] = Fired
    /\ msgbuf[i] # None => busy[i] /\ conn[i] = msgbuf[i].conn
    /\ \A j \in DOMAIN msgbuf : busy[i] /\ busy[j] /\ conn[i] = conn[j] => i = j
=============================================================================
