------------------------------- MODULE TcpAck -------------------------------
(***************************************************************************)
(* The TCP ack filter of the aic8800 driver (aicwf_tcp_ack.c): acks of a   *)
(* connection are withheld while newer ones supersede them, at most        *)
(* MaxDrop in a row and at most 5 ms.  Transmit contexts (rwnx_start_xmit  *)
(* on a CPU), the timer of each entry and the receive path share the       *)
(* entries; a body under an entry's seqlock is one step.  An ack is its    *)
(* number; in_send_msg names who is transmitting the message it points to. *)
(***************************************************************************)
EXTENDS TcpAckState, FiniteSets

CONSTANTS CPU,        \* transmit contexts that run at the same time
          Conn,       \* TCP connections
          TCP_ACK_NUM, MaxDrop,   \* entries; TCP_ACK_DROP_CNT
          SeqMod,     \* 2^32: ack numbers are 32 bits wide
          First, Last,   \* bounds on the ack numbers of a connection
          MaxDrift,   \* bound on how far max_num may run ahead of the busy entries
          Types       \* classes of acks the stack sends: 1 plain, 2 with more information

Entry == 0 .. TCP_ACK_NUM - 1

info == <<busy, conn, seq, drop_cnt, psh_flag, psh_seq, msgbuf, in_send_msg>>
mgr == <<enable, max_num, free_index>>
vars == <<info, old, timer, handler, mgr, pc, index, cur, stack, sent>>

Number == First .. Last
Ack == [conn : Conn, seq : Number, type : Types]
U32_BEFORE(a, b) == LET d == (a - b) % SeqMod IN d = 0 \/ d >= SeqMod \div 2

TypeOK ==
  /\ busy \in [Entry -> BOOLEAN] /\ psh_flag \in [Entry -> BOOLEAN]
  /\ conn \in [Entry -> Conn \cup {None}]
  /\ seq \in [Entry -> Number] /\ psh_seq \in [Entry -> Number]
  /\ drop_cnt \in [Entry -> 0 .. MaxDrop]
  /\ msgbuf \in [Entry -> Ack \cup {None}]
  /\ in_send_msg \in [Entry -> CPU \cup Entry \cup {None}]
  /\ old \in [Entry -> BOOLEAN] /\ timer \in [Entry -> BOOLEAN]
  /\ handler \in [Entry -> {None, Fired} \cup Ack]
  /\ enable \in BOOLEAN /\ max_num \in Int /\ free_index \in Entry \cup {-1}
  /\ pc \in [CPU -> {"idle", "match", "handle", "alloc", "set", "send"}]
  /\ index \in [CPU -> Entry \cup {-1}] /\ cur \in [CPU -> Ack \cup {None}]
  /\ stack \in [Conn -> Number] /\ sent \in [Conn -> Number]

(* What tcp_ack_init leaves, every entry the same. *)
All(v) == [i \in Entry |-> v]

Init ==
  /\ busy = All(FALSE) /\ conn = All(None) /\ seq = All(First) /\ drop_cnt = All(0)
  /\ psh_flag = All(FALSE) /\ psh_seq = All(First)
  /\ msgbuf = All(None) /\ in_send_msg = All(None)
  /\ old = All(FALSE) /\ timer = All(FALSE)
  /\ enable = TRUE /\ max_num = 0 /\ free_index = 0
  /\ handler = All(None)
  /\ pc = [p \in CPU |-> "idle"] /\ index = [p \in CPU |-> -1] /\ cur = [p \in CPU |-> None]
  /\ stack = [c \in Conn |-> First] /\ sent = [c \in Conn |-> First]

Passed(c, n) == sent' = [sent EXCEPT ![c] = IF n > @ THEN n ELSE @]

-----------------------------------------------------------------------------
(* rwnx_start_xmit and filter_send_tcp_ack *)

(* The stack acknowledges more data, or the same again. *)
Xmit(p, a) ==
  /\ pc[p] = "idle" /\ a.seq \in {stack[a.conn], stack[a.conn] + 1}
  /\ stack' = [stack EXCEPT ![a.conn] = a.seq]
  /\ cur' = [cur EXCEPT ![p] = a] /\ pc' = [pc EXCEPT ![p] = "match"]
  /\ UNCHANGED <<info, old, timer, handler, mgr, index, sent>>

(* The entries tcp_ack_update frees when its own period is over: the lowest
   becomes the free index. *)
BugExpiresAll == {i \in Entry : busy[i]}
Expired == {i \in Entry : busy[i] /\ old[i]}
tcp_ack_update(expired) ==
  /\ busy' = [i \in Entry |-> busy[i] /\ i \notin expired]
  /\ max_num' = max_num - Cardinality(expired)
  /\ free_index' = IF expired = {} THEN free_index
                   ELSE CHOOSE i \in expired : \A j \in expired : i <= j
  /\ UNCHANGED <<conn, seq, drop_cnt, psh_flag, psh_seq, msgbuf, in_send_msg, enable>>

(* The lowest busy entry of connection c, or -1. *)
BugMatchFirst(c, isBusy) == IF isBusy[0] /\ conn[0] = c THEN 0 ELSE -1
tcp_ack_match(c, isBusy) ==
  LET found == {i \in Entry : isBusy[i] /\ conn[i] = c}
  IN IF found = {} THEN -1 ELSE CHOOSE i \in found : \A j \in found : i <= j

Match(p) ==
  /\ pc[p] = "match"
  /\ \E expired \in {{}, Expired} : tcp_ack_update(expired)
  /\ LET i == tcp_ack_match(cur[p].conn, busy')
     IN /\ index' = [index EXCEPT ![p] = i]
        /\ pc' = [pc EXCEPT ![p] = IF i = -1 THEN "alloc" ELSE IF enable THEN "handle" ELSE "send"]
  /\ UNCHANGED <<old, timer, handler, cur, stack, sent>>

(* tcp_ack_handle_new: an ack that acknowledges no less than the entry's goes
   out at once, or replaces the one withheld; an older one is dropped.  The
   class of the ack is not looked at.  (drop_cnt, compared with MaxDrop only,
   stops there.) *)
tcp_ack_handle_new(p) ==
  LET i == index[p]
      pushed == psh_flag[i] /\ ~U32_BEFORE(cur[p].seq, psh_seq[i])
      count == IF pushed \/ drop_cnt[i] = MaxDrop THEN drop_cnt[i] ELSE drop_cnt[i] + 1
      now == pushed \/ (in_send_msg[i] = None /\ count >= MaxDrop)
  IN /\ pc[p] = "handle"
     /\ old' = [old EXCEPT ![i] = FALSE]
     /\ IF U32_BEFORE(seq[i], cur[p].seq)
        THEN /\ seq' = [seq EXCEPT ![i] = cur[p].seq]
             /\ psh_flag' = [psh_flag EXCEPT ![i] = @ /\ ~pushed]
             /\ drop_cnt' = [drop_cnt EXCEPT ![i] = IF now THEN 0 ELSE count]
             /\ msgbuf' = [msgbuf EXCEPT ![i] = IF now THEN None ELSE cur[p]]
             /\ in_send_msg' = [in_send_msg EXCEPT ![i] = IF now THEN p ELSE @]
             /\ timer' = [timer EXCEPT ![i] = ~now]
             /\ pc' = [pc EXCEPT ![p] = IF now THEN "send" ELSE "idle"]
        ELSE /\ pc' = [pc EXCEPT ![p] = "idle"]
             /\ UNCHANGED <<seq, psh_flag, drop_cnt, msgbuf, in_send_msg, timer>>
     /\ UNCHANGED <<busy, conn, psh_seq, handler, mgr, index, cur, stack, sent>>

(* tcp_ack_alloc_index, under the manager's lock.  The scan counts the entry
   again when a writer of the entry makes it read twice. *)
Writers(p) == {q \in CPU \ {p} : pc[q] = "send"} \cup {i \in Entry : handler[i] \in Ack}
Drift == max_num - Cardinality({i \in Entry : busy[i]})
tcp_ack_alloc_index(p) ==
  LET free == {i \in Entry : ~busy[i]}
      Got(i, n) == /\ index' = [index EXCEPT ![p] = i]
                   /\ pc' = [pc EXCEPT ![p] = IF i = -1 THEN "send" ELSE "set"]
                   /\ max_num' = max_num + n
                   /\ free_index' = IF i = -1 THEN free_index ELSE -1
  IN /\ pc[p] = "alloc"
     /\ CASE max_num = TCP_ACK_NUM -> Got(-1, 0)
          [] max_num # TCP_ACK_NUM /\ free_index >= 0 -> Got(free_index, 1)
          [] max_num # TCP_ACK_NUM /\ free_index < 0 /\ free = {} -> Got(-1, 0)
          [] OTHER -> \E n \in IF Writers(p) # {} /\ Drift < MaxDrift THEN {1, 2} ELSE {1} :
                        Got(CHOOSE i \in free : \A j \in free : i <= j, n)
     /\ UNCHANGED <<info, old, timer, handler, enable, cur, stack, sent>>

(* The entry is filled in after the manager's lock is gone; msgbuf and
   in_send_msg keep what they had.  The ack itself is sent. *)
SetEntry(p) ==
  LET i == index[p]
  IN /\ pc[p] = "set"
     /\ busy' = [busy EXCEPT ![i] = TRUE] /\ psh_flag' = [psh_flag EXCEPT ![i] = FALSE]
     /\ old' = [old EXCEPT ![i] = FALSE] /\ drop_cnt' = [drop_cnt EXCEPT ![i] = MaxDrop]
     /\ conn' = [conn EXCEPT ![i] = cur[p].conn] /\ seq' = [seq EXCEPT ![i] = cur[p].seq]
     /\ pc' = [pc EXCEPT ![p] = "send"]
     /\ UNCHANGED <<psh_seq, msgbuf, in_send_msg, timer, handler, mgr, index, cur, stack, sent>>

(* Whoever transmits a message clears the in_send_msg that points to it. *)
BugNeverClears(w) == UNCHANGED in_send_msg
move_tcpack_msg(w) ==
  in_send_msg' = [i \in Entry |-> IF enable /\ busy[i] /\ in_send_msg[i] = w THEN None ELSE in_send_msg[i]]

Send(p) ==
  /\ pc[p] = "send"
  /\ move_tcpack_msg(p)
  /\ Passed(cur[p].conn, cur[p].seq)
  /\ pc' = [pc EXCEPT ![p] = "idle"] /\ cur' = [cur EXCEPT ![p] = None]
  /\ UNCHANGED <<busy, conn, seq, drop_cnt, psh_flag, psh_seq, msgbuf, old, timer, handler, mgr, index, stack>>

-----------------------------------------------------------------------------
(* The 5 ms timer of an entry *)

TimerFires(i) ==
  /\ timer[i] /\ handler[i] = None
  /\ timer' = [timer EXCEPT ![i] = FALSE] /\ handler' = [handler EXCEPT ![i] = Fired]
  /\ UNCHANGED <<info, old, mgr, pc, index, cur, stack, sent>>

tcp_ack_timeout(i) ==
  /\ handler[i] = Fired
  /\ IF busy[i] /\ msgbuf[i] # None /\ in_send_msg[i] = None
     THEN /\ handler' = [handler EXCEPT ![i] = msgbuf[i]]
          /\ msgbuf' = [msgbuf EXCEPT ![i] = None] /\ drop_cnt' = [drop_cnt EXCEPT ![i] = 0]
          /\ in_send_msg' = [in_send_msg EXCEPT ![i] = i]
     ELSE /\ handler' = [handler EXCEPT ![i] = None]
          /\ UNCHANGED <<msgbuf, drop_cnt, in_send_msg>>
  /\ UNCHANGED <<busy, conn, seq, psh_flag, psh_seq, old, timer, mgr, pc, index, cur, stack, sent>>

intf_tx(i) ==
  /\ handler[i] \in Ack
  /\ move_tcpack_msg(i)
  /\ Passed(handler[i].conn, handler[i].seq)
  /\ handler' = [handler EXCEPT ![i] = None]
  /\ UNCHANGED <<busy, conn, seq, drop_cnt, psh_flag, psh_seq, msgbuf, old, timer, mgr, pc, index, cur, stack>>

-----------------------------------------------------------------------------
(* A pushed segment arrives: the ack that covers it shall not wait. *)
filter_rx_tcp_ack(c) ==
  LET i == tcp_ack_match(c, busy)
  IN /\ enable /\ i # -1
     /\ psh_flag' = [psh_flag EXCEPT ![i] = TRUE]
     /\ psh_seq' = [psh_seq EXCEPT ![i] = stack[c]]
     /\ UNCHANGED <<busy, conn, seq, drop_cnt, msgbuf, in_send_msg, old, timer, handler, mgr, pc, index, cur, stack, sent>>

(* Four seconds without an ack: longer than a timer or a transmission takes. *)
Age(i) ==
  /\ busy[i] /\ ~old[i] /\ ~timer[i] /\ handler[i] = None /\ in_send_msg[i] = None
  /\ old' = [old EXCEPT ![i] = TRUE]
  /\ UNCHANGED <<info, timer, handler, mgr, pc, index, cur, stack, sent>>

(* The module is unloaded, after its network devices are gone. *)
BugKeepsHeld ==
  /\ enable /\ \A p \in CPU : pc[p] = "idle"
  /\ enable' = FALSE /\ timer' = All(FALSE)
  /\ UNCHANGED <<info, old, handler, max_num, free_index, pc, index, cur, stack, sent>>
tcp_ack_deinit ==
  /\ enable /\ \A p \in CPU : pc[p] = "idle"
  /\ enable' = FALSE
  /\ timer' = [i \in Entry |-> FALSE] /\ msgbuf' = [i \in Entry |-> None]
  /\ UNCHANGED <<busy, conn, seq, drop_cnt, psh_flag, psh_seq, in_send_msg, old, handler, max_num, free_index, pc, index, cur, stack, sent>>

(* It is loaded again; the connections of before are over. *)
tcp_ack_init ==
  /\ ~enable /\ \A i \in Entry : handler[i] = None
  /\ busy' = All(FALSE) /\ conn' = All(None) /\ seq' = All(First) /\ drop_cnt' = All(0)
  /\ psh_flag' = All(FALSE) /\ psh_seq' = All(First)
  /\ msgbuf' = All(None) /\ in_send_msg' = All(None)
  /\ old' = All(FALSE) /\ timer' = All(FALSE)
  /\ enable' = TRUE /\ max_num' = 0 /\ free_index' = 0
  /\ stack' = sent /\ UNCHANGED <<handler, pc, index, cur, sent>>

-----------------------------------------------------------------------------
XmitStep(p) == Match(p) \/ tcp_ack_handle_new(p) \/ tcp_ack_alloc_index(p) \/ SetEntry(p) \/ Send(p)
TimerStep(i) == TimerFires(i) \/ tcp_ack_timeout(i) \/ intf_tx(i)

Next ==
  \/ \E p \in CPU, a \in Ack : enable /\ Xmit(p, a)
  \/ \E p \in CPU : XmitStep(p)
  \/ \E i \in Entry : TimerStep(i) \/ Age(i)
  \/ \E c \in Conn : filter_rx_tcp_ack(c)
  \/ tcp_ack_deinit \/ tcp_ack_init

(* A transmit context runs to its end, a pending timer expires and its
   handler runs. *)
Fairness == /\ \A p \in CPU : WF_vars(XmitStep(p))
            /\ \A i \in Entry : WF_vars(TimerStep(i))

Spec == Init /\ [][Next]_vars
LiveSpec == Spec /\ Fairness

-----------------------------------------------------------------------------
(* Filtering loses nothing: the newest ack of a connection is passed on, as
   it is or in a newer one. *)
NewestAckSent == \A c \in Conn, n \in First + 1 .. Last : stack[c] = n ~> sent[c] >= n \/ ~enable

(* "lock for tcp ack alloc and free": an index handed out is not handed out
   again before its entry is taken.
   Not kept by the code, see the README. *)
AllocExclusive == \A p, q \in CPU : pc[p] = "set" /\ pc[q] = "set" /\ index[p] = index[q] => p = q

(* "1 for ack which can be drop, 2 for other ack whith more info": an ack of
   class 2 that is not outdated is neither withheld nor dropped.
   Not kept by the code, see the README. *)
InfoNotWithheld ==
  [][\A p \in CPU : pc[p] = "handle" /\ pc'[p] # "handle" /\ cur[p].type = 2
                      /\ U32_BEFORE(seq[index[p]], cur[p].seq) => pc'[p] = "send"]_vars
=============================================================================
