--------------------------- MODULE TransmitProofs ---------------------------
(***************************************************************************)
(* Proofs about the way of frames to the radio.                            *)
(*                                                                         *)
(* The filter of TCP acks (TcpAck): for one transmit context, any number   *)
(* of entries and connections, any class of acks and any limit on what is  *)
(* withheld.                                                               *)
(*                                                                         *)
(* The transmit queues (TxQueues): for any number of queues, in any        *)
(* order, on any hardware queues, any credits and stop level, any number   *)
(* of buffers, and every choice of what the environment does.              *)
(***************************************************************************)
EXTENDS TxQueues, TcpAckState, SequenceTheorems, FiniteSetTheorems,
        WellFoundedInduction, TLAPS

CONSTANTS CPU, Conn, TCP_ACK_NUM, MaxDrop, SeqMod, First, Last, MaxDrift, Types  \* as in TcpAck

Tcp == INSTANCE TcpAck

-----------------------------------------------------------------------------
(* The ack filter.                                                          *)

\* The constants as the program has them, and marks that are none of the
\* values they are told from.
Constants ==
  /\ TCP_ACK_NUM \in Nat \ {0} /\ MaxDrop \in Nat
  /\ First \in Nat /\ Last \in Nat /\ First <= Last
  /\ None \notin Tcp!Ack \cup CPU \cup Tcp!Entry \cup {Fired}
  /\ Fired \notin Tcp!Ack
  /\ CPU \cap Tcp!Entry = {}

\* One CPU transmits: with two, see AllocExclusive and the README.
OneContext == \E p : CPU = {p}

\* The parts of HeldConsistent, entry by entry.
HeldHasTimer == \A i \in Tcp!Entry : msgbuf[i] # None => timer[i] \/ handler[i] = Fired
HeldOwn == \A i \in Tcp!Entry : msgbuf[i] # None => busy[i] /\ conn[i] = msgbuf[i].conn
OneEntry == \A i, j \in Tcp!Entry : busy[i] /\ busy[j] /\ conn[i] = conn[j] => i = j

Quiet(i) == ~timer[i] /\ handler[i] = None /\ in_send_msg[i] = None /\ msgbuf[i] = None

\* An entry that is free, or old enough to be freed, is at rest.  Who transmits
\* for an entry is its handler or the context, which then withholds nothing.
EntryInv ==
  enable => \A i \in Tcp!Entry :
    /\ ~busy[i] \/ old[i] => Quiet(i)
    /\ in_send_msg[i] \in Tcp!Entry => in_send_msg[i] = i /\ handler[i] \in Tcp!Ack
    /\ in_send_msg[i] \in CPU => pc[in_send_msg[i]] = "send" /\ msgbuf[i] = None

\* Nothing is withheld or transmitted while the filter is unloaded.
DownInv ==
  ~enable => /\ \A p \in CPU : pc[p] = "idle"
             /\ \A i \in Tcp!Entry : msgbuf[i] = None

\* What the context found out about the entries stays true until it acts on it.
ContextInv ==
  \A p \in CPU :
    /\ pc[p] # "idle" => cur[p] \in Tcp!Ack
    /\ pc[p] = "handle" => index[p] \in Tcp!Entry /\ busy[index[p]] /\ conn[index[p]] = cur[p].conn
    /\ pc[p] \in {"alloc", "set"} => \A i \in Tcp!Entry : busy[i] => conn[i] # cur[p].conn
    /\ pc[p] = "set" => index[p] \in Tcp!Entry /\ ~busy[index[p]] /\ free_index = -1

FreeInv == free_index \in Tcp!Entry => ~busy[free_index]

IInv == /\ Tcp!TypeOK /\ HeldHasTimer /\ HeldOwn /\ OneEntry
        /\ EntryInv /\ DownInv /\ ContextInv /\ FreeInv

-----------------------------------------------------------------------------

\* Some numbers have a least one.
LEMMA LeastNumber ==
  ASSUME NEW S \in SUBSET Nat, S # {}
  PROVE  \E n \in S : \A m \in S : n <= m
<1>1. PICK c \in S : \A d \in S : ~ (<<d, c>> \in OpToRel(<, Nat))
  BY NatLessThanWellFounded, WFMin
<1>2. \A d \in S : ~(d < c)
  BY <1>1 DEF OpToRel
<1>3. \A d \in S : c <= d
  BY <1>2
<1> QED BY <1>3

\* The lowest of some entries is one of them.
LEMMA Lowest ==
  ASSUME Constants, NEW S \in SUBSET Tcp!Entry, S # {}
  PROVE  (CHOOSE i \in S : \A j \in S : i <= j) \in S
<1>1. S \in SUBSET Nat
  BY DEF Constants, Tcp!Entry
<1>2. \E c \in S : \A d \in S : c <= d
  BY <1>1, LeastNumber
<1> QED BY <1>2

\* Some of the entries are so many.
LEMMA Counted ==
  ASSUME Constants, NEW S \in SUBSET Tcp!Entry
  PROVE  Cardinality(S) \in Nat
<1>1. IsFiniteSet(Tcp!Entry)
  BY FS_Interval DEF Constants, Tcp!Entry
<1> QED BY <1>1, FS_Subset, FS_CardinalityType

\* An ack is told from the marks, and has a connection and a number.
LEMMA Acks ==
  ASSUME Constants, NEW a \in Tcp!Ack
  PROVE  a # None /\ a # Fired /\ a.conn \in Conn /\ a.seq \in Tcp!Number
BY DEF Constants, Tcp!Ack

\* tcp_ack_match finds a busy entry of the connection, or there is none.
LEMMA MatchFinds ==
  ASSUME Constants, NEW c, NEW isBusy
  PROVE  LET i == Tcp!tcp_ack_match(c, isBusy)
         IN  \/ i \in Tcp!Entry /\ i # -1 /\ isBusy[i] /\ conn[i] = c
             \/ i = -1 /\ \A j \in Tcp!Entry : isBusy[j] => conn[j] # c
<1> DEFINE found == {i \in Tcp!Entry : isBusy[i] /\ conn[i] = c}
<1>1. CASE found = {}
  BY <1>1 DEF Tcp!tcp_ack_match
<1>2. CASE found # {}
  <2>1. Tcp!tcp_ack_match(c, isBusy) \in found
    BY <1>2, Lowest DEF Tcp!tcp_ack_match
  <2> QED BY <2>1 DEF Tcp!Entry
<1> QED BY <1>1, <1>2

-----------------------------------------------------------------------------
(* The steps, of the only context p.                                         *)

\* Nothing is withheld at first.
LEMMA InitInv ==
  ASSUME Constants, Tcp!Init
  PROVE  IInv
<1> USE DEF Tcp!Init, Tcp!All
<1>1. Tcp!TypeOK
  <2>1. 0 \in Tcp!Entry /\ First \in Tcp!Number
    BY DEF Constants, Tcp!Entry, Tcp!Number
  <2> QED BY <2>1 DEF Tcp!TypeOK, Constants
<1>2. HeldHasTimer /\ HeldOwn /\ OneEntry
  BY DEF HeldHasTimer, HeldOwn, OneEntry
<1>3. EntryInv /\ DownInv /\ ContextInv /\ FreeInv
  BY DEF EntryInv, DownInv, ContextInv, FreeInv, Quiet, Constants
<1> QED BY <1>1, <1>2, <1>3 DEF IInv

\* The stack hands a transmit context an ack (Xmit).
LEMMA XmitStepInv ==
  ASSUME Constants, NEW p, CPU = {p}, IInv, NEW a \in Tcp!Ack, enable, Tcp!Xmit(p, a)
  PROVE  IInv'
<1> USE DEF Tcp!Xmit, Tcp!info, Tcp!mgr
<1>0. Tcp!TypeOK /\ a.conn \in Conn /\ a.seq \in Tcp!Number
  BY Acks DEF IInv
<1>1. Tcp!TypeOK'
  BY <1>0 DEF Tcp!TypeOK
<1>2. HeldHasTimer' /\ HeldOwn' /\ OneEntry' /\ FreeInv'
  BY DEF IInv, HeldHasTimer, HeldOwn, OneEntry, FreeInv
<1>3. EntryInv'
  BY <1>0 DEF IInv, EntryInv, Quiet, Tcp!TypeOK
<1>4. DownInv' /\ ContextInv'
  BY <1>0 DEF DownInv, ContextInv, Tcp!TypeOK
<1> QED BY <1>1, <1>2, <1>3, <1>4 DEF IInv

\* The context looks for the entry of the connection (tcp_ack_match).
LEMMA MatchInv ==
  ASSUME Constants, NEW p, CPU = {p}, IInv, Tcp!Match(p)
  PROVE  IInv'
<1>0. Tcp!TypeOK /\ enable /\ cur[p] \in Tcp!Ack
  BY DEF IInv, Tcp!Match, DownInv, ContextInv
<1>1. PICK expired \in {{}, Tcp!Expired} : Tcp!tcp_ack_update(expired)
  BY DEF Tcp!Match
<1>2. expired \in SUBSET Tcp!Entry /\ \A i \in expired : busy[i] /\ old[i]
  BY <1>1 DEF Tcp!Expired
<1>3. /\ busy' = [i \in Tcp!Entry |-> busy[i] /\ i \notin expired]
      /\ UNCHANGED <<conn, seq, drop_cnt, psh_flag, psh_seq, msgbuf, in_send_msg, enable>>
      /\ UNCHANGED <<old, timer, handler, cur, stack, sent>>
  BY <1>1 DEF Tcp!tcp_ack_update, Tcp!Match
<1>4. \/ free_index' = free_index
      \/ free_index' \in expired
  BY <1>1, <1>2, Lowest DEF Tcp!tcp_ack_update
<1> DEFINE i == Tcp!tcp_ack_match(cur[p].conn, busy')
<1>5. /\ pc[p] = "match" /\ index' = [index EXCEPT ![p] = i]
      /\ pc' = [pc EXCEPT ![p] = IF i = -1 THEN "alloc" ELSE IF enable THEN "handle" ELSE "send"]
  BY DEF Tcp!Match
<1>6. \/ i \in Tcp!Entry /\ i # -1 /\ busy'[i] /\ conn[i] = cur[p].conn
      \/ i = -1 /\ \A j \in Tcp!Entry : busy'[j] => conn[j] # cur[p].conn
  BY MatchFinds
<1> HIDE DEF i
<1>7. Tcp!TypeOK'
  <2>1. max_num' \in Int
    BY <1>0, <1>1, <1>2, Counted DEF Tcp!tcp_ack_update, Tcp!TypeOK
  <2>2. free_index' \in Tcp!Entry \cup {-1}
    BY <1>0, <1>2, <1>4 DEF Tcp!TypeOK
  <2>3. busy' \in [Tcp!Entry -> BOOLEAN]
    BY <1>0, <1>3 DEF Tcp!TypeOK
  <2>4. index' \in [CPU -> Tcp!Entry \cup {-1}]
    BY <1>0, <1>5, <1>6 DEF Tcp!TypeOK
  <2>5. pc' \in [CPU -> {"idle", "match", "handle", "alloc", "set", "send"}]
    BY <1>0, <1>5 DEF Tcp!TypeOK
  <2> QED BY <1>0, <1>3, <2>1, <2>2, <2>3, <2>4, <2>5 DEF Tcp!TypeOK
<1>8. HeldHasTimer'
  BY <1>3 DEF IInv, HeldHasTimer
<1>9. HeldOwn'
  <2> SUFFICES ASSUME NEW j \in Tcp!Entry, msgbuf[j] # None
               PROVE  busy'[j] /\ conn[j] = msgbuf[j].conn
    BY <1>3 DEF HeldOwn
  <2>1. j \notin expired
    BY <1>0, <1>2 DEF IInv, EntryInv, Quiet
  <2> QED BY <1>3, <2>1 DEF IInv, HeldOwn
<1>10. OneEntry'
  BY <1>3 DEF IInv, OneEntry
<1>11. EntryInv'
  <2> SUFFICES ASSUME NEW j \in Tcp!Entry
               PROVE  /\ ~busy'[j] \/ old[j] => Quiet(j)
                      /\ in_send_msg[j] \in Tcp!Entry => in_send_msg[j] = j /\ handler[j] \in Tcp!Ack
                      /\ in_send_msg[j] \in CPU => pc'[in_send_msg[j]] = "send" /\ msgbuf[j] = None
    BY <1>3 DEF EntryInv, Quiet
  <2>1. ~busy'[j] => ~busy[j] \/ old[j]
    BY <1>0, <1>2, <1>3 DEF Tcp!TypeOK
  <2>2. in_send_msg[j] \notin CPU
    BY <1>0, <1>5 DEF IInv, EntryInv
  <2> QED BY <1>0, <2>1, <2>2 DEF IInv, EntryInv
<1>12. DownInv'
  BY <1>0, <1>3 DEF DownInv
<1>13. ContextInv'
  BY <1>0, <1>3, <1>5, <1>6 DEF ContextInv, Tcp!TypeOK
<1>14. FreeInv'
  BY <1>2, <1>3, <1>4 DEF IInv, FreeInv
<1> QED BY <1>7, <1>8, <1>9, <1>10, <1>11, <1>12, <1>13, <1>14 DEF IInv

\* An ack of a connection that has an entry (tcp_ack_handle_new).
LEMMA HandleInv ==
  ASSUME Constants, NEW p, CPU = {p}, IInv, Tcp!tcp_ack_handle_new(p)
  PROVE  IInv'
<1> DEFINE i == index[p]
           pushed == psh_flag[i] /\ ~Tcp!U32_BEFORE(cur[p].seq, psh_seq[i])
           count == IF pushed \/ drop_cnt[i] = MaxDrop THEN drop_cnt[i] ELSE drop_cnt[i] + 1
           now == pushed \/ (in_send_msg[i] = None /\ count >= MaxDrop)
<1> USE DEF Tcp!info, Tcp!mgr
<1>0. Tcp!TypeOK /\ enable /\ pc[p] = "handle" /\ cur[p] \in Tcp!Ack
  BY DEF IInv, Tcp!tcp_ack_handle_new, DownInv, ContextInv
<1>1. i \in Tcp!Entry /\ busy[i] /\ conn[i] = cur[p].conn
  BY <1>0 DEF IInv, ContextInv
<1>2. cur[p] # None /\ cur[p].conn \in Conn /\ cur[p].seq \in Tcp!Number
  BY <1>0, Acks
<1>3. now \in BOOLEAN /\ pushed \in BOOLEAN /\ count \in 0 .. MaxDrop
  BY <1>0, <1>1 DEF Tcp!TypeOK, Constants
<1>4. /\ UNCHANGED <<busy, conn, psh_seq, handler, enable, max_num, free_index, index, cur, stack, sent>>
      /\ old' = [old EXCEPT ![i] = FALSE]
  BY DEF Tcp!tcp_ack_handle_new
<1>5. \/ /\ seq' = [seq EXCEPT ![i] = cur[p].seq]
         /\ psh_flag' = [psh_flag EXCEPT ![i] = @ /\ ~pushed]
         /\ drop_cnt' = [drop_cnt EXCEPT ![i] = IF now THEN 0 ELSE count]
         /\ msgbuf' = [msgbuf EXCEPT ![i] = IF now THEN None ELSE cur[p]]
         /\ in_send_msg' = [in_send_msg EXCEPT ![i] = IF now THEN p ELSE @]
         /\ timer' = [timer EXCEPT ![i] = ~now]
         /\ pc' = [pc EXCEPT ![p] = IF now THEN "send" ELSE "idle"]
      \/ /\ pc' = [pc EXCEPT ![p] = "idle"]
         /\ UNCHANGED <<seq, psh_flag, drop_cnt, msgbuf, in_send_msg, timer>>
  BY DEF Tcp!tcp_ack_handle_new
<1>6. \A j \in Tcp!Entry : in_send_msg[j] \notin CPU
  BY <1>0 DEF IInv, EntryInv
<1>7. p \notin Tcp!Entry /\ p # None /\ None \notin CPU
  BY DEF Constants
<1> HIDE DEF i, pushed, count, now
<1>8. Tcp!TypeOK'
  <2>1. seq' \in [Tcp!Entry -> Tcp!Number] /\ psh_flag' \in [Tcp!Entry -> BOOLEAN]
    BY <1>0, <1>1, <1>2, <1>3, <1>5 DEF Tcp!TypeOK
  <2>a. timer' \in [Tcp!Entry -> BOOLEAN]
    BY <1>0, <1>1, <1>3, <1>5 DEF Tcp!TypeOK
  <2>b. drop_cnt' \in [Tcp!Entry -> 0 .. MaxDrop]
    <3>1. 0 \in 0 .. MaxDrop
      BY DEF Constants
    <3> QED BY <1>0, <1>1, <1>3, <1>5, <3>1 DEF Tcp!TypeOK
  <2>2. /\ msgbuf' \in [Tcp!Entry -> Tcp!Ack \cup {None}]
        /\ in_send_msg' \in [Tcp!Entry -> CPU \cup Tcp!Entry \cup {None}]
        /\ pc' \in [CPU -> {"idle", "match", "handle", "alloc", "set", "send"}]
    BY <1>0, <1>1, <1>2, <1>3, <1>5 DEF Tcp!TypeOK
  <2> QED BY <1>0, <1>1, <1>4, <2>1, <2>2, <2>a, <2>b DEF Tcp!TypeOK
<1>9. HeldHasTimer'
  BY <1>0, <1>1, <1>3, <1>4, <1>5 DEF IInv, HeldHasTimer, Tcp!TypeOK
<1>10. HeldOwn'
  BY <1>0, <1>1, <1>3, <1>4, <1>5 DEF IInv, HeldOwn, Tcp!TypeOK
<1>11. OneEntry' /\ FreeInv'
  BY <1>4 DEF IInv, OneEntry, FreeInv
<1>12. EntryInv'
  <2> SUFFICES ASSUME NEW j \in Tcp!Entry
               PROVE  /\ ~busy[j] \/ old'[j] => Quiet(j)'
                      /\ in_send_msg'[j] \in Tcp!Entry => in_send_msg'[j] = j /\ handler[j] \in Tcp!Ack
                      /\ in_send_msg'[j] \in CPU => pc'[in_send_msg'[j]] = "send" /\ msgbuf'[j] = None
    BY <1>4 DEF EntryInv, Quiet
  <2>1. CASE j = i
    BY <1>0, <1>1, <1>3, <1>4, <1>5, <1>6, <1>7, <2>1 DEF IInv, EntryInv, Tcp!TypeOK
  <2>2. CASE j # i
    BY <1>0, <1>1, <1>3, <1>4, <1>5, <1>6, <1>7, <2>2 DEF IInv, EntryInv, Tcp!TypeOK, Quiet
  <2> QED BY <2>1, <2>2
<1>13. DownInv' /\ ContextInv'
  BY <1>0, <1>3, <1>4, <1>5 DEF DownInv, ContextInv, Tcp!TypeOK
<1> QED BY <1>8, <1>9, <1>10, <1>11, <1>12, <1>13 DEF IInv

\* An ack of another connection looks for a free entry (tcp_ack_alloc_index).
LEMMA AllocInv ==
  ASSUME Constants, NEW p, CPU = {p}, IInv, Tcp!tcp_ack_alloc_index(p)
  PROVE  IInv'
<1> DEFINE free == {i \in Tcp!Entry : ~busy[i]}
           lowest == CHOOSE i \in free : \A j \in free : i <= j
           Got(i, n) == /\ index' = [index EXCEPT ![p] = i]
                        /\ pc' = [pc EXCEPT ![p] = IF i = -1 THEN "send" ELSE "set"]
                        /\ max_num' = max_num + n
                        /\ free_index' = IF i = -1 THEN free_index ELSE -1
<1> USE DEF Tcp!info, Tcp!mgr
<1>0. Tcp!TypeOK /\ enable /\ pc[p] = "alloc" /\ cur[p] \in Tcp!Ack
  BY DEF IInv, Tcp!tcp_ack_alloc_index, DownInv, ContextInv
<1>1. free # {} => lowest \in Tcp!Entry /\ ~busy[lowest]
  <2>1. free # {} => lowest \in free
    BY Lowest
  <2> QED BY <2>1
<1>2. UNCHANGED <<Tcp!info, old, timer, handler, enable, cur, stack, sent>>
  BY DEF Tcp!tcp_ack_alloc_index
<1>a. max_num = TCP_ACK_NUM => Got(-1, 0)
  BY DEF Tcp!tcp_ack_alloc_index
<1>b. max_num # TCP_ACK_NUM /\ free_index >= 0 => Got(free_index, 1)
  <2>1. ~(free_index >= 0 /\ free_index < 0)
    BY <1>0 DEF Tcp!TypeOK, Tcp!Entry
  <2> QED BY <2>1 DEF Tcp!tcp_ack_alloc_index
<1>c. max_num # TCP_ACK_NUM /\ free_index < 0 /\ free = {} => Got(-1, 0)
  BY DEF Tcp!tcp_ack_alloc_index
<1>d. max_num # TCP_ACK_NUM /\ ~(free_index >= 0) /\ ~(free_index < 0 /\ free = {})
        => \E n \in {1, 2} : Got(lowest, n)
  BY DEF Tcp!tcp_ack_alloc_index
<1> HIDE DEF Got, free, lowest
<1>e. PICK i \in Tcp!Entry \cup {-1}, n \in 0 .. 2 : Got(i, n) /\ (i # -1 => ~busy[i])
  <2>1. free_index \in Int /\ (free_index >= 0 => free_index \in Tcp!Entry /\ ~busy[free_index])
    BY <1>0 DEF Tcp!TypeOK, IInv, FreeInv, Tcp!Entry
  <2>2. CASE Got(-1, 0)
    BY <2>2
  <2>3. CASE free_index >= 0 /\ Got(free_index, 1)
    BY <2>1, <2>3
  <2>4. ASSUME free # {}, NEW n \in {1, 2}, Got(lowest, n)
        PROVE  \E i \in Tcp!Entry : ~busy[i] /\ Got(i, n)
    BY <1>1, <2>4
  <2>5. \/ Got(-1, 0)
        \/ free_index >= 0 /\ Got(free_index, 1)
        \/ free # {} /\ \E n \in {1, 2} : Got(lowest, n)
    BY <1>a, <1>b, <1>c, <1>d, <2>1
  <2> QED BY <2>2, <2>3, <2>4, <2>5
<1>3. /\ index' = [index EXCEPT ![p] = i]
      /\ pc' = [pc EXCEPT ![p] = IF i = -1 THEN "send" ELSE "set"]
      /\ max_num' = max_num + n
      /\ free_index' = IF i = -1 THEN free_index ELSE -1
      /\ i # -1 => ~busy[i]
  BY <1>e DEF Got
<1>4. Tcp!TypeOK'
  <2>1. index' \in [CPU -> Tcp!Entry \cup {-1}] /\ free_index' \in Tcp!Entry \cup {-1}
    BY <1>0, <1>3 DEF Tcp!TypeOK
  <2>2. max_num' \in Int
    BY <1>0, <1>3 DEF Tcp!TypeOK
  <2>3. pc' \in [CPU -> {"idle", "match", "handle", "alloc", "set", "send"}]
    BY <1>0, <1>3 DEF Tcp!TypeOK
  <2> QED BY <1>0, <1>2, <2>1, <2>2, <2>3 DEF Tcp!TypeOK
<1>5. HeldHasTimer' /\ HeldOwn' /\ OneEntry'
  BY <1>2 DEF IInv, HeldHasTimer, HeldOwn, OneEntry
<1>6. EntryInv'
  BY <1>0, <1>2, <1>3 DEF IInv, EntryInv, Quiet, Tcp!TypeOK
<1>7. DownInv' /\ FreeInv'
  BY <1>0, <1>2, <1>3 DEF IInv, DownInv, FreeInv, Tcp!Entry
<1>8. ContextInv'
  BY <1>0, <1>2, <1>3 DEF IInv, ContextInv, Tcp!TypeOK
<1> QED BY <1>4, <1>5, <1>6, <1>7, <1>8 DEF IInv

\* The entry is taken over for the new connection.
LEMMA SetEntryInv ==
  ASSUME Constants, NEW p, CPU = {p}, IInv, Tcp!SetEntry(p)
  PROVE  IInv'
<1> DEFINE i == index[p]
<1> USE DEF Tcp!mgr
<1>0. Tcp!TypeOK /\ enable /\ pc[p] = "set" /\ cur[p] \in Tcp!Ack
  BY DEF IInv, Tcp!SetEntry, DownInv, ContextInv
<1>1. /\ i \in Tcp!Entry /\ ~busy[i] /\ free_index = -1
      /\ \A j \in Tcp!Entry : busy[j] => conn[j] # cur[p].conn
  BY <1>0 DEF IInv, ContextInv
<1>2. cur[p] # None /\ cur[p].conn \in Conn /\ cur[p].seq \in Tcp!Number
  BY <1>0, Acks
<1>3. /\ busy' = [busy EXCEPT ![i] = TRUE] /\ psh_flag' = [psh_flag EXCEPT ![i] = FALSE]
      /\ old' = [old EXCEPT ![i] = FALSE] /\ drop_cnt' = [drop_cnt EXCEPT ![i] = MaxDrop]
      /\ conn' = [conn EXCEPT ![i] = cur[p].conn] /\ seq' = [seq EXCEPT ![i] = cur[p].seq]
      /\ pc' = [pc EXCEPT ![p] = "send"]
      /\ UNCHANGED <<psh_seq, msgbuf, in_send_msg, timer, handler, Tcp!mgr, index, cur, stack, sent>>
  BY DEF Tcp!SetEntry
<1>4. Quiet(i)
  BY <1>0, <1>1 DEF IInv, EntryInv
<1> HIDE DEF i
<1>5. Tcp!TypeOK'
  BY <1>0, <1>1, <1>2, <1>3 DEF Tcp!TypeOK, Constants
<1>6. HeldHasTimer' /\ HeldOwn'
  BY <1>0, <1>1, <1>3, <1>4 DEF IInv, HeldHasTimer, HeldOwn, Quiet, Tcp!TypeOK
<1>7. OneEntry'
  BY <1>0, <1>1, <1>3 DEF IInv, OneEntry, Tcp!TypeOK
<1>8. EntryInv'
  BY <1>0, <1>1, <1>3, <1>4 DEF IInv, EntryInv, Quiet, Tcp!TypeOK
<1>9. DownInv' /\ ContextInv'
  BY <1>0, <1>3 DEF IInv, DownInv, ContextInv, Tcp!TypeOK
<1>10. FreeInv'
  BY <1>1, <1>3 DEF FreeInv, Tcp!Entry
<1> QED BY <1>5, <1>6, <1>7, <1>8, <1>9, <1>10 DEF IInv

\* Whoever has transmitted clears its mark.
LEMMA Cleared ==
  ASSUME Tcp!TypeOK, enable, NEW w, Tcp!move_tcpack_msg(w),
         \A j \in Tcp!Entry : in_send_msg[j] = w => busy[j]
  PROVE  /\ in_send_msg' = [j \in Tcp!Entry |-> IF in_send_msg[j] = w THEN None ELSE in_send_msg[j]]
         /\ in_send_msg' \in [Tcp!Entry -> CPU \cup Tcp!Entry \cup {None}]
BY DEF Tcp!TypeOK, Tcp!move_tcpack_msg

\* An ack goes on to the transmit queues (move_tcpack_msg).
LEMMA SendInv ==
  ASSUME Constants, NEW p, CPU = {p}, IInv, Tcp!Send(p)
  PROVE  IInv'
<1> USE DEF Tcp!mgr
<1>0. Tcp!TypeOK /\ enable /\ pc[p] = "send" /\ cur[p] \in Tcp!Ack
  BY DEF IInv, Tcp!Send, DownInv, ContextInv
<1>1. cur[p].conn \in Conn /\ cur[p].seq \in Tcp!Number
  BY <1>0, Acks
<1>2. p \notin Tcp!Entry /\ p # None /\ None \notin CPU /\ None \notin Tcp!Entry
  BY DEF Constants
<1>3. /\ in_send_msg' = [j \in Tcp!Entry |-> IF in_send_msg[j] = p THEN None ELSE in_send_msg[j]]
      /\ in_send_msg' \in [Tcp!Entry -> CPU \cup Tcp!Entry \cup {None}]
  <2>1. \A j \in Tcp!Entry : in_send_msg[j] = p => busy[j]
    BY <1>0, <1>2 DEF IInv, EntryInv, Quiet
  <2> QED BY <1>0, <2>1, Cleared DEF Tcp!Send
<1>4. /\ pc' = [pc EXCEPT ![p] = "idle"] /\ cur' = [cur EXCEPT ![p] = None]
      /\ sent' = [sent EXCEPT ![cur[p].conn] = IF cur[p].seq > @ THEN cur[p].seq ELSE @]
      /\ UNCHANGED <<busy, conn, seq, drop_cnt, psh_flag, psh_seq, msgbuf, old, timer, handler, Tcp!mgr, index, stack>>
  BY DEF Tcp!Send, Tcp!Passed
<1>5. Tcp!TypeOK'
  BY <1>0, <1>1, <1>3, <1>4 DEF Tcp!TypeOK
<1>6. HeldHasTimer' /\ HeldOwn' /\ OneEntry' /\ FreeInv'
  BY <1>4 DEF IInv, HeldHasTimer, HeldOwn, OneEntry, FreeInv
<1>7. EntryInv'
  <2> SUFFICES ASSUME NEW j \in Tcp!Entry
               PROVE  /\ ~busy[j] \/ old[j] => Quiet(j)'
                      /\ in_send_msg'[j] \in Tcp!Entry => in_send_msg'[j] = j /\ handler[j] \in Tcp!Ack
                      /\ in_send_msg'[j] \notin CPU
    BY <1>4 DEF EntryInv, Quiet
  <2> QED BY <1>0, <1>2, <1>3, <1>4 DEF IInv, EntryInv, Quiet
<1>8. DownInv' /\ ContextInv'
  BY <1>0, <1>4 DEF IInv, DownInv, ContextInv, Tcp!TypeOK
<1> QED BY <1>5, <1>6, <1>7, <1>8 DEF IInv

\* The timer of an entry runs out.
LEMMA TimerFiresInv ==
  ASSUME Constants, NEW i \in Tcp!Entry, IInv, Tcp!TimerFires(i)
  PROVE  IInv'
<1> USE DEF Tcp!TimerFires, Tcp!info, Tcp!mgr
<1>0. Tcp!TypeOK /\ Fired \notin Tcp!Ack /\ Fired # None
  BY DEF IInv, Constants
<1>1. Tcp!TypeOK'
  BY <1>0 DEF Tcp!TypeOK
<1>2. HeldHasTimer' /\ HeldOwn' /\ OneEntry' /\ FreeInv'
  BY <1>0 DEF IInv, HeldHasTimer, HeldOwn, OneEntry, FreeInv, Tcp!TypeOK
<1>3. EntryInv'
  <2> SUFFICES ASSUME enable, NEW j \in Tcp!Entry
               PROVE  /\ ~busy[j] \/ old[j] => Quiet(j)'
                      /\ in_send_msg[j] \in Tcp!Entry => in_send_msg[j] = j /\ handler'[j] \in Tcp!Ack
                      /\ in_send_msg[j] \in CPU => pc[in_send_msg[j]] = "send" /\ msgbuf[j] = None
    BY DEF EntryInv, Quiet
  <2>1. handler[i] \notin Tcp!Ack
    BY <1>0 DEF Constants
  <2> QED BY <1>0, <2>1 DEF IInv, EntryInv, Quiet, Tcp!TypeOK
<1>4. DownInv' /\ ContextInv'
  BY DEF IInv, DownInv, ContextInv
<1> QED BY <1>1, <1>2, <1>3, <1>4 DEF IInv

\* Its handler takes the withheld ack (tcp_ack_timeout).
LEMMA TimeoutInv ==
  ASSUME Constants, NEW i \in Tcp!Entry, IInv, Tcp!tcp_ack_timeout(i)
  PROVE  IInv'
<1> USE DEF Tcp!mgr
<1>0. Tcp!TypeOK /\ Fired \notin Tcp!Ack /\ Fired # None /\ handler[i] = Fired
  BY DEF IInv, Constants, Tcp!tcp_ack_timeout
<1>u. UNCHANGED <<busy, conn, seq, psh_flag, psh_seq, old, timer, Tcp!mgr, pc, index, cur, stack, sent>>
  BY DEF Tcp!tcp_ack_timeout
<1>q. enable => busy[i] /\ ~old[i]
  BY <1>0 DEF IInv, EntryInv, Quiet
<1>1. CASE busy[i] /\ msgbuf[i] # None /\ in_send_msg[i] = None
  <2>0. enable /\ msgbuf[i] \in Tcp!Ack
    BY <1>0, <1>1 DEF IInv, DownInv, Tcp!TypeOK
  <2>1. /\ handler' = [handler EXCEPT ![i] = msgbuf[i]]
        /\ msgbuf' = [msgbuf EXCEPT ![i] = None] /\ drop_cnt' = [drop_cnt EXCEPT ![i] = 0]
        /\ in_send_msg' = [in_send_msg EXCEPT ![i] = i]
    BY <1>1 DEF Tcp!tcp_ack_timeout
  <2>2. Tcp!TypeOK'
    <3>1. 0 \in 0 .. MaxDrop
      BY DEF Constants
    <3> QED BY <1>0, <1>u, <2>0, <2>1, <3>1 DEF Tcp!TypeOK
  <2>3. HeldHasTimer' /\ HeldOwn' /\ OneEntry' /\ FreeInv'
    BY <1>0, <1>u, <2>1 DEF IInv, HeldHasTimer, HeldOwn, OneEntry, FreeInv, Tcp!TypeOK
  <2>4. EntryInv'
    <3> SUFFICES ASSUME NEW j \in Tcp!Entry
                 PROVE  /\ ~busy[j] \/ old[j] => Quiet(j)'
                        /\ in_send_msg'[j] \in Tcp!Entry => in_send_msg'[j] = j /\ handler'[j] \in Tcp!Ack
                        /\ in_send_msg'[j] \in CPU => pc[in_send_msg'[j]] = "send" /\ msgbuf'[j] = None
      BY <1>u DEF EntryInv, Quiet
    <3>1. i \notin CPU
      BY DEF Constants
    <3>2. CASE j = i
      BY <1>0, <1>q, <2>0, <2>1, <3>1, <3>2 DEF Tcp!TypeOK
    <3>3. CASE j # i
      BY <1>0, <1>u, <2>0, <2>1, <3>3 DEF IInv, EntryInv, Quiet, Tcp!TypeOK
    <3> QED BY <3>2, <3>3
  <2>5. DownInv' /\ ContextInv'
    BY <1>u, <2>0 DEF IInv, DownInv, ContextInv
  <2> QED BY <2>2, <2>3, <2>4, <2>5 DEF IInv
<1>2. CASE ~(busy[i] /\ msgbuf[i] # None /\ in_send_msg[i] = None)
  <2>1. handler' = [handler EXCEPT ![i] = None] /\ UNCHANGED <<msgbuf, drop_cnt, in_send_msg>>
    BY <1>2 DEF Tcp!tcp_ack_timeout
  <2>2. Tcp!TypeOK'
    BY <1>0, <1>u, <2>1 DEF Tcp!TypeOK
  <2>3. msgbuf[i] = None
    <3>1. CASE enable
      BY <1>0, <1>2, <1>q, <3>1 DEF IInv, EntryInv, Tcp!TypeOK
    <3>2. CASE ~enable
      BY <3>2 DEF IInv, DownInv
    <3> QED BY <3>1, <3>2
  <2>4. HeldHasTimer' /\ HeldOwn' /\ OneEntry' /\ FreeInv'
    BY <1>0, <1>u, <2>1, <2>3 DEF IInv, HeldHasTimer, HeldOwn, OneEntry, FreeInv, Tcp!TypeOK
  <2>5. EntryInv'
    BY <1>0, <1>u, <2>1 DEF IInv, EntryInv, Quiet, Tcp!TypeOK
  <2>6. DownInv' /\ ContextInv'
    BY <1>u, <2>1 DEF IInv, DownInv, ContextInv
  <2> QED BY <2>2, <2>4, <2>5, <2>6 DEF IInv
<1> QED BY <1>1, <1>2

\* The handler passes that ack on (intf_tx).
LEMMA IntfTxInv ==
  ASSUME Constants, NEW i \in Tcp!Entry, IInv, Tcp!intf_tx(i)
  PROVE  IInv'
<1> USE DEF Tcp!mgr
<1>0. Tcp!TypeOK /\ handler[i] \in Tcp!Ack /\ handler[i] # None /\ handler[i] # Fired
  BY Acks DEF IInv, Tcp!intf_tx
<1>1. handler[i].conn \in Conn /\ handler[i].seq \in Tcp!Number
  BY <1>0, Acks
<1>2. i \notin CPU /\ i # None /\ None \notin Tcp!Entry /\ None \notin CPU
  BY DEF Constants
<1>3. /\ handler' = [handler EXCEPT ![i] = None]
      /\ sent' = [sent EXCEPT ![handler[i].conn] = IF handler[i].seq > @ THEN handler[i].seq ELSE @]
      /\ UNCHANGED <<busy, conn, seq, drop_cnt, psh_flag, psh_seq, msgbuf, old, timer, Tcp!mgr, pc, index, cur, stack>>
  BY DEF Tcp!intf_tx, Tcp!Passed
<1>4. in_send_msg' \in [Tcp!Entry -> CPU \cup Tcp!Entry \cup {None}]
  BY <1>0 DEF Tcp!TypeOK, Tcp!intf_tx, Tcp!move_tcpack_msg
<1>5. enable => in_send_msg' = [j \in Tcp!Entry |-> IF in_send_msg[j] = i THEN None ELSE in_send_msg[j]]
  <2>1. enable => \A j \in Tcp!Entry : in_send_msg[j] = i => busy[j]
    BY <1>2 DEF IInv, EntryInv, Quiet
  <2> QED BY <1>0, <2>1, Cleared DEF Tcp!intf_tx
<1>6. Tcp!TypeOK'
  BY <1>0, <1>1, <1>3, <1>4 DEF Tcp!TypeOK
<1>7. HeldHasTimer' /\ HeldOwn' /\ OneEntry' /\ FreeInv'
  BY <1>0, <1>3 DEF IInv, HeldHasTimer, HeldOwn, OneEntry, FreeInv, Tcp!TypeOK
<1>8. EntryInv'
  <2> SUFFICES ASSUME enable, NEW j \in Tcp!Entry
               PROVE  /\ ~busy[j] \/ old[j] => Quiet(j)'
                      /\ in_send_msg'[j] \in Tcp!Entry => in_send_msg'[j] = j /\ handler'[j] \in Tcp!Ack
                      /\ in_send_msg'[j] \in CPU => pc[in_send_msg'[j]] = "send" /\ msgbuf[j] = None
    BY <1>3 DEF EntryInv, Quiet
  <2>1. in_send_msg'[j] = IF in_send_msg[j] = i THEN None ELSE in_send_msg[j]
    BY <1>5
  <2> QED BY <1>0, <1>2, <1>3, <2>1 DEF IInv, EntryInv, Quiet, Tcp!TypeOK
<1>9. DownInv' /\ ContextInv'
  BY <1>3 DEF IInv, DownInv, ContextInv
<1> QED BY <1>6, <1>7, <1>8, <1>9 DEF IInv

\* Time passes.
LEMMA AgeInv ==
  ASSUME Constants, NEW i \in Tcp!Entry, IInv, Tcp!Age(i)
  PROVE  IInv'
<1> USE DEF Tcp!Age, Tcp!info, Tcp!mgr
<1>0. Tcp!TypeOK
  BY DEF IInv
<1>1. Tcp!TypeOK'
  BY <1>0 DEF Tcp!TypeOK
<1>2. HeldHasTimer' /\ HeldOwn' /\ OneEntry' /\ FreeInv' /\ DownInv' /\ ContextInv'
  BY DEF IInv, HeldHasTimer, HeldOwn, OneEntry, FreeInv, DownInv, ContextInv
<1>3. EntryInv'
  <2>1. Quiet(i)
    BY <1>0 DEF IInv, HeldHasTimer, Quiet, Tcp!TypeOK, Constants
  <2> QED BY <1>0, <2>1 DEF IInv, EntryInv, Quiet, Tcp!TypeOK
<1> QED BY <1>1, <1>2, <1>3 DEF IInv

\* A pushed segment arrives (filter_rx_tcp_ack).
LEMMA PushedInv ==
  ASSUME Constants, NEW c \in Conn, IInv, Tcp!filter_rx_tcp_ack(c)
  PROVE  IInv'
<1> USE DEF Tcp!filter_rx_tcp_ack, Tcp!mgr
<1>0. Tcp!TypeOK /\ Tcp!tcp_ack_match(c, busy) \in Tcp!Entry
  BY MatchFinds DEF IInv
<1>1. Tcp!TypeOK'
  BY <1>0 DEF Tcp!TypeOK
<1>2. HeldHasTimer' /\ HeldOwn' /\ OneEntry' /\ FreeInv' /\ DownInv' /\ ContextInv'
  BY DEF IInv, HeldHasTimer, HeldOwn, OneEntry, FreeInv, DownInv, ContextInv
<1>3. EntryInv'
  BY DEF IInv, EntryInv, Quiet
<1> QED BY <1>1, <1>2, <1>3 DEF IInv

\* The filter is shut down (tcp_ack_deinit).
LEMMA DeinitInv ==
  ASSUME Constants, IInv, Tcp!tcp_ack_deinit
  PROVE  IInv'
<1> USE DEF Tcp!tcp_ack_deinit
<1>1. Tcp!TypeOK'
  BY DEF IInv, Tcp!TypeOK
<1>2. HeldHasTimer' /\ HeldOwn' /\ OneEntry' /\ FreeInv' /\ DownInv' /\ ContextInv' /\ EntryInv'
  BY DEF IInv, HeldHasTimer, HeldOwn, OneEntry, FreeInv, DownInv, ContextInv, EntryInv
<1> QED BY <1>1, <1>2 DEF IInv

\* The filter is set up again (tcp_ack_init).
LEMMA ReloadInv ==
  ASSUME Constants, IInv, Tcp!tcp_ack_init
  PROVE  IInv'
<1> USE DEF Tcp!tcp_ack_init, Tcp!All
<1>0. Tcp!TypeOK /\ \A p \in CPU : pc[p] = "idle"
  BY DEF IInv, DownInv
<1>1. Tcp!TypeOK'
  <2>1. 0 \in Tcp!Entry /\ First \in Tcp!Number /\ 0 \in 0 .. MaxDrop
    BY DEF Constants, Tcp!Entry, Tcp!Number
  <2> QED BY <1>0, <2>1 DEF Tcp!TypeOK
<1>2. HeldHasTimer' /\ HeldOwn' /\ OneEntry'
  BY DEF HeldHasTimer, HeldOwn, OneEntry
<1>3. EntryInv'
  BY DEF EntryInv, Quiet, Constants
<1>4. DownInv' /\ ContextInv' /\ FreeInv'
  BY <1>0 DEF DownInv, ContextInv, FreeInv
<1> QED BY <1>1, <1>2, <1>3, <1>4 DEF IInv

\* Every step keeps the invariant.
LEMMA NextInv ==
  ASSUME Constants, OneContext, IInv, [Tcp!Next]_(Tcp!vars)
  PROVE  IInv'
<1>1. PICK p : CPU = {p}
  BY DEF OneContext
<1>2. ASSUME NEW a \in Tcp!Ack, enable, Tcp!Xmit(p, a)
      PROVE  IInv'
  BY <1>1, <1>2, XmitStepInv
<1>3. CASE Tcp!XmitStep(p)
  BY <1>1, <1>3, MatchInv, HandleInv, AllocInv, SetEntryInv, SendInv DEF Tcp!XmitStep
<1>4. ASSUME NEW i \in Tcp!Entry, Tcp!TimerStep(i) \/ Tcp!Age(i)
      PROVE  IInv'
  BY <1>4, TimerFiresInv, TimeoutInv, IntfTxInv, AgeInv DEF Tcp!TimerStep
<1>5. ASSUME NEW c \in Conn, Tcp!filter_rx_tcp_ack(c)
      PROVE  IInv'
  BY <1>5, PushedInv
<1>6. CASE Tcp!tcp_ack_deinit \/ Tcp!tcp_ack_init
  BY <1>6, DeinitInv, ReloadInv
<1>7. CASE UNCHANGED Tcp!vars
  <2> USE <1>7 DEF Tcp!vars, Tcp!info, Tcp!mgr
  <2>1. Tcp!TypeOK' /\ HeldHasTimer' /\ HeldOwn' /\ OneEntry'
    BY DEF IInv, Tcp!TypeOK, HeldHasTimer, HeldOwn, OneEntry
  <2>2. EntryInv' /\ DownInv' /\ ContextInv' /\ FreeInv'
    BY DEF IInv, EntryInv, Quiet, DownInv, ContextInv, FreeInv
  <2> QED BY <2>1, <2>2 DEF IInv
<1> QED BY <1>1, <1>2, <1>3, <1>4, <1>5, <1>6, <1>7 DEF Tcp!Next

\* While one context transmits, whatever the timers, the receive path, expiry
\* and unloading do in between: a withheld ack has a timer that will look at
\* it and belongs to its entry's connection, and a connection has one entry.
THEOREM HeldTheorem ==
  ASSUME Constants, OneContext
  PROVE  Tcp!Spec => []HeldConsistent
<1>1. Tcp!Init => IInv
  BY InitInv
<1>2. IInv /\ [Tcp!Next]_(Tcp!vars) => IInv'
  BY NextInv
<1>3. ASSUME IInv
      PROVE  HeldConsistent
  <2>1. DOMAIN msgbuf = Tcp!Entry
    BY <1>3 DEF IInv, Tcp!TypeOK
  <2> QED BY <1>3, <2>1 DEF IInv, HeldHasTimer, HeldOwn, OneEntry, HeldConsistent
<1> QED BY <1>1, <1>2, <1>3, PTL DEF Tcp!Spec

-----------------------------------------------------------------------------
(* The transmit queues.                                                     *)

Distinct(s) == \A i, j \in DOMAIN s : s[i] = s[j] => i = j

Queue == [active : BOOLEAN, status : SUBSET Flags, linked : Nat, sk_list : Seq(1..MaxMade),
          credits : Int, nb_retry : Nat, last_retry : 0..MaxMade, push_limit : Nat]
PsState == [active : BOOLEAN, pkt_ready : [PsIds -> Nat], sp_cnt : [PsIds -> Int],
            tim : [PsIds -> BOOLEAN]]
Frame == [q : TXQ, n : 1..MaxMade]

\* The parts of RetriesFirst and of ListedHasWork, for one queue.
RetriesLead(t) ==
  /\ t.nb_retry <= Len(t.sk_list)
  /\ (t.nb_retry = 0) = (t.last_retry = 0)
  /\ t.nb_retry > 0 => t.sk_list[t.nb_retry] = t.last_retry

Listed(t) == "IN_HWQ_LIST" \in t.status
Limited(t) == Listed(t) /\ "STA_PS" \in t.status => t.push_limit > 0

\* What is true of a queue by itself, with m buffers made and r retries asked for.  A limit
\* is one of a service period, and the queue has the buffers and the credits for it.
Sound(t, m, r) ==
  /\ t.linked = IF Listed(t) THEN 1 ELSE 0
  /\ Credits <= t.credits /\ t.credits <= Credits + r /\ t.nb_retry <= r
  /\ Distinct(t.sk_list) /\ \A i \in DOMAIN t.sk_list : t.sk_list[i] <= m
  /\ t.push_limit > 0 => "STA_PS" \in t.status
  /\ t.active => /\ RetriesLead(t)
                 /\ t.push_limit <= Len(t.sk_list) /\ t.push_limit <= t.credits
                 /\ Listed(t) => t.sk_list # <<>>
  /\ "interrupt" \notin allow => Limited(t)

Ready(t) == t.active /\ t.sk_list # <<>> /\ ~rwnx_txq_is_stopped(t)

QueueType ==
  /\ txq \in [TXQ -> Queue] /\ ps \in PsState
  /\ xmit \subseteq Frame /\ fw \subseteq Frame
  /\ made \in 0..MaxMade /\ retried \in 0..MaxRetry

Others(n, k, d, v, pr, fl) ==
  /\ n \subseteq Range(HwqOf) /\ k \in BOOLEAN /\ d \subseteq Data
  /\ v \subseteq Reasons \ {"STA_PS"}
  /\ pr \in {"up", "leaving", "gone"} /\ fl \subseteq TXQ

\* A buffer is in one place: in its queue, on the way there (x), or in the firmware (g).
Placed(t, g, x, m) ==
  /\ \A f \in g \cup x : f.n <= m /\ \A i \in DOMAIN t[f.q].sk_list : t[f.q].sk_list[i] # f.n
  /\ g \cap x = {}
  /\ \A y, z \in x : y.q = z.q => y = z

\* What the peer's state pr says about its queues t; fl are being flushed.
PeerInv(t, s, pr, fl) ==
  /\ pr = "up" => \A q \in TXQ : t[q].active /\ ("STA_PS" \in t[q].status <=> s.active)
  /\ pr = "gone" => \A q \in TXQ : ~t[q].active
  /\ pr # "leaving" => fl = {}
  /\ s.active => pr = "up"
  /\ \A q \in TXQ : ~t[q].active => ~Listed(t[q])
  /\ \A q \in fl : ~t[q].active

\* A queue about to be linked has a buffer it may push.
CfmInv ==
  cfm # {} => \E q \in TXQ : LET t == txq[q]
                             IN /\ cfm = {[q |-> q, status |-> t.status]}
                                /\ t.active /\ ~Listed(t) /\ t.sk_list # <<>>
                                /\ rwnx_txq_is_stopped(t) => t.push_limit > 0

ReadyInv == \A q \in TXQ : Ready(txq[q]) => Listed(txq[q]) \/ \E c \in cfm : c.q = q

\* Where no confirmation is about to link a queue, this is what is true of each.
Good(t, m, r) == t \in Queue /\ Sound(t, m, r) /\ (Ready(t) => Listed(t))

Lengths(t) == [q \in TXQ |-> Len(t[q].sk_list)]
Limits(t) == [q \in TXQ |-> t[q].push_limit]

\* While the peer sleeps the counters are what the queues t hold and may push.
Totals(t, s) ==
  \A p \in PsIds :
    /\ s.active => s.pkt_ready[p] = Total(Lengths(t), TXQ, p)
    /\ "interrupt" \notin allow => /\ s.sp_cnt[p] >= Total(Limits(t), TXQ, p)
                                   /\ s.active => s.sp_cnt[p] = Total(Limits(t), TXQ, p)

Inner == /\ QueueType /\ Others(need, tasklet, ndev, vif, peer, flushing)
         /\ (\A q \in TXQ : Sound(txq[q], made, retried))
         /\ Placed(txq, fw, xmit, made) /\ PeerInv(txq, ps, peer, flushing)
         /\ CfmInv /\ ReadyInv /\ Totals(txq, ps)

Serialised == "race" \notin allow /\ Credits + retried <= 127
TxInv == retried \in Nat /\ (Serialised => Inner)
-----------------------------------------------------------------------------
(* Sums over sets of queues: SumFunctionOnSet adds a function's values in any order. *)

\* g gives the sum of f over every subset of U, whichever element is taken first.
Sums(g, f, U) ==
  /\ g \in [SUBSET U -> Int] /\ g[{}] = 0
  /\ \A T \in SUBSET U : \A x \in T : g[T] = f[x] + g[T \ {x}]

\* A set without a is one smaller.
LEMMA OneLess ==
  ASSUME NEW T, IsFiniteSet(T), NEW a \in T
  PROVE  /\ IsFiniteSet(T \ {a}) /\ Cardinality(T) \in Nat /\ Cardinality(T \ {a}) \in Nat
         /\ Cardinality(T \ {a}) < Cardinality(T)
<1>1. IsFiniteSet(T \ {a}) /\ Cardinality(T \ {a}) = Cardinality(T) - 1
  BY FS_RemoveElement
<1>2. Cardinality(T) \in Nat /\ Cardinality(T \ {a}) \in Nat
  BY <1>1, FS_CardinalityType
<1> QED BY <1>1, <1>2

\* Of the subsets with something wrong, take a smallest.
LEMMA SmallestSet ==
  ASSUME NEW U, IsFiniteSet(U), NEW W \in SUBSET (SUBSET U), W # {}
  PROVE  \E T \in W : \A x \in T : T \ {x} \notin W
<1> DEFINE C == {n \in Nat : \E T \in W : Cardinality(T) = n}
<1>1. \A T \in W : IsFiniteSet(T) /\ Cardinality(T) \in C
  BY FS_Subset, FS_CardinalityType
<1>2. PICK n \in C : \A m \in C : n <= m
  <2>1. C \in SUBSET Nat /\ C # {}
    BY <1>1
  <2> QED BY <2>1, LeastNumber
<1>3. PICK T \in W : Cardinality(T) = n
  OBVIOUS
<1>4. ASSUME NEW x \in T, T \ {x} \in W PROVE FALSE
  <2>1. Cardinality(T \ {x}) < Cardinality(T) /\ Cardinality(T) \in Nat /\ Cardinality(T \ {x}) \in Nat
    BY <1>1, OneLess
  <2>2. Cardinality(T \ {x}) \in C
    BY <1>1, <1>4
  <2>3. n <= Cardinality(T \ {x})
    BY <2>2, <1>2
  <2> QED BY <2>1, <2>3, <1>3
<1> QED BY <1>4

\* Over a finite set there is such a g.
LEMMA SumsExist ==
  ASSUME NEW U, IsFiniteSet(U), NEW f \in [U -> Int]
  PROVE  \E g : Sums(g, f, U)
<1> DEFINE W == {T \in SUBSET U : ~ \E g : Sums(g, f, T)}
<1>1. SUFFICES ASSUME W # {} PROVE FALSE
  <2>1. U \in SUBSET U
    OBVIOUS
  <2> QED BY <2>1
<1>2. PICK T \in W : \A x \in T : T \ {x} \notin W
  <2>1. W \in SUBSET (SUBSET U)
    OBVIOUS
  <2> HIDE DEF W
  <2> QED BY <2>1, <1>1, SmallestSet
<1>3. T # {}
  <2> DEFINE g == [s \in SUBSET {} |-> 0]
  <2>1. Sums(g, f, {})
    BY DEF Sums
  <2> QED BY <2>1, <1>2
<1>4. PICK a \in T : TRUE
  BY <1>3
<1>5. PICK g : Sums(g, f, T \ {a})
  BY <1>2, <1>4
<1> DEFINE h == [s \in SUBSET T |-> IF a \in s THEN f[a] + g[s \ {a}] ELSE g[s]]
<1>6. \A s \in SUBSET T : s \ {a} \in SUBSET (T \ {a}) /\ (a \notin s => s \in SUBSET (T \ {a}))
  OBVIOUS
<1>7. \A x \in T : f[x] \in Int
  OBVIOUS
<1>8. h \in [SUBSET T -> Int] /\ h[{}] = 0
  BY <1>4, <1>5, <1>6, <1>7 DEF Sums
<1>9. ASSUME NEW s \in SUBSET T, NEW x \in s PROVE h[s] = f[x] + h[s \ {x}]
  <2>1. CASE x = a
    <3>1. a \notin s \ {x} /\ s \ {x} = s \ {a}
      BY <2>1
    <3> QED BY <2>1, <3>1
  <2>2. CASE x # a /\ a \in s
    <3>1. g[s \ {a}] = f[x] + g[(s \ {a}) \ {x}]
      BY <1>5, <1>6, <2>2 DEF Sums
    <3>2. (s \ {a}) \ {x} = (s \ {x}) \ {a} /\ a \in s \ {x}
      BY <2>2
    <3>3. h[s] = f[a] + g[s \ {a}] /\ h[s \ {x}] = f[a] + g[(s \ {x}) \ {a}]
      BY <2>2, <3>2
    <3>4. g[(s \ {x}) \ {a}] \in Int /\ f[a] \in Int /\ f[x] \in Int
      BY <1>4, <1>5, <1>6, <1>7 DEF Sums
    <3>5. \A i, j, k \in Int : i + (j + k) = j + (i + k)
      OBVIOUS
    <3> HIDE DEF h
    <3>6. g[s \ {a}] = f[x] + g[(s \ {x}) \ {a}]
      BY <3>1, <3>2
    <3> QED BY <3>3, <3>4, <3>5, <3>6
  <2>3. CASE a \notin s
    <3>1. g[s] = f[x] + g[s \ {x}]
      BY <1>5, <1>6, <2>3 DEF Sums
    <3>2. h[s] = g[s] /\ h[s \ {x}] = g[s \ {x}]
      BY <2>3
    <3> QED BY <3>1, <3>2
  <2> QED BY <2>1, <2>2, <2>3
<1>10. Sums(h, f, T)
  <2> HIDE DEF h
  <2> QED BY <1>8, <1>9 DEF Sums
<1> QED BY <1>2, <1>10

\* What SumFunctionOnSet folds is such a g, whichever element its CHOOSE takes.
LEMMA SumIs ==
  ASSUME NEW U, IsFiniteSet(U), NEW f \in [U -> Int], NEW g, Sums(g, f, U), NEW T \in SUBSET U
  PROVE  SumFunctionOnSet(f, T) = g[T]
<1> DEFINE E(h) == h = [s \in SUBSET T |-> IF s = {} THEN 0
                                             ELSE LET x == CHOOSE x \in s : TRUE
                                                  IN f[x] + h[s \ {x}]]
           it == CHOOSE h : E(h)
<1>1. SumFunctionOnSet(f, T) = it[T]
  BY DEF SumFunctionOnSet, FoldFunctionOnSet, MapThenFoldSet
<1>2. E(it)
  <2> DEFINE r == [s \in SUBSET T |-> g[s]]
  <2>1. ASSUME NEW s \in SUBSET T, s # {}
        PROVE  g[s] = f[CHOOSE x \in s : TRUE] + r[s \ {CHOOSE x \in s : TRUE}]
    <3>1. PICK x : x = CHOOSE y \in s : TRUE
      OBVIOUS
    <3>2. x \in s
      BY <2>1, <3>1
    <3>3. g[s] = f[x] + g[s \ {x}] /\ s \ {x} \in SUBSET T
      BY <3>2 DEF Sums
    <3> QED BY <3>1, <3>3
  <2>2. g[{}] = 0
    BY DEF Sums
  <2>3. E(r)
    BY <2>1, <2>2
  <2> HIDE DEF E, r
  <2> QED BY <2>3
<1> DEFINE W == {s \in SUBSET T : it[s] # g[s]}
<1>3. SUFFICES ASSUME W # {} PROVE FALSE
  BY <1>1
<1>4. PICK s \in W : \A x \in s : s \ {x} \notin W
  <2>1. W \in SUBSET (SUBSET T) /\ IsFiniteSet(T)
    BY FS_Subset
  <2> HIDE DEF W
  <2> QED BY <2>1, <1>3, SmallestSet
<1>5. CASE s = {}
  BY <1>2, <1>4, <1>5 DEF Sums
<1>6. CASE s # {}
  <2>1. PICK x : x = CHOOSE y \in s : TRUE
    OBVIOUS
  <2>2. x \in s /\ s \ {x} \in SUBSET T
    BY <1>6, <2>1
  <2>3. it[s \ {x}] = g[s \ {x}]
    BY <1>4, <2>2
  <2>4. it[s] = f[x] + it[s \ {x}]
    BY <1>2, <1>6, <2>1
  <2>5. g[s] = f[x] + g[s \ {x}]
    BY <2>2 DEF Sums
  <2> QED BY <2>3, <2>4, <2>5, <1>4
<1> QED BY <1>5, <1>6

\* A set's sum is an integer, nothing adds up to 0, and any element may be added last.
LEMMA SumStep ==
  ASSUME NEW U, IsFiniteSet(U), NEW f \in [U -> Int], NEW T \in SUBSET U
  PROVE  /\ SumFunctionOnSet(f, T) \in Int
         /\ SumFunctionOnSet(f, {}) = 0
         /\ \A x \in T : SumFunctionOnSet(f, T) = f[x] + SumFunctionOnSet(f, T \ {x})
<1>1. PICK g : Sums(g, f, U)
  BY SumsExist
<1>2. \A s \in SUBSET U : SumFunctionOnSet(f, s) = g[s]
  BY <1>1, SumIs
<1>3. g \in [SUBSET U -> Int] /\ g[{}] = 0 /\ \A x \in T : g[T] = f[x] + g[T \ {x}]
  BY <1>1 DEF Sums
<1>4. {} \in SUBSET U /\ \A x \in T : T \ {x} \in SUBSET U
  OBVIOUS
<1> QED BY <1>2, <1>3, <1>4

\* h is f less k on T: so is its sum.
LEMMA SumLess ==
  ASSUME NEW U, IsFiniteSet(U), NEW f \in [U -> Int], NEW h \in [U -> Int], NEW k \in [U -> Int],
         NEW S \in SUBSET U, NEW T \in SUBSET S,
         \A q \in S : h[q] = f[q] - (IF q \in T THEN k[q] ELSE 0)
  PROVE  SumFunctionOnSet(h, S) = SumFunctionOnSet(f, S) - SumFunctionOnSet(k, T)
<1> DEFINE W == {R \in SUBSET S : SumFunctionOnSet(h, R)
                                    # SumFunctionOnSet(f, R) - SumFunctionOnSet(k, R \cap T)}
<1>1. SUFFICES ASSUME W # {} PROVE FALSE
  <2>1. S \in SUBSET S /\ S \cap T = T
    OBVIOUS
  <2> QED BY <2>1
<1>2. PICK R \in W : \A x \in R : R \ {x} \notin W
  <2>1. W \in SUBSET (SUBSET S) /\ IsFiniteSet(S)
    BY FS_Subset
  <2> HIDE DEF W
  <2> QED BY <2>1, <1>1, SmallestSet
<1>3. R \in SUBSET S /\ R \in SUBSET U /\ R \cap T \in SUBSET U
  OBVIOUS
<1>4. R # {}
  <2>1. {} \cap T = {}
    OBVIOUS
  <2>2. SumFunctionOnSet(h, {}) = 0 /\ SumFunctionOnSet(f, {}) = 0 /\ SumFunctionOnSet(k, {}) = 0
    BY <1>3, SumStep
  <2> QED BY <1>2, <2>1, <2>2
<1>5. PICK x \in R : TRUE
  BY <1>4
<1>6. R \ {x} \in SUBSET S /\ R \ {x} \in SUBSET U /\ (R \ {x}) \cap T = (R \cap T) \ {x}
  OBVIOUS
<1>7. SumFunctionOnSet(h, R \ {x})
        = SumFunctionOnSet(f, R \ {x}) - SumFunctionOnSet(k, (R \cap T) \ {x})
  BY <1>2, <1>5, <1>6
<1>8. /\ SumFunctionOnSet(h, R) = h[x] + SumFunctionOnSet(h, R \ {x})
      /\ SumFunctionOnSet(f, R) = f[x] + SumFunctionOnSet(f, R \ {x})
  BY <1>3, <1>5, SumStep
<1>9. SumFunctionOnSet(k, R \cap T) = (IF x \in T THEN k[x] ELSE 0) + SumFunctionOnSet(k, (R \cap T) \ {x})
  <2>1. CASE x \in T
    <3>1. x \in R \cap T
      BY <2>1, <1>5
    <3> QED BY <2>1, <3>1, <1>3, SumStep
  <2>2. CASE x \notin T
    <3>1. (R \cap T) \ {x} = R \cap T
      BY <2>2
    <3>2. SumFunctionOnSet(k, R \cap T) \in Int
      BY <1>3, SumStep
    <3>3. SumFunctionOnSet(k, R \cap T) = 0 + SumFunctionOnSet(k, R \cap T)
      BY <3>2
    <3> QED BY <2>2, <3>1, <3>3
  <2> QED BY <2>1, <2>2
<1>10. /\ SumFunctionOnSet(h, R \ {x}) \in Int /\ SumFunctionOnSet(f, R \ {x}) \in Int
       /\ SumFunctionOnSet(k, (R \cap T) \ {x}) \in Int
  <2>1. (R \cap T) \ {x} \in SUBSET U
    BY <1>3
  <2> QED BY <1>6, <2>1, SumStep
<1>11. h[x] = f[x] - (IF x \in T THEN k[x] ELSE 0) /\ x \in U
  BY <1>3, <1>5
<1>12. SumFunctionOnSet(h, R) = SumFunctionOnSet(f, R) - SumFunctionOnSet(k, R \cap T)
  BY <1>7, <1>8, <1>9, <1>10, <1>11
<1> QED BY <1>2, <1>12

\* What is nowhere negative adds up to no less than 0.
LEMMA SumNat ==
  ASSUME NEW U, IsFiniteSet(U), NEW f \in [U -> Int], NEW S \in SUBSET U, \A q \in S : f[q] >= 0
  PROVE  SumFunctionOnSet(f, S) >= 0
<1> DEFINE W == {R \in SUBSET S : ~(SumFunctionOnSet(f, R) >= 0)}
<1>1. SUFFICES ASSUME W # {} PROVE FALSE
  OBVIOUS
<1>2. PICK R \in W : \A x \in R : R \ {x} \notin W
  <2>1. W \in SUBSET (SUBSET S) /\ IsFiniteSet(S)
    BY FS_Subset
  <2> HIDE DEF W
  <2> QED BY <2>1, <1>1, SmallestSet
<1>3. R \in SUBSET S /\ R \in SUBSET U
  OBVIOUS
<1>4. R # {}
  <2>1. SumFunctionOnSet(f, {}) = 0
    BY <1>3, SumStep
  <2> QED BY <1>2, <2>1
<1>5. PICK x \in R : TRUE
  BY <1>4
<1>6. R \ {x} \in SUBSET S /\ R \ {x} \in SUBSET U
  OBVIOUS
<1>7. SumFunctionOnSet(f, R \ {x}) >= 0 /\ SumFunctionOnSet(f, R \ {x}) \in Int
  BY <1>2, <1>5, <1>6, SumStep
<1>8. SumFunctionOnSet(f, R) = f[x] + SumFunctionOnSet(f, R \ {x})
  BY <1>3, <1>5, SumStep
<1>9. f[x] >= 0 /\ f[x] \in Int
  BY <1>3, <1>5
<1> QED BY <1>2, <1>7, <1>8, <1>9
-----------------------------------------------------------------------------
(* Minima, and totals over the queues of a ps_id.                           *)

\* The least and the greatest of two numbers.
LEMMA MinMax ==
  ASSUME NEW a \in Int, NEW b \in Int
  PROVE  /\ Min({a, b}) = (IF a <= b THEN a ELSE b)
         /\ Max({a, b}) = (IF a <= b THEN b ELSE a)
<1>1. \E x \in {a, b} : \A y \in {a, b} : x <= y
  OBVIOUS
<1>2. Min({a, b}) \in {a, b} /\ \A y \in {a, b} : Min({a, b}) <= y
  BY <1>1 DEF Min
<1>3. \E x \in {a, b} : \A y \in {a, b} : x >= y
  OBVIOUS
<1>4. Max({a, b}) \in {a, b} /\ \A y \in {a, b} : Max({a, b}) >= y
  BY <1>3 DEF Max
<1> QED BY <1>2, <1>4

\* A peer has finitely many queues.
LEMMA QueuesFinite == IsFiniteSet(TXQ)
<1>1. Tids \in Seq(Data)
  BY TxqAssumption
<1>2. DOMAIN Tids = 1..Len(Tids) /\ Len(Tids) \in Nat
  BY <1>1
<1>3. IsFiniteSet(DOMAIN Tids)
  BY <1>2, FS_Interval
<1>4. Data = {Tids[i] : i \in DOMAIN Tids}
  BY DEF Data, Range
<1>5. IsFiniteSet(Data)
  <2>1. Tids \in Surjection(DOMAIN Tids, Data)
    BY <1>1, <1>2, <1>4 DEF Surjection
  <2> QED BY <1>3, <2>1, FS_Surjection
<1> QED BY <1>5, FS_AddElement DEF TXQ

\* h is f less k on S.
LessBy(h, f, k, S) == \A q \in TXQ : h[q] = f[q] - (IF q \in S THEN k[q] ELSE 0)

\* A total falls by the total of what is taken away (rwnx_txq.c pushes from several queues).
LEMMA TotalLess ==
  ASSUME NEW f \in [TXQ -> Int], NEW h \in [TXQ -> Int], NEW k \in [TXQ -> Int],
         NEW S \in SUBSET TXQ, NEW p, LessBy(h, f, k, S)
  PROVE  /\ Total(h, TXQ, p) = Total(f, TXQ, p) - Total(k, S, p)
         /\ Total(h, TXQ, p) \in Int /\ Total(f, TXQ, p) \in Int /\ Total(k, S, p) \in Int
<1> DEFINE A == {q \in TXQ : PsOf(q) = p}
           B == {q \in S : PsOf(q) = p}
<1>1. A \in SUBSET TXQ /\ B \in SUBSET A /\ B \in SUBSET TXQ
  OBVIOUS
<1>2. \A q \in A : h[q] = f[q] - (IF q \in B THEN k[q] ELSE 0)
  BY DEF LessBy
<1>3. SumFunctionOnSet(h, A) = SumFunctionOnSet(f, A) - SumFunctionOnSet(k, B)
  <2> HIDE DEF A, B
  <2> QED BY <1>1, <1>2, QueuesFinite, SumLess
<1>4. /\ SumFunctionOnSet(h, A) \in Int /\ SumFunctionOnSet(f, A) \in Int
      /\ SumFunctionOnSet(k, B) \in Int
  <2> HIDE DEF A, B
  <2> QED BY <1>1, QueuesFinite, SumStep
<1> QED BY <1>3, <1>4 DEF Total

\* A total is an integer.
LEMMA TotalInt ==
  ASSUME NEW f \in [TXQ -> Int], NEW S \in SUBSET TXQ, NEW p
  PROVE  Total(f, S, p) \in Int
<1>1. {q \in S : PsOf(q) = p} \in SUBSET TXQ
  OBVIOUS
<1> QED BY <1>1, QueuesFinite, SumStep DEF Total

\* A total of numbers is a number.
LEMMA TotalNat ==
  ASSUME NEW f \in [TXQ -> Int], NEW S \in SUBSET TXQ, NEW p,
         \A q \in S : PsOf(q) = p => f[q] >= 0
  PROVE  Total(f, S, p) \in Nat
<1> DEFINE A == {q \in S : PsOf(q) = p}
<1>1. A \in SUBSET TXQ /\ \A q \in A : f[q] >= 0
  OBVIOUS
<1>2. SumFunctionOnSet(f, A) >= 0 /\ SumFunctionOnSet(f, A) \in Int
  <2> HIDE DEF A
  <2> QED BY <1>1, QueuesFinite, SumNat, SumStep
<1> QED BY <1>2 DEF Total

\* A total of nothing is 0.
LEMMA TotalZero ==
  ASSUME NEW f \in [TXQ -> Int], NEW p, \A q \in TXQ : PsOf(q) = p => f[q] = 0
  PROVE  Total(f, TXQ, p) = 0
<1> DEFINE A == {q \in TXQ : PsOf(q) = p}
<1>1. A \in SUBSET TXQ /\ A \in SUBSET A /\ \A q \in A : f[q] = f[q] - (IF q \in A THEN f[q] ELSE 0)
  OBVIOUS
<1>2. SumFunctionOnSet(f, A) = SumFunctionOnSet(f, A) - SumFunctionOnSet(f, A)
      /\ SumFunctionOnSet(f, A) \in Int
  <2> HIDE DEF A
  <2> QED BY <1>1, QueuesFinite, SumLess, SumStep
<1> QED BY <1>2 DEF Total

\* What is pointwise no more adds up to no more.
LEMMA TotalMore ==
  ASSUME NEW f \in [TXQ -> Int], NEW h \in [TXQ -> Int], NEW p,
         \A q \in TXQ : PsOf(q) = p => h[q] <= f[q]
  PROVE  Total(h, TXQ, p) <= Total(f, TXQ, p)
<1> DEFINE k == [q \in TXQ |-> f[q] - h[q]]
<1>1. k \in [TXQ -> Int] /\ (\A q \in TXQ : PsOf(q) = p => k[q] >= 0)
      /\ LessBy(h, f, k, TXQ) /\ TXQ \in SUBSET TXQ
  BY DEF LessBy
<1> HIDE DEF k
<1>2. Total(k, TXQ, p) \in Nat
  BY <1>1, TotalNat
<1>3. /\ Total(h, TXQ, p) = Total(f, TXQ, p) - Total(k, TXQ, p)
      /\ Total(h, TXQ, p) \in Int /\ Total(f, TXQ, p) \in Int
  BY <1>1, TotalLess
<1> QED BY <1>2, <1>3

\* One queue changes.
SameBut(h, f, q) == \A x \in TXQ \ {q} : h[x] = f[x]

\* Where one queue changes, the total of its ps_id changes by as much.
LEMMA TotalOne ==
  ASSUME NEW f \in [TXQ -> Int], NEW h \in [TXQ -> Int], NEW q \in TXQ, NEW p, SameBut(h, f, q)
  PROVE  /\ Total(h, TXQ, p) = Total(f, TXQ, p) + (IF PsOf(q) = p THEN h[q] - f[q] ELSE 0)
         /\ Total(h, TXQ, p) \in Int /\ Total(f, TXQ, p) \in Int
<1> DEFINE k == [x \in TXQ |-> f[x] - h[x]]
<1>1. k \in [TXQ -> Int]
  OBVIOUS
<1>a. LessBy(h, f, k, {q})
  BY DEF LessBy, SameBut
<1>2. k[q] = f[q] - h[q] /\ k[q] \in Int
  OBVIOUS
<1> HIDE DEF k
<1>3. Total(k, {q}, p) = IF PsOf(q) = p THEN k[q] ELSE 0
  <2>1. /\ {} \in SUBSET TXQ /\ {q} \in SUBSET TXQ /\ {q} \ {q} = {}
    OBVIOUS
  <2>2. SumFunctionOnSet(k, {}) = 0 /\ SumFunctionOnSet(k, {q}) = k[q] + SumFunctionOnSet(k, {q} \ {q})
    BY <1>1, <2>1, QueuesFinite, SumStep
  <2>3. SumFunctionOnSet(k, {q}) = k[q]
    <3>1. SumFunctionOnSet(k, {q} \ {q}) = 0
      BY ONLY <2>1, <2>2
    <3>2. k[q] + 0 = k[q]
      BY <1>2
    <3> QED BY ONLY <2>2, <3>1, <3>2
  <2>4. CASE PsOf(q) = p
    <3>1. {x \in {q} : PsOf(x) = p} = {q}
      BY <2>4
    <3> QED BY <2>3, <2>4, <3>1 DEF Total
  <2>5. CASE PsOf(q) # p
    <3>1. {x \in {q} : PsOf(x) = p} = {}
      BY <2>5
    <3> QED BY <2>2, <2>5, <3>1 DEF Total
  <2> QED BY <2>4, <2>5
<1>4. /\ Total(h, TXQ, p) = Total(f, TXQ, p) - Total(k, {q}, p)
      /\ Total(h, TXQ, p) \in Int /\ Total(f, TXQ, p) \in Int
  <2>1. {q} \in SUBSET TXQ
    OBVIOUS
  <2> QED BY <1>1, <1>a, <2>1, TotalLess
<1>5. h[q] \in Int /\ f[q] \in Int
  OBVIOUS
<1> QED BY <1>2, <1>3, <1>4, <1>5

\* Where nothing is negative and the total is 0, everything is 0.
LEMMA TotalNone ==
  ASSUME NEW f \in [TXQ -> Int], NEW p, Total(f, TXQ, p) = 0,
         \A q \in TXQ : f[q] >= 0, NEW q \in TXQ, PsOf(q) = p
  PROVE  f[q] = 0
<1> DEFINE h == [f EXCEPT ![q] = 0]
<1>1. h \in [TXQ -> Int] /\ (\A x \in TXQ : PsOf(x) = p => h[x] >= 0)
      /\ h[q] = 0 /\ SameBut(h, f, q)
  BY DEF SameBut
<1> HIDE DEF h
<1>2. Total(h, TXQ, p) \in Nat
  BY <1>1, TotalNat
<1>3. Total(h, TXQ, p) = Total(f, TXQ, p) + (IF PsOf(q) = p THEN h[q] - f[q] ELSE 0)
  BY <1>1, TotalOne
<1>4. f[q] >= 0 /\ f[q] \in Int
  OBVIOUS
<1> QED BY <1>1, <1>2, <1>3, <1>4

\* A function that is 0 at the other queues has the same total over them all.
LEMMA TotalAll ==
  ASSUME NEW f \in [TXQ -> Int], NEW p, \A q \in TXQ : PsOf(q) # p => f[q] = 0
  PROVE  SumFunctionOnSet(f, TXQ) = Total(f, TXQ, p)
<1> DEFINE A == {q \in TXQ : PsOf(q) = p}
           h == [q \in TXQ |-> 0]
<1>1. h \in [TXQ -> Int] /\ A \in SUBSET TXQ /\ TXQ \in SUBSET TXQ
      /\ \A q \in TXQ : h[q] = f[q] - (IF q \in A THEN f[q] ELSE 0)
  OBVIOUS
<1>2. \A q \in TXQ : h[q] = h[q] - (IF q \in TXQ THEN h[q] ELSE 0)
  OBVIOUS
<1>3. A = {q \in TXQ : PsOf(q) = p}
  OBVIOUS
<1> HIDE DEF h, A
<1>4. SumFunctionOnSet(h, TXQ) = SumFunctionOnSet(f, TXQ) - SumFunctionOnSet(f, A)
  BY <1>1, QueuesFinite, SumLess
<1>5. SumFunctionOnSet(h, TXQ) = SumFunctionOnSet(h, TXQ) - SumFunctionOnSet(h, TXQ)
  BY <1>1, <1>2, QueuesFinite, SumLess
<1>6. /\ SumFunctionOnSet(h, TXQ) \in Int /\ SumFunctionOnSet(f, TXQ) \in Int
      /\ SumFunctionOnSet(f, A) \in Int
  BY <1>1, QueuesFinite, SumStep
<1>7. Total(f, TXQ, p) = SumFunctionOnSet(f, A)
  BY <1>3 DEF Total
<1>8. \A a, b, c \in Int : a = b - c /\ a = a - a => b = c
  OBVIOUS
<1> QED BY <1>4, <1>5, <1>6, <1>7, <1>8
-----------------------------------------------------------------------------
(* What the operations on one queue keep true of it.                        *)

\* Two queues that differ in where they are listed and stopped.
Alike(u, t) ==
  /\ u.active = t.active /\ u.sk_list = t.sk_list /\ u.credits = t.credits
  /\ u.nb_retry = t.nb_retry /\ u.last_retry = t.last_retry /\ u.push_limit = t.push_limit

\* Linking a queue that is in no list (rwnx_txq_add_to_hw_list).
LEMMA AddIs ==
  ASSUME NEW t \in Queue, t.linked = 0, ~Listed(t)
  PROVE  LET u == rwnx_txq_add_to_hw_list(t)
         IN /\ u \in Queue /\ Alike(u, t) /\ u.linked = 1 /\ Listed(u)
            /\ u.status = t.status \cup {"IN_HWQ_LIST"}
<1> DEFINE u == [t EXCEPT !.status = @ \cup {"IN_HWQ_LIST"}, !.linked = @ + 1]
<1>1. rwnx_txq_add_to_hw_list(t) = u
  BY DEF rwnx_txq_add_to_hw_list, Listed
<1>2. t.status \cup {"IN_HWQ_LIST"} \in SUBSET Flags /\ t.linked + 1 = 1
  BY DEF Queue, Flags
<1>3. u \in Queue
  <2> DEFINE S == t.status \cup {"IN_HWQ_LIST"}
             n == t.linked + 1
  <2>1. S \in SUBSET Flags /\ n \in Nat
    BY <1>2
  <2> HIDE DEF S, n
  <2>2. [t EXCEPT !.status = S, !.linked = n] \in Queue
    BY <2>1 DEF Queue
  <2> QED BY <2>2 DEF S, n
<1>4. Alike(u, t) /\ u.linked = 1 /\ u.status = t.status \cup {"IN_HWQ_LIST"}
  BY <1>2 DEF Queue, Alike
<1> HIDE DEF u
<1> QED BY <1>1, <1>3, <1>4 DEF Listed

\* Unlinking a queue (rwnx_txq_del_from_hw_list).
LEMMA DelIs ==
  ASSUME NEW t \in Queue, t.linked = IF Listed(t) THEN 1 ELSE 0
  PROVE  LET u == rwnx_txq_del_from_hw_list(t)
         IN /\ u \in Queue /\ Alike(u, t) /\ u.linked = 0 /\ ~Listed(u)
            /\ u.status = t.status \ {"IN_HWQ_LIST"}
<1>1. CASE Listed(t)
  <2> DEFINE u == [t EXCEPT !.status = @ \ {"IN_HWQ_LIST"}, !.linked = @ - 1]
  <2>1. rwnx_txq_del_from_hw_list(t) = u
    BY <1>1 DEF rwnx_txq_del_from_hw_list, Listed
  <2>2. t.status \ {"IN_HWQ_LIST"} \in SUBSET Flags /\ t.linked - 1 = 0
    BY <1>1 DEF Queue, Flags
  <2>3. u \in Queue
    <3> DEFINE S == t.status \ {"IN_HWQ_LIST"}
               n == t.linked - 1
    <3>1. S \in SUBSET Flags /\ n \in Nat
      BY <2>2
    <3> HIDE DEF S, n
    <3>2. [t EXCEPT !.status = S, !.linked = n] \in Queue
      BY <3>1 DEF Queue
    <3> QED BY <3>2 DEF S, n
  <2>4. Alike(u, t) /\ u.linked = 0 /\ u.status = t.status \ {"IN_HWQ_LIST"}
    BY <2>2 DEF Queue, Alike
  <2> HIDE DEF u
  <2> QED BY <2>1, <2>3, <2>4 DEF Listed
<1>2. CASE ~Listed(t)
  <2>1. rwnx_txq_del_from_hw_list(t) = t
    BY <1>2 DEF rwnx_txq_del_from_hw_list, Listed
  <2>2. t.status = t.status \ {"IN_HWQ_LIST"}
    BY <1>2 DEF Listed
  <2> QED BY <1>2, <2>1, <2>2 DEF Alike
<1> QED BY <1>1, <1>2

\* A queue stops and leaves its list (rwnx_txq_stop).
LEMMA StopGood ==
  ASSUME NEW m, NEW r, NEW t, Good(t, m, r), NEW reason \in Reasons
  PROVE  LET u == rwnx_txq_stop(t, reason)
         IN /\ Good(u, m, r) /\ u.active = t.active /\ u.sk_list = t.sk_list
            /\ u.push_limit = t.push_limit
            /\ \A x \in Reasons : x \in u.status <=> x \in t.status \/ (t.active /\ x = reason)
            /\ Listed(u) => Listed(t)
<1> DEFINE u == rwnx_txq_stop(t, reason)
<1>1. CASE ~t.active
  <2>1. u = t
    BY <1>1 DEF rwnx_txq_stop
  <2> QED BY <1>1, <2>1
<1>2. CASE t.active
  <2>1. t \in Queue /\ Sound(t, m, r)
    BY DEF Good
  <2>2. /\ u \in Queue /\ ~Listed(u) /\ u.linked = 0
        /\ u.status = (t.status \cup {reason}) \ {"IN_HWQ_LIST"}
        /\ u.active = t.active /\ u.sk_list = t.sk_list /\ u.credits = t.credits
        /\ u.nb_retry = t.nb_retry /\ u.last_retry = t.last_retry /\ u.push_limit = t.push_limit
    <3> DEFINE v == [t EXCEPT !.status = @ \cup {reason}]
    <3>1. reason \in Flags /\ reason # "IN_HWQ_LIST"
      BY DEF Flags, Reasons
    <3>2. t.status \cup {reason} \in SUBSET Flags
      BY <2>1, <3>1 DEF Queue
    <3>3. v \in Queue /\ v.status = t.status \cup {reason} /\ v.linked = t.linked /\ Alike(v, t)
      BY <2>1, <3>2 DEF Queue, Alike
    <3>4. v.linked = IF Listed(v) THEN 1 ELSE 0
      BY <2>1, <3>1, <3>3 DEF Sound, Listed
    <3>5. u = rwnx_txq_del_from_hw_list(v)
      BY <1>2 DEF rwnx_txq_stop
    <3> HIDE DEF v, u
    <3> QED BY <3>3, <3>4, <3>5, DelIs DEF Alike
  <2>3. \A x \in Reasons : x \in u.status <=> x \in t.status \/ x = reason
    BY <2>2 DEF Reasons
  <2>4. rwnx_txq_is_stopped(u)
    BY <2>3 DEF rwnx_txq_is_stopped
  <2>5. Sound(u, m, r)
    <3>1. "STA_PS" \in Reasons
      BY DEF Reasons
    <3> HIDE DEF u
    <3> QED BY <2>1, <2>2, <2>3, <3>1 DEF Sound, Limited, RetriesLead
  <2>6. ~Ready(u)
    BY <2>4 DEF Ready
  <2> HIDE DEF u
  <2> QED BY <1>2, <2>2, <2>3, <2>5, <2>6 DEF Good, u
<1> QED BY <1>1, <1>2

\* A queue starts again; with "STA_PS" it has no limit any more.
LEMMA StartGood ==
  ASSUME NEW m, NEW r, NEW t, Good(t, m, r), NEW reason \in Reasons \ {"STA_PS"}
  PROVE  LET u == rwnx_txq_start(t, reason)
         IN /\ Good(u, m, r) /\ u.active = t.active /\ u.sk_list = t.sk_list
            /\ u.push_limit = t.push_limit
            /\ "STA_PS" \in u.status <=> "STA_PS" \in t.status
            /\ ~t.active => u = t
<1> DEFINE u == rwnx_txq_start(t, reason)
           v == [t EXCEPT !.status = @ \ {reason}]
<1>1. CASE ~t.active \/ reason \notin t.status
  <2>1. u = t
    BY <1>1 DEF rwnx_txq_start
  <2> QED BY <1>1, <2>1
<1>2. CASE t.active /\ reason \in t.status
  <2>1. t \in Queue /\ Sound(t, m, r) /\ (Ready(t) => Listed(t))
    BY DEF Good
  <2>2. /\ v \in Queue /\ v.linked = t.linked
        /\ v.status = t.status \ {reason}
        /\ v.active = t.active /\ v.sk_list = t.sk_list /\ v.credits = t.credits
        /\ v.nb_retry = t.nb_retry /\ v.last_retry = t.last_retry /\ v.push_limit = t.push_limit
    BY <2>1 DEF Queue
  <2>3. ("STA_PS" \in v.status <=> "STA_PS" \in t.status) /\ (Listed(v) <=> Listed(t))
    BY <2>2 DEF Reasons, Listed
  <2>4. Sound(v, m, r)
    <3> HIDE DEF v
    <3> QED BY <2>1, <2>2, <2>3 DEF Sound, Limited, RetriesLead
  <2>5. u = IF ~rwnx_txq_is_stopped(v) /\ rwnx_txq_skb_ready(v)
            THEN rwnx_txq_add_to_hw_list(v) ELSE v
    BY <1>2 DEF rwnx_txq_start
  <2> HIDE DEF u, v
  <2>6. CASE ~rwnx_txq_is_stopped(v) /\ rwnx_txq_skb_ready(v) /\ ~Listed(v)
    <3>1. /\ u \in Queue /\ u.linked = 1 /\ Listed(u) /\ u.status = v.status \cup {"IN_HWQ_LIST"}
          /\ u.active = v.active /\ u.sk_list = v.sk_list /\ u.credits = v.credits
          /\ u.nb_retry = v.nb_retry /\ u.last_retry = v.last_retry /\ u.push_limit = v.push_limit
      <4>1. v.linked = 0
        BY <2>4, <2>6 DEF Sound
      <4> QED BY <2>2, <2>5, <2>6, <4>1, AddIs DEF Alike
    <3>2. "STA_PS" \notin u.status /\ "STA_PS" \notin v.status
      BY <2>6, <3>1 DEF rwnx_txq_is_stopped, Reasons
    <3>3. Sound(u, m, r)
      BY <2>4, <2>6, <3>1, <3>2 DEF Sound, Limited, RetriesLead, rwnx_txq_skb_ready
    <3> QED BY <1>2, <2>2, <2>3, <3>1, <3>2, <3>3 DEF Good, u
  <2>7. CASE ~(~rwnx_txq_is_stopped(v) /\ rwnx_txq_skb_ready(v) /\ ~Listed(v))
    <3>1. u = v
      BY <2>5, <2>7 DEF rwnx_txq_add_to_hw_list, Listed
    <3>2. Ready(u) => Listed(u)
      BY <2>7, <3>1 DEF Ready, rwnx_txq_skb_ready
    <3> QED BY <1>2, <2>2, <2>3, <2>4, <3>1, <3>2 DEF Good, u
  <2> QED BY <2>6, <2>7
<1> QED BY <1>1, <1>2

\* The peer wakes: whatever limit there was, it is forgotten.
LEMMA WakeGood ==
  ASSUME NEW m, NEW r, NEW t, Good(t, m, r), t.active
  PROVE  LET u == rwnx_txq_start([t EXCEPT !.push_limit = 0], "STA_PS")
         IN /\ Good(u, m, r) /\ u.active /\ u.sk_list = t.sk_list /\ u.push_limit = 0
            /\ "STA_PS" \notin u.status
<1> DEFINE w == [t EXCEPT !.push_limit = 0]
           v == [w EXCEPT !.status = @ \ {"STA_PS"}]
           u == rwnx_txq_start(w, "STA_PS")
<1>1. t \in Queue /\ Sound(t, m, r) /\ (Ready(t) => Listed(t))
  BY DEF Good
<1>2. /\ v \in Queue /\ v.linked = t.linked /\ v.status = t.status \ {"STA_PS"}
      /\ v.active = t.active /\ v.sk_list = t.sk_list /\ v.credits = t.credits
      /\ v.nb_retry = t.nb_retry /\ v.last_retry = t.last_retry /\ v.push_limit = 0
  BY <1>1 DEF Queue
<1>3. "STA_PS" \notin v.status /\ (Listed(v) <=> Listed(t))
  BY <1>2 DEF Listed
<1>4. Sound(v, m, r)
  <2>1. t.credits \in Int /\ Credits \in Nat
    BY <1>1, TxqAssumption DEF Queue
  <2> HIDE DEF v
  <2> QED BY <1>1, <1>2, <1>3, <2>1, TxqAssumption DEF Sound, Limited, RetriesLead
<1>5. u = IF "STA_PS" \in t.status /\ ~rwnx_txq_is_stopped(v) /\ rwnx_txq_skb_ready(v)
          THEN rwnx_txq_add_to_hw_list(v) ELSE v
  <2>1. w.active /\ w.status = t.status
    BY <1>1 DEF Queue
  <2>2. CASE "STA_PS" \in t.status
    BY <2>1, <2>2 DEF rwnx_txq_start
  <2>3. CASE "STA_PS" \notin t.status
    <3>1. u = w
      BY <2>1, <2>3 DEF rwnx_txq_start
    <3>2. t.status \ {"STA_PS"} = t.status
      BY <2>3
    <3>3. v = w
      BY <1>1, <2>1, <3>2 DEF Queue
    <3> QED BY <2>3, <3>1, <3>3
  <2> QED BY <2>2, <2>3
<1> HIDE DEF u, v, w
<1>6. CASE "STA_PS" \in t.status /\ ~rwnx_txq_is_stopped(v) /\ rwnx_txq_skb_ready(v) /\ ~Listed(v)
  <2>1. /\ u \in Queue /\ u.linked = 1 /\ Listed(u) /\ u.status = v.status \cup {"IN_HWQ_LIST"}
        /\ u.active = v.active /\ u.sk_list = v.sk_list /\ u.credits = v.credits
        /\ u.nb_retry = v.nb_retry /\ u.last_retry = v.last_retry /\ u.push_limit = v.push_limit
    <3>1. v.linked = 0
      BY <1>4, <1>6 DEF Sound
    <3> QED BY <1>2, <1>5, <1>6, <3>1, AddIs DEF Alike
  <2>2. "STA_PS" \notin u.status
    BY <1>3, <2>1
  <2>3. Sound(u, m, r)
    BY <1>3, <1>4, <1>6, <2>1, <2>2 DEF Sound, Limited, RetriesLead, rwnx_txq_skb_ready
  <2> QED BY <1>2, <2>1, <2>2, <2>3 DEF Good, u, w
<1>7. CASE ~("STA_PS" \in t.status /\ ~rwnx_txq_is_stopped(v) /\ rwnx_txq_skb_ready(v) /\ ~Listed(v))
  <2>1. u = v
    BY <1>5, <1>7 DEF rwnx_txq_add_to_hw_list, Listed
  <2>2. Ready(u) => Listed(u)
    <3>1. CASE "STA_PS" \in t.status
      BY <1>7, <2>1, <3>1 DEF Ready, rwnx_txq_skb_ready
    <3>2. CASE "STA_PS" \notin t.status
      <4>1. t.status \ {"STA_PS"} = t.status
        BY <3>2
      <4> QED BY <1>1, <1>2, <1>3, <2>1, <4>1 DEF Ready, rwnx_txq_is_stopped
    <3> QED BY <3>1, <3>2
  <2> QED BY <1>2, <1>3, <1>4, <2>1, <2>2 DEF Good, u, w
<1> QED BY <1>6, <1>7

\* More buffers or retries elsewhere take nothing from a queue.
LEMMA GoodLater ==
  ASSUME NEW m \in Nat, NEW r \in Nat, NEW m1 \in Nat, NEW r1 \in Nat, m <= m1, r <= r1,
         NEW t, Good(t, m, r)
  PROVE  Good(t, m1, r1)
<1>1. t \in Queue /\ Sound(t, m, r)
  BY DEF Good
<1>2. t.sk_list \in Seq(1..MaxMade) /\ t.nb_retry \in Nat /\ t.credits \in Int /\ Credits \in Nat
  BY <1>1, TxqAssumption DEF Queue
<1>3. \A i \in DOMAIN t.sk_list : t.sk_list[i] \in Nat
  BY <1>2, TxqAssumption, ElementOfSeq
<1>4. \A i \in DOMAIN t.sk_list : t.sk_list[i] <= m1
  BY <1>1, <1>3 DEF Sound
<1>5. t.credits <= Credits + r1 /\ t.nb_retry <= r1
  BY <1>1, <1>2 DEF Sound
<1>6. Sound(t, m1, r1)
  BY <1>1, <1>4, <1>5 DEF Sound
<1> QED BY <1>6 DEF Good

\* NDEV_FLOW_CTRL is no stop reason.
LEMMA FlowGood ==
  ASSUME NEW m, NEW r, NEW q, NEW t \in Queue, Sound(t, m, r)
  PROVE  LET u == MarkFlow(q, t)
         IN /\ u \in Queue /\ Sound(u, m, r) /\ Alike(u, t) /\ u.linked = t.linked
            /\ \A x \in Reasons \cup {"IN_HWQ_LIST"} : x \in u.status <=> x \in t.status
<1> DEFINE u == [t EXCEPT !.status = @ \cup {"NDEV_FLOW_CTRL"}]
<1>1. CASE ~Overfull(q, t)
  BY <1>1 DEF MarkFlow, Alike
<1>2. CASE Overfull(q, t)
  <2>1. MarkFlow(q, t) = u
    BY <1>2 DEF MarkFlow
  <2>2. t.status \cup {"NDEV_FLOW_CTRL"} \in SUBSET Flags
    BY DEF Queue, Flags
  <2>3. u \in Queue /\ Alike(u, t) /\ u.linked = t.linked /\ u.status = t.status \cup {"NDEV_FLOW_CTRL"}
    BY <2>2 DEF Queue, Alike
  <2>4. \A x \in Reasons \cup {"IN_HWQ_LIST"} : x \in u.status <=> x \in t.status
    BY <2>3 DEF Reasons
  <2>5. "STA_PS" \in Reasons
    BY DEF Reasons
  <2> HIDE DEF u
  <2>6. Sound(u, m, r)
    BY <2>3, <2>4, <2>5 DEF Sound, Alike, Listed, Limited, RetriesLead
  <2> QED BY <2>1, <2>3, <2>4, <2>6
<1> QED BY <1>1, <1>2

\* A buffer at the tail of a list.
LEMMA Appended ==
  ASSUME NEW S, NEW s \in Seq(S), NEW n \in S
  PROVE  LET w == Append(s, n)
         IN /\ w \in Seq(S) /\ Len(w) = Len(s) + 1 /\ w # <<>> /\ w[Len(s) + 1] = n
            /\ \A i \in 1..Len(s) : w[i] = s[i]
  BY AppendProperties

\* A fresh buffer joins at the tail.
LEMMA EnqueueGood ==
  ASSUME NEW m \in Nat, NEW r \in Nat, NEW t \in Queue, Sound(t, m, r),
         NEW n \in 1..MaxMade, n <= m, \A i \in DOMAIN t.sk_list : t.sk_list[i] # n
  PROVE  LET u == Enqueue(t, n, FALSE)
         IN /\ u \in Queue /\ Sound(u, m, r) /\ u.active = t.active /\ u.status = t.status
            /\ u.linked = t.linked /\ u.push_limit = t.push_limit
            /\ u.sk_list # <<>> /\ Len(u.sk_list) = Len(t.sk_list) + 1
            /\ \A i \in DOMAIN u.sk_list : u.sk_list[i] = n \/ \E j \in DOMAIN t.sk_list : u.sk_list[i] = t.sk_list[j]
<1> DEFINE w == Append(t.sk_list, n)
           u == [t EXCEPT !.sk_list = w]
<1>1. Enqueue(t, n, FALSE) = u
  BY DEF Enqueue
<1>2. t.sk_list \in Seq(1..MaxMade) /\ Len(t.sk_list) \in Nat /\ DOMAIN t.sk_list = 1..Len(t.sk_list)
  BY LenProperties DEF Queue
<1>3. /\ w \in Seq(1..MaxMade) /\ Len(w) = Len(t.sk_list) + 1 /\ w # <<>>
      /\ w[Len(t.sk_list) + 1] = n /\ \A i \in 1..Len(t.sk_list) : w[i] = t.sk_list[i]
  BY <1>2, Appended
<1>4. DOMAIN w = 1..(Len(t.sk_list) + 1)
  BY <1>3, LenProperties
<1> HIDE DEF w
<1>5. /\ u \in Queue /\ u.active = t.active /\ u.status = t.status /\ u.linked = t.linked
      /\ u.push_limit = t.push_limit /\ u.credits = t.credits /\ u.nb_retry = t.nb_retry
      /\ u.last_retry = t.last_retry /\ u.sk_list = w
  BY <1>3 DEF Queue
<1> HIDE DEF u
<1>6. \A i \in DOMAIN w : i = Len(t.sk_list) + 1 \/ i \in 1..Len(t.sk_list)
  BY <1>2, <1>4
<1>7. Distinct(t.sk_list) /\ \A i \in DOMAIN t.sk_list : t.sk_list[i] <= m
  BY DEF Sound
<1>8. \A i \in DOMAIN w : w[i] <= m
  BY <1>2, <1>3, <1>6, <1>7
<1>9. Distinct(w)
  BY <1>2, <1>3, <1>6, <1>7 DEF Distinct
<1>10. t.active => RetriesLead(t)
  BY DEF Sound
<1>11. t.active => RetriesLead(u)
  <2>1. t.nb_retry \in Nat
    BY DEF Queue
  <2> QED BY <1>2, <1>3, <1>5, <1>10, <2>1 DEF RetriesLead
<1>12. t.active => u.push_limit <= Len(w)
  <2>1. t.push_limit \in Nat
    BY DEF Queue
  <2> QED BY <1>2, <1>3, <1>5, <2>1 DEF Sound
<1>13. Sound(u, m, r)
  BY <1>3, <1>5, <1>8, <1>9, <1>11, <1>12 DEF Sound, Listed, Limited
<1> QED BY <1>1, <1>2, <1>3, <1>5, <1>6, <1>13

\* s with n behind its first k elements.
WithAt(s, k, n) == SubSeq(s, 1, k) \o <<n>> \o SubSeq(s, k + 1, Len(s))

\* A buffer behind the first k of a list.
LEMMA Inserted ==
  ASSUME NEW S, NEW s \in Seq(S), NEW n \in S, NEW k \in 0..Len(s)
  PROVE  LET w == WithAt(s, k, n)
         IN /\ w \in Seq(S) /\ Len(w) = Len(s) + 1 /\ w[k + 1] = n
            /\ \A i \in 1..Len(w) : IF i <= k THEN w[i] = s[i]
                                     ELSE i # k + 1 => w[i] = s[i - 1]
<1>1. Len(s) \in Nat /\ k \in Nat /\ k <= Len(s)
  BY LenProperties
<1> DEFINE a == SubSeq(s, 1, k)
           b == SubSeq(s, k + 1, Len(s))
<1>2. a \in Seq(S) /\ Len(a) = k /\ \A i \in 1..k : a[i] = s[i]
  BY <1>1
<1>3. b \in Seq(S) /\ Len(b) = Len(s) - k /\ \A i \in 1..(Len(s) - k) : b[i] = s[k + i]
  BY <1>1
<1> HIDE DEF a, b
<1>4. a \o <<n>> \in Seq(S) /\ Len(a \o <<n>>) = k + 1 /\ (a \o <<n>>)[k + 1] = n
      /\ \A i \in 1..k : (a \o <<n>>)[i] = s[i]
  BY <1>1, <1>2
<1> DEFINE c == a \o <<n>>
           w == c \o b
<1> HIDE DEF c
<1>5. c \in Seq(S) /\ Len(c) = k + 1 /\ c[k + 1] = n /\ \A i \in 1..k : c[i] = s[i]
  BY <1>4 DEF c
<1>6. /\ w \in Seq(S) /\ Len(w) = Len(s) + 1
      /\ \A i \in 1..Len(w) : w[i] = IF i <= k + 1 THEN c[i] ELSE b[i - (k + 1)]
  <2>1. /\ w \in Seq(S) /\ Len(w) = Len(c) + Len(b)
        /\ \A i \in 1..Len(c) + Len(b) : w[i] = IF i <= Len(c) THEN c[i] ELSE b[i - Len(c)]
    BY <1>3, <1>5, ConcatProperties
  <2>2. Len(c) + Len(b) = Len(s) + 1
    BY <1>1, <1>3, <1>5
  <2> HIDE DEF w
  <2> QED BY <1>5, <2>1, <2>2
<1> HIDE DEF w
<1>7. w[k + 1] = n
  BY <1>1, <1>5, <1>6
<1>8. ASSUME NEW i \in 1..Len(w)
      PROVE  IF i <= k THEN w[i] = s[i] ELSE i # k + 1 => w[i] = s[i - 1]
  <2>1. CASE i <= k
    BY <1>1, <1>5, <1>6, <2>1
  <2>2. CASE i > k + 1
    <3>1. i - (k + 1) \in 1..(Len(s) - k) /\ k + (i - (k + 1)) = i - 1
      BY <1>1, <1>6, <2>2
    <3>2. b[i - (k + 1)] = s[i - 1]
      BY <1>3, <3>1
    <3> QED BY <1>1, <1>6, <2>2, <3>2
  <2>3. CASE i = k + 1
    BY <1>1, <2>3
  <2> QED BY <1>1, <1>6, <2>1, <2>2, <2>3
<1>9. w = WithAt(s, k, n)
  BY DEF w, c, a, b, WithAt
<1> QED BY <1>6, <1>7, <1>8, <1>9

\* A retry joins behind the last retry; the credit it brings stays within a signed byte.
LEMMA RetryGood ==
  ASSUME NEW m \in Nat, NEW r \in Nat, NEW t \in Queue, Sound(t, m, r), t.active,
         Credits + (r + 1) <= 127,
         NEW n \in 1..MaxMade, n <= m, \A i \in DOMAIN t.sk_list : t.sk_list[i] # n
  PROVE  LET u == rwnx_tx_retry(t, n)
         IN /\ u \in Queue /\ Sound(u, m, r + 1) /\ u.active /\ u.status = t.status
            /\ u.linked = t.linked /\ u.push_limit = t.push_limit
            /\ u.sk_list # <<>> /\ Len(u.sk_list) = Len(t.sk_list) + 1
            /\ \A i \in DOMAIN u.sk_list : u.sk_list[i] = n \/ \E j \in DOMAIN t.sk_list : u.sk_list[i] = t.sk_list[j]
<1> DEFINE s == t.sk_list
           k == IF t.last_retry = 0 THEN 0 ELSE CHOOSE i \in DOMAIN s : s[i] = t.last_retry
           w == WithAt(s, k, n)
           v == [t EXCEPT !.sk_list = w, !.last_retry = n, !.nb_retry = @ + 1]
           u == rwnx_tx_retry(t, n)
<1>1. Enqueue(t, n, TRUE) = v
  BY DEF Enqueue, WithAt
<1>2. /\ s \in Seq(1..MaxMade) /\ Len(s) \in Nat /\ DOMAIN s = 1..Len(s)
      /\ t.nb_retry \in Nat /\ t.credits \in Int /\ t.push_limit \in Nat /\ Credits \in Nat /\ Credits >= 1
  BY LenProperties, TxqAssumption DEF Queue
<1>3. /\ t.nb_retry <= Len(s) /\ (t.nb_retry = 0) = (t.last_retry = 0)
      /\ t.nb_retry > 0 => s[t.nb_retry] = t.last_retry
  BY DEF Sound, RetriesLead
<1>4. Distinct(s) /\ (\A i \in DOMAIN s : s[i] <= m)
      /\ Credits <= t.credits /\ t.credits <= Credits + r /\ t.nb_retry <= r
  BY DEF Sound
<1>5. k = t.nb_retry
  <2>1. CASE t.last_retry = 0
    BY <1>2, <1>3, <2>1
  <2>2. CASE t.last_retry # 0
    <3>1. t.nb_retry \in DOMAIN s /\ s[t.nb_retry] = t.last_retry
      BY <1>2, <1>3, <2>2
    <3>2. \A i \in DOMAIN s : s[i] = t.last_retry => i = t.nb_retry
      BY <1>4, <3>1 DEF Distinct
    <3>3. k = CHOOSE i \in DOMAIN s : s[i] = t.last_retry
      BY <2>2
    <3> QED BY <3>1, <3>2, <3>3
  <2> QED BY <2>1, <2>2
<1> HIDE DEF k
<1>6. k \in 0..Len(s)
  BY <1>2, <1>3, <1>5
<1>7. /\ w \in Seq(1..MaxMade) /\ Len(w) = Len(s) + 1 /\ w[k + 1] = n
      /\ \A i \in 1..Len(w) : IF i <= k THEN w[i] = s[i] ELSE i # k + 1 => w[i] = s[i - 1]
  <2>1. s \in Seq(1..MaxMade) /\ n \in 1..MaxMade /\ k \in 0..Len(s)
    BY <1>2, <1>6
  <2> DEFINE S == 1..MaxMade
  <2>2. s \in Seq(S) /\ n \in S
    BY <2>1
  <2> HIDE DEF s, S, v, w
  <2>3. LET x == WithAt(s, k, n)
        IN /\ x \in Seq(S) /\ Len(x) = Len(s) + 1 /\ x[k + 1] = n
           /\ \A i \in 1..Len(x) : IF i <= k THEN x[i] = s[i]
                                    ELSE i # k + 1 => x[i] = s[i - 1]
    BY ONLY <2>1, <2>2, Inserted
  <2> QED BY <2>3 DEF S, w
<1>8. DOMAIN w = 1..Len(w) /\ w # <<>>
  BY <1>2, <1>7, LenProperties
<1> HIDE DEF w
<1>9. s8(t.credits + 1) = t.credits + 1
  BY <1>2, <1>4 DEF s8
<1>10. /\ u \in Queue /\ u.active /\ u.status = t.status /\ u.linked = t.linked
       /\ u.push_limit = t.push_limit /\ u.credits = t.credits + 1 /\ u.nb_retry = t.nb_retry + 1
       /\ u.last_retry = n /\ u.sk_list = w
  <2>1. n \in 0..MaxMade /\ t.nb_retry + 1 \in Nat /\ t.credits + 1 \in Int
    BY <1>2, TxqAssumption
  <2> DEFINE a == t.nb_retry + 1
             c == t.credits + 1
             x == [t EXCEPT !.sk_list = w, !.last_retry = n, !.nb_retry = a]
             y == [x EXCEPT !.credits = c]
  <2>2. v = x
    OBVIOUS
  <2>3. u = [v EXCEPT !.credits = s8(@ + 1)]
    BY <1>1 DEF rwnx_tx_retry
  <2>4. v.credits = t.credits
    BY DEF Queue
  <2>5. u = y
    BY <1>9, <2>2, <2>3, <2>4
  <2>6. a \in Nat /\ c \in Int
    BY <2>1
  <2> HIDE DEF a, c, v, u
  <2>7. x \in Queue /\ x.active /\ x.status = t.status /\ x.linked = t.linked
        /\ x.push_limit = t.push_limit /\ x.nb_retry = a /\ x.last_retry = n /\ x.sk_list = w
    BY <1>7, <2>1, <2>6 DEF Queue
  <2> HIDE DEF x
  <2>8. y \in Queue /\ y.active /\ y.status = t.status /\ y.linked = t.linked /\ y.credits = c
        /\ y.push_limit = t.push_limit /\ y.nb_retry = a /\ y.last_retry = n /\ y.sk_list = w
    BY <2>6, <2>7 DEF Queue
  <2> HIDE DEF y
  <2> QED BY <2>5, <2>8 DEF a, c
<1> HIDE DEF u
<1>11. \A i \in 1..Len(w) : i = k + 1 \/ (i \in 1..Len(s) /\ i <= k /\ w[i] = s[i])
                              \/ (i - 1 \in 1..Len(s) /\ i - 1 > k - 1 /\ i > k + 1 /\ w[i] = s[i - 1])
  BY <1>2, <1>6, <1>7
<1>12. \A i \in 1..Len(w) : w[i] = n \/ \E j \in DOMAIN s : w[i] = s[j]
  BY <1>2, <1>7, <1>11
<1>13. \A i \in 1..Len(w) : w[i] <= m
  BY <1>4, <1>12
<1>14. Distinct(w)
  <2>1. SUFFICES ASSUME NEW i \in 1..Len(w), NEW j \in 1..Len(w), w[i] = w[j] PROVE i = j
    BY <1>8 DEF Distinct
  <2>2. i \in Int /\ j \in Int /\ k \in Int
    BY <1>2, <1>6, <1>7
  <2>3. CASE i = k + 1
    <3>1. \A l \in DOMAIN s : s[l] # w[j]
      BY <1>7, <2>1, <2>3
    <3> QED BY <1>2, <1>11, <2>3, <3>1
  <2>4. CASE j = k + 1
    <3>1. \A l \in DOMAIN s : s[l] # w[i]
      BY <1>7, <2>1, <2>4
    <3> QED BY <1>2, <1>11, <2>4, <3>1
  <2>5. CASE i # k + 1 /\ j # k + 1
    <3> DEFINE I == IF i <= k THEN i ELSE i - 1
               J == IF j <= k THEN j ELSE j - 1
    <3>a. \A l \in 1..Len(w) : l # k + 1 =>
            LET L == IF l <= k THEN l ELSE l - 1 IN L \in DOMAIN s /\ w[l] = s[L]
      <4>1. SUFFICES ASSUME NEW l \in 1..Len(w), l # k + 1
                     PROVE  LET L == IF l <= k THEN l ELSE l - 1 IN L \in DOMAIN s /\ w[l] = s[L]
        OBVIOUS
      <4>2. l \in Int /\ k \in Int
        BY <2>2
      <4>3. CASE l <= k
        BY <1>2, <1>11, <4>1, <4>2, <4>3
      <4>4. CASE ~(l <= k)
        BY <1>2, <1>11, <4>1, <4>2, <4>4
      <4> QED BY <4>3, <4>4
    <3>1. I \in DOMAIN s /\ J \in DOMAIN s /\ w[i] = s[I] /\ w[j] = s[J]
      BY <2>5, <3>a
    <3>2. I = J
      BY <1>4, <2>1, <3>1 DEF Distinct
    <3> QED BY <2>2, <2>5, <3>2
  <2> QED BY <2>3, <2>4, <2>5
<1>15. RetriesLead(u)
  <2>1. n # 0
    OBVIOUS
  <2> QED BY <1>2, <1>3, <1>5, <1>7, <1>10, <2>1 DEF RetriesLead
<1>16. Sound(u, m, r + 1)
  <2>1. /\ t.linked = (IF Listed(t) THEN 1 ELSE 0)
        /\ t.push_limit > 0 => "STA_PS" \in t.status
        /\ t.push_limit <= Len(s) /\ t.push_limit <= t.credits
        /\ "interrupt" \notin allow => Limited(t)
    BY DEF Sound
  <2>2. /\ Credits <= u.credits /\ u.credits <= Credits + (r + 1) /\ u.nb_retry <= r + 1
        /\ u.push_limit <= Len(w) /\ u.push_limit <= u.credits
    <3>1. \A c \in Int : Credits <= c /\ c <= Credits + r => Credits <= c + 1 /\ c + 1 <= Credits + (r + 1)
      BY <1>2
    <3>2. \A a, b \in Int : a <= b => a <= b + 1
      OBVIOUS
    <3>3. Len(s) \in Int /\ t.push_limit \in Int
      BY <1>2
    <3>4. u.push_limit <= Len(w)
      BY <1>7, <1>10, <2>1, <3>2, <3>3
    <3>5. u.push_limit <= u.credits
      BY <1>2, <1>10, <2>1, <3>2, <3>3
    <3>6. u.nb_retry <= r + 1
      BY <1>2, <1>4, <1>10, <3>2
    <3> QED BY <1>2, <1>4, <1>10, <3>1, <3>4, <3>5, <3>6
  <2> QED BY <1>8, <1>10, <1>13, <1>14, <1>15, <2>1, <2>2 DEF Sound, Listed, Limited
<1>17. Len(w) = Len(t.sk_list) + 1 /\ \A i \in DOMAIN w : w[i] = n \/ \E j \in DOMAIN t.sk_list : w[i] = t.sk_list[j]
  BY <1>7, <1>8, <1>12
<1> QED BY <1>8, <1>10, <1>16, <1>17 DEF u

\* What is left of a list without its first n buffers.
LEMMA Suffix ==
  ASSUME NEW S, NEW s \in Seq(S), NEW n \in 0..Len(s)
  PROVE  LET w == SubSeq(s, n + 1, Len(s))
         IN /\ w \in Seq(S) /\ Len(w) = Len(s) - n
            /\ \A i \in 1..Len(w) : n + i \in 1..Len(s) /\ w[i] = s[n + i]
<1>1. Len(s) \in Nat
  BY LenProperties
<1> DEFINE w == SubSeq(s, n + 1, Len(s))
<1>2. w \in Seq(S) /\ Len(w) = Len(s) - n /\ \A i \in 1..(Len(s) - n) : w[i] = s[n + i]
  BY <1>1
<1> HIDE DEF w
<1>3. \A i \in 1..(Len(s) - n) : n + i \in 1..Len(s)
  BY <1>1
<1> QED BY <1>2, <1>3 DEF w

\* What a pass takes from a queue: all that its limit allows, and there is no rest.
LEMMA PushedIs ==
  ASSUME NEW m, NEW r, NEW t \in Queue, Sound(t, m, r), ~t.active => t.push_limit = 0
  PROVE  /\ Pushed(t) \in 0..Len(t.sk_list) /\ Len(t.sk_list) \in Nat /\ Rest(t) = 0
         /\ ~t.active => Pushed(t) = 0
         /\ t.active /\ t.push_limit > 0 => Pushed(t) = t.push_limit /\ txq_empty(t)
         /\ t.active /\ t.push_limit = 0 => IF txq_empty(t) THEN Pushed(t) = Len(t.sk_list)
                                                            ELSE Pushed(t) < Len(t.sk_list)
<1> DEFINE l == Len(t.sk_list)
           g == rwnx_txq_get_credits(t)
           M == Max({g, 0})
<1>1. /\ l \in Nat /\ t.credits \in Int /\ t.push_limit \in Nat /\ Credits \in Nat /\ Credits >= 1
      /\ t.credits >= Credits
  BY LenProperties, TxqAssumption DEF Queue, Sound
<1>2. t.active => t.push_limit <= l /\ t.push_limit <= t.credits
  BY DEF Sound
<1>3. g = IF t.push_limit > 0 /\ t.credits > t.push_limit THEN t.push_limit ELSE t.credits
  BY DEF rwnx_txq_get_credits
<1>4. g \in Int /\ g >= 1 /\ (t.active /\ t.push_limit > 0 => g = t.push_limit)
      /\ (t.push_limit = 0 => g = t.credits)
  BY <1>1, <1>2, <1>3
<1>5. txq_empty(t) <=> g >= l \/ (t.push_limit > 0 /\ g = t.push_limit)
  BY DEF txq_empty
<1>6. Pushed(t) = IF t.active THEN Min({l, M}) ELSE 0
  BY DEF Pushed
<1>7. Rest(t) = Max({t.push_limit - Pushed(t), 0})
  BY DEF Rest
<1> HIDE DEF g, l
<1>8. M = g
  BY <1>4, MinMax
<1>9. Min({l, g}) = IF l <= g THEN l ELSE g
  BY <1>1, <1>4, MinMax
<1>10. Pushed(t) = IF t.active THEN (IF l <= g THEN l ELSE g) ELSE 0
  BY <1>6, <1>8, <1>9
<1>11. Pushed(t) \in 0..l /\ (~t.active => Pushed(t) = 0)
  BY <1>1, <1>4, <1>10
<1>12. t.active /\ t.push_limit > 0 => Pushed(t) = t.push_limit /\ txq_empty(t)
  BY <1>1, <1>2, <1>4, <1>5, <1>10
<1>13. t.push_limit - Pushed(t) <= 0 /\ t.push_limit - Pushed(t) \in Int
  BY <1>1, <1>11, <1>12
<1>14. Rest(t) = 0
  <2>1. PICK a \in Int : a = t.push_limit - Pushed(t)
    BY <1>13
  <2>2. a <= 0
    BY <1>13, <2>1
  <2>3. 0 \in Int /\ Max({a, 0}) = IF a <= 0 THEN 0 ELSE a
    BY MinMax
  <2> QED BY <1>7, <2>1, <2>2, <2>3
<1>15. t.active /\ t.push_limit = 0 => IF txq_empty(t) THEN Pushed(t) = l ELSE Pushed(t) < l
  BY <1>1, <1>4, <1>5, <1>10
<1> QED BY <1>1, <1>11, <1>12, <1>14, <1>15 DEF l

\* One queue of the list after a pass.
LEMMA PassGood ==
  ASSUME NEW m, NEW r \in Nat, NEW q, NEW t, Good(t, m, r), Listed(t), ~t.active => t.push_limit = 0
  PROVE  LET u == AfterPass(q, t)
         IN /\ Good(u, m, r) /\ u.active = t.active /\ u.push_limit = 0
            /\ ~u.active => ~Listed(u) /\ u.sk_list = <<>>
            /\ "STA_PS" \in u.status <=> "STA_PS" \in t.status
            /\ t.active => /\ Len(u.sk_list) = Len(t.sk_list) - Pushed(t)
                           /\ \A i \in DOMAIN u.sk_list : Pushed(t) + i \in DOMAIN t.sk_list
                                                          /\ u.sk_list[i] = t.sk_list[Pushed(t) + i]
<1> DEFINE n == Pushed(t)
           s == t.sk_list
           w == SubSeq(s, n + 1, Len(s))
           d == rwnx_txq_del_from_hw_list(t)
           u == AfterPass(q, t)
<1>1. t \in Queue /\ Sound(t, m, r) /\ (Ready(t) => Listed(t))
  BY DEF Good
<1>2. t.linked = 1 /\ t.linked = IF Listed(t) THEN 1 ELSE 0
  BY <1>1 DEF Sound
<1>3. /\ d \in Queue /\ Alike(d, t) /\ d.linked = 0 /\ ~Listed(d)
      /\ d.status = t.status \ {"IN_HWQ_LIST"}
  BY <1>1, <1>2, DelIs
<1> HIDE DEF d
<1>4. CASE ~t.active
  <2>1. u = [d EXCEPT !.sk_list = <<>>]
    BY <1>4 DEF AfterPass, d
  <2>2. <<>> \in Seq(1..MaxMade) /\ DOMAIN <<>> = {}
    OBVIOUS
  <2>3. /\ u \in Queue /\ u.active = d.active /\ u.linked = 0 /\ u.status = d.status /\ u.sk_list = <<>>
        /\ u.credits = d.credits /\ u.nb_retry = d.nb_retry /\ u.push_limit = d.push_limit
    BY <1>3, <2>1, <2>2 DEF Queue
  <2> HIDE DEF u
  <2>4. ~Listed(u) /\ ("STA_PS" \in u.status <=> "STA_PS" \in t.status)
    BY <1>3, <2>3 DEF Listed
  <2>5. Sound(u, m, r)
    BY <1>1, <1>3, <1>4, <2>2, <2>3, <2>4 DEF Sound, Alike, Distinct, Limited
  <2> QED BY <1>3, <1>4, <2>3, <2>4, <2>5 DEF Good, Ready, Alike, u
<1>5. CASE t.active
  <2> DEFINE b == IF txq_empty(t) THEN d ELSE t
             nb == Max({t.nb_retry - n, 0})
             la == IF t.nb_retry <= n THEN 0 ELSE t.last_retry
             st == IF Wakes(t) THEN b.status \ {"NDEV_FLOW_CTRL"} ELSE b.status
  <2>1. /\ s \in Seq(1..MaxMade) /\ Len(s) \in Nat /\ DOMAIN s = 1..Len(s) /\ n \in 0..Len(s)
        /\ t.nb_retry \in Nat /\ t.last_retry \in 0..MaxMade
    BY <1>1, <1>5, PushedIs, LenProperties DEF Queue
  <2>2. /\ w \in Seq(1..MaxMade) /\ Len(w) = Len(s) - n
        /\ \A i \in 1..Len(w) : n + i \in 1..Len(s) /\ w[i] = s[n + i]
    <3> DEFINE S == 1..MaxMade
    <3>1. s \in Seq(S)
      BY <2>1
    <3> HIDE DEF S, s, n
    <3>2. LET x == SubSeq(s, n + 1, Len(s))
          IN /\ x \in Seq(S) /\ Len(x) = Len(s) - n
             /\ \A i \in 1..Len(x) : n + i \in 1..Len(s) /\ x[i] = s[n + i]
      BY ONLY <2>1, <3>1, Suffix
    <3> QED BY <3>2 DEF S
  <2>3. DOMAIN w = 1..Len(w) /\ Len(w) \in Nat
    BY <2>2, LenProperties
  <2>4. nb = IF t.nb_retry <= n THEN 0 ELSE t.nb_retry - n
    <3> HIDE DEF n
    <3>1. PICK a \in Int : a = t.nb_retry - n
      BY <2>1
    <3>2. Max({a, 0}) = IF a <= 0 THEN 0 ELSE a
      BY MinMax
    <3> QED BY <2>1, <3>1, <3>2
  <2>5. b \in Queue /\ Alike(b, t)
    BY <1>1, <1>3 DEF Alike
  <2>6. b.status = (IF txq_empty(t) THEN t.status \ {"IN_HWQ_LIST"} ELSE t.status)
        /\ b.linked = IF txq_empty(t) THEN 0 ELSE 1
    BY <1>2, <1>3
  <2>7. (IF PsOf(q) = "LEGACY" THEN 0 ELSE Rest(t)) = 0
    BY <1>1, <1>5, PushedIs
  <2>8. u = [b EXCEPT !.sk_list = SubSeq(@, n + 1, Len(@)), !.nb_retry = Max({@ - n, 0}),
                      !.last_retry = IF t.nb_retry <= n THEN 0 ELSE @,
                      !.push_limit = IF PsOf(q) = "LEGACY" THEN 0 ELSE Rest(t),
                      !.status = IF Wakes(t) THEN @ \ {"NDEV_FLOW_CTRL"} ELSE @]
    BY <1>5 DEF AfterPass, d
  <2>9. u = [b EXCEPT !.sk_list = w, !.nb_retry = nb, !.last_retry = la, !.push_limit = 0, !.status = st]
    <3> HIDE DEF b, u
    <3>1. b.sk_list = s /\ b.nb_retry = t.nb_retry /\ b.last_retry = t.last_retry
      BY <2>5 DEF Alike
    <3> QED BY <2>7, <2>8, <3>1
  <2>10. /\ nb \in Nat /\ la \in 0..MaxMade /\ st \in SUBSET Flags
    <3>1. nb \in Nat
      <4> HIDE DEF n, nb
      <4> QED BY <2>1, <2>4
    <3>2. la \in 0..MaxMade
      BY <2>1, TxqAssumption
    <3>3. st \in SUBSET Flags
      <4> HIDE DEF b
      <4> QED BY <2>5 DEF Queue
    <3> QED BY <3>1, <3>2, <3>3
  <2>11. \A x \in Reasons \cup {"IN_HWQ_LIST"} : x \in st <=> x \in b.status
    BY DEF Reasons
  <2> HIDE DEF b, nb, la, st, w, u
  <2>12. /\ u \in Queue /\ u.active = b.active /\ u.linked = b.linked /\ u.status = st
         /\ u.sk_list = w /\ u.credits = b.credits /\ u.nb_retry = nb /\ u.last_retry = la
         /\ u.push_limit = 0
    BY <2>2, <2>5, <2>9, <2>10 DEF Queue
  <2>13. /\ Listed(u) <=> ~txq_empty(t)
         /\ "STA_PS" \in u.status <=> "STA_PS" \in t.status
         /\ rwnx_txq_is_stopped(u) <=> rwnx_txq_is_stopped(t)
    <3>1. \A x \in Reasons \cup {"IN_HWQ_LIST"} : x \in u.status <=> x \in b.status
      BY <2>11, <2>12
    <3>2. \A x \in Reasons : x \in b.status <=> x \in t.status
      BY <2>6 DEF Reasons
    <3>3. "IN_HWQ_LIST" \in b.status <=> ~txq_empty(t)
      BY <2>6 DEF Listed
    <3>4. \A x \in Reasons : x \in u.status <=> x \in t.status
      BY <3>1, <3>2
    <3> QED BY <3>1, <3>3, <3>4 DEF Listed, Reasons, rwnx_txq_is_stopped
  <2>14. /\ t.push_limit > 0 => txq_empty(t)
         /\ t.push_limit = 0 => IF txq_empty(t) THEN n = Len(s) ELSE n < Len(s)
         /\ t.push_limit \in Nat
    BY <1>1, <1>5, PushedIs DEF Queue
  <2>15. Listed(u) => w # <<>>
    <3>1. Listed(u) => Len(w) > 0
      BY <2>1, <2>2, <2>13, <2>14
    <3> QED BY <3>1
  <2>16. Ready(u) => Listed(u)
    <3>1. SUFFICES ASSUME txq_empty(t), ~rwnx_txq_is_stopped(t) PROVE w = <<>>
      BY <2>12, <2>13 DEF Ready
    <3>2. "STA_PS" \notin t.status
      BY <3>1 DEF rwnx_txq_is_stopped, Reasons
    <3>3. t.push_limit = 0
      BY <1>1, <2>14, <3>2 DEF Sound
    <3>4. Len(w) = 0
      BY <2>1, <2>2, <2>14, <3>1, <3>3
    <3> QED BY <2>2, <3>4, EmptySeq
  <2>17. Distinct(w) /\ \A i \in DOMAIN w : w[i] <= m
    <3>1. Distinct(s) /\ \A i \in DOMAIN s : s[i] <= m
      BY <1>1 DEF Sound
    <3>2. \A i \in DOMAIN w : n + i \in DOMAIN s /\ w[i] = s[n + i]
      BY <2>1, <2>2, <2>3
    <3>3. \A i, j \in DOMAIN w : n + i = n + j => i = j
      BY <2>1, <2>3
    <3> QED BY <3>1, <3>2, <3>3 DEF Distinct
  <2>18. nb <= Len(w) /\ (nb = 0) = (la = 0) /\ (nb > 0 => w[nb] = la) /\ nb <= t.nb_retry
    <3>1. RetriesLead(t)
      BY <1>1, <1>5 DEF Sound
    <3>2. la = IF t.nb_retry <= n THEN 0 ELSE t.last_retry
      BY DEF la
    <3>3. CASE t.nb_retry <= n
      BY <2>1, <2>3, <2>4, <3>2, <3>3
    <3>4. CASE ~(t.nb_retry <= n)
      <4>1. nb = t.nb_retry - n /\ la = t.last_retry /\ nb > 0 /\ t.nb_retry > 0
        BY <2>1, <2>4, <3>2, <3>4
      <4>2. t.nb_retry <= Len(s) /\ la # 0 /\ s[t.nb_retry] = la
        BY <2>1, <3>1, <4>1 DEF RetriesLead
      <4>3. nb \in 1..Len(w) /\ n + nb = t.nb_retry
        BY <2>1, <2>2, <4>1, <4>2
      <4>4. w[nb] = s[t.nb_retry]
        BY <2>2, <4>3
      <4> QED BY <2>1, <4>1, <4>2, <4>3, <4>4
    <3> QED BY <3>3, <3>4
  <2>19. Sound(u, m, r)
    <3>1. RetriesLead(u)
      BY <2>12, <2>18 DEF RetriesLead
    <3>2. u.linked = IF Listed(u) THEN 1 ELSE 0
      BY <2>6, <2>12, <2>13
    <3>3. Credits <= u.credits /\ u.credits <= Credits + r
      BY <1>1, <2>5, <2>12 DEF Sound, Alike
    <3>4. u.nb_retry <= r
      <4>1. t.nb_retry <= r /\ t.nb_retry \in Int /\ nb \in Int
        BY <1>1, <2>1, <2>10 DEF Sound
      <4> QED BY <2>12, <2>18, <4>1
    <3>5. 0 <= Len(w) /\ 0 <= u.credits
      <4>1. u.credits \in Int /\ Len(w) \in Nat /\ Credits \in Nat
        BY <2>3, <2>12, TxqAssumption DEF Queue
      <4> QED BY <3>3, <4>1
    <3>6. "interrupt" \notin allow => Limited(u)
      <4>1. Listed(u) => t.push_limit = 0 /\ Listed(t)
        BY <2>13, <2>14
      <4> QED BY <1>1, <2>13, <4>1 DEF Sound, Limited
    <3> QED BY <2>12, <2>15, <2>17, <3>1, <3>2, <3>3, <3>4, <3>5, <3>6 DEF Sound
  <2>20. u.active = t.active
    BY <2>5, <2>12 DEF Alike
  <2>21. Good(u, m, r)
    BY <2>12, <2>16, <2>19 DEF Good
  <2> QED BY <1>5, <2>1, <2>2, <2>3, <2>12, <2>13, <2>20, <2>21 DEF u
<1> QED BY <1>4, <1>5

\* A queue as rwnx_txq_init leaves it.
LEMMA FreshGood ==
  ASSUME NEW m \in Nat, NEW r \in Nat, NEW st \in SUBSET Reasons
  PROVE  LET u == Fresh(st)
         IN /\ Good(u, m, r) /\ u.active /\ u.status = st /\ u.sk_list = <<>> /\ u.push_limit = 0
            /\ ~Listed(u)
<1> DEFINE u == Fresh(st)
<1>1. <<>> \in Seq(1..MaxMade) /\ DOMAIN <<>> = {} /\ Len(<<>>) = 0
  OBVIOUS
<1>2. st \in SUBSET Flags /\ "IN_HWQ_LIST" \notin st
  BY DEF Flags, Reasons
<1>3. Credits \in Int /\ 0 <= Credits /\ Credits <= Credits + r /\ 0 \in 0..MaxMade
  BY TxqAssumption
<1>4. /\ u \in Queue /\ u.active /\ u.status = st /\ u.linked = 0 /\ u.sk_list = <<>>
      /\ u.credits = Credits /\ u.nb_retry = 0 /\ u.last_retry = 0 /\ u.push_limit = 0
  BY <1>1, <1>2, <1>3 DEF Fresh, Queue
<1> HIDE DEF u
<1>5. Sound(u, m, r)
  BY <1>1, <1>2, <1>3, <1>4 DEF Sound, Listed, Limited, RetriesLead, Distinct
<1> QED BY <1>2, <1>4, <1>5 DEF Good, Ready, Listed, u

\* A queue with a buffer that is not stopped, or has a limit, joins its list.
LEMMA LinkGood ==
  ASSUME NEW m, NEW r, NEW t \in Queue, Sound(t, m, r), t.sk_list # <<>>,
         rwnx_txq_is_stopped(t) => t.push_limit > 0
  PROVE  LET u == rwnx_txq_add_to_hw_list(t)
         IN /\ Good(u, m, r) /\ Alike(u, t) /\ Listed(u) /\ u.linked = 1
            /\ \A x \in Reasons : x \in u.status <=> x \in t.status
<1> DEFINE u == rwnx_txq_add_to_hw_list(t)
<1>1. CASE Listed(t)
  <2>1. u = t
    BY <1>1 DEF rwnx_txq_add_to_hw_list, Listed
  <2> QED BY <1>1, <2>1 DEF Good, Alike, Sound
<1>2. CASE ~Listed(t)
  <2>1. t.linked = 0
    BY <1>2 DEF Sound
  <2>2. /\ u \in Queue /\ Alike(u, t) /\ u.linked = 1 /\ Listed(u)
        /\ u.status = t.status \cup {"IN_HWQ_LIST"}
    BY <1>2, <2>1, AddIs
  <2> HIDE DEF u
  <2>3. \A x \in Reasons : x \in u.status <=> x \in t.status
    BY <2>2 DEF Reasons
  <2>4. "STA_PS" \in Reasons
    BY DEF Reasons
  <2>5. "STA_PS" \in t.status => t.push_limit > 0
    BY <2>4 DEF rwnx_txq_is_stopped
  <2>6. Sound(u, m, r)
    BY <2>2, <2>3, <2>4, <2>5 DEF Sound, Alike, Limited, RetriesLead
  <2> QED BY <2>2, <2>3, <2>6 DEF Good, u
<1> QED BY <1>1, <1>2

\* A service period lets a queue push g buffers.
LEMMA GrantGood ==
  ASSUME NEW m, NEW r, NEW t, Good(t, m, r), t.active, "STA_PS" \in t.status,
         NEW g \in Nat, g > 0, g <= Len(t.sk_list), g <= t.credits
  PROVE  LET u == rwnx_txq_add_to_hw_list([t EXCEPT !.push_limit = g])
         IN /\ Good(u, m, r) /\ u.active /\ u.sk_list = t.sk_list /\ u.push_limit = g
            /\ "STA_PS" \in u.status
<1> DEFINE v == [t EXCEPT !.push_limit = g]
<1>1. t \in Queue /\ Sound(t, m, r)
  BY DEF Good
<1>2. /\ v \in Queue /\ v.active = t.active /\ v.status = t.status /\ v.linked = t.linked
      /\ v.sk_list = t.sk_list /\ v.credits = t.credits /\ v.nb_retry = t.nb_retry
      /\ v.last_retry = t.last_retry /\ v.push_limit = g
  BY <1>1 DEF Queue
<1> HIDE DEF v
<1>3. Sound(v, m, r)
  BY <1>1, <1>2 DEF Sound, Listed, Limited, RetriesLead
<1>4. v.sk_list # <<>>
  BY <1>2
<1>5. "STA_PS" \in Reasons
  BY DEF Reasons
<1>6. LET u == rwnx_txq_add_to_hw_list(v)
      IN /\ Good(u, m, r) /\ Alike(u, v) /\ Listed(u)
         /\ \A x \in Reasons : x \in u.status <=> x \in v.status
  BY <1>2, <1>3, <1>4, LinkGood
<1> QED BY <1>2, <1>5, <1>6 DEF Alike, v

\* A queue is taken out of use (rwnx_txq_deinit).
LEMMA DeinitGood ==
  ASSUME NEW m, NEW r, NEW t, Good(t, m, r)
  PROVE  LET u == [rwnx_txq_del_from_hw_list(t) EXCEPT !.active = FALSE]
         IN /\ Good(u, m, r) /\ ~u.active /\ ~Listed(u) /\ u.sk_list = t.sk_list
            /\ u.push_limit = t.push_limit
<1> DEFINE d == rwnx_txq_del_from_hw_list(t)
           u == [d EXCEPT !.active = FALSE]
<1>1. t \in Queue /\ Sound(t, m, r) /\ t.linked = IF Listed(t) THEN 1 ELSE 0
  BY DEF Good, Sound
<1>2. /\ d \in Queue /\ Alike(d, t) /\ d.linked = 0 /\ ~Listed(d)
      /\ d.status = t.status \ {"IN_HWQ_LIST"}
  BY <1>1, DelIs
<1> HIDE DEF d
<1>3. /\ u \in Queue /\ ~u.active /\ u.status = d.status /\ u.linked = d.linked
      /\ u.sk_list = d.sk_list /\ u.credits = d.credits /\ u.nb_retry = d.nb_retry
      /\ u.push_limit = d.push_limit
  BY <1>2 DEF Queue
<1> HIDE DEF u
<1>4. ~Listed(u) /\ ("STA_PS" \in u.status <=> "STA_PS" \in t.status)
  BY <1>2, <1>3 DEF Listed
<1>5. Sound(u, m, r)
  BY <1>1, <1>2, <1>3, <1>4 DEF Sound, Alike, Limited
<1> QED BY <1>2, <1>3, <1>4, <1>5 DEF Good, Ready, Alike, u, d

\* A queue out of use is emptied (rwnx_txq_flush).
LEMMA FlushGood ==
  ASSUME NEW m, NEW r, NEW t, Good(t, m, r), ~t.active
  PROVE  LET u == [t EXCEPT !.sk_list = <<>>]
         IN /\ Good(u, m, r) /\ ~u.active /\ (Listed(u) <=> Listed(t)) /\ u.sk_list = <<>>
            /\ u.push_limit = t.push_limit
<1> DEFINE u == [t EXCEPT !.sk_list = <<>>]
<1>1. t \in Queue /\ Sound(t, m, r)
  BY DEF Good
<1>2. <<>> \in Seq(1..MaxMade) /\ DOMAIN <<>> = {}
  OBVIOUS
<1>3. /\ u \in Queue /\ ~u.active /\ u.status = t.status /\ u.linked = t.linked
      /\ u.sk_list = <<>> /\ u.credits = t.credits /\ u.nb_retry = t.nb_retry
      /\ u.push_limit = t.push_limit
  BY <1>1, <1>2 DEF Queue
<1> HIDE DEF u
<1>4. Sound(u, m, r)
  BY <1>1, <1>2, <1>3 DEF Sound, Listed, Limited, Distinct
<1> QED BY <1>3, <1>4 DEF Good, Ready, Listed, u

\* The firmware interrupts a service period: the limit is gone, the queue stays listed.
LEMMA InterruptGood ==
  ASSUME NEW m, NEW r, NEW t, Good(t, m, r), "interrupt" \in allow
  PROVE  LET u == [t EXCEPT !.push_limit = 0]
         IN /\ Good(u, m, r) /\ u.active = t.active /\ u.status = t.status /\ u.sk_list = t.sk_list
            /\ u.push_limit = 0
<1> DEFINE u == [t EXCEPT !.push_limit = 0]
<1>1. t \in Queue /\ Sound(t, m, r) /\ (Ready(t) => Listed(t))
  BY DEF Good
<1>2. /\ u \in Queue /\ u.active = t.active /\ u.status = t.status /\ u.linked = t.linked
      /\ u.sk_list = t.sk_list /\ u.credits = t.credits /\ u.nb_retry = t.nb_retry
      /\ u.last_retry = t.last_retry /\ u.push_limit = 0
  BY <1>1 DEF Queue
<1> HIDE DEF u
<1>3. 0 <= Len(t.sk_list) /\ 0 <= t.credits
  <2>1. t.credits \in Int /\ Credits \in Nat /\ Len(t.sk_list) \in Nat
    BY <1>1, TxqAssumption, LenProperties DEF Queue
  <2> QED BY <1>1, <2>1 DEF Sound
<1>4. Sound(u, m, r)
  BY <1>1, <1>2, <1>3 DEF Sound, Listed, Limited, RetriesLead
<1> QED BY <1>1, <1>2, <1>4 DEF Good, Ready, Listed, rwnx_txq_is_stopped, u
-----------------------------------------------------------------------------
(* A pass over the hardware queues' lists.                                  *)

\* Between the sections that hold the lock: queues t, power save state s, and buffers in the
\* firmware (g) and on the way to a queue (x).
Core(t, s, g, x, m, r) ==
  /\ t \in [TXQ -> Queue] /\ s \in PsState /\ g \subseteq Frame /\ x \subseteq Frame
  /\ m \in 0..MaxMade /\ r \in 0..MaxRetry
  /\ \A q \in TXQ : Good(t[q], m, r)
  /\ Placed(t, g, x, m) /\ Totals(t, s)

\* All queues of a sleeping peer are stopped.
Asleep(t, s) == s.active => \A q \in TXQ : t[q].active /\ "STA_PS" \in t[q].status

InactiveOff(t) == \A q \in TXQ : ~t[q].active => ~Listed(t[q])

PushedOf(t) == [q \in TXQ |-> Pushed(t[q])]
RestOf(t) == [q \in TXQ |-> Rest(t[q])]

\* A total of nothing over some of the queues is 0.
LEMMA TotalZeroOn ==
  ASSUME NEW f \in [TXQ -> Int], NEW S \in SUBSET TXQ, NEW p, \A q \in S : f[q] = 0
  PROVE  Total(f, S, p) = 0
<1> DEFINE A == {q \in S : PsOf(q) = p}
<1>1. A \in SUBSET TXQ /\ A \in SUBSET A /\ \A q \in A : f[q] = f[q] - (IF q \in A THEN f[q] ELSE 0)
  OBVIOUS
<1>2. SumFunctionOnSet(f, A) = SumFunctionOnSet(f, A) - SumFunctionOnSet(f, A)
      /\ SumFunctionOnSet(f, A) \in Int
  <2> HIDE DEF A
  <2> QED BY <1>1, QueuesFinite, SumLess, SumStep
<1> QED BY <1>2 DEF Total

\* Lengths and limits are numbers.
LEMMA CountsType ==
  ASSUME NEW t \in [TXQ -> Queue]
  PROVE  /\ Lengths(t) \in [TXQ -> Nat] /\ Limits(t) \in [TXQ -> Nat]
         /\ Lengths(t) \in [TXQ -> Int] /\ Limits(t) \in [TXQ -> Int]
         /\ \A q \in TXQ : Lengths(t)[q] = Len(t[q].sk_list) /\ Limits(t)[q] = t[q].push_limit
<1>1. \A q \in TXQ : t[q].sk_list \in Seq(1..MaxMade) /\ t[q].push_limit \in Nat
  BY DEF Queue
<1>2. \A q \in TXQ : Len(t[q].sk_list) \in Nat
  BY <1>1, LenProperties
<1> QED BY <1>1, <1>2 DEF Lengths, Limits

\* What a pass pushes, and what it leaves of a limit, are numbers.
LEMMA PushedType ==
  ASSUME NEW m, NEW r, NEW t \in Queue, Sound(t, m, r)
  PROVE  Pushed(t) \in Nat /\ Rest(t) \in Int
<1>1. Pushed(t) \in Nat
  <2>1. CASE t.active
    <3>1. Pushed(t) \in 0..Len(t.sk_list) /\ Len(t.sk_list) \in Nat
      BY <2>1, PushedIs
    <3> QED BY <3>1
  <2>2. CASE ~t.active
    BY <2>2 DEF Pushed
  <2> QED BY <2>1, <2>2
<1>2. PICK a \in Int : a = t.push_limit - Pushed(t)
  <2>1. t.push_limit \in Nat
    BY DEF Queue
  <2> QED BY <1>1, <2>1
<1>3. Rest(t) = IF a <= 0 THEN 0 ELSE a
  <2>1. Max({a, 0}) = IF a <= 0 THEN 0 ELSE a
    BY MinMax
  <2> QED BY <1>2, <2>1 DEF Rest
<1> QED BY <1>1, <1>3

\* The counters after a pass over the queues of S.
LEMMA CountsPass ==
  ASSUME NEW m, NEW r \in Nat, NEW t \in [TXQ -> Queue], \A q \in TXQ : Good(t[q], m, r),
         NEW s \in PsState, Asleep(t, s), Totals(t, s), NEW S \in SUBSET TXQ,
         \A q \in S : Listed(t[q]) /\ (~t[q].active => t[q].push_limit = 0),
         NEW u \in [TXQ -> Queue],
         \A q \in TXQ \ S : u[q] = t[q],
         \A q \in S : /\ u[q].push_limit = 0
                      /\ t[q].active => Len(u[q].sk_list) = Len(t[q].sk_list) - Pushed(t[q])
  PROVE  LET c == CountPushed(s, S, t)
         IN c \in PsState /\ c.active = s.active /\ Totals(u, c)
<1>0. \A q \in TXQ : t[q] \in Queue /\ Sound(t[q], m, r)
  BY DEF Good
<1>1. \A q \in S : /\ Rest(t[q]) = 0
                   /\ t[q].active /\ t[q].push_limit > 0 => Pushed(t[q]) = t[q].push_limit
  <2> SUFFICES ASSUME NEW q \in S
               PROVE  /\ Rest(t[q]) = 0
                      /\ t[q].active /\ t[q].push_limit > 0 => Pushed(t[q]) = t[q].push_limit
    OBVIOUS
  <2>1. PICK v : v = t[q]
    OBVIOUS
  <2>2. v \in Queue /\ Sound(v, m, r) /\ (~v.active => v.push_limit = 0)
    BY <1>0, <2>1
  <2>3. Rest(v) = 0 /\ (v.active /\ v.push_limit > 0 => Pushed(v) = v.push_limit)
    BY <2>2, PushedIs
  <2> QED BY <2>1, <2>3
<1>2. PushedOf(t) \in [TXQ -> Int] /\ RestOf(t) \in [TXQ -> Int]
  <2>1. \A q \in TXQ : Pushed(t[q]) \in Nat /\ Rest(t[q]) \in Int
    BY <1>0, PushedType
  <2> QED BY <2>1 DEF PushedOf, RestOf
<1>3. \A p \in PsIds : Total(RestOf(t), S, p) = 0
  <2>1. \A q \in S : RestOf(t)[q] = 0
    BY <1>1 DEF RestOf
  <2> QED BY <1>2, <2>1, TotalZeroOn
<1>4. PICK took \in [PsIds -> Int] :
        \A p \in PsIds : took[p] = IF s.active THEN Total(PushedOf(t), S, p) ELSE 0
  <2> DEFINE g == [p \in PsIds |-> IF s.active THEN Total(PushedOf(t), S, p) ELSE 0]
  <2>1. \A p \in PsIds : Total(PushedOf(t), S, p) \in Int
    BY <1>2, TotalInt
  <2>2. g \in [PsIds -> Int] /\ \A p \in PsIds : g[p] = IF s.active THEN Total(PushedOf(t), S, p) ELSE 0
    BY <2>1
  <2> QED BY <2>2
<1>5. PICK c : c = CountPushed(s, S, t)
  OBVIOUS
<1>6. /\ c.active = s.active
      /\ c = [s EXCEPT !.pkt_ready = c.pkt_ready, !.sp_cnt = c.sp_cnt, !.tim = c.tim]
      /\ c.pkt_ready = [p \in PsIds |-> s.pkt_ready[p] - took[p]]
      /\ c.sp_cnt = [p \in PsIds |-> s.sp_cnt[p] - took[p]]
      /\ c.tim \in [PsIds -> BOOLEAN]
  <2> DEFINE se(p) == IF s.active THEN Total([q \in TXQ |-> Pushed(t[q])], S, p) ELSE 0
             re(p) == IF p = "LEGACY" THEN Total([q \in TXQ |-> Rest(t[q])], S, p) ELSE 0
             a == [p \in PsIds |-> s.pkt_ready[p] - se(p)]
             b == [p \in PsIds |-> s.sp_cnt[p] - se(p) - re(p)]
             d == [p \in PsIds |-> s.tim[p] /\ (se(p) > 0 => s.pkt_ready[p] # se(p))]
  <2>1. c = [s EXCEPT !.pkt_ready = a, !.sp_cnt = b, !.tim = d]
    BY <1>5 DEF CountPushed
  <2>2. \A p \in PsIds : se(p) = took[p] /\ re(p) = 0
    BY <1>3, <1>4 DEF PushedOf, RestOf
  <2>3. \A p \in PsIds : s.sp_cnt[p] \in Int /\ took[p] \in Int /\ s.tim[p] \in BOOLEAN
    BY DEF PsState
  <2>4. a = [p \in PsIds |-> s.pkt_ready[p] - took[p]]
    <3> HIDE DEF se
    <3> QED BY <2>2
  <2>5. b = [p \in PsIds |-> s.sp_cnt[p] - took[p]]
    <3> HIDE DEF se, re
    <3>1. \A p \in PsIds : s.sp_cnt[p] - se(p) - re(p) = s.sp_cnt[p] - took[p]
      BY <2>2, <2>3
    <3> QED BY <3>1
  <2>6. d \in [PsIds -> BOOLEAN]
    <3> HIDE DEF se
    <3>1. \A p \in PsIds : (s.tim[p] /\ (se(p) > 0 => s.pkt_ready[p] # se(p))) \in BOOLEAN
      BY <2>3
    <3> QED BY <3>1
  <2> HIDE DEF a, b, d
  <2>7. s \in [active : BOOLEAN, pkt_ready : [PsIds -> Nat], sp_cnt : [PsIds -> Int], tim : [PsIds -> BOOLEAN]]
    BY DEF PsState
  <2>8. c.active = s.active /\ c.pkt_ready = a /\ c.sp_cnt = b /\ c.tim = d
    BY <2>1, <2>7
  <2> QED BY <2>1, <2>4, <2>5, <2>6, <2>8
<1>7. /\ Lengths(t) \in [TXQ -> Int] /\ Limits(t) \in [TXQ -> Int]
      /\ Lengths(u) \in [TXQ -> Int] /\ Limits(u) \in [TXQ -> Int] /\ Lengths(u) \in [TXQ -> Nat]
      /\ Limits(t) \in [TXQ -> Nat]
      /\ \A q \in TXQ : Lengths(t)[q] = Len(t[q].sk_list) /\ Limits(t)[q] = t[q].push_limit
      /\ \A q \in TXQ : Lengths(u)[q] = Len(u[q].sk_list) /\ Limits(u)[q] = u[q].push_limit
  BY CountsType
<1>8. ASSUME s.active
      PROVE  LessBy(Lengths(u), Lengths(t), PushedOf(t), S)
  <2>1. \A q \in TXQ : t[q].active
    BY <1>8 DEF Asleep
  <2>2. ASSUME NEW q \in S PROVE Lengths(u)[q] = Lengths(t)[q] - PushedOf(t)[q]
    BY <1>7, <2>1, <2>2 DEF PushedOf
  <2>3. ASSUME NEW q \in TXQ, q \notin S PROVE Lengths(u)[q] = Lengths(t)[q] - 0
    <3>1. Lengths(u)[q] = Lengths(t)[q] /\ Lengths(t)[q] \in Int
      BY <1>7, <2>3
    <3> QED BY <3>1
  <2> QED BY <2>2, <2>3 DEF LessBy
<1>9. ASSUME s.active, "interrupt" \notin allow
      PROVE  LessBy(Limits(u), Limits(t), PushedOf(t), S)
  <2>1. \A q \in TXQ : t[q].active /\ "STA_PS" \in t[q].status
    BY <1>9 DEF Asleep
  <2>2. ASSUME NEW q \in S PROVE Limits(u)[q] = Limits(t)[q] - PushedOf(t)[q]
    <3>1. t[q].push_limit > 0
      BY <1>0, <1>9, <2>1, <2>2 DEF Sound, Limited
    <3>2. Pushed(t[q]) = t[q].push_limit /\ u[q].push_limit = 0
      BY <1>1, <2>1, <2>2, <3>1
    <3>3. Limits(u)[q] = 0 /\ Limits(t)[q] = PushedOf(t)[q] /\ Limits(t)[q] \in Int
      BY <1>7, <2>2, <3>2 DEF PushedOf
    <3> QED BY <3>3
  <2>3. ASSUME NEW q \in TXQ, q \notin S PROVE Limits(u)[q] = Limits(t)[q] - 0
    <3>1. Limits(u)[q] = Limits(t)[q] /\ Limits(t)[q] \in Int
      BY <1>7, <2>3
    <3> QED BY <3>1
  <2> QED BY <2>2, <2>3 DEF LessBy
<1>10. \A p \in PsIds : c.pkt_ready[p] = s.pkt_ready[p] - took[p] /\ c.sp_cnt[p] = s.sp_cnt[p] - took[p]
                        /\ s.pkt_ready[p] \in Nat /\ s.sp_cnt[p] \in Int /\ took[p] \in Int
  BY <1>6 DEF PsState
<1>11. ASSUME NEW p \in PsIds, s.active
       PROVE  c.pkt_ready[p] = Total(Lengths(u), TXQ, p) /\ c.pkt_ready[p] \in Nat
  <2>0. LessBy(Lengths(u), Lengths(t), PushedOf(t), S)
    BY <1>8, <1>11
  <2>1. Total(Lengths(u), TXQ, p) = Total(Lengths(t), TXQ, p) - Total(PushedOf(t), S, p)
    <3>1. S \in SUBSET TXQ /\ Lengths(u) \in [TXQ -> Int] /\ Lengths(t) \in [TXQ -> Int] /\ PushedOf(t) \in [TXQ -> Int]
      BY <1>2, <1>7
    <3>2. PICK f, h, k : f = Lengths(t) /\ h = Lengths(u) /\ k = PushedOf(t)
      OBVIOUS
    <3>3. f \in [TXQ -> Int] /\ h \in [TXQ -> Int] /\ k \in [TXQ -> Int] /\ LessBy(h, f, k, S)
      BY <2>0, <3>1, <3>2
    <3>4. /\ Total(h, TXQ, p) = Total(f, TXQ, p) - Total(k, S, p)
          /\ Total(h, TXQ, p) \in Int /\ Total(f, TXQ, p) \in Int /\ Total(k, S, p) \in Int
      BY ONLY <3>1, <3>3, TotalLess, Zenon
    <3> QED BY <3>2, <3>4
  <2>2. s.pkt_ready[p] = Total(Lengths(t), TXQ, p)
    BY <1>11 DEF Totals
  <2>3. Total(Lengths(u), TXQ, p) \in Nat
    <3>1. \A q \in TXQ : PsOf(q) = p => Lengths(u)[q] >= 0
      BY <1>7
    <3>2. TXQ \in SUBSET TXQ
      OBVIOUS
    <3> QED BY <1>7, <3>1, <3>2, TotalNat
  <2> QED BY <1>4, <1>10, <1>11, <2>1, <2>2, <2>3
<1>12. ASSUME NEW p \in PsIds, ~s.active
       PROVE  c.pkt_ready[p] \in Nat
  BY <1>4, <1>10, <1>12
<1>13. ASSUME NEW p \in PsIds, s.active, "interrupt" \notin allow
       PROVE  c.sp_cnt[p] = Total(Limits(u), TXQ, p) /\ Total(Limits(u), TXQ, p) \in Int
  <2>0. LessBy(Limits(u), Limits(t), PushedOf(t), S)
    BY <1>9, <1>13
  <2>1. /\ Total(Limits(u), TXQ, p) = Total(Limits(t), TXQ, p) - Total(PushedOf(t), S, p)
        /\ Total(Limits(u), TXQ, p) \in Int
    <3>1. S \in SUBSET TXQ /\ Limits(u) \in [TXQ -> Int] /\ Limits(t) \in [TXQ -> Int] /\ PushedOf(t) \in [TXQ -> Int]
      BY <1>2, <1>7
    <3>2. PICK f, h, k : f = Limits(t) /\ h = Limits(u) /\ k = PushedOf(t)
      OBVIOUS
    <3>3. f \in [TXQ -> Int] /\ h \in [TXQ -> Int] /\ k \in [TXQ -> Int] /\ LessBy(h, f, k, S)
      BY <2>0, <3>1, <3>2
    <3>4. /\ Total(h, TXQ, p) = Total(f, TXQ, p) - Total(k, S, p)
          /\ Total(h, TXQ, p) \in Int /\ Total(f, TXQ, p) \in Int /\ Total(k, S, p) \in Int
      BY ONLY <3>1, <3>3, TotalLess, Zenon
    <3> QED BY <3>2, <3>4
  <2>2. s.sp_cnt[p] = Total(Limits(t), TXQ, p)
    BY <1>13 DEF Totals
  <2> QED BY <1>4, <1>10, <1>13, <2>1, <2>2
<1>14. ASSUME NEW p \in PsIds, ~s.active, "interrupt" \notin allow
       PROVE  c.sp_cnt[p] >= Total(Limits(u), TXQ, p)
  <2>1. \A q \in TXQ : PsOf(q) = p => Limits(u)[q] <= Limits(t)[q]
    <3>1. \A q \in TXQ : u[q].push_limit = t[q].push_limit \/ u[q].push_limit = 0
      OBVIOUS
    <3>2. \A q \in TXQ : Limits(u)[q] = Limits(t)[q] \/ Limits(u)[q] = 0
      BY <1>7, <3>1
    <3>3. \A q \in TXQ : Limits(t)[q] \in Nat
      BY <1>7
    <3> QED BY <3>2, <3>3
  <2>2. Total(Limits(u), TXQ, p) <= Total(Limits(t), TXQ, p)
    BY <1>7, <2>1, TotalMore
  <2>3. Total(Limits(u), TXQ, p) \in Int /\ Total(Limits(t), TXQ, p) \in Int
    <3>1. TXQ \in SUBSET TXQ
      OBVIOUS
    <3> QED BY <1>7, <3>1, TotalInt
  <2>4. s.sp_cnt[p] >= Total(Limits(t), TXQ, p)
    BY <1>14 DEF Totals
  <2> QED BY <1>4, <1>10, <1>14, <2>2, <2>3, <2>4
<1>15. c \in PsState
  <2>1. c.pkt_ready \in [PsIds -> Nat]
    BY <1>6, <1>10, <1>11, <1>12
  <2>2. c.sp_cnt \in [PsIds -> Int]
    BY <1>6, <1>10
  <2> QED BY <1>6, <2>1, <2>2 DEF PsState
<1>16. Totals(u, c)
  <2> SUFFICES ASSUME NEW p \in PsIds
               PROVE  /\ c.active => c.pkt_ready[p] = Total(Lengths(u), TXQ, p)
                      /\ "interrupt" \notin allow
                           => /\ c.sp_cnt[p] >= Total(Limits(u), TXQ, p)
                              /\ c.active => c.sp_cnt[p] = Total(Limits(u), TXQ, p)
    BY DEF Totals
  <2>1. c.active => c.pkt_ready[p] = Total(Lengths(u), TXQ, p)
    BY <1>6, <1>11
  <2>2. ASSUME "interrupt" \notin allow
        PROVE  /\ c.sp_cnt[p] >= Total(Limits(u), TXQ, p)
               /\ c.active => c.sp_cnt[p] = Total(Limits(u), TXQ, p)
    <3>1. CASE s.active
      BY <1>6, <1>13, <2>2, <3>1
    <3>2. CASE ~s.active
      BY <1>6, <1>14, <2>2, <3>2
    <3> QED BY <3>1, <3>2
  <2> QED BY <2>1, <2>2
<1> QED BY <1>5, <1>6, <1>15, <1>16
-----------------------------------------------------------------------------
\* What a pass leaves is as sound as what it began with, and no inactive queue stays listed.
LEMMA PassCore ==
  ASSUME NEW H, NEW t, NEW s, NEW x, NEW m, NEW r, NEW stopped \in SUBSET Data,
         Core(t, s, fw, x, m, r), Asleep(t, s),
         \A q \in TXQ : ~t[q].active /\ Listed(t[q]) => HwqOf[q] \in H /\ t[q].push_limit = 0,
         rwnx_hwq_process(H, t, s, stopped)
  PROVE  /\ Core(txq', ps', fw', x, m, r) /\ ps'.active = s.active /\ InactiveOff(txq')
         /\ ndev' \subseteq Data
         /\ \A q \in TXQ : /\ txq'[q].active = t[q].active
                           /\ "STA_PS" \in txq'[q].status <=> "STA_PS" \in t[q].status
<1> DEFINE S == {q \in TXQ : t[q].linked > 0 /\ HwqOf[q] \in H}
           new(q) == {[q |-> q, n |-> t[q].sk_list[i]] :
                        i \in {j \in 1..Pushed(t[q]) : q = Mgmt \/ t[q].sk_list[j] \in Eapol}}
<1>1. /\ txq' = [q \in TXQ |-> IF q \in S THEN AfterPass(q, t[q]) ELSE t[q]]
      /\ ps' = CountPushed(s, S, t)
      /\ ndev' = stopped \ {q \in S : Wakes(t[q])}
      /\ fw' = fw \cup UNION {new(q) : q \in S}
  BY DEF rwnx_hwq_process
<1>2. /\ t \in [TXQ -> Queue] /\ s \in PsState /\ fw \subseteq Frame /\ x \subseteq Frame
      /\ m \in 0..MaxMade /\ r \in 0..MaxRetry /\ Placed(t, fw, x, m) /\ Totals(t, s)
      /\ \A q \in TXQ : Good(t[q], m, r)
  BY DEF Core
<1>3. m \in Nat /\ r \in Nat /\ S \in SUBSET TXQ
  BY <1>2, TxqAssumption
<1>4. \A q \in TXQ : t[q] \in Queue /\ Sound(t[q], m, r)
  BY <1>2 DEF Good
<1>5. \A q \in S : Listed(t[q]) /\ (~t[q].active => t[q].push_limit = 0)
  <2> SUFFICES ASSUME NEW q \in S PROVE Listed(t[q]) /\ (~t[q].active => t[q].push_limit = 0)
    OBVIOUS
  <2>1. t[q].linked = IF Listed(t[q]) THEN 1 ELSE 0
    BY <1>4 DEF Sound
  <2>2. Listed(t[q])
    BY <2>1
  <2> QED BY <2>2
<1>6. PICK u : u = txq'
  OBVIOUS
<1>7. ASSUME NEW q \in S
      PROVE  LET v == t[q]
             IN /\ u[q] = AfterPass(q, v)
                /\ Good(u[q], m, r) /\ u[q].active = v.active /\ u[q].push_limit = 0
                /\ ~u[q].active => ~Listed(u[q]) /\ u[q].sk_list = <<>>
                /\ "STA_PS" \in u[q].status <=> "STA_PS" \in v.status
                /\ v.active => /\ Len(u[q].sk_list) = Len(v.sk_list) - Pushed(v)
                               /\ \A i \in DOMAIN u[q].sk_list :
                                    /\ Pushed(v) + i \in DOMAIN v.sk_list
                                    /\ u[q].sk_list[i] = v.sk_list[Pushed(v) + i]
  <2>1. u[q] = AfterPass(q, t[q])
    BY <1>1, <1>6, <1>7
  <2>2. PICK v : v = t[q]
    OBVIOUS
  <2>3. Good(v, m, r) /\ Listed(v) /\ (~v.active => v.push_limit = 0)
    BY <1>2, <1>3, <1>5, <1>7, <2>2
  <2>4. LET w == AfterPass(q, v)
         IN /\ Good(w, m, r) /\ w.active = v.active /\ w.push_limit = 0
            /\ ~w.active => ~Listed(w) /\ w.sk_list = <<>>
            /\ "STA_PS" \in w.status <=> "STA_PS" \in v.status
            /\ v.active => /\ Len(w.sk_list) = Len(v.sk_list) - Pushed(v)
                           /\ \A i \in DOMAIN w.sk_list : Pushed(v) + i \in DOMAIN v.sk_list
                                                          /\ w.sk_list[i] = v.sk_list[Pushed(v) + i]
    BY <1>3, <2>3, PassGood
  <2>5. PICK w : w = AfterPass(q, v)
    OBVIOUS
  <2>6. w = u[q]
    BY <2>1, <2>2, <2>5
  <2> QED BY <2>2, <2>4, <2>5, <2>6
<1>8. \A q \in TXQ \ S : u[q] = t[q]
  BY <1>1, <1>6
<1>9. \A q \in TXQ : Good(u[q], m, r) /\ u[q].active = t[q].active
                     /\ ("STA_PS" \in u[q].status <=> "STA_PS" \in t[q].status)
  BY <1>2, <1>7, <1>8
<1>10. u \in [TXQ -> Queue]
  <2>1. \A q \in TXQ : u[q] \in Queue
    BY <1>9 DEF Good
  <2>2. u = [q \in TXQ |-> u[q]]
    BY <1>1, <1>6
  <2> QED BY <2>1, <2>2
<1>11. InactiveOff(u)
  <2> SUFFICES ASSUME NEW q \in TXQ, ~u[q].active PROVE ~Listed(u[q])
    BY DEF InactiveOff
  <2>1. CASE q \in S
    BY <1>7, <2>1
  <2>2. CASE q \notin S
    <3>1. u[q] = t[q] /\ t[q].linked = IF Listed(t[q]) THEN 1 ELSE 0
      BY <1>4, <1>8, <2>2 DEF Sound
    <3>2. Listed(t[q]) => HwqOf[q] \in H
      BY <3>1
    <3> QED BY <2>2, <3>1, <3>2
  <2> QED BY <2>1, <2>2
<1>12. LET c == CountPushed(s, S, t)
       IN c \in PsState /\ c.active = s.active /\ Totals(u, c)
  <2>1. \A q \in S : /\ u[q].push_limit = 0
                     /\ t[q].active => Len(u[q].sk_list) = Len(t[q].sk_list) - Pushed(t[q])
    BY <1>7
  <2> HIDE DEF S
  <2> QED BY <1>2, <1>3, <1>5, <1>8, <1>10, <2>1, CountsPass
\* a buffer of u[q] is one of t[q] that the pass left behind
<1>13. ASSUME NEW q \in TXQ, NEW i \in DOMAIN u[q].sk_list
       PROVE  \E j \in DOMAIN t[q].sk_list : /\ u[q].sk_list[i] = t[q].sk_list[j]
                                             /\ q \in S => j > Pushed(t[q])
  <2>1. CASE q \notin S
    BY <1>8, <2>1, <1>13
  <2>2. CASE q \in S /\ t[q].active
    <3>1. Pushed(t[q]) \in Nat /\ i \in Nat /\ i >= 1
      <4>1. u[q].sk_list \in Seq(1..MaxMade)
        BY <1>10 DEF Queue
      <4>2. Pushed(t[q]) \in Nat
        BY <1>4, PushedType
      <4> QED BY <1>13, <4>1, <4>2, LenProperties
    <3>2. Pushed(t[q]) + i \in DOMAIN t[q].sk_list /\ u[q].sk_list[i] = t[q].sk_list[Pushed(t[q]) + i]
      BY <1>7, <1>13, <2>2
    <3>3. Pushed(t[q]) + i > Pushed(t[q])
      BY <3>1
    <3> QED BY <3>2, <3>3
  <2>3. CASE q \in S /\ ~t[q].active
    <3>1. u[q].sk_list = <<>>
      BY <1>7, <2>3
    <3>2. DOMAIN <<>> = {}
      OBVIOUS
    <3> QED BY <1>13, <3>1, <3>2
  <2> QED BY <2>1, <2>2, <2>3
<1>14. ASSUME NEW q \in S, NEW f \in new(q)
       PROVE  /\ f \in Frame /\ f.q = q
              /\ \E j \in DOMAIN t[q].sk_list : f.n = t[q].sk_list[j] /\ j <= Pushed(t[q])
  <2>1. PICK j \in 1..Pushed(t[q]) : f = [q |-> q, n |-> t[q].sk_list[j]]
    BY <1>14
  <2>2. t[q].sk_list \in Seq(1..MaxMade) /\ t[q].active
    <3>1. t[q].sk_list \in Seq(1..MaxMade)
      BY <1>4 DEF Queue
    <3>2. CASE ~t[q].active
      <4>1. Pushed(t[q]) = 0
        BY <3>2 DEF Pushed
      <4> QED BY <2>1, <4>1
    <3> QED BY <3>1, <3>2
  <2>3. Pushed(t[q]) \in 0..Len(t[q].sk_list) /\ Len(t[q].sk_list) \in Nat
    <3>1. PICK v : v = t[q]
      OBVIOUS
    <3>2. v \in Queue /\ Sound(v, m, r) /\ (~v.active => v.push_limit = 0)
      BY <1>4, <1>5, <3>1
    <3>3. Pushed(v) \in 0..Len(v.sk_list) /\ Len(v.sk_list) \in Nat
      BY <3>2, PushedIs
    <3> QED BY <3>1, <3>3
  <2>4. j \in 1..Len(t[q].sk_list) /\ j <= Pushed(t[q])
    BY <2>3
  <2>5. j \in DOMAIN t[q].sk_list /\ t[q].sk_list[j] \in 1..MaxMade
    BY <2>2, <2>4, LenProperties, ElementOfSeq
  <2> QED BY <2>1, <2>4, <2>5 DEF Frame
<1>15. fw' \subseteq Frame
  BY <1>1, <1>2, <1>14
<1>16. ASSUME NEW f \in fw' \cup x
       PROVE  f.n <= m /\ \A i \in DOMAIN u[f.q].sk_list : u[f.q].sk_list[i] # f.n
  <2>1. CASE f \in fw \cup x
    <3>1. f.q \in TXQ /\ f.n <= m /\ \A j \in DOMAIN t[f.q].sk_list : t[f.q].sk_list[j] # f.n
      BY <1>2, <2>1 DEF Placed, Frame
    <3> QED BY <1>13, <3>1
  <2>2. CASE f \notin fw \cup x
    <3>1. PICK q \in S : f \in new(q)
      BY <1>1, <1>16, <2>2
    <3> HIDE DEF S, new
    <3>2. f.q = q /\ q \in TXQ /\ q \in S
      BY <1>3, <1>14, <3>1
    <3>3. PICK j \in DOMAIN t[q].sk_list : f.n = t[q].sk_list[j] /\ j <= Pushed(t[q])
      BY <1>14, <3>1
    <3>4. Distinct(t[q].sk_list) /\ t[q].sk_list[j] <= m
      BY <1>4, <3>2 DEF Sound
    <3>5. DOMAIN t[q].sk_list \subseteq Nat /\ Pushed(t[q]) \in Nat
      <4>1. t[q].sk_list \in Seq(1..MaxMade)
        BY <1>4, <3>2 DEF Queue
      <4> QED BY <1>4, <3>2, <4>1, LenProperties, PushedType
    <3>6. ASSUME NEW i \in DOMAIN u[q].sk_list PROVE u[q].sk_list[i] # f.n
      <4>1. PICK l \in DOMAIN t[q].sk_list : u[q].sk_list[i] = t[q].sk_list[l] /\ l > Pushed(t[q])
        BY <1>13, <3>2, <3>6
      <4>2. l # j
        BY <3>3, <3>5, <4>1
      <4> QED BY <3>3, <3>4, <4>1, <4>2 DEF Distinct
    <3> QED BY <3>2, <3>3, <3>4, <3>6
  <2> QED BY <2>1, <2>2
<1>17. fw' \cap x = {}
  <2> SUFFICES ASSUME NEW f \in fw', f \in x PROVE FALSE
    OBVIOUS
  <2>1. f \notin fw
    BY <1>2 DEF Placed
  <2>2. PICK q \in S : f \in new(q)
    BY <1>1, <2>1
  <2> HIDE DEF S, new
  <2>3. f.q = q /\ \E j \in DOMAIN t[q].sk_list : f.n = t[q].sk_list[j]
    BY <1>14, <2>2
  <2>4. \A j \in DOMAIN t[f.q].sk_list : t[f.q].sk_list[j] # f.n
    BY <1>2 DEF Placed
  <2> QED BY <2>3, <2>4
<1>18. Placed(u, fw', x, m)
  BY <1>2, <1>16, <1>17 DEF Placed
<1>19. ndev' \subseteq Data
  BY <1>1
<1>20. ps' \in PsState /\ ps'.active = s.active /\ Totals(u, ps')
  BY <1>1, <1>12
<1>21. Core(u, ps', fw', x, m, r)
  BY <1>2, <1>9, <1>10, <1>15, <1>18, <1>20 DEF Core
<1> HIDE DEF S, new
<1> QED BY <1>6, <1>9, <1>11, <1>19, <1>20, <1>21
-----------------------------------------------------------------------------
(* Where no confirmation is under way the invariant is this.                *)

Settled(t, s, g, x, m, r, pr, fl) == Core(t, s, g, x, m, r) /\ PeerInv(t, s, pr, fl)

\* The invariant without a confirmation under way, taken apart,
LEMMA Apart ==
  ASSUME Inner, cfm = {}
  PROVE  /\ Settled(txq, ps, fw, xmit, made, retried, peer, flushing)
         /\ Others(need, tasklet, ndev, vif, peer, flushing)
<1>1. \A q \in TXQ : txq[q] \in Queue /\ Sound(txq[q], made, retried) /\ (Ready(txq[q]) => Listed(txq[q]))
  BY DEF Inner, QueueType, ReadyInv
<1>2. Core(txq, ps, fw, xmit, made, retried)
  BY <1>1 DEF Inner, QueueType, Core, Good
<1> QED BY <1>2 DEF Settled, Inner

\* and put together again.
LEMMA Together ==
  ASSUME cfm' = {}, allow' = allow,
         Settled(txq', ps', fw', xmit', made', retried', peer', flushing'),
         Others(need', tasklet', ndev', vif', peer', flushing')
  PROVE  Inner'
<1>1. Core(txq', ps', fw', xmit', made', retried') /\ PeerInv(txq', ps', peer', flushing')
  BY DEF Settled
<1>2. QueueType'
  BY <1>1 DEF Core, QueueType
<1>3. \A q \in TXQ : Sound(txq[q], made, retried)' /\ (Ready(txq[q]) => Listed(txq[q]))'
  BY <1>1 DEF Core, Good, Sound, Limited, Listed, RetriesLead, Distinct, Ready, rwnx_txq_is_stopped
<1>4. Placed(txq, fw, xmit, made)' /\ Totals(txq, ps)' /\ PeerInv(txq, ps, peer, flushing)'
  BY <1>1 DEF Core, Placed, Totals, Lengths, Limits, PeerInv, Listed
<1>5. ReadyInv' /\ CfmInv'
  BY <1>3 DEF ReadyInv, CfmInv
<1> QED BY <1>2, <1>3, <1>4, <1>5 DEF Inner

\* The queues keep their buffers or lose them all.
LEMMA CoreMap ==
  ASSUME NEW t, NEW s, NEW g, NEW x, NEW m, NEW r, Core(t, s, g, x, m, r),
         NEW u, u = [q \in TXQ |-> u[q]], NEW w \in PsState,
         \A q \in TXQ : Good(u[q], m, r) /\ (u[q].sk_list = t[q].sk_list \/ u[q].sk_list = <<>>),
         Totals(u, w)
  PROVE  Core(u, w, g, x, m, r)
<1>1. u \in [TXQ -> Queue]
  BY DEF Good
<1>2. Placed(u, g, x, m)
  <2>1. DOMAIN <<>> = {}
    OBVIOUS
  <2>2. \A f \in g \cup x : f.q \in TXQ
    BY DEF Core, Frame
  <2> QED BY <2>1, <2>2 DEF Placed, Core
<1> QED BY <1>1, <1>2 DEF Core

\* Which queues are in use, and whether they sleep, is all that the peer's state is about.
LEMMA PeerSame ==
  ASSUME NEW t, NEW s, NEW pr, NEW fl \in SUBSET TXQ, PeerInv(t, s, pr, fl),
         NEW u, NEW w, w.active = s.active, InactiveOff(u),
         \A q \in TXQ : u[q].active = t[q].active /\ ("STA_PS" \in u[q].status <=> "STA_PS" \in t[q].status)
  PROVE  PeerInv(u, w, pr, fl)
BY DEF PeerInv, InactiveOff

\* The counters depend on lengths and limits only.
LEMMA TotalsSame ==
  ASSUME NEW t, NEW s, Totals(t, s), NEW u, NEW w, w.active = s.active,
         w.pkt_ready = s.pkt_ready, w.sp_cnt = s.sp_cnt,
         \A q \in TXQ : u[q].sk_list = t[q].sk_list /\ u[q].push_limit = t[q].push_limit
  PROVE  Totals(u, w)
<1>1. Lengths(u) = Lengths(t) /\ Limits(u) = Limits(t)
  BY DEF Lengths, Limits
<1> QED BY <1>1 DEF Totals

\* While the peer is awake only the limits matter, and they may go or shrink.
LEMMA TotalsAwake ==
  ASSUME NEW t \in [TXQ -> Queue], NEW s \in PsState, Totals(t, s),
         NEW u \in [TXQ -> Queue], NEW w \in PsState, ~w.active, w.sp_cnt = s.sp_cnt,
         \A q \in TXQ : u[q].push_limit = 0 \/ u[q].push_limit = t[q].push_limit
  PROVE  Totals(u, w)
<1> SUFFICES ASSUME NEW p \in PsIds, "interrupt" \notin allow
             PROVE  w.sp_cnt[p] >= Total(Limits(u), TXQ, p)
  BY DEF Totals
<1>1. /\ Limits(t) \in [TXQ -> Nat] /\ Limits(u) \in [TXQ -> Nat]
      /\ Limits(t) \in [TXQ -> Int] /\ Limits(u) \in [TXQ -> Int]
      /\ \A q \in TXQ : Limits(t)[q] = t[q].push_limit /\ Limits(u)[q] = u[q].push_limit
  BY CountsType
<1>2. \A q \in TXQ : Limits(t)[q] \in Nat
  BY <1>1
<1>3. \A q \in TXQ : PsOf(q) = p => Limits(u)[q] <= Limits(t)[q]
  BY <1>1, <1>2
<1>4. Total(Limits(u), TXQ, p) <= Total(Limits(t), TXQ, p)
  BY <1>1, <1>3, TotalMore
<1>5. Total(Limits(u), TXQ, p) \in Int /\ Total(Limits(t), TXQ, p) \in Int
  <2>1. TXQ \in SUBSET TXQ
    OBVIOUS
  <2> QED BY <1>1, <2>1, TotalInt
<1>6. s.sp_cnt[p] >= Total(Limits(t), TXQ, p) /\ s.sp_cnt[p] \in Int
  BY DEF Totals, PsState
<1> QED BY <1>4, <1>5, <1>6
-----------------------------------------------------------------------------
(* The steps, one by one, from a state without a confirmation under way.    *)

Still == /\ cfm = {} /\ Settled(txq, ps, fw, xmit, made, retried, peer, flushing)
         /\ Others(need, tasklet, ndev, vif, peer, flushing)
StillNext == /\ cfm' = {} /\ Settled(txq', ps', fw', xmit', made', retried', peer', flushing')
             /\ Others(need', tasklet', ndev', vif', peer', flushing')

\* Hardware queues of queues.
LEMMA HwqType ==
  /\ \A q \in TXQ : HwqOf[q] \in Range(HwqOf)
  /\ \A a, b : Linked(a, b) \subseteq Range(HwqOf)
BY TxqAssumption DEF Linked, Range

\* A transmit call passes the TXQ_INACTIVE check before it takes the lock.
LEMMA CheckStep ==
  ASSUME Still, NEW q \in TXQ, XmitCheck(q)
  PROVE  StillNext
<1>1. /\ Core(txq, ps, fw, xmit, made, retried) /\ PeerInv(txq, ps, peer, flushing)
      /\ Others(need, tasklet, ndev, vif, peer, flushing)
  BY DEF Still, Settled
<1>2. /\ made < MaxMade /\ made' = made + 1 /\ xmit' = xmit \cup {[q |-> q, n |-> made + 1]}
      /\ \A y \in xmit : y.q # q
      /\ UNCHANGED <<txq, ps, need, tasklet, fw, cfm, ndev, vif, peer, flushing, retried>>
  BY DEF XmitCheck
<1>3. made \in Nat /\ retried \in Nat /\ made' \in Nat /\ made' \in 0..MaxMade /\ made + 1 \in 1..MaxMade
  BY <1>1, <1>2, TxqAssumption DEF Core
<1>4. \A x \in TXQ : Good(txq[x], made', retried)
  <2> SUFFICES ASSUME NEW x \in TXQ PROVE Good(txq[x], made', retried)
    OBVIOUS
  <2>1. Good(txq[x], made, retried) /\ made <= made' /\ retried <= retried
    BY <1>1, <1>2, <1>3 DEF Core
  <2> QED BY <1>3, <2>1, GoodLater
<1>5. \A x \in TXQ : \A i \in DOMAIN txq[x].sk_list : txq[x].sk_list[i] <= made /\ txq[x].sk_list[i] \in Nat
  <2> SUFFICES ASSUME NEW x \in TXQ, NEW i \in DOMAIN txq[x].sk_list
               PROVE  txq[x].sk_list[i] <= made /\ txq[x].sk_list[i] \in Nat
    OBVIOUS
  <2>1. txq[x] \in Queue /\ Sound(txq[x], made, retried)
    BY <1>1 DEF Core, Good
  <2>2. txq[x].sk_list \in Seq(1..MaxMade)
    BY <2>1 DEF Queue
  <2> QED BY <2>1, <2>2, TxqAssumption, ElementOfSeq DEF Sound
<1>6. xmit' \subseteq Frame
  BY <1>1, <1>2, <1>3 DEF Core, Frame
<1>7. Placed(txq, fw, xmit', made')
  <2> DEFINE z == [q |-> q, n |-> made + 1]
  <2>1. \A f \in fw \cup xmit : f.n <= made /\ f.n \in Nat
    BY <1>1, TxqAssumption DEF Core, Placed, Frame
  <2>2. z.n = made + 1 /\ z.q = q
    OBVIOUS
  <2>3. \A i \in DOMAIN txq[q].sk_list : txq[q].sk_list[i] # z.n
    BY <1>3, <1>5, <2>2
  <2>4. z \notin fw
    BY <1>3, <2>1, <2>2
  <2> HIDE DEF z
  <2>5. xmit' = xmit \cup {z} /\ made' = made + 1
    BY <1>2 DEF z
  <2>6. \A f \in fw \cup xmit' : f.n <= made'
    BY <1>3, <2>1, <2>2, <2>5
  <2>7. \A f \in fw \cup xmit' : \A i \in DOMAIN txq[f.q].sk_list : txq[f.q].sk_list[i] # f.n
    BY <1>1, <2>2, <2>3, <2>5 DEF Core, Placed
  <2>8. fw \cap xmit' = {}
    BY <1>1, <2>4, <2>5 DEF Core, Placed
  <2>9. \A y, w \in xmit' : y.q = w.q => y = w
    BY <1>1, <1>2, <2>2, <2>5 DEF Core, Placed
  <2> QED BY <2>6, <2>7, <2>8, <2>9 DEF Placed
<1>8. Core(txq, ps, fw, xmit', made', retried)
  BY <1>1, <1>3, <1>4, <1>6, <1>7 DEF Core
<1> QED BY <1>1, <1>2, <1>8 DEF StillNext, Settled, Still

\* The tasklet pushes from every hardware queue that needs it (rwnx_task).
LEMMA TaskStep ==
  ASSUME Still, rwnx_task
  PROVE  StillNext
<1>1. /\ Core(txq, ps, fw, xmit, made, retried) /\ PeerInv(txq, ps, peer, flushing)
      /\ Others(need, tasklet, ndev, vif, peer, flushing)
  BY DEF Still, Settled
<1>2. /\ rwnx_hwq_process(need, txq, ps, ndev) /\ tasklet' = FALSE /\ need' = {}
      /\ UNCHANGED <<xmit, cfm, vif, peer, flushing, made, retried>>
  BY DEF rwnx_task
<1>3. /\ Asleep(txq, ps) /\ ndev \in SUBSET Data
      /\ \A q \in TXQ : ~txq[q].active /\ Listed(txq[q]) => HwqOf[q] \in need /\ txq[q].push_limit = 0
  BY <1>1 DEF PeerInv, Asleep, Others
<1>4. /\ Core(txq', ps', fw', xmit, made, retried) /\ ps'.active = ps.active /\ InactiveOff(txq')
      /\ ndev' \subseteq Data
      /\ \A q \in TXQ : /\ txq'[q].active = txq[q].active
                        /\ "STA_PS" \in txq'[q].status <=> "STA_PS" \in txq[q].status
  BY <1>1, <1>2, <1>3, PassCore
<1>5. PICK u, w : u = txq' /\ w = ps'
  OBVIOUS
<1>6. PeerInv(u, w, peer, flushing)
  <2>1. flushing \in SUBSET TXQ
    BY <1>1 DEF Others
  <2> QED BY <1>1, <1>4, <1>5, <2>1, PeerSame
<1>7. Others(need', tasklet', ndev', vif', peer', flushing')
  BY <1>1, <1>2, <1>4 DEF Others
<1> QED BY <1>2, <1>4, <1>5, <1>6, <1>7 DEF StillNext, Settled, Still

\* The station begins to leave (rwnx_cfg80211_del_station).
LEMMA DelStationStep ==
  ASSUME Still, rwnx_cfg80211_del_station
  PROVE  StillNext
<1>1. /\ Core(txq, ps, fw, xmit, made, retried) /\ PeerInv(txq, ps, peer, flushing)
      /\ Others(need, tasklet, ndev, vif, peer, flushing)
  BY DEF Still, Settled
<1>2. /\ peer = "up" /\ peer' = "leaving" /\ ps' = [ps EXCEPT !.active = FALSE]
      /\ UNCHANGED <<txq, need, tasklet, xmit, fw, cfm, ndev, vif, flushing, made, retried>>
  BY DEF rwnx_cfg80211_del_station
<1>3. PICK w : w = ps'
  OBVIOUS
<1>4. w \in PsState /\ ~w.active /\ w.sp_cnt = ps.sp_cnt
  BY <1>1, <1>2, <1>3 DEF Core, PsState
<1>5. Core(txq, w, fw, xmit, made, retried)
  <2>1. Totals(txq, w)
    BY <1>1, <1>4, TotalsAwake DEF Core
  <2> QED BY <1>1, <1>4, <2>1 DEF Core
<1>6. PeerInv(txq, w, "leaving", flushing)
  BY <1>1, <1>2, <1>4 DEF PeerInv
<1> QED BY <1>1, <1>2, <1>3, <1>5, <1>6 DEF StillNext, Settled, Still, Others

\* One of its queues is taken out of use,
LEMMA DeinitStep ==
  ASSUME Still, NEW q \in TXQ, rwnx_txq_deinit(q)
  PROVE  StillNext
<1>1. /\ Core(txq, ps, fw, xmit, made, retried) /\ PeerInv(txq, ps, peer, flushing)
      /\ Others(need, tasklet, ndev, vif, peer, flushing)
  BY DEF Still, Settled
<1>2. /\ peer = "leaving" /\ flushing' = {q}
      /\ txq' = [txq EXCEPT ![q] = [rwnx_txq_del_from_hw_list(txq[q]) EXCEPT !.active = FALSE]]
      /\ UNCHANGED <<ps, need, tasklet, xmit, fw, cfm, ndev, vif, peer, made, retried>>
  BY DEF rwnx_txq_deinit
<1>3. PICK v : v = [rwnx_txq_del_from_hw_list(txq[q]) EXCEPT !.active = FALSE]
  OBVIOUS
<1>4. /\ Good(v, made, retried) /\ ~v.active /\ ~Listed(v) /\ v.sk_list = txq[q].sk_list
      /\ v.push_limit = txq[q].push_limit
  <2>1. PICK t : t = txq[q]
    OBVIOUS
  <2>2. Good(t, made, retried)
    BY <1>1, <2>1 DEF Core
  <2> QED BY <1>3, <2>1, <2>2, DeinitGood
<1>5. PICK u : u = txq'
  OBVIOUS
<1>6. u = [txq EXCEPT ![q] = v] /\ txq \in [TXQ -> Queue]
  BY <1>1, <1>2, <1>3, <1>5 DEF Core
<1>7. /\ u = [x \in TXQ |-> u[x]] /\ u[q] = v /\ \A x \in TXQ \ {q} : u[x] = txq[x]
  BY <1>6
<1>8. \A x \in TXQ : Good(u[x], made, retried) /\ u[x].sk_list = txq[x].sk_list
                     /\ u[x].push_limit = txq[x].push_limit
  BY <1>1, <1>4, <1>7 DEF Core
<1>9. Core(u, ps, fw, xmit, made, retried)
  <2>1. Totals(u, ps) /\ ps \in PsState
    BY <1>1, <1>8, TotalsSame DEF Core
  <2> QED BY <1>1, <1>7, <1>8, <2>1, CoreMap
<1>10. PeerInv(u, ps, "leaving", {q})
  BY <1>1, <1>2, <1>4, <1>7 DEF PeerInv
<1> QED BY <1>1, <1>2, <1>5, <1>9, <1>10 DEF StillNext, Settled, Still, Others

\* and is flushed; with the last the peer is gone.
LEMMA FlushStep ==
  ASSUME Still, NEW q \in TXQ, rwnx_txq_flush(q)
  PROVE  StillNext
<1>1. /\ Core(txq, ps, fw, xmit, made, retried) /\ PeerInv(txq, ps, peer, flushing)
      /\ Others(need, tasklet, ndev, vif, peer, flushing)
  BY DEF Still, Settled
<1>2. /\ q \in flushing /\ flushing' = {}
      /\ txq' = [txq EXCEPT ![q].sk_list = <<>>]
      /\ peer' = IF \A x \in TXQ : ~txq[x].active THEN "gone" ELSE peer
      /\ UNCHANGED <<ps, need, tasklet, xmit, fw, cfm, ndev, vif, made, retried>>
  BY DEF rwnx_txq_flush
<1>3. PICK t, v : t = txq[q] /\ v = [t EXCEPT !.sk_list = <<>>]
  OBVIOUS
<1>4. Good(t, made, retried) /\ ~t.active
  BY <1>1, <1>2, <1>3 DEF Core, PeerInv
<1>5. /\ Good(v, made, retried) /\ ~v.active /\ (Listed(v) <=> Listed(t)) /\ v.sk_list = <<>>
      /\ v.push_limit = t.push_limit
  BY <1>3, <1>4, FlushGood
<1>6. PICK u : u = txq'
  OBVIOUS
<1>7. txq \in [TXQ -> Queue] /\ u = [txq EXCEPT ![q] = v]
  BY <1>1, <1>2, <1>3, <1>6 DEF Core
<1>8. /\ u = [x \in TXQ |-> u[x]] /\ u[q] = v /\ \A x \in TXQ \ {q} : u[x] = txq[x]
  BY <1>7
<1>9. \A x \in TXQ : /\ Good(u[x], made, retried)
                     /\ u[x].sk_list = txq[x].sk_list \/ u[x].sk_list = <<>>
                     /\ u[x].push_limit = txq[x].push_limit
                     /\ u[x].active = txq[x].active
  <2> SUFFICES ASSUME NEW x \in TXQ
               PROVE  /\ Good(u[x], made, retried)
                      /\ u[x].sk_list = txq[x].sk_list \/ u[x].sk_list = <<>>
                      /\ u[x].push_limit = txq[x].push_limit
                      /\ u[x].active = txq[x].active
    OBVIOUS
  <2>1. CASE x = q
    <3>1. v.active = t.active
      BY <1>4, <1>5 DEF Good, Queue
    <3> QED BY <1>3, <1>5, <1>8, <2>1, <3>1
  <2>2. CASE x # q
    BY <1>1, <1>8, <2>2 DEF Core
  <2> QED BY <2>1, <2>2
<1>10. ~ps.active /\ peer = "leaving"
  BY <1>1, <1>2 DEF PeerInv, Others
<1>11. u \in [TXQ -> Queue]
  BY <1>8, <1>9 DEF Good
<1>12. Totals(u, ps) /\ ps \in PsState
  BY <1>1, <1>9, <1>10, <1>11, TotalsAwake DEF Core
<1>13. Core(u, ps, fw, xmit, made, retried)
  BY <1>1, <1>8, <1>9, <1>12, CoreMap
<1>14. PeerInv(u, ps, peer', {})
  <2>1. \A x \in TXQ : ~u[x].active => ~Listed(u[x])
    BY <1>1, <1>3, <1>4, <1>5, <1>8 DEF PeerInv
  <2> QED BY <1>1, <1>2, <1>9, <1>10, <2>1 DEF PeerInv
<1> QED BY <1>1, <1>2, <1>6, <1>10, <1>13, <1>14 DEF StillNext, Settled, Still, Others
-----------------------------------------------------------------------------
(* The peer falls asleep, wakes, and asks for its buffers.                  *)

\* Functions that agree on the queues of p have one total.
LEMMA TotalAgree ==
  ASSUME NEW f \in [TXQ -> Int], NEW h \in [TXQ -> Int], NEW p,
         \A q \in TXQ : PsOf(q) = p => h[q] = f[q]
  PROVE  Total(h, TXQ, p) = Total(f, TXQ, p)
<1>1. \A q \in TXQ : f[q] \in Int /\ h[q] \in Int
  OBVIOUS
<1>2. \A q \in TXQ : PsOf(q) = p => h[q] <= f[q] /\ f[q] <= h[q]
  BY <1>1
<1>3. Total(h, TXQ, p) <= Total(f, TXQ, p) /\ Total(f, TXQ, p) <= Total(h, TXQ, p)
  BY <1>2, TotalMore
<1>4. TXQ \in SUBSET TXQ
  OBVIOUS
<1>5. Total(h, TXQ, p) \in Int /\ Total(f, TXQ, p) \in Int
  BY <1>4, TotalInt
<1> QED BY <1>3, <1>5

\* Stopped for a sleeping peer, the queues count what they hold (rwnx_ps_bh_enable),
LEMMA FallsAsleep ==
  ASSUME NEW m, NEW r, NEW t \in [TXQ -> Queue], ps \in PsState,
         \A q \in TXQ : Good(t[q], m, r) /\ t[q].push_limit = 0
  PROVE  LET u == PsStopped(t)
             w == PsEnabled(t)
         IN /\ u \in [TXQ -> Queue] /\ u = [q \in TXQ |-> u[q]] /\ w \in PsState /\ w.active
            /\ Totals(u, w)
            /\ \A q \in TXQ : /\ Good(u[q], m, r) /\ u[q].sk_list = t[q].sk_list
                              /\ u[q].active = t[q].active
                              /\ t[q].active => "STA_PS" \in u[q].status
                              /\ Listed(u[q]) => Listed(t[q])
<1> DEFINE u == PsStopped(t)
           w == PsEnabled(t)
<1>1. u = [q \in TXQ |-> u[q]] /\ \A q \in TXQ : u[q] = rwnx_txq_stop(t[q], "STA_PS")
  BY DEF PsStopped
<1>2. ASSUME NEW q \in TXQ
      PROVE  /\ Good(u[q], m, r) /\ u[q].sk_list = t[q].sk_list /\ u[q].active = t[q].active
             /\ t[q].active => "STA_PS" \in u[q].status
             /\ u[q].push_limit = 0 /\ (Listed(u[q]) => Listed(t[q]))
  <2>1. PICK v : v = t[q]
    OBVIOUS
  <2>2. "STA_PS" \in Reasons /\ Good(v, m, r) /\ u[q] = rwnx_txq_stop(v, "STA_PS")
    BY <1>1, <2>1 DEF Reasons
  <2>3. PICK z : z = rwnx_txq_stop(v, "STA_PS")
    OBVIOUS
  <2>4. /\ Good(z, m, r) /\ z.active = v.active /\ z.sk_list = v.sk_list
        /\ z.push_limit = v.push_limit
        /\ \A x \in Reasons : x \in z.status <=> x \in v.status \/ (v.active /\ x = "STA_PS")
        /\ Listed(z) => Listed(v)
    BY <2>2, <2>3, StopGood
  <2>5. z = u[q]
    BY <2>2, <2>3
  <2> HIDE DEF u
  <2> QED BY <2>1, <2>2, <2>4, <2>5
<1>3. PICK z : z = u
  OBVIOUS
<1>4. z \in [TXQ -> Queue]
  <2>1. \A q \in TXQ : z[q] \in Queue
    BY <1>2, <1>3 DEF Good
  <2>2. z = [q \in TXQ |-> z[q]]
    BY <1>1, <1>3
  <2> QED BY <2>1, <2>2
<1>5. /\ Lengths(t) \in [TXQ -> Nat] /\ Limits(z) \in [TXQ -> Int] /\ Lengths(t) \in [TXQ -> Int]
      /\ \A q \in TXQ : Limits(z)[q] = z[q].push_limit
      /\ \A q \in TXQ : Lengths(t)[q] = Len(t[q].sk_list)
  BY <1>4, CountsType
<1>6. Lengths(z) = Lengths(t)
  BY <1>2, <1>3 DEF Lengths
<1>7. \A p \in PsIds : Total(Limits(z), TXQ, p) = 0
  BY <1>2, <1>3, <1>5, TotalZero
<1>8. \A p \in PsIds : Total(Lengths(t), TXQ, p) \in Nat
  <2>1. TXQ \in SUBSET TXQ /\ \A q \in TXQ : Lengths(t)[q] >= 0
    BY <1>5
  <2> QED BY <1>5, <2>1, TotalNat
<1>9. /\ w.active /\ w.sp_cnt = [p \in PsIds |-> 0] /\ w.tim = ps.tim
      /\ w.pkt_ready = [p \in PsIds |-> Total(Lengths(t), TXQ, p)]
      /\ w = [active |-> TRUE, sp_cnt |-> w.sp_cnt, tim |-> w.tim, pkt_ready |-> w.pkt_ready]
  BY DEF PsEnabled, Lengths
<1>10. w \in PsState
  <2> HIDE DEF w
  <2>1. ps.tim \in [PsIds -> BOOLEAN]
    BY DEF PsState
  <2>2. w.sp_cnt \in [PsIds -> Int] /\ w.pkt_ready \in [PsIds -> Nat] /\ w.tim \in [PsIds -> BOOLEAN]
    BY <1>8, <1>9, <2>1
  <2> QED BY <1>9, <2>2 DEF PsState
<1>11. Totals(z, w)
  <2> HIDE DEF w
  <2>1. \A p \in PsIds : w.sp_cnt[p] = 0 /\ w.pkt_ready[p] = Total(Lengths(z), TXQ, p)
    BY <1>6, <1>9
  <2> QED BY <1>7, <2>1 DEF Totals
<1> HIDE DEF u, w
<1> QED BY <1>1, <1>2, <1>3, <1>4, <1>9, <1>10, <1>11 DEF u, w

\* and started again they have no limits left.
LEMMA WakesUp ==
  ASSUME NEW m, NEW r, NEW t \in [TXQ -> Queue], NEW o \in [TXQ -> Queue], NEW s \in PsState,
         Totals(o, s), \A q \in TXQ : Good(t[q], m, r) /\ t[q].active
  PROVE  LET u == PsStarted(t)
             w == PsDisabled(s)
         IN /\ u \in [TXQ -> Queue] /\ u = [q \in TXQ |-> u[q]] /\ w \in PsState /\ ~w.active
            /\ Totals(u, w)
            /\ \A q \in TXQ : /\ Good(u[q], m, r) /\ u[q].sk_list = t[q].sk_list /\ u[q].active
                              /\ "STA_PS" \notin u[q].status
<1> DEFINE u == PsStarted(t)
<1>1. u = [q \in TXQ |-> u[q]]
      /\ \A q \in TXQ : u[q] = rwnx_txq_start([t[q] EXCEPT !.push_limit = 0], "STA_PS")
  BY DEF PsStarted
<1>2. ASSUME NEW q \in TXQ
      PROVE  /\ Good(u[q], m, r) /\ u[q].sk_list = t[q].sk_list /\ u[q].active
             /\ "STA_PS" \notin u[q].status /\ u[q].push_limit = 0
  <2>1. PICK v : v = t[q]
    OBVIOUS
  <2>2. Good(v, m, r) /\ v.active /\ u[q] = rwnx_txq_start([v EXCEPT !.push_limit = 0], "STA_PS")
    BY <1>1, <2>1
  <2>3. PICK z : z = rwnx_txq_start([v EXCEPT !.push_limit = 0], "STA_PS")
    OBVIOUS
  <2>4. /\ Good(z, m, r) /\ z.active /\ z.sk_list = v.sk_list /\ z.push_limit = 0
        /\ "STA_PS" \notin z.status
    BY <2>2, <2>3, WakeGood
  <2>5. z = u[q]
    BY <2>2, <2>3
  <2> HIDE DEF u
  <2> QED BY <2>1, <2>4, <2>5
<1>3. PICK z : z = u
  OBVIOUS
<1>4. z \in [TXQ -> Queue]
  <2>1. \A q \in TXQ : z[q] \in Queue
    BY <1>2, <1>3 DEF Good
  <2>2. z = [q \in TXQ |-> z[q]]
    BY <1>1, <1>3
  <2> QED BY <2>1, <2>2
<1>5. PICK w : w = PsDisabled(s)
  OBVIOUS
<1>6. w \in PsState /\ ~w.active /\ w.sp_cnt = s.sp_cnt
  BY <1>5 DEF PsDisabled, PsState, PsIds
<1>7. Totals(z, w)
  <2>1. \A q \in TXQ : z[q].push_limit = 0 \/ z[q].push_limit = o[q].push_limit
    BY <1>2, <1>3
  <2> QED BY <1>4, <1>6, <2>1, TotalsAwake
<1> HIDE DEF u
<1> QED BY <1>1, <1>2, <1>3, <1>4, <1>5, <1>6, <1>7 DEF u

\* The peer falls asleep or wakes.
LEMMA PsStep ==
  ASSUME Still, NEW on \in BOOLEAN, rwnx_ps_bh_enable(on)
  PROVE  StillNext
<1>1. /\ Core(txq, ps, fw, xmit, made, retried) /\ PeerInv(txq, ps, peer, flushing)
      /\ Others(need, tasklet, ndev, vif, peer, flushing)
  BY DEF Still, Settled
<1>2. /\ peer = "up" /\ on # ps.active
      /\ txq' = (IF on THEN PsStopped(txq) ELSE PsStarted(txq))
      /\ ps' = (IF on THEN PsEnabled(txq) ELSE PsDisabled(ps))
      /\ need' = need \cup Linked(txq, txq')
      /\ tasklet' = (tasklet \/ ~on)
      /\ UNCHANGED <<xmit, fw, cfm, ndev, vif, peer, flushing, made, retried>>
  BY DEF rwnx_ps_bh_enable
<1>3. Others(need', tasklet', ndev', vif', peer', flushing')
  <2>1. need' \subseteq Range(HwqOf)
    BY <1>1, <1>2, HwqType DEF Others
  <2>2. tasklet' \in BOOLEAN
    BY <1>2
  <2> QED BY <1>1, <1>2, <2>1, <2>2 DEF Others
<1>4. txq \in [TXQ -> Queue] /\ ps \in PsState /\ Totals(txq, ps)
      /\ \A q \in TXQ : Good(txq[q], made, retried) /\ txq[q].active
                        /\ ("STA_PS" \in txq[q].status <=> ps.active)
  BY <1>1, <1>2 DEF Core, PeerInv
<1>5. PICK u, w : u = txq' /\ w = ps'
  OBVIOUS
<1>6. CASE on
  <2>1. ~ps.active
    BY <1>2, <1>4, <1>6 DEF PsState
  <2>2. ASSUME NEW q \in TXQ PROVE txq[q].push_limit = 0
    <3>1. txq[q].push_limit \in Nat /\ ~(txq[q].push_limit > 0)
      BY <1>4, <2>1 DEF Good, Sound, Queue
    <3> QED BY <3>1
  <2>3. u = PsStopped(txq) /\ w = PsEnabled(txq)
    BY <1>2, <1>5, <1>6
  <2>4. /\ u \in [TXQ -> Queue] /\ u = [q \in TXQ |-> u[q]] /\ w \in PsState /\ w.active
        /\ Totals(u, w)
        /\ \A q \in TXQ : /\ Good(u[q], made, retried) /\ u[q].sk_list = txq[q].sk_list
                          /\ u[q].active = txq[q].active
                          /\ txq[q].active => "STA_PS" \in u[q].status
                          /\ Listed(u[q]) => Listed(txq[q])
    BY <1>4, <2>2, <2>3, FallsAsleep
  <2>5. Core(u, w, fw, xmit, made, retried)
    BY <1>1, <2>4, CoreMap
  <2>6. PeerInv(u, w, peer, flushing)
    BY <1>1, <1>2, <1>4, <2>4 DEF PeerInv
  <2> QED BY <1>2, <1>3, <1>5, <2>5, <2>6 DEF StillNext, Still, Settled
<1>7. CASE ~on
  <2>1. u = PsStarted(txq) /\ w = PsDisabled(ps)
    BY <1>2, <1>5, <1>7
  <2>2. /\ u \in [TXQ -> Queue] /\ u = [q \in TXQ |-> u[q]] /\ w \in PsState /\ ~w.active
        /\ Totals(u, w)
        /\ \A q \in TXQ : /\ Good(u[q], made, retried) /\ u[q].sk_list = txq[q].sk_list /\ u[q].active
                          /\ "STA_PS" \notin u[q].status
    BY <1>4, <2>1, WakesUp
  <2>3. Core(u, w, fw, xmit, made, retried)
    BY <1>1, <2>2, CoreMap
  <2>4. PeerInv(u, w, peer, flushing)
    BY <1>1, <1>2, <2>2 DEF PeerInv
  <2> QED BY <1>2, <1>3, <1>5, <2>3, <2>4 DEF StillNext, Still, Settled
<1> QED BY <1>6, <1>7
\* Another station takes the queues over (rwnx_cfg80211_add_station).
LEMMA AddStationStep ==
  ASSUME Still, NEW asleep \in BOOLEAN, rwnx_cfg80211_add_station(asleep)
  PROVE  StillNext
<1>1. /\ Core(txq, ps, fw, xmit, made, retried) /\ PeerInv(txq, ps, peer, flushing)
      /\ Others(need, tasklet, ndev, vif, peer, flushing)
  BY DEF Still, Settled
<1> DEFINE st == vif \cap {"CHAN", "VIF_PS"}
<1>2. PICK t : t = [q \in TXQ |-> Fresh(st)]
  OBVIOUS
<1>3. /\ peer = "gone" /\ fw = {} /\ peer' = "up"
      /\ txq' = (IF asleep THEN PsStopped(t) ELSE PsStarted(t))
      /\ ps' = (IF asleep THEN PsEnabled(t) ELSE PsDisabled(ps))
      /\ tasklet' = (tasklet \/ ~asleep)
      /\ UNCHANGED <<need, xmit, fw, cfm, ndev, vif, flushing, made, retried>>
  BY <1>2 DEF rwnx_cfg80211_add_station
<1>4. flushing = {} /\ txq \in [TXQ -> Queue] /\ ps \in PsState /\ Totals(txq, ps)
      /\ made \in Nat /\ retried \in Nat
  BY <1>1, <1>3, TxqAssumption DEF Core, PeerInv
<1>5. Others(need', tasklet', ndev', vif', peer', flushing')
  <2>1. tasklet' \in BOOLEAN
    BY <1>3
  <2> QED BY <1>1, <1>3, <1>4, <2>1 DEF Others
<1>6. ASSUME NEW q \in TXQ
      PROVE  /\ Good(t[q], made, retried) /\ t[q].active /\ t[q].sk_list = <<>> /\ t[q].push_limit = 0
             /\ ~Listed(t[q])
  <2>1. st \in SUBSET Reasons
    BY DEF Reasons
  <2>2. t[q] = Fresh(st)
    BY <1>2
  <2> HIDE DEF st
  <2> QED BY <1>4, <2>1, <2>2, FreshGood
<1> HIDE DEF st
<1>7. t \in [TXQ -> Queue]
  <2>1. \A q \in TXQ : t[q] \in Queue
    BY <1>6 DEF Good
  <2> QED BY <1>2, <2>1
<1>8. PICK u, w : u = txq' /\ w = ps'
  OBVIOUS
\* whichever way, the queues are new, and empty
<1>9. ASSUME u \in [TXQ -> Queue], u = [q \in TXQ |-> u[q]], w \in PsState, Totals(u, w),
             \A q \in TXQ : Good(u[q], made, retried) /\ u[q].sk_list = t[q].sk_list
      PROVE  Core(u, w, fw, xmit, made, retried)
  <2>1. \A q \in TXQ : u[q].sk_list = <<>>
    BY <1>6, <1>9
  <2> QED BY <1>1, <1>9, <2>1, CoreMap
<1>10. CASE asleep
  <2>1. u = PsStopped(t) /\ w = PsEnabled(t)
    BY <1>3, <1>8, <1>10
  <2>2. /\ u \in [TXQ -> Queue] /\ u = [q \in TXQ |-> u[q]] /\ w \in PsState /\ w.active
        /\ Totals(u, w)
        /\ \A q \in TXQ : /\ Good(u[q], made, retried) /\ u[q].sk_list = t[q].sk_list
                          /\ u[q].active = t[q].active
                          /\ t[q].active => "STA_PS" \in u[q].status
                          /\ Listed(u[q]) => Listed(t[q])
    <3>1. \A q \in TXQ : Good(t[q], made, retried) /\ t[q].push_limit = 0
      BY <1>6
    <3>2. LET a == PsStopped(t)
              b == PsEnabled(t)
          IN /\ a \in [TXQ -> Queue] /\ a = [q \in TXQ |-> a[q]] /\ b \in PsState /\ b.active
             /\ Totals(a, b)
             /\ \A q \in TXQ : /\ Good(a[q], made, retried) /\ a[q].sk_list = t[q].sk_list
                               /\ a[q].active = t[q].active
                               /\ t[q].active => "STA_PS" \in a[q].status
                               /\ Listed(a[q]) => Listed(t[q])
      BY ONLY <1>4, <1>7, <3>1, FallsAsleep, Zenon
    <3> QED BY <2>1, <3>2
  <2>3. Core(u, w, fw, xmit, made, retried)
    BY <1>9, <2>2
  <2>4. PeerInv(u, w, "up", flushing)
    BY <1>4, <1>6, <2>2 DEF PeerInv
  <2> QED BY <1>3, <1>5, <1>8, <2>3, <2>4 DEF StillNext, Still, Settled
<1>11. CASE ~asleep
  <2>1. u = PsStarted(t) /\ w = PsDisabled(ps)
    BY <1>3, <1>8, <1>11
  <2>2. /\ u \in [TXQ -> Queue] /\ u = [q \in TXQ |-> u[q]] /\ w \in PsState /\ ~w.active
        /\ Totals(u, w)
        /\ \A q \in TXQ : /\ Good(u[q], made, retried) /\ u[q].sk_list = t[q].sk_list /\ u[q].active
                          /\ "STA_PS" \notin u[q].status
    <3>1. \A q \in TXQ : Good(t[q], made, retried) /\ t[q].active
      BY <1>6
    <3>2. LET a == PsStarted(t)
              b == PsDisabled(ps)
          IN /\ a \in [TXQ -> Queue] /\ a = [q \in TXQ |-> a[q]] /\ b \in PsState /\ ~b.active
             /\ Totals(a, b)
             /\ \A q \in TXQ : /\ Good(a[q], made, retried) /\ a[q].sk_list = t[q].sk_list /\ a[q].active
                               /\ "STA_PS" \notin a[q].status
      BY ONLY <1>4, <1>7, <3>1, WakesUp, Zenon
    <3> QED BY <2>1, <3>2
  <2>3. Core(u, w, fw, xmit, made, retried)
    BY <1>9, <2>2
  <2>4. PeerInv(u, w, "up", flushing)
    BY <1>4, <2>2 DEF PeerInv
  <2> QED BY <1>3, <1>5, <1>8, <2>3, <2>4 DEF StillNext, Still, Settled
<1> QED BY <1>10, <1>11

\* The firmware ends a service period early (SpInterrupted).
LEMMA InterruptStep ==
  ASSUME Still, SpInterrupted
  PROVE  StillNext
<1>1. /\ Core(txq, ps, fw, xmit, made, retried) /\ PeerInv(txq, ps, peer, flushing)
      /\ Others(need, tasklet, ndev, vif, peer, flushing)
  BY DEF Still, Settled
<1>2. /\ "interrupt" \in allow
      /\ ps' = [ps EXCEPT !.sp_cnt["UAPSD"] = 0]
      /\ txq' = [q \in TXQ |-> [txq[q] EXCEPT !.push_limit = 0]]
      /\ UNCHANGED <<need, tasklet, xmit, fw, cfm, ndev, vif, peer, flushing, made, retried>>
  BY DEF SpInterrupted
<1>3. PICK u, w : u = txq' /\ w = ps'
  OBVIOUS
<1>4. ASSUME NEW q \in TXQ
      PROVE  /\ Good(u[q], made, retried) /\ u[q].active = txq[q].active
             /\ u[q].status = txq[q].status /\ u[q].sk_list = txq[q].sk_list
  <2>1. PICK t : t = txq[q]
    OBVIOUS
  <2>2. Good(t, made, retried) /\ u[q] = [t EXCEPT !.push_limit = 0]
    BY <1>1, <1>2, <1>3, <2>1 DEF Core
  <2>3. PICK v : v = [t EXCEPT !.push_limit = 0]
    OBVIOUS
  <2>4. Good(v, made, retried) /\ v.active = t.active /\ v.status = t.status /\ v.sk_list = t.sk_list
    BY <1>2, <2>2, <2>3, InterruptGood
  <2> QED BY <2>1, <2>2, <2>3, <2>4
<1>5. w \in PsState /\ w.active = ps.active /\ w.pkt_ready = ps.pkt_ready
  <2>1. PICK z : z = [ps.sp_cnt EXCEPT !["UAPSD"] = 0]
    OBVIOUS
  <2>2. w = [ps EXCEPT !.sp_cnt = z] /\ ps \in PsState
    BY <1>1, <1>2, <1>3, <2>1 DEF Core, PsState
  <2>3. z \in [PsIds -> Int]
    <3>1. ps.sp_cnt \in [PsIds -> Int]
      BY <2>2 DEF PsState
    <3>2. z = [p \in PsIds |-> IF p = "UAPSD" THEN 0 ELSE ps.sp_cnt[p]]
      BY <2>1, <3>1
    <3>3. \A p \in PsIds : ps.sp_cnt[p] \in Int
      BY <3>1
    <3> QED BY <3>2, <3>3
  <2> QED BY <2>2, <2>3 DEF PsState
<1>6. Totals(u, w)
  <2>1. Lengths(u) = Lengths(txq)
    BY <1>4 DEF Lengths
  <2> QED BY <1>1, <1>2, <1>5, <2>1 DEF Core, Totals
<1>7. u = [q \in TXQ |-> u[q]]
  BY <1>2, <1>3
<1>8. Core(u, w, fw, xmit, made, retried)
  BY <1>1, <1>4, <1>5, <1>6, <1>7, CoreMap
<1>9. PeerInv(u, w, peer, flushing)
  <2>1. InactiveOff(u) /\ flushing \in SUBSET TXQ
    BY <1>1, <1>4 DEF PeerInv, Listed, InactiveOff, Others
  <2> QED BY <1>1, <1>4, <1>5, <2>1, PeerSame
<1> QED BY <1>1, <1>2, <1>3, <1>8, <1>9 DEF StillNext, Still, Settled

\* The interface's queues start again, on its channel or after its absence,
LEMMA VifStartStep ==
  ASSUME Still, NEW reason \in Reasons \ {"STA_PS"}, VifStart(reason), tasklet' \in BOOLEAN
  PROVE  StillNext
<1>1. /\ Core(txq, ps, fw, xmit, made, retried) /\ PeerInv(txq, ps, peer, flushing)
      /\ Others(need, tasklet, ndev, vif, peer, flushing)
  BY DEF Still, Settled
<1>2. /\ txq' = IF peer = "up" THEN [q \in TXQ |-> rwnx_txq_start(txq[q], reason)] ELSE txq
      /\ vif' = vif \ {reason}
      /\ need' = need \cup Linked(txq, txq')
      /\ UNCHANGED <<ps, xmit, fw, cfm, ndev, peer, flushing, made, retried>>
  BY DEF VifStart
<1>3. Others(need', tasklet', ndev', vif', peer', flushing')
  <2>1. need' \subseteq Range(HwqOf)
    BY <1>1, <1>2, HwqType DEF Others
  <2>2. vif' \subseteq Reasons \ {"STA_PS"}
    BY <1>1, <1>2 DEF Others
  <2> QED BY <1>1, <1>2, <2>1, <2>2 DEF Others
<1>4. CASE peer # "up"
  BY <1>1, <1>2, <1>3, <1>4 DEF StillNext, Still, Settled
<1>5. CASE peer = "up"
  <2>1. PICK u : u = txq'
    OBVIOUS
  <2>2. u = [q \in TXQ |-> u[q]] /\ \A q \in TXQ : u[q] = rwnx_txq_start(txq[q], reason)
    BY <1>2, <1>5, <2>1
  <2>3. ASSUME NEW q \in TXQ
        PROVE  /\ Good(u[q], made, retried) /\ u[q].active = txq[q].active
               /\ u[q].sk_list = txq[q].sk_list /\ u[q].push_limit = txq[q].push_limit
               /\ "STA_PS" \in u[q].status <=> "STA_PS" \in txq[q].status
    <3>1. PICK t : t = txq[q]
      OBVIOUS
    <3>2. Good(t, made, retried) /\ u[q] = rwnx_txq_start(t, reason)
      BY <1>1, <2>2, <3>1 DEF Core
    <3>3. PICK v : v = rwnx_txq_start(t, reason)
      OBVIOUS
    <3>4. /\ Good(v, made, retried) /\ v.active = t.active /\ v.sk_list = t.sk_list
          /\ v.push_limit = t.push_limit
          /\ "STA_PS" \in v.status <=> "STA_PS" \in t.status
      BY <3>2, <3>3, StartGood
    <3> QED BY <3>1, <3>2, <3>3, <3>4
  <2>4. Totals(u, ps) /\ ps \in PsState
    BY <1>1, <2>3, TotalsSame DEF Core
  <2>5. Core(u, ps, fw, xmit, made, retried)
    BY <1>1, <2>2, <2>3, <2>4, CoreMap
  <2>6. PeerInv(u, ps, peer, flushing)
    BY <1>1, <1>5, <2>3 DEF PeerInv
  <2> QED BY <1>2, <1>3, <2>1, <2>5, <2>6 DEF StillNext, Still, Settled
<1> QED BY <1>4, <1>5

\* or stop.
LEMMA VifStopStep ==
  ASSUME Still, NEW reason \in Reasons \ {"STA_PS"}, VifStop(reason)
  PROVE  StillNext
<1>1. /\ Core(txq, ps, fw, xmit, made, retried) /\ PeerInv(txq, ps, peer, flushing)
      /\ Others(need, tasklet, ndev, vif, peer, flushing)
  BY DEF Still, Settled
<1>2. /\ txq' = IF peer = "up" THEN [q \in TXQ |-> rwnx_txq_stop(txq[q], reason)] ELSE txq
      /\ vif' = vif \cup {reason}
      /\ UNCHANGED <<ps, need, tasklet, xmit, fw, cfm, ndev, peer, flushing, made, retried>>
  BY DEF VifStop
<1>3. Others(need', tasklet', ndev', vif', peer', flushing')
  <2>1. vif' \subseteq Reasons \ {"STA_PS"}
    BY <1>1, <1>2 DEF Others
  <2> QED BY <1>1, <1>2, <2>1 DEF Others
<1>4. CASE peer # "up"
  BY <1>1, <1>2, <1>3, <1>4 DEF StillNext, Still, Settled
<1>5. CASE peer = "up"
  <2>1. PICK u : u = txq'
    OBVIOUS
  <2>2. u = [q \in TXQ |-> u[q]] /\ \A q \in TXQ : u[q] = rwnx_txq_stop(txq[q], reason)
    BY <1>2, <1>5, <2>1
  <2>3. ASSUME NEW q \in TXQ
        PROVE  /\ Good(u[q], made, retried) /\ u[q].active = txq[q].active
               /\ u[q].sk_list = txq[q].sk_list /\ u[q].push_limit = txq[q].push_limit
               /\ "STA_PS" \in u[q].status <=> "STA_PS" \in txq[q].status
    <3>1. PICK t : t = txq[q]
      OBVIOUS
    <3>2. Good(t, made, retried) /\ u[q] = rwnx_txq_stop(t, reason) /\ reason \in Reasons
      BY <1>1, <2>2, <3>1 DEF Core
    <3>3. PICK v : v = rwnx_txq_stop(t, reason)
      OBVIOUS
    <3>4. /\ Good(v, made, retried) /\ v.active = t.active /\ v.sk_list = t.sk_list
          /\ v.push_limit = t.push_limit
          /\ \A x \in Reasons : x \in v.status <=> x \in t.status \/ (t.active /\ x = reason)
      BY <3>2, <3>3, StopGood
    <3>5. "STA_PS" \in Reasons /\ "STA_PS" # reason
      BY DEF Reasons
    <3> QED BY <3>1, <3>2, <3>3, <3>4, <3>5
  <2>4. Totals(u, ps) /\ ps \in PsState
    BY <1>1, <2>3, TotalsSame DEF Core
  <2>5. Core(u, ps, fw, xmit, made, retried)
    BY <1>1, <2>2, <2>3, <2>4, CoreMap
  <2>6. PeerInv(u, ps, peer, flushing)
    BY <1>1, <1>5, <2>3 DEF PeerInv
  <2> QED BY <1>2, <1>3, <2>1, <2>5, <2>6 DEF StillNext, Still, Settled
<1> QED BY <1>4, <1>5
\* What a queue is granted fits its buffers and its credits, and only queues of p get any.
LEMMA GrantIs ==
  ASSUME Core(txq, ps, fw, xmit, made, retried), NEW p \in PsIds, NEW n \in Int
  PROVE  LET g == Grant(n, p)
         IN /\ g \in [TXQ -> Nat] /\ g \in [TXQ -> Int]
            /\ \A q \in TXQ : /\ g[q] <= Len(txq[q].sk_list) /\ g[q] <= txq[q].credits
                              /\ PsOf(q) # p => g[q] = 0
<1>1. PICK o : o = Offer(p)
  OBVIOUS
<1>2. ASSUME NEW q \in TXQ
      PROVE  /\ o[q] \in Nat /\ o[q] <= Len(txq[q].sk_list) /\ o[q] <= txq[q].credits
             /\ PsOf(q) # p => o[q] = 0
             /\ Len(txq[q].sk_list) \in Nat /\ txq[q].credits \in Nat
  <2>1. txq[q] \in Queue /\ Sound(txq[q], made, retried)
    BY DEF Core, Good
  <2>2. txq[q].sk_list \in Seq(1..MaxMade) /\ txq[q].credits \in Int /\ Credits \in Nat
        /\ Credits <= txq[q].credits
    BY <2>1, TxqAssumption DEF Queue, Sound
  <2>3. PICK a, b : a = Len(txq[q].sk_list) /\ b = txq[q].credits
    OBVIOUS
  <2>4. a \in Nat /\ b \in Nat
    BY <2>2, <2>3, LenProperties
  <2>5. Min({a, b}) = IF a <= b THEN a ELSE b
    BY <2>4, MinMax
  <2>6. o[q] = IF q \in Data /\ PsOf(q) = p THEN Min({a, b}) ELSE 0
    BY <1>1, <2>3 DEF Offer
  <2> QED BY <2>3, <2>4, <2>5, <2>6
<1>3. o \in [TXQ -> Int]
  <2>1. o = [q \in TXQ |-> o[q]]
    BY <1>1 DEF Offer
  <2>2. \A q \in TXQ : o[q] \in Int
    BY <1>2
  <2> QED BY <2>1, <2>2
<1>4. PICK g : g = Grant(n, p)
  OBVIOUS
<1>5. ASSUME NEW q \in TXQ
      PROVE  g[q] \in Nat /\ g[q] <= o[q]
  <2>1. Ahead(q) \in SUBSET TXQ
    <3>1. \A i \in DOMAIN Tids : Tids[i] \in TXQ
      BY DEF TXQ, Data, Range
    <3> QED BY <3>1 DEF Ahead
  <2>2. SumFunctionOnSet(o, Ahead(q)) \in Int
    BY <1>3, <2>1, QueuesFinite, SumStep
  <2>3. PICK a \in Int : a = n - SumFunctionOnSet(o, Ahead(q))
    BY <2>2
  <2>4. Max({0, a}) = IF 0 <= a THEN a ELSE 0
    <3>1. 0 \in Int
      OBVIOUS
    <3> QED BY ONLY <3>1, a \in Int, MinMax
  <2>5. PICK b \in Nat : b = Max({0, a})
    BY <2>4
  <2>6. o[q] \in Nat
    BY <1>2
  <2>7. Min({o[q], b}) = IF o[q] <= b THEN o[q] ELSE b
    BY <2>5, <2>6, MinMax
  <2>8. g[q] = Min({o[q], b})
    BY <1>1, <1>4, <2>3, <2>5 DEF Grant
  <2> QED BY <2>5, <2>6, <2>7, <2>8
<1>6. g \in [TXQ -> Nat] /\ g \in [TXQ -> Int]
  <2>1. g = [q \in TXQ |-> g[q]]
    BY <1>4 DEF Grant
  <2>2. \A q \in TXQ : g[q] \in Nat
    BY <1>5
  <2> QED BY <2>1, <2>2
<1>7. \A q \in TXQ : /\ g[q] <= Len(txq[q].sk_list) /\ g[q] <= txq[q].credits
                     /\ PsOf(q) # p => g[q] = 0
  <2> SUFFICES ASSUME NEW q \in TXQ
               PROVE  /\ g[q] <= Len(txq[q].sk_list) /\ g[q] <= txq[q].credits
                      /\ PsOf(q) # p => g[q] = 0
    OBVIOUS
  <2>1. PICK a, b, c, d : a = Len(txq[q].sk_list) /\ b = txq[q].credits /\ c = o[q] /\ d = g[q]
    OBVIOUS
  <2>2. /\ c \in Nat /\ a \in Nat /\ b \in Nat /\ d \in Nat /\ c <= a /\ c <= b /\ d <= c
        /\ PsOf(q) # p => c = 0
    BY <1>2, <1>5, <2>1
  <2> QED BY <2>1, <2>2
<1> QED BY <1>4, <1>6, <1>7

\* A sleeping peer asks for buffers (rwnx_ps_bh_traffic_req).
LEMMA TrafficStep ==
  ASSUME Still, NEW n \in 0..1, NEW p \in PsIds, rwnx_ps_bh_traffic_req(n, p)
  PROVE  StillNext
<1>1. /\ Core(txq, ps, fw, xmit, made, retried) /\ PeerInv(txq, ps, peer, flushing)
      /\ Others(need, tasklet, ndev, vif, peer, flushing)
  BY DEF Still, Settled
<1>2. PICK ready : ready = ps.pkt_ready[p] - ps.sp_cnt[p]
  OBVIOUS
<1>3. PICK g : g = Grant(IF n = 0 \/ n > ready THEN ready ELSE n, p)
  OBVIOUS
<1>4. /\ ps.active /\ ps.sp_cnt[p] = 0
      /\ txq' = [q \in TXQ |->
                    IF g[q] > 0 THEN rwnx_txq_add_to_hw_list([txq[q] EXCEPT !.push_limit = g[q]])
                    ELSE txq[q]]
      /\ ps' = [ps EXCEPT !.sp_cnt[p] = SumFunctionOnSet(g, TXQ)]
      /\ need' = need \cup Linked(txq, txq')
      /\ tasklet' = TRUE
      /\ UNCHANGED <<xmit, fw, cfm, ndev, vif, peer, flushing, made, retried>>
  BY <1>2, <1>3 DEF rwnx_ps_bh_traffic_req
<1>5. Others(need', tasklet', ndev', vif', peer', flushing')
  <2>1. need' \subseteq Range(HwqOf)
    BY <1>1, <1>4, HwqType DEF Others
  <2> QED BY <1>1, <1>4, <2>1 DEF Others
<1>6. ps \in PsState /\ txq \in [TXQ -> Queue] /\ Totals(txq, ps)
      /\ \A q \in TXQ : Good(txq[q], made, retried) /\ txq[q].active /\ "STA_PS" \in txq[q].status
  BY <1>1, <1>4 DEF Core, PeerInv
<1>7. /\ g \in [TXQ -> Nat] /\ g \in [TXQ -> Int]
      /\ \A q \in TXQ : /\ g[q] <= Len(txq[q].sk_list) /\ g[q] <= txq[q].credits
                        /\ PsOf(q) # p => g[q] = 0
  <2>1. ps.pkt_ready[p] \in Nat /\ ps.sp_cnt[p] \in Int
    BY <1>6 DEF PsState
  <2>2. PICK k \in Int : k = IF n = 0 \/ n > ready THEN ready ELSE n
    BY <1>2, <2>1
  <2>3. g = Grant(k, p)
    BY <1>3, <2>2
  <2> QED BY <1>1, <2>2, <2>3, GrantIs
<1>8. PICK u, w : u = txq' /\ w = ps'
  OBVIOUS
<1>9. ASSUME NEW q \in TXQ
      PROVE  /\ Good(u[q], made, retried) /\ u[q].active /\ u[q].sk_list = txq[q].sk_list
             /\ "STA_PS" \in u[q].status
             /\ u[q].push_limit = IF g[q] > 0 THEN g[q] ELSE txq[q].push_limit
  <2>1. CASE g[q] > 0
    <3>1. PICK t, k : t = txq[q] /\ k = g[q]
      OBVIOUS
    <3>2. /\ Good(t, made, retried) /\ t.active /\ "STA_PS" \in t.status
          /\ k \in Nat /\ k > 0 /\ k <= Len(t.sk_list) /\ k <= t.credits
      BY <1>6, <1>7, <2>1, <3>1
    <3>3. PICK v : v = rwnx_txq_add_to_hw_list([t EXCEPT !.push_limit = k])
      OBVIOUS
    <3>4. /\ Good(v, made, retried) /\ v.active /\ v.sk_list = t.sk_list /\ v.push_limit = k
          /\ "STA_PS" \in v.status
      BY <3>2, <3>3, GrantGood
    <3>5. u[q] = v
      BY <1>4, <1>8, <2>1, <3>1, <3>3
    <3> QED BY <2>1, <3>1, <3>4, <3>5
  <2>2. CASE ~(g[q] > 0)
    <3>1. u[q] = txq[q]
      BY <1>4, <1>8, <2>2
    <3> QED BY <1>6, <2>2, <3>1
  <2> QED BY <2>1, <2>2
<1>10. u = [q \in TXQ |-> u[q]]
  BY <1>4, <1>8
<1>11. u \in [TXQ -> Queue]
  <2>1. \A q \in TXQ : u[q] \in Queue
    BY <1>9 DEF Good
  <2> QED BY <1>10, <2>1
<1>12. SumFunctionOnSet(g, TXQ) = Total(g, TXQ, p) /\ Total(g, TXQ, p) \in Int
  <2>1. TXQ \in SUBSET TXQ
    OBVIOUS
  <2> QED BY <1>7, <2>1, TotalAll, TotalInt
<1>13. /\ w \in PsState /\ w.active = ps.active /\ w.pkt_ready = ps.pkt_ready
       /\ \A z \in PsIds : w.sp_cnt[z] = IF z = p THEN Total(g, TXQ, p) ELSE ps.sp_cnt[z]
  <2>1. PICK k \in Int : k = Total(g, TXQ, p)
    BY <1>12
  <2>2. PICK z : z = [ps.sp_cnt EXCEPT ![p] = k]
    OBVIOUS
  <2>3. ps.sp_cnt \in [PsIds -> Int]
    BY <1>6 DEF PsState
  <2>4. z = [x \in PsIds |-> IF x = p THEN k ELSE ps.sp_cnt[x]]
    BY <2>2, <2>3
  <2>5. \A x \in PsIds : ps.sp_cnt[x] \in Int
    BY <2>3
  <2>6. z \in [PsIds -> Int]
    BY <2>1, <2>4, <2>5
  <2>7. w = [ps EXCEPT !.sp_cnt = z]
    BY <1>4, <1>6, <1>8, <1>12, <2>1, <2>2 DEF PsState
  <2>8. w \in PsState /\ w.active = ps.active /\ w.pkt_ready = ps.pkt_ready /\ w.sp_cnt = z
    BY <1>6, <2>6, <2>7 DEF PsState
  <2> QED BY <2>1, <2>4, <2>8
<1>14. /\ Limits(txq) \in [TXQ -> Int] /\ Limits(u) \in [TXQ -> Int] /\ Limits(txq) \in [TXQ -> Nat]
       /\ \A q \in TXQ : Limits(txq)[q] = txq[q].push_limit /\ Limits(u)[q] = u[q].push_limit
  BY <1>6, <1>11, CountsType
<1>15. ASSUME "interrupt" \notin allow, NEW z \in PsIds
       PROVE  w.sp_cnt[z] = Total(Limits(u), TXQ, z)
  <2>1. ps.sp_cnt[z] = Total(Limits(txq), TXQ, z)
    BY <1>4, <1>6, <1>15 DEF Totals
  <2>2. CASE z = p
    <3>1. Total(Limits(txq), TXQ, p) = 0
      BY <1>4, <2>1, <2>2
    <3>2. \A q \in TXQ : Limits(txq)[q] >= 0
      BY <1>14
    <3>3. ASSUME NEW q \in TXQ, PsOf(q) = p PROVE Limits(u)[q] = g[q]
      <4>1. Limits(txq)[q] = 0
        BY <1>14, <3>1, <3>2, <3>3, TotalNone
      <4>2. g[q] \in Nat /\ Limits(u)[q] = IF g[q] > 0 THEN g[q] ELSE 0
        BY <1>7, <1>9, <1>14, <4>1
      <4> QED BY <4>2
    <3>4. Total(Limits(u), TXQ, p) = Total(g, TXQ, p)
      BY <1>7, <1>14, <3>3, TotalAgree
    <3> QED BY <1>13, <2>2, <3>4
  <2>3. CASE z # p
    <3>1. ASSUME NEW q \in TXQ, PsOf(q) = z PROVE Limits(u)[q] = Limits(txq)[q]
      <4>1. g[q] = 0
        BY <1>7, <2>3, <3>1
      <4> QED BY <1>9, <1>14, <4>1
    <3>2. Total(Limits(u), TXQ, z) = Total(Limits(txq), TXQ, z)
      BY <1>14, <3>1, TotalAgree
    <3> QED BY <1>13, <2>1, <2>3, <3>2
  <2> QED BY <2>2, <2>3
<1>16. Totals(u, w)
  <2>1. Lengths(u) = Lengths(txq)
    BY <1>9 DEF Lengths
  <2>2. \A z \in PsIds : w.pkt_ready[z] = Total(Lengths(u), TXQ, z)
    BY <1>4, <1>6, <1>13, <2>1 DEF Totals
  <2>3. \A z \in PsIds : w.sp_cnt[z] \in Int
    BY <1>13 DEF PsState
  <2>4. ASSUME "interrupt" \notin allow, NEW z \in PsIds
        PROVE  w.sp_cnt[z] >= Total(Limits(u), TXQ, z) /\ w.sp_cnt[z] = Total(Limits(u), TXQ, z)
    BY <1>15, <2>3, <2>4
  <2> QED BY <2>2, <2>4 DEF Totals
<1>17. Core(u, w, fw, xmit, made, retried)
  BY <1>1, <1>9, <1>10, <1>13, <1>16, CoreMap
<1>18. PeerInv(u, w, peer, flushing)
  <2>1. InactiveOff(u) /\ flushing \in SUBSET TXQ
    BY <1>1, <1>9 DEF InactiveOff, Others
  <2>2. \A q \in TXQ : /\ u[q].active = txq[q].active
                       /\ "STA_PS" \in u[q].status <=> "STA_PS" \in txq[q].status
    <3>1. \A q \in TXQ : u[q].active \in BOOLEAN /\ txq[q].active \in BOOLEAN
      BY <1>6, <1>11 DEF Queue
    <3> QED BY <1>6, <1>9, <3>1
  <2> QED BY <1>1, <1>13, <2>1, <2>2, PeerSame
<1> QED BY <1>4, <1>5, <1>8, <1>17, <1>18 DEF StillNext, Still, Settled
-----------------------------------------------------------------------------
(* A buffer joins a queue.                                                  *)

\* One more buffer in one queue, one more in the counter of its ps_id.
LEMMA CountsOne ==
  ASSUME NEW t \in [TXQ -> Queue], NEW s \in PsState, Totals(t, s), NEW q \in TXQ,
         NEW u \in [TXQ -> Queue], \A y \in TXQ \ {q} : u[y] = t[y],
         Len(u[q].sk_list) = Len(t[q].sk_list) + 1, u[q].push_limit = t[q].push_limit
  PROVE  LET c == CountQueued(s, q)
         IN c \in PsState /\ c.active = s.active /\ Totals(u, c)
<1>1. /\ Lengths(t) \in [TXQ -> Int] /\ Lengths(u) \in [TXQ -> Int]
      /\ \A y \in TXQ : Lengths(t)[y] = Len(t[y].sk_list) /\ Lengths(u)[y] = Len(u[y].sk_list)
  BY CountsType
<1>2. Limits(u) = Limits(t)
  BY DEF Limits
<1>3. \A y \in TXQ \ {q} : Lengths(u)[y] = Lengths(t)[y]
  BY <1>1
<1>4. Lengths(u)[q] - Lengths(t)[q] = 1
  <2>1. Lengths(t)[q] \in Int /\ Lengths(u)[q] = Lengths(t)[q] + 1
    BY <1>1
  <2> QED BY <2>1
<1>5. \A p \in PsIds : /\ Total(Lengths(u), TXQ, p) = Total(Lengths(t), TXQ, p) + (IF PsOf(q) = p THEN 1 ELSE 0)
                       /\ Total(Lengths(t), TXQ, p) \in Int
  <2> SUFFICES ASSUME NEW p \in PsIds
               PROVE  /\ Total(Lengths(u), TXQ, p) = Total(Lengths(t), TXQ, p) + (IF PsOf(q) = p THEN 1 ELSE 0)
                      /\ Total(Lengths(t), TXQ, p) \in Int
    OBVIOUS
  <2>1. PICK f, h : f = Lengths(t) /\ h = Lengths(u)
    OBVIOUS
  <2>2. f \in [TXQ -> Int] /\ h \in [TXQ -> Int] /\ SameBut(h, f, q)
    BY <1>1, <1>3, <2>1 DEF SameBut
  <2>3. /\ Total(h, TXQ, p) = Total(f, TXQ, p) + (IF PsOf(q) = p THEN h[q] - f[q] ELSE 0)
        /\ Total(h, TXQ, p) \in Int /\ Total(f, TXQ, p) \in Int
    BY ONLY <2>2, TotalOne, q \in TXQ, Zenon
  <2> QED BY <1>4, <2>1, <2>3
<1>6. CASE ~s.active
  <2>1. CountQueued(s, q) = s
    BY <1>6 DEF CountQueued
  <2> QED BY <1>2, <1>6, <2>1 DEF Totals
<1>7. CASE s.active
  <2>1. PICK k : k = PsOf(q)
    OBVIOUS
  <2>2. k \in PsIds
    BY <2>1 DEF PsOf, PsIds
  <2>3. PICK a : a = [s.pkt_ready EXCEPT ![k] = @ + 1]
    OBVIOUS
  <2>4. PICK b : b = [s.tim EXCEPT ![k] = @ \/ s.pkt_ready[k] = 0]
    OBVIOUS
  <2>5. PICK c : c = CountQueued(s, q)
    OBVIOUS
  <2>6. s.pkt_ready \in [PsIds -> Nat] /\ s.tim \in [PsIds -> BOOLEAN]
    BY DEF PsState
  <2>7. a = [p \in PsIds |-> IF p = k THEN s.pkt_ready[k] + 1 ELSE s.pkt_ready[p]]
    BY <2>3, <2>6
  <2>8. \A p \in PsIds : s.pkt_ready[p] \in Nat
    BY <2>6
  <2>9. a \in [PsIds -> Nat]
    <3>1. s.pkt_ready[k] + 1 \in Nat
      BY <2>2, <2>8
    <3> QED BY <2>7, <2>8, <3>1
  <2>10. b \in [PsIds -> BOOLEAN]
    BY <2>2, <2>4, <2>6
  <2>11. c = [s EXCEPT !.pkt_ready = a, !.tim = b]
    BY <1>7, <2>1, <2>3, <2>4, <2>5 DEF CountQueued
  <2>12. c \in PsState /\ c.active = s.active /\ c.sp_cnt = s.sp_cnt /\ c.pkt_ready = a
    BY <2>9, <2>10, <2>11 DEF PsState
  <2>13. \A p \in PsIds : c.pkt_ready[p] = Total(Lengths(u), TXQ, p)
    <3> SUFFICES ASSUME NEW p \in PsIds PROVE c.pkt_ready[p] = Total(Lengths(u), TXQ, p)
      OBVIOUS
    <3>1. s.pkt_ready[p] = Total(Lengths(t), TXQ, p)
      BY <1>7 DEF Totals
    <3>2. c.pkt_ready[p] = IF p = k THEN s.pkt_ready[p] + 1 ELSE s.pkt_ready[p]
      BY <2>7, <2>12
    <3> QED BY <1>5, <2>1, <2>8, <3>1, <3>2
  <2>14. Totals(u, c)
    BY <1>2, <1>7, <2>12, <2>13 DEF Totals
  <2> QED BY <2>5, <2>12, <2>14
<1> QED BY <1>6, <1>7

\* The queues u are t but for the buffer f that may have joined its queue.
Joined(u, t, f) ==
  /\ \A y \in TXQ \ {f.q} : u[y].sk_list = t[y].sk_list
  /\ \A i \in DOMAIN u[f.q].sk_list :
        u[f.q].sk_list[i] = f.n \/ \E j \in DOMAIN t[f.q].sk_list : u[f.q].sk_list[i] = t[f.q].sk_list[j]

\* A buffer that was on its way, or in the firmware, is in its queue.
LEMMA PlacedOne ==
  ASSUME NEW t, NEW g \in SUBSET Frame, NEW x \in SUBSET Frame, NEW m, Placed(t, g, x, m),
         NEW f \in Frame, NEW g1 \in SUBSET g, NEW x1 \in SUBSET x, f \notin g1, f \notin x1,
         NEW u, Joined(u, t, f)
  PROVE  Placed(u, g1, x1, m)
<1>1. ASSUME NEW h \in g1 \cup x1
      PROVE  h.n <= m /\ \A i \in DOMAIN u[h.q].sk_list : u[h.q].sk_list[i] # h.n
  <2>1. h.n <= m /\ \A i \in DOMAIN t[h.q].sk_list : t[h.q].sk_list[i] # h.n
    BY DEF Placed
  <2>2. h \in Frame /\ h # f
    OBVIOUS
  <2>3. h.q = f.q => h.n # f.n
    BY <2>2 DEF Frame
  <2>4. CASE h.q = f.q
    BY <2>1, <2>3, <2>4 DEF Joined
  <2>5. CASE h.q # f.q
    <3>1. u[h.q].sk_list = t[h.q].sk_list
      BY <2>2, <2>5 DEF Frame, Joined
    <3> QED BY <2>1, <3>1
  <2> QED BY <2>4, <2>5
<1>2. g1 \cap x1 = {} /\ \A y, z \in x1 : y.q = z.q => y = z
  BY DEF Placed
<1> QED BY <1>1, <1>2 DEF Placed

\* A transmit call takes the lock and queues its buffer (rwnx_txq_queue_skb).
LEMMA XmitStep ==
  ASSUME Still, NEW x \in xmit, XmitQueue(x)
  PROVE  StillNext
<1>1. /\ Core(txq, ps, fw, xmit, made, retried) /\ PeerInv(txq, ps, peer, flushing)
      /\ Others(need, tasklet, ndev, vif, peer, flushing)
  BY DEF Still, Settled
<1>2. PICK q : q = x.q
  OBVIOUS
<1>3. /\ q \in TXQ /\ x \in Frame /\ x.n \in 1..MaxMade /\ x.n <= made /\ x \notin fw
      /\ made \in Nat /\ retried \in Nat /\ fw \subseteq Frame /\ xmit \subseteq Frame
      /\ \A i \in DOMAIN txq[q].sk_list : txq[q].sk_list[i] # x.n
  BY <1>1, <1>2, TxqAssumption DEF Core, Placed, Frame
<1>4. PICK o : o = txq[q]
  OBVIOUS
<1>5. o \in Queue /\ Sound(o, made, retried) /\ txq \in [TXQ -> Queue] /\ ps \in PsState /\ Totals(txq, ps)
      /\ Placed(txq, fw, xmit, made)
  BY <1>1, <1>3, <1>4 DEF Core, Good
<1>6. PICK e : e = Enqueue(o, x.n, FALSE)
  OBVIOUS
<1>7. /\ e \in Queue /\ Sound(e, made, retried) /\ e.active = o.active /\ e.status = o.status
      /\ e.linked = o.linked /\ e.push_limit = o.push_limit
      /\ e.sk_list # <<>> /\ Len(e.sk_list) = Len(o.sk_list) + 1
      /\ \A i \in DOMAIN e.sk_list : e.sk_list[i] = x.n \/ \E j \in DOMAIN o.sk_list : e.sk_list[i] = o.sk_list[j]
  <2>1. PICK n : n = x.n
    OBVIOUS
  <2>2. /\ made \in Nat /\ retried \in Nat /\ o \in Queue /\ Sound(o, made, retried)
        /\ n \in 1..MaxMade /\ n <= made /\ \A i \in DOMAIN o.sk_list : o.sk_list[i] # n
    BY <1>3, <1>4, <1>5, <2>1
  <2>3. LET b == Enqueue(o, n, FALSE)
        IN /\ b \in Queue /\ Sound(b, made, retried) /\ b.active = o.active /\ b.status = o.status
           /\ b.linked = o.linked /\ b.push_limit = o.push_limit
           /\ b.sk_list # <<>> /\ Len(b.sk_list) = Len(o.sk_list) + 1
           /\ \A i \in DOMAIN b.sk_list : b.sk_list[i] = n \/ \E j \in DOMAIN o.sk_list : b.sk_list[i] = o.sk_list[j]
    BY ONLY <2>2, EnqueueGood, Zenon
  <2> QED BY <1>6, <2>1, <2>3
<1>8. PICK t : t = MarkFlow(q, e)
  OBVIOUS
<1>9. /\ t \in Queue /\ Sound(t, made, retried) /\ Alike(t, e) /\ t.linked = e.linked
      /\ \A y \in Reasons \cup {"IN_HWQ_LIST"} : y \in t.status <=> y \in e.status
  BY <1>7, <1>8, FlowGood
<1>10. /\ t.active = o.active /\ t.push_limit = o.push_limit /\ t.sk_list = e.sk_list
       /\ "STA_PS" \in t.status <=> "STA_PS" \in o.status
       /\ Listed(t) <=> Listed(o)
  BY <1>7, <1>9 DEF Alike, Reasons, Listed
<1>11. PICK stopped : stopped = IF Overfull(q, t) THEN ndev \cup {q} ELSE ndev
  OBVIOUS
<1>12. stopped \in SUBSET Data
  BY <1>1, <1>11 DEF Others, Overfull
<1>13. PICK x1 : x1 = xmit \ {x}
  OBVIOUS
<1>14. xmit' = x1 /\ x1 \in SUBSET xmit /\ x \notin x1 /\ xmit \in SUBSET Frame /\ fw \in SUBSET Frame
       /\ UNCHANGED <<tasklet, cfm, vif, peer, flushing, made, retried>>
  BY <1>3, <1>13 DEF XmitQueue
\* with the buffer in its queue, linked or not
<1>15. ASSUME NEW a \in Queue, a.sk_list = t.sk_list, a.active = t.active,
              a.push_limit = t.push_limit, Good(a, made, retried),
              NEW u, u = [txq EXCEPT ![q] = a], NEW s \in PsState, Totals(u, s)
       PROVE  Core(u, s, fw, x1, made, retried)
  <2>1. u \in [TXQ -> Queue] /\ u[q] = a /\ \A y \in TXQ \ {q} : u[y] = txq[y]
    BY <1>3, <1>5, <1>15
  <2>2. Placed(u, fw, x1, made)
    <3>1. \A i \in DOMAIN u[x.q].sk_list :
            u[x.q].sk_list[i] = x.n \/ \E j \in DOMAIN txq[x.q].sk_list : u[x.q].sk_list[i] = txq[x.q].sk_list[j]
      BY <1>2, <1>4, <1>7, <1>10, <1>15, <2>1
    <3>2. \A y \in TXQ \ {x.q} : u[y].sk_list = txq[y].sk_list
      BY <1>2, <2>1
    <3>3. fw \in SUBSET fw /\ Joined(u, txq, x)
      BY <3>1, <3>2 DEF Joined
    <3> QED BY ONLY <1>3, <1>5, <1>14, <3>3, PlacedOne, Zenon
  <2>3. \A y \in TXQ : Good(u[y], made, retried)
    BY <1>1, <1>15, <2>1 DEF Core
  <2> QED BY <1>1, <1>14, <1>15, <2>1, <2>2, <2>3 DEF Core
<1>16. CASE rwnx_txq_is_stopped(t)
  <2>1. /\ txq' = [txq EXCEPT ![q] = t] /\ ps' = CountQueued(ps, q) /\ ndev' = stopped
        /\ UNCHANGED <<need, fw>>
    BY <1>2, <1>4, <1>6, <1>8, <1>11, <1>16 DEF XmitQueue
  <2>2. PICK u, w : u = txq' /\ w = ps'
    OBVIOUS
  <2>3. u \in [TXQ -> Queue] /\ u[q] = t /\ \A y \in TXQ \ {q} : u[y] = txq[y]
    BY <1>3, <1>5, <1>9, <2>1, <2>2
  <2>4. w \in PsState /\ w.active = ps.active /\ Totals(u, w)
    <3>1. Len(u[q].sk_list) = Len(txq[q].sk_list) + 1 /\ u[q].push_limit = txq[q].push_limit
      BY <1>4, <1>7, <1>10, <2>3
    <3> QED BY <1>3, <1>5, <2>1, <2>2, <2>3, <3>1, CountsOne
  <2>5. Good(t, made, retried)
    BY <1>9, <1>16 DEF Good, Ready
  <2>6. Core(u, w, fw, x1, made, retried)
    BY <1>9, <1>15, <2>1, <2>2, <2>4, <2>5
  <2>7. PeerInv(u, w, peer, flushing)
    <3>1. flushing \in SUBSET TXQ
      BY <1>1 DEF Others
    <3>2. \A y \in TXQ : u[y].active = txq[y].active /\ ("STA_PS" \in u[y].status <=> "STA_PS" \in txq[y].status)
      BY <1>4, <1>10, <2>3
    <3>3. InactiveOff(u)
      BY <1>1, <1>4, <1>10, <2>3 DEF PeerInv, InactiveOff
    <3> QED BY <1>1, <2>4, <3>1, <3>2, <3>3, PeerSame
  <2>8. Others(need', tasklet', ndev', vif', peer', flushing')
    BY <1>1, <1>12, <1>14, <2>1 DEF Others
  <2> QED BY <1>14, <2>1, <2>2, <2>6, <2>7, <2>8 DEF StillNext, Still, Settled
<1>17. CASE ~rwnx_txq_is_stopped(t)
  <2>1. "STA_PS" \notin o.status
    BY <1>10, <1>17 DEF rwnx_txq_is_stopped, Reasons
  <2>2. ~ps.active /\ CountQueued(ps, q) = ps
    BY <1>1, <1>3, <1>4, <2>1 DEF PeerInv, CountQueued
  <2>3. PICK a : a = rwnx_txq_add_to_hw_list(t)
    OBVIOUS
  <2>4. PICK u : u = [txq EXCEPT ![q] = a]
    OBVIOUS
  <2>5. /\ rwnx_hwq_process({HwqOf[q]}, u, ps, stopped)
        /\ need' = need \ {HwqOf[q]}
    BY <1>2, <1>4, <1>6, <1>8, <1>11, <1>17, <2>2, <2>3, <2>4 DEF XmitQueue
  <2>6. /\ Good(a, made, retried) /\ Alike(a, t) /\ Listed(a)
        /\ \A y \in Reasons : y \in a.status <=> y \in t.status
    BY <1>7, <1>9, <1>10, <1>17, <2>3, LinkGood
  <2>7. /\ a \in Queue /\ a.sk_list = t.sk_list /\ a.active = t.active /\ a.push_limit = t.push_limit
        /\ "STA_PS" \in a.status <=> "STA_PS" \in o.status
    BY <1>10, <2>6 DEF Good, Alike, Reasons
  <2>8. u \in [TXQ -> Queue] /\ u[q] = a /\ \A y \in TXQ \ {q} : u[y] = txq[y]
    BY <1>3, <1>5, <2>4, <2>7
  <2>9. Totals(u, ps)
    <3>1. \A y \in TXQ : u[y].push_limit = 0 \/ u[y].push_limit = txq[y].push_limit
      BY <1>4, <1>10, <2>7, <2>8
    <3> QED BY <1>5, <2>2, <2>8, <3>1, TotalsAwake
  <2>10. Core(u, ps, fw, x1, made, retried)
    BY <1>5, <1>15, <2>4, <2>6, <2>7, <2>9
  <2>11. Asleep(u, ps)
    BY <2>2 DEF Asleep
  <2>12. \A y \in TXQ : ~u[y].active /\ Listed(u[y]) => HwqOf[y] \in {HwqOf[q]} /\ u[y].push_limit = 0
    <3> SUFFICES ASSUME NEW y \in TXQ, ~u[y].active, Listed(u[y])
                 PROVE  HwqOf[y] \in {HwqOf[q]} /\ u[y].push_limit = 0
      OBVIOUS
    <3>1. CASE y = q
      <4>1. o.push_limit \in Nat /\ ~(o.push_limit > 0)
        BY <1>5, <2>1 DEF Queue, Sound
      <4> QED BY <1>10, <2>7, <2>8, <3>1, <4>1
    <3>2. CASE y # q
      BY <1>1, <2>8, <3>2 DEF PeerInv
    <3> QED BY <3>1, <3>2
  <2>13. /\ Core(txq', ps', fw', x1, made, retried) /\ ps'.active = ps.active /\ InactiveOff(txq')
         /\ ndev' \subseteq Data
         /\ \A y \in TXQ : /\ txq'[y].active = u[y].active
                           /\ "STA_PS" \in txq'[y].status <=> "STA_PS" \in u[y].status
    BY <1>12, <2>5, <2>10, <2>11, <2>12, PassCore
  <2>14. PICK z, w : z = txq' /\ w = ps'
    OBVIOUS
  <2>15. PeerInv(z, w, peer, flushing)
    <3>1. flushing \in SUBSET TXQ /\ w.active = ps.active /\ InactiveOff(z)
      BY <1>1, <2>13, <2>14 DEF Others
    <3>2. \A y \in TXQ : u[y].active = txq[y].active /\ ("STA_PS" \in u[y].status <=> "STA_PS" \in txq[y].status)
      BY <1>4, <1>10, <2>7, <2>8
    <3>3. \A y \in TXQ : z[y].active = txq[y].active /\ ("STA_PS" \in z[y].status <=> "STA_PS" \in txq[y].status)
      BY <2>13, <2>14, <3>2
    <3> QED BY <1>1, <3>1, <3>3, PeerSame
  <2>16. Others(need', tasklet', ndev', vif', peer', flushing')
    BY <1>1, <1>14, <2>5, <2>13 DEF Others
  <2> QED BY <1>14, <2>13, <2>14, <2>15, <2>16 DEF StillNext, Still, Settled
<1> QED BY <1>16, <1>17
-----------------------------------------------------------------------------
(* Confirmations.                                                           *)

\* The confirmation that found a queue ready links it.
LEMMA LinkStep ==
  ASSUME Inner, CfmLink
  PROVE  StillNext
<1>1. PICK c \in cfm :
        /\ \E st \in {c.status, txq[c.q].status} :
             txq' = [txq EXCEPT ![c.q].status = st \cup {"IN_HWQ_LIST"}, ![c.q].linked = @ + 1]
        /\ need' = need \cup {HwqOf[c.q]}
  BY DEF CfmLink
<1>2. /\ cfm' = {}
      /\ UNCHANGED <<ps, tasklet, xmit, fw, ndev, vif, peer, flushing, made, retried>>
  BY DEF CfmLink
<1>3. /\ txq \in [TXQ -> Queue] /\ ps \in PsState /\ xmit \subseteq Frame /\ fw \subseteq Frame
      /\ made \in 0..MaxMade /\ retried \in 0..MaxRetry
      /\ Others(need, tasklet, ndev, vif, peer, flushing)
      /\ (\A y \in TXQ : Sound(txq[y], made, retried))
      /\ Placed(txq, fw, xmit, made) /\ PeerInv(txq, ps, peer, flushing)
      /\ CfmInv /\ ReadyInv /\ Totals(txq, ps)
  BY DEF Inner, QueueType
<1>4. PICK q \in TXQ : LET t == txq[q]
                       IN /\ cfm = {[q |-> q, status |-> t.status]}
                          /\ t.active /\ ~Listed(t) /\ t.sk_list # <<>>
                          /\ rwnx_txq_is_stopped(t) => t.push_limit > 0
  BY <1>1, <1>3 DEF CfmInv
<1>5. PICK t : t = txq[q]
  OBVIOUS
<1>6. /\ t \in Queue /\ Sound(t, made, retried) /\ t.active /\ ~Listed(t) /\ t.sk_list # <<>>
      /\ rwnx_txq_is_stopped(t) => t.push_limit > 0
      /\ c.q = q /\ c.status = t.status
  BY <1>3, <1>4, <1>5
<1>7. PICK a : a = rwnx_txq_add_to_hw_list(t)
  OBVIOUS
<1>8. /\ Good(a, made, retried) /\ Alike(a, t) /\ Listed(a)
      /\ \A x \in Reasons : x \in a.status <=> x \in t.status
  BY <1>6, <1>7, LinkGood
<1>9. PICK u : u = txq'
  OBVIOUS
<1>10. /\ u = [y \in TXQ |-> u[y]] /\ u[q] = a /\ \A y \in TXQ \ {q} : u[y] = txq[y]
  <2>1. a = [t EXCEPT !.status = @ \cup {"IN_HWQ_LIST"}, !.linked = @ + 1]
    BY <1>6, <1>7 DEF rwnx_txq_add_to_hw_list, Listed
  <2>2. PICK st : /\ st = t.status
                  /\ txq' = [txq EXCEPT ![c.q].status = st \cup {"IN_HWQ_LIST"}, ![c.q].linked = @ + 1]
    BY <1>1, <1>5, <1>6
  <2>3. u = [txq EXCEPT ![q].status = t.status \cup {"IN_HWQ_LIST"}, ![q].linked = @ + 1]
    BY <1>6, <1>9, <2>2
  <2>4. u[q] = [t EXCEPT !.status = t.status \cup {"IN_HWQ_LIST"}, !.linked = @ + 1]
    BY <1>3, <1>5, <2>3
  <2> QED BY <1>3, <2>1, <2>3, <2>4
<1>11. \A y \in TXQ : Good(u[y], made, retried)
  <2> SUFFICES ASSUME NEW y \in TXQ PROVE Good(u[y], made, retried)
    OBVIOUS
  <2>1. CASE y = q
    BY <1>8, <1>10, <2>1
  <2>2. CASE y # q
    <3>1. Ready(txq[y]) => Listed(txq[y])
      BY <1>3, <1>4, <2>2 DEF ReadyInv
    <3> QED BY <1>3, <1>10, <2>2, <3>1 DEF Good
  <2> QED BY <2>1, <2>2
<1>12. \A y \in TXQ : /\ u[y].sk_list = txq[y].sk_list /\ u[y].push_limit = txq[y].push_limit
                      /\ u[y].active = txq[y].active
                      /\ "STA_PS" \in u[y].status <=> "STA_PS" \in txq[y].status
  <2>1. "STA_PS" \in Reasons
    BY DEF Reasons
  <2> QED BY <1>5, <1>8, <1>10, <2>1 DEF Alike
<1>13. Core(u, ps, fw, xmit, made, retried)
  <2>1. u \in [TXQ -> Queue]
    <3>1. \A y \in TXQ : u[y] \in Queue
      BY <1>11 DEF Good
    <3> QED BY <1>10, <3>1
  <2>2. Totals(u, ps)
    BY <1>3, <1>12, TotalsSame
  <2>3. Placed(u, fw, xmit, made)
    <3>1. \A f \in fw \cup xmit : f.q \in TXQ
      BY <1>3 DEF Frame
    <3> QED BY <1>3, <1>12, <3>1 DEF Placed
  <2> QED BY <1>3, <1>11, <2>1, <2>2, <2>3 DEF Core
<1>14. PeerInv(u, ps, peer, flushing)
  <2>1. InactiveOff(u)
    BY <1>3, <1>5, <1>6, <1>10, <1>12 DEF PeerInv, InactiveOff
  <2> QED BY <1>3, <1>12, <2>1, PeerSame DEF Others
<1>15. Others(need', tasklet', ndev', vif', peer', flushing')
  BY <1>1, <1>2, <1>3, <1>6, HwqType DEF Others
<1> QED BY <1>2, <1>9, <1>13, <1>14, <1>15 DEF StillNext, Settled

\* A confirmation, perhaps with a retry, from a state without another (rwnx_txdatacfm).
LEMMA CfmStep ==
  ASSUME Still, NEW f \in fw, NEW retry \in BOOLEAN, rwnx_txdatacfm(f, retry),
         Credits + retried' <= 127, allow' = allow
  PROVE  Inner'
<1>1. /\ Core(txq, ps, fw, xmit, made, retried) /\ PeerInv(txq, ps, peer, flushing)
      /\ Others(need, tasklet, ndev, vif, peer, flushing)
  BY DEF Still, Settled
<1>2. PICK q, t : q = f.q /\ t = txq[q]
  OBVIOUS
<1> DEFINE again == retry /\ t.active /\ q # Mgmt
<1>3. PICK u : u = IF again THEN MarkFlow(q, rwnx_tx_retry(t, f.n)) ELSE t
  OBVIOUS
<1> DEFINE link == IF again THEN ~rwnx_txq_is_stopped(u) ELSE t.active /\ t.push_limit > 0
<1>4. /\ retry => retried < MaxRetry /\ retried' = retried + 1
      /\ ~retry => retried' = retried
      /\ fw' = fw \ {f}
      /\ need' = need \cup {HwqOf[q]}
      /\ txq' = [txq EXCEPT ![q] = u]
      /\ ps' = IF again THEN CountQueued(ps, q) ELSE ps
      /\ ndev' = IF again /\ Overfull(q, u) THEN ndev \cup {q} ELSE ndev
      /\ cfm' = IF link /\ "IN_HWQ_LIST" \notin u.status THEN {[q |-> q, status |-> u.status]} ELSE {}
      /\ UNCHANGED <<tasklet, xmit, vif, peer, flushing, made>>
  BY <1>2, <1>3 DEF rwnx_txdatacfm
<1> HIDE DEF again, link
<1>5. /\ q \in TXQ /\ f \in Frame /\ f.q = q /\ f.n \in 1..MaxMade /\ f.n <= made /\ f \notin xmit
      /\ made \in Nat /\ retried \in Nat /\ fw \in SUBSET Frame /\ xmit \in SUBSET Frame
      /\ \A i \in DOMAIN t.sk_list : t.sk_list[i] # f.n
      /\ txq \in [TXQ -> Queue] /\ ps \in PsState /\ Totals(txq, ps) /\ Placed(txq, fw, xmit, made)
  BY <1>1, <1>2, TxqAssumption DEF Core, Placed, Frame
<1>6. Good(t, made, retried) /\ t \in Queue /\ Sound(t, made, retried)
  BY <1>1, <1>2, <1>5 DEF Core, Good
<1>7. retried' \in 0..MaxRetry /\ retried' \in Nat /\ retried <= retried'
  <2>1. MaxRetry \in Nat /\ retried \in 0..MaxRetry
    BY <1>1, TxqAssumption DEF Core
  <2>2. CASE retry
    BY <1>4, <1>5, <2>1, <2>2
  <2>3. CASE ~retry
    <3>1. retried' = retried
      BY <1>4, <2>3
    <3> QED BY <1>5, <2>1, <3>1
  <2> QED BY <2>2, <2>3
<1>8. \A y \in TXQ : Good(txq[y], made, retried')
  <2> SUFFICES ASSUME NEW y \in TXQ PROVE Good(txq[y], made, retried')
    OBVIOUS
  <2>1. Good(txq[y], made, retried) /\ made <= made
    BY <1>1, <1>5 DEF Core
  <2> QED BY <1>5, <1>7, <2>1, GoodLater
\* the queue itself
<1>9. CASE again
  <2>1. retry /\ t.active /\ u = MarkFlow(q, rwnx_tx_retry(t, f.n)) /\ link = ~rwnx_txq_is_stopped(u)
        /\ ps' = CountQueued(ps, q)
    BY <1>3, <1>4, <1>9 DEF again, link
  <2>2. PICK n, e : n = f.n /\ e = rwnx_tx_retry(t, n)
    OBVIOUS
  <2>3. /\ e \in Queue /\ Sound(e, made, retried + 1) /\ e.active /\ e.status = t.status
        /\ e.linked = t.linked /\ e.push_limit = t.push_limit
        /\ e.sk_list # <<>> /\ Len(e.sk_list) = Len(t.sk_list) + 1
        /\ \A i \in DOMAIN e.sk_list : e.sk_list[i] = n \/ \E j \in DOMAIN t.sk_list : e.sk_list[i] = t.sk_list[j]
    <3>1. /\ made \in Nat /\ retried \in Nat /\ t \in Queue /\ Sound(t, made, retried) /\ t.active
          /\ Credits + (retried + 1) <= 127
          /\ n \in 1..MaxMade /\ n <= made /\ \A i \in DOMAIN t.sk_list : t.sk_list[i] # n
      BY <1>4, <1>5, <1>6, <2>1, <2>2
    <3>2. LET z == rwnx_tx_retry(t, n)
          IN /\ z \in Queue /\ Sound(z, made, retried + 1) /\ z.active /\ z.status = t.status
             /\ z.linked = t.linked /\ z.push_limit = t.push_limit
             /\ z.sk_list # <<>> /\ Len(z.sk_list) = Len(t.sk_list) + 1
             /\ \A i \in DOMAIN z.sk_list : z.sk_list[i] = n \/ \E j \in DOMAIN t.sk_list : z.sk_list[i] = t.sk_list[j]
      BY ONLY <3>1, RetryGood, ZenonT(60)
    <3> QED BY <2>2, <3>2
  <2>4. /\ u \in Queue /\ Sound(u, made, retried + 1) /\ Alike(u, e) /\ u.linked = e.linked
        /\ \A x \in Reasons \cup {"IN_HWQ_LIST"} : x \in u.status <=> x \in e.status
    BY <2>1, <2>2, <2>3, FlowGood
  <2>5. /\ u.active /\ u.push_limit = t.push_limit /\ u.sk_list = e.sk_list
        /\ "STA_PS" \in u.status <=> "STA_PS" \in t.status
        /\ Listed(u) <=> Listed(t)
    BY <2>3, <2>4 DEF Alike, Reasons, Listed
  <2>6. PICK v, w : v = txq' /\ w = ps'
    OBVIOUS
  <2>7. v \in [TXQ -> Queue] /\ v[q] = u /\ \A y \in TXQ \ {q} : v[y] = txq[y]
    BY <1>4, <1>5, <2>4, <2>6
  <2>8. w \in PsState /\ w.active = ps.active /\ Totals(v, w)
    <3>1. Len(v[q].sk_list) = Len(txq[q].sk_list) + 1 /\ v[q].push_limit = txq[q].push_limit
      BY <1>2, <2>3, <2>5, <2>7
    <3> QED BY <1>5, <2>1, <2>6, <2>7, <3>1, CountsOne
  <2>9. Placed(v, fw', xmit, made)
    <3>1. Joined(v, txq, f)
      BY <1>2, <1>5, <2>2, <2>3, <2>5, <2>7 DEF Joined
    <3>2. fw' \in SUBSET fw /\ xmit \in SUBSET xmit /\ f \notin fw'
      BY <1>4
    <3> QED BY ONLY <1>5, <3>1, <3>2, PlacedOne, Zenon
  <2>10. \A y \in TXQ : Sound(v[y], made, retried')
    BY <1>4, <1>8, <2>1, <2>4, <2>7 DEF Good
  <2>11. PeerInv(v, w, peer, flushing)
    <3>1. \A y \in TXQ : v[y].active = txq[y].active /\ ("STA_PS" \in v[y].status <=> "STA_PS" \in txq[y].status)
      <4>1. u.active = t.active
        BY <1>6, <2>1, <2>4, <2>5 DEF Queue
      <4> QED BY <1>2, <2>5, <2>7, <4>1
    <3>2. InactiveOff(v) /\ flushing \in SUBSET TXQ
      BY <1>1, <2>5, <2>7 DEF PeerInv, InactiveOff, Others
    <3> QED BY <1>1, <2>8, <3>1, <3>2, PeerSame
  <2>12. cfm' = IF ~rwnx_txq_is_stopped(u) /\ ~Listed(u) THEN {[q |-> q, status |-> u.status]} ELSE {}
    BY <1>4, <2>1 DEF Listed
  <2>13. ASSUME cfm' # {}
         PROVE  \E y \in TXQ : /\ cfm' = {[q |-> y, status |-> v[y].status]}
                               /\ v[y].active /\ ~Listed(v[y]) /\ v[y].sk_list # <<>>
                               /\ rwnx_txq_is_stopped(v[y]) => v[y].push_limit > 0
    BY <1>5, <2>3, <2>5, <2>7, <2>12, <2>13
  <2>14. \A y \in TXQ : Ready(v[y]) => Listed(v[y]) \/ \E c \in cfm' : c.q = y
    <3> SUFFICES ASSUME NEW y \in TXQ, Ready(v[y]), ~Listed(v[y]) PROVE \E c \in cfm' : c.q = y
      OBVIOUS
    <3>1. CASE y = q
      BY <2>7, <2>12, <3>1 DEF Ready
    <3>2. CASE y # q
      BY <1>8, <2>7, <3>2 DEF Good
    <3> QED BY <3>1, <3>2
  <2>15. Others(need', tasklet', ndev', vif', peer', flushing')
    BY <1>1, <1>4, <1>5, HwqType DEF Others, Overfull
  <2>16. QueueType'
    BY <1>1, <1>4, <1>5, <1>7, <2>6, <2>7, <2>8 DEF QueueType, Core
  <2>17. (\A y \in TXQ : Sound(txq[y], made, retried))'
    BY <1>4, <2>6, <2>10 DEF Sound, Limited, Listed, RetriesLead, Distinct
  <2>18. Placed(txq, fw, xmit, made)' /\ PeerInv(txq, ps, peer, flushing)' /\ Totals(txq, ps)'
    <3>1. UNCHANGED <<xmit, peer, flushing, made>> /\ txq' = v /\ ps' = w
      BY <1>4, <2>6
    <3>2. Placed(txq, fw, xmit, made)'
      BY <2>9, <3>1 DEF Placed
    <3>3. PeerInv(txq, ps, peer, flushing)'
      BY <2>11, <3>1 DEF PeerInv, Listed
    <3>4. Totals(txq, ps)'
      BY <2>8, <3>1 DEF Totals, Lengths, Limits
    <3> QED BY <3>2, <3>3, <3>4
  <2>19. CfmInv' /\ ReadyInv'
    BY <2>6, <2>13, <2>14 DEF CfmInv, ReadyInv, Ready, Listed, rwnx_txq_is_stopped
  <2> QED BY <2>15, <2>16, <2>17, <2>18, <2>19 DEF Inner, Others
<1>10. CASE ~again
  <2>1. u = t /\ link = (t.active /\ t.push_limit > 0) /\ ps' = ps /\ ndev' = ndev
    BY <1>3, <1>4, <1>10 DEF again, link
  <2>2. txq' = txq
    BY <1>2, <1>4, <1>5, <2>1
  <2>3. Placed(txq, fw', xmit, made)
    BY <1>4, <1>5 DEF Placed
  <2>4. \A y \in TXQ : Sound(txq[y], made, retried')
    BY <1>8 DEF Good
  <2>5. cfm' = IF t.active /\ t.push_limit > 0 /\ ~Listed(t) THEN {[q |-> q, status |-> t.status]} ELSE {}
    BY <1>4, <2>1 DEF Listed
  <2>6. ASSUME cfm' # {}
        PROVE  \E y \in TXQ : /\ cfm' = {[q |-> y, status |-> txq[y].status]}
                              /\ txq[y].active /\ ~Listed(txq[y]) /\ txq[y].sk_list # <<>>
                              /\ rwnx_txq_is_stopped(txq[y]) => txq[y].push_limit > 0
    <3>1. t.active /\ t.push_limit > 0 /\ ~Listed(t) /\ cfm' = {[q |-> q, status |-> t.status]}
      BY <2>5, <2>6
    <3>2. t.push_limit <= Len(t.sk_list) /\ t.push_limit \in Nat /\ Len(<<>>) = 0
      BY <1>6, <3>1 DEF Sound, Queue
    <3>3. t.sk_list # <<>>
      BY <3>1, <3>2
    <3> QED BY <1>2, <1>5, <3>1, <3>3
  <2>7. \A y \in TXQ : Ready(txq[y]) => Listed(txq[y])
    BY <1>8 DEF Good
  <2>8. Others(need', tasklet', ndev', vif', peer', flushing')
    BY <1>1, <1>4, <1>5, <2>1, HwqType DEF Others
  <2>9. QueueType'
    BY <1>1, <1>4, <1>5, <1>7, <2>1, <2>2 DEF QueueType, Core
  <2>10. (\A y \in TXQ : Sound(txq[y], made, retried))'
    BY <1>4, <2>2, <2>4 DEF Sound, Limited, Listed, RetriesLead, Distinct
  <2>11. Placed(txq, fw, xmit, made)' /\ PeerInv(txq, ps, peer, flushing)' /\ Totals(txq, ps)'
    <3>1. UNCHANGED <<xmit, peer, flushing, made, txq, ps>>
      BY <1>4, <2>1, <2>2
    <3>2. Placed(txq, fw, xmit, made)'
      BY <2>3, <3>1 DEF Placed
    <3>3. PeerInv(txq, ps, peer, flushing)'
      BY <1>1, <3>1 DEF PeerInv, Listed
    <3>4. Totals(txq, ps)'
      BY <1>5, <3>1 DEF Totals, Lengths, Limits
    <3> QED BY <3>2, <3>3, <3>4
  <2>12. CfmInv' /\ ReadyInv'
    BY <2>2, <2>6, <2>7 DEF CfmInv, ReadyInv, Ready, Listed, rwnx_txq_is_stopped
  <2> QED BY <2>8, <2>9, <2>10, <2>11, <2>12 DEF Inner, Others
<1> QED BY <1>9, <1>10
-----------------------------------------------------------------------------
(* The invariant and the theorem.                                           *)

\* In the initial state every queue is new and nothing is on its way.
LEMMA QueuesInit == Init => TxInv
<1> SUFFICES ASSUME Init PROVE TxInv
  OBVIOUS
<1>1. PICK t : t = txq
  OBVIOUS
<1>2. /\ t = [q \in TXQ |-> Fresh({})] /\ ps = PsOff
      /\ need = {} /\ tasklet = FALSE /\ xmit = {} /\ fw = {} /\ cfm = {} /\ ndev = {}
      /\ vif = {} /\ peer = "up" /\ flushing = {} /\ made = 0 /\ retried = 0
  BY <1>1 DEF Init
<1>3. ASSUME NEW q \in TXQ
      PROVE  /\ Good(t[q], made, retried) /\ t[q].active /\ t[q].status = {} /\ t[q].push_limit = 0
             /\ t[q].sk_list = <<>>
  <2>1. {} \in SUBSET Reasons /\ made \in Nat /\ retried \in Nat /\ t[q] = Fresh({})
    BY <1>2
  <2>2. LET u == Fresh({})
        IN /\ Good(u, made, retried) /\ u.active /\ u.status = {} /\ u.sk_list = <<>> /\ u.push_limit = 0
           /\ ~Listed(u)
    BY ONLY <2>1, FreshGood, Zenon
  <2> QED BY <2>1, <2>2
<1>4. t \in [TXQ -> Queue]
  <2>1. \A q \in TXQ : t[q] \in Queue
    BY <1>3 DEF Good
  <2> QED BY <1>2, <2>1
<1>5. /\ ps \in PsState /\ ~ps.active /\ ps.sp_cnt = [p \in PsIds |-> 0]
  BY <1>2 DEF PsOff, PsState
<1>6. Totals(t, ps)
  <2>1. /\ Limits(t) \in [TXQ -> Int] /\ \A q \in TXQ : Limits(t)[q] = 0
    BY <1>3, <1>4, CountsType
  <2>2. \A p \in PsIds : Total(Limits(t), TXQ, p) = 0
    BY <2>1, TotalZero
  <2> QED BY <1>5, <2>2 DEF Totals
<1>7. Core(t, ps, fw, xmit, made, retried)
  <2>1. Placed(t, fw, xmit, made)
    BY <1>2 DEF Placed
  <2>2. made \in 0..MaxMade /\ retried \in 0..MaxRetry
    BY <1>2, TxqAssumption
  <2> QED BY <1>2, <1>3, <1>4, <1>5, <1>6, <2>1, <2>2 DEF Core
<1>8. PeerInv(t, ps, peer, flushing)
  BY <1>2, <1>3, <1>5 DEF PeerInv
<1>9. Others(need, tasklet, ndev, vif, peer, flushing)
  BY <1>2 DEF Others
<1>10. Inner
  <2>1. QueueType /\ \A q \in TXQ : Sound(txq[q], made, retried) /\ (Ready(txq[q]) => Listed(txq[q]))
    BY <1>1, <1>7 DEF Core, Good, QueueType
  <2>2. CfmInv /\ ReadyInv
    BY <1>2, <2>1 DEF CfmInv, ReadyInv
  <2> QED BY <1>1, <1>7, <1>8, <1>9, <2>1, <2>2 DEF Inner, Core
<1> QED BY <1>2, <1>10 DEF TxInv

\* Only the firmware's request for a retry is counted.
LEMMA RetriesOnce ==
  ASSUME retried \in Nat, Next
  PROVE  retried' \in Nat /\ retried <= retried'
<1>1. CASE \E f \in fw, retry \in BOOLEAN : rwnx_txdatacfm(f, retry)
  BY <1>1 DEF rwnx_txdatacfm
<1>2. CASE UNCHANGED retried
  BY <1>2
<1>3. CASE \E x \in xmit : XmitQueue(x)
  BY <1>2, <1>3 DEF XmitQueue
<1>4. CASE CfmLink \/ rwnx_task \/ SpInterrupted \/ rwnx_cfg80211_del_station
  BY <1>2, <1>4 DEF CfmLink, rwnx_task, SpInterrupted, rwnx_cfg80211_del_station
<1>5. CASE \E q \in TXQ : XmitCheck(q) \/ rwnx_txq_deinit(q) \/ rwnx_txq_flush(q)
  BY <1>2, <1>5 DEF XmitCheck, rwnx_txq_deinit, rwnx_txq_flush
<1>6. CASE \/ \E on \in BOOLEAN : rwnx_ps_bh_enable(on)
           \/ \E n \in 0..1, p \in PsIds : rwnx_ps_bh_traffic_req(n, p)
           \/ \E b \in BOOLEAN : rwnx_cfg80211_add_station(b)
  BY <1>2, <1>6 DEF rwnx_ps_bh_enable, rwnx_ps_bh_traffic_req, rwnx_cfg80211_add_station
<1>7. CASE \/ rwnx_rx_chan_pre_switch_ind \/ rwnx_rx_chan_switch_ind
           \/ \E b \in BOOLEAN : rwnx_rx_p2p_vif_ps_change_ind(b) \/ rwnx_rx_csa_traffic_ind(b)
  <2>1. ASSUME NEW reason PROVE VifStart(reason) \/ VifStop(reason) => UNCHANGED retried
    BY DEF VifStart, VifStop
  <2> QED BY <1>2, <1>7, <2>1 DEF rwnx_rx_chan_pre_switch_ind, rwnx_rx_chan_switch_ind,
                            rwnx_rx_p2p_vif_ps_change_ind, rwnx_rx_csa_traffic_ind
<1> QED BY <1>1, <1>3, <1>4, <1>5, <1>6, <1>7 DEF Next

\* The steps that find no confirmation under way and leave none.
LEMMA LockedStep ==
  ASSUME Still, Next, ~CfmLink, ~ \E f \in fw, retry \in BOOLEAN : rwnx_txdatacfm(f, retry)
  PROVE  StillNext
<1>0. "CHAN" \in Reasons \ {"STA_PS"} /\ "VIF_PS" \in Reasons \ {"STA_PS"} /\ "CSA" \in Reasons \ {"STA_PS"}
      /\ tasklet \in BOOLEAN
  BY DEF Reasons, Still, Others
<1>1. ASSUME NEW q \in TXQ, XmitCheck(q) PROVE StillNext
  BY <1>1, CheckStep
<1>2. ASSUME NEW q \in TXQ, rwnx_txq_deinit(q) PROVE StillNext
  BY <1>2, DeinitStep
<1>3. ASSUME NEW q \in TXQ, rwnx_txq_flush(q) PROVE StillNext
  BY <1>3, FlushStep
<1>4. ASSUME NEW x \in xmit, XmitQueue(x) PROVE StillNext
  BY <1>4, XmitStep
<1>5. CASE rwnx_task
  BY <1>5, TaskStep
<1>6. ASSUME NEW on \in BOOLEAN, rwnx_ps_bh_enable(on) PROVE StillNext
  BY <1>6, PsStep
<1>7. ASSUME NEW n \in 0..1, NEW p \in PsIds, rwnx_ps_bh_traffic_req(n, p) PROVE StillNext
  BY <1>7, TrafficStep
<1>8. CASE SpInterrupted
  BY <1>8, InterruptStep
<1>9. CASE rwnx_rx_chan_pre_switch_ind
  BY <1>0, <1>9, VifStopStep DEF rwnx_rx_chan_pre_switch_ind
<1>10. CASE rwnx_rx_chan_switch_ind
  BY <1>0, <1>10, VifStartStep DEF rwnx_rx_chan_switch_ind
<1>11. ASSUME NEW b \in BOOLEAN, rwnx_rx_p2p_vif_ps_change_ind(b) PROVE StillNext
  <2>1. (VifStart("VIF_PS") /\ tasklet' \in BOOLEAN) \/ VifStop("VIF_PS")
    BY <1>11 DEF rwnx_rx_p2p_vif_ps_change_ind
  <2> QED BY <1>0, <2>1, VifStartStep, VifStopStep
<1>12. ASSUME NEW b \in BOOLEAN, rwnx_rx_csa_traffic_ind(b) PROVE StillNext
  <2>1. (VifStart("CSA") /\ tasklet' \in BOOLEAN) \/ VifStop("CSA")
    BY <1>0, <1>12 DEF rwnx_rx_csa_traffic_ind
  <2> QED BY <1>0, <2>1, VifStartStep, VifStopStep
<1>13. CASE rwnx_cfg80211_del_station
  BY <1>13, DelStationStep
<1>14. ASSUME NEW b \in BOOLEAN, rwnx_cfg80211_add_station(b) PROVE StillNext
  BY <1>14, AddStationStep
<1> QED BY <1>1, <1>2, <1>3, <1>4, <1>5, <1>6, <1>7, <1>8, <1>9, <1>10, <1>11, <1>12, <1>13, <1>14 DEF Next

\* Every step keeps the invariant.
LEMMA QueuesStep == TxInv /\ [Next]_vars => TxInv'
<1> SUFFICES ASSUME TxInv, [Next]_vars PROVE TxInv'
  OBVIOUS
<1>1. CASE Next
  <2>1. allow' = allow
    BY <1>1 DEF Next, Same
  <2>2. retried \in Nat /\ retried' \in Nat /\ retried <= retried' /\ Credits \in Nat
    BY <1>1, RetriesOnce, TxqAssumption DEF TxInv
  <2>3. ASSUME Serialised' PROVE Inner'
    <3>1. "race" \notin allow /\ Credits + retried' <= 127 /\ Inner
      <4>1. "race" \notin allow /\ Credits + retried' <= 127
        BY <2>1, <2>3 DEF Serialised
      <4>2. Credits + retried <= 127
        <5>1. PICK a, b \in Nat : a = retried /\ b = retried'
          BY <2>2
        <5>2. a <= b /\ Credits + b <= 127 /\ Credits \in Nat
          BY <2>2, <4>1, <5>1
        <5>3. Credits + a <= 127
          BY ONLY <5>2, a \in Nat, b \in Nat, SMT
        <5> QED BY <5>1, <5>3
      <4> QED BY <4>1, <4>2 DEF TxInv, Serialised
    <3>2. ASSUME cfm = {} PROVE Still
      BY <3>1, <3>2, Apart DEF Still
    <3>3. ASSUME StillNext PROVE Inner'
      BY <2>1, <3>3, Together DEF StillNext
    <3>4. CASE CfmLink
      BY <3>1, <3>3, <3>4, LinkStep
    <3>5. ASSUME NEW f \in fw, NEW retry \in BOOLEAN, rwnx_txdatacfm(f, retry) PROVE Inner'
      <4>1. cfm = {}
        BY <3>5 DEF rwnx_txdatacfm
      <4> QED BY <2>1, <3>1, <3>2, <3>5, <4>1, CfmStep
    <3>6. CASE ~CfmLink /\ ~ \E f \in fw, retry \in BOOLEAN : rwnx_txdatacfm(f, retry)
      <4>1. Unlocked
        <5>1. ASSUME NEW reason PROVE VifStart(reason) \/ VifStop(reason) => Unlocked
          BY DEF VifStart, VifStop
        <5>2. CASE \/ rwnx_rx_chan_pre_switch_ind \/ rwnx_rx_chan_switch_ind
                   \/ \E b \in BOOLEAN : rwnx_rx_p2p_vif_ps_change_ind(b) \/ rwnx_rx_csa_traffic_ind(b)
          BY <5>1, <5>2 DEF rwnx_rx_chan_pre_switch_ind, rwnx_rx_chan_switch_ind,
                            rwnx_rx_p2p_vif_ps_change_ind, rwnx_rx_csa_traffic_ind
        <5>3. CASE \/ \E q \in TXQ : XmitCheck(q) \/ rwnx_txq_deinit(q) \/ rwnx_txq_flush(q)
                   \/ \E x \in xmit : XmitQueue(x)
          BY <5>3 DEF XmitCheck, rwnx_txq_deinit, rwnx_txq_flush, XmitQueue
        <5>4. CASE rwnx_task \/ SpInterrupted \/ rwnx_cfg80211_del_station
          BY <5>4 DEF rwnx_task, SpInterrupted, rwnx_cfg80211_del_station
        <5>5. CASE \/ \E on \in BOOLEAN : rwnx_ps_bh_enable(on)
                   \/ \E n \in 0..1, p \in PsIds : rwnx_ps_bh_traffic_req(n, p)
                   \/ \E b \in BOOLEAN : rwnx_cfg80211_add_station(b)
          BY <5>5 DEF rwnx_ps_bh_enable, rwnx_ps_bh_traffic_req, rwnx_cfg80211_add_station
        <5> QED BY <1>1, <3>6, <5>2, <5>3, <5>4, <5>5 DEF Next
      <4>2. Still
        BY <3>1, <3>2, <4>1 DEF Unlocked
      <4> QED BY <1>1, <3>3, <3>6, <4>2, LockedStep
    <3> QED BY <3>4, <3>5, <3>6
  <2> QED BY <2>2, <2>3 DEF TxInv
<1>2. CASE UNCHANGED vars
  <2>1. UNCHANGED <<txq, ps, need, tasklet, xmit, fw, cfm, ndev, vif, peer, flushing, made, retried, allow>>
    BY <1>2 DEF vars
  <2>2. QueueType' = QueueType /\ CfmInv' = CfmInv
    BY <2>1 DEF QueueType, CfmInv, Listed, rwnx_txq_is_stopped
  <2>3. ReadyInv' = ReadyInv
    BY <2>1 DEF ReadyInv, Ready, Listed, rwnx_txq_is_stopped
  <2>4. Others(need, tasklet, ndev, vif, peer, flushing)' = Others(need, tasklet, ndev, vif, peer, flushing)
    BY <2>1 DEF Others
  <2>5. (\A q \in TXQ : Sound(txq[q], made, retried))' = (\A q \in TXQ : Sound(txq[q], made, retried))
    BY <2>1 DEF Sound, Limited, Listed, RetriesLead, Distinct
  <2>6. Placed(txq, fw, xmit, made)' = Placed(txq, fw, xmit, made)
    BY <2>1 DEF Placed
  <2>7. PeerInv(txq, ps, peer, flushing)' = PeerInv(txq, ps, peer, flushing)
    BY <2>1 DEF PeerInv, Listed
  <2>8. Totals(txq, ps)' = Totals(txq, ps)
    BY <2>1 DEF Totals, Lengths, Limits
  <2>9. Inner' = Inner
    BY <2>2, <2>3, <2>4, <2>5, <2>6, <2>7, <2>8 DEF Inner
  <2> QED BY <2>1, <2>9 DEF TxInv, Serialised
<1> QED BY <1>1, <1>2

\* What the invariant says of one queue, as the property asks it.
LEMMA QueueTypes ==
  ASSUME NEW r \in 0..MaxRetry, NEW t \in Queue, Sound(t, made, r), Credits + r <= 127
  PROVE  t \in [active : BOOLEAN, status : SUBSET Flags, linked : 0..2, sk_list : Seq(1..MaxMade),
                credits : -128..127, nb_retry : 0..MaxRetry, last_retry : 0..MaxMade, push_limit : Nat]
<1>1. r \in Nat /\ r <= MaxRetry /\ Credits \in Nat /\ MaxRetry \in Nat
  BY TxqAssumption
<1>2. t.linked \in 0..2
  BY DEF Sound
<1>3. t.credits \in -128..127
  <2>1. t.credits \in Int /\ Credits <= t.credits /\ t.credits <= Credits + r
    BY DEF Queue, Sound
  <2> QED BY <1>1, <2>1
<1>4. t.nb_retry \in 0..MaxRetry
  <2>1. t.nb_retry \in Nat /\ t.nb_retry <= r
    BY DEF Queue, Sound
  <2> QED BY <1>1, <2>1
<1> QED BY <1>2, <1>3, <1>4 DEF Queue

\* The invariant says all that the property asks.
LEMMA QueuesImplied == TxInv => QueuesConsistent
<1> SUFFICES ASSUME TxInv, "race" \notin allow, Credits + retried <= 127
             PROVE  /\ ListedHasWork /\ LinkedOnce /\ ReadyIsListed /\ RetriesFirst
                    /\ "interrupt" \notin allow => TypeOK /\ PsCounts /\ AsleepIsLimited
  BY DEF QueuesConsistent
<1>1. /\ txq \in [TXQ -> Queue] /\ ps \in PsState /\ made \in 0..MaxMade /\ retried \in 0..MaxRetry
      /\ Others(need, tasklet, ndev, vif, peer, flushing)
      /\ CfmInv /\ ReadyInv /\ Totals(txq, ps)
  BY DEF TxInv, Serialised, Inner, QueueType
<1>2. \A q \in TXQ : txq[q] \in Queue /\ Sound(txq[q], made, retried)
  BY <1>1 DEF TxInv, Serialised, Inner
<1>3. \A q \in TXQ : txq[q].linked > 0 <=> Listed(txq[q])
  <2> SUFFICES ASSUME NEW q \in TXQ PROVE txq[q].linked > 0 <=> Listed(txq[q])
    OBVIOUS
  <2>1. txq[q].linked = IF Listed(txq[q]) THEN 1 ELSE 0
    BY <1>2 DEF Sound
  <2>2. CASE Listed(txq[q])
    BY <2>1, <2>2
  <2>3. CASE ~Listed(txq[q])
    BY <2>1, <2>3
  <2> QED BY <2>2, <2>3
<1>4. ListedHasWork
  <2> SUFFICES ASSUME NEW q \in TXQ, Listed(txq[q]), txq[q].active
               PROVE  txq[q].sk_list # <<>> /\ txq[q].credits > 0
    BY <1>3 DEF ListedHasWork
  <2>1. txq[q].sk_list # <<>> /\ Credits <= txq[q].credits
    BY <1>2 DEF Sound
  <2>2. Credits \in Nat /\ Credits >= 1 /\ txq[q].credits \in Int
    BY <1>2, TxqAssumption DEF Queue
  <2> QED BY <2>1, <2>2
<1>5. LinkedOnce
  BY <1>2 DEF LinkedOnce, Sound, Listed
<1>6. ReadyIsListed
  BY <1>1, <1>3 DEF ReadyIsListed, ReadyInv, Ready
<1>7. RetriesFirst
  BY <1>2 DEF RetriesFirst, Sound, RetriesLead
<1>8. ASSUME "interrupt" \notin allow
      PROVE  TypeOK /\ PsCounts /\ AsleepIsLimited
  <2>1. AsleepIsLimited
    BY <1>2, <1>3, <1>8 DEF AsleepIsLimited, Sound, Limited
  <2>2. PsCounts
    BY <1>1, <1>8 DEF PsCounts, Totals, Lengths, Limits
  <2>3. txq \in [TXQ -> [active : BOOLEAN, status : SUBSET Flags, linked : 0..2, sk_list : Seq(1..MaxMade),
                         credits : -128..127, nb_retry : 0..MaxRetry, last_retry : 0..MaxMade,
                         push_limit : Nat]]
    <3> DEFINE Q == [active : BOOLEAN, status : SUBSET Flags, linked : 0..2, sk_list : Seq(1..MaxMade),
                     credits : -128..127, nb_retry : 0..MaxRetry, last_retry : 0..MaxMade,
                     push_limit : Nat]
    <3>1. \A q \in TXQ : txq[q] \in Q
      BY <1>1, <1>2, QueueTypes
    <3> HIDE DEF Q
    <3>2. txq \in [TXQ -> Q]
      BY <1>1, <3>1
    <3> QED BY <3>2 DEF Q
  <2>4. ps.sp_cnt \in [PsIds -> Nat]
    <3>1. /\ Limits(txq) \in [TXQ -> Int]
          /\ \A q \in TXQ : Limits(txq)[q] = txq[q].push_limit /\ txq[q].push_limit \in Nat
      BY <1>1, <1>2, CountsType DEF Queue
    <3>2. ps.sp_cnt \in [PsIds -> Int]
      BY <1>1 DEF PsState
    <3>3. ASSUME NEW p \in PsIds PROVE ps.sp_cnt[p] \in Nat
      <4>1. \A q \in TXQ : PsOf(q) = p => Limits(txq)[q] >= 0
        BY <3>1
      <4>2. TXQ \in SUBSET TXQ
        OBVIOUS
      <4>3. Total(Limits(txq), TXQ, p) \in Nat
        BY <3>1, <4>1, <4>2, TotalNat
      <4>4. ps.sp_cnt[p] >= Total(Limits(txq), TXQ, p) /\ ps.sp_cnt[p] \in Int
        BY <1>1, <1>8, <3>2 DEF Totals
      <4> QED BY <4>3, <4>4
    <3> QED BY <3>2, <3>3
  <2>5. ps \in [active : BOOLEAN, pkt_ready : [PsIds -> Nat], sp_cnt : [PsIds -> Nat],
                tim : [PsIds -> BOOLEAN]]
    BY <1>1, <2>4 DEF PsState
  <2>6. TypeOK
    BY <1>1, <2>3, <2>5 DEF TypeOK, Others
  <2> QED BY <2>1, <2>2, <2>6
<1> QED BY <1>4, <1>5, <1>6, <1>7, <1>8

\* Where confirmations are serialised and no queue's credits have overflowed, every queue in a
\* hardware list is there once and has a buffer and a credit for it, every one that may push is
\* there, retries go first, and the counters of a sleeping peer add up (rwnx_txq.c, rwnx_tx.c).
THEOREM QueuesTheorem == Spec => []QueuesConsistent
<1>1. Init => TxInv
  BY QueuesInit
<1>2. TxInv /\ [Next]_vars => TxInv'
  BY QueuesStep
<1>3. TxInv => QueuesConsistent
  BY QueuesImplied
<1> QED BY <1>1, <1>2, <1>3, PTL DEF Spec
=============================================================================
