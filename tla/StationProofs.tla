--------------------------- MODULE StationProofs ---------------------------
(***************************************************************************)
(* Proofs about a station interface, whatever may go wrong and for any     *)
(* bounds: scans (ScanRequest), connections (StaConnection) and remaining  *)
(* on a channel (RemainOnChannel).                                         *)
(***************************************************************************)
EXTENDS StaConnection, ScanRequestState, RemainOnChannelState, Integers, SequenceTheorems,
        WellFoundedInduction, TLAPS

Sc == INSTANCE ScanRequest
Rc == INSTANCE RemainOnChannel

-----------------------------------------------------------------------------
(* Sequences.                                                               *)

\* A sequence with one more element.
LEMMA Appended ==
  ASSUME NEW S, NEW s \in Seq(S), NEW e \in S
  PROVE  /\ Append(s, e) \in Seq(S) /\ Len(Append(s, e)) = Len(s) + 1
         /\ \A i \in 1..Len(s) : Append(s, e)[i] = s[i]
         /\ Append(s, e)[Len(s) + 1] = e /\ Len(s) \in Nat /\ Append(s, e) # <<>>
BY AppendProperties

\* A sequence without its first element.
LEMMA Tailed ==
  ASSUME NEW S, NEW s \in Seq(S), s # <<>>
  PROVE  /\ Tail(s) \in Seq(S) /\ Len(Tail(s)) = Len(s) - 1 /\ Len(s) \in Nat \ {0}
         /\ \A i \in 1..Len(s) - 1 : Tail(s)[i] = s[i + 1]
         /\ Head(s) = s[1] /\ s[1] \in S
<1>1. Len(s) \in Nat \ {0} /\ Head(s) = s[1] /\ s[1] \in S
  BY EmptySeq
<1>2. Tail(s) \in Seq(S) /\ Len(Tail(s)) = Len(s) - 1
  BY HeadTailProperties
<1>3. \A i \in 1..Len(s) - 1 : Tail(s)[i] = s[i + 1]
  BY HeadTailProperties
<1> QED BY <1>1, <1>2, <1>3

\* Two elements at the end of a sequence are appended one after the other.
LEMMA TwoAppended ==
  ASSUME NEW S, NEW s \in Seq(S), NEW d \in S, NEW e \in S
  PROVE  s \o <<d>> = Append(s, d) /\ s \o <<d, e>> = Append(Append(s, d), e)
<1>1. s \o <<d>> = Append(s, d)
  BY AppendIsConcat
<1>2. Append(s, d) \in Seq(S) /\ <<d>> \in Seq(S) /\ <<e>> \in Seq(S)
  BY AppendProperties
<1>3. Append(Append(s, d), e) = (s \o <<d>>) \o <<e>>
  BY <1>1, <1>2, AppendIsConcat
<1>4. (s \o <<d>>) \o <<e>> = s \o (<<d>> \o <<e>>)
  BY <1>2, ConcatAssociative
<1>5. <<d>> \o <<e>> = <<d, e>>
  <2>1. /\ Len(<<d>> \o <<e>>) = 2 /\ <<d>> \o <<e>> \in Seq(S)
        /\ (<<d>> \o <<e>>)[1] = d /\ (<<d>> \o <<e>>)[2] = e
    BY <1>2, ConcatProperties
  <2>2. <<d, e>> \in Seq(S) /\ Len(<<d, e>>) = 2 /\ <<d, e>>[1] = d /\ <<d, e>>[2] = e
    OBVIOUS
  <2>3. \A i \in 1..2 : (<<d>> \o <<e>>)[i] = <<d, e>>[i]
    BY <2>1, <2>2
  <2> QED BY <2>1, <2>2, <2>3, SeqEqual
<1> QED BY <1>1, <1>3, <1>4, <1>5

-----------------------------------------------------------------------------
(* Scans.                                                                   *)

ScanMsg == [id : {"cfm"}] \union [id : {"start_cfm"}, of : Nat]
Cfm(i) == scan_fifo[i].id = "cfm"
End(i) == scan_fifo[i].id = "start_cfm"
Messages == 1..Len(scan_fifo)

\* A scan that is going on, or whose end was not handled yet.
Busy == scan_fw # 0 \/ scan_rx = "clear" \/ \E i \in Messages : End(i)

\* The one command in flight has one answer.  That of a scan comes before
\* everything the scan says, that of a cancellation after it.
AnswerInv ==
  /\ \A i, j \in Messages : Cfm(i) /\ Cfm(j) => i = j
  /\ \A i \in Messages : Cfm(i) =>
       /\ scan_op \in {"sent", "canceled", "removed"}
       /\ scan_op = "sent" => i = 1 /\ scan_rx = "idle"
       /\ scan_op = "canceled" => scan_fw = 0 /\ \A j \in Messages : End(j) => j < i

\* A scan is in one place: in the firmware, on its way or in the handler.
PlaceInv ==
  /\ \A i, j \in Messages : End(i) /\ End(j) => i = j
  /\ \A i \in Messages : End(i) => scan_fw = 0 /\ scan_rx = "idle"
  /\ scan_rx = "clear" => scan_fw = 0

\* It is the one the driver knows, until rwnx_close forgets it.
OwnInv ==
  /\ scan_request # 0 /\ scan_fw # 0 => scan_fw = scan_request
  /\ scan_request # 0 => \A i \in Messages : End(i) => scan_fifo[i].of = scan_request
  /\ Busy /\ scan_request = 0 => scan_op \in {"cancel", "canceled"}
  /\ Busy /\ scan_op = "none" => scanning
  /\ scan_op = "sent" => (Busy <=> \E i \in Messages : Cfm(i))
  /\ scan_op \in {"send", "remove", "removed"} => ~ Busy
  /\ scan_op \in {"send", "sent"} => scan_request # 0
  /\ scan_op = "sent" => scanning

\* Without a call that fails the driver has a request exactly while a scan is
\* going on.
CalmInv ==
  /\ scan_op = "none" => /\ (scan_request # 0 <=> Busy)
                         /\ (scanning <=> Busy)
  /\ scan_op \in {"none", "sent", "abort"} /\ scan_rx = "idle" /\ scan_request # 0
       => lent = {scan_request}
  /\ scan_op \in {"abort", "forget"} => (scan_request # 0 <=> Busy)
  /\ scan_op = "send" => lent = {scan_request} /\ ~ scanning
  /\ scan_op \in {"none", "abort"} /\ ~ Busy => lent = {}
  /\ scan_rx = "clear" => lent = {}
  /\ scan_op \in {"abort", "forget", "cancel", "canceled", "remove", "removed"} => ~ scanning
  /\ scan_op \in {"forget", "cancel", "canceled", "remove", "removed"} => lent = {}
  /\ scan_op \in {"cancel", "canceled", "remove", "removed"} => scan_request = 0

ScanInv ==
  /\ ScanTypeOK /\ scan_fifo \in Seq(ScanMsg)
  /\ "nomem" \notin scan_allow => AnswerInv /\ PlaceInv /\ OwnInv
  /\ scan_allow \subseteq {"close"} => CalmInv

-----------------------------------------------------------------------------
USE DEF Sc!Same, Sc!cfm, Sc!start_cfm, Cfm, End, Messages

\* The messages that the firmware sends.
LEMMA ScanMade ==
  /\ [id |-> "cfm"] \in ScanMsg /\ [id |-> "cfm"].id = "cfm"
  /\ \A n \in Nat : LET m == [id |-> "start_cfm", of |-> n]
                    IN m \in ScanMsg /\ m.id = "start_cfm" /\ m.of = n
  /\ \A m \in ScanMsg : m.id \in {"cfm", "start_cfm"}
BY DEF ScanMsg

\* What a message adds.
LEMMA ScanSaid ==
  ASSUME scan_fifo \in Seq(ScanMsg), NEW m \in ScanMsg, scan_fifo' = Append(scan_fifo, m)
  PROVE  /\ scan_fifo' \in Seq(ScanMsg) /\ Len(scan_fifo) \in Nat
         /\ Len(scan_fifo') = Len(scan_fifo) + 1
         /\ \A i \in Messages : scan_fifo'[i] = scan_fifo[i]
         /\ scan_fifo'[Len(scan_fifo')] = m
BY Appended DEF Messages

\* What the receive thread leaves.
LEMMA ScanTaken ==
  ASSUME scan_fifo \in Seq(ScanMsg), scan_fifo # <<>>, scan_fifo' = Tail(scan_fifo)
  PROVE  /\ scan_fifo' \in Seq(ScanMsg) /\ Len(scan_fifo) \in Nat \ {0}
         /\ Len(scan_fifo') = Len(scan_fifo) - 1 /\ Head(scan_fifo) = scan_fifo[1]
         /\ \A i \in Messages' : i + 1 \in Messages /\ scan_fifo'[i] = scan_fifo[i + 1]
<1>1. /\ scan_fifo' \in Seq(ScanMsg) /\ Len(scan_fifo) \in Nat \ {0}
      /\ Len(scan_fifo') = Len(scan_fifo) - 1 /\ Head(scan_fifo) = scan_fifo[1]
      /\ \A i \in 1..Len(scan_fifo) - 1 : scan_fifo'[i] = scan_fifo[i + 1]
  BY Tailed
<1> QED BY <1>1 DEF Messages

\* While the one command in flight has no answer there is none on its way.
LEMMA QuietMeans ==
  ASSUME scan_fifo \in Seq(ScanMsg), Sc!Quiet
  PROVE  \A i \in Messages : ~ Cfm(i)
<1>1. SUFFICES ASSUME NEW i \in Messages, Cfm(i) PROVE FALSE
  OBVIOUS
<1>2. scan_fifo[i] \in ScanMsg /\ i \in DOMAIN scan_fifo
  OBVIOUS
<1>3. scan_fifo[i] = [id |-> "cfm"]
  BY <1>1, <1>2 DEF ScanMsg
<1> QED BY <1>2, <1>3 DEF Sc!Quiet

\* The bounds of the requests.
LEMMA ScanBounds ==
  ASSUME ScanTypeOK
  PROVE  MaxScans[scan_allow] \in Nat /\ \A n \in Scan : n \in Nat \ {0}
BY ScanAssumption DEF ScanTypeOK, Scan

\* A new scan: none is going on, because `scanning` says so.
LEMMA Scan_rwnx_cfg80211_scan ==
  ASSUME ScanInv, UNCHANGED scan_allow, Sc!rwnx_cfg80211_scan
  PROVE  ScanInv'
<1> USE ScanBounds DEF ScanInv, Sc!rwnx_cfg80211_scan
<1>1. ScanTypeOK' /\ (scan_fifo \in Seq(ScanMsg))'
  BY DEF ScanTypeOK, Scan
<1>2. "nomem" \notin scan_allow => AnswerInv' /\ PlaceInv'
  BY DEF AnswerInv, PlaceInv, OwnInv, Busy
<1>3. "nomem" \notin scan_allow => OwnInv'
  BY DEF AnswerInv, PlaceInv, OwnInv, Busy, ScanTypeOK
<1>4. scan_allow \subseteq {"close"} => CalmInv'
  BY DEF CalmInv, AnswerInv, PlaceInv, OwnInv, Busy, ScanTypeOK
<1> QED BY <1>1, <1>2, <1>3, <1>4

\* The request is sent, or given up.
LEMMA Scan_rwnx_send_scanu_req ==
  ASSUME ScanInv, UNCHANGED scan_allow, Sc!rwnx_send_scanu_req
  PROVE  ScanInv'
<1> USE ScanBounds DEF ScanInv, Sc!rwnx_send_scanu_req
<1>1. ScanTypeOK' /\ (scan_fifo \in Seq(ScanMsg))'
  BY DEF ScanTypeOK, Scan
<1>2. "nomem" \notin scan_allow => AnswerInv' /\ PlaceInv'
  BY DEF AnswerInv, PlaceInv, OwnInv, Busy
<1>3. "nomem" \notin scan_allow => OwnInv'
  BY DEF AnswerInv, PlaceInv, OwnInv, Busy, ScanTypeOK
<1>4. scan_allow \subseteq {"close"} => CalmInv'
  BY DEF CalmInv, AnswerInv, PlaceInv, OwnInv, Busy, ScanTypeOK
<1> QED BY <1>1, <1>2, <1>3, <1>4

\* Closing begins: whatever is going on is still known.
LEMMA Scan_Close ==
  ASSUME ScanInv, UNCHANGED scan_allow, Sc!Close
  PROVE  ScanInv'
<1> USE ScanBounds DEF ScanInv, Sc!Close
<1>0. MaxScans[scan_allow] \in Nat /\ scan_closes \in 0..MaxScans[scan_allow]
  BY DEF ScanTypeOK
<1>1. ScanTypeOK' /\ (scan_fifo \in Seq(ScanMsg))'
  <2>1. scan_closes' \in 0..MaxScans[scan_allow]
    BY <1>0
  <2> QED BY <2>1 DEF ScanTypeOK, Scan
<1>2. "nomem" \notin scan_allow => AnswerInv' /\ PlaceInv'
  BY DEF AnswerInv, PlaceInv, OwnInv, Busy
<1>3. "nomem" \notin scan_allow => OwnInv'
  BY DEF AnswerInv, PlaceInv, OwnInv, Busy, ScanTypeOK
<1>4. scan_allow \subseteq {"close"} => CalmInv'
  BY DEF CalmInv, AnswerInv, PlaceInv, OwnInv, Busy, ScanTypeOK
<1> QED BY <1>1, <1>2, <1>3, <1>4

\* The request is given back.
LEMMA Scan_Abort ==
  ASSUME ScanInv, UNCHANGED scan_allow, Sc!Abort
  PROVE  ScanInv'
<1> USE ScanBounds DEF ScanInv, Sc!Abort
<1>1. ScanTypeOK' /\ (scan_fifo \in Seq(ScanMsg))'
  BY DEF ScanTypeOK, Scan
<1>2. "nomem" \notin scan_allow => AnswerInv' /\ PlaceInv'
  BY DEF AnswerInv, PlaceInv, OwnInv, Busy
<1>3. "nomem" \notin scan_allow => OwnInv'
  BY DEF AnswerInv, PlaceInv, OwnInv, Busy, ScanTypeOK
<1>4. scan_allow \subseteq {"close"} => CalmInv'
  BY DEF CalmInv, AnswerInv, PlaceInv, OwnInv, Busy, ScanTypeOK
<1> QED BY <1>1, <1>2, <1>3, <1>4

\* The request is forgotten before its scan is cancelled.
LEMMA Scan_Forget ==
  ASSUME ScanInv, UNCHANGED scan_allow, Sc!Forget
  PROVE  ScanInv'
<1> USE ScanBounds DEF ScanInv, Sc!Forget
<1>1. ScanTypeOK' /\ (scan_fifo \in Seq(ScanMsg))'
  BY DEF ScanTypeOK, Scan
<1>2. "nomem" \notin scan_allow => AnswerInv' /\ PlaceInv'
  BY DEF AnswerInv, PlaceInv, OwnInv, Busy
<1>3. "nomem" \notin scan_allow => OwnInv'
  BY DEF AnswerInv, PlaceInv, OwnInv, Busy, ScanTypeOK
<1>4. scan_allow \subseteq {"close"} => CalmInv'
  BY DEF CalmInv, AnswerInv, PlaceInv, OwnInv, Busy, ScanTypeOK
<1> QED BY <1>1, <1>2, <1>3, <1>4

\* The cancellation is sent.
LEMMA Scan_rwnx_send_scanu_cancel_req ==
  ASSUME ScanInv, UNCHANGED scan_allow, Sc!rwnx_send_scanu_cancel_req
  PROVE  ScanInv'
<1> USE ScanBounds DEF ScanInv, Sc!rwnx_send_scanu_cancel_req
<1>1. ScanTypeOK' /\ (scan_fifo \in Seq(ScanMsg))'
  BY DEF ScanTypeOK, Scan
<1>2. "nomem" \notin scan_allow => AnswerInv' /\ PlaceInv'
  BY DEF AnswerInv, PlaceInv, OwnInv, Busy
<1>3. "nomem" \notin scan_allow => OwnInv'
  BY DEF AnswerInv, PlaceInv, OwnInv, Busy, ScanTypeOK
<1>4. scan_allow \subseteq {"close"} => CalmInv'
  BY DEF CalmInv, AnswerInv, PlaceInv, OwnInv, Busy, ScanTypeOK
<1> QED BY <1>1, <1>2, <1>3, <1>4

\* Nothing is going on when the interface is removed.
LEMMA Scan_Remove ==
  ASSUME ScanInv, UNCHANGED scan_allow, Sc!Remove
  PROVE  ScanInv'
<1> USE ScanBounds DEF ScanInv, Sc!Remove
<1>1. ScanTypeOK' /\ (scan_fifo \in Seq(ScanMsg))'
  BY DEF ScanTypeOK, Scan
<1>2. "nomem" \notin scan_allow => AnswerInv' /\ PlaceInv'
  BY DEF AnswerInv, PlaceInv, OwnInv, Busy
<1>3. "nomem" \notin scan_allow => OwnInv'
  BY DEF AnswerInv, PlaceInv, OwnInv, Busy, ScanTypeOK
<1>4. scan_allow \subseteq {"close"} => CalmInv'
  BY DEF CalmInv, AnswerInv, PlaceInv, OwnInv, Busy, ScanTypeOK
<1> QED BY <1>1, <1>2, <1>3, <1>4

\* The handler is done, and the scan with it.
LEMMA Scan_StartCfmClears ==
  ASSUME ScanInv, UNCHANGED scan_allow, Sc!StartCfmClears
  PROVE  ScanInv'
<1> USE ScanBounds DEF ScanInv, Sc!StartCfmClears
<1>1. ScanTypeOK' /\ (scan_fifo \in Seq(ScanMsg))'
  BY DEF ScanTypeOK, Scan
<1>2. "nomem" \notin scan_allow => AnswerInv' /\ PlaceInv'
  BY DEF AnswerInv, PlaceInv, OwnInv, Busy
<1>3. "nomem" \notin scan_allow => OwnInv'
  BY DEF AnswerInv, PlaceInv, OwnInv, Busy, ScanTypeOK
<1>4. scan_allow \subseteq {"close"} => CalmInv'
  BY DEF CalmInv, AnswerInv, PlaceInv, OwnInv, Busy, ScanTypeOK
<1> QED BY <1>1, <1>2, <1>3, <1>4

\* A call that waits goes on when the answer is handled.
LEMMA Scan_Confirmed ==
  ASSUME ScanInv, UNCHANGED scan_allow, Sc!Confirmed
  PROVE  ScanInv'
<1> USE ScanBounds DEF ScanInv, Sc!Confirmed
<1>0. /\ scan_fifo' \in Seq(ScanMsg) /\ Len(scan_fifo) \in Nat \ {0}
      /\ Len(scan_fifo') = Len(scan_fifo) - 1 /\ Cfm(1)
      /\ \A i \in 1..Len(scan_fifo') : scan_fifo'[i] = scan_fifo[i + 1]
  BY ScanTaken
<1>1. ScanTypeOK' /\ (scan_fifo \in Seq(ScanMsg))'
  BY <1>0 DEF ScanTypeOK, Scan
<1>2. \A i \in 1..Len(scan_fifo') : i + 1 \in 1..Len(scan_fifo)
  BY <1>0
<1>3. ASSUME "nomem" \notin scan_allow
      PROVE  /\ AnswerInv' /\ PlaceInv' /\ (Busy' => Busy)
             /\ scan_op \in {"sent", "canceled", "removed"} /\ \A i \in 1..Len(scan_fifo') : ~ Cfm(i)'
             /\ scan_op = "canceled" => ~ Busy'
             /\ scan_op = "sent" => Busy'
  <2>1. 1 \in 1..Len(scan_fifo) /\ AnswerInv /\ PlaceInv
    BY <1>0, <1>3
  <2>2. /\ scan_op \in {"sent", "canceled", "removed"}
        /\ \A i \in 1..Len(scan_fifo') : ~ Cfm(i)'
    BY <1>0, <1>2, <2>1 DEF AnswerInv
  <2>3. PlaceInv' /\ (Busy' => Busy)
    BY <1>0, <1>2, <2>1 DEF PlaceInv, Busy
  <2>4. scan_op = "canceled" => ~ Busy'
    BY <1>0, <1>2, <2>1 DEF AnswerInv, Busy
  <2>5. AnswerInv'
    BY <2>2 DEF AnswerInv
  <2>6. ASSUME scan_op = "sent" PROVE Busy'
    <3>1. Busy
      BY <1>0, <1>3, <2>1, <2>6 DEF OwnInv
    <3>2. ASSUME NEW i \in 1..Len(scan_fifo), End(i) PROVE Busy'
      <4>1. i # 1 /\ i - 1 \in 1..Len(scan_fifo') /\ scan_fifo'[i - 1] = scan_fifo[i]
        BY <1>0, <3>2
      <4> QED BY <4>1, <3>2 DEF Busy
    <3> QED BY <3>1, <3>2 DEF Busy
  <2> QED BY <2>2, <2>3, <2>4, <2>5, <2>6
<1>4. "nomem" \notin scan_allow => OwnInv'
  BY <1>0, <1>2, <1>3 DEF OwnInv, Busy
<1>5. ASSUME scan_allow \subseteq {"close"} PROVE CalmInv'
  <2>1. "nomem" \notin scan_allow /\ CalmInv /\ OwnInv
    BY <1>5
  <2>t. scanning \in BOOLEAN /\ scan_rx = "idle"
    BY DEF ScanTypeOK
  <2>2. scan_op = "removed" => ~ Busy'
    BY <1>3, <2>1 DEF OwnInv
  <2>3. CASE scan_op = "sent"
    BY <1>3, <2>1, <2>t, <2>3 DEF CalmInv, OwnInv
  <2>4. CASE scan_op = "canceled"
    BY <1>3, <2>1, <2>t, <2>4 DEF CalmInv, OwnInv
  <2>5. CASE scan_op = "removed"
    BY <1>3, <2>1, <2>t, <2>2, <2>5 DEF CalmInv, OwnInv
  <2> QED BY <1>3, <2>1, <2>3, <2>4, <2>5
<1> QED BY <1>1, <1>3, <1>4, <1>5

\* The handler of the end of a scan takes the loan back.
LEMMA Scan_rwnx_rx_scanu_start_cfm ==
  ASSUME ScanInv, UNCHANGED scan_allow, Sc!rwnx_rx_scanu_start_cfm
  PROVE  ScanInv'
<1> USE ScanBounds DEF ScanInv, Sc!rwnx_rx_scanu_start_cfm, Sc!Ended
<1>0. /\ scan_fifo' \in Seq(ScanMsg) /\ Len(scan_fifo) \in Nat \ {0}
      /\ Len(scan_fifo') = Len(scan_fifo) - 1 /\ End(1)
      /\ \A i \in 1..Len(scan_fifo') : scan_fifo'[i] = scan_fifo[i + 1]
  BY ScanTaken
<1>1. ScanTypeOK' /\ (scan_fifo \in Seq(ScanMsg))'
  BY <1>0 DEF ScanTypeOK, Scan
<1>2. \A i \in 1..Len(scan_fifo') : i + 1 \in 1..Len(scan_fifo)
  BY <1>0
<1>3. ASSUME "nomem" \notin scan_allow
      PROVE  /\ AnswerInv' /\ PlaceInv' /\ Busy /\ Busy' /\ scan_op # "sent"
  <2>1. 1 \in 1..Len(scan_fifo) /\ AnswerInv /\ PlaceInv /\ OwnInv
    BY <1>0, <1>3
  <2>2. Busy /\ Busy'
    BY <1>0, <2>1 DEF Busy
  <2>3. PlaceInv'
    BY <1>0, <1>2, <2>1 DEF PlaceInv
  <2>4. scan_op # "sent"
    BY <1>0, <2>1, <2>2 DEF AnswerInv, OwnInv
  <2>5. AnswerInv'
    BY <1>0, <1>2, <2>1, <2>4 DEF AnswerInv
  <2> QED BY <2>2, <2>3, <2>4, <2>5
<1>4. ASSUME "nomem" \notin scan_allow PROVE OwnInv'
  <2>1. OwnInv /\ PlaceInv /\ 1 \in 1..Len(scan_fifo)
    BY <1>0, <1>4
  <2>2. \A i \in 1..Len(scan_fifo') : ~ End(i)'
    BY <1>0, <1>2, <2>1 DEF PlaceInv
  <2> QED BY <1>3, <1>4, <2>1, <2>2 DEF OwnInv
<1>5. ASSUME scan_allow \subseteq {"close"} PROVE CalmInv'
  <2>1. "nomem" \notin scan_allow /\ CalmInv /\ OwnInv
    BY <1>5
  <2>t. /\ scan_rx = "idle"
        /\ scan_op \in {"none", "send", "sent", "abort", "forget", "cancel", "canceled",
                        "remove", "removed"}
    BY DEF ScanTypeOK
  <2>2. lent' = {}
    BY <1>3, <2>1, <2>t DEF CalmInv, OwnInv
  <2> QED BY <1>3, <2>1, <2>2 DEF CalmInv, OwnInv
<1> QED BY <1>1, <1>3, <1>4, <1>5

\* A command is answered, when nothing else changes but the firmware's scan.
LEMMA Scan_Says ==
  ASSUME ScanInv, UNCHANGED scan_allow,
         Sc!FwStarts \/ Sc!FwEnds \/ Sc!FwRemoves
  PROVE  ScanInv'
<1> USE ScanBounds DEF ScanInv
<1>1. CASE Sc!FwStarts
  <2> USE <1>1 DEF Sc!FwStarts, Sc!Quiet
  <2>0. /\ scan_fifo' \in Seq(ScanMsg) /\ Len(scan_fifo) \in Nat
        /\ Len(scan_fifo') = Len(scan_fifo) + 1
        /\ \A i \in 1..Len(scan_fifo) : scan_fifo'[i] = scan_fifo[i] /\ ~ Cfm(i)
        /\ scan_fifo'[Len(scan_fifo')].id = "cfm"
    BY ScanSaid, ScanMade, QuietMeans
  <2>1. ScanTypeOK'
    BY DEF ScanTypeOK, Scan
  <2>2. ASSUME "nomem" \notin scan_allow
        PROVE  /\ ~ Busy /\ Busy' /\ AnswerInv' /\ PlaceInv' /\ OwnInv'
    <3>1. OwnInv /\ PlaceInv /\ AnswerInv
      BY <2>2
    <3>2. ~ Busy /\ scan_request # 0
      BY <2>0, <3>1 DEF OwnInv
    <3>3. scan_fifo = <<>>
      <4>1. \A i \in 1..Len(scan_fifo) : scan_fifo[i] \in ScanMsg /\ ~ Cfm(i) /\ ~ End(i)
        BY <2>0, <3>2 DEF Busy
      <4> QED BY <4>1, <2>0, ScanMade
    <3>4. Len(scan_fifo') = 1 /\ \A i \in 1..Len(scan_fifo') : Cfm(i)' /\ ~ End(i)' /\ i = 1
      BY <2>0, <3>3
    <3>5. Busy'
      BY <3>2 DEF Busy
    <3>6. AnswerInv' /\ PlaceInv'
      BY <3>2, <3>4 DEF AnswerInv, PlaceInv, Busy, ScanTypeOK
    <3>7. OwnInv'
      BY <3>1, <3>2, <3>4, <3>5 DEF OwnInv
    <3> QED BY <3>2, <3>5, <3>6, <3>7
  <2>3. ASSUME scan_allow \subseteq {"close"} PROVE CalmInv'
    <3>1. "nomem" \notin scan_allow
      BY <2>3
    <3> QED BY <2>2, <2>3, <3>1 DEF CalmInv, Busy
  <2> QED BY <2>0, <2>1, <2>2, <2>3
<1>2. CASE Sc!FwEnds
  <2> USE <1>2 DEF Sc!FwEnds
  <2>0. /\ scan_fifo' \in Seq(ScanMsg) /\ Len(scan_fifo) \in Nat
        /\ Len(scan_fifo') = Len(scan_fifo) + 1
        /\ \A i \in 1..Len(scan_fifo) : scan_fifo'[i] = scan_fifo[i]
        /\ scan_fifo'[Len(scan_fifo')].id = "start_cfm"
        /\ scan_fifo'[Len(scan_fifo')].of = scan_fw
    <3>1. scan_fw \in Nat
      BY DEF ScanTypeOK
    <3> QED BY <3>1, ScanSaid, ScanMade
  <2>1. ScanTypeOK'
    BY DEF ScanTypeOK, Scan
  <2>2. ASSUME "nomem" \notin scan_allow
        PROVE  /\ Busy /\ Busy' /\ AnswerInv' /\ PlaceInv' /\ OwnInv'
    <3>1. OwnInv /\ PlaceInv /\ AnswerInv
      BY <2>2
    <3>2. Busy /\ Busy'
      BY <2>0 DEF Busy
    <3>3. /\ \A i \in 1..Len(scan_fifo') : End(i)' <=> i = Len(scan_fifo')
          /\ \A i \in 1..Len(scan_fifo') : Cfm(i)' => i \in 1..Len(scan_fifo) /\ Cfm(i)
      BY <2>0, <3>1 DEF PlaceInv
    <3>4. AnswerInv'
      BY <2>0, <3>1, <3>3 DEF AnswerInv
    <3>5. PlaceInv'
      BY <2>0, <3>1, <3>3 DEF PlaceInv, ScanTypeOK
    <3>6. (\E i \in 1..Len(scan_fifo) : Cfm(i)) => \E i \in 1..Len(scan_fifo') : Cfm(i)'
      BY <2>0
    <3>7. OwnInv'
      BY <2>0, <3>1, <3>2, <3>3, <3>6 DEF OwnInv
    <3> QED BY <3>2, <3>4, <3>5, <3>7
  <2>3. ASSUME scan_allow \subseteq {"close"} PROVE CalmInv'
    <3>1. "nomem" \notin scan_allow
      BY <2>3
    <3> QED BY <2>2, <2>3, <3>1 DEF CalmInv
  <2> QED BY <2>0, <2>1, <2>2, <2>3
<1>3. CASE Sc!FwRemoves
  <2> USE <1>3 DEF Sc!FwRemoves, Sc!Quiet
  <2>0. /\ scan_fifo' \in Seq(ScanMsg) /\ Len(scan_fifo) \in Nat
        /\ Len(scan_fifo') = Len(scan_fifo) + 1
        /\ \A i \in 1..Len(scan_fifo) : scan_fifo'[i] = scan_fifo[i] /\ ~ Cfm(i)
        /\ scan_fifo'[Len(scan_fifo')].id = "cfm"
    BY ScanSaid, ScanMade, QuietMeans
  <2>1. ScanTypeOK'
    BY DEF ScanTypeOK, Scan
  <2>2. \A i \in 1..Len(scan_fifo') : /\ Cfm(i)' <=> i = Len(scan_fifo')
                                      /\ End(i)' => i \in 1..Len(scan_fifo) /\ End(i)
    BY <2>0
  <2>3. Busy <=> Busy'
    BY <2>0, <2>2 DEF Busy
  <2>4. "nomem" \notin scan_allow => AnswerInv' /\ PlaceInv'
    BY <2>0, <2>2 DEF AnswerInv, PlaceInv
  <2>5. "nomem" \notin scan_allow => OwnInv'
    BY <2>0, <2>2, <2>3 DEF OwnInv
  <2>6. scan_allow \subseteq {"close"} => CalmInv'
    BY <2>3 DEF CalmInv
  <2> QED BY <2>0, <2>1, <2>4, <2>5, <2>6
<1> QED BY <1>1, <1>2, <1>3

\* A cancelled scan ends before its cancellation is confirmed.
LEMMA Scan_FwCancels ==
  ASSUME ScanInv, UNCHANGED scan_allow, Sc!FwCancels
  PROVE  ScanInv'
<1> USE ScanBounds DEF ScanInv, Sc!FwCancels, Sc!Quiet
<1> DEFINE n == IF scan_fw = 0 THEN 1 ELSE 2
           m == Len(scan_fifo)
<1>0. /\ scan_fifo' \in Seq(ScanMsg) /\ m \in Nat /\ Len(scan_fifo') = m + n
      /\ \A i \in 1..m : scan_fifo'[i] = scan_fifo[i] /\ ~ Cfm(i)
      /\ scan_fifo'[m + n].id = "cfm"
      /\ scan_fw # 0 => scan_fifo'[m + 1].id = "start_cfm" /\ scan_fifo'[m + 1].of = scan_fw
  <2> DEFINE c == [id |-> "cfm"]  e == [id |-> "start_cfm", of |-> scan_fw]
  <2>1. /\ c \in ScanMsg /\ c.id = "cfm" /\ e \in ScanMsg /\ e.id = "start_cfm" /\ e.of = scan_fw
    BY ScanMade DEF ScanTypeOK
  <2>2. \A i \in 1..m : ~ Cfm(i)
    BY QuietMeans
  <2>3. scan_fifo' = IF scan_fw = 0 THEN Append(scan_fifo, c) ELSE Append(Append(scan_fifo, e), c)
    BY <2>1, TwoAppended
  <2> HIDE DEF c, e
  <2>4. CASE scan_fw = 0
    BY <2>1, <2>2, <2>3, <2>4, Appended
  <2>5. CASE scan_fw # 0
    <3> DEFINE f == Append(scan_fifo, e)
    <3>1. /\ f \in Seq(ScanMsg) /\ Len(f) = m + 1 /\ m \in Nat /\ f[m + 1] = e
          /\ \A i \in 1..m : f[i] = scan_fifo[i]
      BY <2>1, Appended
    <3> HIDE DEF f
    <3>2. /\ Append(f, c) \in Seq(ScanMsg) /\ Len(Append(f, c)) = m + 2
          /\ Append(f, c)[m + 2] = c /\ \A i \in 1..m + 1 : Append(f, c)[i] = f[i]
      <4>1. Len(f) + 1 = m + 2
        BY <3>1
      <4> QED BY <2>1, <3>1, <4>1, Appended
    <3>3. scan_fifo' = Append(f, c)
      BY <2>3, <2>5 DEF f
    <3> QED BY <2>1, <2>2, <2>5, <3>1, <3>2, <3>3
  <2> QED BY <2>4, <2>5
<1> HIDE DEF n, m
<1>1. m = Len(scan_fifo) /\ n \in {1, 2} /\ (n = 1 <=> scan_fw = 0)
  BY DEF n, m
<1>2. ScanTypeOK'
  BY DEF ScanTypeOK, Scan
<1>3. \A i \in 1..Len(scan_fifo') :
        /\ Cfm(i)' <=> i = Len(scan_fifo')
        /\ End(i)' => (i \in 1..m /\ End(i)) \/ (scan_fw # 0 /\ i = m + 1)
  <2> SUFFICES ASSUME NEW i \in 1..m + n
               PROVE  /\ Cfm(i)' <=> i = m + n
                      /\ End(i)' => (i \in 1..m /\ End(i)) \/ (scan_fw # 0 /\ i = m + 1)
    BY <1>0
  <2>1. CASE i \in 1..m
    BY <1>0, <1>1, <2>1
  <2>2. CASE i = m + n
    BY <1>0, <1>1, <2>2
  <2>3. CASE scan_fw # 0 /\ i = m + 1
    BY <1>0, <1>1, <2>3
  <2> QED BY <1>0, <1>1, <2>1, <2>2, <2>3
<1>4. Busy => Busy'
  BY <1>0, <1>1 DEF Busy
<1>5. Busy' => Busy
  BY <1>0, <1>1, <1>3 DEF Busy
<1>6. ASSUME "nomem" \notin scan_allow
      PROVE  AnswerInv' /\ PlaceInv' /\ OwnInv'
  <2>1. AnswerInv /\ PlaceInv /\ OwnInv
    BY <1>6
  <2>2. AnswerInv'
    <3>1. \A i \in Messages' : Cfm(i)' => i = m + n
      BY <1>0, <1>3
    <3>2. \A j \in Messages' : End(j)' => j < m + n
      BY <1>0, <1>1, <1>3
    <3>3. scan_op' = "canceled" /\ scan_fw' = 0
      OBVIOUS
    <3> QED BY <3>1, <3>2, <3>3 DEF AnswerInv
  <2>3. PlaceInv'
    BY <1>0, <1>1, <1>3, <2>1 DEF PlaceInv, ScanTypeOK
  <2>4. OwnInv'
    BY <1>0, <1>1, <1>3, <1>4, <2>1 DEF OwnInv
  <2> QED BY <2>2, <2>3, <2>4
<1>7. scan_allow \subseteq {"close"} => CalmInv'
  BY <1>4, <1>5 DEF CalmInv
<1> QED BY <1>0, <1>2, <1>6, <1>7

\* Every step keeps the invariant.
LEMMA ScanStep ==
  ASSUME ScanInv, [Sc!Next]_(Sc!vars)
  PROVE  ScanInv'
<1>1. CASE UNCHANGED Sc!vars
  BY <1>1 DEF Sc!vars, ScanInv, ScanTypeOK, Scan, AnswerInv, PlaceInv, OwnInv, CalmInv, Busy
<1>2. CASE Sc!Next
  BY <1>2, Scan_rwnx_cfg80211_scan, Scan_rwnx_send_scanu_req, Scan_Close, Scan_Abort, Scan_Forget,
     Scan_rwnx_send_scanu_cancel_req, Scan_Remove, Scan_StartCfmClears, Scan_Confirmed,
     Scan_rwnx_rx_scanu_start_cfm, Scan_Says, Scan_FwCancels
    DEF Sc!Next, Sc!Calls, Sc!Receive, Sc!Firmware
<1> QED BY <1>1, <1>2

\* Nothing is going on at first.
LEMMA ScanInit ==
  ASSUME Sc!Init
  PROVE  ScanInv
<1>1. ScanTypeOK /\ scan_fifo \in Seq(ScanMsg) /\ Len(scan_fifo) = 0
  <2>1. MaxScans[scan_allow] \in Nat
    BY ScanAssumption DEF Sc!Init
  <2>2. ScanTypeOK
    <3>1. scans \in 0..MaxScans[scan_allow] /\ scan_closes \in 0..MaxScans[scan_allow]
      BY <2>1 DEF Sc!Init
    <3>2. scanning \in BOOLEAN /\ lent \subseteq Scan
      BY DEF Sc!Init
    <3> QED BY <3>1, <3>2 DEF Sc!Init, ScanTypeOK
  <2>3. <<>> \in Seq(ScanMsg) /\ Len(<<>>) = 0
    OBVIOUS
  <2> QED BY <2>2, <2>3 DEF Sc!Init
<1> QED BY <1>1 DEF Sc!Init, ScanInv, AnswerInv, PlaceInv, OwnInv, CalmInv, Busy

\* The handler of the end of a scan (rwnx_rx_scanu_start_cfm) never takes it
\* for the end of another one, and `scanning` says whether a scan is under way:
\* for any number of scans and closes, and as long as rwnx_close has memory for
\* its command, or no request fails.
THEOREM ScanTheorem == Sc!Spec => []RightScan
<1>1. ScanInv => RightScan
  <2> SUFFICES ASSUME ScanInv PROVE RightScan
    OBVIOUS
  <2>1. ASSUME "nomem" \notin scan_allow, Ended, scan_request # 0
        PROVE  Head(scan_fifo).of = scan_request
    <3>1. Len(scan_fifo) \in Nat \ {0} /\ Head(scan_fifo) = scan_fifo[1]
      BY <2>1, Tailed DEF ScanInv, Ended
    <3> QED BY <2>1, <3>1 DEF ScanInv, OwnInv, Ended
  <2>2. ASSUME scan_allow \subseteq {"close"} PROVE ScanningIsTrue
    <3>1. CalmInv /\ PlaceInv /\ OwnInv /\ ScanTypeOK
      BY <2>2 DEF ScanInv
    <3>2. scan_fifo = <<>> => Len(scan_fifo) = 0
      OBVIOUS
    <3>3. ASSUME scan_op = "none", scan_rx = "idle", scan_fifo = <<>>
          PROVE  (scanning <=> scan_fw # 0) /\ (scan_request # 0 <=> scan_fw # 0)
                 /\ (lent # {} <=> scan_fw # 0)
      <4>1. Busy <=> scan_fw # 0
        BY <3>2, <3>3 DEF Busy
      <4> QED BY <3>1, <3>3, <4>1 DEF CalmInv
    <3> QED BY <3>1, <3>3 DEF ScanningIsTrue, ScanTypeOK
  <2> QED BY <2>1, <2>2 DEF RightScan, EndIsOwn, ScanInv
<1> QED BY <1>1, ScanInit, ScanStep, PTL DEF Sc!Spec

-----------------------------------------------------------------------------
(* Connections.                                                             *)

Msg == [id : {"cfm"}, of : Cmd, ok : BOOLEAN]
  \union [id : {"connect_ind"}, ok : BOOLEAN, roamed : BOOLEAN]
  \union [id : {"disconnect_ind"}, reassoc : BOOLEAN] \union [id : {"auth_ind"}]

Ack(i) == fifo[i].id = "cfm"
Msgs == 1..Len(fifo)

\* A message m takes the firmware from `before`, whether it is connected, to
\* `after`: only a connection ends, and only without one another begins.
Turns(before, m, after) ==
  /\ m.id = "connect_ind" => ~ before /\ (after <=> m.ok)
  /\ m.id = "disconnect_ind" => before /\ ~ after
  /\ m.id \in {"cfm", "auth_ind"} => (after <=> before)

\* The messages after which, by the firmware's account, there is a connection.
Path(f, S) == \A i \in 1..Len(f) : Turns(i - 1 \in S, f[i], i \in S)

\* They are told by the messages on their way, to a driver that knows what
\* came before them, and end where the firmware is, at the task t.
StoryOf(f, t, S) ==
  /\ Path(f, S)
  /\ 0 \in S => vif.ap
  /\ table => (0 \in S <=> vif.ch_index)
  /\ t \in {"connected", "leaving"} => Len(f) \in S
  /\ t \in Trying \union {"idle"} => Len(f) \notin S
Story(S) == StoryOf(fifo, fw.task, S)

\* The channel context is held from connect_ind to disconnect_ind.
ChanInv ==
  /\ table <=> op # "closed"
  /\ ~ table => ~ vif.ch_index
  /\ rx \in {"left", "join_failed", "roam_failed"} => ~ vif.ch_index
  /\ vif.ch_index /\ rx \notin {"joined", "roamed"} => drv # "DISCONNECTED"

Waits == {"connect", "disconnect", "auth", "close_leave_sent", "close_removed"}

\* A call of a manager that works waits for its own command, and no other.
Alone == "defer" \notin allow /\ mgr = "INITED"

\* The command in flight is the one that the call waits for.
CmdInv ==
  /\ \A i, j \in Msgs : Ack(i) /\ Ack(j) => i = j
  /\ op \notin Waits => cmds = <<>> /\ \A i \in Msgs : ~ Ack(i)
  /\ op \in Waits =>
       \/ cmds = <<Awaits[op]>> /\ \A i \in Msgs : ~ Ack(i)
       \/ cmds = <<>> /\ \E i \in Msgs : Ack(i) /\ fifo[i].of = Awaits[op]
  /\ op = "close_removed" /\ cmds = <<>> => fw.task = "absent" /\ Ack(Len(fifo))
  /\ op \in {"close_table", "closed"} => fifo = <<>> /\ fw.task = "absent"

\* Nobody is asked to authenticate.
PlainInv == mgr = "INITED" /\ \A i \in Msgs : fifo[i].id # "auth_ind"

StaInv ==
  /\ TypeOK /\ fifo \in Seq(Msg) /\ ChanCounted /\ ChanInv
  /\ \E S \in SUBSET Nat : Story(S)
  /\ Alone => CmdInv
  /\ "sae" \notin allow => PlainInv

\* The messages of the firmware.
LEMMA Made ==
  /\ \A c \in Cmd, b \in BOOLEAN :
       LET m == [id |-> "cfm", of |-> c, ok |-> b]
       IN m \in Msg /\ m.id = "cfm" /\ m.of = c
  /\ \A b, r \in BOOLEAN :
       LET m == [id |-> "connect_ind", ok |-> b, roamed |-> r]
       IN m \in Msg /\ m.id = "connect_ind" /\ (m.ok <=> b)
  /\ \A b \in BOOLEAN :
       LET m == [id |-> "disconnect_ind", reassoc |-> b]
       IN m \in Msg /\ m.id = "disconnect_ind"
  /\ [id |-> "auth_ind"] \in Msg /\ [id |-> "auth_ind"].id = "auth_ind"
  /\ \A m \in Msg : m.id \in {"cfm", "connect_ind", "disconnect_ind", "auth_ind"}
<1>1. \A c \in Cmd, b \in BOOLEAN :
        LET m == [id |-> "cfm", of |-> c, ok |-> b]
        IN m \in Msg /\ m.id = "cfm" /\ m.of = c
  BY DEF Msg
<1>2. \A b, r \in BOOLEAN :
        LET m == [id |-> "connect_ind", ok |-> b, roamed |-> r]
        IN m \in Msg /\ m.id = "connect_ind" /\ (m.ok <=> b)
  BY DEF Msg
<1>3. \A b \in BOOLEAN :
        LET m == [id |-> "disconnect_ind", reassoc |-> b]
        IN m \in Msg /\ m.id = "disconnect_ind"
  BY DEF Msg
<1>4. /\ [id |-> "auth_ind"] \in Msg /\ [id |-> "auth_ind"].id = "auth_ind"
      /\ \A m \in Msg : m.id \in {"cfm", "connect_ind", "disconnect_ind", "auth_ind"}
  BY DEF Msg
<1> QED BY <1>1, <1>2, <1>3, <1>4

\* One more message continues the story.
LEMMA PathAppend ==
  ASSUME NEW f \in Seq(Msg), NEW m \in Msg, NEW S \in SUBSET Nat, Path(f, S),
         NEW b \in BOOLEAN, Turns(Len(f) \in S, m, b)
  PROVE  \E T \in SUBSET Nat : /\ Path(Append(f, m), T) /\ (0 \in T <=> 0 \in S)
                               /\ (Len(f) + 1 \in T <=> b)
<1>0. /\ Append(f, m) \in Seq(Msg) /\ Len(Append(f, m)) = Len(f) + 1
      /\ \A i \in 1..Len(f) : Append(f, m)[i] = f[i]
      /\ Append(f, m)[Len(f) + 1] = m /\ Len(f) \in Nat
  BY Appended
<1> DEFINE T == {i \in Nat : (i \in 0..Len(f) /\ i \in S) \/ (i = Len(f) + 1 /\ b)}
<1>1. /\ \A i \in 0..Len(f) : i \in T <=> i \in S
      /\ Len(f) + 1 \in T <=> b
      /\ T \in SUBSET Nat
  BY <1>0
<1> HIDE DEF T
<1>2. ASSUME NEW i \in 1..Len(f) + 1
      PROVE  Turns(i - 1 \in T, Append(f, m)[i], i \in T)
  <2>1. CASE i \in 1..Len(f)
    <3>1. i - 1 \in 0..Len(f) /\ i \in 0..Len(f)
      BY <1>0, <2>1
    <3>2. (i - 1 \in T <=> i - 1 \in S) /\ (i \in T <=> i \in S) /\ Append(f, m)[i] = f[i]
      BY <1>0, <1>1, <2>1, <3>1
    <3> QED BY <2>1, <3>2 DEF Path, Turns
  <2>2. CASE i = Len(f) + 1
    <3>1. i - 1 = Len(f) /\ Len(f) \in 0..Len(f)
      BY <1>0, <2>2
    <3> QED BY <1>0, <1>1, <2>2, <3>1 DEF Turns
  <2> QED BY <1>0, <2>1, <2>2
<1>3. 0 \in T <=> 0 \in S
  BY <1>0, <1>1
<1>4. Path(Append(f, m), T)
  BY <1>0, <1>2 DEF Path
<1> QED BY <1>1, <1>3, <1>4

\* So does one message less, from where it leaves off.
LEMMA PathTail ==
  ASSUME NEW f \in Seq(Msg), f # <<>>, NEW S \in SUBSET Nat, Path(f, S)
  PROVE  /\ Turns(0 \in S, Head(f), 1 \in S)
         /\ \E T \in SUBSET Nat : /\ Path(Tail(f), T) /\ (0 \in T <=> 1 \in S)
                                  /\ (Len(Tail(f)) \in T <=> Len(f) \in S)
<1>0. /\ Tail(f) \in Seq(Msg) /\ Len(Tail(f)) = Len(f) - 1 /\ Len(f) \in Nat \ {0}
      /\ \A i \in 1..Len(f) - 1 : Tail(f)[i] = f[i + 1]
      /\ Head(f) = f[1] /\ f[1] \in Msg
  BY Tailed
<1> DEFINE T == {i \in Nat : i + 1 \in S}
<1>1. /\ \A i \in Nat : i \in T <=> i + 1 \in S
      /\ T \in SUBSET Nat
  OBVIOUS
<1> HIDE DEF T
<1>2. Path(Tail(f), T)
  <2> SUFFICES ASSUME NEW i \in 1..Len(f) - 1
               PROVE  Turns(i - 1 \in T, Tail(f)[i], i \in T)
    BY <1>0 DEF Path
  <2>1. i + 1 \in 1..Len(f) /\ i \in Nat /\ i - 1 \in Nat /\ (i - 1) + 1 = i /\ (i + 1) - 1 = i
    BY <1>0
  <2>2. Turns((i + 1) - 1 \in S, f[i + 1], i + 1 \in S)
    BY <2>1 DEF Path
  <2>3. (i - 1 \in T <=> i \in S) /\ (i \in T <=> i + 1 \in S) /\ Tail(f)[i] = f[i + 1]
    BY <1>0, <1>1, <2>1
  <2> QED BY <2>1, <2>2, <2>3 DEF Turns
<1>3. (0 \in T <=> 1 \in S) /\ (Len(Tail(f)) \in T <=> Len(f) \in S)
  <2>1. 0 + 1 = 1 /\ Len(f) - 1 \in Nat /\ (Len(f) - 1) + 1 = Len(f)
    BY <1>0
  <2> QED BY <1>0, <1>1, <2>1
<1>4. Turns(0 \in S, Head(f), 1 \in S)
  <2>1. 1 \in 1..Len(f) /\ 1 - 1 = 0
    BY <1>0
  <2>2. Turns(1 - 1 \in S, f[1], 1 \in S)
    BY <2>1 DEF Path
  <2> QED BY <1>0, <2>1, <2>2
<1> QED BY <1>1, <1>2, <1>3, <1>4

\* The calls that wait, and what for.
LEMMA Waiting ==
  /\ DOMAIN After = Waits
  /\ \A o \in Waits : /\ After[o] \in Op \ Waits /\ After[o] # "closed" /\ Awaits[o] \in Cmd
                      /\ After[o] = "close_table" <=> o = "close_removed"
                      /\ o \in Op /\ o \notin {"closed", "close_table"}
  /\ Awaits["connect"] = "connect" /\ Awaits["disconnect"] = "disconnect"
  /\ Awaits["auth"] = "auth" /\ Awaits["close_leave_sent"] = "disconnect"
  /\ Awaits["close_removed"] = "remove"
BY DEF After, Awaits, Waits, Op, Cmd

\* Sending a command touches the call and the commands alone.
LEMMA SendTypes ==
  ASSUME TypeOK, NEW c \in Cmd, NEW w \in Op, NEW a \in Op, rwnx_send_msg(c, w, a)
  PROVE  op' \in {w, a} /\ op' \in Op /\ cmds' \in Seq(Cmd)
<1>1. <<c>> \in Seq(Cmd) /\ Append(cmds, c) \in Seq(Cmd)
  BY DEF TypeOK
<1> QED BY <1>1 DEF rwnx_send_msg, TypeOK

\* While the manager works and no other thread sends, the call waits.
LEMMA SendWaits ==
  ASSUME Alone, CmdInv, op \notin Waits,
         NEW c, NEW w, NEW a, rwnx_send_msg(c, w, a)
  PROVE  op' = w /\ cmds' = <<c>>
BY DEF Alone, CmdInv, rwnx_send_msg

\* A call that waits for the command it sent.
LEMMA CmdSent ==
  ASSUME CmdInv, op \notin Waits \union {"close_table", "closed"}, UNCHANGED <<fifo, fw>>,
         op' \in Waits, cmds' = <<Awaits[op']>>
  PROVE  CmdInv'
<1>1. <<Awaits[op']>> # <<>>
  OBVIOUS
<1> QED BY <1>1, Waiting DEF CmdInv, Ack, Msgs

\* A call that sends nothing.
LEMMA CmdKept ==
  ASSUME CmdInv, op \notin Waits \union {"close_table", "closed"},
         op' \notin Waits \union {"close_table", "closed"}, UNCHANGED <<mgr, fifo, fw, cmds>>
  PROVE  CmdInv'
BY DEF CmdInv, Ack, Msgs, Waits

\* Calls that leave the messages and the channel context alone.
LEMMA CallKeeps ==
  ASSUME StaInv, UNCHANGED <<allow, table, fifo, fw, count, mgr, rx>>, vif' \in Vif,
         vif'.ap <=> vif.ap, vif'.ch_index <=> vif.ch_index, drv' = "DISCONNECTED" => drv = "DISCONNECTED",
         op # "closed", op' \in Op, op' # "closed", cmds' \in Seq(Cmd),
         stack' \in {"idle", "connecting", "connected"}, calls' \in 0..MaxCalls[allow],
         Alone /\ CmdInv => CmdInv'
  PROVE  StaInv'
<1>1. TypeOK' /\ fifo' \in Seq(Msg) /\ ChanCounted' /\ ChanInv'
  BY DEF StaInv, TypeOK, ChanCounted, ChanInv
<1>2. \E S \in SUBSET Nat : Story(S)'
  <2>1. PICK S \in SUBSET Nat : Story(S)
    BY DEF StaInv
  <2>2. Story(S)'
    BY <2>1 DEF Story, StoryOf, Path
  <2> QED BY <2>2
<1>3. (Alone' => CmdInv') /\ ("sae" \notin allow' => PlainInv')
  BY DEF StaInv, Alone, PlainInv, Msgs
<1> QED BY <1>1, <1>2, <1>3 DEF StaInv

\* What a step of the stack finds and counts.
LEMMA StaBounds ==
  ASSUME StaInv
  PROVE  /\ MaxCalls[allow] \in Nat /\ allow \in Allows /\ Len(fifo) \in Nat
         /\ vif \in Vif /\ drv \in Drv /\ calls \in 0..MaxCalls[allow]
         /\ (Count => calls' \in 0..MaxCalls[allow])
         /\ stack \in {"idle", "connecting", "connected"}
         /\ \A s \in {"idle", "connecting", "connected"} :
              Refused(s) \in {"idle", "connecting", "connected"}
<1>1. MaxCalls[allow] \in Nat /\ allow \in Allows /\ calls \in 0..MaxCalls[allow] /\ vif \in Vif
  BY StaAssumption DEF StaInv, TypeOK
<1>2. Len(fifo) \in Nat
  BY DEF StaInv
<1>3. Count => calls' \in 0..MaxCalls[allow]
  BY <1>1 DEF Count
<1> QED BY <1>1, <1>2, <1>3 DEF Refused, StaInv, TypeOK, Vif, drv

\* The interface opens with an empty story.
LEMMA Sta_rwnx_open ==
  ASSUME StaInv, UNCHANGED allow, rwnx_open
  PROVE  StaInv'
<1> USE StaBounds DEF rwnx_open
<1>1. ~ table /\ ~ vif.ch_index
  BY DEF StaInv, ChanInv
<1>2. vif' \in Vif /\ ~ vif'.ch_index /\ vif'.ap = vif.ap
  BY <1>1 DEF Vif, Drv
<1>3. fw' = [task |-> "idle", roam |-> FALSE] /\ fw'.task = "idle" /\ fw' \in Fw
  BY DEF Task, Fw
<1>4. TypeOK' /\ fifo' \in Seq(Msg) /\ ChanCounted' /\ ChanInv'
  BY <1>1, <1>2, <1>3 DEF StaInv, TypeOK, ChanCounted, ChanInv, Op
<1>5. \E S \in SUBSET Nat : Story(S)'
  <2>1. {} \in SUBSET Nat /\ Len(fifo') = 0
    OBVIOUS
  <2>2. Story({})'
    BY <1>2, <1>3, <2>1 DEF Story, StoryOf, Path, Trying
  <2> QED BY <2>1, <2>2
<1>6. (Alone' => CmdInv') /\ ("sae" \notin allow' => PlainInv')
  BY DEF StaInv, Alone, PlainInv, CmdInv, Waits, Ack, Msgs
<1> QED BY <1>4, <1>5, <1>6 DEF StaInv

\* Calls of the stack: they change the state of the connection, not what is
\* recorded of it.
LEMMA Sta_rwnx_cfg80211_connect ==
  ASSUME StaInv, UNCHANGED allow, NEW einval \in BOOLEAN, rwnx_cfg80211_connect(einval)
  PROVE  StaInv'
<1> USE StaBounds DEF rwnx_cfg80211_connect
<1>1. op = "none" /\ "connect" \in Cmd /\ "connect" \in Op /\ "none" \in Op
  BY DEF Cmd, Op
<1>2. /\ vif' \in Vif /\ (vif'.ap <=> vif.ap) /\ (vif'.ch_index <=> vif.ch_index)
      /\ drv' = "DISCONNECTED" => drv = "DISCONNECTED"
  <2>1. CASE drv \in {"DISCONNECTING", "CONNECTING"}
    BY <2>1 DEF Vif, drv, Drv
  <2>2. CASE drv \notin {"DISCONNECTING", "CONNECTING"}
    BY <2>2 DEF Vif, drv, Drv
  <2> QED BY <2>1, <2>2
<1>3. stack' \in {"idle", "connecting", "connected"}
  <2>1. IF stack = "idle" THEN TRUE ELSE stack \in {"idle", "connecting", "connected"}
    OBVIOUS
  <2> QED BY <2>1
<1>4. UNCHANGED <<op, cmds>> \/ rwnx_send_msg("connect", "connect", "none")
  OBVIOUS
<1>5. op' \in {"connect", "none"} /\ op' \in Op /\ cmds' \in Seq(Cmd)
  BY <1>1, <1>4, SendTypes DEF StaInv, TypeOK
<1>6. ASSUME Alone, CmdInv
      PROVE  CmdInv'
  <2>1. op \notin Waits \union {"close_table", "closed"} /\ UNCHANGED <<mgr, fifo, fw>>
    BY <1>1 DEF Waits
  <2>2. CASE UNCHANGED <<op, cmds>>
    BY <1>6, <2>1, <2>2, CmdKept
  <2>3. CASE rwnx_send_msg("connect", "connect", "none")
    <3>1. op' = "connect" /\ cmds' = <<"connect">>
      BY <1>6, <2>1, <2>3, SendWaits
    <3> QED BY <1>6, <2>1, <3>1, CmdSent, Waiting DEF Waits
  <2> QED BY <1>4, <2>2, <2>3
<1> QED BY <1>1, <1>2, <1>3, <1>5, <1>6, CallKeeps

\* A disconnection, in one piece or resumed after it read the state.
LEMMA StaLeaves ==
  ASSUME StaInv, UNCHANGED <<allow, count, table, mgr, rx, fifo, fw>>,
         NEW w \in Waits, NEW a \in Op \ (Waits \union {"closed", "close_table"}),
         op \in Op \ (Waits \union {"closed", "close_table"}),
         vif' = [vif EXCEPT !.drv_conn_state = "DISCONNECTING"],
         rwnx_send_msg(Awaits[w], w, a), calls' \in 0..MaxCalls[allow],
         stack' \in {"idle", "connecting", "connected"}
  PROVE  StaInv'
<1> USE StaBounds
<1>1. /\ vif' \in Vif /\ (vif'.ap <=> vif.ap) /\ (vif'.ch_index <=> vif.ch_index)
      /\ drv' = "DISCONNECTING"
  BY DEF Vif, drv, Drv
<1>2. op' \in {w, a} /\ op' \in Op /\ cmds' \in Seq(Cmd) /\ w # "closed"
  BY Waiting, SendTypes DEF StaInv
<1>3. ASSUME Alone, CmdInv
      PROVE  CmdInv'
  <2>1. op' = w /\ cmds' = <<Awaits[w]>>
    BY <1>3, SendWaits
  <2> QED BY <1>3, <2>1, CmdSent
<1> QED BY <1>1, <1>2, <1>3, CallKeeps

\* A disconnection (rwnx_cfg80211_disconnect), asked for or not needed.
LEMMA Sta_rwnx_cfg80211_disconnect ==
  ASSUME StaInv, UNCHANGED allow, rwnx_cfg80211_disconnect
  PROVE  StaInv'
<1> USE StaBounds DEF rwnx_cfg80211_disconnect
<1>1. op = "none" /\ "none" \in Op \ (Waits \union {"closed", "close_table"}) /\ "leave" \in Op
  BY DEF Op, Waits
<1>2. "disconnect" \in Waits /\ Awaits["disconnect"] = "disconnect"
  BY Waiting DEF Waits
<1>3. stack' \in {"idle", "connecting", "connected"} /\ calls' \in 0..MaxCalls[allow]
  OBVIOUS
<1>4. CASE op' \in {"none", "leave"} /\ UNCHANGED <<vif, cmds>>
  <2>1. drv' = drv /\ cmds' \in Seq(Cmd) /\ vif' \in Vif
    BY <1>4 DEF drv, StaInv, TypeOK
  <2>2. CmdInv => CmdInv'
    BY <1>1, <1>4, CmdKept DEF Waits
  <2> QED BY <1>1, <1>3, <1>4, <2>1, <2>2, CallKeeps
<1>5. CASE /\ vif' = [vif EXCEPT !.drv_conn_state = "DISCONNECTING"]
           /\ rwnx_send_msg("disconnect", "disconnect", "none")
  BY <1>1, <1>2, <1>3, <1>5, StaLeaves
<1> QED BY <1>1, <1>4, <1>5

\* A disconnection that was preempted after it read the state.
LEMMA Sta_DisconnectResumes ==
  ASSUME StaInv, UNCHANGED allow, DisconnectResumes
  PROVE  StaInv'
<1>1. /\ op \in Op \ (Waits \union {"closed", "close_table"})
      /\ "none" \in Op \ (Waits \union {"closed", "close_table"})
      /\ "disconnect" \in Waits
  BY DEF DisconnectResumes, Op, Waits
<1>2. calls' \in 0..MaxCalls[allow] /\ stack' \in {"idle", "connecting", "connected"}
  BY StaBounds DEF DisconnectResumes
<1>3. UNCHANGED <<count, table, mgr, rx, fifo, fw>>
  BY DEF DisconnectResumes
<1> QED BY <1>1, <1>2, <1>3, StaLeaves, Waiting DEF DisconnectResumes

\* The user's answer to a request to authenticate.
LEMMA Sta_rwnx_cfg80211_external_auth ==
  ASSUME StaInv, UNCHANGED allow, rwnx_cfg80211_external_auth
  PROVE  StaInv'
<1> USE StaBounds DEF rwnx_cfg80211_external_auth
<1>1. op = "none" /\ "auth" \in Op /\ "none" \in Op /\ "auth" \in Cmd /\ "auth" \in Waits
  BY DEF Op, Cmd, Waits
<1>2. /\ vif' \in Vif /\ (vif'.ap <=> vif.ap) /\ (vif'.ch_index <=> vif.ch_index)
      /\ drv' = drv
  BY DEF Vif, drv, rwnx_external_auth_disable
<1>3. op' \in {"auth", "none"} /\ op' \in Op /\ cmds' \in Seq(Cmd)
  BY <1>1, SendTypes DEF StaInv
<1>4. ASSUME Alone, CmdInv
      PROVE  CmdInv'
  <2>1. op \notin Waits \union {"close_table", "closed"}
    BY <1>1 DEF Waits
  <2>2. op' = "auth" /\ cmds' = <<"auth">>
    BY <1>4, <2>1, SendWaits
  <2> QED BY <1>1, <1>4, <2>1, <2>2, CmdSent, Waiting
<1> QED BY <1>1, <1>2, <1>3, <1>4, CallKeeps

\* The calls of rwnx_close that send nothing.
LEMMA StaCloses ==
  ASSUME StaInv, UNCHANGED allow, Close \/ CloseWaited \/ CloseDown \/ CloseSettled
  PROVE  StaInv'
<1> USE StaBounds DEF Close, CloseWaited, CloseDown, CloseSettled
<1>1. /\ UNCHANGED <<table, fifo, fw, count, mgr, rx, cmds>>
      /\ op \notin Waits \union {"close_table", "closed"}
      /\ op' \in Op \ (Waits \union {"close_table", "closed"})
  BY DEF Op, Waits
<1>2. /\ vif' \in Vif /\ (vif'.ap <=> vif.ap) /\ (vif'.ch_index <=> vif.ch_index) /\ drv' = drv
  BY DEF Vif, drv
<1>3. /\ calls' \in 0..MaxCalls[allow] /\ stack' \in {"idle", "connecting", "connected"}
      /\ cmds' \in Seq(Cmd)
  BY DEF StaInv, TypeOK
<1>4. CmdInv => CmdInv'
  BY <1>1, CmdKept
<1> QED BY <1>1, <1>2, <1>3, <1>4, CallKeeps

\* rwnx_close takes an established connection down.
LEMMA Sta_CloseLeave ==
  ASSUME StaInv, UNCHANGED allow, CloseLeave
  PROVE  StaInv'
<1> USE StaBounds DEF CloseLeave
<1>1. /\ op \in Op \ (Waits \union {"closed", "close_table"})
      /\ "close_settle" \in Op \ (Waits \union {"closed", "close_table"})
      /\ "close_leave_sent" \in Waits /\ "close_remove" \in Op \ (Waits \union {"closed", "close_table"})
  BY DEF Op, Waits
<1>2. UNCHANGED <<count, table, mgr, rx, fifo, fw, stack, calls>>
  OBVIOUS
<1>3. CASE drv = "CONNECTED"
  BY <1>1, <1>2, <1>3, StaLeaves, Waiting
<1>4. CASE drv # "CONNECTED"
  <2>1. op' = "close_remove" /\ UNCHANGED <<vif, cmds>>
    BY <1>4
  <2>2. drv' = drv /\ cmds' \in Seq(Cmd) /\ vif' \in Vif
    BY <2>1 DEF drv, StaInv, TypeOK
  <2>3. CmdInv => CmdInv'
    BY <1>1, <1>2, <2>1, CmdKept
  <2> QED BY <1>1, <1>2, <2>1, <2>2, <2>3, CallKeeps
<1> QED BY <1>3, <1>4

\* rwnx_close has the firmware remove its interface.
LEMMA Sta_rwnx_send_remove_if ==
  ASSUME StaInv, UNCHANGED allow, rwnx_send_remove_if
  PROVE  StaInv'
<1> USE StaBounds DEF rwnx_send_remove_if
<1>1. /\ op = "close_remove" /\ "remove" \in Cmd /\ "close_removed" \in Op \intersect Waits
      /\ "close_table" \in Op /\ op \notin Waits \union {"closed", "close_table"}
  BY DEF Op, Cmd, Waits
<1>2. op' \in {"close_removed", "close_table"} /\ op' \in Op /\ cmds' \in Seq(Cmd)
  BY <1>1, SendTypes DEF StaInv
<1>3. ASSUME Alone, CmdInv
      PROVE  CmdInv'
  <2>1. op' = "close_removed" /\ cmds' = <<"remove">>
    BY <1>1, <1>3, SendWaits
  <2> QED BY <1>1, <1>3, <2>1, CmdSent, Waiting
<1>4. drv' = drv /\ vif' \in Vif
  BY DEF drv
<1> QED BY <1>1, <1>2, <1>3, <1>4, CallKeeps

\* rwnx_close takes the interface out of vif_table and unlinks its channel.
LEMMA Sta_CloseTable ==
  ASSUME StaInv, UNCHANGED allow, CloseTable
  PROVE  StaInv'
<1> USE StaBounds DEF CloseTable
<1>1. /\ vif' \in Vif /\ (vif'.ap <=> vif.ap) /\ ~ vif'.ch_index /\ "closed" \in Op
  BY DEF Vif, Op
<1>2. count' = 0
  BY DEF rwnx_chanctx_unlink, StaInv, ChanCounted
<1>3. TypeOK' /\ fifo' \in Seq(Msg) /\ ChanCounted' /\ ChanInv'
  BY <1>1, <1>2 DEF StaInv, TypeOK, ChanCounted, ChanInv
<1>4. \E S \in SUBSET Nat : Story(S)'
  <2>1. PICK S \in SUBSET Nat : Story(S)
    BY DEF StaInv
  <2>2. Story(S)'
    BY <1>1, <2>1 DEF Story, StoryOf, Path
  <2> QED BY <2>2
<1>5. (Alone' => CmdInv') /\ ("sae" \notin allow' => PlainInv')
  BY DEF StaInv, Alone, PlainInv, CmdInv, Ack, Msgs, Waits
<1> QED BY <1>3, <1>4, <1>5 DEF StaInv

-----------------------------------------------------------------------------
\* What a handler takes from the queue: the story goes on from there.
LEMMA StoryTaken ==
  ASSUME StaInv, fifo # <<>>, fifo' = Tail(fifo),
         fw'.task = fw.task \/ (fw.task \in Trying /\ fw'.task \in Trying)
  PROVE  /\ fifo' \in Seq(Msg) /\ Head(fifo) \in Msg /\ 1 \in Msgs /\ Head(fifo) = fifo[1]
         /\ Len(fifo') = Len(fifo) - 1 /\ Len(fifo) \in Nat \ {0}
         /\ \A i \in 1..Len(fifo) - 1 : fifo'[i] = fifo[i + 1]
         /\ \E b, a \in BOOLEAN :
              /\ Turns(b, Head(fifo), a)
              /\ b => vif.ap
              /\ table => (b <=> vif.ch_index)
              /\ (a => vif'.ap) /\ (table' => (a <=> vif'.ch_index))
                   => \E T \in SUBSET Nat : Story(T)'
<1>1. /\ fifo' \in Seq(Msg) /\ Len(fifo') = Len(fifo) - 1 /\ Len(fifo) \in Nat \ {0}
      /\ \A i \in 1..Len(fifo) - 1 : fifo'[i] = fifo[i + 1]
      /\ Head(fifo) = fifo[1] /\ fifo[1] \in Msg
  BY Tailed DEF StaInv
<1>2. 1 \in Msgs
  BY <1>1 DEF Msgs
<1>3. PICK S \in SUBSET Nat : Story(S)
  BY DEF StaInv
<1>4. PICK T \in SUBSET Nat : /\ Path(fifo', T) /\ (0 \in T <=> 1 \in S)
                              /\ (Len(fifo') \in T <=> Len(fifo) \in S)
  BY <1>3, PathTail DEF StaInv, Story, StoryOf
<1>5. Turns(0 \in S, Head(fifo), 1 \in S)
  BY <1>3, PathTail DEF StaInv, Story, StoryOf
<1>6. ASSUME 1 \in S => vif'.ap, table' => (1 \in S <=> vif'.ch_index)
      PROVE  Story(T)'
  <2>1. fw'.task \in {"connected", "leaving"} => fw.task \in {"connected", "leaving"}
    BY DEF Trying
  <2>2. fw'.task \in Trying \union {"idle"} => fw.task \in Trying \union {"idle"}
    OBVIOUS
  <2>3. /\ fw'.task \in {"connected", "leaving"} => Len(fifo') \in T
        /\ fw'.task \in Trying \union {"idle"} => Len(fifo') \notin T
    BY <1>3, <1>4, <2>1, <2>2 DEF Story, StoryOf
  <2> QED BY <1>4, <1>6, <2>3 DEF Story, StoryOf, Path
<1> DEFINE b == 0 \in S  a == 1 \in S
<1>7. b \in BOOLEAN /\ a \in BOOLEAN
  OBVIOUS
<1>8. (b => vif.ap) /\ (table => (b <=> vif.ch_index))
  BY <1>3 DEF Story, StoryOf
<1>9. (a => vif'.ap) /\ (table' => (a <=> vif'.ch_index)) => \E U \in SUBSET Nat : Story(U)'
  BY <1>6
<1> HIDE DEF b, a
<1>10. Turns(b, Head(fifo), a)
  BY <1>5 DEF a, b
<1> QED BY <1>1, <1>2, <1>7, <1>8, <1>9, <1>10

\* A handler that takes an indication leaves the command in flight alone.
LEMMA CmdTaken ==
  ASSUME StaInv, UNCHANGED <<allow, op, cmds>>, fifo # <<>>, fifo' = Tail(fifo),
         Head(fifo).id # "cfm", mgr' = "INITED" => mgr = "INITED",
         "sae" \notin allow => mgr' = mgr, fw'.task = "absent" <=> fw.task = "absent"
  PROVE  (Alone' => CmdInv') /\ ("sae" \notin allow' => PlainInv')
<1>1. /\ Len(fifo') = Len(fifo) - 1 /\ Len(fifo) \in Nat \ {0} /\ Head(fifo) = fifo[1]
      /\ \A i \in 1..Len(fifo) - 1 : fifo'[i] = fifo[i + 1]
  BY Tailed DEF StaInv
<1>2. ~ Ack(1)
  BY <1>1 DEF Ack
<1>3. \A i \in Msgs' : i + 1 \in Msgs /\ i \in Nat /\ fifo'[i] = fifo[i + 1]
  BY <1>1 DEF Msgs
<1>4. \A i \in Msgs : i # 1 => i - 1 \in Msgs' /\ (i - 1) + 1 = i /\ fifo'[i - 1] = fifo[i]
  BY <1>1 DEF Msgs
<1>5. ASSUME CmdInv PROVE CmdInv'
  <2>1. \A i, j \in Msgs' : Ack(i)' /\ Ack(j)' => i = j
    <3>1. ASSUME NEW i \in Msgs', NEW j \in Msgs', Ack(i)', Ack(j)' PROVE i = j
      <4>1. i + 1 = j + 1
        BY <1>5, <1>3, <3>1 DEF CmdInv, Ack
      <4> QED BY <1>3, <4>1
    <3> QED BY <3>1
  <2>2. op \notin Waits => cmds = <<>> /\ \A i \in Msgs' : ~ Ack(i)'
    BY <1>3, <1>5 DEF CmdInv, Ack
  <2>3. op \in Waits => \/ cmds = <<Awaits[op]>> /\ \A i \in Msgs' : ~ Ack(i)'
                        \/ cmds = <<>> /\ \E i \in Msgs' : Ack(i)' /\ fifo'[i].of = Awaits[op]
    <3>1. ASSUME NEW i \in Msgs, Ack(i), fifo[i].of = Awaits[op]
          PROVE  \E j \in Msgs' : Ack(j)' /\ fifo'[j].of = Awaits[op]
      <4>1. i # 1
        BY <1>2, <3>1
      <4>2. i - 1 \in Msgs' /\ fifo'[i - 1] = fifo[i]
        BY <1>4, <4>1
      <4>3. Ack(i - 1)'
        BY <3>1, <4>2 DEF Ack
      <4> QED BY <3>1, <4>2, <4>3
    <3>2. (\A i \in Msgs : ~ Ack(i)) => \A i \in Msgs' : ~ Ack(i)'
      BY <1>3 DEF Ack
    <3> QED BY <1>5, <3>1, <3>2 DEF CmdInv
  <2>4. op = "close_removed" /\ cmds = <<>> => fw'.task = "absent" /\ Ack(Len(fifo))'
    <3>1. ASSUME op = "close_removed", cmds = <<>> PROVE Ack(Len(fifo))'
      <4>1. Ack(Len(fifo)) /\ Len(fifo) # 1
        BY <1>5, <1>2, <3>1 DEF CmdInv
      <4>2. Len(fifo) - 1 \in 1..Len(fifo) - 1 /\ (Len(fifo) - 1) + 1 = Len(fifo)
        BY <1>1, <4>1
      <4>3. fifo'[Len(fifo')] = fifo[Len(fifo)]
        BY <1>1, <4>2
      <4> QED BY <4>1, <4>3 DEF Ack
    <3> QED BY <1>5, <3>1 DEF CmdInv
  <2>5. op \notin {"close_table", "closed"}
    BY <1>5 DEF CmdInv
  <2> QED BY <1>5, <2>1, <2>2, <2>3, <2>4, <2>5 DEF CmdInv
<1>6. "sae" \notin allow' => PlainInv'
  BY <1>3 DEF StaInv, PlainInv
<1> QED BY <1>5, <1>6 DEF StaInv, Alone

\* A confirmation, for the call that waits for it or too late.
LEMMA Sta_Confirmed ==
  ASSUME StaInv, UNCHANGED allow, Confirmed
  PROVE  StaInv'
<1> USE StaBounds DEF Confirmed, Took
<1>1. /\ fifo' \in Seq(Msg) /\ 1 \in Msgs /\ Head(fifo) = fifo[1] /\ Ack(1)
      /\ Len(fifo') = Len(fifo) - 1 /\ Len(fifo) \in Nat \ {0}
      /\ \A i \in 1..Len(fifo) - 1 : fifo'[i] = fifo[i + 1]
  BY StoryTaken DEF Ack
<1>2. /\ op' \in Op /\ (op' = "closed" <=> op = "closed")
      /\ stack' \in {"idle", "connecting", "connected"}
  <2>1. CASE op \in DOMAIN After /\ Awaits[op] = Head(fifo).of
    BY <2>1, Waiting
  <2>2. CASE ~ (op \in DOMAIN After /\ Awaits[op] = Head(fifo).of)
    BY <2>2 DEF StaInv, TypeOK
  <2> QED BY <2>1, <2>2
<1>3. TypeOK' /\ ChanCounted' /\ ChanInv'
  BY <1>2 DEF StaInv, TypeOK, ChanCounted, ChanInv, drv
<1>4. \E T \in SUBSET Nat : Story(T)'
  <2>1. PICK b \in BOOLEAN, a \in BOOLEAN :
          /\ Turns(b, Head(fifo), a)
          /\ b => vif.ap
          /\ table => (b <=> vif.ch_index)
          /\ (a => vif'.ap) /\ (table' => (a <=> vif'.ch_index)) => \E T \in SUBSET Nat : Story(T)'
    BY StoryTaken
  <2>2. a <=> b
    BY <2>1 DEF Turns
  <2> QED BY <2>1, <2>2
<1>5. ASSUME CmdInv PROVE CmdInv'
  <2>1. op \in Waits /\ cmds = <<>> /\ fifo[1].of = Awaits[op] /\ \A i \in Msgs : Ack(i) => i = 1
    BY <1>1, <1>5, Waiting DEF CmdInv
  <2>2. op' = After[op]
    BY <1>1, <2>1, Waiting
  <2>3. \A i \in Msgs' : ~ Ack(i)'
    <3>1. ASSUME NEW i \in Msgs' PROVE ~ Ack(i)'
      <4>1. i + 1 \in Msgs /\ i + 1 # 1 /\ fifo'[i] = fifo[i + 1]
        BY <1>1 DEF Msgs
      <4> QED BY <2>1, <4>1 DEF Ack
    <3> QED BY <3>1
  <2>4. op = "close_removed" => fifo' = <<>> /\ fw.task = "absent"
    <3>1. ASSUME op = "close_removed" PROVE fifo' = <<>> /\ fw.task = "absent"
      <4>1. Ack(Len(fifo)) /\ fw.task = "absent"
        BY <1>5, <2>1, <3>1 DEF CmdInv
      <4>2. Len(fifo) \in Msgs
        BY <1>1 DEF Msgs
      <4>3. Len(fifo') = 0
        BY <1>1, <2>1, <4>1, <4>2
      <4> QED BY <1>1, <4>1, <4>3, EmptySeq
    <3> QED BY <3>1
  <2>5. op' \notin Waits /\ op' # "closed" /\ (op' = "close_table" <=> op = "close_removed")
    BY <2>1, <2>2, Waiting
  <2>6. op' # "close_removed"
    BY <2>5 DEF Waits
  <2> QED BY <1>5, <2>1, <2>3, <2>4, <2>5, <2>6 DEF CmdInv
<1>6. PlainInv => PlainInv'
  BY <1>1 DEF PlainInv, Msgs
<1> QED BY <1>1, <1>3, <1>4, <1>5, <1>6 DEF StaInv, Alone

\* The end of an attempt: the access point is recorded if it succeeded.
LEMMA Sta_rwnx_rx_sm_connect_ind ==
  ASSUME StaInv, UNCHANGED allow, rwnx_rx_sm_connect_ind
  PROVE  StaInv'
<1> USE StaBounds DEF rwnx_rx_sm_connect_ind, Took
<1> DEFINE m == Head(fifo)
<1>1. PICK b \in BOOLEAN, a \in BOOLEAN :
        /\ Turns(b, m, a)
        /\ b => vif.ap
        /\ table => (b <=> vif.ch_index)
        /\ (a => vif'.ap) /\ (table' => (a <=> vif'.ch_index)) => \E T \in SUBSET Nat : Story(T)'
  BY StoryTaken
<1>2. /\ fifo' \in Seq(Msg) /\ m \in Msg /\ m.id = "connect_ind" /\ m.ok \in BOOLEAN
      /\ rx = "idle"
  <2>1. fifo' \in Seq(Msg) /\ m \in Msg /\ m.id = "connect_ind" /\ rx = "idle"
    BY StoryTaken
  <2>2. \A n \in Msg : n.id = "connect_ind" => n.ok \in BOOLEAN
    BY DEF Msg
  <2> QED BY <2>1, <2>2
<1>3. ~ vif.ch_index /\ (a <=> m.ok)
  BY <1>1, <1>2 DEF Turns
<1>4. count = 0
  BY <1>3 DEF StaInv, ChanCounted
<1>5. CASE m.ok
  <2>1. /\ count' = 1 /\ rx' \in {"idle", "joined", "roamed"}
        /\ drv = "DISCONNECTING" \/ rx' # "idle"
    BY <1>4, <1>5
  <2>2. vif' \in Vif /\ vif'.ap /\ vif'.ch_index /\ drv' = drv
    BY <1>5 DEF Vif, drv
  <2>3. TypeOK' /\ ChanCounted' /\ ChanInv'
    BY <2>1, <2>2 DEF StaInv, TypeOK, ChanCounted, ChanInv
  <2>4. \E T \in SUBSET Nat : Story(T)'
    BY <1>1, <1>3, <1>5, <2>2
  <2>5. (Alone' => CmdInv') /\ ("sae" \notin allow' => PlainInv')
    BY <1>2, CmdTaken
  <2> QED BY <1>2, <2>3, <2>4, <2>5 DEF StaInv
<1>6. CASE ~ m.ok
  <2>1. count' = 0 /\ rx' \in {"join_failed", "roam_failed"}
    BY <1>4, <1>6
  <2>2. vif' \in Vif /\ (vif'.ap <=> vif.ap) /\ ~ vif'.ch_index
    BY <1>3, <1>6 DEF Vif, Drv
  <2>3. TypeOK' /\ ChanCounted' /\ ChanInv'
    BY <2>1, <2>2 DEF StaInv, TypeOK, ChanCounted, ChanInv
  <2>4. \E T \in SUBSET Nat : Story(T)'
    BY <1>1, <1>3, <1>6, <2>2
  <2>5. (Alone' => CmdInv') /\ ("sae" \notin allow' => PlainInv')
    BY <1>2, CmdTaken
  <2> QED BY <1>2, <2>3, <2>4, <2>5 DEF StaInv
<1> QED BY <1>2, <1>5, <1>6

\* The end of a connection: what was recorded of it is there, and forgotten.
LEMMA Sta_rwnx_rx_sm_disconnect_ind ==
  ASSUME StaInv, UNCHANGED allow, rwnx_rx_sm_disconnect_ind
  PROVE  StaInv'
<1> USE StaBounds DEF rwnx_rx_sm_disconnect_ind, Took
<1> DEFINE m == Head(fifo)
<1>1. PICK b \in BOOLEAN, a \in BOOLEAN :
        /\ Turns(b, m, a)
        /\ b => vif.ap
        /\ table => (b <=> vif.ch_index)
        /\ (a => vif'.ap) /\ (table' => (a <=> vif'.ch_index)) => \E T \in SUBSET Nat : Story(T)'
  BY StoryTaken
<1>2. fifo' \in Seq(Msg) /\ m.id = "disconnect_ind" /\ rx = "idle" /\ table
  BY StoryTaken
<1>3. vif.ch_index /\ ~ a /\ drv # "DISCONNECTED"
  BY <1>1, <1>2 DEF Turns, StaInv, ChanInv
<1>4. count = 1
  BY <1>3 DEF StaInv, ChanCounted
<1>5. count' = 0 /\ rx' = "left"
  BY <1>3, <1>4 DEF rwnx_chanctx_unlink
<1>6. vif' \in Vif /\ ~ vif'.ch_index
  BY <1>3 DEF Vif, rwnx_external_auth_disable
<1>7. stack' \in {"idle", "connecting", "connected"}
  <2>1. stack' = "idle" \/ stack' = stack
    BY <1>3
  <2> QED BY <2>1
<1>8. TypeOK' /\ ChanCounted' /\ ChanInv'
  BY <1>5, <1>6, <1>7 DEF StaInv, TypeOK, ChanCounted, ChanInv
<1>9. \E T \in SUBSET Nat : Story(T)'
  BY <1>1, <1>3, <1>6
<1>10. (Alone' => CmdInv') /\ ("sae" \notin allow' => PlainInv')
  BY <1>2, CmdTaken
<1> QED BY <1>2, <1>8, <1>9, <1>10 DEF StaInv

\* A request to authenticate changes nothing that is recorded.
LEMMA Sta_rwnx_rx_sm_external_auth_required_ind ==
  ASSUME StaInv, UNCHANGED allow, rwnx_rx_sm_external_auth_required_ind
  PROVE  StaInv'
<1> USE StaBounds DEF rwnx_rx_sm_external_auth_required_ind, Took
<1> DEFINE m == Head(fifo)
<1>1. fw'.task = fw.task \/ (fw.task \in Trying /\ fw'.task \in Trying)
  <2>1. fw' = fw \/ (fw' = [fw EXCEPT !.task = "denied"] /\ fw.task = "auth")
    OBVIOUS
  <2>2. ASSUME fw' = [fw EXCEPT !.task = "denied"]
        PROVE  fw'.task = "denied" \/ fw'.task = fw.task
    BY <2>2
  <2> QED BY <2>1, <2>2 DEF Trying
<1>2. PICK b \in BOOLEAN, a \in BOOLEAN :
        /\ Turns(b, m, a)
        /\ b => vif.ap
        /\ table => (b <=> vif.ch_index)
        /\ (a => vif'.ap) /\ (table' => (a <=> vif'.ch_index)) => \E T \in SUBSET Nat : Story(T)'
  BY <1>1, StoryTaken
<1>3. fifo' \in Seq(Msg) /\ m.id = "auth_ind" /\ m = fifo[1] /\ 1 \in Msgs
  BY <1>1, StoryTaken
<1>4. vif' \in Vif /\ (vif'.ap <=> vif.ap) /\ (vif'.ch_index <=> vif.ch_index) /\ drv' = drv
  BY DEF Vif, drv
<1>5. /\ mgr' \in {"INITED", "CRASHED"}
      /\ fw' \in Fw
  BY DEF StaInv, TypeOK, Fw, Trying
<1>6. TypeOK' /\ ChanCounted' /\ ChanInv'
  BY <1>4, <1>5 DEF StaInv, TypeOK, ChanCounted, ChanInv
<1>7. \E T \in SUBSET Nat : Story(T)'
  BY <1>2, <1>3, <1>4 DEF Turns
<1>8. (Alone' => CmdInv') /\ ("sae" \notin allow' => PlainInv')
  <2>1. "sae" \in allow
    BY <1>3 DEF StaInv, PlainInv
  <2>2. (mgr' = "INITED" => mgr = "INITED") /\ (fw'.task = "absent" <=> fw.task = "absent")
    BY <1>1 DEF StaInv, TypeOK, Trying
  <2>3. fifo # <<>> /\ fifo' = Tail(fifo) /\ UNCHANGED <<op, cmds>> /\ Head(fifo).id # "cfm"
    BY <1>3
  <2> QED BY <2>1, <2>2, <2>3, CmdTaken
<1> QED BY <1>3, <1>6, <1>7, <1>8 DEF StaInv

\* The rest of a handler.
LEMMA StaHandled ==
  ASSUME StaInv, UNCHANGED allow, ConnectIndTells \/ DisconnectIndEnds
  PROVE  StaInv'
<1> USE StaBounds DEF ConnectIndTells, DisconnectIndEnds
<1>1. /\ vif' \in Vif /\ (vif'.ap <=> vif.ap) /\ (vif'.ch_index <=> vif.ch_index)
      /\ drv' = "DISCONNECTED" => drv = "DISCONNECTED" \/ ~ vif.ch_index
  <2>1. CASE ConnectIndTells
    <3>1. CASE rx \in {"joined", "roamed"}
      BY <2>1, <3>1 DEF Vif, drv, Drv
    <3>2. CASE rx \notin {"joined", "roamed"}
      BY <2>1, <3>2 DEF Vif, drv, Drv, rwnx_external_auth_disable, StaInv, ChanInv
    <3> QED BY <3>1, <3>2
  <2>2. CASE DisconnectIndEnds
    BY <2>2 DEF Vif, drv, Drv, StaInv, ChanInv
  <2> QED BY <2>1, <2>2
<1>2. /\ UNCHANGED <<table, fifo, fw, count, mgr, op, cmds, calls>> /\ rx' = "idle"
      /\ stack' \in {"idle", "connecting", "connected"}
  OBVIOUS
<1>3. rx \in {"joined", "roamed"} => drv' = "CONNECTED"
  BY DEF Vif, drv
<1>4. TypeOK' /\ fifo' \in Seq(Msg) /\ ChanCounted' /\ ChanInv'
  <2>1. TypeOK' /\ fifo' \in Seq(Msg) /\ ChanCounted'
    BY <1>1, <1>2 DEF StaInv, TypeOK, ChanCounted
  <2>2. ChanInv'
    BY <1>1, <1>2, <1>3 DEF StaInv, ChanInv
  <2> QED BY <2>1, <2>2
<1>5. \E S \in SUBSET Nat : Story(S)'
  <2>1. PICK S \in SUBSET Nat : Story(S)
    BY DEF StaInv
  <2>2. Story(S)'
    BY <1>1, <1>2, <2>1 DEF Story, StoryOf, Path
  <2> QED BY <2>2
<1>6. (Alone' => CmdInv') /\ ("sae" \notin allow' => PlainInv')
  BY <1>2 DEF StaInv, Alone, PlainInv, CmdInv, Ack, Msgs
<1> QED BY <1>4, <1>5, <1>6 DEF StaInv

-----------------------------------------------------------------------------
\* What the firmware says continues the story: a confirmation changes nothing,
\* an indication begins or ends a connection.
LEMMA StoryAppend ==
  ASSUME NEW f \in Seq(Msg), NEW m \in Msg, NEW t, NEW u,
         NEW S \in SUBSET Nat, StoryOf(f, t, S),
         \/ /\ m.id \in {"cfm", "auth_ind"}
            /\ u \in {"connected", "leaving"} => t \in {"connected", "leaving"}
            /\ u \in Trying \union {"idle"} => t \in Trying \union {"idle"}
         \/ /\ m.id = "connect_ind" /\ t \in Trying \union {"idle"}
            /\ (m.ok /\ u = "connected") \/ (~ m.ok /\ u = "idle")
         \/ /\ m.id = "disconnect_ind" /\ t \in {"connected", "leaving"}
            /\ u \in Trying \union {"idle"}
  PROVE  /\ Append(f, m) \in Seq(Msg)
         /\ \E T \in SUBSET Nat : StoryOf(Append(f, m), u, T)
<1>0. Append(f, m) \in Seq(Msg) /\ Len(Append(f, m)) = Len(f) + 1 /\ Len(f) \in Nat
  BY Appended
<1>1. ~ (u \in {"connected", "leaving"} /\ u \in Trying \union {"idle"})
  BY DEF Trying
<1>2. ASSUME NEW b \in BOOLEAN, Turns(Len(f) \in S, m, b),
             u \in {"connected", "leaving"} => b, u \in Trying \union {"idle"} => ~ b
      PROVE  \E T \in SUBSET Nat : StoryOf(Append(f, m), u, T)
  <2>1. PICK T \in SUBSET Nat : /\ Path(Append(f, m), T) /\ (0 \in T <=> 0 \in S)
                                /\ (Len(f) + 1 \in T <=> b)
    BY <1>2, PathAppend DEF StoryOf
  <2>2. StoryOf(Append(f, m), u, T)
    BY <1>0, <1>2, <2>1 DEF StoryOf
  <2> QED BY <2>2
<1>3. CASE /\ m.id \in {"cfm", "auth_ind"}
           /\ u \in {"connected", "leaving"} => t \in {"connected", "leaving"}
           /\ u \in Trying \union {"idle"} => t \in Trying \union {"idle"}
  <2> DEFINE b == Len(f) \in S
  <2>1. b \in BOOLEAN /\ Turns(Len(f) \in S, m, b)
    BY <1>3 DEF Turns
  <2>2. (u \in {"connected", "leaving"} => b) /\ (u \in Trying \union {"idle"} => ~ b)
    BY <1>3 DEF StoryOf
  <2> HIDE DEF b
  <2> QED BY <1>2, <2>1, <2>2
<1>4. CASE /\ m.id = "connect_ind" /\ t \in Trying \union {"idle"}
           /\ (m.ok /\ u = "connected") \/ (~ m.ok /\ u = "idle")
  <2> DEFINE b == u = "connected"
  <2>1. Len(f) \notin S
    BY <1>4 DEF StoryOf
  <2>2. b \in BOOLEAN /\ Turns(Len(f) \in S, m, b)
    BY <1>4, <2>1 DEF Turns
  <2>3. (u \in {"connected", "leaving"} => b) /\ (u \in Trying \union {"idle"} => ~ b)
    BY <1>1, <1>4
  <2> HIDE DEF b
  <2> QED BY <1>2, <2>2, <2>3
<1>5. CASE /\ m.id = "disconnect_ind" /\ t \in {"connected", "leaving"}
           /\ u \in Trying \union {"idle"}
  <2> DEFINE b == u = "connected"
  <2>1. Len(f) \in S /\ ~ b
    BY <1>1, <1>5 DEF StoryOf
  <2>2. b \in BOOLEAN /\ Turns(Len(f) \in S, m, b)
    BY <1>5, <2>1 DEF Turns
  <2>3. (u \in {"connected", "leaving"} => b) /\ (u \in Trying \union {"idle"} => ~ b)
    BY <1>1, <1>5, <2>1
  <2> HIDE DEF b
  <2> QED BY <1>2, <2>2, <2>3
<1> QED BY <1>0, <1>3, <1>4, <1>5

\* An answer is the only one, and the last word of a firmware that goes.
LEMMA CmdAnswered ==
  ASSUME CmdInv, cmds # <<>>, cmds' = Tail(cmds), UNCHANGED op,
         fifo \in Seq(Msg), NEW n \in {1, 2}, Len(fifo') = Len(fifo) + n,
         \A i \in 1..Len(fifo) : fifo'[i] = fifo[i],
         fifo'[Len(fifo) + 1].id = "cfm", fifo'[Len(fifo) + 1].of = Head(cmds),
         n = 2 => fifo'[Len(fifo) + 2].id # "cfm",
         Head(cmds) = "remove" => n = 1 /\ fw'.task = "absent"
  PROVE  CmdInv'
<1>0. Len(fifo) \in Nat
  OBVIOUS
<1>1. op \in Waits /\ cmds = <<Awaits[op]>> /\ \A i \in Msgs : ~ Ack(i)
  BY DEF CmdInv
<1>2. cmds' = <<>> /\ Head(cmds) = Awaits[op]
  BY <1>1
<1>3. ASSUME NEW i \in Msgs'
      PROVE  Ack(i)' <=> i = Len(fifo) + 1
  <2>1. CASE i \in 1..Len(fifo)
    BY <1>0, <1>1, <2>1 DEF Ack, Msgs
  <2>2. CASE i = Len(fifo) + 1
    BY <2>2 DEF Ack
  <2>3. CASE n = 2 /\ i = Len(fifo) + 2
    BY <1>0, <2>3 DEF Ack
  <2> QED BY <1>0, <2>1, <2>2, <2>3 DEF Msgs
<1>4. Len(fifo) + 1 \in Msgs' /\ fifo'[Len(fifo) + 1].of = Awaits[op]
  BY <1>0, <1>2 DEF Msgs
<1>5. op = "close_removed" => fw'.task = "absent" /\ Ack(Len(fifo))'
  BY <1>0, <1>2, Waiting DEF Ack
<1>6. op \notin {"close_table", "closed"}
  BY <1>1 DEF Waits
<1>7. \E i \in Msgs' : Ack(i)' /\ fifo'[i].of = Awaits[op]
  BY <1>3, <1>4
<1> QED BY <1>1, <1>2, <1>3, <1>5, <1>6, <1>7 DEF CmdInv

\* What is said is no request to authenticate.
LEMMA PlainSaid ==
  ASSUME PlainInv, UNCHANGED mgr, fifo \in Seq(Msg), NEW n \in {1, 2}, Len(fifo') = Len(fifo) + n,
         \A i \in 1..Len(fifo) : fifo'[i] = fifo[i], fifo'[Len(fifo) + 1].id # "auth_ind",
         n = 2 => fifo'[Len(fifo) + 2].id # "auth_ind"
  PROVE  PlainInv'
<1>1. Len(fifo) \in Nat
  OBVIOUS
<1>2. ASSUME NEW i \in Msgs'
      PROVE  fifo'[i].id # "auth_ind"
  <2>1. i \in 1..Len(fifo) \/ i = Len(fifo) + 1 \/ (n = 2 /\ i = Len(fifo) + 2)
    BY <1>1 DEF Msgs
  <2> QED BY <1>1, <2>1 DEF PlainInv, Msgs
<1> QED BY <1>2 DEF PlainInv

\* A firmware that goes on is not the one that was removed.
LEMMA CmdGoes ==
  ASSUME CmdInv, fw.task # "absent", UNCHANGED <<op, cmds>>, fifo \in Seq(Msg),
         NEW m \in Msg, fifo' = Append(fifo, m), m.id # "cfm"
  PROVE  CmdInv'
<1>0. /\ Len(fifo') = Len(fifo) + 1 /\ Len(fifo) \in Nat
      /\ \A i \in 1..Len(fifo) : fifo'[i] = fifo[i]
      /\ fifo'[Len(fifo) + 1] = m
  BY Appended
<1>1. ASSUME NEW i \in Msgs'
      PROVE  Ack(i)' <=> i \in Msgs /\ Ack(i)
  BY <1>0 DEF Ack, Msgs
<1>2. \A i \in Msgs : i \in Msgs' /\ fifo'[i] = fifo[i]
  BY <1>0 DEF Msgs
<1>3. op \notin {"close_table", "closed"} /\ ~ (op = "close_removed" /\ cmds = <<>>)
  BY DEF CmdInv
<1>4. op \in Waits =>
        \/ cmds = <<Awaits[op]>> /\ \A i \in Msgs' : ~ Ack(i)'
        \/ cmds = <<>> /\ \E i \in Msgs' : Ack(i)' /\ fifo'[i].of = Awaits[op]
  BY <1>1, <1>2 DEF CmdInv
<1> QED BY <1>1, <1>3, <1>4 DEF CmdInv

\* What the firmware says changes nothing in the driver.
LEMMA FwKeeps ==
  ASSUME StaInv, UNCHANGED <<allow, vif, count, table, mgr, op, rx, stack>>,
         cmds' \in Seq(Cmd), fw' \in Fw, calls' \in 0..MaxCalls[allow],
         fifo' \in Seq(Msg), \E T \in SUBSET Nat : StoryOf(fifo', fw'.task, T),
         Alone /\ CmdInv => CmdInv', "sae" \notin allow /\ PlainInv => PlainInv'
  PROVE  StaInv'
<1>1. TypeOK' /\ ChanCounted' /\ ChanInv'
  BY DEF StaInv, TypeOK, ChanCounted, ChanInv, drv
<1>2. \E T \in SUBSET Nat : Story(T)'
  <2>1. PICK T \in SUBSET Nat : StoryOf(fifo', fw'.task, T)
    OBVIOUS
  <2>2. Story(T)'
    BY <2>1 DEF Story, StoryOf, Path
  <2> QED BY <2>2
<1> QED BY <1>1, <1>2 DEF StaInv, Alone

\* An answer, alone.
LEMMA FwAnswers ==
  ASSUME StaInv, UNCHANGED allow, NEW ok \in BOOLEAN, NEW g \in Fw, NEW c \in Cmd,
         Says(c, <<cfm(ok)>>, g),
         g.task \in {"connected", "leaving"} => fw.task \in {"connected", "leaving"},
         g.task \in Trying \union {"idle"} => fw.task \in Trying \union {"idle"},
         c = "remove" => g.task = "absent"
  PROVE  StaInv'
<1> USE DEF Says
<1> DEFINE m == cfm(ok)
<1>1. m \in Msg /\ m.id = "cfm" /\ m.of = Head(cmds)
  BY Made DEF cfm
<1> HIDE DEF m
<1>2. fifo' = Append(fifo, m)
  BY <1>1, TwoAppended DEF m, StaInv
<1>3. /\ fifo' \in Seq(Msg) /\ Len(fifo') = Len(fifo) + 1
      /\ \A i \in 1..Len(fifo) : fifo'[i] = fifo[i]
      /\ fifo'[Len(fifo) + 1] = m /\ fifo \in Seq(Msg)
  BY <1>1, <1>2, Appended DEF StaInv
<1>4. PICK S \in SUBSET Nat : StoryOf(fifo, fw.task, S)
  BY DEF StaInv, Story
<1>5. \E T \in SUBSET Nat : StoryOf(fifo', g.task, T)
  BY <1>1, <1>2, <1>3, <1>4, StoryAppend
<1>6. cmds' \in Seq(Cmd) /\ calls' \in 0..MaxCalls[allow]
  BY StaBounds, HeadTailProperties DEF StaInv, TypeOK
<1>7. CmdInv => CmdInv'
  <2>1. 1 \in {1, 2} /\ (Head(cmds) = "remove" => 1 = 1 /\ fw'.task = "absent")
    OBVIOUS
  <2> QED BY <1>1, <1>3, <2>1, CmdAnswered
<1>8. PlainInv => PlainInv'
  BY <1>1, <1>3, PlainSaid
<1> QED BY <1>3, <1>5, <1>6, <1>7, <1>8, FwKeeps

\* An answer, and what it begins or ends.
LEMMA FwAnswersAndGoes ==
  ASSUME StaInv, UNCHANGED allow, NEW ok \in BOOLEAN, NEW g \in Fw, NEW c \in Cmd \ {"remove"},
         NEW d \in Msg, Says(c, <<cfm(ok), d>>, g),
         \/ /\ d.id = "connect_ind" /\ fw.task \in Trying \union {"idle"}
            /\ (d.ok /\ g.task = "connected") \/ (~ d.ok /\ g.task = "idle")
         \/ /\ d.id = "disconnect_ind" /\ fw.task \in {"connected", "leaving"}
            /\ g.task \in Trying \union {"idle"}
  PROVE  StaInv'
<1> USE DEF Says
<1> DEFINE m == cfm(ok)
<1>1. m \in Msg /\ m.id = "cfm" /\ m.of = Head(cmds)
  BY Made DEF cfm
<1> HIDE DEF m
<1>2. fifo' = Append(Append(fifo, m), d)
  BY <1>1, TwoAppended DEF m, StaInv
<1> DEFINE f == Append(fifo, m)
<1>3. /\ f \in Seq(Msg) /\ Len(f) = Len(fifo) + 1 /\ \A i \in 1..Len(fifo) : f[i] = fifo[i]
      /\ f[Len(fifo) + 1] = m /\ fifo \in Seq(Msg) /\ Len(fifo) \in Nat
  BY <1>1, Appended DEF StaInv
<1>4. PICK S \in SUBSET Nat : StoryOf(fifo, fw.task, S)
  BY DEF StaInv, Story
<1>5. PICK R \in SUBSET Nat : StoryOf(f, fw.task, R)
  BY <1>1, <1>3, <1>4, StoryAppend
<1> HIDE DEF f
<1>6. fifo' = Append(f, d)
  BY <1>2 DEF f
<1>7. \E T \in SUBSET Nat : StoryOf(fifo', g.task, T)
  <2>1. /\ f \in Seq(Msg) /\ d \in Msg /\ StoryOf(f, fw.task, R)
        /\ \/ /\ d.id = "connect_ind" /\ fw.task \in Trying \union {"idle"}
              /\ (d.ok /\ g.task = "connected") \/ (~ d.ok /\ g.task = "idle")
           \/ /\ d.id = "disconnect_ind" /\ fw.task \in {"connected", "leaving"}
              /\ g.task \in Trying \union {"idle"}
    BY <1>3, <1>5
  <2>2. \E T \in SUBSET Nat : StoryOf(Append(f, d), g.task, T)
    BY <2>1, StoryAppend
  <2> QED BY <1>6, <2>2
<1>8. /\ fifo' \in Seq(Msg) /\ Len(fifo') = Len(f) + 1
      /\ \A i \in 1..Len(f) : fifo'[i] = f[i]
      /\ fifo'[Len(f) + 1] = d
  BY <1>3, <1>6, Appended
<1>9. /\ Len(fifo') = Len(fifo) + 2 /\ \A i \in 1..Len(fifo) : fifo'[i] = fifo[i]
      /\ fifo'[Len(fifo) + 1] = m /\ fifo'[Len(fifo) + 2] = d
  <2>1. Len(f) + 1 = Len(fifo) + 2 /\ Len(fifo) + 1 \in 1..Len(f)
        /\ \A i \in 1..Len(fifo) : i \in 1..Len(f)
    BY <1>3
  <2> QED BY <1>3, <1>8, <2>1
<1>10. cmds' \in Seq(Cmd) /\ calls' \in 0..MaxCalls[allow]
  BY StaBounds, HeadTailProperties DEF StaInv, TypeOK
<1>11. CmdInv => CmdInv'
  <2>1. 2 \in {1, 2} /\ d.id # "cfm" /\ Head(cmds) # "remove"
    OBVIOUS
  <2> QED BY <1>1, <1>3, <1>9, <2>1, CmdAnswered
<1>12. PlainInv => PlainInv'
  BY <1>1, <1>3, <1>9, PlainSaid
<1> QED BY <1>7, <1>8, <1>10, <1>11, <1>12, FwKeeps

\* What happens in the firmware.
LEMMA FwHappens ==
  ASSUME StaInv, UNCHANGED allow, NEW d \in Msg, NEW g \in Fw, fifo' = Append(fifo, d), fw' = g,
         UNCHANGED <<vif, count, table, mgr, op, cmds, rx, stack>>, calls' \in 0..MaxCalls[allow],
         \/ /\ d.id = "auth_ind" /\ "sae" \in allow /\ fw.task \in Trying /\ g.task \in Trying
         \/ /\ d.id = "connect_ind" /\ fw.task \in Trying
            /\ (d.ok /\ g.task = "connected") \/ (~ d.ok /\ g.task = "idle")
         \/ /\ d.id = "disconnect_ind" /\ fw.task \in {"connected", "leaving"}
            /\ g.task = "idle"
  PROVE  StaInv'
<1>1. PICK S \in SUBSET Nat : StoryOf(fifo, fw.task, S)
  BY DEF StaInv, Story
<1>2. fifo \in Seq(Msg) /\ cmds' \in Seq(Cmd)
  BY DEF StaInv, TypeOK
<1>3. \/ /\ d.id \in {"cfm", "auth_ind"}
         /\ g.task \in {"connected", "leaving"} => fw.task \in {"connected", "leaving"}
         /\ g.task \in Trying \union {"idle"} => fw.task \in Trying \union {"idle"}
      \/ /\ d.id = "connect_ind" /\ fw.task \in Trying \union {"idle"}
         /\ (d.ok /\ g.task = "connected") \/ (~ d.ok /\ g.task = "idle")
      \/ /\ d.id = "disconnect_ind" /\ fw.task \in {"connected", "leaving"}
         /\ g.task \in Trying \union {"idle"}
  BY DEF Trying
<1>4. fifo' \in Seq(Msg) /\ \E T \in SUBSET Nat : StoryOf(fifo', g.task, T)
  BY <1>1, <1>2, <1>3, StoryAppend
<1>5. ASSUME Alone, CmdInv
      PROVE  CmdInv'
  <2>1. fw.task # "absent" /\ d.id # "cfm"
    BY <1>5 DEF Trying
  <2> QED BY <1>2, <1>5, <2>1, CmdGoes
<1>6. ASSUME "sae" \notin allow, PlainInv
      PROVE  PlainInv'
  <2>1. /\ Len(fifo') = Len(fifo) + 1 /\ fifo'[Len(fifo) + 1] = d
        /\ \A i \in 1..Len(fifo) : fifo'[i] = fifo[i]
    BY <1>2, Appended
  <2>2. d.id # "auth_ind"
    BY <1>6
  <2> QED BY <1>2, <1>6, <2>1, <2>2, PlainSaid
<1> QED BY <1>2, <1>4, <1>5, <1>6, FwKeeps

\* The tasks of the firmware, and its messages.
LEMMA FwTasks ==
  /\ \A f \in Fw : f.task \in Trying \union {"absent", "idle", "connected", "leaving"}
  /\ \A t \in Trying \union {"absent", "idle", "connected", "leaving"} :
       Task(t) \in Fw /\ Task(t).task = t
  /\ \A f \in Fw, t \in Trying : [f EXCEPT !.task = t] \in Fw /\ [f EXCEPT !.task = t].task = t
  /\ {"connecting", "auth", "joining", "denied"} = Trying
  /\ Trying \intersect {"absent", "idle", "connected", "leaving"} = {}
BY DEF Fw, Task, Trying

\* The firmware refuses a connection, begins one, or leaves one for another.
LEMMA Sta_FwConnect ==
  ASSUME StaInv, UNCHANGED allow, FwConnect
  PROVE  StaInv'
<1>0. fw \in Fw /\ TRUE \in BOOLEAN /\ FALSE \in BOOLEAN
      /\ "connect" \in Cmd \ {"remove"}
  BY DEF StaInv, TypeOK, Cmd
<1>1. CASE Says("connect", <<cfm(FALSE)>>, fw)
  BY <1>0, <1>1, FwAnswers
<1>2. CASE fw.task = "idle" /\ Says("connect", <<cfm(TRUE)>>, Task("connecting"))
  <2>1. Task("connecting") \in Fw /\ Task("connecting").task \in Trying
    BY FwTasks
  <2> QED BY <1>0, <1>2, <2>1, FwTasks, FwAnswers
<1>3. CASE /\ fw.task = "connected"
           /\ Says("connect", <<cfm(TRUE), disconnect_ind(TRUE)>>,
                   [task |-> "connecting", roam |-> TRUE])
  <2> DEFINE g == [task |-> "connecting", roam |-> TRUE]
             d == disconnect_ind(TRUE)
  <2>1. g \in Fw /\ g.task \in Trying
    BY DEF Fw, Trying
  <2>2. d \in Msg /\ d.id = "disconnect_ind"
    BY Made DEF disconnect_ind
  <2>3. Says("connect", <<cfm(TRUE), d>>, g)
    BY <1>3
  <2> HIDE DEF g, d
  <2> QED BY <1>0, <1>3, <2>1, <2>2, <2>3, FwAnswersAndGoes
<1> QED BY <1>1, <1>2, <1>3 DEF FwConnect

\* The firmware gives an attempt up, or begins to leave.
LEMMA Sta_FwDisconnect ==
  ASSUME StaInv, UNCHANGED allow, FwDisconnect
  PROVE  StaInv'
<1>0. fw \in Fw /\ TRUE \in BOOLEAN /\ FALSE \in BOOLEAN /\ fw.roam \in BOOLEAN
      /\ "disconnect" \in Cmd \ {"remove"}
  BY DEF StaInv, TypeOK, Cmd, Fw
<1>1. CASE Says("disconnect", <<cfm(TRUE)>>, fw)
  BY <1>0, <1>1, FwAnswers
<1>2. CASE /\ fw.task \in Trying
           /\ Says("disconnect", <<cfm(TRUE), connect_ind(FALSE)>>, Task("idle"))
  <2> DEFINE g == Task("idle")  d == connect_ind(FALSE)
  <2>1. g \in Fw /\ g.task = "idle"
    BY FwTasks
  <2>2. d \in Msg /\ d.id = "connect_ind" /\ ~ d.ok
    BY <1>0, Made DEF connect_ind
  <2>3. Says("disconnect", <<cfm(TRUE), d>>, g)
    BY <1>2
  <2> HIDE DEF g, d
  <2> QED BY <1>0, <1>2, <2>1, <2>2, <2>3, FwAnswersAndGoes
<1>3. CASE fw.task = "connected" /\ Says("disconnect", <<cfm(TRUE)>>, Task("leaving"))
  <2>1. Task("leaving") \in Fw /\ Task("leaving").task = "leaving"
    BY FwTasks
  <2>2. "leaving" \notin Trying \union {"idle"}
    BY FwTasks
  <2> QED BY <1>0, <1>3, <2>1, <2>2, FwAnswers
<1> QED BY <1>1, <1>2, <1>3 DEF FwDisconnect

\* The firmware takes the user's answer, or goes.
LEMMA StaAuthOrRemove ==
  ASSUME StaInv, UNCHANGED allow, FwAuth \/ FwRemove
  PROVE  StaInv'
<1>0. fw \in Fw /\ TRUE \in BOOLEAN /\ "auth" \in Cmd /\ "remove" \in Cmd
  BY DEF StaInv, TypeOK, Cmd
<1>1. CASE FwAuth
  <2> DEFINE g == IF fw.task = "auth" THEN [fw EXCEPT !.task = "joining"] ELSE fw
  <2>1. g \in Fw /\ (g.task = fw.task \/ (fw.task \in Trying /\ g.task \in Trying))
    BY <1>0, FwTasks
  <2>2. Says("auth", <<cfm(TRUE)>>, g)
    BY <1>1 DEF FwAuth
  <2>3. /\ g.task \in {"connected", "leaving"} => fw.task \in {"connected", "leaving"}
        /\ g.task \in Trying \union {"idle"} => fw.task \in Trying \union {"idle"}
    BY <2>1, FwTasks
  <2> HIDE DEF g
  <2> QED BY <1>0, <2>1, <2>2, <2>3, FwAnswers
<1>2. CASE FwRemove
  <2>1. Task("absent") \in Fw /\ Task("absent").task = "absent"
    BY FwTasks
  <2>2. "absent" \notin {"connected", "leaving"} /\ "absent" \notin Trying \union {"idle"}
    BY FwTasks
  <2> QED BY <1>0, <1>2, <2>1, <2>2, FwAnswers DEF FwRemove
<1> QED BY <1>1, <1>2

\* What the firmware does on its own account.
LEMMA StaFwGoes ==
  ASSUME StaInv, UNCHANGED allow, FwNeedsAuth \/ FwJoins \/ FwFails \/ FwLeft \/ FwLosesLink
  PROVE  StaInv'
<1>0. /\ fw \in Fw /\ TRUE \in BOOLEAN /\ FALSE \in BOOLEAN /\ fw.roam \in BOOLEAN
      /\ calls \in 0..MaxCalls[allow] /\ (Count => calls' \in 0..MaxCalls[allow])
  BY StaBounds DEF StaInv, TypeOK, Fw
<1>1. CASE FwNeedsAuth
  <2> DEFINE d == [id |-> "auth_ind"]  g == [fw EXCEPT !.task = "auth"]
  <2>1. d \in Msg /\ d.id = "auth_ind" /\ g \in Fw /\ g.task \in Trying /\ fw.task \in Trying
    BY <1>0, <1>1, Made, FwTasks DEF FwNeedsAuth
  <2>2. /\ fifo' = Append(fifo, d) /\ fw' = g /\ "sae" \in allow /\ calls' \in 0..MaxCalls[allow]
        /\ UNCHANGED <<vif, count, table, mgr, op, cmds, rx, stack>>
    BY <1>0, <1>1 DEF FwNeedsAuth, FwGoes
  <2> HIDE DEF d, g
  <2> QED BY <2>1, <2>2, FwHappens
<1>2. CASE FwJoins
  <2> DEFINE d == connect_ind(TRUE)  g == Task("connected")
  <2>1. /\ d \in Msg /\ d.id = "connect_ind" /\ d.ok /\ g \in Fw /\ g.task = "connected"
        /\ fw.task \in Trying
    BY <1>0, <1>2, Made, FwTasks DEF FwJoins, connect_ind
  <2>2. /\ fifo' = Append(fifo, d) /\ fw' = g /\ calls' \in 0..MaxCalls[allow]
        /\ UNCHANGED <<vif, count, table, mgr, op, cmds, rx, stack>>
    BY <1>0, <1>2 DEF FwJoins, FwGoes
  <2> HIDE DEF d, g
  <2> QED BY <2>1, <2>2, FwHappens
<1>3. CASE FwFails
  <2> DEFINE d == connect_ind(FALSE)  g == Task("idle")
  <2>1. /\ d \in Msg /\ d.id = "connect_ind" /\ ~ d.ok /\ g \in Fw /\ g.task = "idle"
        /\ fw.task \in Trying
    BY <1>0, <1>3, Made, FwTasks DEF FwFails, connect_ind
  <2>2. /\ fifo' = Append(fifo, d) /\ fw' = g /\ calls' \in 0..MaxCalls[allow]
        /\ UNCHANGED <<vif, count, table, mgr, op, cmds, rx, stack>>
    BY <1>0, <1>3 DEF FwFails, FwGoes
  <2> HIDE DEF d, g
  <2> QED BY <2>1, <2>2, FwHappens
<1>4. CASE FwLeft \/ FwLosesLink
  <2> DEFINE d == disconnect_ind(FALSE)  g == Task("idle")
  <2>1. /\ d \in Msg /\ d.id = "disconnect_ind" /\ g \in Fw /\ g.task = "idle"
        /\ fw.task \in {"connected", "leaving"}
    BY <1>0, <1>4, Made, FwTasks DEF FwLeft, FwLosesLink, disconnect_ind
  <2>2. /\ fifo' = Append(fifo, d) /\ fw' = g /\ calls' \in 0..MaxCalls[allow]
        /\ UNCHANGED <<vif, count, table, mgr, op, cmds, rx, stack>>
    BY <1>0, <1>4 DEF FwLeft, FwLosesLink, FwGoes
  <2> HIDE DEF d, g
  <2> QED BY <2>1, <2>2, FwHappens
<1> QED BY <1>1, <1>2, <1>3, <1>4

-----------------------------------------------------------------------------
\* Every step keeps the invariant.
LEMMA StaStep ==
  ASSUME StaInv, [Next]_vars
  PROVE  StaInv'
<1>1. CASE UNCHANGED vars
  <2>1. TypeOK' /\ ChanCounted' /\ ChanInv'
    BY <1>1 DEF vars, StaInv, TypeOK, ChanCounted, ChanInv, drv
  <2>2. PICK S \in SUBSET Nat : Story(S)
    BY DEF StaInv
  <2>3. Story(S)'
    BY <1>1, <2>2 DEF vars, Story, StoryOf, Path
  <2>4. (Alone' => CmdInv') /\ ("sae" \notin allow' => PlainInv')
    BY <1>1 DEF vars, StaInv, Alone, PlainInv, CmdInv, Ack, Msgs
  <2> QED BY <1>1, <2>1, <2>3, <2>4 DEF vars, StaInv
<1>2. CASE Calls
  BY <1>2, Sta_rwnx_open, StaCloses, Sta_rwnx_cfg80211_connect, Sta_rwnx_cfg80211_disconnect,
     Sta_rwnx_cfg80211_external_auth DEF Calls, Same
<1>3. CASE CloseStep \/ Disconnects
  BY <1>3, StaCloses, Sta_CloseLeave, Sta_rwnx_send_remove_if, Sta_CloseTable,
     Sta_DisconnectResumes DEF CloseStep, Disconnects, Same
<1>4. CASE Receive
  BY <1>4, Sta_Confirmed, Sta_rwnx_rx_sm_connect_ind, Sta_rwnx_rx_sm_disconnect_ind,
     Sta_rwnx_rx_sm_external_auth_required_ind, StaHandled DEF Receive, Same
<1>5. CASE Answers \/ Ends \/ Goes
  BY <1>5, Sta_FwConnect, Sta_FwDisconnect, StaAuthOrRemove, StaFwGoes
    DEF Answers, Ends, Goes, Same
<1> QED BY <1>1, <1>2, <1>3, <1>4, <1>5 DEF Next

\* The interface is closed at first, with nothing recorded.
LEMMA StaInit ==
  ASSUME Init
  PROVE  StaInv
<1>1. MaxCalls[allow] \in Nat /\ Task("absent") \in Fw /\ Task("absent").task = "absent"
  BY StaAssumption, FwTasks DEF Init
<1>2. vif \in Vif /\ ~ vif.ap /\ ~ vif.ch_index
  BY DEF Init, Vif, Drv
<1>3. <<>> \in Seq(Cmd) /\ <<>> \in Seq(Msg) /\ Len(<<>>) = 0
  OBVIOUS
<1>4. TypeOK
  <2>1. calls \in 0..MaxCalls[allow] /\ op \in Op
    BY <1>1 DEF Init, Op
  <2> QED BY <1>1, <1>2, <1>3, <2>1 DEF Init, TypeOK
<1>5. ChanCounted /\ ChanInv
  BY <1>2 DEF Init, ChanCounted, ChanInv
<1>6. Story({})
  BY <1>1, <1>2, <1>3, FwTasks DEF Init, Story, StoryOf, Path
<1>7. CmdInv /\ PlainInv
  BY <1>1, <1>3 DEF Init, CmdInv, PlainInv, Waits, Msgs
<1> QED BY <1>3, <1>4, <1>5, <1>6, <1>7 DEF Init, StaInv

\* rwnx_rx_sm_disconnect_ind finds the access point that it uses, and the
\* channel context is held exactly once: for any number of calls, and whatever
\* may go wrong.  No indication reaches a handler after rwnx_close took the
\* interface out of vif_table, as long as its command is confirmed.
THEOREM ApTheorem == Spec => []ApRecorded
<1>1. StaInv => ApRecorded
  <2> SUFFICES ASSUME StaInv PROVE ApRecorded
    OBVIOUS
  <2>1. ASSUME fifo # <<>>, Head(fifo).id = "disconnect_ind"
        PROVE  vif.ap
    <3>1. PICK S \in SUBSET Nat : Story(S)
      BY DEF StaInv
    <3>2. Turns(0 \in S, Head(fifo), 1 \in S)
      BY <2>1, <3>1, PathTail DEF StaInv, Story, StoryOf
    <3> QED BY <2>1, <3>1, <3>2 DEF Turns, Story, StoryOf
  <2>2. ASSUME allow \intersect {"sae", "defer"} = {}
        PROVE  NoNullVif
    BY <2>2 DEF StaInv, Alone, CmdInv, PlainInv, ChanInv, NoNullVif
  <2> QED BY <2>1, <2>2 DEF ApRecorded, StaInv, ApThere
<1> QED BY <1>1, StaInit, StaStep, PTL DEF Spec

-----------------------------------------------------------------------------
(* What the stack is told of the link.                                      *)

\* The stages of a call in which the interface is up.
UpOps == {"none", "connect", "disconnect", "auth", "close_wait", "close_down"}

\* Calls in one piece, of a manager that works as long as the interface is up;
\* an interface that closed has told the stack so.
ModeInv ==
  /\ vif.up <=> op \in UpOps
  /\ op # "leave" /\ (vif.up => mgr = "INITED" /\ fw.task # "absent")
  /\ op = "connect" => drv # "DISCONNECTING"
  /\ mgr = "INITED" /\ op \in {"close_table", "closed"} => rx = "idle"
  /\ mgr = "INITED" /\ op = "closed" => stack = "idle"

\* The end of a connection that another replaces follows the confirmation of
\* the call that asked for it, and the stack is not told of either.
Reassoc(i) == fifo[i].id = "disconnect_ind" /\ fifo[i].reassoc
ReassocInv == /\ \A i \in Msgs : Reassoc(i) => i = 1 \/ (op = "connect" /\ Ack(i - 1))
              /\ rx = "roamed" => stack = "connected"

\* A firmware whose connection is given up knows that, or is about to be told.
LeaveInv == drv = "DISCONNECTING" => cmds = <<"disconnect">> \/ fw.task \in {"idle", "leaving"}

\* A message m takes the stack from `before`, whether it knows of a connection,
\* to `after`.
Tells(before, m, after) ==
  /\ m.id = "connect_ind" => (after <=> m.ok) /\ (m.ok /\ m.roamed => before)
  /\ m.id = "disconnect_ind" => (after <=> m.reassoc) /\ (m.reassoc => before)
  /\ m.id \in {"cfm", "auth_ind"} => (after <=> before)

\* The messages after which, by what they say, the stack knows of a connection.
TellsPath(f, K) == \A i \in 1..Len(f) : Tells(i - 1 \in K, f[i], i \in K)

\* They end where the firmware w is: a roam is a connection for the stack.
TaleOf(f, w, K) ==
  /\ TellsPath(f, K)
  /\ w.task \in {"connected", "leaving"} => Len(f) \in K
  /\ w.task \in Trying => (Len(f) \in K <=> w.roam)
  /\ w.task = "idle" => Len(f) \notin K

\* The firmware goes from w to u as it says m.
TaskGoes(w, m, u) ==
  \/ /\ m.id \in {"cfm", "auth_ind"}
     /\ u.task \in {"connected", "leaving"} => w.task \in {"connected", "leaving"}
     /\ u.task \in Trying => \/ w.task \in Trying /\ u.roam = w.roam
                             \/ w.task = "idle" /\ ~ u.roam
     /\ u.task = "idle" => w.task = "idle"
  \/ /\ m.id = "connect_ind" /\ m.ok /\ w.task \in Trying /\ (m.roamed <=> w.roam)
     /\ u.task = "connected"
  \/ m.id = "connect_ind" /\ ~ m.ok /\ u.task = "idle"
  \/ /\ m.id = "disconnect_ind" /\ m.reassoc /\ w.task = "connected"
     /\ u.task \in Trying /\ u.roam
  \/ m.id = "disconnect_ind" /\ ~ m.reassoc /\ u.task = "idle"

\* What the stack knows once the receive thread is done with what it took.
StackNow == IF rx = "joined" THEN TRUE
            ELSE IF rx \in {"join_failed", "roam_failed"} THEN FALSE ELSE stack = "connected"

\* They begin with what the stack knows.  It misses a connection only if that
\* is given up already, and its end will be told.
Unwanted == drv = "DISCONNECTING" /\ vif.ch_index /\ rx = "idle" /\ \A i \in Msgs : ~ Reassoc(i)
Tale(K) == /\ TaleOf(fifo, fw, K)
           /\ StackNow => 0 \in K
           /\ 0 \in K /\ ~ StackNow => Unwanted

UpInv == ReassocInv /\ LeaveInv /\ \E K \in SUBSET Nat : Tale(K)

\* Something is under way that sets the state of the connection, in the
\* receive thread or before it.
Link(i) == fifo[i].id \in {"connect_ind", "disconnect_ind"}
Due == \/ cmds = <<"connect">> \/ fw.task \in Trying \union {"leaving"}
       \/ \E i \in Msgs : Link(i)
Leaves == fw.task = "connected" /\ cmds = <<"disconnect">>
Pending == rx # "idle" \/ Due \/ Leaves

\* If nobody roams, the state agrees with the channel context or something
\* sets it; and is_roam is set in the middle of a disconnect_ind only.
StayInv ==
  /\ drv = "CONNECTED" => (rx = "idle" /\ vif.ch_index /\ stack = "connected") \/ rx = "left"
  /\ vif.is_roam => drv # "CONNECTED" /\ (~ vif.ch_index \/ rx \in {"joined", "roamed"})
  /\ rx = "left" /\ vif.is_roam => Due
  /\ rx \in {"joined", "roamed"} => vif.ch_index
  /\ drv = (IF vif.ch_index THEN "CONNECTED" ELSE "DISCONNECTED") \/ Pending

Calm == allow \subseteq {"roam", "sae"}

LinkInv == /\ Calm => ModeInv /\ (vif.up => UpInv)
           /\ allow \subseteq {"sae"} /\ vif.up => StayInv

\* A set of numbers has a least one.
LEMMA NatMin ==
  ASSUME NEW T \in SUBSET Nat, T # {}
  PROVE  \E x \in T : \A y \in T : x <= y
<1> DEFINE R == OpToRel(<, Nat)
<1>1. IsWellFoundedOn(R, Nat)
  BY NatLessThanWellFounded
<1> HIDE DEF R
<1>2. PICK x \in T : \A y \in T : ~ (<<y, x>> \in R)
  BY <1>1, WFMin
<1>3. \A m, n \in Nat : <<n, m>> \in R <=> n < m
  BY DEF R, OpToRel
<1>4. ASSUME NEW y \in T PROVE x <= y
  <2>1. x \in Nat /\ y \in Nat /\ ~ (<<y, x>> \in R)
    BY <1>2
  <2>2. ~ (y < x)
    BY <1>3, <2>1
  <2> QED BY <2>1, <2>2
<1> QED BY <1>4

\* Without an indication nothing begins or ends.
LEMMA NoLink ==
  ASSUME NEW f \in Seq(Msg), NEW S \in SUBSET Nat, Path(f, S),
         \A i \in 1..Len(f) : f[i].id \notin {"connect_ind", "disconnect_ind"}
  PROVE  Len(f) \in S <=> 0 \in S
<1>0. Len(f) \in Nat /\ \A i \in 1..Len(f) : f[i] \in Msg
  OBVIOUS
<1> DEFINE B == {i \in Nat : i \in 0..Len(f) /\ ~ (i \in S <=> 0 \in S)}
<1>1. B = {}
  <2> SUFFICES ASSUME B # {} PROVE FALSE
    OBVIOUS
  <2>1. PICK x \in B : \A y \in B : x <= y
    BY NatMin
  <2>2. x \in 1..Len(f) /\ x - 1 \in 0..Len(f) /\ x - 1 \in Nat
    BY <1>0, <2>1
  <2>3. x - 1 \notin B
    BY <1>0, <2>1, <2>2
  <2>4. x - 1 \in S <=> 0 \in S
    BY <2>2, <2>3
  <2>5. Turns(x - 1 \in S, f[x], x \in S) /\ f[x].id \in {"cfm", "auth_ind"}
    BY <1>0, <2>2, Made DEF Path
  <2>6. x \in S <=> x - 1 \in S
    BY <2>5 DEF Turns
  <2> QED BY <2>1, <2>4, <2>6
<1>2. Len(f) \in 0..Len(f)
  BY <1>0
<1> QED BY <1>0, <1>1, <1>2

\* One more message continues what the stack is told.
LEMMA TellsAppend ==
  ASSUME NEW f \in Seq(Msg), NEW m \in Msg, NEW K \in SUBSET Nat, TellsPath(f, K),
         NEW b \in BOOLEAN, Tells(Len(f) \in K, m, b)
  PROVE  \E T \in SUBSET Nat : /\ TellsPath(Append(f, m), T) /\ (0 \in T <=> 0 \in K)
                               /\ (Len(f) + 1 \in T <=> b)
<1>0. /\ Append(f, m) \in Seq(Msg) /\ Len(Append(f, m)) = Len(f) + 1
      /\ \A i \in 1..Len(f) : Append(f, m)[i] = f[i]
      /\ Append(f, m)[Len(f) + 1] = m /\ Len(f) \in Nat
  BY Appended
<1> DEFINE T == {i \in Nat : (i \in 0..Len(f) /\ i \in K) \/ (i = Len(f) + 1 /\ b)}
<1>1. /\ \A i \in 0..Len(f) : i \in T <=> i \in K
      /\ Len(f) + 1 \in T <=> b
      /\ T \in SUBSET Nat
  BY <1>0
<1> HIDE DEF T
<1>2. ASSUME NEW i \in 1..Len(f) + 1
      PROVE  Tells(i - 1 \in T, Append(f, m)[i], i \in T)
  <2>1. CASE i \in 1..Len(f)
    <3>1. i - 1 \in 0..Len(f) /\ i \in 0..Len(f)
      BY <1>0, <2>1
    <3>2. (i - 1 \in T <=> i - 1 \in K) /\ (i \in T <=> i \in K) /\ Append(f, m)[i] = f[i]
      BY <1>0, <1>1, <2>1, <3>1
    <3> QED BY <2>1, <3>2 DEF TellsPath, Tells
  <2>2. CASE i = Len(f) + 1
    <3>1. i - 1 = Len(f) /\ Len(f) \in 0..Len(f)
      BY <1>0, <2>2
    <3> QED BY <1>0, <1>1, <2>2, <3>1 DEF Tells
  <2> QED BY <1>0, <2>1, <2>2
<1>3. 0 \in T <=> 0 \in K
  BY <1>0, <1>1
<1>4. TellsPath(Append(f, m), T)
  BY <1>0, <1>2 DEF TellsPath
<1> QED BY <1>1, <1>3, <1>4

\* So does one message less.
LEMMA TellsTail ==
  ASSUME NEW f \in Seq(Msg), f # <<>>, NEW K \in SUBSET Nat, TellsPath(f, K)
  PROVE  /\ Tells(0 \in K, Head(f), 1 \in K)
         /\ \E T \in SUBSET Nat : /\ TellsPath(Tail(f), T) /\ (0 \in T <=> 1 \in K)
                                  /\ (Len(Tail(f)) \in T <=> Len(f) \in K)
<1>0. /\ Tail(f) \in Seq(Msg) /\ Len(Tail(f)) = Len(f) - 1 /\ Len(f) \in Nat \ {0}
      /\ \A i \in 1..Len(f) - 1 : Tail(f)[i] = f[i + 1]
      /\ Head(f) = f[1] /\ f[1] \in Msg
  BY Tailed
<1> DEFINE T == {i \in Nat : i + 1 \in K}
<1>1. /\ \A i \in Nat : i \in T <=> i + 1 \in K
      /\ T \in SUBSET Nat
  OBVIOUS
<1> HIDE DEF T
<1>2. TellsPath(Tail(f), T)
  <2> SUFFICES ASSUME NEW i \in 1..Len(f) - 1
               PROVE  Tells(i - 1 \in T, Tail(f)[i], i \in T)
    BY <1>0 DEF TellsPath
  <2>1. i + 1 \in 1..Len(f) /\ i \in Nat /\ i - 1 \in Nat /\ (i - 1) + 1 = i /\ (i + 1) - 1 = i
    BY <1>0
  <2>2. Tells((i + 1) - 1 \in K, f[i + 1], i + 1 \in K)
    BY <2>1 DEF TellsPath
  <2>3. (i - 1 \in T <=> i \in K) /\ (i \in T <=> i + 1 \in K) /\ Tail(f)[i] = f[i + 1]
    BY <1>0, <1>1, <2>1
  <2> QED BY <2>1, <2>2, <2>3 DEF Tells
<1>3. (0 \in T <=> 1 \in K) /\ (Len(Tail(f)) \in T <=> Len(f) \in K)
  <2>1. 0 + 1 = 1 /\ Len(f) - 1 \in Nat /\ (Len(f) - 1) + 1 = Len(f)
    BY <1>0
  <2> QED BY <1>0, <1>1, <2>1
<1>4. Tells(0 \in K, Head(f), 1 \in K)
  <2>1. 1 \in 1..Len(f) /\ 1 - 1 = 0
    BY <1>0
  <2>2. Tells(1 - 1 \in K, f[1], 1 \in K)
    BY <2>1 DEF TellsPath
  <2> QED BY <1>0, <2>1, <2>2
<1> QED BY <1>1, <1>3, <1>2, <1>4

\* What the firmware says continues it.
LEMMA TaleAppend ==
  ASSUME NEW f \in Seq(Msg), NEW m \in Msg, NEW w \in Fw, NEW u \in Fw,
         NEW K \in SUBSET Nat, TaleOf(f, w, K),
         TaskGoes(w, m, u)
  PROVE  \E T \in SUBSET Nat : TaleOf(Append(f, m), u, T) /\ (0 \in T <=> 0 \in K)
<1>0. Append(f, m) \in Seq(Msg) /\ Len(Append(f, m)) = Len(f) + 1 /\ Len(f) \in Nat
  BY Appended
<1>1. ASSUME NEW b \in BOOLEAN, Tells(Len(f) \in K, m, b),
             u.task \in {"connected", "leaving"} => b,
             u.task \in Trying => (b <=> u.roam), u.task = "idle" => ~ b
      PROVE  \E T \in SUBSET Nat : TaleOf(Append(f, m), u, T) /\ (0 \in T <=> 0 \in K)
  <2>1. PICK T \in SUBSET Nat : /\ TellsPath(Append(f, m), T) /\ (0 \in T <=> 0 \in K)
                                /\ (Len(f) + 1 \in T <=> b)
    BY <1>1, TellsAppend DEF TaleOf
  <2>2. TaleOf(Append(f, m), u, T)
    BY <1>0, <1>1, <2>1 DEF TaleOf
  <2> QED BY <2>1, <2>2
<1>2. CASE /\ m.id \in {"cfm", "auth_ind"}
           /\ u.task \in {"connected", "leaving"} => w.task \in {"connected", "leaving"}
           /\ u.task \in Trying => \/ w.task \in Trying /\ u.roam = w.roam
                                   \/ w.task = "idle" /\ ~ u.roam
           /\ u.task = "idle" => w.task = "idle"
  <2> DEFINE b == Len(f) \in K
  <2>1. b \in BOOLEAN /\ Tells(Len(f) \in K, m, b)
    BY <1>2 DEF Tells
  <2>2. /\ u.task \in {"connected", "leaving"} => b
        /\ u.task \in Trying => (b <=> u.roam)
        /\ u.task = "idle" => ~ b
    BY <1>2 DEF TaleOf
  <2> HIDE DEF b
  <2> QED BY <1>1, <2>1, <2>2
<1>3. CASE /\ m.id = "connect_ind" /\ m.ok /\ w.task \in Trying /\ (m.roamed <=> w.roam)
           /\ u.task = "connected"
  <2>1. Tells(Len(f) \in K, m, TRUE)
    BY <1>3 DEF Tells, TaleOf
  <2>2. u.task \notin Trying /\ u.task # "idle"
    BY <1>3, FwTasks
  <2> QED BY <1>1, <2>1, <2>2
<1>4. CASE /\ u.task = "idle"
           /\ \/ m.id = "connect_ind" /\ ~ m.ok
              \/ m.id = "disconnect_ind" /\ ~ m.reassoc
  <2>1. Tells(Len(f) \in K, m, FALSE)
    BY <1>4 DEF Tells
  <2>2. u.task \notin Trying /\ u.task \notin {"connected", "leaving"}
    BY <1>4, FwTasks
  <2> QED BY <1>1, <2>1, <2>2
<1>5. CASE /\ m.id = "disconnect_ind" /\ m.reassoc /\ w.task = "connected"
           /\ u.task \in Trying /\ u.roam
  <2>1. Tells(Len(f) \in K, m, TRUE)
    BY <1>5 DEF Tells, TaleOf
  <2>2. u.task \notin {"connected", "leaving", "idle"}
    BY <1>5, FwTasks
  <2> QED BY <1>1, <1>5, <2>1, <2>2
<1> QED BY <1>2, <1>3, <1>4, <1>5 DEF TaskGoes

\* What a handler takes: it goes on from there.
LEMMA TaleTaken ==
  ASSUME StaInv, fifo # <<>>, fifo' = Tail(fifo), UNCHANGED fw, NEW K \in SUBSET Nat, Tale(K)
  PROVE  \E b, a \in BOOLEAN :
           /\ Tells(b, Head(fifo), a)
           /\ (StackNow => b) /\ (b /\ ~ StackNow => Unwanted)
           /\ (StackNow' => a) /\ (a /\ ~ StackNow' => Unwanted')
                => \E T \in SUBSET Nat : Tale(T)'
<1>1. PICK T \in SUBSET Nat : /\ TellsPath(fifo', T) /\ (0 \in T <=> 1 \in K)
                              /\ (Len(fifo') \in T <=> Len(fifo) \in K)
  BY TellsTail DEF StaInv, Tale, TaleOf
<1>2. Tells(0 \in K, Head(fifo), 1 \in K)
  BY TellsTail DEF StaInv, Tale, TaleOf
<1> DEFINE b == 0 \in K  a == 1 \in K
<1>3. (StackNow => b) /\ (b /\ ~ StackNow => Unwanted)
  BY DEF Tale
<1>4. ASSUME StackNow' => a, a /\ ~ StackNow' => Unwanted'
      PROVE  Tale(T)'
  <2>1. TaleOf(fifo', fw', T)
    BY <1>1 DEF Tale, TaleOf
  <2>2. TaleOf(fifo, fw, T)'
    BY <2>1 DEF TaleOf, TellsPath
  <2> QED BY <1>1, <1>4, <2>2 DEF Tale
<1>5. b \in BOOLEAN /\ a \in BOOLEAN /\ Tells(b, Head(fifo), a)
  BY <1>2
<1> HIDE DEF b, a
<1>6. (StackNow' => a) /\ (a /\ ~ StackNow' => Unwanted') => \E U \in SUBSET Nat : Tale(U)'
  BY <1>4
<1> QED BY <1>3, <1>5, <1>6

-----------------------------------------------------------------------------
\* In calm behaviours a call that may send waits, and it is the only one.
LEMMA CalmSends ==
  ASSUME StaInv, Calm
  PROVE  /\ {"defer", "slow", "busy", "einval", "preempt", "noowner"} \intersect allow = {}
         /\ mgr = "INITED" => CmdInv
         /\ \A c, w, a : mgr = "INITED" /\ op \notin Waits /\ rwnx_send_msg(c, w, a)
                           => op' = w /\ cmds' = <<c>> /\ cmds = <<>>
<1>1. {"defer", "slow", "busy", "einval", "preempt", "noowner"} \intersect allow = {}
  BY DEF Calm
<1>2. mgr = "INITED" => CmdInv /\ Alone
  BY <1>1 DEF StaInv, Alone
<1>3. ASSUME NEW c, NEW w, NEW a, mgr = "INITED", op \notin Waits, rwnx_send_msg(c, w, a)
      PROVE  op' = w /\ cmds' = <<c>> /\ cmds = <<>>
  <2>1. op' = w /\ cmds' = <<c>>
    BY <1>2, <1>3, SendWaits
  <2>2. cmds = <<>>
    BY <1>2, <1>3 DEF CmdInv
  <2> QED BY <2>1, <2>2
<1> QED BY <1>1, <1>2, <1>3

\* Calls of the stack keep the mode.
LEMMA ModeCalls ==
  ASSUME StaInv, Calm, ModeInv, UNCHANGED allow, Calls
  PROVE  ModeInv'
<1> USE StaBounds
<1>1. CASE rwnx_open
  BY <1>1 DEF rwnx_open, ModeInv, UpOps, Vif, drv, Task
<1>2. CASE Close
  BY <1>2 DEF Close, ModeInv, UpOps, drv
<1>3. ASSUME NEW einval \in BOOLEAN, rwnx_cfg80211_connect(einval)
      PROVE  ModeInv'
  <2>1. op = "none" /\ op \notin Waits /\ vif.up /\ mgr = "INITED" /\ fw.task # "absent"
    BY <1>3 DEF rwnx_cfg80211_connect, ModeInv, UpOps, Waits
  <2>2. UNCHANGED <<mgr, rx, fw>>
    BY <1>3 DEF rwnx_cfg80211_connect
  <2>3. CASE UNCHANGED op
    <3>1. vif'.up = vif.up
      BY <1>3 DEF rwnx_cfg80211_connect, Vif
    <3> QED BY <2>1, <2>2, <2>3, <3>1 DEF ModeInv, UpOps
  <2>4. CASE ~ UNCHANGED op
    <3>1. /\ drv \notin {"DISCONNECTING", "CONNECTING"}
          /\ rwnx_send_msg("connect", "connect", "none")
      BY <1>3, <2>4 DEF rwnx_cfg80211_connect
    <3>2. op' = "connect"
      BY <2>1, <3>1, CalmSends
    <3>3. vif'.up = vif.up /\ drv' \in {"ROAMING", "CONNECTING"}
      BY <1>3, <3>1 DEF rwnx_cfg80211_connect, Vif, drv
    <3> QED BY <2>1, <2>2, <3>2, <3>3 DEF ModeInv, UpOps
  <2> QED BY <2>3, <2>4
<1>4. CASE rwnx_cfg80211_disconnect
  <2>1. op = "none" /\ op \notin Waits /\ vif.up /\ mgr = "INITED" /\ fw.task # "absent"
    BY <1>4 DEF rwnx_cfg80211_disconnect, ModeInv, UpOps, Waits
  <2>2. UNCHANGED <<mgr, rx, fw>> /\ vif'.up = vif.up
    BY <1>4, CalmSends DEF rwnx_cfg80211_disconnect, Vif
  <2>3. UNCHANGED op \/ rwnx_send_msg("disconnect", "disconnect", "none")
    BY <1>4, CalmSends DEF rwnx_cfg80211_disconnect
  <2>4. op' \in {"none", "disconnect"}
    BY <2>1, <2>3, CalmSends
  <2> QED BY <2>1, <2>2, <2>4 DEF ModeInv, UpOps
<1>5. CASE rwnx_cfg80211_external_auth
  <2>1. op = "none" /\ op \notin Waits /\ vif.up /\ mgr = "INITED" /\ fw.task # "absent"
    BY <1>5 DEF rwnx_cfg80211_external_auth, ModeInv, UpOps, Waits
  <2>2. UNCHANGED <<mgr, rx, fw>> /\ vif'.up = vif.up
    BY <1>5 DEF rwnx_cfg80211_external_auth, rwnx_external_auth_disable, Vif
  <2>3. op' = "auth"
    BY <1>5, <2>1, CalmSends DEF rwnx_cfg80211_external_auth
  <2> QED BY <2>1, <2>2, <2>3 DEF ModeInv, UpOps
<1> QED BY <1>1, <1>2, <1>3, <1>4, <1>5 DEF Calls

\* So do the steps of rwnx_close.
LEMMA ModeCloses ==
  ASSUME StaInv, Calm, ModeInv, UNCHANGED allow, CloseStep \/ Disconnects
  PROVE  ModeInv'
<1> USE StaBounds
<1>0. ~ Disconnects
  BY DEF Disconnects, DisconnectResumes, ModeInv
<1>1. CASE CloseWaited \/ CloseSettled
  BY <1>1 DEF CloseWaited, CloseSettled, ModeInv, UpOps, drv
<1>2. CASE CloseDown
  <2>1. ~ vif'.up /\ drv' = drv
    BY <1>2 DEF CloseDown, Vif, drv
  <2> QED BY <1>2, <2>1 DEF CloseDown, ModeInv, UpOps
<1>3. CASE CloseLeave
  <2>1. vif'.up = vif.up /\ op = "close_leave" /\ UNCHANGED <<mgr, rx, fw, stack>>
    BY <1>3 DEF CloseLeave, Vif
  <2>2. op' \in {"close_leave_sent", "close_settle", "close_remove"}
    BY <1>3 DEF CloseLeave, rwnx_send_msg
  <2> QED BY <2>1, <2>2 DEF ModeInv, UpOps
<1>4. CASE rwnx_send_remove_if
  <2>1. op = "close_remove" /\ op \notin Waits /\ UNCHANGED <<vif, mgr, rx, fw, stack>>
    BY <1>4 DEF rwnx_send_remove_if, Waits
  <2>2. op' \in {"close_removed", "close_table"} /\ (mgr = "INITED" => op' = "close_removed")
    BY <1>4, <2>1, CalmSends DEF rwnx_send_remove_if, rwnx_send_msg
  <2> QED BY <2>1, <2>2 DEF ModeInv, UpOps, drv
<1>5. CASE CloseTable
  <2>1. vif'.up = vif.up
    BY <1>5 DEF CloseTable, Vif
  <2> QED BY <1>5, <2>1 DEF CloseTable, ModeInv, UpOps
<1> QED BY <1>0, <1>1, <1>2, <1>3, <1>4, <1>5 DEF CloseStep

\* So do the handlers, which come to an interface that closed no more.
LEMMA ModeReceives ==
  ASSUME StaInv, Calm, ModeInv, UNCHANGED allow, Receive
  PROVE  ModeInv'
<1> USE StaBounds, CalmSends
<1>1. CASE Confirmed
  <2>1. UNCHANGED <<vif, mgr, rx, fw>> /\ rx = "idle" /\ drv' = drv
    BY <1>1 DEF Confirmed, Took, drv
  <2>2. CASE op \in DOMAIN After /\ Awaits[op] = Head(fifo).of
    <3>1. /\ op' = After[op] /\ op \in Waits /\ op' \notin Waits /\ op' # "closed"
      BY <1>1, <2>2, Waiting DEF Confirmed
    <3>2. op' \in UpOps <=> op \in UpOps
      BY <3>1 DEF After, Waits, UpOps
    <3>3. op' # "leave" /\ op' # "connect"
      BY <3>1 DEF After, Waits
    <3> QED BY <2>1, <3>1, <3>2, <3>3 DEF ModeInv
  <2>3. CASE ~ (op \in DOMAIN After /\ Awaits[op] = Head(fifo).of)
    BY <1>1, <2>1, <2>3 DEF Confirmed, ModeInv
  <2> QED BY <2>2, <2>3
<1>2. CASE rwnx_rx_sm_connect_ind \/ rwnx_rx_sm_disconnect_ind
  <2>1. UNCHANGED <<mgr, op, fw>> /\ fifo # <<>>
    BY <1>2 DEF rwnx_rx_sm_connect_ind, rwnx_rx_sm_disconnect_ind, Took
  <2>2. vif'.up = vif.up /\ (drv' = "DISCONNECTING" => drv = "DISCONNECTING")
    <3>1. CASE rwnx_rx_sm_connect_ind
      BY <3>1 DEF rwnx_rx_sm_connect_ind, Vif, drv
    <3>2. CASE rwnx_rx_sm_disconnect_ind
      BY <3>2 DEF rwnx_rx_sm_disconnect_ind, rwnx_external_auth_disable, Vif, drv
    <3> QED BY <1>2, <3>1, <3>2
  <2>3. mgr = "INITED" => op \notin {"close_table", "closed"}
    BY <2>1 DEF CmdInv
  <2> QED BY <2>1, <2>2, <2>3 DEF ModeInv
<1>3. CASE ConnectIndTells \/ DisconnectIndEnds
  <2>1. UNCHANGED <<mgr, op, fw>> /\ rx # "idle" /\ rx' = "idle"
    BY <1>3 DEF ConnectIndTells, DisconnectIndEnds
  <2>2. vif'.up = vif.up /\ (drv' = "DISCONNECTING" => drv = "DISCONNECTING")
    <3>1. CASE ConnectIndTells
      BY <3>1 DEF ConnectIndTells, rwnx_external_auth_disable, Vif, drv
    <3>2. CASE DisconnectIndEnds
      BY <3>2 DEF DisconnectIndEnds, Vif, drv
    <3> QED BY <1>3, <3>1, <3>2
  <2> QED BY <2>1, <2>2 DEF ModeInv
<1>4. CASE rwnx_rx_sm_external_auth_required_ind
  <2>1. UNCHANGED <<op, rx, stack>>
    BY <1>4 DEF rwnx_rx_sm_external_auth_required_ind
  <2>2. vif'.up = vif.up /\ drv' = drv
    BY <1>4 DEF rwnx_rx_sm_external_auth_required_ind, Vif, drv
  <2>3. (mgr' = "INITED" => mgr = "INITED") /\ (vif.up => mgr' = mgr /\ fw' = fw)
    BY <1>4 DEF rwnx_rx_sm_external_auth_required_ind
  <2> QED BY <2>1, <2>2, <2>3 DEF ModeInv
<1> QED BY <1>1, <1>2, <1>3, <1>4 DEF Receive

\* So does the firmware, which goes only when told.
LEMMA ModeFw ==
  ASSUME StaInv, Calm, ModeInv, UNCHANGED allow, Answers \/ Ends \/ Goes
  PROVE  ModeInv'
<1>1. UNCHANGED <<vif, mgr, op, rx, stack>> /\ drv' = drv
  BY DEF Answers, Ends, Goes, FwConnect, FwDisconnect, FwAuth, FwRemove, FwJoins, FwFails,
         FwLeft, FwNeedsAuth, FwLosesLink, Says, FwGoes, drv
<1>2. vif.up => fw'.task # "absent"
  <2> SUFFICES ASSUME vif.up PROVE fw'.task # "absent"
    OBVIOUS
  <2>1. mgr = "INITED" /\ op # "close_removed" /\ fw.task # "absent" /\ fw \in Fw
    BY DEF ModeInv, UpOps, StaInv, TypeOK
  <2>2. ~ FwRemove
    <3>1. CmdInv
      BY <2>1, CalmSends
    <3>2. ASSUME FwRemove PROVE FALSE
      <4>1. cmds # <<>> /\ Head(cmds) = "remove"
        BY <3>2 DEF FwRemove, Says
      <4>2. op \in Waits /\ cmds = <<Awaits[op]>>
        BY <3>1, <4>1 DEF CmdInv
      <4>3. Awaits[op] = "remove"
        BY <4>1, <4>2
      <4> QED BY <2>1, <4>2, <4>3, Waiting DEF Waits
    <3> QED BY <3>2
  <2>3. CASE Answers
    <3>1. fw' = fw \/ fw' \in {Task("connecting"), Task("idle"), Task("leaving")}
            \/ fw' = [task |-> "connecting", roam |-> TRUE] \/ fw' = [fw EXCEPT !.task = "joining"]
      BY <2>2, <2>3 DEF Answers, FwConnect, FwDisconnect, FwAuth, Says
    <3> QED BY <2>1, <3>1 DEF Task, Fw
  <2>4. CASE Ends \/ Goes
    <3>1. fw' \in {Task("connected"), Task("idle")} \/ fw' = [fw EXCEPT !.task = "auth"]
      BY <2>4 DEF Ends, Goes, FwJoins, FwFails, FwLeft, FwNeedsAuth, FwLosesLink, FwGoes
    <3> QED BY <2>1, <3>1 DEF Task, Fw
  <2> QED BY <2>3, <2>4
<1> QED BY <1>1, <1>2 DEF ModeInv

-----------------------------------------------------------------------------
\* The messages behind the one that is taken.
LEMMA Shifted ==
  ASSUME StaInv, fifo # <<>>, fifo' = Tail(fifo)
  PROVE  /\ \A i \in Msgs' : i \in Nat /\ i + 1 \in Msgs /\ i + 1 # 1 /\ fifo'[i] = fifo[i + 1]
         /\ \A i \in Msgs' : i = 1 \/ (i - 1 \in Msgs' /\ (i - 1) + 1 = i /\ (i + 1) - 1 = i)
         /\ 1 \in Msgs /\ Head(fifo) = fifo[1] /\ fifo[1] \in Msg /\ fifo' \in Seq(Msg)
<1>1. /\ fifo' \in Seq(Msg) /\ Len(fifo') = Len(fifo) - 1 /\ Len(fifo) \in Nat \ {0}
      /\ \A i \in 1..Len(fifo) - 1 : fifo'[i] = fifo[i + 1]
      /\ Head(fifo) = fifo[1] /\ fifo[1] \in Msg
  BY Tailed DEF StaInv
<1> QED BY <1>1 DEF Msgs

\* What an indication says is true or false.
LEMMA Said ==
  /\ \A m \in Msg : m.id = "connect_ind" => m.ok \in BOOLEAN /\ m.roamed \in BOOLEAN
  /\ \A m \in Msg : m.id = "disconnect_ind" => m.reassoc \in BOOLEAN
BY DEF Msg

\* The end that a roam announces is the next message, or the one behind the
\* confirmation; no roam is under way in a connection that is given up.
LEMMA ReassocTaken ==
  ASSUME StaInv, ModeInv, ReassocInv, fifo # <<>>, fifo' = Tail(fifo)
  PROVE  /\ \A i \in Msgs' : Reassoc(i)' => /\ op = "connect" /\ Ack(i)
                                            /\ i = 1 \/ Ack(i - 1)'
                                            /\ i + 1 \in Msgs /\ Reassoc(i + 1)
         /\ drv = "DISCONNECTING" => \A i \in Msgs' : ~ Reassoc(i)'
<1>1. ASSUME NEW i \in Msgs', Reassoc(i)'
      PROVE  /\ op = "connect" /\ Ack(i) /\ (i = 1 \/ Ack(i - 1)')
             /\ i + 1 \in Msgs /\ Reassoc(i + 1)
  <2>1. i + 1 \in Msgs /\ i + 1 # 1 /\ fifo'[i] = fifo[i + 1]
    BY Shifted
  <2>2. i = 1 \/ (i - 1 \in Msgs' /\ (i - 1) + 1 = i)
    BY Shifted
  <2>3. Reassoc(i + 1)
    BY <1>1, <2>1 DEF Reassoc
  <2>4. (i + 1) - 1 = i
    BY Shifted
  <2>5. op = "connect" /\ Ack((i + 1) - 1)
    BY <2>1, <2>3 DEF ReassocInv
  <2>6. op = "connect" /\ Ack(i)
    BY <2>4, <2>5
  <2>7. ASSUME i - 1 \in Msgs', (i - 1) + 1 = i PROVE Ack(i - 1)'
    <3>1. fifo'[i - 1] = fifo[(i - 1) + 1]
      BY <2>7, Shifted
    <3> QED BY <2>6, <2>7, <3>1 DEF Ack
  <2> QED BY <2>1, <2>2, <2>3, <2>6, <2>7
<1> QED BY <1>1 DEF ModeInv

\* Calls that leave alone what is told and what the stack knows.
LEMMA UpKeeps ==
  ASSUME UpInv, UNCHANGED <<fifo, fw, rx>>, vif'.ch_index <=> vif.ch_index,
         stack' = "connected" <=> stack = "connected",
         drv = "DISCONNECTING" => drv' = "DISCONNECTING", op # "connect", LeaveInv'
  PROVE  UpInv'
<1>1. ReassocInv'
  BY DEF UpInv, ReassocInv, Reassoc, Msgs
<1>2. PICK K \in SUBSET Nat : Tale(K)
  BY DEF UpInv
<1>3. (StackNow <=> StackNow') /\ (Unwanted => Unwanted')
  BY DEF StackNow, Unwanted, Reassoc, Msgs
<1>4. TaleOf(fifo, fw, K)'
  BY <1>2 DEF Tale, TaleOf, TellsPath
<1>5. Tale(K)'
  BY <1>2, <1>3, <1>4 DEF Tale
<1> QED BY <1>1, <1>5 DEF UpInv

\* Calls of the stack on an interface that stays up.
LEMMA UpCalls ==
  ASSUME StaInv, Calm, ModeInv, UpInv, vif.up, vif'.up, UNCHANGED allow,
         Calls \/ CloseStep \/ Disconnects
  PROVE  UpInv'
<1> USE StaBounds
<1>0. mgr = "INITED" /\ CmdInv /\ op \in UpOps
  BY CalmSends DEF ModeInv
<1>1. ~ (rwnx_open \/ CloseLeave \/ CloseSettled \/ rwnx_send_remove_if \/ CloseTable)
  BY <1>0 DEF rwnx_open, CloseLeave, CloseSettled, rwnx_send_remove_if, CloseTable, UpOps
<1>2. ~ Disconnects /\ ~ CloseDown
  BY DEF Disconnects, DisconnectResumes, CloseDown, ModeInv, Vif
<1>3. CASE Close \/ CloseWaited
  <2>1. op # "connect" /\ UNCHANGED <<fifo, fw, rx, stack, vif, cmds>>
    BY <1>3 DEF Close, CloseWaited
  <2> QED BY <2>1, UpKeeps DEF UpInv, LeaveInv, drv
<1>4. ASSUME NEW einval \in BOOLEAN, rwnx_cfg80211_connect(einval)
      PROVE  UpInv'
  <2>1. op # "connect" /\ UNCHANGED <<fifo, fw, rx>>
    BY <1>4 DEF rwnx_cfg80211_connect
  <2>2. vif'.ch_index <=> vif.ch_index
    BY <1>4 DEF rwnx_cfg80211_connect, Vif
  <2>3. stack' = "connected" <=> stack = "connected"
    BY <1>4 DEF rwnx_cfg80211_connect, Refused
  <2>4. CASE drv \in {"DISCONNECTING", "CONNECTING"}
    <3>1. drv' = drv /\ UNCHANGED cmds
      BY <1>4, <2>4 DEF rwnx_cfg80211_connect, Vif, drv
    <3> QED BY <2>1, <2>2, <2>3, <3>1, UpKeeps DEF UpInv, LeaveInv
  <2>5. CASE drv \notin {"DISCONNECTING", "CONNECTING"}
    <3>1. drv' # "DISCONNECTING"
      BY <1>4, <2>5 DEF rwnx_cfg80211_connect, Vif, drv
    <3>2. LeaveInv'
      BY <3>1 DEF LeaveInv
    <3> QED BY <2>1, <2>2, <2>3, <2>5, <3>2, UpKeeps
  <2> QED BY <2>4, <2>5
<1>5. CASE rwnx_cfg80211_disconnect
  <2>1. op # "connect" /\ op \notin Waits /\ UNCHANGED <<fifo, fw, rx>>
    BY <1>5 DEF rwnx_cfg80211_disconnect, Waits
  <2>2. stack' = "connected" <=> stack = "connected"
    BY <1>5 DEF rwnx_cfg80211_disconnect, Refused
  <2>3. "preempt" \notin allow
    BY CalmSends
  <2>4. CASE UNCHANGED <<vif, cmds>>
    BY <2>1, <2>2, <2>4, UpKeeps DEF UpInv, LeaveInv, drv
  <2>5. CASE /\ vif' = [vif EXCEPT !.drv_conn_state = "DISCONNECTING"]
             /\ rwnx_send_msg("disconnect", "disconnect", "none")
    <3>1. (vif'.ch_index <=> vif.ch_index) /\ drv' = "DISCONNECTING"
      BY <2>5 DEF Vif, drv
    <3>2. LeaveInv'
      BY <1>0, <2>1, <2>5, CalmSends DEF LeaveInv
    <3> QED BY <2>1, <2>2, <3>1, <3>2, UpKeeps
  <2> QED BY <1>5, <2>3, <2>4, <2>5 DEF rwnx_cfg80211_disconnect
<1>6. CASE rwnx_cfg80211_external_auth
  <2>1. op # "connect" /\ op \notin Waits /\ UNCHANGED <<fifo, fw, rx, stack>>
    BY <1>6 DEF rwnx_cfg80211_external_auth, Waits
  <2>2. (vif'.ch_index <=> vif.ch_index) /\ drv' = drv
    BY <1>6 DEF rwnx_cfg80211_external_auth, rwnx_external_auth_disable, Vif, drv
  <2>3. cmds = <<>>
    BY <1>0, <2>1 DEF CmdInv
  <2>4. LeaveInv'
    BY <2>1, <2>2, <2>3 DEF UpInv, LeaveInv
  <2> QED BY <2>1, <2>2, <2>4, UpKeeps
<1> QED BY <1>1, <1>2, <1>3, <1>4, <1>5, <1>6 DEF Calls, CloseStep

\* An interface that opens knows of no connection, nor does the firmware.
LEMMA UpOpens ==
  ASSUME StaInv, Calm, ModeInv, UNCHANGED allow, rwnx_open
  PROVE  UpInv'
<1> USE StaBounds DEF rwnx_open
<1>1. fifo' = <<>> /\ Len(fifo') = 0 /\ rx' = "idle" /\ stack' = "idle"
  BY DEF ModeInv
<1>2. drv' = "DISCONNECTED" /\ fw'.task = "idle"
  BY FwTasks DEF Vif, drv
<1>3. ReassocInv' /\ LeaveInv' /\ ~ StackNow'
  BY <1>1, <1>2 DEF ReassocInv, Msgs, LeaveInv, StackNow
<1>4. TaleOf(fifo, fw, {})'
  <2>1. fw'.task \notin Trying \union {"connected", "leaving"}
    BY <1>2, FwTasks
  <2> QED BY <1>1, <2>1 DEF TaleOf, TellsPath
<1>5. Tale({})'
  BY <1>3, <1>4 DEF Tale
<1>6. {} \in SUBSET Nat
  OBVIOUS
<1> QED BY <1>3, <1>5, <1>6 DEF UpInv

\* What a handler takes from an interface that is up.
LEMMA UpTaken ==
  ASSUME StaInv, ModeInv, UpInv, fifo # <<>>, fifo' = Tail(fifo), UNCHANGED fw,
         ReassocInv', LeaveInv'
  PROVE  \E b, a \in BOOLEAN :
           /\ Tells(b, Head(fifo), a)
           /\ (StackNow => b) /\ (b /\ ~ StackNow => Unwanted)
           /\ (StackNow' => a) /\ (a /\ ~ StackNow' => Unwanted') => UpInv'
<1>1. PICK K \in SUBSET Nat : Tale(K)
  BY DEF UpInv
<1>2. PICK b \in BOOLEAN, a \in BOOLEAN :
        /\ Tells(b, Head(fifo), a)
        /\ (StackNow => b) /\ (b /\ ~ StackNow => Unwanted)
        /\ (StackNow' => a) /\ (a /\ ~ StackNow' => Unwanted')
             => \E T \in SUBSET Nat : Tale(T)'
  BY <1>1, TaleTaken
<1>3. (\E T \in SUBSET Nat : Tale(T)') => UpInv'
  BY DEF UpInv
<1> QED BY <1>2, <1>3

\* A confirmation tells the stack of no connection.
LEMMA UpConfirmed ==
  ASSUME StaInv, Calm, ModeInv, UpInv, vif.up, UNCHANGED allow, Confirmed
  PROVE  UpInv'
<1> USE StaBounds DEF Confirmed, Took
<1>1. fifo # <<>> /\ fifo' = Tail(fifo) /\ UNCHANGED fw
  OBVIOUS
<1>2. CmdInv
  BY CalmSends DEF ModeInv
<1>3. ReassocInv'
  <2>1. ASSUME NEW i \in Msgs', Reassoc(i)'
        PROVE  i = 1
    <3>1. Ack(i) /\ i + 1 \in Msgs /\ i \in Nat
      BY <1>1, <2>1, ReassocTaken, Shifted DEF UpInv
    <3>2. i \in Msgs
      BY <3>1, Shifted, <1>1, <2>1 DEF Msgs
    <3>3. 1 \in Msgs /\ Ack(1)
      BY <1>1, Shifted DEF Ack
    <3> QED BY <1>2, <3>1, <3>2, <3>3 DEF CmdInv
  <2> QED BY <2>1 DEF ReassocInv
<1>4. LeaveInv'
  BY DEF UpInv, LeaveInv, drv
<1>5. PICK b \in BOOLEAN, a \in BOOLEAN :
        /\ Tells(b, Head(fifo), a)
        /\ (StackNow => b) /\ (b /\ ~ StackNow => Unwanted)
        /\ (StackNow' => a) /\ (a /\ ~ StackNow' => Unwanted') => UpInv'
  BY <1>1, <1>3, <1>4, UpTaken
<1>6. a <=> b
  BY <1>5 DEF Tells
<1>7. StackNow' <=> StackNow
  BY DEF StackNow, Refused
<1>8. Unwanted => Unwanted'
  <2>1. drv = "DISCONNECTING" => \A i \in Msgs' : ~ Reassoc(i)'
    BY <1>1, ReassocTaken DEF UpInv
  <2>2. drv' = drv /\ vif' = vif /\ rx' = "idle"
    BY DEF drv
  <2> QED BY <2>1, <2>2 DEF Unwanted
<1> QED BY <1>5, <1>6, <1>7, <1>8

\* The ends that a roam announces stay behind their confirmations.
LEMMA ReassocKept ==
  ASSUME StaInv, ModeInv, ReassocInv, fifo # <<>>, fifo' = Tail(fifo), UNCHANGED op,
         rx' = "roamed" => stack' = "connected"
  PROVE  ReassocInv'
<1>1. \A i \in Msgs' : Reassoc(i)' => i = 1 \/ (op' = "connect" /\ Ack(i - 1)')
  BY ReassocTaken
<1> QED BY <1>1 DEF ReassocInv

\* The end of an attempt that is still wanted becomes known to the stack.
LEMMA Up_rwnx_rx_sm_connect_ind ==
  ASSUME StaInv, Calm, ModeInv, UpInv, vif.up, UNCHANGED allow, rwnx_rx_sm_connect_ind
  PROVE  UpInv'
<1> USE StaBounds DEF rwnx_rx_sm_connect_ind, Took
<1> DEFINE m == Head(fifo)
<1>1. /\ fifo # <<>> /\ fifo' = Tail(fifo) /\ UNCHANGED <<fw, stack, op, cmds>>
      /\ rx = "idle" /\ m.id = "connect_ind" /\ table
  OBVIOUS
<1>2. m \in Msg /\ m.ok \in BOOLEAN /\ m.roamed \in BOOLEAN
  BY <1>1, Shifted, Said
<1>3. ~ vif.ch_index
  <2>1. \E b \in BOOLEAN, a \in BOOLEAN : Turns(b, m, a) /\ (table => (b <=> vif.ch_index))
    BY <1>1, StoryTaken
  <2> QED BY <1>1, <2>1 DEF Turns
<1>4. drv' = IF m.ok THEN drv ELSE "DISCONNECTED"
  BY <1>2 DEF Vif, drv
<1>5. LeaveInv'
  BY <1>1, <1>4 DEF UpInv, LeaveInv
<1>6. StackNow <=> stack = "connected"
  BY <1>1 DEF StackNow
<1>7. rx' = IF m.ok /\ drv = "DISCONNECTING" THEN "idle"
            ELSE IF m.roamed THEN (IF m.ok THEN "roamed" ELSE "roam_failed")
            ELSE (IF m.ok THEN "joined" ELSE "join_failed")
  OBVIOUS
<1>8. PICK K \in SUBSET Nat : Tale(K)
  BY DEF UpInv
<1>9. PICK b \in BOOLEAN, a \in BOOLEAN :
        /\ Tells(b, m, a)
        /\ (StackNow => b) /\ (b /\ ~ StackNow => Unwanted)
        /\ (StackNow' => a) /\ (a /\ ~ StackNow' => Unwanted')
             => \E T \in SUBSET Nat : Tale(T)'
  BY <1>1, <1>8, TaleTaken
<1>10. (b <=> stack = "connected") /\ (a <=> m.ok) /\ (m.ok /\ m.roamed => b)
  BY <1>1, <1>3, <1>6, <1>9 DEF Tells, Unwanted
<1>11. rx' = "roamed" => stack' = "connected"
  BY <1>1, <1>2, <1>7, <1>10
<1>12. ReassocInv'
  BY <1>1, <1>11, ReassocKept DEF UpInv
<1>13. (StackNow' => a) /\ (a /\ ~ StackNow' => Unwanted')
  <2>1. CASE ~ m.ok
    <3>1. rx' \in {"join_failed", "roam_failed"}
      BY <1>7, <2>1
    <3> QED BY <1>10, <2>1, <3>1 DEF StackNow
  <2>2. CASE m.ok /\ drv # "DISCONNECTING"
    <3>1. rx' = "joined" \/ (rx' = "roamed" /\ stack' = "connected")
      BY <1>7, <1>11, <2>2
    <3>2. StackNow'
      BY <3>1 DEF StackNow
    <3> QED BY <1>10, <2>2, <3>2
  <2>3. CASE m.ok /\ drv = "DISCONNECTING"
    <3>1. rx' = "idle" /\ drv' = "DISCONNECTING"
      BY <1>4, <1>7, <2>3
    <3>2. vif'.ch_index
      BY <2>3 DEF Vif
    <3>3. \A i \in Msgs' : ~ Reassoc(i)'
      BY <1>1, <2>3, ReassocTaken DEF UpInv
    <3>4. Unwanted'
      BY <3>1, <3>2, <3>3 DEF Unwanted
    <3> QED BY <1>10, <2>3, <3>4
  <2> QED BY <2>1, <2>2, <2>3
<1> QED BY <1>5, <1>9, <1>12, <1>13 DEF UpInv

\* The end of a connection becomes known to it, unless another follows.
LEMMA Up_rwnx_rx_sm_disconnect_ind ==
  ASSUME StaInv, Calm, ModeInv, UpInv, vif.up, UNCHANGED allow, rwnx_rx_sm_disconnect_ind
  PROVE  UpInv'
<1> USE StaBounds DEF rwnx_rx_sm_disconnect_ind, Took
<1> DEFINE m == Head(fifo)
<1>1. /\ fifo # <<>> /\ fifo' = Tail(fifo) /\ UNCHANGED <<fw, op, cmds>>
      /\ rx = "idle" /\ m.id = "disconnect_ind" /\ table
  OBVIOUS
<1>2. m \in Msg /\ m.reassoc \in BOOLEAN
  BY <1>1, Shifted, Said
<1>3. vif.ch_index
  <2>1. \E b \in BOOLEAN, a \in BOOLEAN : Turns(b, m, a) /\ (table => (b <=> vif.ch_index))
    BY <1>1, StoryTaken
  <2> QED BY <1>1, <2>1 DEF Turns
<1>4. drv # "DISCONNECTED"
  BY <1>1, <1>3 DEF StaInv, ChanInv
<1>5. rx' = "left" /\ drv' = drv /\ stack' = IF m.reassoc THEN stack ELSE "idle"
  <2>1. rx' = "left" /\ stack' = IF vif.up /\ ~ m.reassoc THEN "idle" ELSE stack
    BY <1>4
  <2>2. drv' = drv
    BY <1>4 DEF rwnx_external_auth_disable, Vif, drv
  <2> QED BY <1>2, <2>1, <2>2
<1>6. LeaveInv' /\ ReassocInv'
  <2>1. rx' # "roamed"
    BY <1>5
  <2> QED BY <1>1, <1>5, <2>1, ReassocKept DEF UpInv, LeaveInv
<1>7. PICK b \in BOOLEAN, a \in BOOLEAN :
        /\ Tells(b, m, a)
        /\ (StackNow => b) /\ (b /\ ~ StackNow => Unwanted)
        /\ (StackNow' => a) /\ (a /\ ~ StackNow' => Unwanted') => UpInv'
  BY <1>1, <1>6, UpTaken
<1>8. (a <=> m.reassoc) /\ (m.reassoc => b)
  BY <1>1, <1>7 DEF Tells
<1>9. m.reassoc => ~ Unwanted
  <2>1. m.reassoc => Reassoc(1) /\ 1 \in Msgs
    BY <1>1, Shifted DEF Reassoc
  <2> QED BY <2>1 DEF Unwanted
<1>10. (StackNow <=> stack = "connected") /\ (StackNow' <=> stack' = "connected")
  BY <1>1, <1>5 DEF StackNow
<1>11. StackNow' <=> a
  BY <1>2, <1>5, <1>7, <1>8, <1>9, <1>10
<1> QED BY <1>7, <1>11

\* The rest of a handler tells the stack what was taken.
LEMMA UpHandled ==
  ASSUME StaInv, Calm, ModeInv, UpInv, vif.up, UNCHANGED allow, ConnectIndTells \/ DisconnectIndEnds
  PROVE  UpInv'
<1> USE StaBounds
<1>1. UNCHANGED <<fifo, fw, op, cmds>> /\ rx # "idle" /\ rx' = "idle"
  BY DEF ConnectIndTells, DisconnectIndEnds
<1>2. (drv' = "DISCONNECTING" => drv = "DISCONNECTING") /\ (StackNow' <=> StackNow)
  <2>1. CASE ConnectIndTells
    <3>1. StackNow' <=> StackNow
      BY <2>1 DEF ConnectIndTells, StackNow
    <3>2. CASE rx \in {"joined", "roamed"}
      <4>1. drv' # "DISCONNECTING"
        BY <2>1, <3>2 DEF ConnectIndTells, Vif, drv, Drv
      <4> QED BY <3>1, <4>1
    <3>3. CASE rx \notin {"joined", "roamed"}
      <4> DEFINE v == rwnx_external_auth_disable(vif)
      <4>1. v \in Vif
        BY DEF rwnx_external_auth_disable, Vif
      <4>2. vif' = [v EXCEPT !.drv_conn_state = "DISCONNECTED", !.is_roam = FALSE]
        BY <2>1, <3>3 DEF ConnectIndTells
      <4> HIDE DEF v
      <4>3. drv' # "DISCONNECTING"
        BY <4>1, <4>2 DEF Vif, drv
      <4> QED BY <3>1, <4>3
    <3> QED BY <3>2, <3>3
  <2>2. CASE DisconnectIndEnds
    <3>1. StackNow' <=> StackNow
      BY <2>2 DEF DisconnectIndEnds, StackNow
    <3>2. drv' = "DISCONNECTING" => drv = "DISCONNECTING"
      BY <2>2 DEF DisconnectIndEnds, Vif, drv
    <3> QED BY <3>1, <3>2
  <2> QED BY <2>1, <2>2
<1>3. ReassocInv' /\ LeaveInv'
  BY <1>1, <1>2 DEF UpInv, ReassocInv, LeaveInv, Reassoc, Ack, Msgs
<1>4. PICK K \in SUBSET Nat : Tale(K)
  BY DEF UpInv
<1>5. TaleOf(fifo, fw, K)'
  BY <1>1, <1>4 DEF Tale, TaleOf, TellsPath
<1>6. Tale(K)'
  BY <1>1, <1>2, <1>4, <1>5 DEF Tale, Unwanted
<1> QED BY <1>3, <1>6 DEF UpInv

\* A request to authenticate tells it nothing of a connection.
LEMMA Up_rwnx_rx_sm_external_auth_required_ind ==
  ASSUME StaInv, Calm, ModeInv, UpInv, vif.up, UNCHANGED allow,
         rwnx_rx_sm_external_auth_required_ind
  PROVE  UpInv'
<1> USE StaBounds DEF rwnx_rx_sm_external_auth_required_ind, Took
<1>1. /\ fifo # <<>> /\ fifo' = Tail(fifo) /\ UNCHANGED <<op, cmds, stack, rx>>
      /\ rx = "idle" /\ Head(fifo).id = "auth_ind"
  OBVIOUS
<1>2. "noowner" \notin allow
  BY CalmSends
<1>3. vif' = [vif EXCEPT !.external_auth = TRUE] /\ UNCHANGED fw
  BY <1>2
<1>4. drv' = drv /\ (vif'.ch_index <=> vif.ch_index)
  BY <1>3 DEF Vif, drv
<1>5. ReassocInv' /\ LeaveInv'
  BY <1>1, <1>3, <1>4, ReassocKept DEF UpInv, LeaveInv
<1>6. PICK b \in BOOLEAN, a \in BOOLEAN :
        /\ Tells(b, Head(fifo), a)
        /\ (StackNow => b) /\ (b /\ ~ StackNow => Unwanted)
        /\ (StackNow' => a) /\ (a /\ ~ StackNow' => Unwanted') => UpInv'
  BY <1>1, <1>3, <1>5, UpTaken
<1>7. a <=> b
  BY <1>1, <1>6 DEF Tells
<1>8. StackNow' <=> StackNow
  BY <1>1 DEF StackNow
<1>9. Unwanted => Unwanted'
  <2>1. drv = "DISCONNECTING" => \A i \in Msgs' : ~ Reassoc(i)'
    BY <1>1, ReassocTaken DEF UpInv
  <2> QED BY <1>1, <1>4, <2>1 DEF Unwanted
<1> QED BY <1>6, <1>7, <1>8, <1>9

\* What the firmware says continues what the stack will be told.
LEMMA UpSaid ==
  ASSUME StaInv, ModeInv, UpInv, UNCHANGED <<vif, op, rx, stack>>, NEW K \in SUBSET Nat, Tale(K),
         \E T \in SUBSET Nat : TaleOf(fifo', fw', T) /\ (0 \in T <=> 0 \in K),
         \A i \in Msgs : i \in Msgs' /\ fifo'[i] = fifo[i],
         \A i \in Msgs' : Reassoc(i)' => i \in Msgs \/ (op = "connect" /\ Ack(i - 1)'),
         LeaveInv'
  PROVE  UpInv'
<1>0. drv' = drv
  BY DEF drv
<1>1. \A i \in Msgs' : Reassoc(i)' => (i \in Msgs /\ Reassoc(i)) \/ (op = "connect" /\ Ack(i - 1)')
  BY DEF Reassoc
<1>2. ReassocInv'
  <2>1. ASSUME NEW i \in Msgs', Reassoc(i)', i # 1 PROVE op' = "connect" /\ Ack(i - 1)'
    <3>1. CASE op = "connect" /\ Ack(i - 1)'
      BY <3>1
    <3>2. CASE i \in Msgs /\ Reassoc(i)
      <4>1. op = "connect" /\ Ack(i - 1)
        BY <2>1, <3>2 DEF UpInv, ReassocInv
      <4>2. i - 1 \in Msgs
        BY <2>1, <3>2, StaBounds DEF Msgs
      <4>3. fifo'[i - 1] = fifo[i - 1]
        BY <4>2
      <4> QED BY <4>1, <4>3 DEF Ack
    <3> QED BY <1>1, <2>1, <3>1, <3>2
  <2> QED BY <2>1 DEF UpInv, ReassocInv
<1>3. PICK T \in SUBSET Nat : TaleOf(fifo', fw', T) /\ (0 \in T <=> 0 \in K)
  OBVIOUS
<1>4. TaleOf(fifo, fw, T)'
  BY <1>3 DEF TaleOf, TellsPath
<1>5. StackNow' <=> StackNow
  BY DEF StackNow
<1>6. Unwanted => Unwanted'
  BY <1>0, <1>1 DEF Unwanted, ModeInv
<1>7. Tale(T)'
  BY <1>3, <1>4, <1>5, <1>6 DEF Tale
<1> QED BY <1>2, <1>7 DEF UpInv

\* One message.
LEMMA UpOne ==
  ASSUME StaInv, ModeInv, UpInv, UNCHANGED <<vif, op, rx, stack>>, NEW d \in Msg,
         fifo' = Append(fifo, d), fw' \in Fw, TaskGoes(fw, d, fw'),
         ~ (d.id = "disconnect_ind" /\ d.reassoc), LeaveInv'
  PROVE  UpInv'
<1>1. fifo \in Seq(Msg) /\ fw \in Fw
  BY DEF StaInv, TypeOK
<1>2. PICK K \in SUBSET Nat : Tale(K)
  BY DEF UpInv
<1>3. \E T \in SUBSET Nat : TaleOf(fifo', fw', T) /\ (0 \in T <=> 0 \in K)
  <2>1. TaleOf(fifo, fw, K)
    BY <1>2 DEF Tale
  <2> DEFINE u == fw'
  <2>2. u \in Fw /\ TaskGoes(fw, d, u)
    OBVIOUS
  <2> HIDE DEF u
  <2>3. \E T \in SUBSET Nat : TaleOf(Append(fifo, d), u, T) /\ (0 \in T <=> 0 \in K)
    BY <1>1, <2>1, <2>2, TaleAppend
  <2> QED BY <2>3 DEF u
<1>4. /\ Len(fifo') = Len(fifo) + 1 /\ Len(fifo) \in Nat
      /\ \A i \in 1..Len(fifo) : fifo'[i] = fifo[i]
      /\ fifo'[Len(fifo) + 1] = d
  BY <1>1, Appended
<1>5. /\ \A i \in Msgs : i \in Msgs' /\ fifo'[i] = fifo[i]
      /\ \A i \in Msgs' : Reassoc(i)' => i \in Msgs
  <2>1. ASSUME NEW i \in Msgs' PROVE i \in Msgs \/ fifo'[i] = d
    BY <1>4 DEF Msgs
  <2>2. \A i \in Msgs : i \in Msgs' /\ fifo'[i] = fifo[i]
    BY <1>4 DEF Msgs
  <2> QED BY <2>1, <2>2 DEF Reassoc
<1> QED BY <1>2, <1>3, <1>5, UpSaid

\* A confirmation and what it begins or ends.
LEMMA UpTwo ==
  ASSUME StaInv, ModeInv, UpInv, UNCHANGED <<vif, op, rx, stack>>, NEW c \in Msg, NEW d \in Msg,
         fifo' = Append(Append(fifo, c), d), fw' \in Fw, c.id = "cfm", TaskGoes(fw, d, fw'),
         d.id = "disconnect_ind" /\ d.reassoc => op = "connect", LeaveInv'
  PROVE  UpInv'
<1> DEFINE f == Append(fifo, c)  u == fw'
<1>1. fifo \in Seq(Msg) /\ fw \in Fw /\ u \in Fw /\ TaskGoes(fw, d, u)
  BY DEF StaInv, TypeOK
<1>2. PICK K \in SUBSET Nat : Tale(K)
  BY DEF UpInv
<1>3. TaleOf(fifo, fw, K) /\ TaskGoes(fw, c, fw)
  BY <1>2 DEF Tale, TaskGoes
<1>4. /\ f \in Seq(Msg) /\ Len(f) = Len(fifo) + 1 /\ Len(fifo) \in Nat
      /\ \A i \in 1..Len(fifo) : f[i] = fifo[i]
      /\ f[Len(fifo) + 1] = c
  BY <1>1, Appended
<1>5. PICK R \in SUBSET Nat : TaleOf(f, fw, R) /\ (0 \in R <=> 0 \in K)
  BY <1>1, <1>3, TaleAppend
<1>6. fifo' = Append(f, d)
  OBVIOUS
<1> HIDE DEF f, u
<1>7. \E T \in SUBSET Nat : TaleOf(fifo', u, T) /\ (0 \in T <=> 0 \in R)
  BY <1>1, <1>4, <1>5, <1>6, TaleAppend
<1>8. \E T \in SUBSET Nat : TaleOf(fifo', fw', T) /\ (0 \in T <=> 0 \in K)
  BY <1>5, <1>7 DEF u
<1>9. /\ Len(fifo') = Len(f) + 1
      /\ \A i \in 1..Len(f) : fifo'[i] = f[i]
      /\ fifo'[Len(f) + 1] = d
  BY <1>4, <1>6, Appended
<1>10. /\ Len(fifo') = Len(fifo) + 2 /\ \A i \in 1..Len(fifo) : fifo'[i] = fifo[i]
       /\ fifo'[Len(fifo) + 1] = c /\ fifo'[Len(fifo) + 2] = d
  <2>1. Len(f) + 1 = Len(fifo) + 2 /\ Len(fifo) + 1 \in 1..Len(f)
        /\ \A i \in 1..Len(fifo) : i \in 1..Len(f)
    BY <1>4
  <2> QED BY <1>4, <1>9, <2>1
<1>11. \A i \in Msgs : i \in Msgs' /\ fifo'[i] = fifo[i]
  BY <1>4, <1>10 DEF Msgs
<1>12. \A i \in Msgs' : Reassoc(i)' => i \in Msgs \/ (op = "connect" /\ Ack(i - 1)')
  <2>1. ASSUME NEW i \in Msgs', Reassoc(i)', i \notin Msgs
        PROVE  op = "connect" /\ Ack(i - 1)'
    <3>1. i = Len(fifo) + 1 \/ i = Len(fifo) + 2
      BY <1>4, <1>10, <2>1 DEF Msgs
    <3>2. i = Len(fifo) + 2 /\ i - 1 = Len(fifo) + 1
      BY <1>4, <1>10, <2>1, <3>1 DEF Reassoc
    <3> QED BY <1>10, <2>1, <3>2 DEF Reassoc, Ack
  <2> QED BY <2>1
<1> QED BY <1>2, <1>8, <1>11, <1>12, UpSaid

\* A command in flight is the one that the call waits for.
LEMMA InFlight ==
  ASSUME CmdInv, cmds # <<>>
  PROVE  /\ op \in Waits /\ cmds = <<Head(cmds)>> /\ Head(cmds) = Awaits[op]
         /\ Head(cmds) = "connect" => op = "connect"
         /\ Head(cmds) = "remove" => op = "close_removed"
<1>1. op \in Waits /\ cmds = <<Awaits[op]>>
  BY DEF CmdInv
<1> QED BY <1>1, Waiting DEF Waits

\* An answer of the firmware.
LEMMA UpAnswers ==
  ASSUME StaInv, Calm, ModeInv, UpInv, vif.up, UNCHANGED allow, Answers
  PROVE  UpInv'
<1>0. /\ fw \in Fw /\ fw.roam \in BOOLEAN /\ fifo \in Seq(Msg) /\ mgr = "INITED" /\ CmdInv
      /\ "busy" \notin allow /\ op # "close_removed"
  BY CalmSends DEF StaInv, TypeOK, Fw, ModeInv, UpOps
<1>1. UNCHANGED <<vif, op, rx, stack>> /\ cmds # <<>> /\ drv' = drv
  BY DEF Answers, FwConnect, FwDisconnect, FwAuth, FwRemove, Says, drv
<1>2. \A ok \in BOOLEAN : cfm(ok) \in Msg /\ cfm(ok).id = "cfm"
  <2>1. Head(cmds) \in Cmd
    BY <1>1, HeadTailProperties DEF StaInv, TypeOK
  <2> QED BY <2>1, Made DEF cfm
<1>3. TRUE \in BOOLEAN /\ FALSE \in BOOLEAN
  OBVIOUS
<1>4. ASSUME NEW k, NEW ok \in BOOLEAN, NEW u \in Fw, Says(k, <<cfm(ok)>>, u),
             TaskGoes(fw, cfm(ok), u), LeaveInv'
      PROVE  UpInv'
  <2>1. fifo' = Append(fifo, cfm(ok)) /\ fw' = u
    BY <1>0, <1>2, <1>4, TwoAppended DEF Says
  <2>2. ~ (cfm(ok).id = "disconnect_ind" /\ cfm(ok).reassoc)
    BY <1>2
  <2> DEFINE m == cfm(ok)
  <2>3. m \in Msg /\ fifo' = Append(fifo, m) /\ TaskGoes(fw, m, fw') /\ fw' \in Fw
        /\ ~ (m.id = "disconnect_ind" /\ m.reassoc)
    BY <1>2, <1>4, <2>1, <2>2
  <2> HIDE DEF m
  <2> QED BY <1>1, <1>4, <2>3, UpOne
<1>5. ASSUME NEW k, NEW d \in Msg, NEW u \in Fw, Says(k, <<cfm(TRUE), d>>, u),
             TaskGoes(fw, d, u), d.id = "disconnect_ind" /\ d.reassoc => op = "connect", LeaveInv'
      PROVE  UpInv'
  <2> DEFINE m == cfm(TRUE)
  <2>1. m \in Msg /\ m.id = "cfm"
    BY <1>2
  <2>2. fifo' = fifo \o <<m, d>> /\ fw' = u
    BY <1>5 DEF Says
  <2> HIDE DEF m
  <2>3. fifo' = Append(Append(fifo, m), d)
    BY <1>0, <2>1, <2>2, TwoAppended
  <2>4. fw' \in Fw /\ TaskGoes(fw, d, fw')
    BY <1>5, <2>2
  <2> QED BY <1>1, <1>5, <2>1, <2>3, <2>4, UpTwo
<1>6. CASE FwConnect
  <2>1. op = "connect"
    BY <1>0, <1>1, <1>6, InFlight DEF FwConnect, Says
  <2>2. LeaveInv'
    BY <1>1, <2>1 DEF LeaveInv, ModeInv
  <2>3. CASE Says("connect", <<cfm(FALSE)>>, fw)
    <3>1. TaskGoes(fw, cfm(FALSE), fw)
      BY <1>2 DEF TaskGoes
    <3> QED BY <1>0, <1>3, <1>4, <2>2, <2>3, <3>1
  <2>4. CASE fw.task = "idle" /\ Says("connect", <<cfm(TRUE)>>, Task("connecting"))
    <3> DEFINE u == Task("connecting")
    <3>1. u \in Fw /\ u.task \in Trying /\ ~ u.roam
      BY FwTasks DEF Task
    <3>2. u.task \notin {"connected", "leaving", "idle"}
      BY <3>1, FwTasks
    <3>3. Says("connect", <<cfm(TRUE)>>, u)
      BY <2>4
    <3> HIDE DEF u
    <3>4. TaskGoes(fw, cfm(TRUE), u)
      BY <1>2, <2>4, <3>1, <3>2 DEF TaskGoes
    <3> QED BY <1>3, <1>4, <2>2, <3>1, <3>3, <3>4
  <2>5. CASE /\ fw.task = "connected"
             /\ Says("connect", <<cfm(TRUE), disconnect_ind(TRUE)>>,
                     [task |-> "connecting", roam |-> TRUE])
    <3> DEFINE u == [task |-> "connecting", roam |-> TRUE]  d == disconnect_ind(TRUE)
    <3>1. u \in Fw /\ u.task \in Trying /\ u.roam
      BY DEF Fw, Trying
    <3>2. d \in Msg /\ d.id = "disconnect_ind" /\ d.reassoc
      BY Made DEF disconnect_ind
    <3>3. Says("connect", <<cfm(TRUE), d>>, u)
      BY <2>5
    <3> HIDE DEF u, d
    <3>4. TaskGoes(fw, d, u)
      BY <2>5, <3>1, <3>2 DEF TaskGoes
    <3> QED BY <1>5, <2>1, <2>2, <3>1, <3>2, <3>3, <3>4
  <2> QED BY <1>6, <2>3, <2>4, <2>5 DEF FwConnect
<1>7. CASE FwDisconnect
  <2>1. CASE fw.task \in {"idle", "leaving"} /\ Says("disconnect", <<cfm(TRUE)>>, fw)
    <3>1. TaskGoes(fw, cfm(TRUE), fw)
      BY <1>2 DEF TaskGoes
    <3>2. LeaveInv'
      BY <2>1 DEF LeaveInv, Says
    <3> QED BY <1>0, <1>3, <1>4, <2>1, <3>1, <3>2
  <2>2. CASE /\ fw.task \in Trying
             /\ Says("disconnect", <<cfm(TRUE), connect_ind(FALSE)>>, Task("idle"))
    <3> DEFINE u == Task("idle")  d == connect_ind(FALSE)
    <3>1. u \in Fw /\ u.task = "idle"
      BY FwTasks
    <3>2. d \in Msg /\ d.id = "connect_ind" /\ ~ d.ok
      BY <1>0, Made DEF connect_ind
    <3>3. Says("disconnect", <<cfm(TRUE), d>>, u)
      BY <2>2
    <3> HIDE DEF u, d
    <3>4. TaskGoes(fw, d, u)
      BY <3>1, <3>2 DEF TaskGoes
    <3>5. LeaveInv' /\ (d.id = "disconnect_ind" /\ d.reassoc => op = "connect")
      BY <3>1, <3>2, <3>3 DEF LeaveInv, Says
    <3> QED BY <1>5, <3>1, <3>2, <3>3, <3>4, <3>5
  <2>3. CASE fw.task = "connected" /\ Says("disconnect", <<cfm(TRUE)>>, Task("leaving"))
    <3> DEFINE u == Task("leaving")
    <3>1. u \in Fw /\ u.task = "leaving"
      BY FwTasks
    <3>2. Says("disconnect", <<cfm(TRUE)>>, u)
      BY <2>3
    <3>3. u.task \notin Trying /\ u.task # "idle"
      BY <3>1, FwTasks
    <3> HIDE DEF u
    <3>4. TaskGoes(fw, cfm(TRUE), u)
      BY <1>2, <2>3, <3>1, <3>3 DEF TaskGoes
    <3>5. LeaveInv'
      BY <3>1, <3>2 DEF LeaveInv, Says
    <3> QED BY <1>3, <1>4, <3>1, <3>2, <3>4, <3>5
  <2> QED BY <1>7, <2>1, <2>2, <2>3 DEF FwDisconnect
<1>8. CASE FwAuth
  <2> DEFINE u == IF fw.task = "auth" THEN [fw EXCEPT !.task = "joining"] ELSE fw
  <2>1. /\ u \in Fw /\ u.roam = fw.roam
        /\ u = fw \/ (fw.task = "auth" /\ u.task = "joining")
    BY <1>0, FwTasks DEF Fw, Trying
  <2>2. Says("auth", <<cfm(TRUE)>>, u)
    BY <1>8 DEF FwAuth
  <2> HIDE DEF u
  <2>3. TaskGoes(fw, cfm(TRUE), u)
    <3>1. CASE u = fw
      BY <1>2, <3>1 DEF TaskGoes
    <3>2. CASE fw.task = "auth" /\ u.task = "joining"
      BY <1>2, <2>1, <3>2 DEF TaskGoes, Trying
    <3> QED BY <2>1, <3>1, <3>2
  <2>4. LeaveInv'
    <3>1. Head(cmds) = "auth" /\ cmds # <<"disconnect">> /\ fw' = u
      BY <1>0, <1>1, <2>2, InFlight DEF Says
    <3> QED BY <1>1, <2>1, <3>1 DEF UpInv, LeaveInv
  <2> QED BY <1>3, <1>4, <2>1, <2>2, <2>3, <2>4
<1>9. ~ FwRemove
  BY <1>0, <1>1, InFlight DEF FwRemove, Says
<1> QED BY <1>6, <1>7, <1>8, <1>9 DEF Answers

\* What the firmware does on its own account.
LEMMA UpGoes ==
  ASSUME StaInv, Calm, ModeInv, UpInv, vif.up, UNCHANGED allow, Ends \/ Goes
  PROVE  UpInv'
<1>0. fw \in Fw /\ fw.roam \in BOOLEAN /\ TRUE \in BOOLEAN /\ FALSE \in BOOLEAN
  BY DEF StaInv, TypeOK, Fw
<1>1. UNCHANGED <<vif, op, rx, stack, cmds>> /\ drv' = drv
  BY DEF Ends, Goes, FwJoins, FwFails, FwLeft, FwNeedsAuth, FwLosesLink, FwGoes, drv
<1>2. fw.task \notin {"idle", "leaving"} \/ fw'.task = "idle" => LeaveInv'
  BY <1>1 DEF UpInv, LeaveInv
<1>3. ASSUME NEW d \in Msg, fifo' = Append(fifo, d), fw' \in Fw, TaskGoes(fw, d, fw'),
             ~ (d.id = "disconnect_ind" /\ d.reassoc),
             fw.task \notin {"idle", "leaving"} \/ fw'.task = "idle"
      PROVE  UpInv'
  BY <1>1, <1>2, <1>3, UpOne
<1>4. CASE FwNeedsAuth
  <2> DEFINE d == [id |-> "auth_ind"]
  <2>1. d \in Msg /\ d.id = "auth_ind"
    BY Made
  <2>2. /\ fifo' = Append(fifo, d) /\ fw' = [fw EXCEPT !.task = "auth"] /\ fw.task = "connecting"
    BY <1>4 DEF FwNeedsAuth, FwGoes
  <2>3. fw' \in Fw /\ fw'.task = "auth" /\ fw'.roam = fw.roam
    BY <1>0, <2>2 DEF Fw, Trying
  <2> HIDE DEF d
  <2>4. TaskGoes(fw, d, fw')
    BY <2>1, <2>2, <2>3 DEF TaskGoes, Trying
  <2> QED BY <1>3, <2>1, <2>2, <2>3, <2>4
<1>5. CASE FwJoins
  <2> DEFINE d == connect_ind(TRUE)
  <2>1. d \in Msg /\ d.id = "connect_ind" /\ d.ok /\ d.roamed = fw.roam
    BY <1>0, Made DEF connect_ind
  <2>2. fifo' = Append(fifo, d) /\ fw' = Task("connected") /\ fw.task \in Trying
    BY <1>5, FwTasks DEF FwJoins, FwGoes
  <2>3. fw' \in Fw /\ fw'.task = "connected"
    BY <2>2, FwTasks
  <2> HIDE DEF d
  <2>4. TaskGoes(fw, d, fw')
    BY <2>1, <2>2, <2>3 DEF TaskGoes
  <2>5. fw.task \notin {"idle", "leaving"}
    BY <2>2, FwTasks
  <2> QED BY <1>3, <2>1, <2>2, <2>3, <2>4, <2>5
<1>6. CASE FwFails
  <2> DEFINE d == connect_ind(FALSE)
  <2>1. d \in Msg /\ d.id = "connect_ind" /\ ~ d.ok
    BY <1>0, Made DEF connect_ind
  <2>2. fifo' = Append(fifo, d) /\ fw' = Task("idle")
    BY <1>6 DEF FwFails, FwGoes
  <2>3. fw' \in Fw /\ fw'.task = "idle"
    BY <2>2, FwTasks
  <2> HIDE DEF d
  <2>4. TaskGoes(fw, d, fw')
    BY <2>1, <2>3 DEF TaskGoes
  <2> QED BY <1>3, <2>1, <2>2, <2>3, <2>4
<1>7. CASE FwLeft \/ FwLosesLink
  <2> DEFINE d == disconnect_ind(FALSE)
  <2>1. d \in Msg /\ d.id = "disconnect_ind" /\ ~ d.reassoc
    BY <1>0, Made DEF disconnect_ind
  <2>2. fifo' = Append(fifo, d) /\ fw' = Task("idle")
    BY <1>7 DEF FwLeft, FwLosesLink, FwGoes
  <2>3. fw' \in Fw /\ fw'.task = "idle"
    BY <2>2, FwTasks
  <2> HIDE DEF d
  <2>4. TaskGoes(fw, d, fw')
    BY <2>1, <2>3 DEF TaskGoes
  <2> QED BY <1>3, <2>1, <2>2, <2>3, <2>4
<1> QED BY <1>4, <1>5, <1>6, <1>7 DEF Ends, Goes

\* Only rwnx_open brings the interface up.
LEMMA StaysDown ==
  ASSUME StaInv, ModeInv, Next, ~ vif.up, ~ rwnx_open
  PROVE  ~ vif'.up
<1>1. op \notin UpOps
  BY DEF ModeInv
<1>2. CASE Calls
  BY <1>1, <1>2 DEF Calls, Close, rwnx_cfg80211_connect, rwnx_cfg80211_disconnect,
     rwnx_cfg80211_external_auth, UpOps
<1>3. CASE CloseStep \/ Disconnects
  BY <1>3, StaBounds
    DEF CloseStep, Disconnects, CloseWaited, CloseDown, CloseLeave, CloseSettled,
        rwnx_send_remove_if, CloseTable, DisconnectResumes, Vif
<1>4. CASE Receive
  BY <1>4, StaBounds
    DEF Receive, Confirmed, rwnx_rx_sm_connect_ind, ConnectIndTells, rwnx_rx_sm_disconnect_ind,
        DisconnectIndEnds, rwnx_rx_sm_external_auth_required_ind, rwnx_external_auth_disable, Vif
<1>5. CASE Answers \/ Ends \/ Goes
  BY <1>5
    DEF Answers, Ends, Goes, FwConnect, FwDisconnect, FwAuth, FwRemove, FwJoins, FwFails,
        FwLeft, FwNeedsAuth, FwLosesLink, Says, FwGoes
<1> QED BY <1>2, <1>3, <1>4, <1>5 DEF Next

\* In calm behaviours an interface that is up keeps what the stack is told.
LEMMA UpStep ==
  ASSUME StaInv, Calm, ModeInv, vif.up => UpInv, vif'.up, UNCHANGED allow, Next
  PROVE  UpInv'
<1>1. CASE rwnx_open
  BY <1>1, UpOpens
<1>2. CASE vif.up
  <2>1. CASE Calls \/ CloseStep \/ Disconnects
    BY <1>2, <2>1, UpCalls
  <2>2. CASE Receive
    BY <1>2, <2>2, UpConfirmed, Up_rwnx_rx_sm_connect_ind, Up_rwnx_rx_sm_disconnect_ind,
       UpHandled, Up_rwnx_rx_sm_external_auth_required_ind DEF Receive
  <2>3. CASE Answers \/ Ends \/ Goes
    BY <1>2, <2>3, UpAnswers, UpGoes
  <2> QED BY <2>1, <2>2, <2>3 DEF Next
<1>3. CASE ~ vif.up /\ ~ rwnx_open
  BY <1>3, StaysDown
<1> QED BY <1>1, <1>2, <1>3

-----------------------------------------------------------------------------
\* With no indication on its way the firmware is where the channel context is.
LEMMA QuietFw ==
  ASSUME StaInv, table, \A i \in Msgs : ~ Link(i), fw.task # "absent"
  PROVE  vif.ch_index <=> fw.task \in {"connected", "leaving"}
<1>1. PICK S \in SUBSET Nat : Story(S)
  BY DEF StaInv
<1>2. Len(fifo) \in S <=> 0 \in S
  BY <1>1, NoLink DEF StaInv, Story, StoryOf, Msgs, Link
<1>3. fw.task \in Trying \union {"idle", "connected", "leaving"}
  BY FwTasks DEF StaInv, TypeOK
<1> QED BY <1>1, <1>2, <1>3 DEF Story, StoryOf

\* What is due stays due until the receive thread took it.
LEMMA DueKept ==
  ASSUME StaInv, ModeInv, allow \subseteq {"sae"}, vif.up, Answers \/ Ends \/ Goes
  PROVE  (Due => Due') /\ (Leaves => Leaves' \/ Due')
<1>0. /\ fifo \in Seq(Msg) /\ Len(fifo) \in Nat /\ fw \in Fw /\ "busy" \notin allow
      /\ mgr = "INITED" /\ CmdInv /\ op # "close_removed"
  BY CalmSends DEF StaInv, TypeOK, ModeInv, UpOps, Calm
<1>1. ASSUME NEW d \in Msg, fifo' = Append(fifo, d)
      PROVE  /\ (\E i \in Msgs : Link(i)) => \E i \in Msgs' : Link(i)'
             /\ d.id \in {"connect_ind", "disconnect_ind"} => \E i \in Msgs' : Link(i)'
  <2>1. /\ Len(fifo') = Len(fifo) + 1 /\ fifo'[Len(fifo) + 1] = d
        /\ \A i \in 1..Len(fifo) : fifo'[i] = fifo[i]
    BY <1>0, <1>1, Appended
  <2>2. Len(fifo) + 1 \in Msgs' /\ \A i \in Msgs : i \in Msgs' /\ fifo'[i] = fifo[i]
    BY <1>0, <2>1 DEF Msgs
  <2> QED BY <2>1, <2>2 DEF Link
<1>2. CASE Ends \/ Goes
  <2>1. ASSUME NEW d \in Msg, fifo' = Append(fifo, d), UNCHANGED cmds,
               d.id \in {"connect_ind", "disconnect_ind"} \/ fw'.task \in Trying
        PROVE  Due'
    BY <1>1, <2>1 DEF Due
  <2>2. connect_ind(TRUE) \in Msg /\ connect_ind(FALSE) \in Msg /\ disconnect_ind(FALSE) \in Msg
        /\ connect_ind(TRUE).id = "connect_ind" /\ connect_ind(FALSE).id = "connect_ind"
        /\ disconnect_ind(FALSE).id = "disconnect_ind"
    BY <1>0, Made DEF connect_ind, disconnect_ind, Fw
  <2>3. CASE FwJoins \/ FwFails \/ FwLeft \/ FwLosesLink
    BY <2>1, <2>2, <2>3 DEF FwJoins, FwFails, FwLeft, FwLosesLink, FwGoes
  <2>4. CASE FwNeedsAuth
    <3>1. fw'.task \in Trying /\ [id |-> "auth_ind"] \in Msg
      BY <1>0, <2>4, Made, FwTasks DEF FwNeedsAuth, FwGoes
    <3> QED BY <2>1, <2>4, <3>1 DEF FwNeedsAuth, FwGoes
  <2> QED BY <1>2, <2>3, <2>4 DEF Ends, Goes
<1>3. CASE Answers
  <2>1. cmds # <<>> /\ cmds = <<Head(cmds)>> /\ Head(cmds) # "remove"
    <3>1. cmds # <<>>
      BY <1>3 DEF Answers, FwConnect, FwDisconnect, FwAuth, FwRemove, Says
    <3> QED BY <1>0, <3>1, InFlight
  <2>2. \A ok \in BOOLEAN : cfm(ok) \in Msg
    <3>1. Head(cmds) \in Cmd
      BY <2>1, HeadTailProperties DEF StaInv, TypeOK
    <3> QED BY <3>1, Made DEF cfm
  <2>3. ASSUME NEW k, NEW ok \in BOOLEAN, NEW u, Says(k, <<cfm(ok)>>, u)
        PROVE  /\ Head(cmds) = k /\ fw' = u
               /\ (\E i \in Msgs : Link(i)) => \E i \in Msgs' : Link(i)'
    <3> DEFINE m == cfm(ok)
    <3>1. m \in Msg /\ fifo' = fifo \o <<m>>
      BY <2>2, <2>3 DEF Says
    <3> HIDE DEF m
    <3>2. fifo' = Append(fifo, m)
      BY <1>0, <3>1, TwoAppended
    <3> QED BY <1>1, <2>3, <3>1, <3>2 DEF Says
  <2>4. CASE FwConnect
    <3>1. Head(cmds) = "connect" /\ ~ Leaves
      BY <2>1, <2>4 DEF FwConnect, Says, Leaves
    <3>2. fw'.task \in Trying \union {"leaving"}
      <4>1. CASE fw.task \in Trying \union {"leaving"} /\ Says("connect", <<cfm(FALSE)>>, fw)
        BY <4>1 DEF Says
      <4>2. CASE fw' = Task("connecting")
        BY <4>2, FwTasks
      <4>3. CASE fw' = [task |-> "connecting", roam |-> TRUE]
        BY <4>3, FwTasks
      <4> QED BY <1>0, <2>4, <4>1, <4>2, <4>3 DEF FwConnect, Says
    <3> QED BY <3>1, <3>2 DEF Due
  <2>5. CASE FwDisconnect
    <3>1. cmds # <<"connect">>
      BY <2>1, <2>5 DEF FwDisconnect, Says
    <3>2. CASE fw.task \in {"idle", "leaving"} /\ Says("disconnect", <<cfm(TRUE)>>, fw)
      <4>1. /\ fw' = fw /\ ~ Leaves
            /\ (\E i \in Msgs : Link(i)) => \E i \in Msgs' : Link(i)'
        BY <2>3, <3>2 DEF Leaves
      <4> QED BY <3>1, <4>1 DEF Due
    <3>3. CASE /\ fw.task \in Trying
               /\ Says("disconnect", <<cfm(TRUE), connect_ind(FALSE)>>, Task("idle"))
      <4> DEFINE m == cfm(TRUE)  d == connect_ind(FALSE)
      <4>1. m \in Msg /\ d \in Msg /\ d.id = "connect_ind"
        BY <1>0, <2>2, Made DEF connect_ind, Fw
      <4>2. fifo' = fifo \o <<m, d>>
        BY <3>3 DEF Says
      <4> HIDE DEF m, d
      <4>3. fifo' = Append(Append(fifo, m), d) /\ Append(fifo, m) \in Seq(Msg)
        BY <1>0, <4>1, <4>2, TwoAppended, Appended
      <4> DEFINE f == Append(fifo, m)
      <4>4. f \in Seq(Msg) /\ fifo' = Append(f, d)
        BY <4>3
      <4> HIDE DEF f
      <4>5. Len(fifo') = Len(f) + 1 /\ fifo'[Len(f) + 1] = d /\ Len(f) \in Nat
        BY <4>1, <4>4, Appended
      <4>6. PICK n \in Nat : n = Len(f) + 1
        BY <4>5
      <4>7. n \in Msgs' /\ Link(n)'
        BY <4>1, <4>5, <4>6 DEF Msgs, Link
      <4> QED BY <4>7 DEF Due
    <3>4. CASE Says("disconnect", <<cfm(TRUE)>>, Task("leaving"))
      BY <3>4, FwTasks DEF Due, Says
    <3> QED BY <2>5, <3>2, <3>3, <3>4 DEF FwDisconnect
  <2>6. CASE FwAuth
    <3> DEFINE u == IF fw.task = "auth" THEN [fw EXCEPT !.task = "joining"] ELSE fw
    <3>1. u = fw \/ u.task \in Trying
      BY <1>0, FwTasks
    <3>2. Says("auth", <<cfm(TRUE)>>, u)
      BY <2>6 DEF FwAuth
    <3> HIDE DEF u
    <3>3. /\ Head(cmds) = "auth" /\ fw' = u
          /\ (\E i \in Msgs : Link(i)) => \E i \in Msgs' : Link(i)'
      BY <2>3, <3>2
    <3>4. ~ Leaves /\ cmds # <<"connect">>
      BY <2>1, <3>3 DEF Leaves
    <3> QED BY <3>1, <3>3, <3>4 DEF Due
  <2>7. ~ FwRemove
    BY <2>1 DEF FwRemove, Says
  <2> QED BY <1>3, <2>4, <2>5, <2>6, <2>7 DEF Answers
<1> QED BY <1>2, <1>3

-----------------------------------------------------------------------------
\* Where nobody roams, calls on an interface that stays up leave the state due.
LEMMA StayCalls ==
  ASSUME StaInv, ModeInv, StayInv, allow \subseteq {"sae"}, UNCHANGED allow, vif.up, vif'.up,
         Calls \/ CloseStep \/ Disconnects
  PROVE  StayInv'
<1> USE StaBounds
<1>0. /\ mgr = "INITED" /\ CmdInv /\ op \in UpOps /\ fw.task # "absent" /\ Calm
      /\ {"roam", "einval", "preempt"} \intersect allow = {}
      /\ table /\ fw \in Fw
  BY CalmSends DEF ModeInv, Calm, StaInv, ChanInv, UpOps, TypeOK
<1>1. ~ (rwnx_open \/ CloseLeave \/ CloseSettled \/ rwnx_send_remove_if \/ CloseTable)
  BY <1>0 DEF rwnx_open, CloseLeave, CloseSettled, rwnx_send_remove_if, CloseTable, UpOps
<1>2. ~ Disconnects /\ ~ CloseDown
  BY DEF Disconnects, DisconnectResumes, CloseDown, ModeInv, Vif
<1>3. CASE Close \/ CloseWaited
  BY <1>3 DEF Close, CloseWaited, StayInv, Pending, Due, Leaves, Link, Msgs, drv
<1>4. ASSUME NEW einval \in BOOLEAN, rwnx_cfg80211_connect(einval)
      PROVE  StayInv'
  <2>1. op = "none" /\ op \notin Waits /\ UNCHANGED <<fifo, fw, rx>> /\ ~ einval /\ stack = "idle"
    BY <1>0, <1>4 DEF rwnx_cfg80211_connect, Waits
  <2>2. (vif'.ch_index <=> vif.ch_index) /\ (vif'.is_roam <=> drv = "CONNECTED")
    BY <1>4 DEF rwnx_cfg80211_connect, Vif
  <2>3. cmds = <<>>
    BY <1>0, <2>1 DEF CmdInv
  <2>4. CASE drv \in {"DISCONNECTING", "CONNECTING"}
    <3>1. drv' = drv /\ UNCHANGED cmds
      BY <1>4, <2>4 DEF rwnx_cfg80211_connect, Vif, drv
    <3>2. ~ vif'.is_roam /\ drv' # "CONNECTED"
      BY <2>2, <2>4, <3>1
    <3> QED BY <2>1, <2>2, <2>4, <3>1, <3>2 DEF StayInv, Pending, Due, Leaves, Link, Msgs
  <2>5. CASE drv \notin {"DISCONNECTING", "CONNECTING"}
    <3>1. drv' \in {"ROAMING", "CONNECTING"} /\ rwnx_send_msg("connect", "connect", "none")
      BY <1>4, <2>1, <2>5 DEF rwnx_cfg80211_connect, Vif, drv
    <3>2. cmds' = <<"connect">>
      BY <1>0, <2>1, <3>1, CalmSends
    <3>3. vif'.is_roam => ~ vif'.ch_index
      BY <2>1, <2>2 DEF StayInv, StaInv, ChanInv
    <3>4. Due'
      BY <3>2 DEF Due
    <3> QED BY <2>1, <2>2, <3>1, <3>3, <3>4 DEF StayInv, Pending
  <2> QED BY <2>4, <2>5
<1>5. CASE rwnx_cfg80211_disconnect
  <2>1. op = "none" /\ op \notin Waits /\ UNCHANGED <<fifo, fw, rx>>
    BY <1>5 DEF rwnx_cfg80211_disconnect, Waits
  <2>2. stack' = "connected" <=> stack = "connected"
    BY <1>5 DEF rwnx_cfg80211_disconnect, Refused
  <2>3. cmds = <<>>
    BY <1>0, <2>1 DEF CmdInv
  <2>4. CASE UNCHANGED <<vif, cmds>>
    BY <2>1, <2>2, <2>4 DEF StayInv, Pending, Due, Leaves, Link, Msgs, drv
  <2>5. CASE /\ drv \notin {"DISCONNECTED", "DISCONNECTING"}
             /\ vif' = [vif EXCEPT !.drv_conn_state = "DISCONNECTING"]
             /\ rwnx_send_msg("disconnect", "disconnect", "none")
    <3>1. /\ (vif'.ch_index <=> vif.ch_index) /\ drv' = "DISCONNECTING"
          /\ (vif'.is_roam <=> vif.is_roam)
      BY <2>5 DEF Vif, drv
    <3>2. cmds' = <<"disconnect">>
      BY <1>0, <2>1, <2>5, CalmSends
    <3>3. Due => Due'
      BY <2>1, <2>3, <3>2 DEF Due, Link, Msgs
    <3>4. Pending'
      <4>1. CASE Pending
        BY <2>1, <2>3, <3>3, <4>1 DEF Pending, Leaves
      <4>2. CASE ~ Pending
        <5>1. vif.ch_index /\ (\A i \in Msgs : ~ Link(i)) /\ fw.task # "leaving"
          BY <2>5, <4>2 DEF StayInv, Pending, Due
        <5>2. fw.task = "connected"
          BY <1>0, <5>1, QuietFw
        <5> QED BY <2>1, <3>2, <5>2 DEF Pending, Leaves
      <4> QED BY <4>1, <4>2
    <3> QED BY <2>1, <3>1, <3>3, <3>4 DEF StayInv
  <2> QED BY <1>0, <1>5, <2>4, <2>5 DEF rwnx_cfg80211_disconnect
<1>6. CASE rwnx_cfg80211_external_auth
  <2>1. op = "none" /\ op \notin Waits /\ UNCHANGED <<fifo, fw, rx, stack>>
    BY <1>6 DEF rwnx_cfg80211_external_auth, Waits
  <2>2. (vif'.ch_index <=> vif.ch_index) /\ drv' = drv /\ (vif'.is_roam <=> vif.is_roam)
    BY <1>6 DEF rwnx_cfg80211_external_auth, rwnx_external_auth_disable, Vif, drv
  <2>3. cmds = <<>>
    BY <1>0, <2>1 DEF CmdInv
  <2>4. Due => Due'
    BY <2>1, <2>3 DEF Due, Link, Msgs
  <2>5. Pending => Pending'
    BY <2>1, <2>3, <2>4 DEF Pending, Leaves
  <2> QED BY <2>1, <2>2, <2>4, <2>5 DEF StayInv
<1> QED BY <1>1, <1>2, <1>3, <1>4, <1>5, <1>6 DEF Calls, CloseStep

\* So does opening it.
LEMMA StayOpens ==
  ASSUME StaInv, ModeInv, UNCHANGED allow, rwnx_open
  PROVE  StayInv'
<1>1. drv' = "DISCONNECTED" /\ ~ vif'.ch_index /\ rx' = "idle"
  BY StaBounds DEF rwnx_open, StaInv, ChanInv, Vif, drv
<1> QED BY <1>1 DEF StayInv

\* A message of another kind than an indication of the link leaves it due.
LEMMA DueTaken ==
  ASSUME StaInv, fifo # <<>>, fifo' = Tail(fifo), Head(fifo).id \in {"cfm", "auth_ind"},
         UNCHANGED <<cmds, fw, rx>>
  PROVE  (Due => Due') /\ (Pending => Pending')
<1>1. Len(fifo') = Len(fifo) - 1 /\ Len(fifo) \in Nat \ {0} /\ Head(fifo) = fifo[1]
      /\ \A i \in 1..Len(fifo) - 1 : fifo'[i] = fifo[i + 1]
  BY Tailed DEF StaInv
<1>2. ASSUME NEW i \in Msgs, Link(i) PROVE \E j \in Msgs' : Link(j)'
  <2>1. i # 1
    BY <1>1, <1>2 DEF Link
  <2>2. i - 1 \in 1..Len(fifo) - 1 /\ (i - 1) + 1 = i
    BY <1>1, <2>1 DEF Msgs
  <2>3. PICK j \in Nat : j = i - 1
    BY <2>2
  <2>4. j \in Msgs' /\ fifo'[j] = fifo[i]
    BY <1>1, <2>2, <2>3 DEF Msgs
  <2> QED BY <1>2, <2>4 DEF Link
<1>3. Due => Due'
  BY <1>2 DEF Due
<1> QED BY <1>3 DEF Pending, Leaves

\* So do the handlers.
LEMMA StayReceives ==
  ASSUME StaInv, StaInv', ModeInv, UpInv, StayInv, allow \subseteq {"sae"}, UNCHANGED allow,
         vif.up, Receive
  PROVE  StayInv'
<1> USE StaBounds
<1>0. fw.task # "absent" /\ table /\ "noowner" \notin allow
  BY DEF ModeInv, StaInv, ChanInv, UpOps
<1>1. CASE Confirmed
  <2>1. /\ fifo # <<>> /\ fifo' = Tail(fifo) /\ Head(fifo).id \in {"cfm", "auth_ind"}
        /\ UNCHANGED <<cmds, fw, rx, vif>> /\ drv' = drv
    BY <1>1 DEF Confirmed, Took, drv
  <2>2. stack' = "connected" <=> stack = "connected"
    BY <1>1 DEF Confirmed, Refused
  <2> QED BY <2>1, <2>2, DueTaken DEF StayInv
<1>2. CASE rwnx_rx_sm_connect_ind
  <2> DEFINE m == Head(fifo)
  <2>1. /\ fifo # <<>> /\ fifo' = Tail(fifo) /\ UNCHANGED <<fw, stack, op, cmds>>
        /\ rx = "idle" /\ m.id = "connect_ind"
    BY <1>2 DEF rwnx_rx_sm_connect_ind, Took
  <2>2. m \in Msg /\ m.ok \in BOOLEAN /\ m.roamed \in BOOLEAN
    BY <2>1, Shifted, Said
  <2>3. ~ vif.ch_index
    <3>1. \E b \in BOOLEAN, a \in BOOLEAN : Turns(b, m, a) /\ (table => (b <=> vif.ch_index))
      BY <2>1, StoryTaken
    <3> QED BY <1>0, <2>1, <3>1 DEF Turns
  <2>4. drv # "CONNECTED"
    BY <2>1, <2>3 DEF StayInv
  <2>5. rx' = IF m.ok /\ drv = "DISCONNECTING" THEN "idle"
              ELSE IF m.roamed THEN (IF m.ok THEN "roamed" ELSE "roam_failed")
              ELSE (IF m.ok THEN "joined" ELSE "join_failed")
    BY <1>2 DEF rwnx_rx_sm_connect_ind
  <2>6. /\ drv' = IF m.ok THEN drv ELSE "DISCONNECTED"
        /\ vif'.ch_index <=> m.ok
        /\ vif'.is_roam <=> vif.is_roam /\ ~ (m.ok /\ drv = "DISCONNECTING")
        /\ vif'.up <=> vif.up
    <3>1. CASE m.ok
      BY <1>2, <2>2, <3>1 DEF rwnx_rx_sm_connect_ind, Vif, drv
    <3>2. CASE ~ m.ok
      BY <1>2, <2>2, <2>3, <3>2 DEF rwnx_rx_sm_connect_ind, Vif, drv
    <3> QED BY <3>1, <3>2
  <2>7. CASE m.ok /\ drv = "DISCONNECTING"
    <3>1. cmds = <<"disconnect">> \/ fw.task \in {"idle", "leaving"}
      BY <2>7 DEF UpInv, LeaveInv
    <3>2. Due' \/ Leaves'
      <4>1. ASSUME ~ Due' PROVE Leaves'
        <5>1. (\A i \in Msgs' : ~ Link(i)') /\ fw'.task # "leaving"
          BY <4>1 DEF Due
        <5>2. table' /\ fw'.task # "absent" /\ vif'.ch_index
          BY <1>0, <1>2, <2>1, <2>6, <2>7 DEF rwnx_rx_sm_connect_ind
        <5>3. fw'.task = "connected"
          <6>1. PICK S \in SUBSET Nat : Story(S)'
            BY DEF StaInv
          <6>2. fifo' \in Seq(Msg) /\ Path(fifo', S)
            BY <6>1 DEF StaInv, Story, StoryOf, Path
          <6>3. \A i \in 1..Len(fifo') : fifo'[i].id \notin {"connect_ind", "disconnect_ind"}
            BY <5>1 DEF Msgs, Link
          <6>4. Len(fifo') \in S <=> 0 \in S
            BY <6>2, <6>3, NoLink
          <6>5. 0 \in S /\ (fw'.task \in Trying \union {"idle"} => Len(fifo') \notin S)
            BY <5>2, <6>1 DEF Story, StoryOf
          <6>6. fw'.task \in Trying \union {"idle", "connected"}
            BY <5>1, <5>2, FwTasks DEF StaInv, TypeOK
          <6> QED BY <6>4, <6>5, <6>6
        <5> QED BY <2>1, <3>1, <5>3 DEF Leaves
      <4> QED BY <4>1
    <3>3. rx' = "idle" /\ drv' = "DISCONNECTING" /\ ~ vif'.is_roam
      BY <2>5, <2>6, <2>7
    <3> QED BY <3>2, <3>3 DEF StayInv, Pending
  <2>8. CASE m.ok /\ drv # "DISCONNECTING"
    <3>1. rx' \in {"joined", "roamed"}
      BY <2>5, <2>8
    <3> QED BY <2>4, <2>6, <2>8, <3>1 DEF StayInv, Pending
  <2>9. CASE ~ m.ok
    <3>1. rx' \in {"join_failed", "roam_failed"}
      BY <2>5, <2>9
    <3> QED BY <2>6, <2>9, <3>1 DEF StayInv, Pending
  <2> QED BY <2>2, <2>7, <2>8, <2>9
<1>3. CASE ConnectIndTells
  <2>1. CASE rx \in {"joined", "roamed"}
    <3>1. drv' = "CONNECTED" /\ ~ vif'.is_roam /\ vif'.ch_index /\ rx' = "idle"
      BY <1>3, <2>1 DEF ConnectIndTells, Vif, drv, StayInv
    <3>2. stack' = "connected"
      BY <1>3, <2>1 DEF ConnectIndTells, UpInv, ReassocInv
    <3> QED BY <3>1, <3>2 DEF StayInv
  <2>2. CASE rx \notin {"joined", "roamed"}
    <3> DEFINE v == rwnx_external_auth_disable(vif)
    <3>1. v \in Vif /\ ~ v.ch_index
      BY <1>3, <2>2 DEF ConnectIndTells, rwnx_external_auth_disable, Vif, StaInv, ChanInv
    <3>2. rx' = "idle" /\ vif' = [v EXCEPT !.drv_conn_state = "DISCONNECTED", !.is_roam = FALSE]
      BY <1>3, <2>2 DEF ConnectIndTells
    <3> HIDE DEF v
    <3>3. drv' = "DISCONNECTED" /\ ~ vif'.is_roam /\ ~ vif'.ch_index
      BY <3>1, <3>2 DEF Vif, drv
    <3> QED BY <3>2, <3>3 DEF StayInv
  <2> QED BY <2>1, <2>2
<1>4. CASE rwnx_rx_sm_disconnect_ind
  <2>1. /\ fifo # <<>> /\ fifo' = Tail(fifo) /\ rx = "idle" /\ Head(fifo).id = "disconnect_ind"
        /\ UNCHANGED fw
    BY <1>4 DEF rwnx_rx_sm_disconnect_ind, Took
  <2>2. vif.ch_index
    <3>1. \E b \in BOOLEAN, a \in BOOLEAN :
            Turns(b, Head(fifo), a) /\ (table => (b <=> vif.ch_index))
      BY <2>1, StoryTaken
    <3> QED BY <1>0, <2>1, <3>1 DEF Turns
  <2>3. drv # "DISCONNECTED" /\ ~ vif.is_roam
    BY <2>1, <2>2 DEF StaInv, ChanInv, StayInv
  <2>4. rx' = "left" /\ ~ vif'.ch_index /\ ~ vif'.is_roam
    BY <1>4, <2>3 DEF rwnx_rx_sm_disconnect_ind, rwnx_external_auth_disable, Vif
  <2> QED BY <2>4 DEF StayInv, Pending
<1>5. CASE DisconnectIndEnds
  <2>1. rx = "left" /\ rx' = "idle" /\ ~ vif.ch_index /\ UNCHANGED <<cmds, fw, fifo>>
    BY <1>5 DEF DisconnectIndEnds, StaInv, ChanInv
  <2>2. /\ drv' = (IF vif.is_roam THEN drv ELSE "DISCONNECTED")
        /\ ~ vif'.ch_index /\ (vif'.is_roam <=> vif.is_roam)
    BY <1>5, <2>1 DEF DisconnectIndEnds, Vif, drv
  <2>3. vif.is_roam => drv # "CONNECTED" /\ Due'
    BY <2>1 DEF StayInv, Due, Link, Msgs
  <2> QED BY <2>1, <2>2, <2>3 DEF StayInv, Pending
<1>6. CASE rwnx_rx_sm_external_auth_required_ind
  <2>1. /\ fifo # <<>> /\ fifo' = Tail(fifo) /\ Head(fifo).id \in {"cfm", "auth_ind"}
        /\ UNCHANGED <<cmds, rx, stack>>
    BY <1>6 DEF rwnx_rx_sm_external_auth_required_ind, Took
  <2>2. vif' = [vif EXCEPT !.external_auth = TRUE] /\ UNCHANGED fw
    BY <1>0, <1>6 DEF rwnx_rx_sm_external_auth_required_ind
  <2>3. /\ drv' = drv /\ (vif'.ch_index <=> vif.ch_index)
        /\ (vif'.is_roam <=> vif.is_roam)
    BY <2>2 DEF Vif, drv
  <2> QED BY <2>1, <2>2, <2>3, DueTaken DEF StayInv
<1> QED BY <1>1, <1>2, <1>3, <1>4, <1>5, <1>6 DEF Receive

\* Every step of an interface that is up keeps the state due.
LEMMA StayStep ==
  ASSUME StaInv, StaInv', ModeInv, vif.up => UpInv /\ StayInv, allow \subseteq {"sae"},
         UNCHANGED allow, vif'.up, Next
  PROVE  StayInv'
<1>1. CASE rwnx_open
  BY <1>1, StayOpens
<1>2. CASE vif.up
  <2>1. CASE Calls \/ CloseStep \/ Disconnects
    BY <1>2, <2>1, StayCalls
  <2>2. CASE Receive
    BY <1>2, <2>2, StayReceives
  <2>3. CASE Answers \/ Ends \/ Goes
    <3>1. UNCHANGED <<vif, rx, stack>> /\ drv' = drv
      BY <2>3 DEF Answers, Ends, Goes, FwConnect, FwDisconnect, FwAuth, FwRemove, FwJoins,
                  FwFails, FwLeft, FwNeedsAuth, FwLosesLink, Says, FwGoes, drv
    <3>2. (Due => Due') /\ (Pending => Pending')
      BY <1>2, <2>3, <3>1, DueKept DEF Pending
    <3> QED BY <1>2, <3>1, <3>2 DEF StayInv
  <2> QED BY <2>1, <2>2, <2>3 DEF Next
<1>3. CASE ~ vif.up /\ ~ rwnx_open
  BY <1>3, StaysDown
<1> QED BY <1>1, <1>2, <1>3

-----------------------------------------------------------------------------
\* Every step keeps what the stack is told.
LEMMA LinkStep ==
  ASSUME StaInv, LinkInv, [Next]_vars
  PROVE  LinkInv'
<1>1. CASE UNCHANGED vars
  <2>1. (Calm => Calm') /\ (ModeInv => ModeInv') /\ (StayInv => StayInv')
    BY <1>1 DEF vars, Calm, ModeInv, StayInv, Pending, Due, Leaves, Link, Msgs, drv
  <2>2. UpInv => UpInv'
    <3>1. ASSUME NEW K \in SUBSET Nat, Tale(K) PROVE Tale(K)'
      BY <1>1, <3>1 DEF vars, Tale, TaleOf, TellsPath, StackNow, Unwanted, Reassoc, Msgs, drv
    <3> QED BY <1>1, <3>1 DEF vars, UpInv, ReassocInv, Reassoc, Ack, LeaveInv, Msgs, drv
  <2> QED BY <1>1, <2>1, <2>2 DEF vars, LinkInv, Calm
<1>2. CASE Next
  <2>1. UNCHANGED allow
    BY <1>2 DEF Next, Calls, CloseStep, Disconnects, Receive, Answers, Ends, Goes, Same
  <2>2. ASSUME Calm PROVE ModeInv' /\ (vif'.up => UpInv')
    <3>1. ModeInv /\ (vif.up => UpInv)
      BY <2>2 DEF LinkInv
    <3>2. ModeInv'
      BY <1>2, <2>1, <2>2, <3>1, ModeCalls, ModeCloses, ModeReceives, ModeFw DEF Next
    <3> QED BY <1>2, <2>1, <2>2, <3>1, <3>2, UpStep
  <2>3. ASSUME allow \subseteq {"sae"}, vif'.up PROVE StayInv'
    <3>1. Calm /\ ModeInv /\ (vif.up => UpInv /\ StayInv)
      BY <2>3 DEF LinkInv, Calm
    <3>2. StaInv'
      BY StaStep
    <3> QED BY <1>2, <2>1, <2>3, <3>1, <3>2, StayStep
  <2> QED BY <2>1, <2>2, <2>3 DEF LinkInv, Calm
<1> QED BY <1>1, <1>2

\* When nothing is left to do the stack, the driver and the firmware agree.
LEMMA LinkSettled ==
  ASSUME StaInv, LinkInv
  PROVE  LinkAgrees
<1>1. ASSUME Calm, Settled PROVE LinkTold
  <2>1. /\ op = "none" /\ cmds = <<>> /\ rx = "idle" /\ fifo = <<>> /\ Len(fifo) = 0
        /\ fw.task \in {"idle", "connected"}
    BY <1>1 DEF Settled
  <2>2. ModeInv /\ vif.up /\ UpInv /\ table
    BY <1>1, <2>1 DEF LinkInv, ModeInv, UpOps, StaInv, ChanInv
  <2>3. (fw.task = "connected") = vif.ch_index
    <3>1. PICK S \in SUBSET Nat : Story(S)
      BY DEF StaInv
    <3>2. fw.task = "connected" <=> 0 \in S
      BY <2>1, <3>1 DEF Story, StoryOf
    <3>3. vif.ch_index \in BOOLEAN
      BY DEF StaInv, TypeOK, Vif
    <3> QED BY <2>2, <3>1, <3>2, <3>3 DEF Story, StoryOf
  <2>4. fw.task = "connected" <=> stack = "connected"
    <3>1. PICK K \in SUBSET Nat : Tale(K)
      BY <2>2 DEF UpInv
    <3>2. fw.task = "connected" <=> 0 \in K
      BY <2>1, <3>1 DEF Tale, TaleOf
    <3>3. StackNow <=> stack = "connected"
      BY <2>1 DEF StackNow
    <3>4. ASSUME Unwanted PROVE fw.task = "idle"
      BY <2>1, <2>2, <3>4 DEF Unwanted, UpInv, LeaveInv
    <3> QED BY <3>1, <3>2, <3>3, <3>4 DEF Tale
  <2> QED BY <2>3, <2>4 DEF LinkTold
<1>2. ASSUME allow \subseteq {"sae"}, Settled PROVE StateAgrees
  <2>1. /\ op = "none" /\ cmds = <<>> /\ rx = "idle" /\ fifo = <<>> /\ Len(fifo) = 0
        /\ fw.task \in {"idle", "connected"}
    BY <1>2 DEF Settled
  <2>2. Calm
    BY <1>2 DEF Calm
  <2>3. vif.up /\ StayInv
    BY <1>2, <2>1, <2>2 DEF LinkInv, ModeInv, UpOps
  <2>4. ~ Pending
    <3>1. fw.task \notin Trying \union {"leaving"}
      BY <2>1, FwTasks
    <3> QED BY <2>1, <3>1 DEF Pending, Due, Leaves, Msgs
  <2>5. (fw.task = "connected") = vif.ch_index
    BY <1>1, <1>2, <2>2 DEF LinkTold
  <2> QED BY <2>3, <2>4, <2>5 DEF StayInv, StateAgrees
<1> QED BY <1>1, <1>2 DEF LinkAgrees, Calm, LinkTold, StateAgrees

\* Whatever overtakes what, in behaviours in which only the user roams or
\* authenticates itself: once all is quiet the driver and the stack have a
\* connection exactly when the firmware has one, and so does drv_conn_state if
\* nobody roams.  For any number of calls.
THEOREM LinkTheorem == Spec => []LinkAgrees
<1>1. Init => LinkInv
  <2> SUFFICES ASSUME Init PROVE LinkInv
    OBVIOUS
  <2>1. ~ vif.up /\ drv = "DISCONNECTED" /\ op = "closed" /\ rx = "idle" /\ stack = "idle"
    BY DEF Init, drv
  <2> QED BY <2>1 DEF LinkInv, ModeInv, UpOps
<1>2. StaInv /\ LinkInv => LinkAgrees
  BY LinkSettled
<1> QED BY <1>1, <1>2, StaInit, StaStep, LinkStep, PTL DEF Spec

-----------------------------------------------------------------------------
(* Remaining on a channel.                                                  *)

RocMsg == [id : {"cfm"}, ok : BOOLEAN] \union [id : {"switch", "exp"}]
Answer(i) == roc_fifo[i].id = "cfm"
Switch(i) == roc_fifo[i].id = "switch"
Expiry(i) == roc_fifo[i].id = "exp"
Inbox == 1..Len(roc_fifo)

\* The driver's own request is for a frame, and what has not been requested has
\* neither a flag nor a cookie.
MadeInv ==
  /\ rocs \in 0..MaxRocs /\ roc_elem <= rocs /\ txs \in 0..MaxTx[roc_allow]
  /\ \A r \in Roc : r > rocs => /\ r \notin mgmt_roc /\ r \notin on_chan
                                /\ ready[r] = 0 /\ expired[r] = 0
  /\ roc_op.pc \in {"sent", "confirmed"} => roc_op.roc \in Roc /\ roc_op.mgmt \in BOOLEAN
  /\ roc_op.pc \in {"look", "xmit", "queue"} => txs > 0
  /\ roc_op.pc \in {"sent", "confirmed"} /\ roc_op.mgmt => txs > 0

\* The stack is told of the requests that are on their channel, and of the end
\* of the one whose element is freed next.
ToldInv ==
  /\ \A r \in Roc : ready[r] # 0 <=> r \in on_chan \ mgmt_roc
  /\ roc_rx # 0 /\ ready[roc_rx] # 0 => expired[roc_rx] # 0

\* A request ends once, after everything else that is heard of it.
OnceInv == \A i, j \in Inbox : Expiry(i) => /\ Expiry(j) => i = j
                                            /\ Switch(j) => j < i

\* The firmware serves the driver's request, which ends once: in the firmware,
\* on its way or in the handler.
EndInv ==
  /\ roc_elem = 0 => /\ roc_fw = 0 /\ roc_rx = 0
                     /\ \A i \in Inbox : Answer(i)
                     /\ roc_op.pc \notin {"sent", "confirmed", "queue"}
  /\ OnceInv
  /\ \A i \in Inbox : Expiry(i) => roc_fw = 0 /\ roc_rx = 0
  /\ roc_rx # 0 => /\ roc_rx = roc_elem /\ roc_fw = 0
                   /\ \A i \in Inbox : Answer(i)
                   /\ roc_op.pc \notin {"sent", "confirmed", "queue"}

\* The one command in flight has one answer.
OneInv == \A i, j \in Inbox : Answer(i) /\ Answer(j) => i = j

\* Nothing is heard of a request before its confirmation, and nothing at all if
\* the firmware refuses it.
BeginInv ==
  /\ OneInv
  /\ \A i \in Inbox : Answer(i) => roc_op.pc \in {"sent", "cancel"}
  /\ roc_op.pc \notin {"forget", "remove"}
  /\ roc_op.pc = "sent" =>
       /\ \A i \in Inbox : Answer(i) => i = 1
       /\ roc_fw # 0 \/ (\E i \in Inbox : ~ Answer(i))
            => 1 \in Inbox /\ Answer(1) /\ roc_fifo[1].ok
  /\ roc_op.pc = "confirmed" /\ ~ roc_op.ok => roc_fw = 0 /\ roc_fifo = <<>>
  /\ roc_op.pc \in {"sent", "confirmed"} =>
       /\ roc_op.roc = roc_elem
       /\ given[roc_elem] = 0 /\ ready[roc_elem] = 0 /\ expired[roc_elem] = 0

\* The cookie does not change until the request ends.
CookieInv ==
  /\ EventsMatch
  /\ \A r \in Roc : r > rocs => given[r] = 0
  /\ roc_elem # 0 /\ roc_rx = 0 => given[roc_elem] \in {0, roc_cookie_cnt}

\* Frames wait only in an active queue that is stopped, and the queue is active
\* only during a request.
QueueInv ==
  /\ lost = {}
  /\ txq.active => roc_elem # 0 /\ roc_rx = 0
  /\ txq.frames # {} => txq.active /\ txq.stopped
  /\ roc_op.pc = "queue" => txq.active

RocInv ==
  /\ RocTypeOK /\ roc_fifo \in Seq(RocMsg) /\ MadeInv /\ ToldInv /\ OwnAreSilent /\ ReadyFirst
  /\ roc_allow \subseteq {"refuse"} => EndInv /\ BeginInv /\ CookieInv /\ QueueInv

-----------------------------------------------------------------------------
USE DEF Rc!Same, Rc!cfm, Rc!switch, Rc!exp, Rc!user, Rc!count, Rc!call, Rc!None, Rc!Roc, Answer,
        Switch, Expiry, Inbox, None

\* The messages that the firmware sends.
LEMMA RocSent ==
  /\ \A b \in BOOLEAN : LET m == [id |-> "cfm", ok |-> b]
                        IN m \in RocMsg /\ m.id = "cfm" /\ m.ok = b
  /\ [id |-> "switch"] \in RocMsg /\ [id |-> "switch"].id = "switch"
  /\ [id |-> "exp"] \in RocMsg /\ [id |-> "exp"].id = "exp"
  /\ \A m \in RocMsg : m.id \in {"cfm", "switch", "exp"}
BY DEF RocMsg

\* What a message adds.
LEMMA RocSaid ==
  ASSUME roc_fifo \in Seq(RocMsg), NEW m \in RocMsg, roc_fifo' = roc_fifo \o <<m>>
  PROVE  /\ roc_fifo' \in Seq(RocMsg) /\ Len(roc_fifo) \in Nat
         /\ Len(roc_fifo') = Len(roc_fifo) + 1
         /\ \A i \in Inbox : roc_fifo'[i] = roc_fifo[i]
         /\ roc_fifo'[Len(roc_fifo')] = m
<1>1. roc_fifo' = Append(roc_fifo, m)
  BY TwoAppended
<1> QED BY <1>1, Appended

\* What two messages add.
LEMMA RocSaidTwo ==
  ASSUME roc_fifo \in Seq(RocMsg), NEW m \in RocMsg, NEW n \in RocMsg,
         roc_fifo' = roc_fifo \o <<m, n>>
  PROVE  /\ roc_fifo' \in Seq(RocMsg) /\ Len(roc_fifo) \in Nat
         /\ Len(roc_fifo') = Len(roc_fifo) + 2
         /\ \A i \in Inbox : roc_fifo'[i] = roc_fifo[i]
         /\ roc_fifo'[Len(roc_fifo) + 1] = m /\ roc_fifo'[Len(roc_fifo) + 2] = n
<1> DEFINE s == Append(roc_fifo, m)
<1>1. roc_fifo' = Append(s, n)
  BY TwoAppended
<1>2. /\ s \in Seq(RocMsg) /\ Len(s) = Len(roc_fifo) + 1 /\ Len(roc_fifo) \in Nat
      /\ \A i \in 1..Len(roc_fifo) : s[i] = roc_fifo[i]
      /\ s[Len(roc_fifo) + 1] = m
  BY Appended
<1> HIDE DEF s
<1>3. /\ roc_fifo' \in Seq(RocMsg) /\ Len(roc_fifo') = Len(s) + 1
      /\ \A i \in 1..Len(s) : roc_fifo'[i] = s[i]
      /\ roc_fifo'[Len(s) + 1] = n
  BY <1>1, <1>2, Appended
<1> QED BY <1>2, <1>3

\* What the receive thread leaves.
LEMMA RocTaken ==
  ASSUME roc_fifo \in Seq(RocMsg), roc_fifo # <<>>, roc_fifo' = Tail(roc_fifo)
  PROVE  /\ roc_fifo' \in Seq(RocMsg) /\ Len(roc_fifo) \in Nat \ {0}
         /\ Len(roc_fifo') = Len(roc_fifo) - 1 /\ Head(roc_fifo) = roc_fifo[1]
         /\ \A i \in Inbox' : i + 1 \in Inbox /\ roc_fifo'[i] = roc_fifo[i + 1]
<1>1. /\ roc_fifo' \in Seq(RocMsg) /\ Len(roc_fifo) \in Nat \ {0}
      /\ Len(roc_fifo') = Len(roc_fifo) - 1 /\ Head(roc_fifo) = roc_fifo[1]
      /\ \A i \in 1..Len(roc_fifo) - 1 : roc_fifo'[i] = roc_fifo[i + 1]
  BY Tailed
<1> QED BY <1>1

\* While the one command in flight has no answer there is none on its way.
LEMMA UnansweredMeans ==
  ASSUME roc_fifo \in Seq(RocMsg), Rc!Unanswered
  PROVE  \A i \in Inbox : ~ Answer(i)
<1>1. SUFFICES ASSUME NEW i \in Inbox, Answer(i) PROVE FALSE
  OBVIOUS
<1>2. roc_fifo[i] \in RocMsg /\ i \in DOMAIN roc_fifo
  OBVIOUS
<1>3. \E b \in BOOLEAN : roc_fifo[i] = [id |-> "cfm", ok |-> b]
  BY <1>1, <1>2 DEF RocMsg
<1> QED BY <1>2, <1>3 DEF Rc!Unanswered

\* The bounds of the requests, frames and cookies.
LEMMA RocBounds ==
  ASSUME RocTypeOK
  PROVE  /\ MaxTx[roc_allow] \in Nat /\ MaxRocs \in Nat /\ MaxCookie \in Nat \ {0}
         /\ \A n \in Roc : n \in Nat \ {0}
         /\ \A n : n \in Roc <=> n \in Nat /\ 1 <= n /\ n <= MaxRocs
         /\ Rc!NextCookie \in 1..MaxCookie
         /\ roc_elem \in Nat /\ roc_rx \in Nat /\ roc_fw \in Nat
BY RocAssumption DEF RocTypeOK, Roc, Rc!NextCookie

\* Steps of a call of the stack that change nothing but the place they are at.
LEMMA RocGoes ==
  ASSUME RocInv,
         roc_allow' = roc_allow, roc_elem' = roc_elem, mgmt_roc' = mgmt_roc, on_chan' = on_chan,
         freed' = freed, roc_cookie_cnt' = roc_cookie_cnt, txq' = txq, lost' = lost,
         given' = given, ready' = ready, expired' = expired, roc_rx' = roc_rx,
         roc_fifo' = roc_fifo, roc_fw' = roc_fw, rocs' = rocs, txs' \in {txs, txs + 1},
         txs' <= MaxTx[roc_allow],
         roc_op.pc \notin {"sent", "cancel", "forget", "remove"},
         roc_op'.pc \in {"none", "look", "xmit", "queue", "cancel"},
         roc_op'.pc \in {"look", "xmit", "queue"} => txs' > 0,
         roc_op'.pc = "queue" => txq.active
  PROVE  RocInv'
<1> USE RocBounds DEF RocInv
<1>1. RocTypeOK'
  BY DEF RocTypeOK, Roc, Frame
<1>2. MadeInv'
  BY DEF MadeInv, Roc
<1>3. ToldInv' /\ OwnAreSilent' /\ ReadyFirst'
  BY DEF ToldInv, OwnAreSilent, ReadyFirst, Roc
<1>4. ASSUME roc_allow \subseteq {"refuse"}
      PROVE  EndInv' /\ BeginInv' /\ CookieInv' /\ QueueInv'
  <2>0. EndInv /\ BeginInv /\ CookieInv /\ QueueInv
    BY <1>4
  <2>1. QueueInv'
    BY <2>0 DEF QueueInv
  <2>2. EndInv'
    BY <2>0 DEF EndInv, OnceInv, QueueInv
  <2>3. BeginInv'
    BY <2>0 DEF BeginInv, OneInv
  <2>4. CookieInv'
    BY <2>0 DEF CookieInv, EventsMatch, Roc
  <2> QED BY <2>1, <2>2, <2>3, <2>4
<1> QED BY <1>1, <1>2, <1>3, <1>4

\* mgmt_tx looks at the channel of the pending request.
LEMMA Roc_MgmtTxLooks ==
  ASSUME RocInv, UNCHANGED roc_allow, Rc!MgmtTxLooks
  PROVE  RocInv'
<1>1. txs \in Nat /\ txs > 0 /\ txs <= MaxTx[roc_allow]
  BY RocBounds DEF Rc!MgmtTxLooks, RocInv, MadeInv
<1> QED BY <1>1, RocGoes DEF Rc!MgmtTxLooks

\* A frame is for an active queue only.
LEMMA Roc_rwnx_start_mgmt_xmit ==
  ASSUME RocInv, UNCHANGED roc_allow, Rc!rwnx_start_mgmt_xmit
  PROVE  RocInv'
<1>1. txs \in Nat /\ txs > 0 /\ txs <= MaxTx[roc_allow]
  BY RocBounds DEF Rc!rwnx_start_mgmt_xmit, RocInv, MadeInv
<1> QED BY <1>1, RocGoes DEF Rc!rwnx_start_mgmt_xmit

\* A cancellation is sent; the request stays until it ends.
LEMMA Roc_rwnx_cfg80211_cancel_remain_on_channel ==
  ASSUME RocInv, UNCHANGED roc_allow, Rc!rwnx_cfg80211_cancel_remain_on_channel
  PROVE  RocInv'
<1>1. txs \in Nat /\ txs <= MaxTx[roc_allow]
  BY RocBounds DEF RocInv, MadeInv
<1> QED BY <1>1, RocGoes DEF Rc!rwnx_cfg80211_cancel_remain_on_channel

\* A frame is queued, unless the queue is on its way.
LEMMA Roc_XmitQueues ==
  ASSUME RocInv, UNCHANGED roc_allow, Rc!XmitQueues
  PROVE  RocInv'
<1> USE RocBounds DEF RocInv
<1>0. /\ roc_op.pc = "queue" /\ roc_op'.pc = "none"
      /\ roc_elem' = roc_elem /\ mgmt_roc' = mgmt_roc /\ on_chan' = on_chan
      /\ freed' = freed /\ roc_cookie_cnt' = roc_cookie_cnt /\ lost' = lost
      /\ given' = given /\ ready' = ready /\ expired' = expired /\ roc_rx' = roc_rx
      /\ roc_fifo' = roc_fifo /\ roc_fw' = roc_fw /\ rocs' = rocs /\ txs' = txs
      /\ txq' = IF txq.stopped THEN [txq EXCEPT !.frames = @ \union {txs}] ELSE txq
  BY DEF Rc!XmitQueues, Rc!rwnx_txq_queue_skb
<1>1. RocTypeOK'
  <2>1. txs \in Frame
    BY <1>0 DEF MadeInv, Frame
  <2>2. txq' \in [active : BOOLEAN, stopped : BOOLEAN, frames : SUBSET Frame]
    BY <1>0, <2>1 DEF RocTypeOK
  <2> QED BY <1>0, <2>2 DEF RocTypeOK, Roc, Frame
<1>2. MadeInv'
  BY <1>0 DEF MadeInv, Roc
<1>3. ToldInv' /\ OwnAreSilent' /\ ReadyFirst'
  BY <1>0 DEF ToldInv, OwnAreSilent, ReadyFirst, Roc
<1>4. ASSUME roc_allow \subseteq {"refuse"}
      PROVE  EndInv' /\ BeginInv' /\ CookieInv' /\ QueueInv'
  <2>0. EndInv /\ BeginInv /\ CookieInv /\ QueueInv
    BY <1>4
  <2>1. QueueInv'
    BY <1>0, <2>0 DEF QueueInv, RocTypeOK
  <2>2. EndInv'
    BY <1>0, <2>0 DEF EndInv, OnceInv
  <2>3. BeginInv'
    BY <1>0, <2>0 DEF BeginInv, OneInv
  <2>4. CookieInv'
    BY <1>0, <2>0 DEF CookieInv, EventsMatch, Roc
  <2> QED BY <2>1, <2>2, <2>3, <2>4
<1> QED BY <1>0, <1>1, <1>2, <1>3, <1>4

\* A new request: nothing is left of the one before it.
LEMMA RocRequests ==
  ASSUME RocInv, UNCHANGED roc_allow, NEW mgmt \in BOOLEAN,
         Rc!rwnx_cfg80211_remain_on_channel_(mgmt), roc_op.pc = "none",
         txs' \in {txs, txs + 1}, txs' <= MaxTx[roc_allow], mgmt => txs' > 0
  PROVE  RocInv'
<1> USE RocBounds DEF RocInv
<1>0. /\ roc_elem = 0 /\ rocs < MaxRocs /\ rocs' = rocs + 1 /\ roc_elem' = rocs + 1
      /\ mgmt_roc' = (IF mgmt THEN mgmt_roc \union {rocs + 1} ELSE mgmt_roc)
      /\ txq' = [active |-> TRUE, stopped |-> TRUE, frames |-> {}]
      /\ lost' = lost \union txq.frames
      /\ roc_op'.pc = "sent" /\ roc_op'.roc = rocs + 1 /\ roc_op'.mgmt = mgmt
      /\ on_chan' = on_chan /\ freed' = freed /\ roc_cookie_cnt' = roc_cookie_cnt
      /\ given' = given /\ ready' = ready /\ expired' = expired
      /\ roc_rx' = roc_rx /\ roc_fifo' = roc_fifo /\ roc_fw' = roc_fw
  BY DEF Rc!rwnx_cfg80211_remain_on_channel_, Rc!rwnx_txq_offchan_init
<1> HIDE DEF Rc!rwnx_cfg80211_remain_on_channel_
<1>1. rocs + 1 \in Roc /\ rocs \in Nat
  BY <1>0 DEF MadeInv
<1>2. RocTypeOK'
  <2>1. lost' \subseteq Frame /\ txq' \in [active : BOOLEAN, stopped : BOOLEAN, frames : SUBSET Frame]
    BY <1>0 DEF RocTypeOK
  <2> QED BY <1>0, <1>1, <2>1 DEF RocTypeOK, Roc, Frame
<1>3. MadeInv'
  <2>1. \A r \in Roc : r > rocs + 1 => r > rocs /\ r # rocs + 1
    BY <1>1
  <2>2. \A r \in Roc : r > rocs' => /\ r \notin mgmt_roc' /\ r \notin on_chan'
                                    /\ ready'[r] = 0 /\ expired'[r] = 0
    BY <1>0, <2>1 DEF MadeInv
  <2> QED BY <1>0, <1>1, <2>2 DEF MadeInv, Roc
<1>4. ToldInv' /\ OwnAreSilent' /\ ReadyFirst'
  <2>1. ready[rocs + 1] = 0 /\ expired[rocs + 1] = 0 /\ rocs + 1 \notin on_chan
    BY <1>1 DEF MadeInv
  <2> QED BY <1>0, <1>1, <2>1 DEF ToldInv, OwnAreSilent, ReadyFirst, Roc
<1>5. ASSUME roc_allow \subseteq {"refuse"}
      PROVE  EndInv' /\ BeginInv' /\ CookieInv' /\ QueueInv'
  <2>0. EndInv /\ BeginInv /\ CookieInv /\ QueueInv
    BY <1>5
  <2>1. roc_fw = 0 /\ roc_rx = 0 /\ \A i \in Inbox : FALSE
    BY <1>0, <2>0 DEF EndInv, BeginInv
  <2>2. given[rocs + 1] = 0 /\ ready[rocs + 1] = 0 /\ expired[rocs + 1] = 0
    BY <1>1, <2>0 DEF MadeInv, CookieInv
  <2>3. QueueInv'
    BY <1>0, <1>1, <2>0, <2>1 DEF QueueInv
  <2>4. EndInv'
    BY <1>0, <1>1, <2>1 DEF EndInv, OnceInv
  <2>5. BeginInv'
    BY <1>0, <2>1, <2>2 DEF BeginInv, OneInv
  <2>6. CookieInv'
    BY <1>0, <1>1, <2>0, <2>2 DEF CookieInv, EventsMatch, Roc
  <2> QED BY <2>3, <2>4, <2>5, <2>6
<1> QED BY <1>0, <1>2, <1>3, <1>4, <1>5

\* A request of the stack.
LEMMA Roc_rwnx_cfg80211_remain_on_channel ==
  ASSUME RocInv, UNCHANGED roc_allow, Rc!rwnx_cfg80211_remain_on_channel
  PROVE  RocInv'
<1>1. txs' = txs /\ txs <= MaxTx[roc_allow] /\ roc_op.pc = "none"
  BY RocBounds DEF RocInv, MadeInv, Rc!rwnx_cfg80211_remain_on_channel
<1> QED BY <1>1, RocRequests DEF Rc!rwnx_cfg80211_remain_on_channel

\* A frame for the request that is pending, or for one of the driver's own.
LEMMA Roc_rwnx_cfg80211_mgmt_tx ==
  ASSUME RocInv, UNCHANGED roc_allow, Rc!rwnx_cfg80211_mgmt_tx
  PROVE  RocInv'
<1>1. txs' = txs + 1 /\ txs \in Nat /\ txs < MaxTx[roc_allow] /\ MaxTx[roc_allow] \in Nat
  BY RocBounds DEF RocInv, MadeInv, Rc!rwnx_cfg80211_mgmt_tx
<1>2. txs' > 0 /\ txs' <= MaxTx[roc_allow] /\ roc_op.pc = "none"
  BY <1>1 DEF Rc!rwnx_cfg80211_mgmt_tx
<1>3. CASE roc_elem # 0
  <2>1. /\ roc_op'.pc = "look"
        /\ UNCHANGED <<Rc!call, roc_cookie_cnt, txq, lost, Rc!user, roc_rx, roc_fifo, roc_fw, rocs>>
    BY <1>3 DEF Rc!rwnx_cfg80211_mgmt_tx, Rc!rwnx_cfg80211_remain_on_channel_
  <2> QED BY <1>1, <1>2, <2>1, RocGoes
<1>4. CASE roc_elem = 0
  <2>1. Rc!rwnx_cfg80211_remain_on_channel_(TRUE)
    BY <1>4 DEF Rc!rwnx_cfg80211_mgmt_tx
  <2> QED BY <1>1, <1>2, <2>1, RocRequests
<1> QED BY <1>3, <1>4

\* The call takes the cookie of the request, which has not changed, or drops it.
LEMMA Roc_RocReturns ==
  ASSUME RocInv, UNCHANGED roc_allow, Rc!RocReturns
  PROVE  RocInv'
<1> USE RocBounds DEF RocInv
<1> DEFINE r == roc_op.roc
<1>0. /\ roc_op.pc = "confirmed"
      /\ mgmt_roc' = mgmt_roc /\ on_chan' = on_chan /\ roc_cookie_cnt' = roc_cookie_cnt
      /\ lost' = lost /\ ready' = ready /\ expired' = expired /\ roc_rx' = roc_rx
      /\ roc_fifo' = roc_fifo /\ roc_fw' = roc_fw /\ rocs' = rocs /\ txs' = txs
  BY DEF Rc!RocReturns
<1>1. ToldInv' /\ OwnAreSilent' /\ ReadyFirst'
  BY <1>0 DEF ToldInv, OwnAreSilent, ReadyFirst, Roc
<1>2. CASE roc_op.ok
  <2>0. /\ given' = (IF roc_op.mgmt THEN given ELSE [given EXCEPT ![r] = roc_cookie_cnt])
        /\ roc_op'.pc = (IF roc_op.mgmt THEN "xmit" ELSE "none")
        /\ roc_elem' = roc_elem /\ freed' = freed /\ txq' = txq
    BY <1>2 DEF Rc!RocReturns
  <2>1. RocTypeOK'
    <3>0. given \in [Roc -> 0..MaxCookie] /\ roc_cookie_cnt \in 0..MaxCookie
      BY DEF RocTypeOK
    <3>1. given' \in [Roc -> 0..MaxCookie]
      BY <2>0, <3>0
    <3> QED BY <1>0, <2>0, <3>1 DEF RocTypeOK, Roc, Frame
  <2>2. MadeInv'
    BY <1>0, <2>0 DEF MadeInv, Roc
  <2>3. ASSUME roc_allow \subseteq {"refuse"}
        PROVE  EndInv' /\ BeginInv' /\ CookieInv' /\ QueueInv'
    <3>0. EndInv /\ BeginInv /\ CookieInv /\ QueueInv
      BY <2>3
    <3>1. QueueInv'
      BY <1>0, <2>0, <3>0 DEF QueueInv
    <3>2. EndInv'
      BY <1>0, <2>0, <3>0 DEF EndInv, OnceInv
    <3>3. BeginInv'
      BY <1>0, <2>0, <3>0 DEF BeginInv, OneInv
    <3>4. CookieInv'
      <4>1. r = roc_elem /\ r \in Roc /\ ready[r] = 0 /\ expired[r] = 0 /\ r <= rocs
        BY <1>0, <3>0 DEF BeginInv, MadeInv
      <4>2. \A n \in Roc : n # r => given'[n] = given[n]
        BY <2>0 DEF RocTypeOK
      <4>3. given'[r] \in {given[r], roc_cookie_cnt}
        BY <2>0, <4>1 DEF RocTypeOK
      <4>4. EventsMatch'
        BY <1>0, <3>0, <4>1, <4>2 DEF CookieInv, EventsMatch, Roc
      <4>5. \A n \in Roc : n > rocs => given'[n] = 0
        BY <3>0, <4>1, <4>2 DEF CookieInv, MadeInv
      <4> QED BY <1>0, <2>0, <3>0, <4>1, <4>3, <4>4, <4>5 DEF CookieInv, Roc
    <3> QED BY <3>1, <3>2, <3>3, <3>4
  <2> QED BY <1>0, <1>1, <2>1, <2>2, <2>3
<1>3. CASE ~ roc_op.ok
  <2>0. /\ given' = given /\ roc_op'.pc = "none" /\ roc_elem' = 0
        /\ freed' = [freed EXCEPT ![r] = @ + 1]
        /\ txq' = IF txq.active THEN [txq EXCEPT !.active = FALSE, !.frames = {}] ELSE txq
    BY <1>3 DEF Rc!RocReturns, Rc!rwnx_txq_offchan_deinit
  <2>1. RocTypeOK'
    <3>0. DOMAIN freed = Roc
      BY DEF RocTypeOK
    <3>1. DOMAIN freed' = Roc
      BY <2>0, <3>0
    <3>2. txq' \in [active : BOOLEAN, stopped : BOOLEAN, frames : SUBSET Frame]
      BY <2>0 DEF RocTypeOK
    <3> QED BY <1>0, <2>0, <3>1, <3>2 DEF RocTypeOK, Roc, Frame
  <2>2. MadeInv'
    BY <1>0, <2>0 DEF MadeInv, Roc
  <2>3. ASSUME roc_allow \subseteq {"refuse"}
        PROVE  EndInv' /\ BeginInv' /\ CookieInv' /\ QueueInv'
    <3>0. EndInv /\ BeginInv /\ CookieInv /\ QueueInv
      BY <2>3
    <3>1. QueueInv'
      BY <1>0, <2>0, <3>0 DEF QueueInv, RocTypeOK
    <3>2. roc_fw = 0 /\ roc_fifo = <<>> /\ roc_rx = 0
      BY <1>0, <1>3, <3>0 DEF BeginInv, OneInv, EndInv
    <3>3. EndInv'
      BY <1>0, <2>0, <3>2 DEF EndInv, OnceInv
    <3>4. BeginInv'
      BY <1>0, <2>0, <3>0 DEF BeginInv, OneInv
    <3>5. CookieInv'
      BY <1>0, <2>0, <3>0 DEF CookieInv, EventsMatch, Roc
    <3> QED BY <3>1, <3>3, <3>4, <3>5
  <2> QED BY <1>0, <1>1, <2>1, <2>2, <2>3
<1> QED BY <1>2, <1>3

\* rwnx_close drops whatever there is.
LEMMA Roc_Closes ==
  ASSUME RocInv, UNCHANGED roc_allow, Rc!rwnx_close \/ Rc!CloseForgets
  PROVE  RocInv'
<1> USE RocBounds DEF RocInv
<1>0. /\ roc_elem' \in {roc_elem, 0} /\ roc_op'.pc \in {"forget", "remove"} /\ DOMAIN freed' = Roc
      /\ mgmt_roc' = mgmt_roc /\ on_chan' = on_chan /\ roc_cookie_cnt' = roc_cookie_cnt
      /\ txq' = txq /\ lost' = lost /\ given' = given /\ ready' = ready /\ expired' = expired
      /\ roc_rx' = roc_rx /\ roc_fifo' = roc_fifo /\ roc_fw' = roc_fw /\ rocs' = rocs /\ txs' = txs
  <2>1. CASE Rc!rwnx_close
    BY <2>1 DEF Rc!rwnx_close, RocTypeOK
  <2>2. CASE Rc!CloseForgets
    BY <2>2 DEF Rc!CloseForgets, RocTypeOK
  <2> QED BY <2>1, <2>2
<1>1. RocTypeOK'
  BY <1>0 DEF RocTypeOK, Roc, Frame
<1>2. MadeInv'
  BY <1>0 DEF MadeInv, Roc
<1>3. ToldInv' /\ OwnAreSilent' /\ ReadyFirst'
  BY <1>0 DEF ToldInv, OwnAreSilent, ReadyFirst, Roc
<1>4. ~ (roc_allow \subseteq {"refuse"})
  <2>1. CASE Rc!rwnx_close
    BY <2>1 DEF Rc!rwnx_close
  <2>2. CASE Rc!CloseForgets
    BY <2>2 DEF Rc!CloseForgets, BeginInv
  <2> QED BY <2>1, <2>2
<1> QED BY <1>0, <1>1, <1>2, <1>3, <1>4

\* What the receive thread leaves keeps the end of a request in its place.
LEMMA RocOnce ==
  ASSUME roc_fifo \in Seq(RocMsg), roc_fifo # <<>>, roc_fifo' = Tail(roc_fifo), OnceInv
  PROVE  /\ OnceInv'
         /\ (\A i \in Inbox : ~ Expiry(i)) => \A i \in Inbox' : ~ Expiry(i)'
<1>1. /\ Len(roc_fifo) \in Nat \ {0} /\ Len(roc_fifo') = Len(roc_fifo) - 1
      /\ \A i \in Inbox' : i + 1 \in Inbox /\ roc_fifo'[i] = roc_fifo[i + 1]
  BY RocTaken
<1>2. \A i \in Inbox' : i \in Nat
  BY <1>1
<1>3. OnceInv'
  BY <1>1, <1>2 DEF OnceInv
<1>4. (\A i \in Inbox : ~ Expiry(i)) => \A i \in Inbox' : ~ Expiry(i)'
  BY <1>1
<1> QED BY <1>3, <1>4

\* A confirmation ends the wait of the call in progress.
LEMMA Roc_Confirmed ==
  ASSUME RocInv, UNCHANGED roc_allow, Rc!Confirmed
  PROVE  RocInv'
<1> USE RocBounds DEF RocInv
<1>0. /\ roc_rx = 0 /\ roc_fifo # <<>> /\ Head(roc_fifo).id = "cfm" /\ roc_fifo' = Tail(roc_fifo)
      /\ roc_op.pc = "sent" => /\ roc_op'.pc = "confirmed" /\ roc_op'.ok = Head(roc_fifo).ok
                               /\ roc_op'.roc = roc_op.roc /\ roc_op'.mgmt = roc_op.mgmt
      /\ roc_op.pc # "sent" => roc_op'.pc = "none"
      /\ roc_elem' = roc_elem /\ mgmt_roc' = mgmt_roc /\ on_chan' = on_chan /\ freed' = freed
      /\ roc_cookie_cnt' = roc_cookie_cnt /\ txq' = txq /\ lost' = lost
      /\ given' = given /\ ready' = ready /\ expired' = expired
      /\ roc_rx' = roc_rx /\ roc_fw' = roc_fw /\ rocs' = rocs /\ txs' = txs
  BY DEF Rc!Confirmed, Rc!Received
<1>1. /\ roc_fifo' \in Seq(RocMsg) /\ Len(roc_fifo) \in Nat \ {0}
      /\ Len(roc_fifo') = Len(roc_fifo) - 1 /\ Head(roc_fifo) = roc_fifo[1]
      /\ \A i \in Inbox' : i + 1 \in Inbox /\ roc_fifo'[i] = roc_fifo[i + 1]
  BY <1>0, RocTaken
<1>2. RocTypeOK'
  BY <1>0 DEF RocTypeOK, Roc, Frame
<1>3. MadeInv'
  BY <1>0 DEF MadeInv, Roc
<1>4. ToldInv' /\ OwnAreSilent' /\ ReadyFirst'
  BY <1>0 DEF ToldInv, OwnAreSilent, ReadyFirst, Roc
<1>5. ASSUME roc_allow \subseteq {"refuse"}
      PROVE  EndInv' /\ BeginInv' /\ CookieInv' /\ QueueInv'
  <2>0. EndInv /\ BeginInv /\ CookieInv /\ QueueInv
    BY <1>5
  <2>1. 1 \in Inbox /\ Answer(1) /\ \A i \in Inbox' : ~ Answer(i)'
    BY <1>0, <1>1, <2>0 DEF BeginInv, OneInv
  <2>2. QueueInv'
    BY <1>0, <2>0 DEF QueueInv
  <2>3. EndInv'
    <3>1. roc_elem = 0 => /\ roc_fw = 0 /\ \A i \in Inbox' : Answer(i)'
                          /\ roc_op.pc \notin {"sent", "confirmed", "queue"}
      BY <1>1, <2>0 DEF EndInv, OnceInv
    <3>2. OnceInv'
      BY <1>0, <2>0, RocOnce DEF EndInv
    <3>3. \A i \in Inbox' : Expiry(i)' => roc_fw = 0
      <4>1. roc_fw = 0 \/ \A i \in Inbox' : ~ Expiry(i)'
        BY <1>0, <2>0, RocOnce DEF EndInv
      <4> QED BY <4>1
    <3> QED BY <1>0, <3>1, <3>2, <3>3 DEF EndInv
  <2>4. BeginInv'
    <3>1. roc_op.pc \in {"sent", "cancel"}
      BY <2>0, <2>1 DEF BeginInv, OneInv
    <3>2. roc_op.pc = "sent" /\ ~ roc_fifo[1].ok => roc_fw = 0 /\ \A i \in Inbox : Answer(i)
      BY <2>0 DEF BeginInv, OneInv
    <3>3. roc_op.pc = "sent" /\ ~ roc_fifo[1].ok => roc_fifo' = <<>>
      <4>1. roc_op.pc = "sent" /\ ~ roc_fifo[1].ok => \A i \in Inbox' : FALSE
        BY <1>1, <2>1, <3>2
      <4>2. (\A i \in Inbox' : FALSE) => roc_fifo' = <<>>
        BY <1>1, EmptySeq
      <4> QED BY <4>1, <4>2
    <3> QED BY <1>0, <1>1, <2>0, <2>1, <3>1, <3>2, <3>3 DEF BeginInv, OneInv
  <2>5. CookieInv'
    BY <1>0, <2>0 DEF CookieInv, EventsMatch, Roc
  <2> QED BY <2>2, <2>3, <2>4, <2>5
<1> QED BY <1>0, <1>1, <1>2, <1>3, <1>4, <1>5

\* It keeps the answer unique.
LEMMA RocOne ==
  ASSUME roc_fifo \in Seq(RocMsg), roc_fifo # <<>>, roc_fifo' = Tail(roc_fifo), OneInv
  PROVE  /\ OneInv'
         /\ (\A i \in Inbox : ~ Answer(i)) => \A i \in Inbox' : ~ Answer(i)'
<1>1. /\ Len(roc_fifo) \in Nat \ {0} /\ Len(roc_fifo') = Len(roc_fifo) - 1
      /\ \A i \in Inbox' : i + 1 \in Inbox /\ roc_fifo'[i] = roc_fifo[i + 1]
  BY RocTaken
<1>2. \A i \in Inbox' : i \in Nat
  BY <1>1
<1>3. OneInv'
  BY <1>1, <1>2 DEF OneInv
<1>4. (\A i \in Inbox : ~ Answer(i)) => \A i \in Inbox' : ~ Answer(i)'
  BY <1>1
<1> QED BY <1>3, <1>4

\* The channel of the request is switched to: the stack is told of its cookie.
LEMMA Roc_rwnx_rx_chan_switch_ind ==
  ASSUME RocInv, UNCHANGED roc_allow, Rc!rwnx_rx_chan_switch_ind
  PROVE  RocInv'
<1> USE RocBounds DEF RocInv
<1>0. /\ roc_rx = 0 /\ roc_fifo # <<>> /\ Head(roc_fifo).id = "switch" /\ roc_fifo' = Tail(roc_fifo)
      /\ roc_op.pc \in {"none", "sent", "cancel", "remove"} \/ "preempt" \in roc_allow
      /\ on_chan' = (IF roc_elem = 0 THEN on_chan ELSE on_chan \union {roc_elem})
      /\ ready' = (IF roc_elem = 0 \/ roc_elem \in mgmt_roc THEN ready
                   ELSE [ready EXCEPT ![roc_elem] = roc_cookie_cnt])
      /\ txq' = IF txq.active THEN [txq EXCEPT !.stopped = FALSE, !.frames = {}] ELSE txq
  BY DEF Rc!rwnx_rx_chan_switch_ind, Rc!Received, Rc!MayInterrupt, Rc!rwnx_txq_offchan_start
<1>a. /\ roc_elem' = roc_elem /\ mgmt_roc' = mgmt_roc /\ freed' = freed
      /\ roc_cookie_cnt' = roc_cookie_cnt /\ lost' = lost /\ given' = given /\ expired' = expired
      /\ roc_op' = roc_op /\ roc_rx' = roc_rx /\ roc_fw' = roc_fw /\ rocs' = rocs /\ txs' = txs
  BY DEF Rc!rwnx_rx_chan_switch_ind
<1>1. /\ roc_fifo' \in Seq(RocMsg) /\ Len(roc_fifo) \in Nat \ {0}
      /\ Len(roc_fifo') = Len(roc_fifo) - 1 /\ Head(roc_fifo) = roc_fifo[1]
      /\ \A i \in Inbox' : i + 1 \in Inbox /\ roc_fifo'[i] = roc_fifo[i + 1]
  BY <1>0, RocTaken
<1>2. /\ ready \in [Roc -> 0..MaxCookie] /\ ready' \in [Roc -> 0..MaxCookie]
      /\ \A r \in Roc : r # roc_elem => ready'[r] = ready[r]
      /\ roc_elem # 0 => /\ roc_elem \in Roc
                         /\ ready'[roc_elem] = IF roc_elem \in mgmt_roc THEN ready[roc_elem]
                                               ELSE roc_cookie_cnt
      /\ roc_cookie_cnt # 0
  <2>1. ready \in [Roc -> 0..MaxCookie] /\ roc_cookie_cnt \in 0..MaxCookie /\ roc_cookie_cnt # 0
    BY DEF RocTypeOK
  <2>2. roc_elem # 0 => roc_elem \in Roc
    BY DEF RocTypeOK
  <2> QED BY <1>0, <2>1, <2>2
<1>3. RocTypeOK'
  <2>1. txq' \in [active : BOOLEAN, stopped : BOOLEAN, frames : SUBSET Frame]
    BY <1>0 DEF RocTypeOK
  <2>2. on_chan' \subseteq Roc
    BY <1>0, <1>2 DEF RocTypeOK
  <2> QED BY <1>a, <1>2, <2>1, <2>2 DEF RocTypeOK, Roc, Frame
<1>4. MadeInv'
  <2>1. \A r \in Roc : r > rocs => /\ r \notin mgmt_roc' /\ r \notin on_chan'
                                   /\ ready'[r] = 0 /\ expired'[r] = 0
    BY <1>0, <1>a, <1>2 DEF MadeInv
  <2> QED BY <1>a, <2>1 DEF MadeInv, Roc
<1>5. ToldInv' /\ OwnAreSilent' /\ ReadyFirst'
  <2>1. \A r \in Roc : /\ ready'[r] # 0 <=> r \in on_chan' \ mgmt_roc
                       /\ r \in mgmt_roc => ready'[r] = 0
                       /\ expired[r] # 0 => ready'[r] # 0
    <3>1. SUFFICES ASSUME NEW r \in Roc
                   PROVE  /\ ready'[r] # 0 <=> r \in on_chan' \ mgmt_roc
                          /\ r \in mgmt_roc => ready'[r] = 0
                          /\ expired[r] # 0 => ready'[r] # 0
      OBVIOUS
    <3>2. CASE r = roc_elem
      BY <1>0, <1>2, <3>2 DEF ToldInv, OwnAreSilent, ReadyFirst
    <3>3. CASE r # roc_elem
      BY <1>0, <1>2, <3>3 DEF ToldInv, OwnAreSilent, ReadyFirst
    <3> QED BY <3>2, <3>3
  <2>2. on_chan' \subseteq Roc /\ mgmt_roc \subseteq Roc
    BY <1>0, <1>2 DEF RocTypeOK
  <2>3. ToldInv'
    BY <1>0, <1>a, <2>1 DEF ToldInv, Roc
  <2> QED BY <1>a, <2>1, <2>2, <2>3 DEF OwnAreSilent, ReadyFirst, Roc
<1>6. ASSUME roc_allow \subseteq {"refuse"}
      PROVE  EndInv' /\ BeginInv' /\ CookieInv' /\ QueueInv'
  <2>0. EndInv /\ BeginInv /\ CookieInv /\ QueueInv
    BY <1>6
  <2>1. 1 \in Inbox /\ ~ Answer(1)
    BY <1>0, <1>1
  <2>2. roc_elem # 0 /\ roc_op.pc \in {"none", "cancel"}
    <3>1. roc_elem # 0 /\ roc_op.pc # "sent"
      BY <2>0, <2>1 DEF EndInv, BeginInv
    <3>2. roc_op.pc \in {"none", "sent", "cancel", "remove"}
      BY <1>0, <1>6
    <3>3. roc_op.pc # "remove"
      BY <2>0 DEF BeginInv
    <3> QED BY <3>1, <3>2, <3>3
  <2>3. QueueInv'
    BY <1>0, <1>a, <2>0, <2>2 DEF QueueInv, RocTypeOK
  <2>4. EndInv'
    <3>1. OnceInv'
      BY <1>0, <2>0, RocOnce DEF EndInv
    <3>2. \A i \in Inbox' : Expiry(i)' => roc_fw = 0
      <4>1. roc_fw = 0 \/ \A i \in Inbox' : ~ Expiry(i)'
        BY <1>0, <2>0, RocOnce DEF EndInv
      <4> QED BY <4>1
    <3> QED BY <1>0, <1>a, <2>2, <3>1, <3>2 DEF EndInv
  <2>5. BeginInv'
    <3>1. \A i \in Inbox' : Answer(i)' => roc_op.pc = "cancel"
      <4>1. roc_op.pc = "cancel" \/ \A i \in Inbox' : ~ Answer(i)'
        BY <1>0, <2>0, <2>2, RocOne DEF BeginInv
      <4> QED BY <4>1
    <3>2. OneInv'
      BY <1>0, <2>0, RocOne DEF BeginInv
    <3> QED BY <1>a, <2>2, <3>1, <3>2 DEF BeginInv
  <2>6. CookieInv'
    <3>1. EventsMatch'
      BY <1>a, <1>0, <1>2, <2>0, <2>2 DEF CookieInv, EventsMatch, Roc
    <3> QED BY <1>a, <2>0, <3>1 DEF CookieInv, Roc
  <2> QED BY <2>3, <2>4, <2>5, <2>6
<1> QED BY <1>0, <1>1, <1>3, <1>4, <1>5, <1>6

\* The request ends: the stack is told of its cookie, and the next has another.
LEMMA Roc_rwnx_rx_remain_on_channel_exp_ind ==
  ASSUME RocInv, UNCHANGED roc_allow, Rc!rwnx_rx_remain_on_channel_exp_ind
  PROVE  RocInv'
<1> USE RocBounds DEF RocInv
<1>0. /\ roc_rx = 0 /\ roc_fifo # <<>> /\ Head(roc_fifo).id = "exp" /\ roc_fifo' = Tail(roc_fifo)
      /\ roc_op.pc \in {"none", "sent", "cancel", "remove"} \/ "preempt" \in roc_allow
      /\ expired' = (IF roc_elem # 0 /\ roc_elem \notin mgmt_roc /\ roc_elem \in on_chan
                     THEN [expired EXCEPT ![roc_elem] = roc_cookie_cnt] ELSE expired)
      /\ roc_rx' = roc_elem
      /\ roc_cookie_cnt' = (IF roc_elem = 0 THEN roc_cookie_cnt ELSE Rc!NextCookie)
      /\ txq' = (IF roc_elem # 0 /\ txq.active
                 THEN [txq EXCEPT !.active = FALSE, !.frames = {}] ELSE txq)
  BY DEF Rc!rwnx_rx_remain_on_channel_exp_ind, Rc!Received, Rc!MayInterrupt,
         Rc!rwnx_txq_offchan_deinit
<1>a. /\ roc_elem' = roc_elem /\ mgmt_roc' = mgmt_roc /\ on_chan' = on_chan /\ freed' = freed
      /\ lost' = lost /\ given' = given /\ ready' = ready
      /\ roc_op' = roc_op /\ roc_fw' = roc_fw /\ rocs' = rocs /\ txs' = txs
  BY DEF Rc!rwnx_rx_remain_on_channel_exp_ind
<1>1. /\ roc_fifo' \in Seq(RocMsg) /\ Len(roc_fifo) \in Nat \ {0}
      /\ Len(roc_fifo') = Len(roc_fifo) - 1 /\ Head(roc_fifo) = roc_fifo[1]
      /\ \A i \in Inbox' : i + 1 \in Inbox /\ roc_fifo'[i] = roc_fifo[i + 1]
  BY <1>0, RocTaken
<1>2. /\ expired \in [Roc -> 0..MaxCookie] /\ expired' \in [Roc -> 0..MaxCookie]
      /\ \A r \in Roc : r # roc_elem \/ r \notin on_chan \/ r \in mgmt_roc
                          => expired'[r] = expired[r]
      /\ \A r \in Roc : expired'[r] \in {expired[r], roc_cookie_cnt}
      /\ roc_elem # 0 => roc_elem \in Roc
  <2>1. expired \in [Roc -> 0..MaxCookie] /\ roc_cookie_cnt \in 0..MaxCookie /\ roc_cookie_cnt # 0
    BY DEF RocTypeOK
  <2>2. roc_elem # 0 => roc_elem \in Roc
    BY DEF RocTypeOK
  <2> QED BY <1>0, <2>1, <2>2
<1>3. RocTypeOK'
  <2>1. txq' \in [active : BOOLEAN, stopped : BOOLEAN, frames : SUBSET Frame]
    BY <1>0 DEF RocTypeOK
  <2>2. roc_cookie_cnt' \in 1..MaxCookie
    BY <1>0 DEF RocTypeOK
  <2> QED BY <1>0, <1>a, <1>2, <2>1, <2>2 DEF RocTypeOK, Roc, Frame
<1>4. MadeInv'
  <2>1. \A r \in Roc : r > rocs => expired'[r] = 0
    BY <1>2 DEF MadeInv
  <2> QED BY <1>a, <2>1 DEF MadeInv, Roc
<1>5. ToldInv' /\ OwnAreSilent' /\ ReadyFirst'
  <2>1. ToldInv'
    <3>1. ASSUME roc_elem # 0, ready[roc_elem] # 0 PROVE expired'[roc_elem] # 0
      <4>1. roc_elem \in Roc /\ roc_elem \in on_chan \ mgmt_roc
        BY <1>2, <3>1 DEF ToldInv
      <4>2. expired \in [Roc -> 0..MaxCookie] /\ roc_cookie_cnt # 0
        BY DEF RocTypeOK
      <4> QED BY <1>0, <3>1, <4>1, <4>2
    <3> QED BY <1>0, <1>a, <3>1 DEF ToldInv, Roc
  <2>2. OwnAreSilent'
    BY <1>a, <1>2 DEF OwnAreSilent, RocTypeOK
  <2>3. ReadyFirst'
    BY <1>a, <1>2 DEF ReadyFirst, ToldInv, Roc
  <2> QED BY <2>1, <2>2, <2>3
<1>6. ASSUME roc_allow \subseteq {"refuse"}
      PROVE  EndInv' /\ BeginInv' /\ CookieInv' /\ QueueInv'
  <2>0. EndInv /\ BeginInv /\ CookieInv /\ QueueInv
    BY <1>6
  <2>1. 1 \in Inbox /\ Expiry(1)
    BY <1>0, <1>1
  <2>2. roc_elem # 0 /\ roc_op.pc \in {"none", "cancel"} /\ roc_fw = 0
    <3>1. roc_elem # 0 /\ roc_op.pc # "sent" /\ roc_fw = 0
      BY <2>0, <2>1 DEF EndInv, BeginInv
    <3>2. roc_op.pc \in {"none", "sent", "cancel", "remove"}
      BY <1>0, <1>6
    <3>3. roc_op.pc # "remove"
      BY <2>0 DEF BeginInv
    <3> QED BY <3>1, <3>2, <3>3
  <2>3. QueueInv'
    BY <1>0, <1>a, <2>0, <2>2 DEF QueueInv, RocTypeOK
  <2>4. \A i \in Inbox' : Answer(i)'
    <3>1. \A i \in Inbox : i # 1 => ~ Expiry(i) /\ ~ Switch(i)
      BY <2>0, <2>1 DEF EndInv, OnceInv
    <3>2. \A i \in Inbox : roc_fifo[i].id \in {"cfm", "switch", "exp"}
      BY RocSent
    <3> QED BY <1>1, <3>1, <3>2
  <2>5. EndInv'
    BY <1>0, <1>a, <2>2, <2>4 DEF EndInv, OnceInv
  <2>6. BeginInv'
    <3>1. \A i \in Inbox' : Answer(i)' => roc_op.pc = "cancel"
      <4>1. roc_op.pc = "cancel" \/ \A i \in Inbox' : ~ Answer(i)'
        BY <1>0, <2>0, <2>2, RocOne DEF BeginInv
      <4> QED BY <4>1
    <3>2. OneInv'
      BY <1>0, <2>0, RocOne DEF BeginInv
    <3> QED BY <1>a, <2>2, <3>1, <3>2 DEF BeginInv
  <2>7. CookieInv'
    <3>1. EventsMatch'
      <4>1. \A r \in Roc : given[r] # 0 => expired'[r] \in {0, given[r]}
        <5>1. \A r \in Roc : r # roc_elem /\ given[r] # 0 => expired'[r] \in {0, given[r]}
          BY <1>2, <2>0 DEF CookieInv, EventsMatch
        <5>2. given[roc_elem] # 0 => expired'[roc_elem] \in {0, given[roc_elem]}
          BY <1>0, <1>2, <2>0, <2>2 DEF CookieInv, EventsMatch
        <5> QED BY <5>1, <5>2
      <4> QED BY <1>a, <2>0, <4>1 DEF CookieInv, EventsMatch, Roc
    <3> QED BY <1>0, <1>a, <2>0, <2>2, <3>1 DEF CookieInv, Roc
  <2> QED BY <2>3, <2>5, <2>6, <2>7
<1> QED BY <1>0, <1>1, <1>3, <1>4, <1>5, <1>6

\* The handler frees the element.
LEMMA Roc_ExpIndFrees ==
  ASSUME RocInv, UNCHANGED roc_allow, Rc!ExpIndFrees
  PROVE  RocInv'
<1> USE RocBounds DEF RocInv
<1>0. /\ roc_rx # 0 /\ roc_rx' = 0 /\ freed' = [freed EXCEPT ![roc_rx] = @ + 1] /\ roc_elem' = 0
      /\ mgmt_roc' = mgmt_roc /\ on_chan' = on_chan /\ roc_cookie_cnt' = roc_cookie_cnt
      /\ txq' = txq /\ lost' = lost /\ given' = given /\ ready' = ready /\ expired' = expired
      /\ roc_op' = roc_op /\ roc_fifo' = roc_fifo /\ roc_fw' = roc_fw /\ rocs' = rocs /\ txs' = txs
  BY DEF Rc!ExpIndFrees
<1>1. RocTypeOK'
  <2>0. DOMAIN freed = Roc
    BY DEF RocTypeOK
  <2>1. DOMAIN freed' = Roc
    BY <1>0, <2>0
  <2> QED BY <1>0, <2>1 DEF RocTypeOK, Roc, Frame
<1>2. MadeInv'
  BY <1>0 DEF MadeInv, Roc
<1>3. ToldInv' /\ OwnAreSilent' /\ ReadyFirst'
  BY <1>0 DEF ToldInv, OwnAreSilent, ReadyFirst, Roc
<1>4. ASSUME roc_allow \subseteq {"refuse"}
      PROVE  EndInv' /\ BeginInv' /\ CookieInv' /\ QueueInv'
  <2>0. EndInv /\ BeginInv /\ CookieInv /\ QueueInv
    BY <1>4
  <2>1. QueueInv'
    BY <1>0, <2>0 DEF QueueInv
  <2>2. EndInv'
    BY <1>0, <2>0 DEF EndInv, OnceInv
  <2>3. BeginInv'
    BY <1>0, <2>0 DEF BeginInv, OneInv, EndInv
  <2>4. CookieInv'
    BY <1>0, <2>0 DEF CookieInv, EventsMatch, Roc
  <2> QED BY <2>1, <2>2, <2>3, <2>4
<1> QED BY <1>0, <1>1, <1>2, <1>3, <1>4

\* The firmware accepts a request and serves it, or refuses it.
LEMMA Roc_FwStarts ==
  ASSUME RocInv, UNCHANGED roc_allow, Rc!FwStarts
  PROVE  RocInv'
<1> USE RocBounds DEF RocInv
<1>0. PICK b \in BOOLEAN :
         /\ roc_op.pc = "sent" /\ Rc!Unanswered /\ roc_fifo' = roc_fifo \o <<[id |-> "cfm", ok |-> b]>>
         /\ b => roc_fw = 0 /\ roc_fw' = roc_op.roc
         /\ ~ b => roc_fw' = roc_fw
  BY DEF Rc!FwStarts, Rc!Send
<1>a. /\ roc_elem' = roc_elem /\ mgmt_roc' = mgmt_roc /\ on_chan' = on_chan /\ freed' = freed
      /\ roc_cookie_cnt' = roc_cookie_cnt /\ txq' = txq /\ lost' = lost
      /\ given' = given /\ ready' = ready /\ expired' = expired
      /\ roc_op' = roc_op /\ roc_rx' = roc_rx /\ rocs' = rocs /\ txs' = txs
  BY DEF Rc!FwStarts, Rc!FwOnly
<1> DEFINE m == [id |-> "cfm", ok |-> b]
<1>1. m \in RocMsg /\ m.id = "cfm" /\ m.ok = b
  BY RocSent
<1>2. /\ roc_fifo' \in Seq(RocMsg) /\ Len(roc_fifo) \in Nat /\ Len(roc_fifo') = Len(roc_fifo) + 1
      /\ \A i \in Inbox : roc_fifo'[i] = roc_fifo[i]
      /\ roc_fifo'[Len(roc_fifo')] = m
  BY <1>0, <1>1, RocSaid
<1> HIDE DEF m
<1>3. RocTypeOK'
  <2>0. roc_op.roc \in Roc /\ roc_fw \in 0..2 * MaxRocs
    BY <1>0 DEF RocTypeOK, MadeInv
  <2>1. roc_fw' \in 0..2 * MaxRocs
    BY <1>0, <2>0
  <2> QED BY <1>a, <2>1 DEF RocTypeOK, Roc, Frame
<1>4. MadeInv' /\ ToldInv' /\ OwnAreSilent' /\ ReadyFirst'
  BY <1>a DEF MadeInv, ToldInv, OwnAreSilent, ReadyFirst, Roc
<1>5. ASSUME roc_allow \subseteq {"refuse"}
      PROVE  EndInv' /\ BeginInv' /\ CookieInv' /\ QueueInv'
  <2>0. EndInv /\ BeginInv /\ CookieInv /\ QueueInv
    BY <1>5
  <2>1. \A i \in Inbox : FALSE
    <3>1. \A i \in Inbox : ~ Answer(i)
      BY <1>0, UnansweredMeans
    <3>2. (\E i \in Inbox : ~ Answer(i)) => 1 \in Inbox /\ Answer(1)
      BY <1>0, <2>0 DEF BeginInv
    <3> QED BY <3>1, <3>2
  <2>2. Len(roc_fifo') = 1 /\ roc_fifo'[1] = m /\ \A i \in Inbox' : i = 1 /\ Answer(i)'
    BY <1>1, <1>2, <2>1
  <2>3. roc_fw = 0 /\ roc_elem # 0 /\ roc_rx = 0
    BY <1>0, <2>0, <2>1 DEF BeginInv, OneInv, EndInv
  <2>4. QueueInv'
    BY <1>a, <2>0 DEF QueueInv
  <2>5. EndInv'
    BY <1>0, <1>a, <2>2, <2>3 DEF EndInv, OnceInv
  <2>6. BeginInv'
    BY <1>0, <1>1, <1>a, <2>0, <2>2, <2>3 DEF BeginInv, OneInv
  <2>7. CookieInv'
    BY <1>a, <2>0 DEF CookieInv, EventsMatch, Roc
  <2> QED BY <2>4, <2>5, <2>6, <2>7
<1> QED BY <1>0, <1>2, <1>3, <1>4, <1>5

\* The firmware switches to the channel of the request, or ends it.
LEMMA Roc_Serves ==
  ASSUME RocInv, UNCHANGED roc_allow, Rc!FwSwitches \/ Rc!FwExpires
  PROVE  RocInv'
<1> USE RocBounds DEF RocInv
<1>0. PICK m \in {[id |-> "switch"], [id |-> "exp"]} :
         /\ roc_fw # 0 /\ roc_fifo' = roc_fifo \o <<m>> /\ roc_fw' \in 0..2 * MaxRocs
         /\ m.id = "exp" => roc_fw' = 0
         /\ m.id = "switch" => roc_fw' # 0
  <2>1. CASE Rc!FwSwitches
    <3>1. roc_fw \in Roc /\ roc_fw' = roc_fw + MaxRocs /\ roc_fifo' = roc_fifo \o <<[id |-> "switch"]>>
      BY <2>1 DEF Rc!FwSwitches, Rc!Send, Roc
    <3>2. roc_fw # 0 /\ roc_fw' \in 0..2 * MaxRocs /\ roc_fw' # 0
      BY <3>1 DEF Roc
    <3> QED BY <3>1, <3>2, RocSent
  <2>2. CASE Rc!FwExpires
    <3>1. roc_fw > MaxRocs /\ roc_fw' = 0 /\ roc_fifo' = roc_fifo \o <<[id |-> "exp"]>>
      BY <2>2 DEF Rc!FwExpires, Rc!Send
    <3>2. roc_fw # 0 /\ roc_fw' \in 0..2 * MaxRocs
      BY <3>1
    <3> QED BY <3>1, <3>2, RocSent
  <2> QED BY <2>1, <2>2
<1>a. /\ roc_elem' = roc_elem /\ mgmt_roc' = mgmt_roc /\ on_chan' = on_chan /\ freed' = freed
      /\ roc_cookie_cnt' = roc_cookie_cnt /\ txq' = txq /\ lost' = lost
      /\ given' = given /\ ready' = ready /\ expired' = expired
      /\ roc_op' = roc_op /\ roc_rx' = roc_rx /\ rocs' = rocs /\ txs' = txs
  BY DEF Rc!FwSwitches, Rc!FwExpires, Rc!FwOnly
<1>1. m \in RocMsg /\ m.id \in {"switch", "exp"}
  BY RocSent
<1>2. /\ roc_fifo' \in Seq(RocMsg) /\ Len(roc_fifo) \in Nat /\ Len(roc_fifo') = Len(roc_fifo) + 1
      /\ \A i \in Inbox : roc_fifo'[i] = roc_fifo[i]
      /\ roc_fifo'[Len(roc_fifo')] = m
  BY <1>0, <1>1, RocSaid
<1>3. RocTypeOK'
  BY <1>0, <1>a DEF RocTypeOK, Roc, Frame
<1>4. MadeInv' /\ ToldInv' /\ OwnAreSilent' /\ ReadyFirst'
  BY <1>a DEF MadeInv, ToldInv, OwnAreSilent, ReadyFirst, Roc
<1>5. ASSUME roc_allow \subseteq {"refuse"}
      PROVE  EndInv' /\ BeginInv' /\ CookieInv' /\ QueueInv'
  <2>0. EndInv /\ BeginInv /\ CookieInv /\ QueueInv
    BY <1>5
  <2>1. /\ \A i \in Inbox' : i \in Inbox \/ i = Len(roc_fifo')
        /\ \A i \in Inbox : i \in Inbox' /\ i < Len(roc_fifo')
        /\ Len(roc_fifo') \in Inbox'
    BY <1>2
  <2>2. roc_elem # 0 /\ roc_rx = 0 /\ \A i \in Inbox : ~ Expiry(i)
    BY <1>0, <2>0 DEF EndInv
  <2>3. QueueInv'
    BY <1>a, <2>0 DEF QueueInv
  <2>4. \A i \in Inbox' : Expiry(i)' => i = Len(roc_fifo') /\ roc_fw' = 0
    BY <1>0, <1>1, <1>2, <2>1, <2>2
  <2>5. OnceInv'
    BY <1>1, <1>2, <2>1, <2>4 DEF OnceInv
  <2>6. EndInv'
    BY <1>a, <2>2, <2>4, <2>5 DEF EndInv
  <2>7. \A i \in Inbox' : Answer(i)' => i \in Inbox /\ Answer(i)
    BY <1>1, <1>2, <2>1
  <2>8. BeginInv'
    <3>1. OneInv' /\ \A i \in Inbox' : Answer(i)' => roc_op.pc \in {"sent", "cancel"}
      BY <2>0, <2>7 DEF BeginInv, OneInv
    <3>2. roc_op.pc = "sent" =>
            /\ \A i \in Inbox' : Answer(i)' => i = 1
            /\ 1 \in Inbox' /\ roc_fifo'[1].id = "cfm" /\ roc_fifo'[1].ok
      <4>1. ASSUME roc_op.pc = "sent"
            PROVE  /\ 1 \in Inbox /\ Answer(1) /\ roc_fifo[1].ok
                   /\ \A i \in Inbox : Answer(i) => i = 1
        BY <1>0, <2>0, <4>1 DEF BeginInv
      <4>2. roc_op.pc = "sent" => /\ 1 \in Inbox' /\ roc_fifo'[1] = roc_fifo[1]
                                  /\ roc_fifo[1].id = "cfm" /\ roc_fifo[1].ok
        BY <1>2, <2>1, <4>1
      <4> QED BY <2>7, <4>1, <4>2
    <3>3. ~ (roc_op.pc = "confirmed" /\ ~ roc_op.ok)
      BY <1>0, <2>0 DEF BeginInv
    <3> QED BY <1>a, <2>0, <3>1, <3>2, <3>3 DEF BeginInv
  <2>9. CookieInv'
    BY <1>a, <2>0 DEF CookieInv, EventsMatch, Roc
  <2> QED BY <2>3, <2>6, <2>8, <2>9
<1> QED BY <1>0, <1>2, <1>3, <1>4, <1>5

\* The places of two messages more.
LEMMA TwoMore ==
  ASSUME NEW k \in Nat
  PROVE  \A i \in 1..(k + 2) : i \in Nat /\ (i \in 1..k \/ i = k + 2 \/ i = k + 1)
OBVIOUS

\* The firmware answers a cancellation, and ends the request if it serves one:
\* before its answer or after it.
LEMMA Roc_FwCancels ==
  ASSUME RocInv, UNCHANGED roc_allow, Rc!FwCancels
  PROVE  RocInv'
<1> USE RocBounds DEF RocInv
<1> DEFINE c == [id |-> "cfm", ok |-> TRUE]
           e == [id |-> "exp"]
           k == Len(roc_fifo)
<1>0. /\ roc_op.pc = "cancel" /\ Rc!Unanswered /\ roc_fw' = 0
      /\ roc_fw = 0 => roc_fifo' = roc_fifo \o <<c>>
      /\ roc_fw # 0 => roc_fifo' \in {roc_fifo \o <<c, e>>, roc_fifo \o <<e, c>>}
  BY DEF Rc!FwCancels, Rc!Send
<1>a. /\ roc_elem' = roc_elem /\ mgmt_roc' = mgmt_roc /\ on_chan' = on_chan /\ freed' = freed
      /\ roc_cookie_cnt' = roc_cookie_cnt /\ txq' = txq /\ lost' = lost
      /\ given' = given /\ ready' = ready /\ expired' = expired
      /\ roc_op' = roc_op /\ roc_rx' = roc_rx /\ rocs' = rocs /\ txs' = txs
  BY DEF Rc!FwCancels, Rc!FwOnly
<1>1. c \in RocMsg /\ c.id = "cfm" /\ e \in RocMsg /\ e.id = "exp"
  BY RocSent
<1> HIDE DEF c, e
<1>2. PICK a \in {k + 1, k + 2}, x \in {k + 1, k + 2} :
        /\ roc_fifo' \in Seq(RocMsg) /\ k \in Nat
        /\ \A i \in Inbox : i \in Inbox' /\ i < a /\ i < x /\ roc_fifo'[i] = roc_fifo[i]
        /\ \A i \in Inbox' : i \in Nat /\ (i \in Inbox \/ i = a \/ (i = x /\ roc_fw # 0))
        /\ a \in Inbox' /\ roc_fifo'[a] = c
        /\ roc_fw # 0 => x \in Inbox' /\ roc_fifo'[x] = e
  <2>1. CASE roc_fw = 0
    <3>1. /\ roc_fifo' \in Seq(RocMsg) /\ k \in Nat /\ Len(roc_fifo') = k + 1
          /\ \A i \in Inbox : roc_fifo'[i] = roc_fifo[i]
          /\ roc_fifo'[k + 1] = c
      BY <1>0, <1>1, <2>1, RocSaid
    <3> QED BY <2>1, <3>1
  <2>2. CASE roc_fw # 0 /\ roc_fifo' = roc_fifo \o <<c, e>>
    <3>1. /\ roc_fifo' \in Seq(RocMsg) /\ k \in Nat /\ Len(roc_fifo') = k + 2
          /\ \A i \in Inbox : roc_fifo'[i] = roc_fifo[i]
          /\ roc_fifo'[k + 1] = c /\ roc_fifo'[k + 2] = e
      BY <1>1, <2>2, RocSaidTwo
    <3> QED BY <2>2, <3>1
  <2>3. CASE roc_fw # 0 /\ roc_fifo' = roc_fifo \o <<e, c>>
    <3>1. /\ roc_fifo' \in Seq(RocMsg) /\ k \in Nat /\ Len(roc_fifo') = k + 2
          /\ \A i \in Inbox : roc_fifo'[i] = roc_fifo[i]
          /\ roc_fifo'[k + 1] = e /\ roc_fifo'[k + 2] = c
      BY <1>1, <2>3, RocSaidTwo
    <3>2. \A i \in Inbox' : i \in Nat /\ (i \in Inbox \/ i = k + 2 \/ i = k + 1)
      <4>1. \A i \in 1..(k + 2) : i \in Nat /\ (i \in 1..k \/ i = k + 2 \/ i = k + 1)
        BY <3>1, TwoMore
      <4> QED BY <3>1, <4>1
    <3>3. \A i \in Inbox : i \in Inbox' /\ i < k + 2 /\ i < k + 1 /\ roc_fifo'[i] = roc_fifo[i]
      BY <3>1
    <3>4. k + 1 \in Inbox' /\ k + 2 \in Inbox'
      BY <3>1
    <3> QED BY <2>3, <3>1, <3>2, <3>3, <3>4
  <2> QED BY <1>0, <2>1, <2>2, <2>3
<1>3. RocTypeOK'
  <2>1. roc_fw' \in 0..2 * MaxRocs
    BY <1>0
  <2> QED BY <1>a, <2>1 DEF RocTypeOK, Roc, Frame
<1>4. MadeInv' /\ ToldInv' /\ OwnAreSilent' /\ ReadyFirst'
  BY <1>a DEF MadeInv, ToldInv, OwnAreSilent, ReadyFirst, Roc
<1>5. ASSUME roc_allow \subseteq {"refuse"}
      PROVE  EndInv' /\ BeginInv' /\ CookieInv' /\ QueueInv'
  <2>0. EndInv /\ BeginInv /\ CookieInv /\ QueueInv
    BY <1>5
  <2>1. \A i \in Inbox : ~ Answer(i)
    BY <1>0, UnansweredMeans
  <2>2. roc_fw # 0 => roc_elem # 0 /\ roc_rx = 0 /\ \A i \in Inbox : ~ Expiry(i)
    BY <2>0 DEF EndInv
  <2>3. QueueInv'
    BY <1>a, <2>0 DEF QueueInv
  <2>4. EndInv'
    <3>1. CASE roc_fw = 0
      <4>1. \A i \in Inbox' : ~ Answer(i)' => i \in Inbox /\ ~ Answer(i)
        BY <1>1, <1>2, <3>1
      <4>2. \A i \in Inbox' : Expiry(i)' => i \in Inbox /\ Expiry(i)
        BY <1>1, <1>2, <3>1
      <4>3. \A i \in Inbox' : Switch(i)' => i \in Inbox /\ Switch(i)
        BY <1>1, <1>2, <3>1
      <4>4. OnceInv'
        BY <2>0, <4>2, <4>3 DEF EndInv, OnceInv
      <4>5. \A i \in Inbox' : Expiry(i)' => roc_rx = 0
        BY <2>0, <4>2 DEF EndInv
      <4>6. roc_elem = 0 \/ roc_rx # 0 => \A i \in Inbox' : Answer(i)'
        BY <2>0, <4>1 DEF EndInv
      <4> QED BY <1>0, <1>a, <2>0, <3>1, <4>4, <4>5, <4>6 DEF EndInv
    <3>2. CASE roc_fw # 0
      <4>1. \A i \in Inbox' : Expiry(i)' => i = x
        BY <1>1, <1>2, <2>2, <3>2
      <4>2. \A i \in Inbox' : Switch(i)' => i < x
        BY <1>1, <1>2, <3>2
      <4>3. OnceInv'
        BY <4>1, <4>2 DEF OnceInv
      <4> QED BY <1>0, <1>a, <2>2, <3>2, <4>3 DEF EndInv
    <3> QED BY <3>1, <3>2
  <2>5. BeginInv'
    <3>1. \A i \in Inbox' : Answer(i)' => i = a
      BY <1>1, <1>2, <2>1
    <3> QED BY <1>0, <1>a, <2>0, <3>1 DEF BeginInv, OneInv
  <2>6. CookieInv'
    BY <1>a, <2>0 DEF CookieInv, EventsMatch, Roc
  <2> QED BY <2>3, <2>4, <2>5, <2>6
<1> QED BY <1>0, <1>2, <1>3, <1>4, <1>5

\* The firmware drops the interface.
LEMMA Roc_FwRemoves ==
  ASSUME RocInv, UNCHANGED roc_allow, Rc!FwRemoves
  PROVE  RocInv'
<1> USE RocBounds DEF RocInv
<1>0. /\ roc_op.pc = "remove" /\ roc_fw' = 0
      /\ \/ roc_fifo' = roc_fifo \o <<[id |-> "cfm", ok |-> TRUE]>>
         \/ roc_fifo' = roc_fifo \o <<[id |-> "exp"], [id |-> "cfm", ok |-> TRUE]>>
  BY DEF Rc!FwRemoves, Rc!Send
<1>a. /\ roc_elem' = roc_elem /\ mgmt_roc' = mgmt_roc /\ on_chan' = on_chan /\ freed' = freed
      /\ roc_cookie_cnt' = roc_cookie_cnt /\ txq' = txq /\ lost' = lost
      /\ given' = given /\ ready' = ready /\ expired' = expired
      /\ roc_op' = roc_op /\ roc_rx' = roc_rx /\ rocs' = rocs /\ txs' = txs
  BY DEF Rc!FwRemoves, Rc!FwOnly
<1>1. roc_fifo' \in Seq(RocMsg)
  BY <1>0, RocSent, RocSaid, RocSaidTwo
<1>2. RocTypeOK'
  <2>1. roc_fw' \in 0..2 * MaxRocs
    BY <1>0
  <2> QED BY <1>a, <2>1 DEF RocTypeOK, Roc, Frame
<1>3. MadeInv' /\ ToldInv' /\ OwnAreSilent' /\ ReadyFirst'
  BY <1>a DEF MadeInv, ToldInv, OwnAreSilent, ReadyFirst, Roc
<1>4. ~ (roc_allow \subseteq {"refuse"})
  BY <1>0 DEF BeginInv
<1> QED BY <1>1, <1>2, <1>3, <1>4

\* Every step keeps the invariant.
LEMMA RocStep ==
  ASSUME RocInv, [Rc!Next]_(Rc!vars)
  PROVE  RocInv'
<1>1. CASE UNCHANGED Rc!vars
  <2>0. /\ UNCHANGED <<roc_allow, roc_elem, mgmt_roc, on_chan, freed, roc_cookie_cnt, txq, lost>>
        /\ UNCHANGED <<given, ready, expired, roc_op, roc_rx, roc_fifo, roc_fw, rocs, txs>>
    BY <1>1 DEF Rc!vars
  <2>1. RocTypeOK => RocTypeOK'
    BY <2>0 DEF RocTypeOK, Roc, Frame
  <2>2. /\ MadeInv => MadeInv'
        /\ ToldInv /\ OwnAreSilent /\ ReadyFirst => (ToldInv /\ OwnAreSilent /\ ReadyFirst)'
    BY <2>0 DEF MadeInv, ToldInv, OwnAreSilent, ReadyFirst, Roc
  <2>3. EndInv => EndInv'
    BY <2>0 DEF EndInv, OnceInv
  <2>4. BeginInv => BeginInv'
    BY <2>0 DEF BeginInv, OneInv
  <2>5. CookieInv /\ QueueInv => CookieInv' /\ QueueInv'
    BY <2>0 DEF CookieInv, EventsMatch, QueueInv, Roc
  <2> QED BY <2>0, <2>1, <2>2, <2>3, <2>4, <2>5 DEF RocInv
<1>2. CASE Rc!Next
  BY <1>2, Roc_rwnx_cfg80211_remain_on_channel, Roc_rwnx_cfg80211_mgmt_tx,
     Roc_rwnx_cfg80211_cancel_remain_on_channel, Roc_Closes, Roc_RocReturns, Roc_MgmtTxLooks,
     Roc_rwnx_start_mgmt_xmit, Roc_XmitQueues, Roc_Confirmed, Roc_rwnx_rx_chan_switch_ind,
     Roc_rwnx_rx_remain_on_channel_exp_ind, Roc_ExpIndFrees, Roc_FwStarts, Roc_Serves,
     Roc_FwCancels, Roc_FwRemoves
    DEF Rc!Next, Rc!Stack, Rc!Calls, Rc!Receive, Rc!Answers, Rc!Serves
<1> QED BY <1>1, <1>2

\* Nothing was requested at first.
LEMMA RocInit ==
  ASSUME Rc!Init
  PROVE  RocInv
<1>1. /\ MaxTx[roc_allow] \in Nat /\ MaxRocs \in Nat /\ MaxCookie \in Nat \ {0}
      /\ roc_fifo \in Seq(RocMsg) /\ Len(roc_fifo) = 0
  BY RocAssumption DEF Rc!Init
<1>2. RocTypeOK
  <2>1. {given, ready, expired} \subseteq [Roc -> 0..MaxCookie] /\ DOMAIN freed = Roc
    BY <1>1 DEF Rc!Init, Roc
  <2>2. txq \in [active : BOOLEAN, stopped : BOOLEAN, frames : SUBSET Frame]
    BY DEF Rc!Init
  <2> QED BY <1>1, <2>1, <2>2 DEF Rc!Init, RocTypeOK
<1>3. MadeInv /\ ToldInv /\ OwnAreSilent /\ ReadyFirst
  BY <1>1 DEF Rc!Init, MadeInv, ToldInv, OwnAreSilent, ReadyFirst, Roc
<1>4. EndInv /\ BeginInv /\ CookieInv /\ QueueInv
  BY <1>1 DEF Rc!Init, EndInv, OnceInv, BeginInv, OneInv, CookieInv, EventsMatch, QueueInv, Roc
<1> QED BY <1>1, <1>2, <1>3, <1>4 DEF RocInv

\* The driver's own requests are never reported, and one that was never ready
\* never expires.  As long as no indication is handled in the middle of a call
\* and the interface is not closed, the stack is told of a request by the
\* cookie it was given (roc_cookie_cnt, which wraps), and every off-channel
\* frame is sent or freed: for any number of requests, frames and cookies.
THEOREM RocTheorem == Rc!Spec => []RocMatches
<1>1. RocInv => RocMatches
  <2>1. ASSUME RocInv, roc_allow \subseteq {"refuse"} PROVE EventsMatch /\ NoneLost
    BY <2>1 DEF RocInv, CookieInv, QueueInv, NoneLost
  <2> QED BY <2>1 DEF RocInv, RocMatches
<1> QED BY <1>1, RocInit, RocStep, PTL DEF Rc!Spec

\* The stack is told of the end of a request that was ready, by the time
\* rwnx_rx_remain_on_channel_exp_ind frees its element: whatever may happen,
\* preemption and rwnx_close too.
THEOREM ExpiryTheorem == Rc!Spec => Rc!ExpiryTold
<1>1. ASSUME RocInv PROVE [\A r \in Rc!Roc : roc_rx = r /\ roc_rx' = 0 /\ ready[r] # 0
                                               => expired[r] # 0]_(Rc!vars)
  BY <1>1, RocBounds DEF RocInv, ToldInv
<1> QED BY <1>1, RocInit, RocStep, PTL DEF Rc!Spec, Rc!ExpiryTold
=============================================================================
