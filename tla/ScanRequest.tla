---------------------------- MODULE ScanRequest ----------------------------
(***************************************************************************)
(* Scanning in the AIC8800 WiFi driver: rwnx_cfg80211_scan, the end of a   *)
(* scan reported by the firmware, and rwnx_close, which aborts the scan of *)
(* its interface.  The request belongs to cfg80211: it lends it to the     *)
(* driver until cfg80211_scan_done, or not at all if the call fails.       *)
(*                                                                         *)
(* The calls of the stack are serialised; the receive thread runs beside   *)
(* them, and neither takes a lock.                                         *)
(***************************************************************************)
EXTENDS ScanRequestState

vars == <<scan_allow, scan_request, scanning, lent, scan_op, scan_rx, scan_fifo, scan_fw,
          scans, scan_closes>>

Init ==
  /\ scan_allow \in ScanAllows
  /\ scan_request = 0 /\ scanning = FALSE /\ lent = {}
  /\ scan_op = "none" /\ scan_rx = "idle" /\ scan_fifo = <<>> /\ scan_fw = 0
  /\ scans = 0 /\ scan_closes = 0

-----------------------------------------------------------------------------
\* cfg80211 has one scan at a time.  A call while the driver scans is refused
\* and changes nothing; another hands its request to rwnx_send_scanu_req.
rwnx_cfg80211_scan ==
  /\ scan_op = "none" /\ lent = {} /\ ~ scanning /\ scans < MaxScans[scan_allow]
  /\ scans' = scans + 1
  /\ scan_request' = scans' /\ lent' = {scans'} /\ scan_op' = "send"
  /\ UNCHANGED <<scanning, scan_rx, scan_fifo, scan_fw, scan_closes>>

\* The request is sent; it fails before or after the driver counts as
\* scanning, and then the call returns an error.
BugNotScanning ==
  /\ scan_op = "send" /\ scan_op' = "sent" /\ UNCHANGED <<scanning, lent>>
  /\ UNCHANGED <<scan_request, scan_rx, scan_fifo, scan_fw, scans, scan_closes>>
rwnx_send_scanu_req ==
  /\ scan_op = "send"
  /\ \/ scan_op' = "sent" /\ scanning' = TRUE /\ UNCHANGED lent
     \/ /\ "fails" \in scan_allow
        /\ scan_op' = "none" /\ lent' = {} /\ scanning' \in {scanning, TRUE}
  /\ UNCHANGED <<scan_request, scan_rx, scan_fifo, scan_fw, scans, scan_closes>>

-----------------------------------------------------------------------------
(* rwnx_close.                                                              *)

Close ==
  /\ scan_op = "none" /\ "close" \in scan_allow /\ scan_closes < MaxScans[scan_allow]
  /\ scan_closes' = scan_closes + 1 /\ scan_op' = "abort" /\ scanning' = FALSE
  /\ UNCHANGED <<scan_request, lent, scan_rx, scan_fifo, scan_fw, scans>>

\* cfg80211_scan_done ends the loan.
Abort ==
  /\ scan_op = "abort"
  /\ scan_op' = IF scan_request = 0 THEN "remove" ELSE "forget"
  /\ lent' = lent \ {scan_request}
  /\ UNCHANGED <<scan_request, scanning, scan_rx, scan_fifo, scan_fw, scans, scan_closes>>

Forget ==
  /\ scan_op = "forget" /\ scan_op' = "cancel" /\ scan_request' = 0
  /\ UNCHANGED <<scanning, lent, scan_rx, scan_fifo, scan_fw, scans, scan_closes>>

\* Without memory for the command the call ends here.
BugNoCancel ==
  /\ scan_op = "cancel" /\ scan_op' = "remove"
  /\ UNCHANGED <<scan_request, scanning, lent, scan_rx, scan_fifo, scan_fw, scans, scan_closes>>
rwnx_send_scanu_cancel_req ==
  /\ scan_op = "cancel"
  /\ \/ scan_op' = "canceled"
     \/ "nomem" \in scan_allow /\ scan_op' = "none"
  /\ UNCHANGED <<scan_request, scanning, lent, scan_rx, scan_fifo, scan_fw, scans, scan_closes>>

\* The interface is removed, which leaves scanning alone; until the next
\* rwnx_open nothing scans.
Remove ==
  /\ scan_op = "remove" /\ scan_op' = "removed"
  /\ UNCHANGED <<scan_request, scanning, lent, scan_rx, scan_fifo, scan_fw, scans, scan_closes>>

-----------------------------------------------------------------------------
(* The receive thread.                                                      *)

\* A confirmation lets the call go on.
Confirmed ==
  /\ scan_rx = "idle" /\ scan_fifo # <<>> /\ Head(scan_fifo).id = "cfm"
  /\ scan_fifo' = Tail(scan_fifo)
  /\ scan_op' = IF scan_op = "canceled" THEN "remove" ELSE "none"
  /\ UNCHANGED <<scan_request, scanning, lent, scan_rx, scan_fw, scans, scan_closes>>

BugKeepsLoan ==
  /\ Ended /\ scan_fifo' = Tail(scan_fifo) /\ scan_rx' = "clear"
  /\ UNCHANGED <<scan_request, scanning, lent, scan_op, scan_fw, scans, scan_closes>>
rwnx_rx_scanu_start_cfm ==
  /\ Ended /\ scan_fifo' = Tail(scan_fifo) /\ scan_rx' = "clear"
  /\ lent' = lent \ {scan_request}
  /\ UNCHANGED <<scan_request, scanning, scan_op, scan_fw, scans, scan_closes>>

StartCfmClears ==
  /\ scan_rx = "clear" /\ scan_rx' = "idle"
  /\ scan_request' = 0 /\ scanning' = FALSE
  /\ UNCHANGED <<lent, scan_op, scan_fifo, scan_fw, scans, scan_closes>>

-----------------------------------------------------------------------------
(* The firmware.  It reports the end of every scan it started, and of one   *)
(* that is cancelled before it confirms that.                               *)

cfm == [id |-> "cfm"]
start_cfm == [id |-> "start_cfm", of |-> scan_fw]

\* The one command in flight has not been answered.
Quiet == cfm \notin {scan_fifo[i] : i \in DOMAIN scan_fifo}

FwStarts ==
  /\ scan_op = "sent" /\ scan_fw = 0 /\ Quiet
  /\ scan_fw' = scan_request /\ scan_fifo' = Append(scan_fifo, cfm)
  /\ UNCHANGED <<scan_request, scanning, lent, scan_op, scan_rx, scans, scan_closes>>

FwEnds ==
  /\ scan_fw # 0 /\ scan_fw' = 0 /\ scan_fifo' = Append(scan_fifo, start_cfm)
  /\ UNCHANGED <<scan_request, scanning, lent, scan_op, scan_rx, scans, scan_closes>>

FwCancels ==
  /\ scan_op = "canceled" /\ Quiet
  /\ scan_fifo' = scan_fifo \o (IF scan_fw = 0 THEN <<cfm>> ELSE <<start_cfm, cfm>>)
  /\ scan_fw' = 0
  /\ UNCHANGED <<scan_request, scanning, lent, scan_op, scan_rx, scans, scan_closes>>

FwRemoves ==
  /\ scan_op = "removed" /\ Quiet /\ scan_fifo' = Append(scan_fifo, cfm)
  /\ UNCHANGED <<scan_request, scanning, lent, scan_op, scan_rx, scan_fw, scans, scan_closes>>

Same == UNCHANGED scan_allow
Calls ==
  /\ Same
  /\ rwnx_send_scanu_req \/ Abort \/ Forget \/ rwnx_send_scanu_cancel_req \/ Remove
Receive == Same /\ (Confirmed \/ rwnx_rx_scanu_start_cfm \/ StartCfmClears)
Firmware == Same /\ (FwStarts \/ FwEnds \/ FwCancels \/ FwRemoves)

Next == (Same /\ (rwnx_cfg80211_scan \/ Close)) \/ Calls \/ Receive \/ Firmware

Spec == Init /\ [][Next]_vars

\* Threads run; the firmware answers and a scan ends.
LiveSpec == Spec /\ WF_vars(Calls) /\ WF_vars(Receive) /\ WF_vars(Firmware)

-----------------------------------------------------------------------------
\* A request that was lent is given back.
ScanEnds == \A n \in UNION {1..MaxScans[a] : a \in ScanAllows} : n \in lent ~> n \notin lent
=============================================================================
