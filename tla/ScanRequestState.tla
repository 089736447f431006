-------------------------- MODULE ScanRequestState --------------------------
(***************************************************************************)
(* The state of scanning in the AIC8800 WiFi driver (ScanRequest has the   *)
(* steps), and what is true of it in every state.                          *)
(***************************************************************************)
EXTENDS Naturals, Sequences

CONSTANTS
  ScanAllows,  \* what may happen in a behaviour: one of these sets of ScanInputs
  MaxScans     \* bound: calls of scan, and of close, where that may happen

\* "close": the interface is closed and opened again
\* "fails": the call runs out of memory, or its interface cannot be added
\* "nomem": rwnx_close runs out of memory and returns with the scan going on
ScanInputs == {"close", "fails", "nomem"}

ASSUME ScanAssumption ==
  ScanAllows \subseteq SUBSET ScanInputs /\ MaxScans \in [ScanAllows -> Nat]

VARIABLES
  scan_allow,    \* which of ScanInputs may happen: the same for all of a behaviour
  scan_request,  \* rwnx_hw->scan_request: 0, or the number of the request
  scanning,
  lent,          \* requests the driver may use
  scan_op,       \* the call in progress
  scan_rx,       \* the receive thread: "idle", or "clear" in a handler
  scan_fifo,     \* messages from the firmware
  scan_fw,       \* the scan the firmware does, or 0
  scans, scan_closes  \* calls so far

Scan == 1..MaxScans[scan_allow]

Ended == scan_rx = "idle" /\ scan_fifo # <<>> /\ Head(scan_fifo).id = "start_cfm"

-----------------------------------------------------------------------------
\* Every variable has its type.
ScanTypeOK ==
  /\ scan_allow \in ScanAllows
  /\ scan_request \in {0} \union Scan /\ lent \subseteq Scan
  /\ scanning \in BOOLEAN /\ scan_fw \in {0} \union Scan
  /\ scan_op \in {"none", "send", "sent", "abort", "forget", "cancel", "canceled",
                  "remove", "removed"}
  /\ scan_rx \in {"idle", "clear"}
  /\ scans \in 0..MaxScans[scan_allow] /\ scan_closes \in 0..MaxScans[scan_allow]

\* cfg80211_scan_done is called, by the handler and by rwnx_close, only on a
\* request that cfg80211 still lends.
\* Not kept by the code, see the README.
OnlyLent ==
  scan_request # 0 /\ (Ended \/ scan_op = "abort") => scan_request \in lent

\* The end of one scan is never reported as the end of another.
EndIsOwn == Ended /\ scan_request # 0 => Head(scan_fifo).of = scan_request

\* `scanning`, which refuses scans and keeps the bus awake, says whether a
\* scan is under way, except while the stack or a handler is at it.
ScanningIsTrue ==
  scan_op = "none" /\ scan_rx = "idle" /\ scan_fifo = <<>> =>
    /\ scanning = (scan_fw # 0) /\ scanning = (scan_request # 0)
    /\ scanning = (lent # {})

\* The end of one scan is never reported as the end of another, while
\* rwnx_close has memory for its command; and `scanning` says whether a scan
\* is under way, if no request fails.
RightScan ==
  /\ ScanTypeOK
  /\ "nomem" \notin scan_allow => EndIsOwn
  /\ scan_allow \subseteq {"close"} => ScanningIsTrue
=============================================================================
