------------------------------ MODULE MCStation ------------------------------
(***************************************************************************)
(* What cfg80211 asks of a station interface, each part on its own:        *)
(* connections (StaConnection), scans (ScanRequest) and remaining on a     *)
(* channel (RemainOnChannel), with different things that may go wrong.     *)
(* The parts that are not looked at stay as they start.                    *)
(***************************************************************************)
EXTENDS StaConnection, ScanRequestState, RemainOnChannelState

CONSTANT Parts  \* the parts that a behaviour may look at

VARIABLE part

Sc == INSTANCE ScanRequest
Rc == INSTANCE RemainOnChannel

scanvars == <<scan_allow, scan_request, scanning, lent, scan_op, scan_rx, scan_fifo, scan_fw,
              scans, scan_closes>>
rocvars == <<roc_allow, roc_elem, mgmt_roc, on_chan, freed, roc_cookie_cnt, txq, lost, given,
             ready, expired, roc_op, roc_rx, roc_fifo, roc_fw, rocs, txs, roc_closes>>
mcvars == <<vars, scanvars, rocvars, part>>

-----------------------------------------------------------------------------
\* Everything that may go wrong; the faults of one thread and of the firmware;
\* nothing but moving to another access point; nothing at all.
StaFaults == {"roam", "slow", "busy", "einval", "preempt"}
StaRoams == {"roam", "sae"}
StaStays == {"sae"}
StaAllows == {Inputs, StaFaults, StaRoams, StaStays}
StaCalls == [a \in StaAllows |-> IF a = Inputs THEN 7 ELSE 8]

ScanFails == {"close", "fails"}
ScanCloses == {"close"}
MCScanAllows == {ScanInputs, ScanFails, ScanCloses}
MCMaxScans == [a \in MCScanAllows |-> IF a = ScanCloses THEN 4 ELSE 3]

RocRefused == {"refuse"}
RocPreempted == {"refuse", "preempt"}
MCRocAllows == {RocInputs, RocRefused, RocPreempted}
MCMaxTx == [a \in MCRocAllows |->
              IF a = RocRefused THEN 3 ELSE IF a = RocPreempted THEN 2 ELSE 1]

AllParts == {"sta", "scan", "roc"}

-----------------------------------------------------------------------------
\* What is not looked at has one initial state.
MCInit ==
  /\ part \in Parts
  /\ Init /\ (part # "sta" => allow = StaStays)
  /\ Sc!Init /\ (part # "scan" => scan_allow = ScanCloses)
  /\ Rc!Init /\ (part # "roc" => roc_allow = RocRefused)

StaNext == part = "sta" /\ Next /\ UNCHANGED <<scanvars, rocvars, part>>
ScanNext == part = "scan" /\ Sc!Next /\ UNCHANGED <<vars, rocvars, part>>
RocNext == part = "roc" /\ Rc!Next /\ UNCHANGED <<vars, scanvars, part>>
MCNext == StaNext \/ ScanNext \/ RocNext

\* The threads run and the firmware answers and ends what it began.
StaRuns == part = "sta" /\ allow = StaStays /\ UNCHANGED <<scanvars, rocvars, part>>
StaCloseRuns == StaRuns /\ CloseStep
StaDisconnectRuns == StaRuns /\ Disconnects
StaReceives == StaRuns /\ Receive
StaAnswers == StaRuns /\ Answers
StaEnds == StaRuns /\ Ends
ScanRuns == part = "scan" /\ scan_allow = ScanFails /\ UNCHANGED <<vars, rocvars, part>>
ScanCalls == ScanRuns /\ Sc!Calls
ScanReceives == ScanRuns /\ Sc!Receive
ScanFirmware == ScanRuns /\ Sc!Firmware
RocRuns == part = "roc" /\ roc_allow = RocPreempted /\ UNCHANGED <<vars, scanvars, part>>
RocCalls == RocRuns /\ Rc!Calls
RocReceives == RocRuns /\ Rc!Receive
RocAnswers == RocRuns /\ Rc!Answers
RocFirmware == RocRuns /\ Rc!Serves

MCSpec ==
  /\ MCInit /\ [][MCNext]_mcvars
  /\ WF_mcvars(StaCloseRuns) /\ WF_mcvars(StaDisconnectRuns) /\ WF_mcvars(StaReceives)
  /\ WF_mcvars(StaAnswers) /\ WF_mcvars(StaEnds)
  /\ WF_mcvars(ScanCalls) /\ WF_mcvars(ScanReceives) /\ WF_mcvars(ScanFirmware)
  /\ WF_mcvars(RocCalls) /\ WF_mcvars(RocReceives) /\ WF_mcvars(RocAnswers) /\ WF_mcvars(RocFirmware)

-----------------------------------------------------------------------------
\* What the stack asked for ends: rwnx_close returns, a disconnection is over
\* if nobody roams, a scan request that was lent is given back
\* (cfg80211_scan_done), and a request to remain on a channel makes room for
\* another.  If the stack was told that it is ready, it is told of its end by
\* the time rwnx_rx_remain_on_channel_exp_ind frees its element.
RequestsEnd ==
  /\ part = "sta" /\ allow = StaStays => DisconnectEnds /\ CloseReturns
  /\ part = "scan" /\ scan_allow = ScanFails => Sc!ScanEnds
  /\ Rc!ExpiryTold
  /\ part = "roc" /\ roc_allow = RocPreempted => Rc!RocEnds
==============================================================================
