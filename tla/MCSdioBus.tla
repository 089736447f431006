----------------------------- MODULE MCSdioBus -----------------------------
(***************************************************************************)
(* SdioBus for TLC: confirmed commands and data around suspends, received  *)
(* frames with short memory, or commands and data until the removal.       *)
(***************************************************************************)
EXTENDS SdioBus

CONSTANT Settings  \* which of the settings below a behaviour may have

VARIABLE setting

AllSettings == {"suspend", "receive", "remove"}

Receive == INSTANCE SdioBus WITH
             QMax <- 1, RxMax <- 2, Buffers <- 2, MaxMade <- 2,
             Inputs <- {"unconfirmed", "receive", "nomemory"}
Remove == INSTANCE SdioBus WITH
            QMax <- 1, Buffers <- 3, tx_aggr_counter <- 2, MaxTrgg <- 1, MaxMade <- 2,
            Inputs <- {"data", "command", "unconfirmed", "remove"}

mcvars == <<vars, setting>>

MCInit ==
  /\ setting \in Settings
  /\ CASE setting = "suspend" -> Init
       [] setting = "receive" -> Receive!Init
       [] setting = "remove" -> Remove!Init
MCNext ==
  /\ \/ setting = "suspend" /\ Next
     \/ setting = "receive" /\ Receive!Next
     \/ setting = "remove" /\ Remove!Next
  /\ UNCHANGED setting

Runs == setting = "remove" /\ UNCHANGED setting
TxRuns == Runs /\ Remove!TxStep
IrqRuns == Runs /\ Remove!IrqStep
RxRuns == Runs /\ Remove!RxStep
PwrRuns == Runs /\ Remove!PwrStep
RemoveRuns == Runs /\ Remove!RemoveStep
TimerRuns == Runs /\ Remove!aicwf_sdio_bus_pwrctl
FwFreeing == Runs /\ Remove!FwFrees
FwAnswering == Runs /\ Remove!FwAnswers

MCSpec ==
  /\ MCInit /\ [][MCNext]_mcvars
  /\ WF_mcvars(TxRuns) /\ WF_mcvars(IrqRuns) /\ WF_mcvars(RxRuns) /\ WF_mcvars(PwrRuns)
  /\ WF_mcvars(RemoveRuns) /\ WF_mcvars(TimerRuns)
  /\ WF_mcvars(FwFreeing) /\ WF_mcvars(FwAnswering)

\* A confirmed command is answered and every data frame is sent, unless the
\* bus failed, the firmware had no buffer, or an unconfirmed command was built
\* in the same buffer before it left.
TrafficFlows == setting = "remove" => CmdAnswered /\ DataSent

\* A bus that stays idle lets the chip sleep (aicwf_sdio_bus_pwrctl), and
\* aicwf_sdio_remove ends: every thread leaves.
BusRests == setting = "remove" => Remove!IdleSleeps /\ RemoveEnds
=============================================================================
