---------------------------- MODULE MCApStations ----------------------------
(***************************************************************************)
(* ApStations for TLC: two stations and two entries of sta_table.  All     *)
(* that may go wrong does, or the firmware loses stations only, or nothing *)
(* happens but calls and stations falling asleep.                          *)
(***************************************************************************)
EXTENDS ApStations

All == Inputs
Losing == {"lost"}
Calm == {}
Behaviours == {All, Losing, Calm}

MCMaxCalls == [a \in Behaviours |-> IF a = Calm THEN 6 ELSE 4]

\* Threads run and the firmware answers.
CallRuns == allow = Losing /\ Calls
LossRuns == allow = Losing /\ Lost
ProbeRuns == allow = Losing /\ Probes
Receives == allow = Losing /\ Receive
FwAnswers == allow = Losing /\ Answer

MCSpec ==
  /\ Spec
  /\ WF_vars(CallRuns) /\ WF_vars(LossRuns) /\ WF_vars(ProbeRuns)
  /\ WF_vars(Receives) /\ WF_vars(FwAnswers)

\* A station the firmware reports as lost is removed
\* (apm_staloss_work_process), and a cookie that probe_client returned is
\* later passed to cfg80211_probe_status, if apm_probe_sta_work_process is not
\* overtaken.
IndicationsServed == allow = Losing => LossRemoved /\ ProbeAnswered
=============================================================================
