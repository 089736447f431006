------------------------------ MODULE MCCmdMgr ------------------------------
(* CmdMgr for TLC: two threads, in one of two settings. *)
EXTENDS CmdMgr

CONSTANTS p1, p2, r1

VARIABLE setting

TwoCallers == {p1, p2}
OneId == {r1}

\* Commands of every kind, those with a buffer from both threads; or commands
\* that are deferred only behind others.
Mixed == (p1 :> {"buffer", "nocfm"}) @@ (p2 :> {"buffer", "traffic"})
Forced == INSTANCE CmdMgr WITH Kinds <- (p1 :> {"plain"}) @@ (p2 :> {"defer"})

mcvars == <<vars, setting>>

MCInit == setting \in {"mixed", "forced"} /\ Init
MCNext ==
  /\ \/ setting = "mixed" /\ Next
     \/ setting = "forced" /\ Forced!Next
  /\ UNCHANGED setting

CallerRuns(p) == setting = "forced" /\ Forced!CallerStep(p) /\ UNCHANGED setting
CallerReturns(p) == setting = "forced" /\ Forced!Return(p) /\ UNCHANGED setting
WorkerRuns == setting = "forced" /\ Forced!WorkerStep /\ UNCHANGED setting
MsgindRuns == setting = "forced" /\ Forced!Msgind /\ UNCHANGED setting

MCSpec ==
  /\ MCInit /\ [][MCNext]_mcvars
  /\ \A p \in Caller : WF_mcvars(CallerRuns(p)) /\ SF_mcvars(CallerReturns(p))
  /\ WF_mcvars(WorkerRuns) /\ WF_mcvars(MsgindRuns)

\* If commands are only deferred behind others, somebody wakes the worker once
\* a deferred one heads the list, and it leaves it while the manager works
\* (cmd_mgr_queue); and a sender that waits for its confirmation returns,
\* whether or not the firmware answers.
ForcedServed ==
  /\ setting = "forced" /\ Deferred ~> ~ Deferred \/ state = "CRASHED"
  /\ \A p \in Caller : setting = "forced" /\ pc[p] = "wait" ~> pc[p] = "idle"
=============================================================================
