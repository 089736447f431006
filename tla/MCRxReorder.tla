---------------------------- MODULE MCRxReorder ----------------------------
(***************************************************************************)
(* The driver's buffer, and on its own the reorder window it implements.   *)
(* In one setting of the buffer memory may be short and nothing is torn    *)
(* down between a timeout and its work; in the other it is the other way   *)
(* round, with fewer frames.                                               *)
(***************************************************************************)
EXTENDS RxReorder, ReorderWindowState

VARIABLE setting

MCAllows == {{}, {"alloc_fails"}, {"late_timer"}}
AllowOf == [window |-> {}, short |-> {"alloc_fails"}, torn |-> {"late_timer"}]

Alone == INSTANCE ReorderWindow
Torn == INSTANCE RxReorder WITH MaxFrame <- 18, MaxGap <- 2

winvars == <<ind, buf, out>>
mcvars == <<vars, winvars, setting>>

MCInit ==
  /\ Init /\ Alone!Init
  /\ setting \in {"window", "short", "torn"} /\ allow = AllowOf[setting]
MCNext ==
  /\ \/ setting = "window" /\ Alone!Next /\ UNCHANGED vars
     \/ setting = "short" /\ Next /\ UNCHANGED winvars
     \/ setting = "torn" /\ Torn!Next /\ UNCHANGED winvars
  /\ UNCHANGED setting

Runs == setting = "torn" /\ Torn!Same /\ UNCHANGED <<winvars, setting>>
TimerRuns == Runs /\ Torn!TimerFires
HandlerRuns == Runs /\ Torn!reord_timeout_handler
WorkStarts == Runs /\ Torn!WorkerStarts
WorkerRuns == Runs /\ Torn!reord_timeout_worker
FlushEnds == Runs /\ Torn!FlushCancel
DeinitRuns == Runs /\ (Torn!DeinitDelTimer \/ Torn!DeinitCancelWork \/ Torn!DeinitFree)

MCSpec ==
  /\ MCInit /\ [][MCNext]_mcvars
  /\ WF_mcvars(TimerRuns) /\ WF_mcvars(HandlerRuns)
  /\ WF_mcvars(WorkStarts) /\ WF_mcvars(WorkerRuns)
  /\ WF_mcvars(FlushEnds) /\ WF_mcvars(DeinitRuns)

\* A hole holds the frames behind it back for a bounded time only
\* (reord_timeout_worker moves the window past it).
HeldServed == setting = "torn" => HeldReleased
=============================================================================
