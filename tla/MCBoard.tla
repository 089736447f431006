------------------------------- MODULE MCBoard -------------------------------
(***************************************************************************)
(* The board's own programs, each on its own: the filter control of        *)
(* smt_hpf_limiter (HpfLimiter) with three controls, one clamped on both   *)
(* sides (cutoff), one from above (the air frequency at a low sample rate) *)
(* and one not at all (a gain), and camsnap (CamSnap) with two buffers,    *)
(* two paths and one reader, in one of three settings.                     *)
(***************************************************************************)
EXTENDS HpfLimiter, CamSnapState

CONSTANT Settings  \* which of the settings below a behaviour may have

VARIABLE setting

Ctl == {"cutoff", "air_hz", "air_db"}
Low  == [c \in Ctl |-> IF c = "cutoff" THEN 1 ELSE -9]
High == [c \in Ctl |-> IF c = "air_db" THEN 9 ELSE 2]
AllSettings == {"dsp", "faulty", "skipping", "signalled"}

\* Every frame is due, two faults; every other one, one fault; SIGTERM.
Faulty == INSTANCE CamSnap WITH Period <- 1, MaxFaults <- 2, Signals <- FALSE
Skipping == INSTANCE CamSnap WITH MaxFaults <- 1, Signals <- FALSE
Signalled == INSTANCE CamSnap WITH Period <- 1, MaxFaults <- 1, Signals <- TRUE

camvars == <<pc, owner, b, frame, since, path, out, stop, faults, file, tmp, reader>>
mcvars == <<dspvars, camvars, setting>>

\* A component that does not run stands still in one of its initial states.
MCInit ==
  /\ setting \in Settings /\ DspInit
  /\ IF setting = "skipping" THEN Skipping!Init ELSE Faulty!Init
  /\ IF setting = "dsp" THEN frame = 0 ELSE control = [c \in Controls |-> 0]
MCNext ==
  /\ \/ setting = "dsp" /\ DspNext /\ UNCHANGED camvars
     \/ setting = "faulty" /\ Faulty!Next /\ UNCHANGED dspvars
     \/ setting = "skipping" /\ Skipping!Next /\ UNCHANGED dspvars
     \/ setting = "signalled" /\ Signalled!Next /\ UNCHANGED dspvars
  /\ UNCHANGED setting

SkippingRuns == setting = "skipping" /\ UNCHANGED <<dspvars, setting>>
MainRuns == SkippingRuns /\ Skipping!main
CameraRuns == SkippingRuns /\ Skipping!Capture
Restarted == SkippingRuns /\ Skipping!Restart
SignalledRuns == setting = "signalled" /\ UNCHANGED <<dspvars, setting>>
SignalledMain == SignalledRuns /\ Signalled!main
SignalledCamera == SignalledRuns /\ Signalled!Capture
SignalledRestart == SignalledRuns /\ Signalled!Restart

MCSpec ==
  /\ MCInit /\ [][MCNext]_mcvars
  /\ WF_mcvars(MainRuns) /\ WF_mcvars(CameraRuns) /\ WF_mcvars(Restarted)
  /\ WF_mcvars(SignalledMain) /\ WF_mcvars(SignalledCamera) /\ WF_mcvars(SignalledRestart)

\* The picture does not freeze: with finitely many faults camsnap publishes
\* new ones for ever; and a daemon asked to stop exits, as long as frames
\* arrive.
Publishes ==
  /\ setting = "skipping" => []<><<MainRuns /\ pc = "rename" /\ path = "cam.jpg" /\ tmp'[path] = {}>>_mcvars
  /\ setting = "signalled" => Signalled!Stops
==============================================================================
