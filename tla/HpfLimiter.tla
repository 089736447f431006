----------------------------- MODULE HpfLimiter -----------------------------
(***************************************************************************)
(* The control side of smt_hpf_limiter (package/smt-audio-dsp): a host     *)
(* writes control values, the plugin computes its filters from clamped     *)
(* copies of them and keeps those copies to notice when a control moved.   *)
(* A filter is abstracted to the parameters it was computed from; the      *)
(* samples and the filters' memory are left out.                           *)
(***************************************************************************)
EXTENDS Integers

CONSTANTS
    Controls,       \* the control ports the filters depend on
    Values,         \* what a host may write
    Lo, Hi          \* [Controls -> Int]: the range recompute clamps to

ASSUME HpfAssumption ==
    /\ Values \subseteq Int
    /\ Lo \in [Controls -> Int] /\ Hi \in [Controls -> Int]
    /\ \A c \in Controls : Lo[c] <= Hi[c]

VARIABLES
    control,        \* what the ports point to
    cached,         \* c_cut, c_whz, ...
    primed,
    bq,             \* the parameters of the filters in use
    heard,          \* the controls as they were in the last run
    recomputed,     \* the last run called recompute
    moved           \* it was the first since activation, or a control had been written

dspvars == <<control, cached, primed, bq, heard, recomputed, moved>>

\* instantiate: calloc.
DspInit ==
    /\ control \in [Controls -> Values]
    /\ cached = [c \in Controls |-> 0] /\ bq = cached /\ primed = FALSE
    /\ heard = control /\ recomputed = FALSE /\ moved = FALSE

Clamp(c, v) == IF v < Lo[c] THEN Lo[c] ELSE IF v > Hi[c] THEN Hi[c] ELSE v
Design(ctl) == [c \in Controls |-> Clamp(c, ctl[c])]

\* One control is not compared.
BugForgets == ~primed \/ \E c \in Controls : c # (CHOOSE x \in Controls : TRUE) /\ control[c] # cached[c]

controls_moved == ~primed \/ \E c \in Controls : control[c] # cached[c]

recompute == cached' = Design(control) /\ bq' = Design(control) /\ primed' = TRUE

\* A block of samples.
run ==
    /\ IF controls_moved THEN recompute ELSE UNCHANGED <<cached, bq, primed>>
    /\ heard' = control /\ recomputed' = controls_moved
    /\ moved' = (~primed \/ control # heard)
    /\ UNCHANGED control

activate == primed' = FALSE /\ UNCHANGED <<control, cached, bq, heard, recomputed, moved>>

\* The host connects a port to another location, or writes the one it is connected to.
connect_port(c, v) ==
    /\ control' = [control EXCEPT ![c] = v]
    /\ UNCHANGED <<cached, primed, bq, heard, recomputed, moved>>

DspNext == run \/ activate \/ \E c \in Controls, v \in Values : connect_port(c, v)
DspSpec == DspInit /\ [][DspNext]_dspvars

-----------------------------------------------------------------------------
\* Every variable keeps its type.
DspTypeOK ==
    /\ control \in [Controls -> Values] /\ heard \in [Controls -> Values]
    /\ cached \in [Controls -> Int] /\ bq \in [Controls -> Int]
    /\ primed \in BOOLEAN /\ recomputed \in BOOLEAN /\ moved \in BOOLEAN

\* Once it has run, the plugin filters with what the controls said at that run, though it
\* compares what the host wrote with clamped copies, and over reactivation.
CoeffsCurrent == primed => bq = Design(heard)

\* No filter is ever designed for a frequency or width outside its range (above 0.45 of
\* the sample rate it would not be stable), whatever the host writes and when.
FiltersInRange == primed => \A c \in Controls : bq[c] \in Lo[c]..Hi[c]

\* "cached control values so coeffs are only recomputed when something moves": a run that
\* recomputes is the first since activation, or follows a move.
\* Not kept by the code, see the README.
RecomputedWhenMoved == recomputed => moved
=============================================================================
