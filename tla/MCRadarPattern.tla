--------------------------- MODULE MCRadarPattern ---------------------------
(***************************************************************************)
(* Radar types with small numbers: PRI in microseconds become units of the *)
(* tolerance, and bursts of ten or more pulses become three.  The trains   *)
(* of one short type, the bursts of one long type, or several types and    *)
(* frequencies.                                                            *)
(***************************************************************************)
EXTENDS RadarPattern, TLC

CONSTANT Settings  \* which of the settings below a behaviour may have

VARIABLE setting

Short == [type |-> "short", width_min |-> 0, width_max |-> 1, pri_min |-> 12, pri_max |-> 14,
          num_pri |-> 1, ppb |-> 5, ppb_thresh |-> 3, tol |-> 1]
Weather == [Short EXCEPT !.type = "weather", !.width_min = 1, !.width_max = 2]
Long == [Short EXCEPT !.type = "long", !.pri_min = 1, !.pri_max = 2, !.ppb_thresh = 2,
                      !.width_min = 2, !.width_max = 3]
JustShort == [short |-> <<Short>>]
JustLong == [long |-> <<Long>>]
Mixed == [fcc |-> <<Short, Weather, Long>>, etsi |-> <<Long, Short>>]
AllTypes == JustShort @@ JustLong @@ Mixed
AllSettings == {"train", "bursts", "several"}

Train == INSTANCE RadarPattern WITH
           Specs <- JustShort, Freq <- {0}, Pri <- {0, 1, 5, 12, 13, 14, 26}, Width <- {0}
Bursts == INSTANCE RadarPattern WITH
            Specs <- JustLong, Freq <- {0}, Pri <- {0, 1, 2, 3, 4, 8}, Width <- {2}
Several == INSTANCE RadarPattern WITH
             Specs <- Mixed, MaxPulses <- 5

mcvars == <<vars, setting>>

MCInit == setting \in Settings /\ Init
MCNext ==
  /\ \/ setting = "train" /\ Train!Next
     \/ setting = "bursts" /\ Bursts!Next
     \/ setting = "several" /\ Several!Next
  /\ UNCHANGED setting
MCSpec == MCInit /\ [][MCNext]_mcvars
=============================================================================
