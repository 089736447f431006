----------------------------- MODULE SlotUpdate -----------------------------
(***************************************************************************)
(* What an A/B update promises, with no slots, files, tasks or boots: the  *)
(* device has a current release, perhaps a spare one to go back to, and    *)
(* every change is all or nothing.  FirmwareUpdate implements it.          *)
(***************************************************************************)
CONSTANTS
  Version, Factory, None

VARIABLES
  current,   \* the release the next boot starts
  spare,     \* the whole release it can go back to, or None
  trial,     \* current has not been confirmed
  lost       \* the record of all this cannot be read any more

vars == <<current, spare, trial, lost>>

Init == current = Factory /\ spare = None /\ trial = FALSE /\ lost = FALSE

\* The spare release is given up, never while it may be needed.
Discard ==
  /\ ~lost /\ ~trial
  /\ spare' = None
  /\ UNCHANGED <<current, trial, lost>>

\* A new release takes over, on trial; the old one becomes the spare one.
Install(v) ==
  /\ ~lost /\ ~trial /\ spare = None
  /\ current' = v /\ spare' = current /\ trial' = TRUE
  /\ UNCHANGED lost

\* The release on trial is confirmed.
Confirm ==
  /\ ~lost /\ trial
  /\ trial' = FALSE
  /\ UNCHANGED <<current, spare, lost>>

\* Back to the spare release, by the loader or the operator.
GoBack ==
  /\ ~lost /\ spare # None
  /\ current' = spare /\ spare' = current /\ trial' = FALSE
  /\ UNCHANGED lost

\* The power fails while the one copy of the record is written.
Lose ==
  /\ ~lost /\ lost' = TRUE
  /\ UNCHANGED <<current, spare, trial>>

Next == Discard \/ (\E v \in Version : Install(v)) \/ Confirm \/ GoBack \/ Lose

Spec == Init /\ [][Next]_vars

-----------------------------------------------------------------------------
\* A release on trial always has one to go back to (upgrade.a and upgrade.b
\* require a validated firmware, prevent-revert the operator's care).
WayBack == trial => spare # None
=============================================================================
