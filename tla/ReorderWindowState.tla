------------------------- MODULE ReorderWindowState -------------------------
(***************************************************************************)
(* The state of a block-ack reorder window (ReorderWindow has the steps)   *)
(* and what the window promises: which frames it holds and in which order  *)
(* they leave.                                                             *)
(***************************************************************************)
EXTENDS Integers

CONSTANTS Index,     \* the indices frames have
          WinSize,   \* frames the window spans
          Unset      \* the window has no position yet

ASSUME WinSizeAssumption == WinSize \in Nat \ {0}
ASSUME IndexAssumption == Index \subseteq Int /\ Unset \notin Index

VARIABLES ind,   \* the first frame neither handed up nor given up, or Unset
          buf,   \* the frames held back
          out    \* the frames the last step handed up

(* What is held lies strictly inside the window, behind a hole. *)
WindowBound == \A y \in buf : ind # Unset /\ ind < y /\ y < ind + WinSize

(* Frames leave in order: a step that moves the window hands up only frames
   between its old and its new position, and the only frame ever handed up
   from below the window is a late one, which moves nothing. *)
OrderedRelease ==
  [][\A y \in out' : /\ ind # Unset /\ ind' # Unset /\ ind' # ind => ind <= y /\ y < ind'
                     /\ ind # Unset /\ y < ind => ind' = ind /\ buf' = buf /\ out' = {y}]_<<ind, buf, out>>
=============================================================================
