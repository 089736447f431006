--------------------------- MODULE ReorderWindow ---------------------------
(***************************************************************************)
(* What a block-ack reorder buffer promises, over the frames' own indices  *)
(* 0, 1, 2, ... instead of their 12-bit sequence numbers: it holds the     *)
(* frames above the first one missing, hands up every run that has no hole *)
(* in front of it, and gives a hole up when the window has to move past it *)
(* or when a timer runs out.  RxReorder is the driver's implementation.    *)
(***************************************************************************)
EXTENDS ReorderWindowState

vars == <<ind, buf, out>>

TypeOK == /\ ind \in Index \cup {Unset}
          /\ buf \in SUBSET Index
          /\ out \in SUBSET Index

Init == ind = Unset /\ buf = {} /\ out = {}

(* Where the window stands when frame x arrives. *)
Base(x) == IF ind = Unset THEN x ELSE ind

(* n is the first hole of held at or above lo. *)
FirstHole(held, lo, n) == n >= lo /\ n \notin held /\ \A m \in lo .. n - 1 : m \in held

(* Give up every hole below lo and hand up all that no hole stands before. *)
Advance(held, lo) ==
  \E n \in Index : /\ FirstHole(held, lo, n)
                   /\ ind' = n
                   /\ buf' = {y \in held : y > n}
                   /\ out' = {y \in held : y < n}

(* A frame of the window, or one past its end that moves it. *)
BugNeverMoves(x) == x >= Base(x) /\ x \notin buf /\ Advance(buf \cup {x}, Base(x))
Accept(x) ==
  /\ x >= Base(x)
  /\ x \notin buf
  /\ Advance(buf \cup {x}, IF x - WinSize + 1 > Base(x) THEN x - WinSize + 1 ELSE Base(x))

(* A frame whose place was given up is handed up out of order. *)
BugLateMoves(x) == ind # Unset /\ x < ind /\ out' = {x} /\ ind' = x /\ buf' = buf
Late(x) == ind # Unset /\ x < ind /\ out' = {x} /\ UNCHANGED <<ind, buf>>

(* The timer gives up the holes before the first held frame. *)
GiveUp == \E lo \in buf : (\A y \in buf : lo <= y) /\ Advance(buf, lo)

(* The end of the block-ack session hands everything up. *)
Flush == ind' = Unset /\ buf' = {} /\ out' = buf

(* The end of the association discards what is held. *)
Discard == ind' = Unset /\ buf' = {} /\ out' = {}

(* A frame is dropped, or nothing is received. *)
Idle == out' = {} /\ UNCHANGED <<ind, buf>>

Next == \/ \E x \in Index : Accept(x) \/ Late(x)
        \/ GiveUp \/ Flush \/ Discard \/ Idle

Spec == Init /\ [][Next]_vars
=============================================================================
