------------------------------ MODULE RxReorder ------------------------------
(***************************************************************************)
(* The receive reordering of the aic8800 driver (rwnx_rx.c, "reord_..."):  *)
(* the buffer of one traffic class of one peer, worked on by the SDIO      *)
(* receive thread, by the 50 ms timer and by the work item the timer       *)
(* queues.  Frame x of the peer carries the sequence number x % SnMod; the *)
(* code compares the numbers only.  Between the peer and the driver frames *)
(* are lost (a jump of at most MaxGap), reordered and repeated, inside the *)
(* peer's own block-ack window.  Both bodies that touch the list hold      *)
(* reord_list_lock from end to end, so each is one step.                   *)
(***************************************************************************)
EXTENDS Integers, Sequences, SequencesExt

CONSTANTS SnMod,      \* 4096: sequence numbers are 12 bits wide
          AICWF_REORDER_WINSIZE, MAX_REORD_RXFRAME,
          NoSn,       \* the 0xffff that ind_sn starts from
          First,      \* index of the first frame of the peer
          MaxFrame,   \* bound on the frames of the peer
          MaxGap,     \* most frames in a row that may be lost
          Allows      \* the sets of circumstances a behaviour may have, of the two below

\* Numbers that are compared are less than half their range apart.
ASSUME RxAssumption ==
  /\ AICWF_REORDER_WINSIZE \in Nat \ {0} /\ MAX_REORD_RXFRAME \in Nat /\ MaxGap \in Nat
  /\ SnMod \in Nat /\ 2 * (AICWF_REORDER_WINSIZE + MaxGap + 1) <= SnMod
  /\ First \in Int /\ MaxFrame \in Int /\ First <= MaxFrame /\ NoSn \notin Int

VARIABLES
  allow,      \* the same for all of a behaviour: "alloc_fails", reord_init_sta may find no memory
              \* or the bus down; "late_timer", the association may be torn down while a timeout runs
  info,       \* is there a reord_ctrl_info for the peer?
  enabled, ind_sn, reord_list,      \* the reord_ctrl; the list holds frames
  reord_timer, handler_runs, reord_timer_work, worker_runs,   \* timer pending, work queued, bodies running
  freeq,      \* entries of rxframes_freequeue
  rx,         \* what the receive thread is in: "idle", "flush", "stop", "cancel", "free"
  hi,         \* the highest frame of the peer that reached the window
  up,         \* the frames the last step handed to the network stack
  dangling    \* a timer or work item survives its freed reord_ctrl

ctrl == <<info, enabled, ind_sn, reord_list>>
timers == <<reord_timer, handler_runs, reord_timer_work, worker_runs>>
vars == <<allow, ctrl, timers, freeq, rx, hi, up, dangling>>

Sn(x) == x % SnMod
BugPlainLess(a, b) == a < b
SN_LESS(a, b) == (a - b) % SnMod >= SnMod \div 2

TypeOK ==
  /\ allow \in Allows
  /\ info \in BOOLEAN /\ enabled \in BOOLEAN
  /\ ind_sn \in (0 .. SnMod - 1) \cup {NoSn}
  /\ reord_list \in Seq(First .. MaxFrame) /\ up \in Seq(First .. MaxFrame)
  /\ reord_timer \in BOOLEAN /\ handler_runs \in BOOLEAN /\ reord_timer_work \in BOOLEAN /\ worker_runs \in BOOLEAN
  /\ freeq \in 0 .. MAX_REORD_RXFRAME
  /\ rx \in {"idle", "flush", "stop", "cancel", "free"}
  /\ hi \in First - 1 .. MaxFrame
  /\ dangling \in BOOLEAN

Init ==
  /\ allow \in Allows
  /\ info = FALSE /\ enabled = FALSE /\ ind_sn = NoSn /\ reord_list = <<>>
  /\ reord_timer = FALSE /\ handler_runs = FALSE /\ reord_timer_work = FALSE /\ worker_runs = FALSE
  /\ freeq = MAX_REORD_RXFRAME /\ rx = "idle" /\ hi = First - 1 /\ up = <<>> /\ dangling = FALSE

(* The window position a frame numbered sn leaves, and whether it is late. *)
Position(sn) == IF ~info \/ ~enabled \/ ind_sn = NoSn THEN sn ELSE ind_sn
IsLate(sn) == SN_LESS(sn, Position(sn))
reord_need_check(sn) ==
  LET base == Position(sn)
      wend == (base + AICWF_REORDER_WINSIZE - 1) % SnMod
  IN CASE sn = base -> (base + 1) % SnMod
       [] sn # base /\ SN_LESS(wend, sn) ->
            IF sn >= AICWF_REORDER_WINSIZE - 1 THEN sn - (AICWF_REORDER_WINSIZE - 1)
                                 ELSE SnMod - 1 - (AICWF_REORDER_WINSIZE - (sn + 1)) + 1
       [] OTHER -> base

(* The list entry before which a frame numbered sn goes. *)
Place(sn) ==
  LET i == SelectInSeq(reord_list, LAMBDA y : ~SN_LESS(Sn(y), sn))
  IN IF i = 0 THEN Len(reord_list) + 1 ELSE i
IsQueued(sn) == LET i == Place(sn) IN i <= Len(reord_list) /\ Sn(reord_list[i]) = sn
BugAppends(x) == Append(reord_list, x)
reord_rxframe_enqueue(x) == InsertAt(reord_list, Place(Sn(x)), x)

(* ind_sn moved over the frames of list that follow without a hole; more
   tells whether a frame beyond a hole stays in the buffer. *)
reord_rxframes_process(sn, list) ==
  FoldLeft(LAMBDA acc, y :
             IF acc.more \/ SN_LESS(acc.ind, Sn(y))
             THEN [ind |-> acc.ind, more |-> TRUE]
             ELSE [ind |-> IF acc.ind = Sn(y) THEN (acc.ind + 1) % SnMod ELSE acc.ind,
                   more |-> FALSE],
           [ind |-> sn, more |-> FALSE], list)

(* The frames in front of position sn leave the list in its order. *)
reord_rxframes_ind(sn, list) ==
  LET i == SelectInSeq(list, LAMBDA y : SN_LESS(sn, Sn(y)))
      n == IF i = 0 THEN Len(list) ELSE i - 1
  IN /\ up' = SubSeq(list, 1, n)
     /\ reord_list' = SubSeq(list, n + 1, Len(list))

-----------------------------------------------------------------------------
(* reord_process_unit, on the receive thread. *)

(* No recv_msdu is free: the frame is dropped before the window sees it, as
   if the air had lost it.  A multicast or EAPOL frame passes the buffer by. *)
DropNoFrame ==
  /\ rx = "idle" /\ freeq = 0
  /\ up' = <<>> /\ UNCHANGED <<ctrl, timers, freeq, rx, hi, dangling>>

(* reord_init_sta fails: the frame is dropped, and its recv_msdu with it. *)
InitStaFails ==
  /\ rx = "idle" /\ freeq > 0 /\ ~info /\ "alloc_fails" \in allow
  /\ freeq' = freeq - 1
  /\ up' = <<>> /\ UNCHANGED <<ctrl, timers, rx, hi, dangling>>

(* Frame x, new or repeated, of the peer's window reaches the reorder window. *)
Arrives(x) ==
  /\ rx = "idle" /\ freeq > 0
  /\ hi - AICWF_REORDER_WINSIZE < x /\ x <= hi + 1 + MaxGap
  /\ hi' = IF x > hi THEN x ELSE hi

(* A frame behind the window is handed up at once, an RTP frame dropped. *)
ReceiveLate(x, rtp) ==
  /\ Arrives(x) /\ IsLate(Sn(x))
  /\ up' = IF rtp THEN <<>> ELSE <<x>>
  /\ UNCHANGED <<ctrl, timers, freeq, rx, dangling>>

(* A frame the list already holds is dropped. *)
ReceiveAgain(x) ==
  /\ Arrives(x) /\ ~IsLate(Sn(x)) /\ IsQueued(Sn(x))
  /\ ind_sn' = reord_need_check(Sn(x))
  /\ up' = <<>> /\ UNCHANGED <<info, enabled, reord_list, timers, freeq, rx, dangling>>

(* The frame enters the list, all that it completes is handed up, and the
   timer runs exactly while something is left. *)
Receive(x) ==
  /\ Arrives(x) /\ ~IsLate(Sn(x)) /\ ~IsQueued(Sn(x))
  /\ info' = TRUE /\ enabled' = TRUE
  /\ LET list == reord_rxframe_enqueue(x)
         moved == reord_rxframes_process(reord_need_check(Sn(x)), list)
     IN /\ ind_sn' = moved.ind
        /\ reord_timer' = moved.more
        /\ reord_rxframes_ind(moved.ind, list)
        /\ freeq' = freeq - 1 + Len(up')
  /\ UNCHANGED <<handler_runs, reord_timer_work, worker_runs, rx, dangling>>

-----------------------------------------------------------------------------
(* The timer and its work item. *)

TimerFires ==
  /\ reord_timer /\ ~handler_runs
  /\ "late_timer" \notin allow => rx \notin {"stop", "cancel", "free"}
  /\ reord_timer' = FALSE /\ handler_runs' = TRUE
  /\ up' = <<>> /\ UNCHANGED <<ctrl, reord_timer_work, worker_runs, freeq, rx, hi, dangling>>

reord_timeout_handler ==
  /\ handler_runs
  /\ handler_runs' = FALSE /\ reord_timer_work' = TRUE
  /\ up' = <<>> /\ UNCHANGED <<ctrl, reord_timer, worker_runs, freeq, rx, hi, dangling>>

WorkerStarts ==
  /\ reord_timer_work /\ ~worker_runs
  /\ reord_timer_work' = FALSE /\ worker_runs' = TRUE
  /\ up' = <<>> /\ UNCHANGED <<ctrl, reord_timer, handler_runs, freeq, rx, hi, dangling>>

(* The worker moves the window to the first frame held. *)
BugNoRearm ==
  /\ worker_runs /\ reord_list # <<>>
  /\ worker_runs' = FALSE
  /\ ind_sn' = reord_rxframes_process(Sn(Head(reord_list)), reord_list).ind
  /\ reord_rxframes_ind(ind_sn', reord_list)
  /\ freeq' = freeq + Len(up')
  /\ UNCHANGED <<info, enabled, reord_timer, handler_runs, reord_timer_work, rx, hi, dangling>>
BugNotForced ==
  /\ worker_runs /\ worker_runs' = FALSE
  /\ reord_timer' = (reord_timer \/ reord_list # <<>>)
  /\ up' = <<>> /\ UNCHANGED <<ctrl, handler_runs, reord_timer_work, freeq, rx, hi, dangling>>
reord_timeout_worker ==
  /\ worker_runs
  /\ worker_runs' = FALSE
  /\ IF reord_list = <<>>
     THEN up' = <<>> /\ UNCHANGED <<ind_sn, reord_list, reord_timer>>
     ELSE LET moved == reord_rxframes_process(Sn(Head(reord_list)), reord_list)
          IN /\ ind_sn' = moved.ind
             /\ reord_timer' = (reord_timer \/ moved.more)
             /\ reord_rxframes_ind(moved.ind, reord_list)
  /\ freeq' = freeq + Len(up')
  /\ UNCHANGED <<info, enabled, handler_runs, reord_timer_work, rx, hi, dangling>>

-----------------------------------------------------------------------------
(* reord_flush_tid: a frame outside the block-ack session ends it. *)

BugLeaksList ==
  /\ rx = "idle" /\ info /\ enabled
  /\ up' = reord_list /\ reord_list' = <<>> /\ freeq' = freeq
  /\ enabled' = FALSE /\ rx' = "flush"
  /\ UNCHANGED <<info, ind_sn, timers, hi, dangling>>
FlushList ==
  /\ rx = "idle" /\ info /\ enabled
  /\ up' = reord_list /\ reord_list' = <<>> /\ freeq' = freeq + Len(reord_list)
  /\ enabled' = FALSE /\ rx' = "flush"
  /\ UNCHANGED <<info, ind_sn, timers, hi, dangling>>

(* del_timer_sync when the timer is pending, then cancel_work_sync. *)
FlushCancel ==
  /\ rx = "flush" /\ ~worker_runs /\ ~(reord_timer /\ handler_runs)
  /\ reord_timer' = FALSE /\ reord_timer_work' = FALSE /\ rx' = "idle"
  /\ up' = <<>> /\ UNCHANGED <<ctrl, handler_runs, worker_runs, freeq, hi, dangling>>

(* reord_deinit_sta: the disconnect indication, on the same thread. *)

DeinitStop ==
  /\ rx = "idle" /\ info
  /\ "late_timer" \notin allow => ~handler_runs /\ ~reord_timer_work /\ ~worker_runs
  /\ enabled' = FALSE
  /\ rx' = IF enabled THEN "stop" ELSE "free"
  /\ up' = <<>> /\ UNCHANGED <<info, ind_sn, reord_list, timers, freeq, hi, dangling>>

BugKeepsTimer ==
  /\ rx = "stop" /\ rx' = "cancel"
  /\ up' = <<>> /\ UNCHANGED <<ctrl, timers, freeq, hi, dangling>>
DeinitDelTimer ==
  /\ rx = "stop" /\ ~(reord_timer /\ handler_runs)
  /\ reord_timer' = FALSE /\ rx' = "cancel"
  /\ up' = <<>> /\ UNCHANGED <<ctrl, handler_runs, reord_timer_work, worker_runs, freeq, hi, dangling>>

DeinitCancelWork ==
  /\ rx = "cancel" /\ ~worker_runs
  /\ reord_timer_work' = FALSE /\ rx' = "free"
  /\ up' = <<>> /\ UNCHANGED <<ctrl, reord_timer, handler_runs, worker_runs, freeq, hi, dangling>>

(* What is held is discarded and the reord_ctrl freed, whatever still runs. *)
DeinitFree ==
  /\ rx = "free"
  /\ dangling' = (dangling \/ reord_timer \/ handler_runs \/ reord_timer_work \/ worker_runs)
  /\ freeq' = freeq + Len(reord_list)
  /\ info' = FALSE /\ ind_sn' = NoSn /\ reord_list' = <<>>
  /\ reord_timer' = FALSE /\ handler_runs' = FALSE /\ reord_timer_work' = FALSE /\ worker_runs' = FALSE
  /\ rx' = "idle" /\ up' = <<>> /\ UNCHANGED <<enabled, hi>>

-----------------------------------------------------------------------------
Frame == First .. MaxFrame

Same == UNCHANGED allow

Next ==
  /\ \/ \E x \in Frame : ReceiveLate(x, TRUE) \/ ReceiveLate(x, FALSE) \/ ReceiveAgain(x) \/ Receive(x)
     \/ DropNoFrame \/ InitStaFails
     \/ TimerFires \/ reord_timeout_handler \/ WorkerStarts \/ reord_timeout_worker
     \/ FlushList \/ FlushCancel
     \/ DeinitStop \/ DeinitDelTimer \/ DeinitCancelWork \/ DeinitFree
  /\ Same

(* Timers expire and work items run; the receive thread finishes what it began. *)
Fairness ==
  /\ WF_vars(Same /\ TimerFires) /\ WF_vars(Same /\ reord_timeout_handler)
  /\ WF_vars(Same /\ WorkerStarts) /\ WF_vars(Same /\ reord_timeout_worker)
  /\ WF_vars(Same /\ FlushCancel)
  /\ WF_vars(Same /\ (DeinitDelTimer \/ DeinitCancelWork \/ DeinitFree))

Spec == Init /\ [][Next]_vars
LiveSpec == Spec /\ Fairness

-----------------------------------------------------------------------------
(* The abstract window, over frames instead of their numbers.  The position
   is the frame at or below hi + 1 that ind_sn is the number of. *)
Window == INSTANCE ReorderWindow WITH
            Index <- First - AICWF_REORDER_WINSIZE .. MaxFrame + 1,
            WinSize <- AICWF_REORDER_WINSIZE,
            Unset <- NoSn,
            ind <- IF ~info \/ ind_sn = NoSn \/ (~enabled /\ reord_list = <<>>) THEN NoSn
                   ELSE (hi + 1) - (((hi + 1) - ind_sn) % SnMod),
            buf <- ToSet(reord_list),
            out <- ToSet(up)

(* The buffer works on 12-bit numbers as the window does on whole ones: over
   loss, reordering, repetition, wrap-around, expiry and teardown every step
   is one of the abstract window. *)
WindowRefined == Window!Spec

(* Frames leave one call in the order of the peer. *)
UpSorted == \A i, j \in DOMAIN up : i < j => up[i] < up[j]

(* A held frame never waits without someone coming for it: the timer is
   pending or running, or its work is queued or running. *)
HeldIsTimed == reord_list # <<>> => reord_timer \/ handler_runs \/ reord_timer_work \/ worker_runs \/ rx # "idle"

(* "when rxframe from busif, dequeue, when submit frame to net, enqueue": a
   recv_msdu is in the free queue or in the list. *)
PoolConserved == freeq + Len(reord_list) = MAX_REORD_RXFRAME

(* No timer or work item is left on a reord_ctrl that has been freed. *)
NoDangling == ~dangling

(* What the driver keeps of the above: the first two always, that
   reord_deinit_sta leaves no timer or work item behind if none expires while
   it runs, and that no recv_msdu is lost while reord_init_sta succeeds. *)
BufferConsistent ==
  /\ TypeOK /\ UpSorted /\ HeldIsTimed
  /\ "late_timer" \notin allow => NoDangling
  /\ "alloc_fails" \notin allow => PoolConserved

(* A hole holds the frames behind it back for a bounded time only. *)
HeldReleased == \A x \in Frame : x \in ToSet(reord_list) ~> x \notin ToSet(reord_list)
=============================================================================
