--------------------------- MODULE StaConnection ---------------------------
(***************************************************************************)
(* One station interface of the AIC8800 WiFi driver: open and close,       *)
(* connect, disconnect and external authentication of cfg80211             *)
(* (rwnx_main.c), and the indications of the firmware's connection task    *)
(* (rwnx_msg_rx.c).                                                        *)
(*                                                                         *)
(* The stack's calls are serialised by its own locks.  A call sends one    *)
(* command at a time and waits for its confirmation; confirmations and     *)
(* indications arrive in one order and one receive thread handles them,    *)
(* beside the call: cmd_mgr_run_callback takes no lock.                    *)
(***************************************************************************)
EXTENDS Naturals, Sequences

CONSTANTS
  Allows,      \* what may happen in a behaviour: one of these sets of Inputs
  MaxCalls     \* bound: calls of the stack and links lost, where that may happen

\* "roam":    the user moves to another access point of its network
\* "sae":     authentication is left to user space
\* "noowner": cfg80211 refuses the request to authenticate
\* "slow":    a wait of rwnx_close runs out
\* "busy":    the firmware refuses a connection although it could take one
\* "einval":  the driver refuses the parameters of a connection
\* "preempt": rwnx_cfg80211_disconnect is preempted after reading the state
\* "defer":   a command of another thread is outstanding when one is sent
Inputs == {"roam", "sae", "noowner", "slow", "busy", "einval", "preempt", "defer"}

ASSUME StaAssumption == Allows \subseteq SUBSET Inputs /\ MaxCalls \in [Allows -> Nat]

VARIABLES
  allow,    \* which of Inputs may happen: the same for all of a behaviour
  vif,      \* the interface: see Vif
  count,    \* chanctx_table[].count
  table,    \* the interface is in vif_table
  mgr,      \* the command manager: "INITED" or "CRASHED"
  op,       \* the call that is in progress, and how far it is
  cmds,     \* commands on their way to the firmware
  rx,       \* the receive thread: "idle" or the rest of a handler
  fifo,     \* messages from the firmware
  fw,       \* the firmware's connection task, and whether it roams
  stack,    \* what cfg80211 and its user were told
  calls

vars == <<allow, vif, count, table, mgr, op, cmds, rx, fifo, fw, stack, calls>>

Drv == {"DISCONNECTED", "CONNECTING", "CONNECTED", "DISCONNECTING", "ROAMING"}

Vif == [drv_conn_state : Drv,        is_roam : BOOLEAN,
        ap : BOOLEAN,                \* sta.ap is set
        external_auth : BOOLEAN,     ch_index : BOOLEAN,  \* a context is linked
        up : BOOLEAN,                carrier : BOOLEAN]

Cmd == {"connect", "disconnect", "auth", "remove"}
Op == {"none", "connect", "leave", "disconnect", "auth", "closed",
       "close_wait", "close_down", "close_leave", "close_leave_sent",
       "close_settle", "close_remove", "close_removed", "close_table"}

Task(t) == [task |-> t, roam |-> FALSE]

Init ==
  /\ allow \in Allows
  /\ vif = [drv_conn_state |-> "DISCONNECTED", is_roam |-> FALSE,
            ap |-> FALSE, external_auth |-> FALSE, ch_index |-> FALSE,
            up |-> FALSE, carrier |-> FALSE]
  /\ count = 0 /\ table = FALSE /\ mgr = "INITED"
  /\ op = "closed" /\ cmds = <<>> /\ rx = "idle"
  /\ fifo = <<>> /\ fw = Task("absent") /\ stack = "idle" /\ calls = 0

drv == vif.drv_conn_state

\* A call of the stack, or a loss of the link, counted.
Count == calls < MaxCalls[allow] /\ calls' = calls + 1

\* rwnx_send_msg: the call waits at the label `waiting` for the confirmation,
\* unless the command is left to the worker, behind another one, or refused
\* because the manager crashed: rwnx_send_msg returns 0 all the same and the
\* call goes on at `after`.  A connection, whose confirmation is read, waits
\* until no command is outstanding.
rwnx_send_msg(c, waiting, after) ==
  \/ /\ mgr = "CRASHED"
     /\ op' = after /\ UNCHANGED cmds
  \/ /\ mgr = "INITED" /\ cmds = <<>>
     /\ op' = waiting /\ cmds' = <<c>>
  \/ /\ mgr = "INITED" /\ c # "connect"
     /\ cmds # <<>> \/ "defer" \in allow
     /\ op' = after /\ cmds' = Append(cmds, c)

-----------------------------------------------------------------------------
(* Calls of the stack.                                                      *)

\* Opening the only interface: a new firmware interface, and the state of the
\* connection, but not sta.ap or external_auth, starts afresh.  The
\* confirmations it waits for come after every earlier message.
rwnx_open ==
  /\ op = "closed" /\ mgr = "INITED" /\ Count
  /\ cmds = <<>> /\ fifo = <<>> /\ rx = "idle"
  /\ vif' = [vif EXCEPT !.drv_conn_state = "DISCONNECTED", !.up = TRUE]
  /\ table' = TRUE /\ fw' = Task("idle") /\ op' = "none"
  /\ UNCHANGED <<count, mgr, cmds, rx, fifo, stack>>

\* What the stack is told when a connect call fails: the attempt is over, the
\* connection it had, if any, is not.
Refused(s) == IF s = "connecting" THEN "idle" ELSE s

\* A first connection, or a roam to another access point of the network.
\* While an attempt or a disconnection runs the call does nothing, and
\* returns 0.
rwnx_cfg80211_connect(einval) ==
  LET roam == drv = "CONNECTED"
      told == IF stack = "idle" THEN "connecting" ELSE stack
  IN
  /\ op = "none" /\ Count
  /\ stack = "idle" \/ (stack = "connected" /\ "roam" \in allow)
  /\ einval => "einval" \in allow
  /\ IF drv \in {"DISCONNECTING", "CONNECTING"}
       THEN /\ vif' = [vif EXCEPT !.is_roam = roam]
            /\ stack' = told /\ UNCHANGED <<op, cmds>>
       ELSE /\ vif' = [vif EXCEPT !.is_roam = roam,
                 !.drv_conn_state = IF roam THEN "ROAMING" ELSE "CONNECTING"]
            /\ IF einval
                 THEN stack' = Refused(told) /\ UNCHANGED <<op, cmds>>
                 ELSE /\ rwnx_send_msg("connect", "connect", "none")
                      \* sm_connect_cfm is not written: any status
                      /\ IF mgr = "CRASHED" THEN stack' \in {told, Refused(told)}
                                            ELSE stack' = told
  /\ UNCHANGED <<count, table, mgr, rx, fifo, fw>>

\* cfg80211 forgets an attempt that it gives up; it keeps a connection until
\* it is told of its end.
rwnx_cfg80211_disconnect ==
  /\ op = "none" /\ stack \in {"connecting", "connected"} /\ Count
  /\ stack' = Refused(stack)
  /\ IF drv \in {"DISCONNECTED", "DISCONNECTING"}
       THEN UNCHANGED <<vif, op, cmds>>
       ELSE IF "preempt" \in allow
         THEN op' = "leave" /\ UNCHANGED <<vif, cmds>>
         ELSE /\ vif' = [vif EXCEPT !.drv_conn_state = "DISCONNECTING"]
              /\ rwnx_send_msg("disconnect", "disconnect", "none")
  /\ UNCHANGED <<count, table, mgr, rx, fifo, fw>>

\* The rest of the call, after it read the state.
DisconnectResumes ==
  /\ op = "leave"
  /\ vif' = [vif EXCEPT !.drv_conn_state = "DISCONNECTING"]
  /\ rwnx_send_msg("disconnect", "disconnect", "none")
  /\ UNCHANGED <<count, table, mgr, rx, fifo, fw, stack, calls>>

rwnx_external_auth_disable(v) == [v EXCEPT !.external_auth = FALSE]

rwnx_cfg80211_external_auth ==
  /\ op = "none" /\ vif.external_auth
  /\ vif' = rwnx_external_auth_disable(vif)
  /\ rwnx_send_msg("auth", "auth", "none")
  /\ UNCHANGED <<count, table, mgr, rx, fifo, fw, stack, calls>>

-----------------------------------------------------------------------------
(* rwnx_close.                                                              *)

Close ==
  /\ op = "none" /\ Count /\ op' = "close_wait"
  /\ UNCHANGED <<vif, count, table, mgr, cmds, rx, fifo, fw, stack>>

\* Up to 20 times 200 ms for an attempt or a disconnection to end.
BugWaitsForDown ==
  /\ op = "close_wait" /\ op' = "close_down"
  /\ drv # "DISCONNECTED" => "slow" \in allow
  /\ UNCHANGED <<vif, count, table, mgr, cmds, rx, fifo, fw, stack, calls>>
CloseWaited ==
  /\ op = "close_wait" /\ op' = "close_down"
  /\ drv \in {"DISCONNECTING", "CONNECTING"} => "slow" \in allow
  /\ UNCHANGED <<vif, count, table, mgr, cmds, rx, fifo, fw, stack, calls>>

CloseDown ==
  /\ op = "close_down" /\ op' = "close_leave"
  /\ vif' = [vif EXCEPT !.up = FALSE, !.carrier = FALSE]
  /\ stack' = IF vif.carrier THEN "idle" ELSE stack
  /\ UNCHANGED <<count, table, mgr, cmds, rx, fifo, fw, calls>>

\* Only an established connection is taken down.
CloseLeave ==
  /\ op = "close_leave"
  /\ IF drv = "CONNECTED"
       THEN /\ vif' = [vif EXCEPT !.drv_conn_state = "DISCONNECTING"]
            /\ rwnx_send_msg("disconnect", "close_leave_sent", "close_settle")
       ELSE op' = "close_remove" /\ UNCHANGED <<vif, cmds>>
  /\ UNCHANGED <<count, table, mgr, rx, fifo, fw, stack, calls>>

\* Up to 20 times 100 ms for the disconnection.
CloseSettled ==
  /\ op = "close_settle" /\ op' = "close_remove"
  /\ drv = "DISCONNECTING" => "slow" \in allow
  /\ UNCHANGED <<vif, count, table, mgr, cmds, rx, fifo, fw, stack, calls>>

BugRemoveUnconfirmed ==
  /\ op = "close_remove" /\ op' = "close_table" /\ cmds' = Append(cmds, "remove")
  /\ UNCHANGED <<vif, count, table, mgr, rx, fifo, fw, stack, calls>>
rwnx_send_remove_if ==
  /\ op = "close_remove"
  /\ rwnx_send_msg("remove", "close_removed", "close_table")
  /\ UNCHANGED <<vif, count, table, mgr, rx, fifo, fw, stack, calls>>

rwnx_chanctx_unlink ==
  IF vif.ch_index THEN count' = (IF count = 0 THEN 0 ELSE count - 1)
                  ELSE UNCHANGED count

\* Under cb_lock, which no handler takes; the stack then clears what it kept
\* of an attempt.
BugKeepsChannel ==
  /\ op = "close_table" /\ op' = "closed"
  /\ table' = FALSE /\ stack' = "idle"
  /\ vif' = [vif EXCEPT !.ch_index = FALSE]
  /\ UNCHANGED <<count, mgr, cmds, rx, fifo, fw, calls>>
CloseTable ==
  /\ op = "close_table" /\ op' = "closed"
  /\ table' = FALSE /\ rwnx_chanctx_unlink
  /\ vif' = [vif EXCEPT !.ch_index = FALSE]
  /\ stack' = "idle"
  /\ UNCHANGED <<mgr, cmds, rx, fifo, fw, calls>>

-----------------------------------------------------------------------------
(* The receive thread.                                                      *)

Took(id) == rx = "idle" /\ fifo # <<>> /\ Head(fifo).id = id /\ fifo' = Tail(fifo)

\* Where a call that waits goes on, and what for.
After == [connect |-> "none", disconnect |-> "none", auth |-> "none",
          close_leave_sent |-> "close_settle", close_removed |-> "close_table"]
Awaits == [connect |-> "connect", disconnect |-> "disconnect", auth |-> "auth",
           close_leave_sent |-> "disconnect", close_removed |-> "remove"]

Confirmed ==
  /\ Took("cfm")
  /\ IF op \in DOMAIN After /\ Awaits[op] = Head(fifo).of
       THEN /\ op' = After[op]
            /\ stack' = IF Head(fifo).ok THEN stack ELSE Refused(stack)
       ELSE UNCHANGED <<op, stack>>
  /\ UNCHANGED <<vif, count, table, mgr, cmds, rx, fw, calls>>

\* The access point is recorded and its channel linked before the handler
\* looks whether the connection is still wanted.
BugUnwantedFirst ==
  /\ Took("connect_ind") /\ table
  /\ LET ind == Head(fifo)
         unwanted == ind.ok /\ drv = "DISCONNECTING"
         joined == IF unwanted THEN vif ELSE
                   IF ind.ok THEN [vif EXCEPT !.ap = TRUE, !.ch_index = TRUE]
                   ELSE [vif EXCEPT !.drv_conn_state = "DISCONNECTED"]
     IN  /\ count' = IF ind.ok /\ ~ unwanted THEN count + 1 ELSE count
         /\ vif' = [joined EXCEPT !.is_roam = IF unwanted THEN FALSE ELSE @]
         /\ rx' = IF unwanted THEN "idle"
                  ELSE IF ind.roamed THEN (IF ind.ok THEN "roamed" ELSE "roam_failed")
                  ELSE (IF ind.ok THEN "joined" ELSE "join_failed")
  /\ UNCHANGED <<table, mgr, op, cmds, fw, stack, calls>>
rwnx_rx_sm_connect_ind ==
  /\ Took("connect_ind") /\ table
  /\ LET ind == Head(fifo)
         unwanted == ind.ok /\ drv = "DISCONNECTING"
         joined == IF ind.ok THEN [vif EXCEPT !.ap = TRUE, !.ch_index = TRUE]
                   ELSE [vif EXCEPT !.drv_conn_state = "DISCONNECTED"]
     IN  /\ count' = IF ind.ok THEN count + 1 ELSE count
         /\ vif' = [joined EXCEPT !.is_roam = IF unwanted THEN FALSE ELSE @]
         /\ rx' = IF unwanted THEN "idle"
                  ELSE IF ind.roamed THEN (IF ind.ok THEN "roamed" ELSE "roam_failed")
                  ELSE (IF ind.ok THEN "joined" ELSE "join_failed")
  /\ UNCHANGED <<table, mgr, op, cmds, fw, stack, calls>>

\* The rest of it, after the state was read: cfg80211 is told, and the state
\* set to what the indication says.
ConnectIndTells ==
  /\ rx \in {"joined", "roamed", "join_failed", "roam_failed"} /\ rx' = "idle"
  /\ IF rx \in {"joined", "roamed"}
       THEN /\ vif' = [vif EXCEPT !.drv_conn_state = "CONNECTED",
                                  !.is_roam = FALSE, !.carrier = TRUE]
            \* cfg80211 ignores a roam of an interface that is not connected
            /\ stack' = IF rx = "joined" THEN "connected" ELSE stack
       ELSE /\ vif' = [rwnx_external_auth_disable(vif) EXCEPT
                         !.drv_conn_state = "DISCONNECTED", !.is_roam = FALSE]
            /\ stack' = "idle"
  /\ UNCHANGED <<count, table, mgr, op, cmds, fifo, fw, calls>>

\* An indication that finds the interface disconnected is dropped.
BugTellsRoamOnly ==
  /\ Took("disconnect_ind") /\ table
  /\ IF drv = "DISCONNECTED"
       THEN UNCHANGED <<vif, count, rx, stack>>
       ELSE /\ vif.ap
            /\ stack' = IF vif.up /\ Head(fifo).reassoc THEN "idle" ELSE stack
            /\ rwnx_chanctx_unlink
            /\ vif' = [rwnx_external_auth_disable(vif) EXCEPT !.ap = FALSE,
                         !.ch_index = FALSE, !.carrier = @ /\ ~ vif.up]
            /\ rx' = "left"
  /\ UNCHANGED <<table, mgr, op, cmds, fw, calls>>
rwnx_rx_sm_disconnect_ind ==
  /\ Took("disconnect_ind") /\ table
  /\ IF drv = "DISCONNECTED"
       THEN UNCHANGED <<vif, count, rx, stack>>
       ELSE /\ vif.ap
            /\ stack' = IF vif.up /\ ~ Head(fifo).reassoc THEN "idle" ELSE stack
            /\ rwnx_chanctx_unlink
            /\ vif' = [rwnx_external_auth_disable(vif) EXCEPT !.ap = FALSE,
                         !.ch_index = FALSE, !.carrier = @ /\ ~ vif.up]
            /\ rx' = "left"
  /\ UNCHANGED <<table, mgr, op, cmds, fw, calls>>

\* Its last step: a roam keeps its state.
BugLossKeepsState ==
  /\ rx = "left" /\ rx' = "idle"
  /\ vif' = [vif EXCEPT !.drv_conn_state = IF drv # "DISCONNECTING" THEN @
                                           ELSE "DISCONNECTED"]
  /\ UNCHANGED <<count, table, mgr, op, cmds, fifo, fw, stack, calls>>
BugRequestKeepsState ==
  /\ rx = "left" /\ rx' = "idle"
  /\ vif' = [vif EXCEPT !.drv_conn_state = IF drv = "DISCONNECTING" THEN @
                                           ELSE "DISCONNECTED"]
  /\ UNCHANGED <<count, table, mgr, op, cmds, fifo, fw, stack, calls>>
DisconnectIndEnds ==
  /\ rx = "left" /\ rx' = "idle"
  /\ vif' = [vif EXCEPT !.drv_conn_state = IF vif.is_roam THEN @ ELSE "DISCONNECTED"]
  /\ UNCHANGED <<count, table, mgr, op, cmds, fifo, fw, stack, calls>>

\* A request that cannot be passed on is answered from the receive thread
\* itself.  With another command outstanding the answer is left to the
\* worker; without, the thread waits for a confirmation that only it could
\* receive, until the command manager gives up for good.  The firmware has
\* the answer either way.
rwnx_rx_sm_external_auth_required_ind ==
  /\ Took("auth_ind") /\ table
  /\ \/ /\ vif.up
        /\ vif' = [vif EXCEPT !.external_auth = TRUE]
        /\ UNCHANGED <<mgr, fw>>
     \/ /\ ~ vif.up \/ "noowner" \in allow
        /\ mgr' = IF op \in DOMAIN After \/ cmds # <<>> THEN mgr ELSE "CRASHED"
        /\ fw' = IF fw.task = "auth" /\ mgr = "INITED"
                   THEN [fw EXCEPT !.task = "denied"] ELSE fw
        /\ UNCHANGED vif
  /\ UNCHANGED <<count, table, op, cmds, rx, stack, calls>>

-----------------------------------------------------------------------------
(* The firmware, from how the handlers use it.  An attempt it accepts ends  *)
(* in one connect_ind; disconnect_ind ends a connection, also one that a    *)
(* roam replaces.  A refusal is part of the confirmation.                   *)

Trying == {"connecting", "auth", "joining", "denied"}
Fw == [task : Trying \union {"absent", "idle", "connected", "leaving"}, roam : BOOLEAN]
cfm(ok) == [id |-> "cfm", of |-> Head(cmds), ok |-> ok]
connect_ind(ok) == [id |-> "connect_ind", ok |-> ok, roamed |-> fw.roam]
disconnect_ind(reassoc) == [id |-> "disconnect_ind", reassoc |-> reassoc]

Says(c, msgs, f) ==
  /\ cmds # <<>> /\ Head(cmds) = c /\ cmds' = Tail(cmds)
  /\ fifo' = fifo \o msgs /\ fw' = f
  /\ UNCHANGED <<vif, count, table, mgr, op, rx, stack, calls>>

FwConnect ==
  \/ /\ fw.task \in Trying \union {"leaving"} \/ "busy" \in allow
     /\ Says("connect", <<cfm(FALSE)>>, fw)
  \/ /\ fw.task = "idle"
     /\ Says("connect", <<cfm(TRUE)>>, Task("connecting"))
  \/ /\ fw.task = "connected"
     /\ Says("connect", <<cfm(TRUE), disconnect_ind(TRUE)>>,
             [task |-> "connecting", roam |-> TRUE])

FwDisconnect ==
  \/ /\ fw.task \in {"idle", "leaving"}
     /\ Says("disconnect", <<cfm(TRUE)>>, fw)
  \/ /\ fw.task \in Trying
     /\ Says("disconnect", <<cfm(TRUE), connect_ind(FALSE)>>, Task("idle"))
  \/ /\ fw.task = "connected"
     /\ Says("disconnect", <<cfm(TRUE)>>, Task("leaving"))

FwAuth == Says("auth", <<cfm(TRUE)>>,
               IF fw.task = "auth" THEN [fw EXCEPT !.task = "joining"] ELSE fw)

FwRemove == Says("remove", <<cfm(TRUE)>>, Task("absent"))

FwGoes(msg, f) ==
  /\ fifo' = Append(fifo, msg) /\ fw' = f
  /\ UNCHANGED <<vif, count, table, mgr, op, cmds, rx, stack, calls>>

FwNeedsAuth ==
  /\ fw.task = "connecting" /\ "sae" \in allow
  /\ FwGoes([id |-> "auth_ind"], [fw EXCEPT !.task = "auth"])

FwJoins ==
  /\ fw.task \in {"connecting", "joining"}
  /\ FwGoes(connect_ind(TRUE), Task("connected"))

FwFails ==
  /\ fw.task \in Trying
  /\ FwGoes(connect_ind(FALSE), Task("idle"))

FwLeft ==
  /\ fw.task = "leaving"
  /\ FwGoes(disconnect_ind(FALSE), Task("idle"))

\* The access point ends the connection.
FwLosesLink ==
  /\ fw.task = "connected" /\ Count
  /\ fifo' = Append(fifo, disconnect_ind(FALSE)) /\ fw' = Task("idle")
  /\ UNCHANGED <<vif, count, table, mgr, op, cmds, rx, stack>>

-----------------------------------------------------------------------------
Same == UNCHANGED allow
Calls ==
  /\ Same
  /\ \/ rwnx_open \/ Close \/ \E einval \in BOOLEAN : rwnx_cfg80211_connect(einval)
     \/ rwnx_cfg80211_disconnect \/ rwnx_cfg80211_external_auth
CloseStep ==
  /\ Same
  /\ \/ CloseWaited \/ CloseDown \/ CloseLeave \/ CloseSettled
     \/ rwnx_send_remove_if \/ CloseTable
Disconnects == Same /\ DisconnectResumes
Receive ==
  /\ Same
  /\ \/ Confirmed \/ rwnx_rx_sm_connect_ind \/ ConnectIndTells
     \/ rwnx_rx_sm_disconnect_ind \/ DisconnectIndEnds
     \/ rwnx_rx_sm_external_auth_required_ind
Answers == Same /\ (FwConnect \/ FwDisconnect \/ FwAuth \/ FwRemove)
Ends == Same /\ (FwJoins \/ FwFails \/ FwLeft)
Goes == Same /\ (FwNeedsAuth \/ FwLosesLink)

Next == Calls \/ CloseStep \/ Disconnects \/ Receive \/ Answers \/ Ends \/ Goes

Spec == Init /\ [][Next]_vars

\* Threads run, and the firmware answers and ends what it began.
Fairness == /\ WF_vars(CloseStep) /\ WF_vars(Disconnects)
            /\ WF_vars(Receive) /\ WF_vars(Answers) /\ WF_vars(Ends)
LiveSpec == Spec /\ Fairness

-----------------------------------------------------------------------------
\* Every variable has its type.
TypeOK ==
  /\ allow \in Allows
  /\ vif \in Vif /\ count \in Nat /\ table \in BOOLEAN
  /\ mgr \in {"INITED", "CRASHED"} /\ op \in Op /\ cmds \in Seq(Cmd)
  /\ rx \in {"idle", "joined", "roamed", "join_failed", "roam_failed", "left"}
  /\ fw \in Fw
  /\ stack \in {"idle", "connecting", "connected"} /\ calls \in 0..MaxCalls[allow]

\* No indication reaches a handler once rwnx_close took the interface out of
\* vif_table: the handlers use the entry before, or without, looking at it.
NoNullVif ==
  rx = "idle" /\ fifo # <<>> /\ Head(fifo).id # "cfm" => table

\* rwnx_rx_sm_disconnect_ind uses sta.ap without looking: it must find the
\* access point that an earlier connect_ind recorded.
ApThere ==
  rx = "idle" /\ fifo # <<>> /\ Head(fifo).id = "disconnect_ind"
    /\ drv # "DISCONNECTED" => vif.ap

\* The interface holds its channel context exactly once while it has an
\* access point, and the context counts its one user.
ChanCounted ==
  /\ count = IF vif.ch_index THEN 1 ELSE 0
  /\ vif.ch_index => vif.ap

\* rwnx_rx_sm_disconnect_ind uses sta.ap without looking: whatever happens it
\* finds the access point that an earlier connect_ind recorded, and the
\* interface holds its channel context exactly once while it has one.  As long
\* as the command that removes the interface is confirmed (nobody else's is
\* outstanding, nor is authentication left to the user), no indication reaches
\* a handler after rwnx_close took it out of vif_table.
ApRecorded ==
  /\ TypeOK /\ ApThere /\ ChanCounted
  /\ allow \intersect {"sae", "defer"} = {} => NoNullVif

\* The interface is open and nobody has anything left to do.
Settled == /\ op = "none" /\ cmds = <<>> /\ rx = "idle" /\ fifo = <<>>
           /\ fw.task \in {"idle", "connected"}

\* Whatever overtook what, once all is quiet the driver and the stack have a
\* connection exactly when the firmware has one.
LinkTold ==
  Settled =>
    /\ (fw.task = "connected") = vif.ch_index
    /\ (fw.task = "connected") = (stack = "connected")

\* So does drv_conn_state, on which every later call depends.
StateAgrees ==
  Settled => drv = IF fw.task = "connected" THEN "CONNECTED" ELSE "DISCONNECTED"

\* If only the user roams or authenticates itself, once all is quiet the driver
\* and the stack have a connection exactly when the firmware has one, and so
\* does drv_conn_state if nobody roams.
LinkAgrees ==
  /\ allow \subseteq {"roam", "sae"} => LinkTold
  /\ allow \subseteq {"sae"} => StateAgrees

\* A connect call that returned 0 is followed by a result: cfg80211 is not
\* left waiting when nobody has anything left to do.
\* Not kept by the code, see the README.
NoLostConnect == Settled => stack # "connecting"

\* A disconnection ends.
DisconnectEnds == drv = "DISCONNECTING" ~> drv # "DISCONNECTING"

\* rwnx_close returns.
CloseReturns == op = "close_wait" ~> op = "closed"
=============================================================================
