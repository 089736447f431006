----------------------------- MODULE ApStations -----------------------------
(***************************************************************************)
(* The stations of an access point in the AIC8800 WiFi driver: the calls   *)
(* that add, remove and probe them and stop the access point, the work     *)
(* that removes a station the firmware lost, and the indication that a     *)
(* station sleeps.  The calls of the stack are serialised; the receive     *)
(* thread and the two workers run beside them.                             *)
(*                                                                         *)
(* A command whose caller takes no answer waits for it if nothing else is  *)
(* queued, and is left to the command worker otherwise; one whose caller   *)
(* takes the answer waits for the queue to be empty first (see CmdMgr).    *)
(***************************************************************************)
EXTENDS Naturals, Sequences

CONSTANTS
  Mac, Slot,   \* stations, and entries of sta_table
  NoMac,
  Allows,      \* sets of Inputs: what may happen in a behaviour
  MaxCalls,    \* bound: calls of the stack, by what may happen
  MaxEvents    \* bound: stations falling asleep, waking or lost

\* "early": the firmware indicates something of a station still being added
\* "lost": the firmware loses a station
\* "two": and another one before the first is removed
\* "nomem": there is no memory for the command that adds a station
\* "preempt": a call or a handler is interrupted where it does not wait
Inputs == {"early", "lost", "two", "nomem", "preempt"}

ASSUME ApAssumption ==
  /\ Allows \subseteq SUBSET Inputs /\ NoMac \notin Mac
  /\ MaxCalls \in [Allows -> Nat] /\ MaxEvents \in Nat

VARIABLES
  allow,       \* which of Inputs may happen: the same for all of a behaviour
  sta,         \* sta_table: [valid, mac, ps] of every entry
  sta_list,    \* entries in ap.sta_list
  txqs,        \* entries whose queues are active
  adding_sta, started,
  th,          \* what the call of the stack and the staloss work do
  sta_mac_addr, loss_queued,  \* of the staloss work
  probe,       \* sta_probe, and what its work does
  given,       \* cookies returned by probe_client and not answered since
  rx,          \* the handler of a power save indication
  cmds,        \* commands queued
  fifo,        \* messages from the firmware
  fwsta, fwps, fwlost,  \* stations of the firmware, asleep, lost
  calls, events

driver == <<sta, sta_list, txqs, adding_sta, started>>
work == <<sta_mac_addr, loss_queued>>
probing == <<probe, given>>
fw == <<fwsta, fwps, fwlost>>
bounds == <<calls, events>>
vars == <<allow, driver, th, work, probing, rx, cmds, fifo, fw, bounds>>

None == [pc |-> "none"]
Actor == {"call", "loss"}

Init ==
  /\ allow \in Allows
  /\ sta = [s \in Slot |-> [valid |-> FALSE, mac |-> NoMac, ps |-> FALSE]]
  /\ sta_list = {} /\ txqs = {} /\ adding_sta = FALSE /\ started = FALSE
  /\ th = [a \in Actor |-> None] /\ sta_mac_addr = NoMac /\ loss_queued = FALSE
  /\ probe = [mac |-> NoMac, id |-> 0, queued |-> FALSE, told |-> FALSE]
  /\ given = {}
  /\ rx = None /\ cmds = <<>> /\ fifo = <<>>
  /\ fwsta = [s \in Slot |-> NoMac] /\ fwps = {} /\ fwlost = {}
  /\ calls = 0 /\ events = 0

Goto(a, st) == th' = [th EXCEPT ![a] = st]
At(a, pc) == th[a].pc = pc

\* A call of the stack begins.
Call == At("call", "none") /\ calls < MaxCalls[allow] /\ calls' = calls + 1 /\ UNCHANGED events

-----------------------------------------------------------------------------
(* Adding a station.                                                        *)

\* hostapd removes a station before it adds it again.  The command may fail
\* before it is sent.
rwnx_cfg80211_add_station(m) ==
  /\ Call /\ started /\ m \notin {sta[s].mac : s \in sta_list} /\ cmds = <<>>
  /\ adding_sta' = TRUE
  /\ \/ Goto("call", [pc |-> "wait"]) /\ cmds' = <<[id |-> "add", mac |-> m, by |-> "call"]>>
     \/ "nomem" \in allow /\ UNCHANGED <<th, cmds>>
  /\ UNCHANGED <<sta, sta_list, txqs, started, work, probing, rx, fifo, fw>>

\* The answer is there: the entry is filled in and listed.  The state the
\* queues get is what the entry and the answer say here.
BugEnablesAnswer ==
  /\ At("call", "added")
  /\ LET s == th["call"].slot IN
       /\ sta' = [sta EXCEPT ![s].valid = TRUE, ![s].mac = th["call"].mac]
       /\ sta_list' = sta_list \union {s} /\ txqs' = txqs \union {s}
       /\ Goto("call", [pc |-> "ps", slot |-> s, on |-> sta[s].ps])
  /\ UNCHANGED <<adding_sta, started, work, probing, rx, cmds, fifo, fw, bounds>>
AddFills ==
  /\ At("call", "added")
  /\ LET s == th["call"].slot IN
       /\ sta' = [sta EXCEPT ![s].valid = TRUE, ![s].mac = th["call"].mac]
       /\ sta_list' = sta_list \union {s} /\ txqs' = txqs \union {s}
       /\ Goto("call", [pc |-> "ps", slot |-> s, on |-> sta[s].ps \/ th["call"].pm])
  /\ UNCHANGED <<adding_sta, started, work, probing, rx, cmds, fifo, fw, bounds>>

AddEnds ==
  /\ At("call", "ps")
  /\ sta' = [sta EXCEPT ![th["call"].slot].ps = th["call"].on]
  /\ adding_sta' = FALSE /\ Goto("call", None)
  /\ UNCHANGED <<sta_list, txqs, started, work, probing, rx, cmds, fifo, fw, bounds>>

-----------------------------------------------------------------------------
(* Removing a station, by a call or by the staloss work.                    *)

\* Under cb_lock the entry is taken from the list.
Unlist(a, s, after) ==
  /\ sta' = [sta EXCEPT ![s].valid = FALSE, ![s].ps = FALSE]
  /\ sta_list' = sta_list \ {s}
  /\ Goto(a, [pc |-> "deinit", slot |-> s, after |-> after])

rwnx_txq_sta_deinit(a) ==
  /\ At(a, "deinit") /\ txqs' = txqs \ {th[a].slot}
  /\ Goto(a, [pc |-> "send", slot |-> th[a].slot, after |-> th[a].after])
  /\ UNCHANGED <<sta, sta_list, adding_sta, started, work, probing, rx, cmds, fifo, fw,
                 bounds>>

\* What a removal goes on with.
Removed(a) == [pc |-> th[a].after]

BugNotSent(a) ==
  /\ At(a, "send") /\ Goto(a, Removed(a))
  /\ UNCHANGED <<driver, work, probing, rx, cmds, fifo, fw, bounds>>
rwnx_send_me_sta_del(a) ==
  /\ At(a, "send")
  /\ LET waits == cmds = <<>> IN
       /\ cmds' = Append(cmds, [id |-> "del", slot |-> th[a].slot,
                                by |-> IF waits THEN a ELSE "none"])
       /\ Goto(a, IF waits THEN [pc |-> "wait", slot |-> th[a].slot, after |-> th[a].after]
                      ELSE Removed(a))
  /\ UNCHANGED <<driver, work, probing, rx, fifo, fw, bounds>>

\* One station, or with no address all of them, one after the other.
rwnx_cfg80211_del_station_compat(m) ==
  /\ Call
  /\ IF m = NoMac THEN Goto("call", [pc |-> "flush"]) /\ UNCHANGED <<sta, sta_list>>
     ELSE \E s \in sta_list : sta[s].mac = m /\ Unlist("call", s, "none")
  /\ UNCHANGED <<txqs, adding_sta, started, work, probing, rx, cmds, fifo, fw>>
DelNext ==
  /\ th["call"].pc \in {"flush", "stopping"}
  /\ \/ \E s \in sta_list : Unlist("call", s, th["call"].pc)
     \/ /\ sta_list = {} /\ UNCHANGED <<sta, sta_list>>
        /\ Goto("call", [pc |-> IF At("call", "flush") THEN "none" ELSE "stop"])
  /\ UNCHANGED <<txqs, adding_sta, started, work, probing, rx, cmds, fifo, fw, bounds>>

\* The station is looked up by the address stored last.
BugLosesLater ==
  /\ At("loss", "none") /\ loss_queued /\ loss_queued' = FALSE
  /\ UNCHANGED <<th, sta, sta_list>>
  /\ UNCHANGED <<txqs, adding_sta, started, sta_mac_addr, probing, rx, cmds, fifo, fw, bounds>>
apm_staloss_work_process ==
  /\ At("loss", "none") /\ loss_queued /\ loss_queued' = FALSE
  /\ \/ \E s \in sta_list : sta[s].mac = sta_mac_addr /\ Unlist("loss", s, "none")
     \/ /\ \A s \in sta_list : sta[s].mac # sta_mac_addr
        /\ UNCHANGED <<th, sta, sta_list>>
  /\ UNCHANGED <<txqs, adding_sta, started, sta_mac_addr, probing, rx, cmds, fifo, fw, bounds>>

-----------------------------------------------------------------------------
(* Starting and stopping the access point.                                  *)

rwnx_cfg80211_start_ap ==
  /\ Call /\ ~ started /\ started' = TRUE
  /\ UNCHANGED <<sta, sta_list, txqs, adding_sta, th, work, probing, rx, cmds, fifo, fw>>

rwnx_cfg80211_stop_ap ==
  /\ Call /\ started /\ Goto("call", [pc |-> "stopping"])
  /\ UNCHANGED <<driver, work, probing, rx, cmds, fifo, fw>>

rwnx_send_apm_stop_req ==
  /\ At("call", "stop")
  /\ LET waits == cmds = <<>> IN
       /\ cmds' = Append(cmds, [id |-> "stop", by |-> IF waits THEN "call" ELSE "none"])
       /\ Goto("call", [pc |-> IF waits THEN "wait" ELSE "stopped"])
  /\ UNCHANGED <<driver, work, probing, rx, fifo, fw, bounds>>

\* The probe worker is waited for.
StopEnds ==
  /\ At("call", "stopped") /\ ~ probe.queued /\ ~ probe.told
  /\ started' = FALSE /\ Goto("call", None)
  /\ UNCHANGED <<sta, sta_list, txqs, adding_sta, work, probing, rx, cmds, fifo, fw, bounds>>

-----------------------------------------------------------------------------
(* Probing a station.                                                       *)

\* An unknown station is not noticed.
rwnx_cfg80211_probe_client(m) ==
  /\ Call /\ started /\ (probe.told => "preempt" \in allow)
  /\ Goto("call", [pc |-> "cookie"])
  /\ probe' = [probe EXCEPT !.mac = m, !.queued = TRUE]
  /\ UNCHANGED <<driver, work, given, rx, cmds, fifo, fw>>

ProbeReturns ==
  /\ At("call", "cookie") /\ given' = given \union {probe.id} /\ Goto("call", None)
  /\ UNCHANGED <<driver, work, probe, rx, cmds, fifo, fw, bounds>>

\* The work tells cfg80211 and then counts.
BugCountsFirst ==
  /\ probe.queued /\ ~ probe.told /\ (At("call", "cookie") => "preempt" \in allow)
  /\ probe' = [probe EXCEPT !.queued = FALSE, !.id = @ + 1]
  /\ given' = given \ {probe.id + 1}
  /\ UNCHANGED <<driver, th, work, rx, cmds, fifo, fw, bounds>>
apm_probe_sta_work_process ==
  /\ probe.queued /\ ~ probe.told /\ (At("call", "cookie") => "preempt" \in allow)
  /\ probe' = [probe EXCEPT !.queued = FALSE, !.told = TRUE]
  /\ given' = given \ {probe.id}
  /\ UNCHANGED <<driver, th, work, rx, cmds, fifo, fw, bounds>>

ProbeCounts ==
  /\ probe.told /\ (At("call", "cookie") => "preempt" \in allow)
  /\ probe' = [probe EXCEPT !.told = FALSE, !.id = @ + 1]
  /\ UNCHANGED <<driver, th, work, given, rx, cmds, fifo, fw, bounds>>

-----------------------------------------------------------------------------
(* The receive thread.                                                      *)

Received(id) ==
  rx = None /\ fifo # <<>> /\ Head(fifo).id = id /\ fifo' = Tail(fifo)

\* The command the firmware answers leaves the queue, and its caller goes on.
Confirmed ==
  /\ Received("cfm") /\ cmds' = Tail(cmds)
  /\ LET c == Head(cmds)
         answer == Head(fifo)
     IN  th' = IF c.by = "none" THEN th
               ELSE [th EXCEPT ![c.by] =
                 CASE c.id = "del" -> Removed(c.by)
                   [] c.id = "stop" -> [pc |-> "stopped"]
                   [] c.id = "add" /\ answer.ok ->
                        [pc |-> "added", slot |-> answer.slot, pm |-> answer.pm,
                         mac |-> c.mac]
                   [] OTHER -> [pc |-> "refused"]]
  /\ UNCHANGED <<driver, work, probing, rx, fw, bounds>>

AddRefused ==
  /\ At("call", "refused") /\ adding_sta' = FALSE /\ Goto("call", None)
  /\ UNCHANGED <<sta, sta_list, txqs, started, work, probing, rx, cmds, fifo, fw, bounds>>

rwnx_apm_staloss_ind ==
  /\ Received("loss") /\ sta_mac_addr' = Head(fifo).mac /\ loss_queued' = TRUE
  /\ UNCHANGED <<driver, th, probing, rx, cmds, fw, bounds>>

\* What it does is decided by `valid` and `adding_sta` as they are now.
rwnx_rx_ps_change_ind ==
  /\ Received("ps")
  /\ rx' = IF sta[Head(fifo).slot].valid \/ adding_sta
             THEN [pc |-> "set", slot |-> Head(fifo).slot, on |-> Head(fifo).on]
             ELSE None
  /\ UNCHANGED <<driver, th, work, probing, cmds, fw, bounds>>

rwnx_ps_bh_enable ==
  /\ rx.pc = "set" /\ rx' = None /\ sta' = [sta EXCEPT ![rx.slot].ps = rx.on]
  /\ UNCHANGED <<sta_list, txqs, adding_sta, started, th, work, probing, cmds, fifo, fw,
                 bounds>>

-----------------------------------------------------------------------------
(* The firmware.  An entry is its own until the command that deletes it.    *)

Send(m) == fifo' = Append(fifo, m)
FwOnly == UNCHANGED <<driver, th, work, probing, rx, cmds>>
Unanswered == cmds # <<>> /\ \A i \in DOMAIN fifo : fifo[i].id # "cfm"

FwAdds ==
  /\ Unanswered /\ Head(cmds).id = "add" /\ FwOnly
  /\ \/ \E s \in Slot, pm \in BOOLEAN :
          /\ fwsta[s] = NoMac /\ fwsta' = [fwsta EXCEPT ![s] = Head(cmds).mac]
          /\ fwps' = IF pm THEN fwps \union {s} ELSE fwps
          /\ Send([id |-> "cfm", ok |-> TRUE, slot |-> s, pm |-> pm])
     \/ /\ \A s \in Slot : fwsta[s] # NoMac
        /\ Send([id |-> "cfm", ok |-> FALSE]) /\ UNCHANGED <<fwsta, fwps>>
  /\ UNCHANGED <<fwlost, bounds>>

FwDeletes ==
  /\ Unanswered /\ Head(cmds).id = "del" /\ FwOnly
  /\ LET s == Head(cmds).slot IN
       /\ fwsta' = [fwsta EXCEPT ![s] = NoMac]
       /\ fwps' = fwps \ {s} /\ fwlost' = fwlost \ {s}
  /\ Send([id |-> "cfm"]) /\ UNCHANGED bounds

FwStops ==
  /\ Unanswered /\ Head(cmds).id = "stop" /\ FwOnly /\ Send([id |-> "cfm"])
  /\ UNCHANGED <<fw, bounds>>

\* A station the firmware has, whose addition is over unless that is allowed.
Settled(s) ==
  /\ fwsta[s] # NoMac /\ events < MaxEvents /\ events' = events + 1
  /\ th["call"].pc \in {"added", "ps", "wait"} => "early" \in allow \/ s \in sta_list
  /\ FwOnly /\ UNCHANGED calls

FwSleeps(s) ==
  /\ Settled(s) /\ fwps' = IF s \in fwps THEN fwps \ {s} ELSE fwps \union {s}
  /\ Send([id |-> "ps", slot |-> s, on |-> s \notin fwps])
  /\ UNCHANGED <<fwsta, fwlost>>

FwLoses(s) ==
  /\ "lost" \in allow /\ Settled(s) /\ s \notin fwlost /\ (fwlost = {} \/ "two" \in allow)
  /\ fwlost' = fwlost \union {s} /\ Send([id |-> "loss", mac |-> fwsta[s]])
  /\ UNCHANGED <<fwsta, fwps>>

-----------------------------------------------------------------------------
\* Without preemption neither the handler of an indication nor the end of an
\* addition is interrupted.
MayRun == rx = None \/ "preempt" \in allow
Same == UNCHANGED allow

Stack ==
  /\ MayRun /\ Same
  /\ \/ \E m \in Mac : rwnx_cfg80211_add_station(m) \/ rwnx_cfg80211_probe_client(m)
     \/ \E m \in Mac \union {NoMac} : rwnx_cfg80211_del_station_compat(m)
     \/ rwnx_cfg80211_start_ap \/ rwnx_cfg80211_stop_ap

Goes(a) == rwnx_txq_sta_deinit(a) \/ rwnx_send_me_sta_del(a)
Calls ==
  /\ MayRun /\ Same
  /\ \/ Goes("call") \/ AddFills \/ AddEnds \/ AddRefused \/ DelNext
     \/ rwnx_send_apm_stop_req \/ StopEnds \/ ProbeReturns
Lost == MayRun /\ Same /\ (Goes("loss") \/ apm_staloss_work_process)
Probes == Same /\ (apm_probe_sta_work_process \/ ProbeCounts)
Receive ==
  /\ Same /\ (At("call", "ps") => "preempt" \in allow)
  /\ Confirmed \/ rwnx_apm_staloss_ind \/ rwnx_rx_ps_change_ind \/ rwnx_ps_bh_enable

Answer == Same /\ (FwAdds \/ FwDeletes \/ FwStops)
Firmware == Same /\ \E s \in Slot : FwSleeps(s) \/ FwLoses(s)

Next == Stack \/ Calls \/ Lost \/ Probes \/ Receive \/ Answer \/ Firmware

Spec == Init /\ [][Next]_vars

\* Threads run and the firmware answers.
LiveSpec ==
  /\ Spec
  /\ WF_vars(Calls) /\ WF_vars(Lost) /\ WF_vars(Probes) /\ WF_vars(Receive) /\ WF_vars(Answer)

-----------------------------------------------------------------------------
TypeOK ==
  /\ sta \in [Slot -> [valid : BOOLEAN, mac : Mac \union {NoMac}, ps : BOOLEAN]]
  /\ sta_list = {s \in Slot : sta[s].valid} /\ txqs \subseteq Slot
  /\ adding_sta \in BOOLEAN /\ started \in BOOLEAN /\ loss_queued \in BOOLEAN
  /\ sta_mac_addr \in Mac \union {NoMac} /\ fwsta \in [Slot -> Mac \union {NoMac}]
  /\ fwps \subseteq Slot /\ fwlost \subseteq Slot
  /\ allow \in Allows /\ calls \in 0..MaxCalls[allow] /\ events \in 0..MaxEvents

Quiet ==
  /\ cmds = <<>> /\ fifo = <<>> /\ rx = None /\ ~ loss_queued
  /\ \A a \in Actor : At(a, "none")

\* Whatever order the calls and the staloss work unlist a station, take down
\* its queues and tell the firmware in, and however soon the firmware uses the
\* entry again, in the end the driver lists the stations the firmware has,
\* under their addresses, and they are the ones with queues.
SlotsAgree ==
  Quiet => /\ sta_list = {s \in Slot : fwsta[s] # NoMac} /\ txqs = sta_list
           /\ \A s \in sta_list : sta[s].mac = fwsta[s]

\* When every indication is handled the driver holds back the frames of
\* exactly the stations that the firmware says are asleep: the add_station
\* call and the indication's handler agree about who applies it.
PsAgrees == Quiet => \A s \in sta_list : sta[s].ps = (s \in fwps)

\* The firmware is told to stop the access point after it deleted every
\* station (stop_ap: "delete any remaining STA").
StopDeletesAll ==
  cmds # <<>> /\ Head(cmds).id = "stop" => \A s \in Slot : fwsta[s] = NoMac

\* In whatever order the calls and the two workers unlist stations and tell
\* the firmware, in the end the driver lists the ones the firmware has.  If no
\* station is lost or indicated while it is added and no handler is
\* interrupted, the driver holds back the frames of exactly those that sleep
\* (rwnx_rx_ps_change_ind) and the firmware is told to stop the access point
\* after it deleted them all (rwnx_cfg80211_stop_ap).
StationsAgree ==
  TypeOK /\ SlotsAgree /\ (allow = {} => PsAgrees /\ StopDeletesAll)

\* A station the firmware reports as lost is removed.
LossRemoved == \A s \in Slot : s \in fwlost ~> s \notin fwlost

\* A cookie that probe_client returned is passed to cfg80211_probe_status
\* afterwards, also one it has returned before.
ProbeAnswered == \A c \in UNION {0..MaxCalls[a] : a \in Allows} : c \in given ~> c \notin given

=============================================================================
