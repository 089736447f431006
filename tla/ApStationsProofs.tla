-------------------------- MODULE ApStationsProofs --------------------------
(***************************************************************************)
(* Proofs about ApStations, for any stations, any size of sta_table and    *)
(* any bounds: driver and firmware agree about the stations there are, and *)
(* without interruptions about those that sleep.                           *)
(***************************************************************************)
EXTENDS ApStations, Integers, SequenceTheorems, TLAPS

-----------------------------------------------------------------------------
(* What the threads, the commands and the messages look like.               *)

After == {"none", "flush", "stopping"}
Plain == {"none", "flush", "stopping", "stop", "stopped", "cookie", "refused"}

Removal == [pc : {"deinit", "send", "wait"}, slot : Slot, after : After]
Thread ==
  [pc : Plain \union {"wait"}] \union Removal
    \union [pc : {"added"}, slot : Slot, pm : BOOLEAN, mac : Mac]
    \union [pc : {"ps"}, slot : Slot, on : BOOLEAN]

Cmd ==
  [id : {"add"}, mac : Mac, by : {"call"}]
    \union [id : {"del"}, slot : Slot, by : Actor \union {"none"}]
    \union [id : {"stop"}, by : {"call", "none"}]

Added == [id : {"cfm"}, ok : {TRUE}, slot : Slot, pm : BOOLEAN]
Refusal == [id : {"cfm"}, ok : {FALSE}]
Ps == [id : {"ps"}, slot : Slot, on : BOOLEAN]
Msg == Added \union Refusal \union Ps \union [id : {"cfm"}] \union [id : {"loss"}, mac : Mac]

TypeInv ==
  /\ TypeOK
  /\ th \in [Actor -> Thread]
  /\ th["loss"].pc \in {"none", "deinit", "send", "wait"}
  /\ th["loss"].pc # "none" => th["loss"] \in Removal /\ th["loss"].after = "none"
  /\ cmds \in Seq(Cmd) /\ fifo \in Seq(Msg)
  /\ rx \in {None} \union [pc : {"set"}, slot : Slot, on : BOOLEAN]

\* Only the first command has somebody waiting for it, and he waits for that
\* one; the firmware answers one command at a time.
QueueInv ==
  /\ \A i \in 2..Len(cmds) : cmds[i].by = "none" /\ cmds[i].id # "add"
  /\ \A a \in Actor : th[a].pc = "wait" => cmds # <<>> /\ cmds[1].by = a
  /\ cmds # <<>> /\ cmds[1].by # "none" =>
       /\ th[cmds[1].by].pc = "wait"
       /\ cmds[1].id = "del" => /\ th[cmds[1].by] \in Removal
                                /\ th[cmds[1].by].slot = cmds[1].slot
  /\ \A i, j \in 1..Len(fifo) : fifo[i].id = "cfm" /\ fifo[j].id = "cfm" => i = j
  /\ \A i \in 1..Len(fifo) : fifo[i].id = "cfm" =>
       /\ cmds # <<>>
       /\ cmds[1].id = "add" => fifo[i] \in Added \union Refusal

-----------------------------------------------------------------------------
(* Where the driver has a station of the firmware: in the list (0), on its  *)
(* way into it (-1), in the hands of the call (-2) or of the staloss work   *)
(* (-3) that removes it, or in the command that deletes it (its index).     *)

Answered == \E i \in 1..Len(fifo) : fifo[i].id = "cfm"
Coming(i, s) == cmds # <<>> /\ cmds[1].id = "add" /\ fifo[i] \in Added /\ fifo[i].slot = s
Awaited(s) == \E i \in 1..Len(fifo) : Coming(i, s)
Adding(s) == (th["call"].pc = "added" /\ th["call"].slot = s) \/ Awaited(s)
Removing(a, s) == th[a].pc \in {"deinit", "send"} /\ th[a].slot = s
Deleting(i, s) == cmds[i].id = "del" /\ cmds[i].slot = s /\ (i = 1 => ~ Answered)

Place == {-3, -2, -1, 0} \union (Nat \ {0})
In(p, s) ==
  \/ p = 0 /\ s \in sta_list
  \/ p = -1 /\ Adding(s)
  \/ p = -2 /\ Removing("call", s)
  \/ p = -3 /\ Removing("loss", s)
  \/ p \in 1..Len(cmds) /\ Deleting(p, s)

\* The firmware has the stations that are in some place, and each is in one:
\* it does not use an entry again that somebody still works on.
Covered == \A s \in Slot : fwsta[s] # NoMac <=> \E p \in Place : In(p, s)
Single == \A s \in Slot : \A p, q \in Place : In(p, s) /\ In(q, s) => p = q
Queued ==
  \A s \in Slot : s \in txqs <=> s \in sta_list \/ \E a \in Actor : At(a, "deinit") /\ th[a].slot = s
Named ==
  /\ \A s \in sta_list : sta[s].mac = fwsta[s]
  /\ At("call", "added") => th["call"].mac = fwsta[th["call"].slot]
  /\ \A s \in Slot : Awaited(s) => cmds[1].mac = fwsta[s]
PlaceInv == Covered /\ Single /\ Queued /\ Named

-----------------------------------------------------------------------------
(* When nothing but calls and sleeping stations happens.                    *)

PsMsg(i, s) == fifo[i] \in Ps /\ fifo[i].slot = s
LastPs(i, s) == PsMsg(i, s) /\ \A j \in 1..Len(fifo) : PsMsg(j, s) => j <= i

\* What the driver will think of s when the call and the handler are done.
Believed(s) ==
  IF rx # None /\ rx.slot = s THEN rx.on
  ELSE IF At("call", "ps") /\ th["call"].slot = s THEN th["call"].on
  ELSE sta[s].ps

\* Calls are alone: one command at a time, which they wait for.
CallInv ==
  /\ At("loss", "none") /\ ~ loss_queued
  /\ \A i \in 1..Len(fifo) : fifo[i].id # "loss"
  /\ cmds # <<>> => Len(cmds) = 1 /\ cmds[1].by = "call"
  /\ th["call"].pc = "stop" => sta_list = {}
  /\ cmds # <<>> /\ cmds[1].id = "stop" => sta_list = {}
  /\ adding_sta => \/ th["call"].pc \in {"added", "ps", "refused"}
                   \/ cmds # <<>> /\ cmds[1].id = "add"
  /\ At("call", "ps") => rx = None /\ th["call"].slot \in sta_list
  /\ rx # None => rx.slot \in sta_list

\* An indication that is under way is of a station that is listed, or will be
\* handled before it is gone; the last one of a station says what is true.
Alive == \A s \in fwps : fwsta[s] # NoMac
Cleared == \A s \in Slot \ sta_list : ~ sta[s].ps
Told ==
  /\ At("call", "added") => th["call"].pm = (th["call"].slot \in fwps)
  /\ \A s \in Slot, i \in 1..Len(fifo) : Coming(i, s) => fifo[i].pm = (s \in fwps)
Handled ==
  \A s \in Slot, i \in 1..Len(fifo) : PsMsg(i, s) =>
    \/ s \in sta_list \/ Removing("call", s)
    \/ /\ cmds # <<>> /\ cmds[1].id = "del" /\ cmds[1].slot = s
       /\ \A j \in 1..Len(fifo) : fifo[j].id = "cfm" => i < j
Latest == \A s \in sta_list, i \in 1..Len(fifo) : LastPs(i, s) => fifo[i].on = (s \in fwps)
Agreed ==
  \A s \in sta_list : (\A i \in 1..Len(fifo) : ~ PsMsg(i, s)) => Believed(s) = (s \in fwps)
SleepInv == Alive /\ Cleared /\ Told /\ Handled /\ Latest /\ Agreed

CalmInv == allow = {} => CallInv /\ SleepInv

IInv == TypeInv /\ QueueInv /\ PlaceInv /\ CalmInv

-----------------------------------------------------------------------------
(* Sequences and records.                                                   *)

\* A sequence with one more element.
LEMMA Appended ==
  ASSUME NEW S, NEW s \in Seq(S), NEW e \in S
  PROVE  /\ Append(s, e) \in Seq(S) /\ Len(Append(s, e)) = Len(s) + 1
         /\ \A i \in 1..Len(s) : Append(s, e)[i] = s[i]
         /\ Append(s, e)[Len(s) + 1] = e /\ Len(s) \in Nat /\ Append(s, e) # <<>>
BY AppendProperties

\* A sequence without its first element.
LEMMA Tailed ==
  ASSUME NEW S, NEW s \in Seq(S), s # <<>>
  PROVE  /\ Tail(s) \in Seq(S) /\ Len(Tail(s)) = Len(s) - 1 /\ Len(s) \in Nat \ {0}
         /\ \A i \in 1..Len(s) - 1 : Tail(s)[i] = s[i + 1]
         /\ Head(s) = s[1] /\ s[1] \in S
<1>1. Len(s) \in Nat \ {0} /\ Head(s) = s[1] /\ s[1] \in S
  BY EmptySeq
<1>2. Tail(s) \in Seq(S) /\ Len(Tail(s)) = Len(s) - 1
  BY HeadTailProperties
<1>3. \A i \in 1..Len(s) - 1 : Tail(s)[i] = s[i + 1]
  BY HeadTailProperties
<1> QED BY <1>1, <1>2, <1>3

\* What is known of a thread by where it is.
LEMMA ThreadFields ==
  ASSUME NEW t \in Thread
  PROVE  /\ t.pc \in Plain \union {"wait", "deinit", "send", "added", "ps"}
         /\ t.pc \in {"deinit", "send"} => t \in Removal
         /\ t \in Removal => t.slot \in Slot /\ t.after \in After
         /\ t.pc = "added" => t.slot \in Slot /\ t.pm \in BOOLEAN /\ t.mac \in Mac
         /\ t.pc = "ps" => t.slot \in Slot /\ t.on \in BOOLEAN
BY DEF Thread, Removal, Plain

\* The values that the steps give a thread.
LEMMA ThreadMade ==
  /\ \A x \in Plain \union {"wait"} : [pc |-> x] \in Thread /\ [pc |-> x].pc = x
  /\ \A x \in {"deinit", "send", "wait"}, s \in Slot, k \in After :
       LET t == [pc |-> x, slot |-> s, after |-> k]
       IN t \in Removal /\ t \in Thread /\ t.pc = x /\ t.slot = s /\ t.after = k
  /\ \A s \in Slot, b \in BOOLEAN, m \in Mac :
       [pc |-> "added", slot |-> s, pm |-> b, mac |-> m] \in Thread
  /\ \A s \in Slot, b \in BOOLEAN : [pc |-> "ps", slot |-> s, on |-> b] \in Thread
  /\ None \in Thread /\ None.pc = "none"
BY DEF Thread, Removal, None, Plain

\* What is known of a command.
LEMMA CmdFields ==
  ASSUME NEW c \in Cmd
  PROVE  /\ c.id \in {"add", "del", "stop"} /\ c.by \in Actor \union {"none"}
         /\ c.id = "add" => c.mac \in Mac /\ c.by = "call"
         /\ c.id = "del" => c.slot \in Slot
         /\ c.id = "stop" => c.by \in {"call", "none"}
BY DEF Cmd, Actor

\* What is known of a message.
LEMMA MsgFields ==
  ASSUME NEW m \in Msg
  PROVE  /\ m.id \in {"cfm", "ps", "loss"}
         /\ m.id = "ps" <=> m \in Ps
         /\ m \in Ps => m.slot \in Slot /\ m.on \in BOOLEAN
         /\ m \in Added => m.id = "cfm" /\ m.ok = TRUE /\ m.slot \in Slot /\ m.pm \in BOOLEAN
         /\ m \in Refusal => m.id = "cfm" /\ m.ok = FALSE
         /\ m.id = "loss" => m.mac \in Mac
BY DEF Msg, Added, Refusal, Ps

\* The messages that the firmware sends.
LEMMA MsgMade ==
  /\ \A s \in Slot, b \in BOOLEAN :
       /\ [id |-> "cfm", ok |-> TRUE, slot |-> s, pm |-> b] \in Added
       /\ [id |-> "ps", slot |-> s, on |-> b] \in Ps
  /\ [id |-> "cfm", ok |-> FALSE] \in Refusal
  /\ [id |-> "cfm"] \in Msg /\ [id |-> "cfm"].id = "cfm"
  /\ \A m \in Mac : [id |-> "loss", mac |-> m] \in Msg
  /\ Added \subseteq Msg /\ Refusal \subseteq Msg /\ Ps \subseteq Msg
BY DEF Msg, Added, Refusal, Ps

\* A thread goes on: the other one stays where it is.
LEMMA GotoType ==
  ASSUME TypeInv, NEW a \in Actor, NEW t \in Thread, Goto(a, t)
  PROVE  th' \in [Actor -> Thread] /\ th'[a] = t /\ \A x \in Actor \ {a} : th'[x] = th[x]
BY DEF TypeInv, Goto

-----------------------------------------------------------------------------
(* Every variable keeps its type.                                           *)

USE DEF Goto, At, driver, work, probing, fw, bounds, Same

\* The counters stay in their bounds when a call begins.
LEMMA CallsType ==
  ASSUME TypeInv, allow' = allow, Call
  PROVE  calls' \in 0..MaxCalls[allow'] /\ events' \in 0..MaxEvents
<1>1. MaxCalls[allow] \in Nat /\ calls \in 0..MaxCalls[allow] /\ calls < MaxCalls[allow]
  BY ApAssumption DEF TypeInv, TypeOK, Call
<1> QED BY <1>1 DEF TypeInv, TypeOK, Call

\* A thread that takes a station from the list has it in its hands then.
LEMMA UnlistType ==
  ASSUME TypeInv, NEW a \in Actor, NEW s \in sta_list, NEW k \in After, Unlist(a, s, k)
  PROVE  /\ sta' \in [Slot -> [valid : BOOLEAN, mac : Mac \union {NoMac}, ps : BOOLEAN]]
         /\ sta_list' = {x \in Slot : sta'[x].valid}
         /\ th' \in [Actor -> Thread] /\ th'[a] \in Removal /\ th'[a].pc = "deinit"
         /\ th'[a].slot = s /\ th'[a].after = k
         /\ \A x \in Actor \ {a} : th'[x] = th[x]
<1>1. s \in Slot
  BY DEF TypeInv, TypeOK
<1>2. LET t == [pc |-> "deinit", slot |-> s, after |-> k]
      IN t \in Removal /\ t \in Thread /\ t.pc = "deinit" /\ t.slot = s /\ t.after = k
  BY <1>1, ThreadMade
<1>3. /\ th' \in [Actor -> Thread] /\ th'[a] = [pc |-> "deinit", slot |-> s, after |-> k]
      /\ \A x \in Actor \ {a} : th'[x] = th[x]
  BY <1>2, GotoType DEF Unlist
<1>4. /\ sta' \in [Slot -> [valid : BOOLEAN, mac : Mac \union {NoMac}, ps : BOOLEAN]]
      /\ sta_list' = {x \in Slot : sta'[x].valid}
  BY <1>1 DEF TypeInv, TypeOK, Unlist
<1> QED BY <1>2, <1>3, <1>4

\* The calls of the stack keep the types.
LEMMA StackType ==
  ASSUME TypeInv, Stack
  PROVE  TypeInv'
<1> USE DEF TypeInv, TypeOK
<1>0. allow' = allow
  BY DEF Stack
<1>ac. "call" \in Actor /\ "loss" \in Actor /\ "call" # "loss"
  BY DEF Actor
<1>1. ASSUME NEW m \in Mac, rwnx_cfg80211_add_station(m)
      PROVE  TypeInv'
  <2> USE <1>1 DEF rwnx_cfg80211_add_station
  <2>1. [id |-> "add", mac |-> m, by |-> "call"] \in Cmd
    BY DEF Cmd
  <2>2. cmds' \in Seq(Cmd)
    <3>1. \A c \in Cmd : <<c>> \in Seq(Cmd)
      OBVIOUS
    <3>2. <<[id |-> "add", mac |-> m, by |-> "call"]>> \in Seq(Cmd)
      BY <2>1, <3>1
    <3> QED BY <3>2
  <2>3. th' \in [Actor -> Thread] /\ th'["loss"] = th["loss"]
    BY <1>ac, ThreadMade, GotoType
  <2> QED BY <1>0, <1>ac, <2>2, <2>3, CallsType
<1>2. ASSUME NEW m \in Mac, rwnx_cfg80211_probe_client(m)
      PROVE  TypeInv'
  <2> USE <1>2 DEF rwnx_cfg80211_probe_client
  <2>3. th' \in [Actor -> Thread] /\ th'["loss"] = th["loss"]
    BY <1>ac, ThreadMade, GotoType DEF Plain
  <2> QED BY <1>0, <1>ac, <2>3, CallsType
<1>3. ASSUME NEW m \in Mac \union {NoMac}, rwnx_cfg80211_del_station_compat(m)
      PROVE  TypeInv'
  <2> USE <1>3 DEF rwnx_cfg80211_del_station_compat
  <2>1. CASE m = NoMac
    <3>1. th' \in [Actor -> Thread] /\ th'["loss"] = th["loss"]
      BY <1>ac, <2>1, ThreadMade, GotoType DEF Plain
    <3> QED BY <1>0, <1>ac, <2>1, <3>1, CallsType
  <2>2. CASE m # NoMac
    <3>1. PICK s \in sta_list : Unlist("call", s, "none")
      BY <2>2
    <3>2. "none" \in After
      BY DEF After
    <3> QED BY <1>0, <1>ac, <3>1, <3>2, CallsType, UnlistType
  <2> QED BY <2>1, <2>2
<1>4. CASE rwnx_cfg80211_start_ap
  BY <1>0, <1>4, CallsType DEF rwnx_cfg80211_start_ap
<1>5. CASE rwnx_cfg80211_stop_ap
  <2> USE <1>5 DEF rwnx_cfg80211_stop_ap
  <2>3. th' \in [Actor -> Thread] /\ th'["loss"] = th["loss"]
    BY <1>ac, ThreadMade, GotoType DEF Plain
  <2> QED BY <1>0, <1>ac, <2>3, CallsType
<1> QED BY <1>1, <1>2, <1>3, <1>4, <1>5 DEF Stack

\* So do the steps of calls and of the staloss work.
LEMMA CallsTypeKept ==
  ASSUME TypeInv, Calls \/ Lost
  PROVE  TypeInv'
<1> USE DEF TypeInv, TypeOK
<1>0. allow' = allow
  BY DEF Calls, Lost
<1>ac. "call" \in Actor /\ "loss" \in Actor /\ "call" # "loss"
  BY DEF Actor
<1>1. ASSUME NEW a \in Actor, rwnx_txq_sta_deinit(a)
      PROVE  TypeInv'
  <2> USE <1>1 DEF rwnx_txq_sta_deinit
  <2>1. th[a] \in Removal /\ th[a].slot \in Slot /\ th[a].after \in After
    BY ThreadFields
  <2>2. LET t == [pc |-> "send", slot |-> th[a].slot, after |-> th[a].after]
        IN t \in Thread /\ t \in Removal /\ t.pc = "send" /\ t.after = th[a].after
    BY <2>1, ThreadMade
  <2>3. /\ th' \in [Actor -> Thread] /\ \A x \in Actor \ {a} : th'[x] = th[x]
        /\ th'[a] \in Removal /\ th'[a].pc = "send" /\ th'[a].after = th[a].after
    BY <2>2, GotoType
  <2> QED BY <1>0, <1>ac, <2>3
<1>2. ASSUME NEW a \in Actor, rwnx_send_me_sta_del(a)
      PROVE  TypeInv'
  <2> USE <1>2 DEF rwnx_send_me_sta_del
  <2>1. th[a] \in Removal /\ th[a].slot \in Slot /\ th[a].after \in After
    BY ThreadFields
  <2>2. LET t == [pc |-> "wait", slot |-> th[a].slot, after |-> th[a].after]
        IN t \in Thread /\ t \in Removal /\ t.pc = "wait" /\ t.after = th[a].after
    BY <2>1, ThreadMade
  <2>3. Removed(a) \in Thread /\ Removed(a).pc = th[a].after
    BY <2>1, ThreadMade DEF Removed, After, Plain
  <2>4. /\ th' \in [Actor -> Thread] /\ \A x \in Actor \ {a} : th'[x] = th[x]
        /\ \/ th'[a] \in Removal /\ th'[a].pc = "wait" /\ th'[a].after = th[a].after
           \/ th'[a].pc = th[a].after
    <3>1. CASE cmds = <<>>
      BY <2>2, <3>1, GotoType
    <3>2. CASE cmds # <<>>
      BY <2>3, <3>2, GotoType
    <3> QED BY <3>1, <3>2
  <2>5. \A b \in Actor \union {"none"} : [id |-> "del", slot |-> th[a].slot, by |-> b] \in Cmd
    BY <2>1 DEF Cmd
  <2>6. cmds' \in Seq(Cmd)
    BY <2>5, Appended
  <2> QED BY <1>0, <1>ac, <2>4, <2>6
<1>3. CASE AddFills
  <2> USE <1>3 DEF AddFills
  <2>1. th["call"].slot \in Slot /\ th["call"].pm \in BOOLEAN /\ th["call"].mac \in Mac
    BY <1>ac, ThreadFields
  <2>2. \A b \in BOOLEAN : [pc |-> "ps", slot |-> th["call"].slot, on |-> b] \in Thread
    BY <2>1, ThreadMade
  <2>3. sta[th["call"].slot].ps \/ th["call"].pm \in BOOLEAN
    BY <2>1
  <2>4. th' \in [Actor -> Thread] /\ th'["loss"] = th["loss"]
    BY <1>ac, <2>2, <2>3, GotoType
  <2>5. sta' \in [Slot -> [valid : BOOLEAN, mac : Mac \union {NoMac}, ps : BOOLEAN]]
    BY <2>1
  <2>6. sta_list' = {x \in Slot : sta'[x].valid} /\ txqs' \subseteq Slot
    BY <2>1
  <2> QED BY <1>0, <2>4, <2>5, <2>6
<1>4. CASE AddEnds
  <2> USE <1>4 DEF AddEnds
  <2>1. th["call"].slot \in Slot /\ th["call"].on \in BOOLEAN
    BY <1>ac, ThreadFields
  <2>2. th' \in [Actor -> Thread] /\ th'["loss"] = th["loss"]
    BY <1>ac, ThreadMade, GotoType
  <2> QED BY <1>0, <2>1, <2>2
<1>5. CASE AddRefused
  <2>2. th' \in [Actor -> Thread] /\ th'["loss"] = th["loss"]
    BY <1>5, <1>ac, ThreadMade, GotoType DEF AddRefused
  <2> QED BY <1>0, <1>5, <2>2 DEF AddRefused
<1>6. CASE DelNext
  <2> USE <1>6 DEF DelNext
  <2>1. ASSUME NEW s \in sta_list, Unlist("call", s, th["call"].pc)
        PROVE  TypeInv'
    <3>1. th["call"].pc \in After
      BY DEF After
    <3> QED BY <1>0, <1>ac, <2>1, <3>1, UnlistType
  <2>2. CASE /\ sta_list = {} /\ UNCHANGED <<sta, sta_list>>
             /\ Goto("call", [pc |-> IF At("call", "flush") THEN "none" ELSE "stop"])
    <3>1. th' \in [Actor -> Thread] /\ th'["loss"] = th["loss"]
      BY <1>ac, <2>2, ThreadMade, GotoType DEF Plain
    <3> QED BY <1>0, <2>2, <3>1
  <2> QED BY <2>1, <2>2
<1>7. CASE rwnx_send_apm_stop_req
  <2> USE <1>7 DEF rwnx_send_apm_stop_req
  <2>1. th' \in [Actor -> Thread] /\ th'["loss"] = th["loss"]
    BY <1>ac, ThreadMade, GotoType DEF Plain
  <2>2. \A b \in {"call", "none"} : [id |-> "stop", by |-> b] \in Cmd
    BY DEF Cmd
  <2>3. cmds' \in Seq(Cmd)
    BY <2>2, Appended
  <2> QED BY <1>0, <2>1, <2>3
<1>8. CASE StopEnds \/ ProbeReturns
  <2>2. th' \in [Actor -> Thread] /\ th'["loss"] = th["loss"]
    BY <1>8, <1>ac, ThreadMade, GotoType DEF StopEnds, ProbeReturns
  <2> QED BY <1>0, <1>8, <2>2 DEF StopEnds, ProbeReturns
<1>9. CASE apm_staloss_work_process
  <2> USE <1>9 DEF apm_staloss_work_process
  <2>1. ASSUME NEW s \in sta_list, Unlist("loss", s, "none")
        PROVE  TypeInv'
    <3>1. "none" \in After
      BY DEF After
    <3>2. /\ sta' \in [Slot -> [valid : BOOLEAN, mac : Mac \union {NoMac}, ps : BOOLEAN]]
          /\ sta_list' = {x \in Slot : sta'[x].valid}
          /\ th' \in [Actor -> Thread] /\ th'["loss"] \in Removal /\ th'["loss"].pc = "deinit"
          /\ th'["loss"].after = "none"
      BY <1>ac, <2>1, <3>1, UnlistType
    <3> HIDE DEF Unlist
    <3> QED BY <1>0, <1>ac, <3>2
  <2>2. CASE UNCHANGED <<th, sta, sta_list>>
    BY <1>0, <2>2
  <2> QED BY <2>1, <2>2
<1> QED BY <1>ac, <1>1, <1>2, <1>3, <1>4, <1>5, <1>6, <1>7, <1>8, <1>9 DEF Calls, Lost, Goes

\* What the confirmation handler does, by the command confirmed.
LEMMA ConfirmedShape ==
  ASSUME TypeInv, QueueInv, Confirmed
  PROVE  /\ cmds # <<>> /\ cmds[1] \in Cmd /\ cmds' = Tail(cmds)
         /\ fifo # <<>> /\ fifo[1].id = "cfm" /\ fifo' = Tail(fifo) /\ rx = None
         /\ \/ cmds[1].by = "none" /\ th' = th
            \/ /\ cmds[1].id = "del" /\ cmds[1].by \in Actor
               /\ th' = [th EXCEPT ![cmds[1].by] = Removed(cmds[1].by)]
            \/ /\ cmds[1].id = "stop" /\ cmds[1].by = "call"
               /\ th' = [th EXCEPT !["call"] = [pc |-> "stopped"]]
            \/ /\ cmds[1].id = "add" /\ cmds[1].by = "call" /\ fifo[1] \in Added
               /\ th' = [th EXCEPT !["call"] = [pc |-> "added", slot |-> fifo[1].slot,
                                                pm |-> fifo[1].pm, mac |-> cmds[1].mac]]
            \/ /\ cmds[1].id = "add" /\ cmds[1].by = "call" /\ fifo[1] \in Refusal
               /\ th' = [th EXCEPT !["call"] = [pc |-> "refused"]]
<1>1. /\ fifo # <<>> /\ fifo[1].id = "cfm" /\ fifo' = Tail(fifo) /\ rx = None
      /\ Len(fifo) \in Nat \ {0} /\ Head(fifo) = fifo[1] /\ fifo[1] \in Msg
  BY Tailed DEF Confirmed, Received, TypeInv
<1>2. cmds # <<>> /\ (cmds[1].id = "add" => fifo[1] \in Added \union Refusal)
  BY <1>1 DEF QueueInv
<1>3. Head(cmds) = cmds[1] /\ cmds[1] \in Cmd /\ cmds' = Tail(cmds)
  BY <1>2, Tailed DEF Confirmed, TypeInv
<1>4. /\ cmds[1].id \in {"add", "del", "stop"} /\ cmds[1].by \in Actor \union {"none"}
      /\ cmds[1].id = "add" => cmds[1].by = "call"
      /\ cmds[1].id = "stop" => cmds[1].by \in {"call", "none"}
  BY <1>3, CmdFields
<1>5. CASE cmds[1].by = "none"
  BY <1>1, <1>2, <1>3, <1>5 DEF Confirmed
<1>6. CASE cmds[1].by # "none" /\ cmds[1].id = "del"
  BY <1>1, <1>2, <1>3, <1>4, <1>6 DEF Confirmed
<1>7. CASE cmds[1].by # "none" /\ cmds[1].id = "stop"
  BY <1>1, <1>2, <1>3, <1>4, <1>7 DEF Confirmed
<1>8. CASE cmds[1].by # "none" /\ cmds[1].id = "add"
  <2>1. CASE fifo[1] \in Added
    <3>1. fifo[1].ok = TRUE
      BY <2>1, <1>1, MsgFields
    <3> QED BY <1>1, <1>2, <1>3, <1>4, <1>8, <2>1, <3>1 DEF Confirmed
  <2>2. CASE fifo[1] \in Refusal
    <3>1. fifo[1].ok = FALSE
      BY <2>2, <1>1, MsgFields
    <3> QED BY <1>1, <1>2, <1>3, <1>4, <1>8, <2>2, <3>1 DEF Confirmed
  <2> QED BY <1>2, <1>8, <2>1, <2>2
<1> QED BY <1>4, <1>5, <1>6, <1>7, <1>8

\* So does the confirmation handler.
LEMMA ConfirmedType ==
  ASSUME TypeInv, QueueInv, Confirmed, allow' = allow
  PROVE  TypeInv'
<1> USE DEF TypeInv, TypeOK
<1>ac. "call" \in Actor /\ "loss" \in Actor /\ "call" # "loss" /\ Actor = {"call", "loss"} /\ "none" \notin Actor
  BY DEF Actor
<1>1. cmds' \in Seq(Cmd) /\ fifo' \in Seq(Msg)
  <2> HIDE DEF TypeInv, TypeOK
  <2>1. cmds # <<>> /\ cmds' = Tail(cmds) /\ fifo # <<>> /\ fifo' = Tail(fifo)
    BY ConfirmedShape
  <2>2. cmds \in Seq(Cmd) /\ fifo \in Seq(Msg)
    BY DEF TypeInv
  <2> QED BY <2>1, <2>2, Tailed
<1>2. /\ th' \in [Actor -> Thread]
      /\ \/ th'["loss"] = th["loss"]
         \/ th'["loss"].pc = "none"
  <2>1. CASE th' = th
    BY <2>1
  <2>2. CASE /\ cmds[1].id = "del" /\ cmds[1].by \in Actor
             /\ th' = [th EXCEPT ![cmds[1].by] = Removed(cmds[1].by)]
    <3>1. th[cmds[1].by] \in Removal /\ th[cmds[1].by].after \in After
      BY <1>ac, <2>2, ConfirmedShape, ThreadFields DEF QueueInv
    <3>2. Removed(cmds[1].by) \in Thread /\ Removed(cmds[1].by).pc = th[cmds[1].by].after
      BY <3>1, ThreadMade DEF Removed, After, Plain
    <3>3. th[cmds[1].by].pc = "wait"
      BY <1>ac, <2>2, ConfirmedShape DEF QueueInv
    <3> QED BY <1>ac, <2>2, <3>2, <3>3
  <2>3. ASSUME NEW t \in Thread, th' = [th EXCEPT !["call"] = t]
        PROVE  th' \in [Actor -> Thread] /\ th'["loss"] = th["loss"]
    BY <1>ac, <2>3
  <2>4. [pc |-> "stopped"] \in Thread /\ [pc |-> "refused"] \in Thread
    BY ThreadMade DEF Plain
  <2>5. cmds[1].id = "add" /\ fifo[1] \in Added =>
          [pc |-> "added", slot |-> fifo[1].slot, pm |-> fifo[1].pm, mac |-> cmds[1].mac] \in Thread
    <3>1. fifo[1] \in Added => fifo[1].slot \in Slot /\ fifo[1].pm \in BOOLEAN
      BY DEF Added
    <3> QED BY <3>1, ConfirmedShape, CmdFields, ThreadMade
  <2> HIDE DEF TypeInv, TypeOK
  <2> QED BY <2>1, <2>2, <2>3, <2>4, <2>5, ConfirmedShape
<1> QED BY <1>1, <1>2 DEF Confirmed

\* A message is taken off, or sent.
LEMMA ReceivedShape ==
  ASSUME TypeInv, NEW id, Received(id)
  PROVE  /\ rx = None /\ fifo # <<>> /\ fifo' = Tail(fifo) /\ fifo' \in Seq(Msg)
         /\ Head(fifo) = fifo[1] /\ fifo[1] \in Msg /\ fifo[1].id = id
BY Tailed DEF Received, TypeInv

\* And so do all other steps.
LEMMA OthersType ==
  ASSUME TypeInv, QueueInv, Probes \/ Receive \/ Answer \/ Firmware
  PROVE  TypeInv'
<1>0. allow' = allow
  BY DEF Probes, Receive, Answer, Firmware
<1>1. CASE Probes
  BY <1>0, <1>1 DEF TypeInv, TypeOK, Probes, apm_probe_sta_work_process, ProbeCounts
<1>2. CASE Confirmed
  BY <1>0, <1>2, ConfirmedType
<1>3. CASE rwnx_apm_staloss_ind
  <2>1. fifo' \in Seq(Msg) /\ Head(fifo).mac \in Mac
    BY <1>3, ReceivedShape, MsgFields DEF rwnx_apm_staloss_ind
  <2> QED BY <1>0, <1>3, <2>1 DEF TypeInv, TypeOK, rwnx_apm_staloss_ind
<1>4. CASE rwnx_rx_ps_change_ind
  <2>1. fifo' \in Seq(Msg) /\ Head(fifo).slot \in Slot /\ Head(fifo).on \in BOOLEAN
    BY <1>4, ReceivedShape, MsgFields DEF rwnx_rx_ps_change_ind
  <2> QED BY <1>0, <1>4, <2>1 DEF TypeInv, TypeOK, rwnx_rx_ps_change_ind
<1>5. CASE rwnx_ps_bh_enable
  <2>1. rx.slot \in Slot /\ rx.on \in BOOLEAN
    BY <1>5 DEF TypeInv, rwnx_ps_bh_enable, None
  <2> QED BY <1>0, <1>5, <2>1 DEF TypeInv, TypeOK, rwnx_ps_bh_enable
<1>6. CASE Answer
  <2>0. cmds # <<>> => Head(cmds) = cmds[1] /\ cmds[1] \in Cmd
    BY Tailed DEF TypeInv
  <2>1. CASE FwAdds
    <3>1. Head(cmds).mac \in Mac
      BY <2>0, <2>1, CmdFields DEF FwAdds, Unanswered
    <3>2. fifo' \in Seq(Msg)
      <4>1. PICK m : Send(m) /\ m \in Msg
        BY <2>1, MsgMade DEF FwAdds
      <4> QED BY <4>1, Appended DEF Send, TypeInv
    <3> QED BY <1>0, <2>1, <3>1, <3>2 DEF TypeInv, TypeOK, FwAdds, FwOnly
  <2>2. CASE FwDeletes
    <3>2. fifo' \in Seq(Msg)
      BY <2>2, MsgMade, Appended DEF FwDeletes, Send, TypeInv
    <3> QED BY <1>0, <2>2, <3>2 DEF TypeInv, TypeOK, FwDeletes, FwOnly
  <2>3. CASE FwStops
    <3>2. fifo' \in Seq(Msg)
      BY <2>3, MsgMade, Appended DEF FwStops, Send, TypeInv
    <3> QED BY <1>0, <2>3, <3>2 DEF TypeInv, TypeOK, FwStops, FwOnly
  <2> QED BY <1>6, <2>1, <2>2, <2>3 DEF Answer
<1>7. ASSUME NEW s \in Slot, FwSleeps(s) \/ FwLoses(s)
      PROVE  TypeInv'
  <2>1. fwsta[s] \in Mac
    BY <1>7 DEF TypeInv, TypeOK, FwSleeps, FwLoses, Settled
  <2>2. fifo' \in Seq(Msg)
    <3>1. (s \notin fwps) \in BOOLEAN
      OBVIOUS
    <3>2. PICK m : Send(m) /\ m \in Msg
      BY <1>7, <2>1, <3>1, MsgMade DEF FwSleeps, FwLoses
    <3> QED BY <3>2, Appended DEF Send, TypeInv
  <2>3. events' \in 0..MaxEvents
    <3>1. events \in 0..MaxEvents /\ MaxEvents \in Nat
      BY ApAssumption DEF TypeInv, TypeOK
    <3> QED BY <1>7, <3>1 DEF FwSleeps, FwLoses, Settled
  <2> QED BY <1>0, <1>7, <2>2, <2>3 DEF TypeInv, TypeOK, FwSleeps, FwLoses, Settled, FwOnly
<1> QED BY <1>1, <1>2, <1>3, <1>4, <1>5, <1>6, <1>7 DEF Receive, Firmware

-----------------------------------------------------------------------------
(* Steps that move no station and no command.                               *)

\* A thread goes on, but not into or out of a wait or somewhere it has a station.
Holding == {"wait", "added", "deinit", "send"}
Stays(a) == th[a].pc = "wait" \/ th'[a].pc = "wait" => th'[a] = th[a]
Moves(a) == th'[a] = th[a] \/ (th[a].pc \notin Holding /\ th'[a].pc \notin Holding)

\* Messages and commands as they were.
LEMMA FifoKept ==
  ASSUME cmds' = cmds, fifo' = fifo
  PROVE  (Answered' <=> Answered) /\ \A s : Awaited(s)' <=> Awaited(s)
BY DEF Answered, Awaited, Coming

\* A message that is no answer is taken.
LEMMA FifoTaken ==
  ASSUME TypeInv, cmds' = cmds, fifo # <<>>, fifo' = Tail(fifo), fifo[1].id # "cfm"
  PROVE  (Answered' <=> Answered) /\ \A s : Awaited(s)' <=> Awaited(s)
<1>1. /\ Len(fifo') = Len(fifo) - 1 /\ Len(fifo) \in Nat \ {0}
      /\ \A i \in 1..Len(fifo) - 1 : fifo'[i] = fifo[i + 1]
  BY Tailed DEF TypeInv
<1>2. fifo[1] \notin Added
  BY DEF Added
<1>3. \A i \in 1..Len(fifo) : i # 1 => i - 1 \in 1..Len(fifo') /\ fifo'[i - 1] = fifo[i]
  BY <1>1
<1>4. \A i \in 1..Len(fifo') : i + 1 \in 1..Len(fifo) /\ fifo'[i] = fifo[i + 1]
  BY <1>1
<1>5. Answered' <=> Answered
  BY <1>3, <1>4 DEF Answered
<1>6. ASSUME NEW s
      PROVE  Awaited(s)' <=> Awaited(s)
  <2>1. \A i \in 1..Len(fifo) : Coming(i, s) => i # 1
    BY <1>2 DEF Coming
  <2>2. \A i \in 1..Len(fifo') : Coming(i, s)' <=> Coming(i + 1, s)
    BY <1>4 DEF Coming
  <2>3. \A i \in 1..Len(fifo) : i # 1 => i - 1 \in 1..Len(fifo') /\ (i - 1) + 1 = i
    BY <1>3
  <2>4. Awaited(s)' => Awaited(s)
    BY <1>4, <2>2 DEF Awaited
  <2>5. Awaited(s) => Awaited(s)'
    BY <2>1, <2>2, <2>3 DEF Awaited
  <2> QED BY <2>4, <2>5
<1> QED BY <1>5, <1>6

\* A message that is no answer is sent.
LEMMA FifoGrown ==
  ASSUME TypeInv, cmds' = cmds, NEW m \in Msg, fifo' = Append(fifo, m), m.id # "cfm"
  PROVE  (Answered' <=> Answered) /\ \A s : Awaited(s)' <=> Awaited(s)
<1>1. /\ Len(fifo') = Len(fifo) + 1 /\ Len(fifo) \in Nat
      /\ \A i \in 1..Len(fifo) : fifo'[i] = fifo[i]
      /\ fifo'[Len(fifo) + 1] = m
  BY Appended DEF TypeInv
<1>2. m \notin Added
  BY DEF Added
<1>3. \A i \in 1..Len(fifo') : i \in 1..Len(fifo) \/ fifo'[i] = m
  BY <1>1
<1>4. 1..Len(fifo) \subseteq 1..Len(fifo')
  BY <1>1
<1>5. Answered' <=> Answered
  BY <1>1, <1>3, <1>4 DEF Answered
<1>6. ASSUME NEW s
      PROVE  Awaited(s)' <=> Awaited(s)
  BY <1>1, <1>2, <1>3, <1>4 DEF Awaited, Coming
<1> QED BY <1>5, <1>6

\* A thread that moves so does not wait, nor begin to.
LEMMA MovesStays ==
  ASSUME \A a \in Actor : Moves(a)
  PROVE  \A a \in Actor : Stays(a)
BY DEF Moves, Stays, Holding

\* Who waits for which command stays.
LEMMA QueueKept ==
  ASSUME TypeInv, QueueInv, cmds' = cmds, \A a \in Actor : Stays(a),
         \/ fifo' = fifo
         \/ fifo # <<>> /\ fifo' = Tail(fifo) /\ fifo[1].id # "cfm"
         \/ \E m \in Msg : fifo' = Append(fifo, m) /\ m.id # "cfm"
  PROVE  QueueInv'
<1>1. \A a \in Actor : th[a].pc = "wait" \/ th'[a].pc = "wait" => th'[a] = th[a]
  BY DEF Stays
<1>2. cmds # <<>> => cmds[1] \in Cmd
  BY Tailed DEF TypeInv
<1>3. cmds # <<>> => cmds[1].by \in Actor \union {"none"}
  BY <1>2, CmdFields
<1>4. /\ \A i \in 2..Len(cmds') : cmds'[i].by = "none" /\ cmds'[i].id # "add"
      /\ \A a \in Actor : th'[a].pc = "wait" => cmds' # <<>> /\ cmds'[1].by = a
      /\ cmds' # <<>> /\ cmds'[1].by # "none" =>
           /\ th'[cmds'[1].by].pc = "wait"
           /\ cmds'[1].id = "del" => /\ th'[cmds'[1].by] \in Removal
                                     /\ th'[cmds'[1].by].slot = cmds'[1].slot
  BY <1>1, <1>3 DEF QueueInv
<1> DEFINE Once == \A i, j \in 1..Len(fifo) : fifo[i].id = "cfm" /\ fifo[j].id = "cfm" => i = j
           Fits == \A i \in 1..Len(fifo) : fifo[i].id = "cfm" =>
                     /\ cmds # <<>>
                     /\ cmds[1].id = "add" => fifo[i] \in Added \union Refusal
<1>5. Once' /\ Fits'
  <2>1. CASE fifo' = fifo
    BY <2>1 DEF QueueInv
  <2>2. CASE fifo # <<>> /\ fifo' = Tail(fifo)
    <3>1. /\ Len(fifo') = Len(fifo) - 1 /\ Len(fifo) \in Nat \ {0}
          /\ \A i \in 1..Len(fifo) - 1 : fifo'[i] = fifo[i + 1]
      BY <2>2, Tailed DEF TypeInv
    <3>2. \A i \in 1..Len(fifo') : i + 1 \in 1..Len(fifo) /\ fifo'[i] = fifo[i + 1]
      BY <3>1
    <3>3. Fits'
      BY <3>2 DEF QueueInv
    <3>4. Once'
      <4> SUFFICES ASSUME NEW i \in 1..Len(fifo'), NEW j \in 1..Len(fifo'),
                          fifo'[i].id = "cfm", fifo'[j].id = "cfm"
                   PROVE  i = j
        OBVIOUS
      <4>1. i + 1 = j + 1
        BY <3>2 DEF QueueInv
      <4> QED BY <3>1, <4>1
    <3> QED BY <3>3, <3>4
  <2>3. ASSUME NEW m \in Msg, fifo' = Append(fifo, m), m.id # "cfm"
        PROVE  Once' /\ Fits'
    <3>1. /\ Len(fifo') = Len(fifo) + 1 /\ Len(fifo) \in Nat
          /\ \A i \in 1..Len(fifo) : fifo'[i] = fifo[i]
          /\ fifo'[Len(fifo) + 1] = m
      BY <2>3, Appended DEF TypeInv
    <3>2. \A i \in 1..Len(fifo') : fifo'[i].id = "cfm" => i \in 1..Len(fifo) /\ fifo'[i] = fifo[i]
      BY <2>3, <3>1
    <3> QED BY <3>2 DEF QueueInv
  <2> QED BY <2>1, <2>2, <2>3
<1> QED BY <1>4, <1>5 DEF QueueInv

\* Every station stays in its place.
LEMMA PlaceKept ==
  ASSUME TypeInv, PlaceInv, cmds' = cmds, \A a \in Actor : Moves(a),
         Answered' <=> Answered, \A s : Awaited(s)' <=> Awaited(s),
         UNCHANGED <<sta_list, txqs, fwsta>>, \A s \in sta_list : sta'[s].mac = sta[s].mac
  PROVE  PlaceInv'
<1>1. \A a \in Actor : th[a].pc \in {"added", "deinit", "send"} \/ th'[a].pc \in {"added", "deinit", "send"}
                         => th'[a] = th[a]
  BY DEF Moves, Holding
<1>2. "call" \in Actor /\ "loss" \in Actor
  BY DEF Actor
<1>3. \A s : Adding(s)' <=> Adding(s)
  BY <1>1, <1>2 DEF Adding
<1>4. \A a \in Actor : \A s : Removing(a, s)' <=> Removing(a, s)
  BY <1>1 DEF Removing
<1>5. \A i, s : Deleting(i, s)' <=> Deleting(i, s)
  BY DEF Deleting
<1>6. ASSUME NEW p, NEW s
      PROVE  In(p, s)' <=> In(p, s)
  BY <1>2, <1>3, <1>4, <1>5 DEF In
<1>7. /\ \A s \in Slot : fwsta'[s] # NoMac <=> \E p \in Place : In(p, s)'
      /\ \A s \in Slot : \A p, q \in Place : In(p, s)' /\ In(q, s)' => p = q
  BY <1>6 DEF PlaceInv, Covered, Single, Queued, Named
<1>8. \A s \in Slot : s \in txqs' <=> s \in sta_list' \/ \E a \in Actor : At(a, "deinit")' /\ th'[a].slot = s
  <2>1. \A a \in Actor : At(a, "deinit") \/ At(a, "deinit")' => th'[a] = th[a]
    BY <1>1
  <2> QED BY <2>1 DEF PlaceInv, Covered, Single, Queued, Named
<1>9. /\ \A s \in sta_list' : sta'[s].mac = fwsta'[s]
      /\ At("call", "added")' => th'["call"].mac = fwsta'[th'["call"].slot]
      /\ \A s \in Slot : Awaited(s)' => cmds'[1].mac = fwsta'[s]
  BY <1>1, <1>2 DEF PlaceInv, Covered, Single, Queued, Named
<1> QED BY <1>7, <1>8, <1>9 DEF PlaceInv, Covered, Single, Queued, Named

\* From one plain place of a thread to another.
LEMMA PlainMove ==
  ASSUME TypeInv, NEW a \in Actor, NEW x \in Plain, th[a].pc \notin Holding,
         th' = [th EXCEPT ![a] = [pc |-> x]]
  PROVE  \A b \in Actor : Moves(b)
<1>1. [pc |-> x].pc \notin Holding
  BY DEF Plain, Holding
<1>2. \A b \in Actor : th'[b] = IF b = a THEN [pc |-> x] ELSE th[b]
  BY DEF TypeInv
<1> QED BY <1>1, <1>2 DEF Moves

\* Calls and works that leave stations and commands alone.
LEMMA IdleCall ==
  ASSUME TypeInv, QueueInv, PlaceInv,
         \/ \E m \in Mac : rwnx_cfg80211_probe_client(m)
         \/ rwnx_cfg80211_start_ap \/ rwnx_cfg80211_stop_ap
         \/ AddEnds \/ AddRefused \/ StopEnds \/ ProbeReturns \/ Probes
  PROVE  QueueInv' /\ PlaceInv'
<1>ac. "call" \in Actor
  BY DEF Actor
<1>1. cmds' = cmds /\ fifo' = fifo /\ UNCHANGED <<sta_list, txqs, fwsta>>
  BY DEF rwnx_cfg80211_probe_client, rwnx_cfg80211_start_ap, rwnx_cfg80211_stop_ap, AddEnds, AddRefused,
         StopEnds, ProbeReturns, Probes, apm_probe_sta_work_process, ProbeCounts
<1>2. \A a \in Actor : Moves(a)
  <2>1. CASE th' = th
    BY <2>1 DEF Moves
  <2>2. CASE \E x \in Plain : th["call"].pc \notin Holding /\ th' = [th EXCEPT !["call"] = [pc |-> x]]
    BY <1>ac, <2>2, PlainMove
  <2>3. \/ th' = th
        \/ \E x \in {"none", "cookie", "stopping"} :
             th["call"].pc \notin Holding /\ th' = [th EXCEPT !["call"] = [pc |-> x]]
    BY DEF rwnx_cfg80211_probe_client, rwnx_cfg80211_start_ap, rwnx_cfg80211_stop_ap, AddEnds, AddRefused,
           StopEnds, ProbeReturns, Probes, apm_probe_sta_work_process, ProbeCounts, Call, None, Holding
  <2>4. {"none", "cookie", "stopping"} \subseteq Plain
    BY DEF Plain
  <2> QED BY <2>1, <2>2, <2>3, <2>4
<1>3. \A s \in sta_list : sta'[s].mac = sta[s].mac
  <2>1. CASE AddEnds
    <3>1. th["call"].slot \in Slot
      BY <1>ac, <2>1, ThreadFields DEF TypeInv, AddEnds
    <3> QED BY <2>1, <3>1 DEF AddEnds, TypeInv, TypeOK
  <2>2. CASE ~ AddEnds
    BY <2>2 DEF rwnx_cfg80211_probe_client, rwnx_cfg80211_start_ap, rwnx_cfg80211_stop_ap, AddRefused,
           StopEnds, ProbeReturns, Probes, apm_probe_sta_work_process, ProbeCounts
  <2> QED BY <2>1, <2>2
<1> QED BY <1>1, <1>2, <1>3, FifoKept, MovesStays, QueueKept, PlaceKept

\* An indication comes, or is handled.
LEMMA IdleMessage ==
  ASSUME TypeInv, QueueInv, PlaceInv,
         \/ rwnx_apm_staloss_ind \/ rwnx_rx_ps_change_ind \/ rwnx_ps_bh_enable \/ Firmware
  PROVE  QueueInv' /\ PlaceInv'
<1>1. cmds' = cmds /\ th' = th /\ UNCHANGED <<sta_list, txqs, fwsta>>
  BY DEF rwnx_apm_staloss_ind, rwnx_rx_ps_change_ind, rwnx_ps_bh_enable, Firmware, FwSleeps, FwLoses, Settled, FwOnly
<1>2. \A a \in Actor : Moves(a)
  BY <1>1 DEF Moves
<1>3. \A s \in sta_list : sta'[s].mac = sta[s].mac
  <2>1. CASE rwnx_ps_bh_enable
    <3>1. rx.slot \in Slot
      BY <2>1 DEF TypeInv, rwnx_ps_bh_enable, None
    <3> QED BY <2>1, <3>1 DEF rwnx_ps_bh_enable, TypeInv, TypeOK
  <2>2. CASE ~ rwnx_ps_bh_enable
    BY <2>2 DEF rwnx_apm_staloss_ind, rwnx_rx_ps_change_ind, Firmware, FwSleeps, FwLoses, Settled, FwOnly
  <2> QED BY <2>1, <2>2
<1>4. \/ fifo' = fifo
      \/ fifo # <<>> /\ fifo' = Tail(fifo) /\ fifo[1].id # "cfm"
      \/ \E m \in Msg : fifo' = Append(fifo, m) /\ m.id # "cfm"
  <2>1. CASE rwnx_apm_staloss_ind \/ rwnx_rx_ps_change_ind
    BY <2>1, ReceivedShape DEF rwnx_apm_staloss_ind, rwnx_rx_ps_change_ind
  <2>2. CASE rwnx_ps_bh_enable
    BY <2>2 DEF rwnx_ps_bh_enable
  <2>3. ASSUME NEW s \in Slot, FwSleeps(s)
        PROVE  \E m \in Msg : fifo' = Append(fifo, m) /\ m.id # "cfm"
    <3>1. (s \notin fwps) \in BOOLEAN
      OBVIOUS
    <3>2. LET m == [id |-> "ps", slot |-> s, on |-> s \notin fwps] IN m \in Msg /\ m.id # "cfm"
      BY <3>1, MsgMade
    <3> QED BY <2>3, <3>2 DEF FwSleeps, Send
  <2>4. ASSUME NEW s \in Slot, FwLoses(s)
        PROVE  \E m \in Msg : fifo' = Append(fifo, m) /\ m.id # "cfm"
    <3>1. fwsta[s] \in Mac
      BY <2>4 DEF TypeInv, TypeOK, FwLoses, Settled
    <3>2. LET m == [id |-> "loss", mac |-> fwsta[s]] IN m \in Msg /\ m.id # "cfm"
      BY <3>1, MsgMade
    <3> QED BY <2>4, <3>2 DEF FwLoses, Send
  <2> QED BY <2>1, <2>2, <2>3, <2>4 DEF Firmware
<1> QED BY <1>1, <1>2, <1>3, <1>4, FifoKept, FifoTaken, FifoGrown, MovesStays, QueueKept, PlaceKept

-----------------------------------------------------------------------------
(* Steps that take a station from one place to another.                     *)

\* The places by their numbers.
LEMMA Places ==
  ASSUME TypeInv, NEW s
  PROVE  /\ Len(cmds) \in Nat /\ 1..Len(cmds) \subseteq Place /\ {-3, -2, -1, 0} \subseteq Place
         /\ s \in sta_list <=> In(0, s)
         /\ Adding(s) <=> In(-1, s)
         /\ Removing("call", s) <=> In(-2, s)
         /\ Removing("loss", s) <=> In(-3, s)
         /\ \A i \in 1..Len(cmds) : Deleting(i, s) <=> In(i, s)
<1>1. Len(cmds) \in Nat
  BY DEF TypeInv
<1>2. 1..Len(cmds) \subseteq Place /\ {-3, -2, -1, 0} \subseteq Place
  BY <1>1 DEF Place
<1> QED BY <1>1, <1>2 DEF In

\* No station moves.
LEMMA PlaceSame ==
  ASSUME Covered, Single, fwsta' = fwsta,
         \A p \in Place, x \in Slot : In(p, x)' <=> In(p, x)
  PROVE  Covered' /\ Single'
BY DEF Covered, Single

\* One station moves from one place to another.
LEMMA PlaceMoved ==
  ASSUME Covered, Single, fwsta' = fwsta,
         NEW s \in Slot, NEW p0 \in Place, NEW q0 \in Place, In(p0, s),
         \A p \in Place, x \in Slot :
           In(p, x)' <=> IF x = s THEN p = q0 ELSE In(p, x)
  PROVE  Covered' /\ Single'
BY DEF Covered, Single

\* A station goes from the list into the hands of the one that removes it.
LEMMA UnlistStep ==
  ASSUME TypeInv, QueueInv, PlaceInv, NEW a \in Actor, NEW s \in sta_list, NEW k \in After,
         th[a].pc \notin Holding, Unlist(a, s, k), UNCHANGED <<cmds, fifo, txqs, fwsta>>
  PROVE  QueueInv' /\ PlaceInv'
<1>ac. "call" \in Actor /\ "loss" \in Actor /\ Actor = {"call", "loss"}
  BY DEF Actor
<1>1. /\ th'[a].pc = "deinit" /\ th'[a].slot = s
      /\ \A x \in Actor \ {a} : th'[x] = th[x]
  BY UnlistType
<1>2. s \in Slot /\ sta_list' = sta_list \ {s}
  BY DEF Unlist, TypeInv, TypeOK
<1>3. QueueInv'
  <2>1. \A x \in Actor : Stays(x)
    BY <1>1 DEF Stays, Holding
  <2> QED BY <2>1, QueueKept
<1>4. (Answered' <=> Answered) /\ \A x : Awaited(x)' <=> Awaited(x)
  BY FifoKept
<1>5. \A x : Adding(x)' <=> Adding(x)
  BY <1>ac, <1>1, <1>4 DEF Adding, Holding
<1>6. \A x : Removing(a, x)' <=> x = s
  BY <1>1 DEF Removing
<1>7. \A x : ~ Removing(a, x)
  BY DEF Removing, Holding
<1>8. \A b \in Actor \ {a} : \A x : Removing(b, x)' <=> Removing(b, x)
  BY <1>1 DEF Removing
<1>9. \A i, x : Deleting(i, x)' <=> Deleting(i, x)
  BY <1>4 DEF Deleting
<1> DEFINE q0 == IF a = "call" THEN -2 ELSE -3
<1>10. In(0, s) /\ q0 \in Place /\ 0 \in Place
  BY Places
<1>11. ASSUME NEW p \in Place
       PROVE  In(p, s)' <=> p = q0
  <2>1. In(p, s) => p = 0
    BY <1>2, <1>10 DEF PlaceInv, Single
  <2>2. In(p, s)' <=> p = q0
    BY <1>ac, <1>2, <1>5, <1>6, <1>7, <1>8, <1>9, <2>1 DEF In
  <2> QED BY <2>2
<1>12. ASSUME NEW p \in Place, NEW x \in Slot, x # s
       PROVE  In(p, x)' <=> In(p, x)
  BY <1>ac, <1>2, <1>5, <1>6, <1>7, <1>8, <1>9, <1>12 DEF In
<1>13. Covered' /\ Single'
  <2> HIDE DEF q0
  <2> QED BY <1>2, <1>10, <1>11, <1>12, PlaceMoved DEF PlaceInv
<1>14. Queued'
  <2>1. \A x \in Slot : (\E b \in Actor : At(b, "deinit")' /\ th'[b].slot = x)
                          <=> x = s \/ \E b \in Actor : At(b, "deinit") /\ th[b].slot = x
    BY <1>ac, <1>1 DEF Holding
  <2> QED BY <1>2, <2>1 DEF PlaceInv, Queued
<1>15. Named'
  <2>1. \A x \in sta_list' : sta'[x].mac = fwsta'[x]
    BY <1>2 DEF PlaceInv, Named, Unlist, TypeInv, TypeOK
  <2>2. At("call", "added")' => th'["call"].mac = fwsta'[th'["call"].slot]
    BY <1>ac, <1>1 DEF PlaceInv, Named
  <2> QED BY <1>4, <2>1, <2>2 DEF PlaceInv, Named
<1> QED BY <1>3, <1>13, <1>14, <1>15 DEF PlaceInv

\* del_station, stop_ap and the staloss work take stations from the list.
LEMMA Unlists ==
  ASSUME TypeInv, QueueInv, PlaceInv,
         \/ \E m \in Mac \union {NoMac} : rwnx_cfg80211_del_station_compat(m)
         \/ DelNext \/ apm_staloss_work_process
  PROVE  QueueInv' /\ PlaceInv'
<1>ac. "call" \in Actor /\ "loss" \in Actor
  BY DEF Actor
<1>1. UNCHANGED <<cmds, fifo, txqs, fwsta>>
  BY DEF rwnx_cfg80211_del_station_compat, DelNext, apm_staloss_work_process
<1>2. \/ \E a \in Actor, s \in sta_list, k \in After : th[a].pc \notin Holding /\ Unlist(a, s, k)
      \/ /\ UNCHANGED <<sta, sta_list>>
         /\ \/ th' = th
            \/ \E x \in {"none", "flush", "stop"} :
                 th["call"].pc \notin Holding /\ th' = [th EXCEPT !["call"] = [pc |-> x]]
  <2>1. ASSUME NEW m \in Mac \union {NoMac}, rwnx_cfg80211_del_station_compat(m)
        PROVE  <1>2
    BY <1>ac, <2>1 DEF rwnx_cfg80211_del_station_compat, Call, Holding, After
  <2>2. CASE DelNext
    <3>1. th["call"].pc \notin Holding /\ th["call"].pc \in After
      BY <2>2 DEF DelNext, Holding, After
    <3> QED BY <1>ac, <2>2, <3>1 DEF DelNext
  <2>3. CASE apm_staloss_work_process
    BY <1>ac, <2>3 DEF apm_staloss_work_process, Holding, After
  <2> QED BY <2>1, <2>2, <2>3
<1>3. CASE UNCHANGED <<sta, sta_list>> /\ \A a \in Actor : Moves(a)
  BY <1>1, <1>3, FifoKept, MovesStays, QueueKept, PlaceKept
<1>4. th' = th => \A a \in Actor : Moves(a)
  BY DEF Moves
<1>5. {"none", "flush", "stop"} \subseteq Plain
  BY DEF Plain
<1> QED BY <1>ac, <1>1, <1>2, <1>3, <1>4, <1>5, UnlistStep, PlainMove

\* A removal takes the queues down.
LEMMA Deinits ==
  ASSUME TypeInv, QueueInv, PlaceInv, NEW a \in Actor, rwnx_txq_sta_deinit(a)
  PROVE  QueueInv' /\ PlaceInv'
<1> USE DEF rwnx_txq_sta_deinit
<1>ac. "call" \in Actor /\ "loss" \in Actor /\ Actor = {"call", "loss"} /\ "call" # "loss"
  BY DEF Actor
<1>1. th[a].pc = "deinit" /\ th[a].slot \in Slot
  BY ThreadFields DEF TypeInv
<1>2. /\ th'[a].pc = "send" /\ th'[a].slot = th[a].slot
      /\ \A x \in Actor \ {a} : th'[x] = th[x]
  BY DEF TypeInv
<1>3. QueueInv'
  <2>1. \A x \in Actor : Stays(x)
    BY <1>1, <1>2 DEF Stays
  <2> QED BY <2>1, QueueKept
<1>4. (Answered' <=> Answered) /\ \A x : Awaited(x)' <=> Awaited(x)
  BY FifoKept
<1>5. \A x : Adding(x)' <=> Adding(x)
  BY <1>ac, <1>1, <1>2, <1>4 DEF Adding
<1>6. \A b \in Actor : \A x : Removing(b, x)' <=> Removing(b, x)
  BY <1>1, <1>2 DEF Removing
<1>7. \A i, x : Deleting(i, x)' <=> Deleting(i, x)
  BY <1>4 DEF Deleting
<1>8. \A p, x : In(p, x)' <=> In(p, x)
  BY <1>ac, <1>5, <1>6, <1>7 DEF In
<1>9. Covered' /\ Single'
  BY <1>8, PlaceSame DEF PlaceInv
<1>10. Queued'
  <2> DEFINE s == th[a].slot
  <2>1. Removing(a, s)
    BY <1>1 DEF Removing
  <2>2. s \notin sta_list
    BY <1>ac, <1>1, <2>1, Places DEF PlaceInv, Single
  <2>3. \A b \in Actor \ {a} : ~ (At(b, "deinit") /\ th[b].slot = s)
    <3>1. ASSUME NEW b \in Actor \ {a}, At(b, "deinit"), th[b].slot = s
          PROVE  FALSE
      <4>1. Removing(b, s)
        BY <3>1 DEF Removing
      <4> QED BY <1>ac, <1>1, <2>1, <4>1, Places DEF PlaceInv, Single
    <3> QED BY <3>1
  <2> HIDE DEF s
  <2>4. txqs' = txqs \ {s} /\ sta_list' = sta_list /\ (\A x : At(a, "deinit") /\ th[a].slot = x <=> x = s)
    BY <1>1 DEF s
  <2>5. \A x \in Slot : (\E b \in Actor : At(b, "deinit")' /\ th'[b].slot = x)
                          <=> x # s /\ \E b \in Actor : At(b, "deinit") /\ th[b].slot = x
    BY <1>2, <2>3, <2>4
  <2> QED BY <2>2, <2>4, <2>5 DEF PlaceInv, Queued
<1>11. Named'
  <2>1. At("call", "added")' => At("call", "added") /\ th'["call"] = th["call"]
    BY <1>ac, <1>2
  <2> QED BY <1>4, <2>1 DEF PlaceInv, Named
<1> QED BY <1>3, <1>9, <1>10, <1>11 DEF PlaceInv

\* The queue with another command at its end.
LEMMA QueueGrown ==
  ASSUME TypeInv, QueueInv, NEW a \in Actor, NEW c \in Cmd, cmds' = Append(cmds, c), fifo' = fifo,
         c.by = IF cmds = <<>> THEN a ELSE "none", c.id # "add",
         th[a].pc # "wait", \A x \in Actor \ {a} : th'[x] = th[x],
         IF cmds = <<>> THEN th'[a].pc = "wait" /\ (c.id = "del" => th'[a] \in Removal /\ th'[a].slot = c.slot)
                        ELSE th'[a].pc # "wait"
  PROVE  QueueInv'
<1>ac. Actor = {"call", "loss"} /\ "none" \notin Actor
  BY DEF Actor
<1>1. /\ Len(cmds') = Len(cmds) + 1 /\ Len(cmds) \in Nat /\ cmds' # <<>>
      /\ \A i \in 1..Len(cmds) : cmds'[i] = cmds[i]
      /\ cmds'[Len(cmds) + 1] = c
  BY Appended DEF TypeInv
<1>2. CASE cmds = <<>>
  <2>1. Len(cmds) = 0 /\ cmds'[1] = c /\ Len(cmds') = 1
    BY <1>1, <1>2
  <2>2. \A i \in 2..Len(cmds') : FALSE
    BY <2>1
  <2>3. \A x \in Actor : th'[x].pc = "wait" => x = a
    BY <1>2 DEF QueueInv
  <2>4. \A i \in 1..Len(fifo') : fifo'[i].id # "cfm"
    BY <1>2 DEF QueueInv
  <2> QED BY <1>1, <1>2, <2>1, <2>2, <2>3, <2>4 DEF QueueInv
<1>3. CASE cmds # <<>>
  <2>1. Len(cmds) # 0 /\ cmds'[1] = cmds[1]
    BY <1>1, <1>3, EmptySeq DEF TypeInv
  <2>2. \A i \in 2..Len(cmds') : cmds'[i].by = "none" /\ cmds'[i].id # "add"
    <3>1. \A i \in 2..Len(cmds') : i \in 2..Len(cmds) \/ cmds'[i] = c
      BY <1>1
    <3>2. \A i \in 2..Len(cmds) : cmds'[i] = cmds[i]
      BY <1>1
    <3> QED BY <1>3, <3>1, <3>2 DEF QueueInv
  <2>3. \A x \in Actor : th[x].pc = "wait" \/ th'[x].pc = "wait" => th'[x] = th[x]
    BY <1>3
  <2>4. cmds[1].by \in Actor \union {"none"}
    BY <1>3, Tailed, CmdFields DEF TypeInv
  <2> QED BY <1>1, <1>3, <2>1, <2>2, <2>3, <2>4 DEF QueueInv
<1> QED BY <1>2, <1>3

\* A station goes from the hands of its remover into the command that deletes it.
LEMMA Sends ==
  ASSUME TypeInv, QueueInv, PlaceInv, NEW a \in Actor, rwnx_send_me_sta_del(a)
  PROVE  QueueInv' /\ PlaceInv'
<1> USE DEF rwnx_send_me_sta_del
<1>ac. "call" \in Actor /\ "loss" \in Actor /\ Actor = {"call", "loss"} /\ "call" # "loss"
  BY DEF Actor
<1>s. PICK s \in Slot : s = th[a].slot
  BY ThreadFields DEF TypeInv
<1>n. PICK n \in Nat \ {0} : n = Len(cmds) + 1
  BY DEF TypeInv
<1> DEFINE c == [id |-> "del", slot |-> s, by |-> IF cmds = <<>> THEN a ELSE "none"]
<1>1. th[a].pc = "send" /\ s \in Slot /\ th[a].after \in After
  BY <1>s, ThreadFields DEF TypeInv
<1>2. c \in Cmd
  BY <1>1 DEF Cmd
<1>3. /\ \A x \in Actor \ {a} : th'[x] = th[x]
      /\ th'[a].pc \notin {"added", "deinit", "send"}
      /\ IF cmds = <<>> THEN th'[a].pc = "wait" /\ th'[a] \in Removal /\ th'[a].slot = s
                        ELSE th'[a].pc # "wait"
  <2>1. CASE cmds = <<>>
    <3>1. LET t == [pc |-> "wait", slot |-> th[a].slot, after |-> th[a].after]
          IN t \in Thread /\ t \in Removal /\ t.pc = "wait" /\ t.slot = th[a].slot
      BY <1>1, <1>s, ThreadMade
    <3> QED BY <1>s, <2>1, <3>1, GotoType
  <2>2. CASE cmds # <<>>
    <3>1. Removed(a) \in Thread /\ Removed(a).pc = th[a].after
      BY <1>1, ThreadMade DEF Removed, After, Plain
    <3> QED BY <1>1, <2>2, <3>1, GotoType DEF After
  <2> QED BY <2>1, <2>2
<1>4. cmds' = Append(cmds, c) /\ fifo' = fifo /\ UNCHANGED <<sta, sta_list, txqs, fwsta>>
  BY <1>s
<1>5. QueueInv'
  BY <1>1, <1>2, <1>3, <1>4, QueueGrown
<1>6. /\ Len(cmds') = n /\ Len(cmds) \in Nat
      /\ \A i \in 1..Len(cmds) : cmds'[i] = cmds[i]
      /\ cmds'[n] = c
  BY <1>2, <1>4, <1>n, Appended DEF TypeInv
<1>7. Answered' <=> Answered
  BY <1>4 DEF Answered
<1>8. cmds = <<>> => ~ Answered
  BY DEF Answered, QueueInv
<1>9. cmds # <<>> => cmds'[1] = cmds[1]
  BY <1>6, EmptySeq DEF TypeInv
<1>10. \A x : Awaited(x)' <=> Awaited(x)
  <2>1. CASE cmds = <<>>
    <3>1. cmds'[1].id = "del"
      BY <1>6, <2>1
    <3> QED BY <1>4, <2>1, <3>1 DEF Awaited, Coming
  <2>2. CASE cmds # <<>>
    BY <1>4, <1>6, <1>9, <2>2 DEF Awaited, Coming
  <2> QED BY <2>1, <2>2
<1>11. \A x : Adding(x)' <=> Adding(x)
  BY <1>ac, <1>1, <1>3, <1>10 DEF Adding
<1>12. /\ \A x : ~ Removing(a, x)'
       /\ \A x : Removing(a, x) <=> x = s
       /\ \A b \in Actor \ {a} : \A x : Removing(b, x)' <=> Removing(b, x)
  BY <1>1, <1>3, <1>s DEF Removing
<1>13. \A i \in 1..Len(cmds) : \A x : Deleting(i, x)' <=> Deleting(i, x)
  BY <1>6, <1>7 DEF Deleting
<1>14. \A x : Deleting(n, x)' <=> x = s
  <2>1. n = 1 => cmds = <<>>
    BY <1>6, EmptySeq DEF TypeInv
  <2>2. cmds'[n].id = "del" /\ cmds'[n].slot = s
    BY <1>6
  <2> QED BY <1>7, <1>8, <2>1, <2>2 DEF Deleting
<1>15. In(IF a = "call" THEN -2 ELSE -3, s) /\ n \in Place /\ n \notin {-3, -2, -1, 0}
       /\ (IF a = "call" THEN -2 ELSE -3) \in Place
  BY <1>ac, <1>6, <1>12, Places DEF Place
<1>16. \A p \in Place : In(p, s) => p = IF a = "call" THEN -2 ELSE -3
  BY <1>1, <1>15 DEF PlaceInv, Single
<1> HIDE DEF c
<1>17. ASSUME NEW p \in Place
       PROVE  In(p, s)' <=> p = n
  <2>1. CASE p = 0
    BY <1>4, <1>15, <1>16, <2>1 DEF In
  <2>2. CASE p = -1
    BY <1>11, <1>15, <1>16, <2>2 DEF In
  <2>3. CASE p = -2
    BY <1>ac, <1>12, <1>15, <1>16, <2>3 DEF In
  <2>4. CASE p = -3
    BY <1>ac, <1>12, <1>15, <1>16, <2>4 DEF In
  <2>5. CASE p \in 1..Len(cmds)
    <3>1. ~ Deleting(p, s)
      BY <1>16, <2>5 DEF In
    <3>2. p # n
      BY <1>6, <2>5
    <3> QED BY <1>13, <2>5, <3>1, <3>2 DEF In
  <2>6. CASE p = n
    BY <1>6, <1>14, <2>6 DEF In
  <2>7. CASE p \notin {-3, -2, -1, 0, n} /\ p \notin 1..Len(cmds)
    BY <1>6, <2>7 DEF In
  <2> QED BY <2>1, <2>2, <2>3, <2>4, <2>5, <2>6, <2>7
<1>18. ASSUME NEW p \in Place, NEW x \in Slot, x # s
       PROVE  In(p, x)' <=> In(p, x)
  <2>1. CASE p \in {-3, -2, -1, 0}
    BY <1>ac, <1>4, <1>6, <1>11, <1>12, <1>18, <2>1 DEF In
  <2>2. CASE p \in 1..Len(cmds)
    BY <1>6, <1>13, <2>2 DEF In
  <2>3. CASE p = n
    BY <1>6, <1>14, <1>18, <2>3 DEF In
  <2>4. CASE p \notin {-3, -2, -1, 0, n} /\ p \notin 1..Len(cmds)
    BY <1>6, <2>4 DEF In
  <2> QED BY <2>1, <2>2, <2>3, <2>4
<1>19. Covered' /\ Single'
  BY <1>1, <1>4, <1>15, <1>17, <1>18, PlaceMoved DEF PlaceInv
<1>20. Queued'
  <2>1. \A b \in Actor : At(b, "deinit") \/ At(b, "deinit")' => th'[b] = th[b]
    BY <1>1, <1>3
  <2> QED BY <1>4, <2>1 DEF PlaceInv, Queued
<1>21. Named'
  <2>1. At("call", "added")' => At("call", "added") /\ th'["call"] = th["call"]
    BY <1>ac, <1>3
  <2>2. \A x \in Slot : Awaited(x)' => cmds'[1].mac = fwsta'[x]
    <3>1. ASSUME NEW x \in Slot, Awaited(x)
          PROVE  cmds'[1].mac = fwsta[x]
      <4>1. cmds # <<>>
        BY <3>1 DEF Awaited, Coming
      <4> QED BY <1>9, <3>1, <4>1 DEF PlaceInv, Named
    <3> QED BY <1>4, <1>10, <3>1
  <2> QED BY <1>4, <2>1, <2>2 DEF PlaceInv, Named
<1> QED BY <1>5, <1>19, <1>20, <1>21 DEF PlaceInv

\* stop_ap sends its command.
LEMMA StopSent ==
  ASSUME TypeInv, QueueInv, PlaceInv, rwnx_send_apm_stop_req
  PROVE  QueueInv' /\ PlaceInv'
<1> USE DEF rwnx_send_apm_stop_req
<1>ac. "call" \in Actor /\ "loss" \in Actor /\ Actor = {"call", "loss"} /\ "call" # "loss"
  BY DEF Actor
<1>n. PICK n \in Nat \ {0} : n = Len(cmds) + 1
  BY DEF TypeInv
<1> DEFINE c == [id |-> "stop", by |-> IF cmds = <<>> THEN "call" ELSE "none"]
<1>1. th["call"].pc = "stop"
  OBVIOUS
<1>2. c \in Cmd /\ c.id = "stop"
  BY DEF Cmd
<1>3. /\ th'["loss"] = th["loss"]
      /\ th'["call"].pc = IF cmds = <<>> THEN "wait" ELSE "stopped"
  BY <1>ac DEF TypeInv
<1>4. cmds' = Append(cmds, c) /\ fifo' = fifo /\ UNCHANGED <<sta, sta_list, txqs, fwsta>>
  OBVIOUS
<1>5. QueueInv'
  <2>1. c.by = IF cmds = <<>> THEN "call" ELSE "none"
    OBVIOUS
  <2>2. \A x \in Actor \ {"call"} : th'[x] = th[x]
    BY <1>ac, <1>3
  <2> HIDE DEF c, rwnx_send_apm_stop_req
  <2> QED BY <1>ac, <1>1, <1>2, <1>3, <1>4, <2>1, <2>2, QueueGrown
<1>6. /\ Len(cmds') = n /\ Len(cmds) \in Nat
      /\ \A i \in 1..Len(cmds) : cmds'[i] = cmds[i]
      /\ cmds'[n] = c
  BY <1>2, <1>4, <1>n, Appended DEF TypeInv
<1>7. Answered' <=> Answered
  BY <1>4 DEF Answered
<1>9. cmds # <<>> => cmds'[1] = cmds[1]
  BY <1>6, EmptySeq DEF TypeInv
<1>10. \A x : Awaited(x)' <=> Awaited(x)
  <2>1. CASE cmds = <<>>
    <3>1. cmds'[1].id = "stop"
      BY <1>6, <2>1, <1>n
    <3> QED BY <1>4, <2>1, <3>1 DEF Awaited, Coming
  <2>2. CASE cmds # <<>>
    BY <1>4, <1>6, <1>9, <2>2 DEF Awaited, Coming
  <2> QED BY <2>1, <2>2
<1>11. \A x : Adding(x)' <=> Adding(x)
  BY <1>1, <1>3, <1>10 DEF Adding
<1>12. \A b \in Actor : \A x : Removing(b, x)' <=> Removing(b, x)
  BY <1>ac, <1>1, <1>3 DEF Removing
<1>13. \A i \in 1..Len(cmds) : \A x : Deleting(i, x)' <=> Deleting(i, x)
  BY <1>6, <1>7 DEF Deleting
<1>14. \A x : ~ Deleting(n, x)'
  BY <1>2, <1>6 DEF Deleting
<1>15. ASSUME NEW p \in Place, NEW x \in Slot
       PROVE  In(p, x)' <=> In(p, x)
  <2>1. p \in 1..Len(cmds') <=> p \in 1..Len(cmds) \/ p = n
    BY <1>6, <1>n
  <2>2. n \notin {-3, -2, -1, 0} /\ n \notin 1..Len(cmds)
    BY <1>6, <1>n
  <2> HIDE DEF c, rwnx_send_apm_stop_req
  <2> QED BY <1>ac, <1>4, <1>11, <1>12, <1>13, <1>14, <2>1, <2>2 DEF In
<1>16. Covered' /\ Single'
  BY <1>4, <1>15, PlaceSame DEF PlaceInv
<1>17. Queued'
  <2>1. \A b \in Actor : At(b, "deinit") \/ At(b, "deinit")' => th'[b] = th[b]
    BY <1>ac, <1>1, <1>3
  <2> QED BY <1>4, <2>1 DEF PlaceInv, Queued
<1>18. Named'
  <2>1. ~ At("call", "added")'
    BY <1>3
  <2>2. \A x \in Slot : Awaited(x)' => cmds'[1].mac = fwsta'[x]
    <3>1. ASSUME NEW x \in Slot, Awaited(x)
          PROVE  cmds'[1].mac = fwsta[x]
      <4>1. cmds # <<>>
        BY <3>1 DEF Awaited, Coming
      <4> QED BY <1>9, <3>1, <4>1 DEF PlaceInv, Named
    <3> QED BY <1>4, <1>10, <3>1
  <2> QED BY <1>4, <2>1, <2>2 DEF PlaceInv, Named
<1> QED BY <1>5, <1>16, <1>17, <1>18 DEF PlaceInv

\* add_station sends its command, which is alone in the queue.
LEMMA AddSent ==
  ASSUME TypeInv, QueueInv, PlaceInv, NEW m \in Mac, rwnx_cfg80211_add_station(m)
  PROVE  QueueInv' /\ PlaceInv'
<1> USE DEF rwnx_cfg80211_add_station
<1>ac. "call" \in Actor /\ "loss" \in Actor /\ Actor = {"call", "loss"} /\ "call" # "loss"
  BY DEF Actor
<1>1. cmds = <<>> /\ th["call"].pc = "none" /\ fifo' = fifo /\ UNCHANGED <<sta, sta_list, txqs, fwsta>>
  BY DEF Call
<1>2. \A i \in 1..Len(fifo) : fifo[i].id # "cfm"
  BY <1>1 DEF QueueInv
<1>3. CASE UNCHANGED <<th, cmds>>
  <2>1. \A a \in Actor : Moves(a)
    BY <1>3 DEF Moves
  <2> QED BY <1>1, <1>3, <2>1, FifoKept, MovesStays, QueueKept, PlaceKept
<1>4. CASE /\ th' = [th EXCEPT !["call"] = [pc |-> "wait"]]
           /\ cmds' = <<[id |-> "add", mac |-> m, by |-> "call"]>>
  <2>1. /\ th'["call"].pc = "wait" /\ th'["loss"] = th["loss"]
        /\ Len(cmds') = 1 /\ cmds'[1].id = "add" /\ cmds'[1].by = "call" /\ cmds' # <<>>
    BY <1>ac, <1>4 DEF TypeInv
  <2>2. th["loss"].pc # "wait"
    BY <1>ac, <1>1 DEF QueueInv
  <2>3. QueueInv'
    <3>1. \A i \in 2..Len(cmds') : FALSE
      BY <2>1
    <3> QED BY <1>ac, <1>1, <1>2, <2>1, <2>2, <3>1 DEF QueueInv
  <2>4. ~ Answered' /\ ~ Answered /\ \A x : ~ Awaited(x)' /\ ~ Awaited(x)
    BY <1>1, <1>2 DEF Answered, Awaited, Coming, Added
  <2>5. ASSUME NEW p \in Place, NEW x \in Slot
        PROVE  In(p, x)' <=> In(p, x)
    <3>1. /\ \A b \in Actor : Removing(b, x)' <=> Removing(b, x)
          /\ Adding(x)' <=> Adding(x)
      BY <1>ac, <1>1, <2>1, <2>4 DEF Removing, Adding
    <3>2. p \in 1..Len(cmds) => FALSE
      BY <1>1
    <3>3. p \in 1..Len(cmds') => ~ Deleting(p, x)'
      BY <2>1 DEF Deleting
    <3> QED BY <1>ac, <1>1, <3>1, <3>2, <3>3 DEF In
  <2>6. Covered' /\ Single'
    BY <1>1, <2>5, PlaceSame DEF PlaceInv
  <2>7. Queued' /\ Named'
    BY <1>ac, <1>1, <2>1, <2>4 DEF PlaceInv, Queued, Named
  <2> QED BY <2>3, <2>6, <2>7 DEF PlaceInv
<1> QED BY <1>1, <1>3, <1>4

\* add_station has its answer and lists the station.
LEMMA Fills ==
  ASSUME TypeInv, QueueInv, PlaceInv, AddFills
  PROVE  QueueInv' /\ PlaceInv'
<1> USE DEF AddFills
<1>ac. "call" \in Actor /\ "loss" \in Actor /\ Actor = {"call", "loss"} /\ "call" # "loss"
  BY DEF Actor
<1>s. PICK s \in Slot : s = th["call"].slot
  BY <1>ac, ThreadFields DEF TypeInv
<1>1. /\ th["call"].pc = "added" /\ th'["call"].pc = "ps" /\ th'["loss"] = th["loss"]
      /\ sta_list' = sta_list \union {s} /\ txqs' = txqs \union {s}
      /\ UNCHANGED <<cmds, fifo, fwsta>>
  BY <1>ac, <1>s DEF TypeInv
<1>2. QueueInv'
  <2>1. \A x \in Actor : Stays(x)
    BY <1>ac, <1>1 DEF Stays
  <2> QED BY <1>1, <2>1, QueueKept
<1>3. (Answered' <=> Answered) /\ \A x : Awaited(x)' <=> Awaited(x)
  BY <1>1, FifoKept
<1>4. \A x : ~ Awaited(x)
  <2>1. cmds # <<>> /\ cmds[1].id = "add" => FALSE
    BY <1>ac, <1>1, Tailed, CmdFields DEF TypeInv, QueueInv
  <2> QED BY <2>1 DEF Awaited, Coming
<1>5. \A x : (Adding(x) <=> x = s) /\ ~ Adding(x)'
  BY <1>1, <1>3, <1>4, <1>s DEF Adding
<1>6. \A b \in Actor : \A x : Removing(b, x)' <=> Removing(b, x)
  BY <1>ac, <1>1 DEF Removing
<1>7. \A i, x : Deleting(i, x)' <=> Deleting(i, x)
  BY <1>1, <1>3 DEF Deleting
<1>8. In(-1, s) /\ -1 \in Place /\ 0 \in Place
  BY <1>5, Places
<1> HIDE DEF AddFills
<1>9. \A p \in Place : In(p, s) => p = -1
  BY <1>8 DEF PlaceInv, Single
<1>10. ASSUME NEW p \in Place
       PROVE  In(p, s)' <=> p = 0
  <2>1. p \in 1..Len(cmds) => ~ Deleting(p, s)
    BY <1>9 DEF In, Place
  <2>2. \A b \in Actor : ~ Removing(b, s)
    BY <1>ac, <1>9, Places
  <2>3. 0 \notin 1..Len(cmds)
    OBVIOUS
  <2> QED BY <1>ac, <1>1, <1>5, <1>6, <1>7, <2>1, <2>2, <2>3 DEF In
<1>11. ASSUME NEW p \in Place, NEW x \in Slot, x # s
       PROVE  In(p, x)' <=> In(p, x)
  BY <1>ac, <1>1, <1>5, <1>6, <1>7, <1>11 DEF In
<1>12. Covered' /\ Single'
  BY <1>1, <1>8, <1>10, <1>11, PlaceMoved DEF PlaceInv
<1>13. Queued'
  <2>1. \A b \in Actor : At(b, "deinit") \/ At(b, "deinit")' => th'[b] = th[b]
    BY <1>ac, <1>1
  <2> QED BY <1>1, <2>1 DEF PlaceInv, Queued
<1>14. Named'
  <2>1. ~ At("call", "added")'
    BY <1>1
  <2>2. \A x \in sta_list' : sta'[x].mac = fwsta'[x]
    <3>1. sta'[s].mac = fwsta[s]
      BY <1>1, <1>s DEF PlaceInv, Named, AddFills, TypeInv, TypeOK
    <3>2. \A x \in sta_list \ {s} : sta'[x].mac = sta[x].mac
      BY <1>s DEF AddFills, TypeInv, TypeOK
    <3> QED BY <1>1, <3>1, <3>2 DEF PlaceInv, Named
  <2> QED BY <1>1, <1>3, <1>4, <2>1, <2>2 DEF PlaceInv, Named
<1> QED BY <1>2, <1>12, <1>13, <1>14 DEF PlaceInv

\* The firmware answers the first command.
LEMMA AnswerSent ==
  ASSUME TypeInv, QueueInv, Unanswered, NEW m \in Msg, m.id = "cfm", Send(m), th' = th, cmds' = cmds,
         Head(cmds).id = "add" => m \in Added \union Refusal
  PROVE  /\ QueueInv'
         /\ Answered' /\ ~ Answered /\ Head(cmds) = cmds[1] /\ cmds[1] \in Cmd /\ Len(cmds) \in Nat \ {0}
         /\ \A x : ~ Awaited(x)
         /\ \A x : Awaited(x)' <=> cmds[1].id = "add" /\ m \in Added /\ m.slot = x
<1>1. /\ Len(fifo') = Len(fifo) + 1 /\ Len(fifo) \in Nat
      /\ \A i \in 1..Len(fifo) : fifo'[i] = fifo[i] /\ fifo[i].id # "cfm"
      /\ fifo'[Len(fifo) + 1] = m
  BY Appended DEF TypeInv, Unanswered, Send
<1>2. cmds # <<>> /\ Head(cmds) = cmds[1] /\ cmds[1] \in Cmd /\ Len(cmds) \in Nat \ {0}
  BY Tailed DEF TypeInv, Unanswered
<1>n. PICK n \in Nat : n = Len(fifo) + 1
  BY <1>1
<1>3. /\ \A i \in 1..Len(fifo') : i = n \/ (i \in 1..Len(fifo) /\ fifo'[i].id # "cfm")
      /\ n \in 1..Len(fifo') /\ fifo'[n] = m
  BY <1>1, <1>n
<1>4. \A i \in 1..Len(fifo') : fifo'[i].id = "cfm" => i = n
  BY <1>3
<1>5. QueueInv'
  <2>1. \A i, j \in 1..Len(fifo') : fifo'[i].id = "cfm" /\ fifo'[j].id = "cfm" => i = j
    BY <1>4
  <2>2. \A i \in 1..Len(fifo') : fifo'[i].id = "cfm" =>
          /\ cmds' # <<>>
          /\ cmds'[1].id = "add" => fifo'[i] \in Added \union Refusal
    BY <1>2, <1>3, <1>4
  <2> QED BY <2>1, <2>2 DEF QueueInv
<1>6. Answered' /\ ~ Answered
  BY <1>1, <1>3 DEF Answered
<1>7. \A x : ~ Awaited(x)
  BY <1>1 DEF Awaited, Coming, Added
<1>8. \A x : Awaited(x)' <=> cmds[1].id = "add" /\ m \in Added /\ m.slot = x
  <2>1. \A i \in 1..Len(fifo') : fifo'[i] \in Added => i = n
    BY <1>4 DEF Added
  <2> QED BY <1>2, <1>3, <2>1 DEF Awaited, Coming
<1> QED BY <1>2, <1>5, <1>6, <1>7, <1>8

\* The firmware has another station, or tells that it cannot.
LEMMA Adds ==
  ASSUME TypeInv, QueueInv, PlaceInv, FwAdds
  PROVE  QueueInv' /\ PlaceInv'
<1>ac. "call" \in Actor /\ "loss" \in Actor /\ Actor = {"call", "loss"} /\ "call" # "loss"
  BY DEF Actor
<1>1. Unanswered /\ Head(cmds).id = "add" /\ cmds' = cmds /\ th' = th /\ UNCHANGED <<sta, sta_list, txqs>>
  BY DEF FwAdds, FwOnly
<1>2. Head(cmds) = cmds[1] /\ cmds[1] \in Cmd /\ Len(cmds) \in Nat \ {0}
  BY <1>1, Tailed DEF TypeInv, Unanswered
<1>3. th["call"].pc = "wait"
  BY <1>1, <1>2, <1>ac, CmdFields DEF QueueInv, Unanswered
<1>4. \A b \in Actor : \A x : Removing(b, x)' <=> Removing(b, x)
  BY <1>1 DEF Removing
<1>5. \A i \in 2..Len(cmds) : \A x : Deleting(i, x)' <=> Deleting(i, x)
  BY <1>1 DEF Deleting
<1>6. \A x : ~ Deleting(1, x) /\ ~ Deleting(1, x)'
  BY <1>1, <1>2 DEF Deleting
<1>7. \A i \in 1..Len(cmds) : \A x : Deleting(i, x)' <=> Deleting(i, x)
  BY <1>5, <1>6
<1>8. Queued' /\ ~ At("call", "added")'
  BY <1>1, <1>3 DEF PlaceInv, Queued
<1>9. CASE /\ Send([id |-> "cfm", ok |-> FALSE]) /\ fwsta' = fwsta
  <2>1. [id |-> "cfm", ok |-> FALSE] \in Refusal /\ [id |-> "cfm", ok |-> FALSE].id = "cfm"
        /\ [id |-> "cfm", ok |-> FALSE] \in Msg
    BY MsgMade
  <2>2. /\ QueueInv' /\ Answered' /\ ~ Answered
        /\ \A x : ~ Awaited(x)' /\ ~ Awaited(x)
    <3>1. [id |-> "cfm", ok |-> FALSE] \notin Added
      BY DEF Added
    <3> QED BY <1>1, <1>9, <2>1, <3>1, AnswerSent
  <2>3. \A x : Adding(x)' <=> Adding(x)
    BY <1>1, <2>2 DEF Adding
  <2>4. \A p, x : In(p, x)' <=> In(p, x)
    BY <1>ac, <1>1, <1>4, <1>7, <2>3 DEF In
  <2>5. Covered' /\ Single'
    BY <1>9, <2>4, PlaceSame DEF PlaceInv
  <2>6. Named'
    BY <1>1, <1>8, <1>9, <2>2 DEF PlaceInv, Named
  <2> QED BY <1>8, <2>2, <2>5, <2>6 DEF PlaceInv
<1>10. ASSUME NEW s \in Slot, NEW pm \in BOOLEAN,
              fwsta[s] = NoMac, fwsta' = [fwsta EXCEPT ![s] = Head(cmds).mac],
              Send([id |-> "cfm", ok |-> TRUE, slot |-> s, pm |-> pm])
       PROVE  QueueInv' /\ PlaceInv'
  <2> DEFINE m == [id |-> "cfm", ok |-> TRUE, slot |-> s, pm |-> pm]
  <2>1. m \in Added /\ m \in Msg /\ m.id = "cfm" /\ m.slot = s
    BY MsgMade
  <2> HIDE DEF m
  <2>2. /\ QueueInv' /\ Answered' /\ ~ Answered
        /\ \A x : ~ Awaited(x)
        /\ \A x : Awaited(x)' <=> x = s
    <3>1. Send(m)
      BY <1>10 DEF m
    <3> QED BY <1>1, <2>1, <3>1, AnswerSent
  <2>3. \A x : ~ Adding(x) /\ (Adding(x)' <=> x = s)
    BY <1>1, <1>3, <2>2 DEF Adding
  <2>4. \A p \in Place : ~ In(p, s)
    BY <1>10 DEF PlaceInv, Covered
  <2>5. ASSUME NEW p \in Place
        PROVE  In(p, s)' <=> p = -1
    <3>1. p \in 1..Len(cmds) => ~ Deleting(p, s)
      BY <2>4 DEF In
    <3>2. s \notin sta_list /\ \A b \in Actor : ~ Removing(b, s)
      BY <1>ac, <2>4, Places
    <3>3. -1 \notin 1..Len(cmds)
      BY <1>2
    <3> QED BY <1>ac, <1>1, <1>4, <1>7, <2>3, <3>1, <3>2, <3>3 DEF In
  <2>6. ASSUME NEW p \in Place, NEW x \in Slot, x # s
        PROVE  In(p, x)' <=> In(p, x)
    BY <1>ac, <1>1, <1>4, <1>7, <2>3, <2>6 DEF In
  <2>7. Head(cmds).mac \in Mac /\ NoMac \notin Mac
    BY <1>1, <1>2, CmdFields, ApAssumption
  <2>8. fwsta'[s] = cmds[1].mac /\ fwsta'[s] # NoMac /\ \A x \in Slot \ {s} : fwsta'[x] = fwsta[x]
    BY <1>2, <1>10, <2>7 DEF TypeInv, TypeOK
  <2>9. Covered'
    <3>1. -1 \in Place
      BY DEF Place
    <3> QED BY <2>5, <2>6, <2>8, <3>1 DEF PlaceInv, Covered
  <2>10. Single'
    BY <2>5, <2>6 DEF PlaceInv, Single
  <2>11. Named'
    <3>1. s \notin sta_list /\ sta_list \subseteq Slot
      BY <2>4, Places DEF TypeInv, TypeOK
    <3> QED BY <1>1, <1>8, <2>2, <2>8, <3>1 DEF PlaceInv, Named
  <2> QED BY <1>8, <2>2, <2>9, <2>10, <2>11 DEF PlaceInv
<1> QED BY <1>9, <1>10 DEF FwAdds

\* The firmware deletes a station: nobody has it any more.
LEMMA Deletes ==
  ASSUME TypeInv, QueueInv, PlaceInv, FwDeletes
  PROVE  QueueInv' /\ PlaceInv'
<1>ac. "call" \in Actor /\ "loss" \in Actor /\ Actor = {"call", "loss"} /\ "call" # "loss"
  BY DEF Actor
<1>1. Unanswered /\ Head(cmds).id = "del" /\ cmds' = cmds /\ th' = th /\ UNCHANGED <<sta, sta_list, txqs>>
  BY DEF FwDeletes, FwOnly
<1>2. Head(cmds) = cmds[1] /\ cmds[1] \in Cmd /\ Len(cmds) \in Nat \ {0}
  BY <1>1, Tailed DEF TypeInv, Unanswered
<1>s. PICK s \in Slot : s = cmds[1].slot
  BY <1>1, <1>2, CmdFields
<1>3. /\ QueueInv' /\ Answered' /\ ~ Answered
      /\ \A x : ~ Awaited(x)' /\ ~ Awaited(x)
  <2>1. [id |-> "cfm"] \in Msg /\ [id |-> "cfm"].id = "cfm" /\ Send([id |-> "cfm"])
    BY MsgMade DEF FwDeletes
  <2>2. /\ QueueInv' /\ Answered' /\ ~ Answered /\ \A x : ~ Awaited(x)
        /\ \A x : Awaited(x)' => cmds[1].id = "add"
    BY <1>1, <2>1, AnswerSent
  <2> QED BY <1>1, <1>2, <2>2
<1>4. \A b \in Actor : \A x : Removing(b, x)' <=> Removing(b, x)
  BY <1>1 DEF Removing
<1>5. \A i \in 1..Len(cmds) : \A x : Deleting(i, x)' <=> Deleting(i, x) /\ i # 1
  BY <1>1, <1>3 DEF Deleting
<1>6. \A x : Deleting(1, x) <=> x = s
  BY <1>1, <1>2, <1>3, <1>s DEF Deleting
<1>7. \A x : Adding(x)' <=> Adding(x)
  BY <1>1, <1>3 DEF Adding
<1>8. In(1, s) /\ 1 \in Place
  BY <1>2, <1>6 DEF In, Place
<1>9. \A p \in Place : In(p, s) => p = 1
  BY <1>8 DEF PlaceInv, Single
<1>10. ASSUME NEW p \in Place
       PROVE  ~ In(p, s)'
  BY <1>ac, <1>1, <1>4, <1>5, <1>7, <1>9 DEF In
<1>11. ASSUME NEW p \in Place, NEW x \in Slot, x # s
       PROVE  In(p, x)' <=> In(p, x)
  BY <1>ac, <1>1, <1>4, <1>5, <1>6, <1>7, <1>11 DEF In
<1>12. fwsta'[s] = NoMac /\ \A x \in Slot \ {s} : fwsta'[x] = fwsta[x]
  BY <1>2, <1>s DEF FwDeletes, TypeInv, TypeOK
<1>13. Covered' /\ Single'
  BY <1>10, <1>11, <1>12 DEF PlaceInv, Covered, Single
<1>14. Queued'
  BY <1>1 DEF PlaceInv, Queued
<1>15. Named'
  <2>1. s \notin sta_list /\ sta_list \subseteq Slot
    BY <1>9, Places DEF TypeInv, TypeOK
  <2>2. At("call", "added") => th["call"].slot \in Slot \ {s}
    <3>1. ASSUME At("call", "added")
          PROVE  Adding(th["call"].slot) /\ th["call"].slot \in Slot
      BY <1>ac, <3>1, ThreadFields DEF TypeInv, Adding
    <3>2. ~ Adding(s)
      BY <1>9, Places
    <3> QED BY <3>1, <3>2
  <2> QED BY <1>1, <1>3, <1>12, <2>1, <2>2 DEF PlaceInv, Named
<1> QED BY <1>3, <1>13, <1>14, <1>15 DEF PlaceInv

\* The firmware stops the access point.
LEMMA Stops ==
  ASSUME TypeInv, QueueInv, PlaceInv, FwStops
  PROVE  QueueInv' /\ PlaceInv'
<1>ac. "call" \in Actor /\ "loss" \in Actor
  BY DEF Actor
<1>1. Unanswered /\ Head(cmds).id = "stop" /\ cmds' = cmds /\ th' = th /\ UNCHANGED <<sta, sta_list, txqs, fwsta>>
  BY DEF FwStops, FwOnly
<1>2. Head(cmds) = cmds[1]
  BY <1>1, Tailed DEF TypeInv, Unanswered
<1>3. /\ QueueInv' /\ Answered' /\ ~ Answered
      /\ \A x : ~ Awaited(x)' /\ ~ Awaited(x)
  <2>1. [id |-> "cfm"] \in Msg /\ [id |-> "cfm"].id = "cfm" /\ Send([id |-> "cfm"])
    BY MsgMade DEF FwStops
  <2>2. /\ QueueInv' /\ Answered' /\ ~ Answered /\ \A x : ~ Awaited(x)
        /\ \A x : Awaited(x)' => cmds[1].id = "add"
    BY <1>1, <2>1, AnswerSent
  <2> QED BY <1>1, <1>2, <2>2
<1>4. \A i, x : Deleting(i, x)' <=> Deleting(i, x)
  BY <1>1, <1>2 DEF Deleting
<1>5. \A x : (Adding(x)' <=> Adding(x)) /\ \A b \in Actor : Removing(b, x)' <=> Removing(b, x)
  BY <1>1, <1>3 DEF Adding, Removing
<1>6. \A p, x : In(p, x)' <=> In(p, x)
  BY <1>ac, <1>1, <1>4, <1>5 DEF In
<1>7. Covered' /\ Single'
  BY <1>1, <1>6, PlaceSame DEF PlaceInv
<1>8. Queued' /\ Named'
  BY <1>1, <1>3 DEF PlaceInv, Queued, Named
<1> QED BY <1>3, <1>7, <1>8 DEF PlaceInv

\* The command leaves the queue, and the one who waits for it goes on.
LEMMA Confirms ==
  ASSUME TypeInv, QueueInv, PlaceInv, Confirmed
  PROVE  QueueInv' /\ PlaceInv'
<1>ac. "call" \in Actor /\ "loss" \in Actor /\ Actor = {"call", "loss"} /\ "call" # "loss" /\ "none" \notin Actor
  BY DEF Actor
<1>1. /\ cmds # <<>> /\ cmds[1] \in Cmd /\ fifo # <<>> /\ fifo[1].id = "cfm" /\ fifo' = Tail(fifo)
      /\ cmds' = Tail(cmds)
  BY ConfirmedShape
<1>2. UNCHANGED <<sta, sta_list, txqs, fwsta>>
  BY DEF Confirmed
<1>3. /\ Len(cmds) \in Nat \ {0} /\ Len(cmds') = Len(cmds) - 1
      /\ \A i \in 1..Len(cmds') : i + 1 \in 2..Len(cmds) /\ cmds'[i] = cmds[i + 1]
  BY <1>1, Tailed DEF TypeInv
<1>4. /\ Len(fifo) \in Nat \ {0} /\ Len(fifo') = Len(fifo) - 1
      /\ \A i \in 1..Len(fifo') : i + 1 \in 2..Len(fifo) /\ fifo'[i] = fifo[i + 1]
  BY <1>1, Tailed DEF TypeInv
<1>5. \A i \in 2..Len(fifo) : fifo[i].id # "cfm" /\ fifo[i] \notin Added
  <2>1. \A i \in 2..Len(fifo) : fifo[i].id # "cfm"
    <3>1. 1 \in 1..Len(fifo) /\ \A i \in 2..Len(fifo) : i \in 1..Len(fifo) /\ i # 1
      BY <1>4
    <3> QED BY <1>1, <3>1 DEF QueueInv
  <2> QED BY <2>1 DEF Added
<1>6. Answered /\ ~ Answered' /\ \A x : ~ Awaited(x)'
  <2>1. Answered
    BY <1>1, <1>4 DEF Answered
  <2>2. ~ Answered'
    BY <1>4, <1>5 DEF Answered
  <2>3. \A x : ~ Awaited(x)'
    BY <1>4, <1>5 DEF Awaited, Coming
  <2> QED BY <2>1, <2>2, <2>3
<1>7. \A x : Awaited(x) <=> cmds[1].id = "add" /\ fifo[1] \in Added /\ fifo[1].slot = x
  <2>1. \A i \in 1..Len(fifo) : i = 1 \/ i \in 2..Len(fifo)
    BY <1>4
  <2> QED BY <1>1, <1>4, <1>5, <2>1 DEF Awaited, Coming
<1>t. \/ cmds[1].by = "none" /\ th' = th
      \/ /\ cmds[1].by \in Actor /\ cmds[1].id = "del"
         /\ th' = [th EXCEPT ![cmds[1].by] = Removed(cmds[1].by)]
      \/ /\ cmds[1].by = "call"
         /\ th'["call"].pc \in {"stopped", "added", "refused"} /\ th'["loss"] = th["loss"]
         /\ th'["call"].pc = "added" <=> cmds[1].id = "add" /\ fifo[1] \in Added
         /\ th'["call"].pc = "added" => th'["call"].slot = fifo[1].slot
  <2>1. fifo[1] \in Refusal => fifo[1] \notin Added
    BY DEF Added, Refusal
  <2> QED BY <1>ac, <2>1, ConfirmedShape DEF TypeInv
\* The thread that waits is not adding or removing yet, and then does not wait.
<1>8. \A b \in Actor : th'[b].pc # "wait"
  <2>1. \A b \in Actor : th[b].pc = "wait" => cmds[1].by = b
    BY DEF QueueInv
  <2>2. CASE cmds[1].by = "none" /\ th' = th
    BY <1>ac, <2>1, <2>2
  <2>3. CASE cmds[1].by \in Actor /\ th' = [th EXCEPT ![cmds[1].by] = Removed(cmds[1].by)] /\ cmds[1].id = "del"
    <3>1. th[cmds[1].by] \in Removal
      BY <1>ac, <1>1, <2>3 DEF QueueInv
    <3>2. th[cmds[1].by].after \in After
      BY <3>1 DEF Removal
    <3>3. Removed(cmds[1].by).pc # "wait"
      BY <3>2 DEF Removed, After
    <3> QED BY <2>1, <2>3, <3>3 DEF TypeInv
  <2>4. CASE cmds[1].by = "call" /\ th'["call"].pc \in {"stopped", "added", "refused"} /\ th'["loss"] = th["loss"]
    BY <1>ac, <2>1, <2>4
  <2> QED BY <2>2, <2>3, <2>4, <1>t
<1>9. \A b \in Actor : \/ th'[b] = th[b]
                       \/ th[b].pc = "wait" /\ th'[b].pc \notin {"deinit", "send", "wait"}
  <2>1. cmds[1].by # "none" => th[cmds[1].by].pc = "wait"
    BY <1>1 DEF QueueInv
  <2>2. CASE cmds[1].by = "none" /\ th' = th
    BY <2>2
  <2>3. CASE cmds[1].by \in Actor /\ th' = [th EXCEPT ![cmds[1].by] = Removed(cmds[1].by)] /\ cmds[1].id = "del"
    <3>1. th[cmds[1].by] \in Removal
      BY <1>ac, <1>1, <2>3 DEF QueueInv
    <3>2. th[cmds[1].by].after \in After
      BY <3>1 DEF Removal
    <3>3. Removed(cmds[1].by).pc \notin {"deinit", "send", "wait"}
      BY <3>2 DEF Removed, After
    <3> QED BY <1>ac, <2>1, <2>3, <3>3 DEF TypeInv
  <2>4. CASE cmds[1].by = "call" /\ th'["call"].pc \in {"stopped", "added", "refused"} /\ th'["loss"] = th["loss"]
    BY <1>ac, <2>1, <2>4
  <2> QED BY <2>2, <2>3, <2>4, <1>t
<1>10. \A x : (th'["call"].pc = "added" /\ th'["call"].slot = x) <=> Adding(x)
  <2>1. CASE cmds[1].by = "none" /\ th' = th
    <3>1. cmds[1].id # "add"
      BY <1>1, <2>1, CmdFields
    <3> QED BY <1>7, <2>1, <3>1 DEF Adding
  <2>2. CASE cmds[1].by \in Actor /\ th' = [th EXCEPT ![cmds[1].by] = Removed(cmds[1].by)] /\ cmds[1].id = "del"
    <3>1. th[cmds[1].by] \in Removal /\ th[cmds[1].by].pc = "wait"
      BY <1>ac, <1>1, <2>2 DEF QueueInv
    <3>2. th[cmds[1].by].after \in After
      BY <3>1 DEF Removal
    <3>3. Removed(cmds[1].by).pc # "added"
      BY <3>2 DEF Removed, After
    <3> QED BY <1>ac, <1>7, <2>2, <3>1, <3>3 DEF Adding, TypeInv
  <2>3. cmds[1].by = "call" => th["call"].pc = "wait"
    BY <1>1 DEF QueueInv
  <2>4. CASE /\ cmds[1].by = "call"
             /\ th'["call"].pc = "added" <=> cmds[1].id = "add" /\ fifo[1] \in Added
             /\ th'["call"].pc = "added" => th'["call"].slot = fifo[1].slot
    BY <1>7, <2>3, <2>4 DEF Adding
  <2> QED BY <2>1, <2>2, <2>4, <1>t
<1>11. \A x : Adding(x)' <=> Adding(x)
  BY <1>6, <1>10 DEF Adding
<1>12. \A b \in Actor : \A x : Removing(b, x)' <=> Removing(b, x)
  BY <1>9 DEF Removing
<1>13. \A x : ~ Deleting(1, x)
  BY <1>6 DEF Deleting
<1>14. \A i \in 1..Len(cmds') : \A x : Deleting(i, x)' <=> Deleting(i + 1, x)
  <2>1. \A i \in 1..Len(cmds') : i + 1 # 1 /\ cmds'[i] = cmds[i + 1]
    BY <1>3
  <2> QED BY <1>6, <2>1 DEF Deleting
<1>15. ASSUME NEW p \in {-3, -2, -1, 0}, NEW x
       PROVE  In(p, x)' <=> In(p, x)
  <2>1. p \notin 1..Len(cmds) /\ p \notin 1..Len(cmds')
    BY <1>3
  <2> QED BY <1>ac, <1>2, <1>11, <1>12, <2>1 DEF In
<1>16. ASSUME NEW p \in Nat \ {0}, NEW x
       PROVE  In(p, x)' <=> In(p + 1, x)
  <2>1. p \in 1..Len(cmds') <=> p + 1 \in 1..Len(cmds)
    BY <1>3
  <2>2. p \notin {-3, -2, -1, 0} /\ p + 1 \notin {-3, -2, -1, 0}
    OBVIOUS
  <2>3. In(p, x)' <=> p \in 1..Len(cmds') /\ Deleting(p, x)'
    BY <2>2 DEF In
  <2>4. In(p + 1, x) <=> p + 1 \in 1..Len(cmds) /\ Deleting(p + 1, x)
    BY <2>2 DEF In
  <2> QED BY <1>14, <2>1, <2>3, <2>4
<1>17. \A x : ~ In(1, x)
  BY <1>13 DEF In
<1>18. Covered'
  <2> SUFFICES ASSUME NEW x \in Slot
               PROVE  (\E p \in Place : In(p, x)') <=> \E p \in Place : In(p, x)
    BY DEF PlaceInv, Covered, Confirmed
  <2>1. ASSUME NEW p \in Place, In(p, x)'
        PROVE  \E q \in Place : In(q, x)
    <3>1. CASE p \in {-3, -2, -1, 0}
      BY <1>15, <2>1, <3>1
    <3>2. CASE p \in Nat \ {0}
      <4>1. p + 1 \in Place /\ In(p + 1, x)
        BY <1>16, <2>1, <3>2 DEF Place
      <4> QED BY <4>1
    <3> QED BY <3>1, <3>2 DEF Place
  <2>2. ASSUME NEW p \in Place, In(p, x)
        PROVE  \E q \in Place : In(q, x)'
    <3>1. CASE p \in {-3, -2, -1, 0}
      BY <1>15, <2>2, <3>1
    <3>2. CASE p \in Nat \ {0}
      <4>1. PICK q \in Nat \ {0} : p = q + 1
        <5>1. p # 1 /\ p - 1 \in Nat \ {0} /\ p = (p - 1) + 1
          BY <1>17, <2>2, <3>2
        <5> QED BY <5>1
      <4>2. q \in Place /\ In(q, x)'
        BY <1>16, <2>2, <4>1 DEF Place
      <4> QED BY <4>2
    <3> QED BY <3>1, <3>2 DEF Place
  <2> QED BY <2>1, <2>2
<1>19. Single'
  <2> SUFFICES ASSUME NEW x \in Slot, NEW p \in Place, NEW q \in Place, In(p, x)', In(q, x)'
               PROVE  p = q
    BY DEF Single
  <2>1. ASSUME NEW r \in Place, In(r, x)'
        PROVE  IF r \in Nat \ {0} THEN r + 1 \in Place /\ In(r + 1, x)
                                  ELSE r \in {-3, -2, -1, 0} /\ In(r, x)
    BY <1>15, <1>16, <2>1 DEF Place
  <2>2. \A r, t \in Place : In(r, x) /\ In(t, x) => r = t
    BY DEF PlaceInv, Single
  <2>3. CASE p \in Nat \ {0} /\ q \in Nat \ {0}
    <3>1. p + 1 = q + 1
      BY <2>1, <2>2, <2>3
    <3> QED BY <2>3, <3>1
  <2>4. CASE p \in Nat \ {0} /\ q \notin Nat \ {0}
    <3>1. p + 1 = q
      BY <2>1, <2>2, <2>4
    <3> QED BY <2>4, <3>1
  <2>5. CASE p \notin Nat \ {0} /\ q \in Nat \ {0}
    <3>1. q + 1 = p
      BY <2>1, <2>2, <2>5
    <3> QED BY <2>5, <3>1
  <2>6. CASE p \notin Nat \ {0} /\ q \notin Nat \ {0}
    BY <2>1, <2>2, <2>6
  <2> QED BY <2>3, <2>4, <2>5, <2>6
<1>20. Queued'
  <2>1. \A b \in Actor : At(b, "deinit") \/ At(b, "deinit")' => th'[b] = th[b]
    BY <1>9
  <2> QED BY <1>2, <2>1 DEF PlaceInv, Queued
<1>21. Named'
  <2>1. \A s \in sta_list' : sta'[s].mac = fwsta'[s]
    BY <1>2 DEF PlaceInv, Named
  <2>2. At("call", "added")' => th'["call"].mac = fwsta'[th'["call"].slot]
    <3>1. CASE th'["call"] = th["call"]
      BY <1>2, <3>1 DEF PlaceInv, Named
    <3>2. CASE At("call", "added")' /\ th'["call"] # th["call"]
      <4>1. th["call"].pc = "wait"
        BY <1>ac, <1>9, <3>2
      <4>2. Awaited(th'["call"].slot)
        BY <1>10, <3>2, <4>1 DEF Adding
      <4>3. fifo[1] \in Added /\ cmds[1].id = "add"
        BY <1>7, <4>2
      <4>4. th'["call"] = [pc |-> "added", slot |-> fifo[1].slot, pm |-> fifo[1].pm, mac |-> cmds[1].mac]
        <5>1. fifo[1] \notin Refusal
          BY <4>3 DEF Added, Refusal
        <5>2. cmds[1].by # "none"
          BY <1>1, <4>3, CmdFields
        <5> QED BY <1>ac, <4>3, <5>1, <5>2, ConfirmedShape DEF TypeInv
      <4>5. th'["call"].slot \in Slot
        <5>1. fifo[1].slot \in Slot
          BY <4>3 DEF Added
        <5> QED BY <4>4, <5>1
      <4>6. cmds[1].mac = fwsta[th'["call"].slot]
        BY <4>2, <4>5 DEF PlaceInv, Named
      <4> QED BY <1>2, <4>4, <4>6
    <3> QED BY <3>1, <3>2
  <2> QED BY <1>6, <2>1, <2>2 DEF PlaceInv, Named
<1>22. QueueInv'
  <2>1. \A i \in 2..Len(cmds') : cmds'[i].by = "none" /\ cmds'[i].id # "add"
    <3>1. \A i \in 2..Len(cmds') : i + 1 \in 2..Len(cmds) /\ cmds'[i] = cmds[i + 1]
      BY <1>3
    <3> QED BY <3>1 DEF QueueInv
  <2>2. cmds' # <<>> => cmds'[1].by = "none"
    <3>1. cmds' # <<>> => Len(cmds') # 0
      BY <1>1, <1>3, Tailed, EmptySeq DEF TypeInv
    <3>2. Len(cmds') # 0 => 2 \in 2..Len(cmds) /\ cmds'[1] = cmds[2]
      <4>1. Len(cmds') # 0 => 1 \in 1..Len(cmds') /\ 2 \in 2..Len(cmds)
        BY <1>3
      <4> QED BY <1>3, <4>1
    <3> QED BY <3>1, <3>2 DEF QueueInv
  <2>3. \A i \in 1..Len(fifo') : fifo'[i].id # "cfm"
    BY <1>4, <1>5
  <2> QED BY <1>8, <2>1, <2>2, <2>3 DEF QueueInv
<1> QED BY <1>18, <1>19, <1>20, <1>21, <1>22 DEF PlaceInv

-----------------------------------------------------------------------------
(* When nothing but calls and sleeping stations happens.                    *)

\* While the call does not wait there is no command, and no answer to one.
LEMMA CalmFacts ==
  ASSUME TypeInv, QueueInv, PlaceInv, CallInv
  PROVE  /\ cmds # <<>> => /\ th["call"].pc = "wait" /\ Len(cmds) = 1 /\ cmds[1].by = "call"
                           /\ cmds[1] \in Cmd /\ Head(cmds) = cmds[1] /\ Tail(cmds) = <<>>
         /\ cmds = <<>> => \A i \in 1..Len(fifo) : fifo[i].id # "cfm"
         /\ th["call"].pc # "wait" => cmds = <<>>
         /\ adding_sta => th["call"].pc \in {"added", "ps", "refused", "wait"}
         /\ \A x \in Slot : Adding(x) => x \notin sta_list
         /\ Len(cmds) \in Nat /\ Len(fifo) \in Nat
<1>1. cmds # <<>> => /\ th["call"].pc = "wait" /\ Len(cmds) = 1 /\ cmds[1].by = "call"
                     /\ cmds[1] \in Cmd /\ Head(cmds) = cmds[1]
  BY Tailed DEF TypeInv, QueueInv, CallInv
<1>2. cmds # <<>> => Tail(cmds) = <<>>
  <2>1. cmds # <<>> => Tail(cmds) \in Seq(Cmd) /\ Len(Tail(cmds)) = 0
    BY <1>1, Tailed DEF TypeInv
  <2> QED BY <2>1, EmptySeq
<1>3. cmds = <<>> => \A i \in 1..Len(fifo) : fifo[i].id # "cfm"
  BY DEF QueueInv
<1>4. adding_sta => th["call"].pc \in {"added", "ps", "refused", "wait"}
  BY <1>1 DEF CallInv
<1>5. \A x \in Slot : Adding(x) => x \notin sta_list
  BY Places DEF PlaceInv, Single
<1> QED BY <1>1, <1>2, <1>3, <1>4, <1>5 DEF TypeInv

\* The messages stay, and no station changes place but in the hands of the call.
LEMMA SleepKept ==
  ASSUME TypeInv, QueueInv, SleepInv, cmds' = cmds \/ cmds = <<>>,
         fifo' = fifo, fwsta' = fwsta, fwps' = fwps,
         At("call", "added")' => th' = th,
         sta_list' \subseteq sta_list,
         \A x \in sta_list : x \in sta_list' \/ Removing("call", x)',
         \A x \in Slot : Removing("call", x) =>
           \/ Removing("call", x)'
           \/ cmds = <<>> /\ cmds' # <<>> /\ cmds'[1].id = "del" /\ cmds'[1].slot = x,
         \A x \in Slot \ sta_list' : ~ sta'[x].ps,
         \A x \in sta_list' : Believed(x)' = Believed(x)
  PROVE  SleepInv'
<1>1. cmds = <<>> => \A i \in 1..Len(fifo) : fifo[i].id # "cfm" /\ fifo[i] \notin Added
  BY DEF QueueInv, Added
<1>2. Alive' /\ Cleared'
  BY DEF SleepInv, Alive, Cleared
<1>3. Told'
  <2>1. \A s \in Slot, i \in 1..Len(fifo) : Coming(i, s)' => Coming(i, s)
    BY <1>1 DEF Coming
  <2> QED BY <2>1 DEF SleepInv, Told
<1>4. \A s, i : (PsMsg(i, s)' <=> PsMsg(i, s)) /\ (LastPs(i, s)' <=> LastPs(i, s))
  BY DEF PsMsg, LastPs
<1>5. Handled'
  BY <1>1, <1>4 DEF SleepInv, Handled
<1>6. Latest'
  BY <1>4 DEF SleepInv, Latest
<1>7. Agreed'
  BY <1>4 DEF SleepInv, Agreed
<1> QED BY <1>2, <1>3, <1>5, <1>6, <1>7 DEF SleepInv

\* The call goes from one plain place to another and no station is touched.
LEMMA CalmGoes ==
  ASSUME TypeInv, QueueInv, PlaceInv, CallInv, SleepInv, rx = None, NEW x \in Plain,
         th["call"].pc \in Plain, th' = [th EXCEPT !["call"] = [pc |-> x]],
         x = "stop" => sta_list = {},
         \/ adding_sta' = adding_sta /\ (adding_sta => x = "refused")
         \/ ~ adding_sta',
         UNCHANGED <<sta, sta_list, loss_queued, rx, cmds, fifo, fwsta, fwps>>
  PROVE  CallInv' /\ SleepInv'
<1>ac. "call" \in Actor /\ "loss" \in Actor /\ "call" # "loss"
  BY DEF Actor
<1>1. th'["call"].pc = x /\ th'["loss"] = th["loss"]
  BY <1>ac DEF TypeInv
<1>2. x \notin {"ps", "added", "deinit", "send", "wait"} /\ th["call"].pc \notin {"ps", "added", "deinit", "send", "wait"}
  BY DEF Plain
<1>3. cmds = <<>> /\ cmds' = <<>>
  BY <1>2, CalmFacts
<1>4. CallInv'
  BY <1>1, <1>2, <1>3 DEF CallInv
<1>5. SleepInv'
  <2>1. \A y \in sta_list' : Believed(y)' = Believed(y)
    BY <1>1, <1>2 DEF Believed
  <2>2. \A y : ~ Removing("call", y)
    BY <1>2 DEF Removing
  <2>3. \A y \in Slot \ sta_list' : ~ sta'[y].ps
    BY DEF SleepInv, Cleared
  <2> QED BY <1>1, <1>2, <2>1, <2>2, <2>3, SleepKept
<1> QED BY <1>4, <1>5

\* The call takes a station from the list.
LEMMA CalmUnlist ==
  ASSUME TypeInv, QueueInv, PlaceInv, CallInv, SleepInv, rx = None,
         th["call"].pc \in Plain, NEW s \in sta_list, NEW k \in After, Unlist("call", s, k),
         ~ adding_sta,
         UNCHANGED <<adding_sta, loss_queued, rx, cmds, fifo, fwsta, fwps>>
  PROVE  CallInv' /\ SleepInv'
<1>ac. "call" \in Actor /\ "loss" \in Actor /\ "call" # "loss"
  BY DEF Actor
<1>0. s \in Slot /\ sta_list \subseteq Slot /\ sta_list' = sta_list \ {s}
  BY DEF Unlist, TypeInv, TypeOK
<1>1. th'["call"].pc = "deinit" /\ th'["call"].slot = s /\ th'["loss"] = th["loss"]
  BY <1>ac, UnlistType
<1>2. th["call"].pc \notin {"ps", "added", "deinit", "send", "wait"}
  BY DEF Plain
<1>3. cmds = <<>> /\ cmds' = <<>>
  BY <1>2, CalmFacts
<1>4. CallInv'
  BY <1>1, <1>2, <1>3 DEF CallInv
<1>5. SleepInv'
  <2>1. \A y \in Slot : sta'[y].ps = IF y = s THEN FALSE ELSE sta[y].ps
    BY <1>0 DEF Unlist, TypeInv, TypeOK
  <2>2. \A y \in sta_list' : Believed(y)' = Believed(y)
    BY <1>0, <1>1, <1>2, <2>1 DEF Believed
  <2>3. \A y : ~ Removing("call", y)
    BY <1>2 DEF Removing
  <2>4. \A y \in Slot \ sta_list' : ~ sta'[y].ps
    BY <1>0, <2>1 DEF SleepInv, Cleared
  <2>5. \A y \in sta_list : y \in sta_list' \/ Removing("call", y)'
    BY <1>0, <1>1 DEF Removing
  <2> QED BY <1>0, <1>1, <2>2, <2>3, <2>4, <2>5, SleepKept
<1> QED BY <1>4, <1>5

\* Calls begin.
LEMMA CalmStack ==
  ASSUME TypeInv, QueueInv, PlaceInv, CallInv, SleepInv, allow = {}, Stack
  PROVE  CallInv' /\ SleepInv'
<1>ac. "call" \in Actor /\ "loss" \in Actor /\ "call" # "loss" /\ rx = None
  BY DEF Actor, Stack, MayRun
<1>1. ASSUME NEW m \in Mac, rwnx_cfg80211_add_station(m)
      PROVE  CallInv' /\ SleepInv'
  <2> USE DEF rwnx_cfg80211_add_station
  <2>1. /\ cmds = <<>> /\ th["call"].pc = "none" /\ rx' = None
        /\ th' = [th EXCEPT !["call"] = [pc |-> "wait"]]
        /\ cmds' = <<[id |-> "add", mac |-> m, by |-> "call"]>>
        /\ UNCHANGED <<sta, sta_list, loss_queued, fifo, fwsta, fwps>>
    BY <1>1, <1>ac DEF Call
  <2>2. /\ th'["call"].pc = "wait" /\ th'["loss"] = th["loss"]
        /\ Len(cmds') = 1 /\ cmds'[1].id = "add" /\ cmds'[1].by = "call" /\ cmds' # <<>>
    BY <1>ac, <2>1 DEF TypeInv
  <2>3. CallInv'
    BY <2>1, <2>2 DEF CallInv
  <2>4. \A y \in sta_list' : Believed(y)' = Believed(y)
    BY <1>ac, <2>1, <2>2 DEF Believed
  <2>5. \A y : ~ Removing("call", y)
    BY <2>1 DEF Removing
  <2>6. \A y \in Slot \ sta_list' : ~ sta'[y].ps
    BY <2>1 DEF SleepInv, Cleared
  <2> HIDE DEF rwnx_cfg80211_add_station
  <2> QED BY <2>1, <2>2, <2>3, <2>4, <2>5, <2>6, SleepKept
<1>2. th["call"].pc = "none" => ~ adding_sta /\ th["call"].pc \in Plain
  BY CalmFacts DEF Plain
<1>3. {"none", "flush", "stopping", "cookie"} \subseteq Plain /\ "none" \in After
  BY DEF Plain, After
<1>4. ASSUME NEW m \in Mac, rwnx_cfg80211_probe_client(m)
      PROVE  CallInv' /\ SleepInv'
  BY <1>ac, <1>2, <1>3, <1>4, CalmGoes DEF rwnx_cfg80211_probe_client, Call
<1>5. ASSUME NEW m \in Mac \union {NoMac}, rwnx_cfg80211_del_station_compat(m)
      PROVE  CallInv' /\ SleepInv'
  BY <1>ac, <1>2, <1>3, <1>5, CalmGoes, CalmUnlist DEF rwnx_cfg80211_del_station_compat, Call
<1>6. CASE rwnx_cfg80211_stop_ap
  BY <1>ac, <1>2, <1>3, <1>6, CalmGoes DEF rwnx_cfg80211_stop_ap, Call
<1>7. CASE rwnx_cfg80211_start_ap
  <2>2. UNCHANGED <<sta, sta_list, adding_sta, th, loss_queued, rx, cmds, fifo, fwsta, fwps>>
    BY <1>7 DEF rwnx_cfg80211_start_ap
  <2>3. CallInv'
    BY <2>2 DEF CallInv
  <2>4. SleepInv'
    BY <2>2 DEF SleepInv, Alive, Cleared, Told, Handled, Latest, Agreed, Coming, PsMsg, LastPs, Believed, Removing
  <2> QED BY <2>3, <2>4
<1> QED BY <1>1, <1>4, <1>5, <1>6, <1>7 DEF Stack

\* A removal goes on, or the access point is stopped.
LEMMA CalmSends ==
  ASSUME TypeInv, QueueInv, PlaceInv, CallInv, SleepInv, rx = None,
         rwnx_txq_sta_deinit("call") \/ rwnx_send_me_sta_del("call") \/ rwnx_send_apm_stop_req
  PROVE  CallInv' /\ SleepInv'
<1>ac. "call" \in Actor /\ "loss" \in Actor /\ "call" # "loss"
  BY DEF Actor
<1>1. cmds = <<>> /\ ~ adding_sta /\ th["call"].pc \in {"deinit", "send", "stop"}
  BY CalmFacts DEF rwnx_txq_sta_deinit, rwnx_send_me_sta_del, rwnx_send_apm_stop_req
<1>2. /\ UNCHANGED <<sta, sta_list, adding_sta, loss_queued, rx, fifo, fwsta, fwps>>
      /\ th'["loss"] = th["loss"]
  BY <1>ac DEF rwnx_txq_sta_deinit, rwnx_send_me_sta_del, rwnx_send_apm_stop_req, TypeInv
<1>3. \/ /\ th["call"].pc = "deinit" /\ cmds' = cmds
         /\ th'["call"].pc = "send" /\ th'["call"].slot = th["call"].slot
      \/ /\ th'["call"].pc = "wait" /\ cmds' # <<>> /\ Len(cmds') = 1 /\ cmds'[1].by = "call"
         /\ \/ cmds'[1].id = "stop" /\ sta_list = {} /\ th["call"].pc = "stop"
            \/ cmds'[1].id = "del" /\ cmds'[1].slot = th["call"].slot
  <2>1. CASE rwnx_txq_sta_deinit("call")
    BY <1>ac, <2>1 DEF rwnx_txq_sta_deinit, TypeInv
  <2>2. CASE rwnx_send_me_sta_del("call")
    <3>1. cmds' = <<[id |-> "del", slot |-> th["call"].slot, by |-> "call"]>>
      BY <1>1, <2>2 DEF rwnx_send_me_sta_del
    <3>2. th'["call"].pc = "wait"
      BY <1>1, <1>ac, <2>2 DEF rwnx_send_me_sta_del, TypeInv
    <3> QED BY <3>1, <3>2
  <2>3. CASE rwnx_send_apm_stop_req
    <3>1. cmds' = <<[id |-> "stop", by |-> "call"]>>
      BY <1>1, <2>3 DEF rwnx_send_apm_stop_req
    <3>2. th'["call"].pc = "wait" /\ th["call"].pc = "stop" /\ sta_list = {}
      BY <1>1, <1>ac, <2>3 DEF rwnx_send_apm_stop_req, TypeInv, CallInv
    <3> QED BY <3>1, <3>2
  <2> QED BY <2>1, <2>2, <2>3
<1>4. CallInv'
  BY <1>1, <1>2, <1>3 DEF CallInv
<1>5. \A y \in sta_list' : Believed(y)' = Believed(y)
  BY <1>1, <1>2, <1>3 DEF Believed
<1>6. \A y : Removing("call", y) =>
         \/ Removing("call", y)'
         \/ cmds = <<>> /\ cmds' # <<>> /\ cmds'[1].id = "del" /\ cmds'[1].slot = y
  BY <1>1, <1>3 DEF Removing
<1>7. \A y \in Slot \ sta_list' : ~ sta'[y].ps
  BY <1>2 DEF SleepInv, Cleared
<1>8. SleepInv'
  BY <1>1, <1>2, <1>3, <1>5, <1>6, <1>7, SleepKept
<1> QED BY <1>4, <1>8

\* A station that is added is not indicated before it is listed.
LEMMA CalmFills ==
  ASSUME TypeInv, QueueInv, PlaceInv, CallInv, SleepInv, rx = None, AddFills
  PROVE  CallInv' /\ SleepInv'
<1> USE DEF AddFills
<1>ac. "call" \in Actor /\ "loss" \in Actor /\ "call" # "loss"
  BY DEF Actor
<1>0. rx' = None
  OBVIOUS
<1>s. PICK s \in Slot : s = th["call"].slot
  BY <1>ac, ThreadFields DEF TypeInv
<1>1. /\ th["call"].pc = "added" /\ th'["call"].pc = "ps" /\ th'["loss"] = th["loss"]
      /\ th'["call"].slot = s /\ th'["call"].on = (sta[s].ps \/ th["call"].pm)
      /\ sta_list' = sta_list \union {s} /\ sta_list \subseteq Slot
      /\ \A y \in Slot : sta'[y].ps = sta[y].ps
      /\ UNCHANGED <<adding_sta, loss_queued, rx, cmds, fifo, fwsta, fwps>>
  BY <1>ac, <1>s DEF TypeInv, TypeOK
<1> HIDE DEF AddFills
<1>2. cmds = <<>> /\ cmds' = <<>> /\ \A i \in 1..Len(fifo) : fifo[i].id # "cfm"
  BY <1>1, CalmFacts
<1>3. CallInv'
  BY <1>1, <1>2 DEF CallInv
<1>4. s \notin sta_list
  BY <1>1, <1>s, CalmFacts DEF Adding
<1>5. \A i \in 1..Len(fifo) : ~ PsMsg(i, s)
  <2>1. ~ Removing("call", s)
    BY <1>1 DEF Removing
  <2> QED BY <1>2, <1>4, <2>1 DEF SleepInv, Handled
<1>6. \A y, i : (PsMsg(i, y)' <=> PsMsg(i, y)) /\ (LastPs(i, y)' <=> LastPs(i, y))
  BY <1>1 DEF PsMsg, LastPs
<1>7. Alive' /\ Cleared' /\ Told'
  BY <1>1, <1>2 DEF SleepInv, Alive, Cleared, Told, Coming
<1>8. Handled'
  <2>1. \A y : ~ Removing("call", y)
    BY <1>1 DEF Removing
  <2> QED BY <1>1, <1>2, <1>6, <2>1 DEF SleepInv, Handled
<1>9. Latest'
  <2>1. \A i \in 1..Len(fifo) : ~ LastPs(i, s)
    BY <1>5 DEF LastPs
  <2> QED BY <1>1, <1>6, <2>1 DEF SleepInv, Latest
<1>10. Agreed'
  <2>1. ASSUME NEW y \in sta_list
        PROVE  Believed(y)' = Believed(y)
    BY <1>1, <1>4, <2>1 DEF Believed
  <2>2. Believed(s)' = (s \in fwps)
    <3>1. sta[s].ps = FALSE
      BY <1>4 DEF SleepInv, Cleared, TypeInv, TypeOK
    <3>2. th["call"].pm = (s \in fwps)
      BY <1>1, <1>s DEF SleepInv, Told
    <3>3. Believed(s)' = th'["call"].on
      BY <1>0, <1>1 DEF Believed
    <3>4. th'["call"].on = (s \in fwps)
      <4>1. th'["call"].on = (FALSE \/ (s \in fwps))
        BY <1>1, <3>1, <3>2, Zenon
      <4>2. (FALSE \/ (s \in fwps)) = (s \in fwps)
        OBVIOUS
      <4> QED BY <4>1, <4>2
    <3> QED BY <3>3, <3>4
  <2> QED BY <1>1, <1>6, <2>1, <2>2 DEF SleepInv, Agreed
<1> QED BY <1>3, <1>7, <1>8, <1>9, <1>10 DEF SleepInv

\* add_station gives the queues of its station their state.
LEMMA CalmEnds ==
  ASSUME TypeInv, QueueInv, PlaceInv, CallInv, SleepInv, rx = None, AddEnds
  PROVE  CallInv' /\ SleepInv'
<1>ac. "call" \in Actor /\ "loss" \in Actor /\ "call" # "loss"
  BY DEF Actor
<1>s. PICK s \in sta_list : s = th["call"].slot
  BY DEF AddEnds, CallInv
<1>1. /\ th["call"].pc = "ps" /\ th'["call"].pc = "none" /\ th'["loss"] = th["loss"]
      /\ s \in Slot /\ ~ adding_sta'
      /\ \A y \in Slot : sta'[y].ps = IF y = s THEN th["call"].on ELSE sta[y].ps
      /\ UNCHANGED <<sta_list, loss_queued, rx, cmds, fifo, fwsta, fwps>>
  BY <1>ac, <1>s DEF AddEnds, None, TypeInv, TypeOK
<1>2. cmds = <<>>
  BY <1>1, CalmFacts
<1>3. CallInv'
  BY <1>1, <1>2 DEF CallInv
<1>4. \A y \in sta_list' : Believed(y)' = Believed(y)
  BY <1>1, <1>s DEF Believed, TypeInv, TypeOK
<1>5. \A y \in Slot \ sta_list' : ~ sta'[y].ps
  BY <1>1 DEF SleepInv, Cleared
<1>6. \A y : ~ Removing("call", y)
  BY <1>1 DEF Removing
<1>7. SleepInv'
  BY <1>1, <1>4, <1>5, <1>6, SleepKept
<1> QED BY <1>3, <1>7

\* Calls go on.
LEMMA CalmCalls ==
  ASSUME TypeInv, QueueInv, PlaceInv, CallInv, SleepInv, allow = {}, Calls
  PROVE  CallInv' /\ SleepInv'
<1>0. rx = None
  BY DEF Calls, MayRun
<1>1. CASE rwnx_txq_sta_deinit("call") \/ rwnx_send_me_sta_del("call") \/ rwnx_send_apm_stop_req
  BY <1>0, <1>1, CalmSends
<1>2. CASE AddFills
  BY <1>0, <1>2, CalmFills
<1>3. CASE AddEnds
  BY <1>0, <1>3, CalmEnds
<1>4. CASE AddRefused
  <2>1. th["call"].pc \in Plain /\ "none" \in Plain
    BY <1>4 DEF AddRefused, Plain
  <2> QED BY <1>0, <1>4, <2>1, CalmGoes DEF AddRefused, None
<1>5. CASE DelNext
  <2>1. th["call"].pc \in Plain \cap After /\ ~ adding_sta
    BY <1>5, CalmFacts DEF DelNext, Plain, After
  <2>2. {"none", "stop"} \subseteq Plain
    BY DEF Plain
  <2> QED BY <1>0, <1>5, <2>1, <2>2, CalmGoes, CalmUnlist DEF DelNext
<1>6. CASE StopEnds \/ ProbeReturns
  <2>1. th["call"].pc \in Plain /\ "none" \in Plain /\ ~ adding_sta
    BY <1>6, CalmFacts DEF StopEnds, ProbeReturns, Plain
  <2> QED BY <1>0, <1>6, <2>1, CalmGoes DEF StopEnds, ProbeReturns, None
<1> QED BY <1>1, <1>2, <1>3, <1>4, <1>5, <1>6 DEF Calls, Goes

\* The staloss work has nothing to do, and the probe work touches no station.
LEMMA CalmWorks ==
  ASSUME TypeInv, CallInv, SleepInv, Lost \/ Probes
  PROVE  CallInv' /\ SleepInv'
<1>1. ~ Lost
  BY DEF Lost, Goes, rwnx_txq_sta_deinit, rwnx_send_me_sta_del, apm_staloss_work_process, CallInv
<1>2. UNCHANGED <<sta, sta_list, adding_sta, th, loss_queued, rx, cmds, fifo, fwsta, fwps>>
  BY <1>1 DEF Probes, apm_probe_sta_work_process, ProbeCounts
<1>3. CallInv'
  BY <1>2 DEF CallInv
<1>4. SleepInv'
  BY <1>2 DEF SleepInv, Alive, Cleared, Told, Handled, Latest, Agreed, Coming, PsMsg, LastPs, Believed, Removing
<1> QED BY <1>3, <1>4

\* The indications of a station after the first message is gone.
LEMMA PsTaken ==
  ASSUME TypeInv, fifo # <<>>, fifo' = Tail(fifo)
  PROVE  /\ \A i \in 1..Len(fifo') : i + 1 \in 1..Len(fifo) /\ i + 1 # 1 /\ fifo'[i] = fifo[i + 1]
         /\ \A s : \A i \in 1..Len(fifo') :
              (PsMsg(i, s)' <=> PsMsg(i + 1, s)) /\ (LastPs(i, s)' => LastPs(i + 1, s))
         /\ \A s : (\A i \in 1..Len(fifo') : ~ PsMsg(i, s)') =>
              IF PsMsg(1, s) THEN LastPs(1, s) ELSE \A i \in 1..Len(fifo) : ~ PsMsg(i, s)
         /\ 1 \in 1..Len(fifo)
<1>1. /\ Len(fifo) \in Nat \ {0} /\ Len(fifo') = Len(fifo) - 1
      /\ \A i \in 1..Len(fifo') : i + 1 \in 1..Len(fifo) /\ fifo'[i] = fifo[i + 1]
  BY Tailed DEF TypeInv
<1>2. \A i \in 1..Len(fifo') : i + 1 # 1
  BY <1>1
<1>3. \A s : \A i \in 1..Len(fifo') : PsMsg(i, s)' <=> PsMsg(i + 1, s)
  BY <1>1 DEF PsMsg
<1>4. \A j \in 1..Len(fifo) : j = 1 \/ \E i \in 1..Len(fifo') : j = i + 1
  <2>1. \A j \in 1..Len(fifo) : j # 1 => j - 1 \in 1..Len(fifo') /\ j = (j - 1) + 1
    BY <1>1
  <2> QED BY <2>1
<1>5. ASSUME NEW s, NEW i \in 1..Len(fifo'), LastPs(i, s)'
      PROVE  LastPs(i + 1, s)
  <2>1. PsMsg(i + 1, s)
    BY <1>3, <1>5 DEF LastPs
  <2>2. ASSUME NEW j \in 1..Len(fifo), PsMsg(j, s)
        PROVE  j <= i + 1
    <3>1. CASE j = 1
      BY <3>1
    <3>2. ASSUME NEW k \in 1..Len(fifo'), j = k + 1
          PROVE  j <= i + 1
      <4>1. PsMsg(k, s)'
        BY <1>3, <2>2, <3>2
      <4>2. k <= i
        BY <1>5, <4>1 DEF LastPs
      <4> QED BY <3>2, <4>2
    <3> QED BY <1>4, <3>1, <3>2
  <2> QED BY <2>1, <2>2 DEF LastPs
<1>6. ASSUME NEW s, \A i \in 1..Len(fifo') : ~ PsMsg(i, s)'
      PROVE  IF PsMsg(1, s) THEN LastPs(1, s) ELSE \A i \in 1..Len(fifo) : ~ PsMsg(i, s)
  <2>1. \A j \in 1..Len(fifo) : PsMsg(j, s) => j = 1
    BY <1>3, <1>4, <1>6
  <2> QED BY <2>1 DEF LastPs
<1> QED BY <1>1, <1>2, <1>3, <1>5, <1>6

\* And after another one is sent.
LEMMA PsSent ==
  ASSUME TypeInv, NEW m \in Msg, fifo' = Append(fifo, m), NEW n, n = Len(fifo) + 1
  PROVE  /\ 1..Len(fifo') = 1..Len(fifo) \union {n} /\ n \notin 1..Len(fifo) /\ fifo'[n] = m
         /\ \A i \in 1..Len(fifo) : fifo'[i] = fifo[i] /\ i < n
         /\ \A s : \A i \in 1..Len(fifo) : PsMsg(i, s)' <=> PsMsg(i, s)
         /\ \A s : PsMsg(n, s)' <=> m \in Ps /\ m.slot = s
         /\ \A s : \A i \in 1..Len(fifo') : LastPs(i, s)' => IF m \in Ps /\ m.slot = s THEN i = n
                                                         ELSE i \in 1..Len(fifo) /\ LastPs(i, s)
<1>1. /\ Len(fifo') = n /\ Len(fifo) \in Nat
      /\ \A i \in 1..Len(fifo) : fifo'[i] = fifo[i]
      /\ fifo'[n] = m
  BY Appended DEF TypeInv
<1>2. 1..Len(fifo') = 1..Len(fifo) \union {n} /\ n \notin 1..Len(fifo) /\ n \in Nat
  BY <1>1
<1>3. \A i \in 1..Len(fifo) : i < n
  BY <1>1
<1>4. \A s : \A i \in 1..Len(fifo) : PsMsg(i, s)' <=> PsMsg(i, s)
  BY <1>1 DEF PsMsg
<1>5. \A s : (m \in Ps /\ m.slot = s) <=> fifo'[n] \in Ps /\ fifo'[n].slot = s
  BY <1>1
<1>6. ASSUME NEW s, NEW i \in 1..Len(fifo'), LastPs(i, s)'
      PROVE  IF m \in Ps /\ m.slot = s THEN i = n ELSE i \in 1..Len(fifo) /\ LastPs(i, s)
  <2>1. fifo'[i] \in Ps /\ fifo'[i].slot = s /\ \A j \in 1..Len(fifo') : fifo'[j] \in Ps /\ fifo'[j].slot = s => j <= i
    BY <1>6 DEF LastPs, PsMsg
  <2>2. CASE m \in Ps /\ m.slot = s
    <3>1. n <= i
      BY <1>2, <1>5, <2>1, <2>2
    <3> QED BY <1>1, <3>1, <2>2
  <2>3. CASE ~ (m \in Ps /\ m.slot = s)
    <3>1. i \in 1..Len(fifo)
      BY <1>2, <1>5, <2>1, <2>3
    <3>2. fifo[i] \in Ps /\ fifo[i].slot = s
      BY <1>1, <2>1, <3>1
    <3>3. \A j \in 1..Len(fifo) : fifo[j] \in Ps /\ fifo[j].slot = s => j <= i
      BY <1>1, <1>2, <2>1
    <3> QED BY <2>3, <3>1, <3>2, <3>3 DEF LastPs, PsMsg
  <2> QED BY <2>2, <2>3
<1> QED BY <1>1, <1>2, <1>3, <1>4, <1>5, <1>6 DEF PsMsg

\* The call has its answer.
LEMMA CalmConfirms ==
  ASSUME TypeInv, QueueInv, PlaceInv, CallInv, SleepInv, Confirmed
  PROVE  CallInv' /\ SleepInv'
<1>ac. "call" \in Actor /\ "loss" \in Actor /\ "call" # "loss"
  BY DEF Actor
<1>1. /\ cmds # <<>> /\ cmds[1] \in Cmd /\ fifo # <<>> /\ fifo[1].id = "cfm" /\ fifo' = Tail(fifo)
      /\ cmds' = <<>> /\ rx = None /\ rx' = None /\ cmds[1].by = "call" /\ th["call"].pc = "wait"
      /\ UNCHANGED <<sta, sta_list, adding_sta, loss_queued, fwsta, fwps>>
  <2>1. UNCHANGED <<sta, sta_list, adding_sta, loss_queued, fwsta, fwps, rx>>
    BY DEF Confirmed
  <2> QED BY <2>1, ConfirmedShape, CalmFacts
<1>2. /\ th'["loss"] = th["loss"]
      /\ \/ cmds[1].id = "del" /\ th'["call"].pc \in After
         \/ cmds[1].id = "stop" /\ th'["call"].pc = "stopped"
         \/ cmds[1].id = "add" /\ th'["call"].pc = "refused"
         \/ /\ cmds[1].id = "add" /\ fifo[1] \in Added /\ th'["call"].pc = "added"
            /\ th'["call"].slot = fifo[1].slot /\ th'["call"].pm = fifo[1].pm
  <2>1. CASE cmds[1].id = "del" /\ th' = [th EXCEPT !["call"] = Removed("call")]
    <3>1. th["call"].after \in After
      BY <1>ac, <1>1, <2>1, ThreadFields DEF QueueInv, TypeInv
    <3>2. th'["call"] = Removed("call") /\ th'["loss"] = th["loss"]
      BY <1>ac, <2>1 DEF TypeInv
    <3> QED BY <2>1, <3>1, <3>2 DEF Removed
  <2>2. CASE cmds[1].id = "stop" /\ th' = [th EXCEPT !["call"] = [pc |-> "stopped"]]
    BY <1>ac, <2>2 DEF TypeInv
  <2>3. CASE cmds[1].id = "add" /\ th' = [th EXCEPT !["call"] = [pc |-> "refused"]]
    BY <1>ac, <2>3 DEF TypeInv
  <2>4. CASE /\ cmds[1].id = "add" /\ fifo[1] \in Added
             /\ th' = [th EXCEPT !["call"] = [pc |-> "added", slot |-> fifo[1].slot,
                                              pm |-> fifo[1].pm, mac |-> cmds[1].mac]]
    BY <1>ac, <2>4 DEF TypeInv
  <2> QED BY <1>1, <2>1, <2>2, <2>3, <2>4, ConfirmedShape
<1>3. th'["call"].pc \notin {"ps", "stop", "deinit", "send"}
  BY <1>2 DEF After
<1>4. CallInv'
  <2>1. adding_sta => th'["call"].pc \in {"added", "refused"}
    BY <1>1, <1>2 DEF CallInv
  <2>2. \A i \in 1..Len(fifo') : fifo'[i].id # "loss"
    BY <1>1, PsTaken DEF CallInv
  <2> QED BY <1>1, <1>2, <1>3, <2>1, <2>2 DEF CallInv
<1>5. Alive' /\ Cleared'
  BY <1>1 DEF SleepInv, Alive, Cleared
<1>6. Told'
  <2>1. th'["call"].pc = "added" => th'["call"].pm = (th'["call"].slot \in fwps)
    <3>1. ASSUME th'["call"].pc = "added"
          PROVE  Coming(1, fifo[1].slot) /\ fifo[1].slot \in Slot /\ 1 \in 1..Len(fifo)
                 /\ th'["call"].slot = fifo[1].slot /\ th'["call"].pm = fifo[1].pm
      <4>1. cmds[1].id = "add" /\ fifo[1] \in Added
        BY <1>2, <3>1 DEF After
      <4>2. fifo[1].slot \in Slot
        BY <4>1 DEF Added
      <4> QED BY <1>1, <1>2, <3>1, <4>1, <4>2, PsTaken DEF Coming, After
    <3> QED BY <3>1 DEF SleepInv, Told
  <2> QED BY <1>1, <2>1 DEF Told, Coming
<1>7. \A s : ~ PsMsg(1, s)
  BY <1>1 DEF PsMsg, Ps
<1>8. Handled'
  <2>1. \A s : ~ Removing("call", s)
    BY <1>1 DEF Removing
  <2>2. ASSUME NEW s \in Slot, NEW i \in 1..Len(fifo'), PsMsg(i, s)'
        PROVE  s \in sta_list
    <3>1. PsMsg(i + 1, s) /\ i + 1 \in 1..Len(fifo) /\ 1 \in 1..Len(fifo)
      BY <1>1, <2>2, PsTaken
    <3>2. ~ (i + 1 < 1)
      OBVIOUS
    <3> QED BY <1>1, <2>1, <3>1, <3>2 DEF SleepInv, Handled
  <2> QED BY <1>1, <2>2 DEF Handled
<1>9. Latest'
  BY <1>1, PsTaken DEF SleepInv, Latest
<1>10. Agreed'
  <2>1. \A s : Believed(s)' = Believed(s)
    BY <1>1, <1>3 DEF Believed
  <2>2. \A s : (\A i \in 1..Len(fifo') : ~ PsMsg(i, s)') => \A i \in 1..Len(fifo) : ~ PsMsg(i, s)
    BY <1>1, <1>7, PsTaken
  <2> QED BY <1>1, <2>1, <2>2 DEF SleepInv, Agreed
<1> QED BY <1>4, <1>5, <1>6, <1>8, <1>9, <1>10 DEF SleepInv

\* An indication of a station that is listed is applied, any other is dropped.
LEMMA CalmIndicated ==
  ASSUME TypeInv, QueueInv, PlaceInv, CallInv, SleepInv, ~ At("call", "ps"), rwnx_rx_ps_change_ind
  PROVE  CallInv' /\ SleepInv'
<1> USE DEF rwnx_rx_ps_change_ind
<1>1. /\ rx = None /\ fifo # <<>> /\ fifo' = Tail(fifo) /\ Head(fifo) = fifo[1] /\ fifo[1] \in Ps
      /\ fifo[1].slot \in Slot /\ fifo[1].on \in BOOLEAN
  BY ReceivedShape, MsgFields
<1>s. PICK s \in Slot : s = fifo[1].slot
  BY <1>1
<1>2. UNCHANGED <<sta, sta_list, adding_sta, th, loss_queued, cmds, fwsta, fwps>>
  OBVIOUS
<1>3. PsMsg(1, s) /\ 1 \in 1..Len(fifo)
  BY <1>1, <1>s, PsTaken DEF PsMsg
<1>4. adding_sta => s \in sta_list
  <2>1. ASSUME adding_sta
        PROVE  /\ ~ Removing("call", s)
               /\ ~ (cmds # <<>> /\ cmds[1].id = "del")
    BY <2>1, CalmFacts DEF CallInv, Removing
  <2> QED BY <1>3, <2>1 DEF SleepInv, Handled
<1>5. sta[s].valid = (s \in sta_list)
  BY DEF TypeInv, TypeOK
<1>6. IF s \in sta_list THEN rx' # None /\ rx'.slot = s /\ rx'.on = fifo[1].on ELSE rx' = None
  <2>1. CASE s \in sta_list
    <3>1. rx' = [pc |-> "set", slot |-> s, on |-> fifo[1].on]
      BY <1>1, <1>5, <1>s, <2>1
    <3> QED BY <2>1, <3>1 DEF None
  <2>2. CASE s \notin sta_list
    BY <1>1, <1>4, <1>5, <1>s, <2>2
  <2> QED BY <2>1, <2>2
<1>7. CallInv'
  <2>1. \A i \in 1..Len(fifo') : fifo'[i].id # "loss"
    BY <1>1, PsTaken DEF CallInv
  <2> QED BY <1>2, <1>6, <2>1 DEF CallInv
<1> HIDE DEF rwnx_rx_ps_change_ind
<1>8. Alive' /\ Cleared'
  BY <1>2 DEF SleepInv, Alive, Cleared
<1>9. Told'
  <2>1. ASSUME NEW x \in Slot, NEW i \in 1..Len(fifo'), Coming(i, x)'
        PROVE  i + 1 \in 1..Len(fifo) /\ Coming(i + 1, x) /\ fifo'[i] = fifo[i + 1]
    BY <1>1, <1>2, <2>1, PsTaken DEF Coming
  <2> QED BY <1>2, <2>1 DEF SleepInv, Told
<1>10. Handled'
  <2> SUFFICES ASSUME NEW x \in Slot, NEW i \in 1..Len(fifo'), PsMsg(i, x)'
               PROVE  \/ x \in sta_list \/ Removing("call", x)
                      \/ /\ cmds # <<>> /\ cmds[1].id = "del" /\ cmds[1].slot = x
                         /\ \A j \in 1..Len(fifo') : fifo'[j].id = "cfm" => i < j
    BY <1>2 DEF Handled, Removing
  <2>1. PsMsg(i + 1, x) /\ i + 1 \in 1..Len(fifo)
    BY <1>1, PsTaken
  <2>2. \A j \in 1..Len(fifo') : fifo'[j] = fifo[j + 1] /\ j + 1 \in 1..Len(fifo)
    BY <1>1, PsTaken
  <2>3. \A j \in 1..Len(fifo') : i + 1 < j + 1 => i < j
    OBVIOUS
  <2> QED BY <2>1, <2>2, <2>3 DEF SleepInv, Handled
<1>11. Latest'
  BY <1>1, <1>2, PsTaken DEF SleepInv, Latest
<1>12. Agreed'
  <2> SUFFICES ASSUME NEW x \in sta_list, \A i \in 1..Len(fifo') : ~ PsMsg(i, x)'
               PROVE  Believed(x)' = (x \in fwps)
    BY <1>2 DEF Agreed
  <2>1. CASE x = s
    <3>1. LastPs(1, x)
      BY <1>1, <1>3, <2>1, PsTaken
    <3>2. Believed(x)' = fifo[1].on
      BY <1>6, <2>1 DEF Believed
    <3> QED BY <1>3, <3>1, <3>2 DEF SleepInv, Latest
  <2>2. CASE x # s
    <3>1. ~ PsMsg(1, x)
      BY <1>s, <2>2 DEF PsMsg
    <3>2. Believed(x)' = Believed(x)
      BY <1>1, <1>2, <1>6, <2>2 DEF Believed
    <3> QED BY <1>1, <3>1, <3>2, PsTaken DEF SleepInv, Agreed
  <2> QED BY <2>1, <2>2
<1> QED BY <1>7, <1>8, <1>9, <1>10, <1>11, <1>12 DEF SleepInv

\* The handler of an indication gives the queues their state.
LEMMA CalmApplied ==
  ASSUME TypeInv, QueueInv, PlaceInv, CallInv, SleepInv, ~ At("call", "ps"), rwnx_ps_bh_enable
  PROVE  CallInv' /\ SleepInv'
<1>1. /\ rx # None /\ rx.slot \in sta_list /\ rx.slot \in Slot /\ rx' = None
      /\ UNCHANGED <<sta_list, adding_sta, th, loss_queued, cmds, fifo, fwsta, fwps>>
      /\ \A y \in Slot : sta'[y].ps = IF y = rx.slot THEN rx.on ELSE sta[y].ps
  BY DEF rwnx_ps_bh_enable, CallInv, None, TypeInv, TypeOK
<1>2. CallInv'
  BY <1>1 DEF CallInv
<1>3. \A y \in sta_list' : Believed(y)' = Believed(y)
  BY <1>1 DEF Believed, TypeInv, TypeOK
<1>4. \A y \in Slot \ sta_list' : ~ sta'[y].ps
  BY <1>1 DEF SleepInv, Cleared
<1>5. \A y : Removing("call", y) => Removing("call", y)'
  BY <1>1 DEF Removing
<1>6. SleepInv'
  BY <1>1, <1>3, <1>4, <1>5, SleepKept
<1> QED BY <1>2, <1>6

\* A message that is no indication changes nothing for the stations listed.
LEMMA CalmSent ==
  ASSUME TypeInv, CallInv, SleepInv, NEW m \in Msg, Send(m), m.id = "cfm",
         UNCHANGED <<sta, sta_list, adding_sta, th, loss_queued, rx, cmds>>,
         \A x \in sta_list : x \in fwps' <=> x \in fwps
  PROVE  CallInv' /\ Cleared' /\ Handled' /\ Latest' /\ Agreed'
<1>n. PICK n : n = Len(fifo) + 1
  OBVIOUS
<1>1. fifo' = Append(fifo, m)
  BY DEF Send
<1>2. m \notin Ps
  BY DEF Ps
<1>3. \A i \in 1..Len(fifo') : i = n \/ (i \in 1..Len(fifo) /\ fifo'[i] = fifo[i])
  BY <1>1, <1>n, PsSent
<1>4. CallInv'
  <2>1. \A i \in 1..Len(fifo') : fifo'[i].id # "loss"
    BY <1>1, <1>3, <1>n, PsSent DEF CallInv
  <2> QED BY <2>1 DEF CallInv
<1>5. \A x : \A i \in 1..Len(fifo') : PsMsg(i, x)' => i \in 1..Len(fifo) /\ PsMsg(i, x) /\ i < n
  BY <1>1, <1>2, <1>3, <1>n, PsSent
<1>6. Cleared'
  BY DEF SleepInv, Cleared
<1>7. Handled'
  <2> SUFFICES ASSUME NEW x \in Slot, NEW i \in 1..Len(fifo'), PsMsg(i, x)'
               PROVE  \/ x \in sta_list \/ Removing("call", x)
                      \/ /\ cmds # <<>> /\ cmds[1].id = "del" /\ cmds[1].slot = x
                         /\ \A j \in 1..Len(fifo') : fifo'[j].id = "cfm" => i < j
    BY DEF Handled, Removing
  <2>1. i \in 1..Len(fifo) /\ PsMsg(i, x) /\ i < n
    BY <1>5
  <2> QED BY <1>3, <2>1 DEF SleepInv, Handled
<1>8. Latest'
  <2> SUFFICES ASSUME NEW x \in sta_list, NEW i \in 1..Len(fifo'), LastPs(i, x)'
               PROVE  fifo'[i].on = (x \in fwps')
    BY DEF Latest
  <2>1. i \in 1..Len(fifo) /\ LastPs(i, x) /\ fifo'[i] = fifo[i]
    BY <1>1, <1>2, <1>n, PsSent
  <2> QED BY <2>1 DEF SleepInv, Latest
<1>9. Agreed'
  <2> SUFFICES ASSUME NEW x \in sta_list, \A i \in 1..Len(fifo') : ~ PsMsg(i, x)'
               PROVE  Believed(x)' = (x \in fwps')
    BY DEF Agreed
  <2>1. \A i \in 1..Len(fifo) : ~ PsMsg(i, x)
    <3>1. 1..Len(fifo) \subseteq 1..Len(fifo')
      BY <1>1, <1>n, PsSent
    <3>2. \A i \in 1..Len(fifo) : PsMsg(i, x)' <=> PsMsg(i, x)
      BY <1>1, <1>n, PsSent
    <3> QED BY <3>1, <3>2
  <2>2. Believed(x)' = Believed(x)
    BY DEF Believed
  <2> QED BY <2>1, <2>2 DEF SleepInv, Agreed
<1> QED BY <1>4, <1>6, <1>7, <1>8, <1>9

\* The firmware answers.
LEMMA CalmAnswers ==
  ASSUME TypeInv, QueueInv, PlaceInv, CallInv, SleepInv, Answer
  PROVE  CallInv' /\ SleepInv'
<1>ac. "call" \in Actor /\ "loss" \in Actor /\ "call" # "loss"
  BY DEF Actor
<1>1. /\ Unanswered /\ UNCHANGED <<sta, sta_list, adding_sta, th, loss_queued, rx, cmds>>
  BY DEF Answer, FwAdds, FwDeletes, FwStops, FwOnly
<1>2. cmds # <<>> /\ th["call"].pc = "wait" /\ cmds[1] \in Cmd /\ Head(cmds) = cmds[1]
      /\ Len(cmds) \in Nat \ {0}
  BY <1>1, CalmFacts, Tailed DEF Unanswered, TypeInv
<1>3. \A i \in 1..Len(fifo) : fifo[i].id # "cfm" /\ fifo[i] \notin Added
  <2>1. \A i \in 1..Len(fifo) : fifo[i].id # "cfm"
    BY <1>1 DEF Unanswered, TypeInv
  <2> QED BY <2>1 DEF Added
<1>4. CASE FwStops
  <2>1. [id |-> "cfm"] \in Msg /\ [id |-> "cfm"].id = "cfm" /\ Send([id |-> "cfm"]) /\ cmds[1].id = "stop"
        /\ UNCHANGED <<fwsta, fwps>>
    BY <1>2, <1>4, MsgMade DEF FwStops
  <2>2. CallInv' /\ Cleared' /\ Handled' /\ Latest' /\ Agreed'
    BY <1>1, <2>1, CalmSent
  <2>3. Alive' /\ Told'
    BY <1>1, <1>2, <2>1 DEF SleepInv, Alive, Told, Coming
  <2> QED BY <2>2, <2>3 DEF SleepInv
<1>5. CASE FwDeletes
  <2>s. PICK s \in Slot : s = cmds[1].slot
    BY <1>2, <1>5, CmdFields DEF FwDeletes
  <2>1. [id |-> "cfm"] \in Msg /\ [id |-> "cfm"].id = "cfm" /\ Send([id |-> "cfm"]) /\ cmds[1].id = "del"
        /\ fwsta' = [fwsta EXCEPT ![s] = NoMac] /\ fwps' = fwps \ {s}
    BY <1>2, <1>5, <2>s, MsgMade DEF FwDeletes
  <2>2. s \notin sta_list
    <3>1. Deleting(1, s)
      BY <1>3, <2>1, <2>s DEF Deleting, Answered
    <3>2. In(1, s) /\ 1 \in Place /\ 0 \in Place
      BY <1>2, <3>1 DEF In, Place
    <3> QED BY <3>2, Places DEF PlaceInv, Single
  <2>3. CallInv' /\ Cleared' /\ Handled' /\ Latest' /\ Agreed'
    BY <1>1, <2>1, <2>2, CalmSent
  <2>4. Alive' /\ Told'
    BY <1>1, <1>2, <2>1 DEF SleepInv, Alive, Told, Coming, TypeInv, TypeOK
  <2> QED BY <2>3, <2>4 DEF SleepInv
<1>6. ASSUME FwAdds, Send([id |-> "cfm", ok |-> FALSE]), UNCHANGED <<fwsta, fwps>>
      PROVE  CallInv' /\ SleepInv'
  <2> DEFINE m == [id |-> "cfm", ok |-> FALSE]
  <2>1. m \in Msg /\ m.id = "cfm" /\ m \notin Added
    BY MsgMade DEF Added
  <2>2. Send(m)
    BY <1>6
  <2> HIDE DEF m
  <2>3. CallInv' /\ Cleared' /\ Handled' /\ Latest' /\ Agreed'
    BY <1>1, <1>6, <2>1, <2>2, CalmSent
  <2>4. Alive' /\ Told'
    <3>1. \A i \in 1..Len(fifo') : fifo'[i] \notin Added
      BY <1>3, <2>1, <2>2, Appended DEF Send, TypeInv
    <3> QED BY <1>1, <1>2, <1>6, <3>1 DEF SleepInv, Alive, Told, Coming
  <2> QED BY <2>3, <2>4 DEF SleepInv
<1>7. ASSUME FwAdds, NEW s \in Slot, NEW pm \in BOOLEAN,
             fwsta[s] = NoMac, fwsta' = [fwsta EXCEPT ![s] = Head(cmds).mac],
             fwps' = IF pm THEN fwps \union {s} ELSE fwps,
             Send([id |-> "cfm", ok |-> TRUE, slot |-> s, pm |-> pm])
      PROVE  CallInv' /\ SleepInv'
  <2> DEFINE m == [id |-> "cfm", ok |-> TRUE, slot |-> s, pm |-> pm]
  <2>1. m \in Added /\ m \in Msg /\ m.id = "cfm" /\ m.slot = s /\ m.pm = pm
    BY MsgMade
  <2>2. Send(m)
    BY <1>7
  <2> HIDE DEF m
  <2>3. s \notin sta_list
    <3>1. ~ In(0, s)
      BY <1>7, Places DEF PlaceInv, Covered
    <3> QED BY <3>1, Places
  <2>4. s \notin fwps
    BY <1>7 DEF SleepInv, Alive
  <2>5. CallInv' /\ Cleared' /\ Handled' /\ Latest' /\ Agreed'
    BY <1>1, <1>7, <2>1, <2>2, <2>3, CalmSent
  <2>6. Head(cmds).mac # NoMac
    BY <1>2, <1>7, CmdFields, ApAssumption DEF FwAdds
  <2>7. Alive'
    BY <1>7, <2>6 DEF SleepInv, Alive, TypeInv, TypeOK
  <2>8. Told'
    <3>1. \A i \in 1..Len(fifo') : fifo'[i] \in Added => fifo'[i] = m
      BY <1>3, <2>1, <2>2, Appended DEF Send, TypeInv
    <3>2. pm = (s \in fwps')
      BY <1>7, <2>4
    <3> QED BY <1>1, <1>2, <2>1, <3>1, <3>2 DEF Told, Coming
  <2> QED BY <2>5, <2>7, <2>8 DEF SleepInv
<1>8. CASE FwAdds
  BY <1>6, <1>7, <1>8 DEF FwAdds
<1> QED BY <1>4, <1>5, <1>8 DEF Answer

\* A station falls asleep or wakes.
LEMMA CalmSleeps ==
  ASSUME TypeInv, QueueInv, PlaceInv, CallInv, SleepInv, allow = {}, NEW s \in Slot, FwSleeps(s)
  PROVE  CallInv' /\ SleepInv'
<1>ac. "call" \in Actor /\ "loss" \in Actor /\ "call" # "loss"
  BY DEF Actor
<1> DEFINE m == [id |-> "ps", slot |-> s, on |-> s \notin fwps]
<1>n. PICK n : n = Len(fifo) + 1
  OBVIOUS
<1>1. /\ UNCHANGED <<sta, sta_list, adding_sta, th, loss_queued, rx, cmds, fwsta>>
      /\ fwsta[s] # NoMac /\ fifo' = Append(fifo, m)
      /\ \A x : x # s => (x \in fwps' <=> x \in fwps)
      /\ s \in fwps' <=> s \notin fwps
      /\ th["call"].pc \in {"added", "ps", "wait"} => s \in sta_list
  BY DEF FwSleeps, Settled, FwOnly, Send
<1>2. m \in Ps /\ m \in Msg /\ m.id = "ps" /\ m.slot = s /\ m.on = (s \in fwps') /\ m \notin Added
  <2>1. (s \notin fwps) \in BOOLEAN
    OBVIOUS
  <2>2. m \in Ps /\ m \in Msg /\ m.id = "ps" /\ m.slot = s
    BY <2>1, MsgMade
  <2>3. m.on = (s \notin fwps)
    OBVIOUS
  <2>4. m \notin Added
    BY <2>2 DEF Added
  <2> QED BY <1>1, <2>2, <2>3, <2>4
<1> HIDE DEF m
<1>3. /\ \A i \in 1..Len(fifo') : i = n \/ (i \in 1..Len(fifo) /\ fifo'[i] = fifo[i])
      /\ n \in 1..Len(fifo') /\ fifo'[n] = m
  BY <1>1, <1>2, <1>n, PsSent
<1>4. CallInv'
  <2>1. \A i \in 1..Len(fifo') : fifo'[i].id # "loss"
    BY <1>2, <1>3 DEF CallInv
  <2> QED BY <1>1, <2>1 DEF CallInv
\* It is listed, or the call is removing it.
<1>5. s \in sta_list \/ Removing("call", s)
  <2>1. PICK p \in Place : In(p, s)
    BY <1>1 DEF PlaceInv, Covered
  <2>2. CASE p = 0
    BY <2>1, <2>2, Places
  <2>3. CASE p = -1
    <3>1. Adding(s)
      BY <2>1, <2>3, Places
    <3>2. th["call"].pc \in {"added", "wait"}
      BY <3>1, CalmFacts DEF Adding, Awaited, Coming
    <3> QED BY <1>1, <3>2
  <2>4. CASE p = -2
    BY <2>1, <2>4, Places
  <2>5. CASE p = -3
    <3>1. Removing("loss", s)
      BY <2>1, <2>5, Places
    <3> QED BY <3>1 DEF Removing, CallInv
  <2>6. CASE p \in Nat \ {0}
    <3>1. p \in 1..Len(cmds)
      BY <2>1, <2>6 DEF In
    <3>2. cmds # <<>>
      BY <3>1
    <3>3. th["call"].pc = "wait"
      BY <3>2, CalmFacts
    <3> QED BY <1>1, <3>3
  <2> QED BY <2>2, <2>3, <2>4, <2>5, <2>6 DEF Place
<1>6. Alive' /\ Cleared'
  BY <1>1 DEF SleepInv, Alive, Cleared
<1>7. Told'
  <2>1. ~ (Adding(s))
    <3>1. Adding(s) => th["call"].pc \in {"added", "wait"}
      BY CalmFacts DEF Adding, Awaited, Coming
    <3> QED BY <1>1, <3>1, CalmFacts
  <2>2. At("call", "added") => th["call"].slot # s
    BY <2>1 DEF Adding
  <2>3. ASSUME NEW x \in Slot, NEW i \in 1..Len(fifo'), Coming(i, x)'
        PROVE  i \in 1..Len(fifo) /\ Coming(i, x) /\ fifo'[i] = fifo[i] /\ x # s
    <3>1. i \in 1..Len(fifo) /\ Coming(i, x) /\ fifo'[i] = fifo[i]
      BY <1>1, <1>2, <1>3, <2>3 DEF Coming
    <3> QED BY <2>1, <3>1 DEF Adding, Awaited
  <2> QED BY <1>1, <2>2, <2>3 DEF SleepInv, Told
<1>8. Handled'
  <2> SUFFICES ASSUME NEW x \in Slot, NEW i \in 1..Len(fifo'), PsMsg(i, x)'
               PROVE  \/ x \in sta_list \/ Removing("call", x)
                      \/ /\ cmds # <<>> /\ cmds[1].id = "del" /\ cmds[1].slot = x
                         /\ \A j \in 1..Len(fifo') : fifo'[j].id = "cfm" => i < j
    BY <1>1 DEF Handled, Removing
  <2>1. CASE i = n
    <3>1. x = s
      BY <1>2, <1>3, <2>1 DEF PsMsg
    <3> QED BY <1>5, <3>1
  <2>2. CASE i # n
    <3>1. i \in 1..Len(fifo) /\ PsMsg(i, x)
      BY <1>3, <2>2 DEF PsMsg
    <3>2. \A j \in 1..Len(fifo') : fifo'[j].id = "cfm" => j \in 1..Len(fifo) /\ fifo[j].id = "cfm"
      BY <1>2, <1>3
    <3> QED BY <3>1, <3>2 DEF SleepInv, Handled
  <2> QED BY <2>1, <2>2
<1>9. Latest'
  <2> SUFFICES ASSUME NEW x \in sta_list, NEW i \in 1..Len(fifo'), LastPs(i, x)'
               PROVE  fifo'[i].on = (x \in fwps')
    BY <1>1 DEF Latest
  <2>1. CASE x = s
    <3>1. i = n
      BY <1>1, <1>2, <1>n, <2>1, PsSent
    <3> QED BY <1>2, <1>3, <2>1, <3>1
  <2>2. CASE x # s
    <3>1. i \in 1..Len(fifo) /\ LastPs(i, x) /\ fifo'[i] = fifo[i]
      BY <1>1, <1>2, <1>n, <2>2, PsSent
    <3>2. fifo[i].on = (x \in fwps)
      BY <3>1 DEF SleepInv, Latest
    <3> QED BY <1>1, <2>2, <3>1, <3>2
  <2> QED BY <2>1, <2>2
<1>10. Agreed'
  <2> SUFFICES ASSUME NEW x \in sta_list, \A i \in 1..Len(fifo') : ~ PsMsg(i, x)'
               PROVE  Believed(x)' = (x \in fwps')
    BY <1>1 DEF Agreed
  <2>1. x # s
    BY <1>2, <1>3 DEF PsMsg
  <2>2. \A i \in 1..Len(fifo) : ~ PsMsg(i, x)
    <3>1. 1..Len(fifo) \subseteq 1..Len(fifo')
      BY <1>1, <1>2, <1>n, PsSent
    <3>2. \A i \in 1..Len(fifo) : PsMsg(i, x)' <=> PsMsg(i, x)
      BY <1>1, <1>2, <1>n, PsSent
    <3> QED BY <3>1, <3>2
  <2>3. Believed(x)' = Believed(x)
    BY <1>1 DEF Believed
  <2>4. Believed(x) = (x \in fwps)
    BY <2>2 DEF SleepInv, Agreed
  <2> QED BY <1>1, <2>1, <2>3, <2>4
<1> QED BY <1>4, <1>6, <1>7, <1>8, <1>9, <1>10 DEF SleepInv

-----------------------------------------------------------------------------
(* The invariant, and what follows from it.                                 *)

\* Before the access point is used.
LEMMA InitInv == Init => IInv
<1> SUFFICES ASSUME Init
             PROVE  IInv
  OBVIOUS
<1> USE DEF Init
<1>1. \A a \in Actor : th[a].pc = "none"
  BY DEF None
<1>ac. "call" \in Actor /\ "loss" \in Actor
  BY DEF Actor
<1>2. TypeInv
  <2>1. TypeOK
    <3>1. 0 \in 0..MaxCalls[allow] /\ 0 \in 0..MaxEvents
      BY ApAssumption
    <3>2. \A s \in Slot : sta[s] = [valid |-> FALSE, mac |-> NoMac, ps |-> FALSE]
      OBVIOUS
    <3>3. sta \in [Slot -> [valid : BOOLEAN, mac : Mac \union {NoMac}, ps : BOOLEAN]]
      OBVIOUS
    <3>4. {} = {s \in Slot : sta[s].valid}
      BY <3>2
    <3> QED BY <3>1, <3>3, <3>4 DEF TypeOK
  <2>2. th \in [Actor -> Thread]
    BY ThreadMade
  <2> QED BY <1>1, <1>ac, <2>1, <2>2 DEF TypeInv
<1>3. Len(cmds) = 0 /\ Len(fifo) = 0 /\ 1..0 = {}
  OBVIOUS
<1>4. QueueInv
  BY <1>1, <1>3 DEF QueueInv
<1>5. PlaceInv
  <2>1. \A s : ~ Awaited(s) /\ ~ Adding(s) /\ \A a \in Actor : ~ Removing(a, s)
    BY <1>1, <1>ac DEF Awaited, Adding, Coming, Removing
  <2>2. \A p, s : ~ In(p, s)
    BY <1>3, <1>ac, <2>1 DEF In
  <2> QED BY <1>1, <1>ac, <2>1, <2>2 DEF PlaceInv, Covered, Single, Queued, Named
<1>6. CallInv
  BY <1>1, <1>3, <1>ac DEF CallInv
<1>7. SleepInv
  BY <1>1, <1>3, <1>ac DEF SleepInv, Alive, Cleared, Told, Handled, Latest, Agreed
<1> QED BY <1>2, <1>4, <1>5, <1>6, <1>7 DEF IInv, CalmInv

\* Every step keeps the queue and the places of the stations.
LEMMA NextPlaces ==
  ASSUME TypeInv, QueueInv, PlaceInv, Next
  PROVE  QueueInv' /\ PlaceInv'
<1>1. CASE Stack
  BY <1>1, AddSent, IdleCall, Unlists DEF Stack
<1>2. CASE Calls \/ Lost
  <2>1. ASSUME NEW a \in Actor, Goes(a)
        PROVE  QueueInv' /\ PlaceInv'
    BY <2>1, Deinits, Sends DEF Goes
  <2>2. "call" \in Actor /\ "loss" \in Actor
    BY DEF Actor
  <2>3. CASE AddFills
    BY <2>3, Fills
  <2>4. CASE AddEnds \/ AddRefused \/ StopEnds \/ ProbeReturns
    BY <2>4, IdleCall
  <2>5. CASE DelNext \/ apm_staloss_work_process
    BY <2>5, Unlists
  <2>6. CASE rwnx_send_apm_stop_req
    BY <2>6, StopSent
  <2> QED BY <1>2, <2>1, <2>2, <2>3, <2>4, <2>5, <2>6 DEF Calls, Lost
<1>3. CASE Probes
  BY <1>3, IdleCall
<1>4. CASE Receive
  BY <1>4, Confirms, IdleMessage DEF Receive
<1>5. CASE Answer
  BY <1>5, Adds, Deletes, Stops DEF Answer
<1>6. CASE Firmware
  BY <1>6, IdleMessage
<1> QED BY <1>1, <1>2, <1>3, <1>4, <1>5, <1>6 DEF Next

\* When nothing else happens, every step keeps what is known of who sleeps.
LEMMA NextCalm ==
  ASSUME TypeInv, QueueInv, PlaceInv, CallInv, SleepInv, allow = {}, Next
  PROVE  CallInv' /\ SleepInv'
<1>1. CASE Receive
  <2>1. ~ At("call", "ps")
    BY <1>1 DEF Receive
  <2>2. ~ rwnx_apm_staloss_ind
    BY ReceivedShape DEF rwnx_apm_staloss_ind, CallInv, TypeInv
  <2> QED BY <1>1, <2>1, <2>2, CalmConfirms, CalmIndicated, CalmApplied DEF Receive
<1>2. CASE Firmware
  <2>1. PICK s \in Slot : FwSleeps(s)
    BY <1>2 DEF Firmware, FwLoses
  <2> QED BY <2>1, CalmSleeps
<1> QED BY <1>1, <1>2, CalmStack, CalmCalls, CalmWorks, CalmAnswers DEF Next

\* The invariant is inductive.
LEMMA NextInv ==
  ASSUME IInv, [Next]_vars
  PROVE  IInv'
<1> USE DEF IInv
<1>1. CASE Next
  <2>1. TypeInv'
    <3>1. CASE Stack
      BY <3>1, StackType
    <3>2. CASE Calls \/ Lost
      BY <3>2, CallsTypeKept
    <3>3. CASE Probes \/ Receive \/ Answer \/ Firmware
      BY <3>3, OthersType
    <3> QED BY <1>1, <3>1, <3>2, <3>3 DEF Next
  <2>2. QueueInv' /\ PlaceInv'
    BY <1>1, NextPlaces
  <2>3. allow' = allow
    BY <1>1 DEF Next, Stack, Calls, Lost, Probes, Receive, Answer, Firmware
  <2>4. CalmInv'
    BY <1>1, <2>3, NextCalm DEF CalmInv
  <2> QED BY <2>1, <2>2, <2>4
<1>2. CASE UNCHANGED vars
  <2> USE <1>2 DEF vars
  <2>1. TypeInv'
    BY DEF TypeInv, TypeOK
  <2>2. QueueInv'
    BY DEF QueueInv
  <2>3. PlaceInv'
    BY DEF PlaceInv, Covered, Single, Queued, Named, In, Adding, Awaited, Coming, Removing, Deleting, Answered
  <2>4. CallInv' <=> CallInv
    BY DEF CallInv
  <2>5. SleepInv' <=> SleepInv
    BY DEF SleepInv, Alive, Cleared, Told, Handled, Latest, Agreed, Coming, PsMsg, LastPs, Believed, Removing
  <2> QED BY <2>1, <2>2, <2>3, <2>4, <2>5 DEF CalmInv
<1> QED BY <1>1, <1>2

\* It gives what the run checks.
LEMMA InvAgree == IInv => StationsAgree
<1> SUFFICES ASSUME IInv
             PROVE  StationsAgree
  OBVIOUS
<1> USE DEF IInv
<1>ac. "call" \in Actor /\ "loss" \in Actor /\ Actor = {"call", "loss"}
  BY DEF Actor
<1>1. TypeOK
  BY DEF TypeInv
<1>2. SlotsAgree
  <2> SUFFICES ASSUME Quiet
               PROVE  /\ sta_list = {s \in Slot : fwsta[s] # NoMac} /\ txqs = sta_list
                      /\ \A s \in sta_list : sta[s].mac = fwsta[s]
    BY DEF SlotsAgree
  <2>1. \A s : ~ Adding(s) /\ \A a \in Actor : ~ Removing(a, s)
    BY <1>ac DEF Quiet, Adding, Awaited, Coming, Removing
  <2>2. \A p \in Place, s \in Slot : In(p, s) => p = 0 /\ s \in sta_list
    BY <1>ac, <2>1 DEF In, Quiet
  <2>3. 0 \in Place /\ \A s \in sta_list : In(0, s)
    BY DEF Place, In
  <2>4. \A s \in Slot : fwsta[s] # NoMac <=> s \in sta_list
    BY <2>2, <2>3 DEF PlaceInv, Covered
  <2>5. \A s \in Slot : s \in txqs <=> s \in sta_list
    BY <1>ac DEF Quiet, PlaceInv, Queued
  <2> QED BY <1>1, <2>4, <2>5 DEF PlaceInv, Named, TypeOK
<1>3. ASSUME allow = {}
      PROVE  PsAgrees
  <2> SUFFICES ASSUME Quiet, NEW s \in sta_list
               PROVE  sta[s].ps = (s \in fwps)
    BY DEF PsAgrees
  <2>1. \A i \in 1..Len(fifo) : ~ PsMsg(i, s)
    BY DEF Quiet
  <2>2. Believed(s) = sta[s].ps
    BY <1>ac DEF Believed, Quiet
  <2> QED BY <1>3, <2>1, <2>2 DEF CalmInv, SleepInv, Agreed
<1>4. ASSUME allow = {}
      PROVE  StopDeletesAll
  <2> SUFFICES ASSUME cmds # <<>>, Head(cmds).id = "stop", NEW s \in Slot
               PROVE  fwsta[s] = NoMac
    BY DEF StopDeletesAll
  <2>1. CallInv
    BY <1>3, <1>4 DEF CalmInv
  <2>2. /\ th["call"].pc = "wait" /\ Len(cmds) = 1 /\ cmds[1].id = "stop" /\ sta_list = {}
    BY <2>1, CalmFacts DEF CallInv
  <2>3. /\ ~ Adding(s) /\ ~ Removing("call", s) /\ ~ Removing("loss", s) /\ ~ Deleting(1, s)
    BY <2>1, <2>2 DEF Adding, Awaited, Coming, Removing, Deleting, CallInv
  <2>4. \A p \in Place : ~ In(p, s)
    <3>1. 1..Len(cmds) = {1}
      BY <2>2
    <3> QED BY <2>2, <2>3, <3>1 DEF In
  <2> QED BY <2>4 DEF PlaceInv, Covered
<1> QED BY <1>1, <1>2, <1>3, <1>4 DEF StationsAgree

\* Whatever order the calls of cfg80211 and the staloss work unlist stations,
\* take their queues down and tell the firmware in, driver and firmware have
\* the same stations in the end, under the same addresses; without losses,
\* early indications and interruptions also the same ones asleep
\* (rwnx_rx_ps_change_ind), and none is left when the firmware is told to stop
\* (rwnx_cfg80211_stop_ap).
THEOREM StationsTheorem == Spec => []StationsAgree
<1>1. Init => IInv
  BY InitInv
<1>2. IInv /\ [Next]_vars => IInv'
  BY NextInv
<1>3. IInv => StationsAgree
  BY InvAgree
<1> QED BY <1>1, <1>2, <1>3, PTL DEF Spec

=============================================================================
