---------------------------- MODULE CmdMgrProofs ----------------------------
(***************************************************************************)
(* Proofs about CmdMgr, for any number of senders, message ids, kinds of   *)
(* command and any queue limit.  The argument: along the list come first   *)
(* the commands that wait for nothing, then at most one the firmware has,  *)
(* then the ones that were not pushed.                                     *)
(***************************************************************************)
EXTENDS CmdMgr, TLAPS, SequenceTheorems, FiniteSetTheorems,
        WellFoundedInduction

\* Callers that still use their entry.  One that only has to wake the worker
\* does not: the worker may have freed the entry, and another may have it.
Holder == {p \in Caller : pc[p] \in {"queue", "push", "wait", "notify", "timedout"}}

Working == wpc \in {"push", "wait", "timedout", "free"}

\* The list, the flags along it, and the entries.
ListInv ==
  /\ queue_sz = Len(cmds)
  /\ \A i, j \in 1..Len(cmds) : cmds[i] = cmds[j] => i = j
  /\ \A i \in 1..Len(cmds) : cmds[i] \in used
  /\ \A i, j \in 1..Len(cmds) : i < j /\ flags[cmds[i]] # {} => flags[cmds[j]] = WAIT
  /\ \A c \in Cmd \ used : flags[c] = {}
  /\ \A c \in Cmd : "WAIT_PUSH" \in flags[c] => flags[c] = WAIT
  /\ \A c \in complete : flags[c] = {}
  /\ \A c \in used : msg[c] \in [kind : Kind, reqid : ReqId]

\* What a caller's position says of its entry.
CallerInv ==
  \A p \in Holder :
    /\ own[p] \in used
    /\ \A q \in Holder : own[p] = own[q] => p = q
    /\ Working => own[p] # next
    /\ pc[p] \in {"queue", "notify"} => own[p] \notin Listed /\ flags[own[p]] = {}
    /\ pc[p] = "push" => flags[own[p]] = {"WAIT_CFM"} /\ fw = <<>>
    /\ pc[p] \in {"push", "wait", "timedout"}
         => own[p] \in Listed /\ flags[own[p]] \subseteq {"WAIT_CFM"}

\* The worker works on the head of the list.
WorkerInv ==
  /\ wpc \in {"push", "wait", "timedout"} => cmds # <<>> /\ next = cmds[1]
  /\ wpc = "push" => flags[next] = WAIT
  /\ wpc \in {"wait", "timedout"} => flags[next] \subseteq {"WAIT_CFM"}
  /\ wpc = "free" => next \in used /\ next \notin Listed /\ flags[next] = {}

\* The firmware has at most one command, which is listed and awaits its answer.
FwInv ==
  /\ Len(fw) <= 1
  /\ fw # <<>> => /\ fw[1].cmd \in Listed
                  /\ flags[fw[1].cmd] = {"WAIT_CFM"}
                  /\ fw[1].reqid = msg[fw[1].cmd].reqid
  /\ rx = "find" => fw # <<>>

\* Until a command has timed out, the sender of one with a buffer waits for it.
BufferInv ==
  state # "CRASHED" =>
    \A c \in Listed : msg[c].kind = "buffer" /\ flags[c] # {} =>
      \E p \in Caller : own[p] = c /\ pc[p] \in {"push", "wait", "timedout"}

\* Every entry in use is on the list, or held by a caller or the worker.
PoolInv ==
  \A c \in used : \/ c \in Listed
                  \/ \E p \in Holder : own[p] = c
                  \/ wpc = "free" /\ c = next

IInv == /\ TypeOK /\ PoolSuffices /\ ListInv /\ CallerInv
        /\ WorkerInv /\ FwInv /\ BufferInv /\ PoolInv

-----------------------------------------------------------------------------
(* What steps of several actions keep.                                      *)

\* A step that leaves the list and the entries alone keeps what ListInv says.
LEMMA ListKept ==
  ASSUME ListInv, UNCHANGED <<cmds, queue_sz, used, flags, msg, complete>>
  PROVE  ListInv'
BY DEF ListInv

\* So does one that frees an entry that is not listed and awaits nothing.
LEMMA ListKeptByFree ==
  ASSUME TypeOK, ListInv, NEW c \in Cmd, c \notin Listed, flags[c] = {},
         rwnx_cmd_free(c), UNCHANGED <<cmds, queue_sz, flags, complete>>
  PROVE  ListInv'
<1>1. \A i \in 1..Len(cmds) : cmds[i] # c BY DEF Listed
<1>2. /\ \A i \in 1..Len(cmds) : cmds[i] \in used'
      /\ \A d \in Cmd \ used' : flags[d] = {}
      /\ \A d \in used' : msg'[d] \in [kind : Kind, reqid : ReqId]
  BY <1>1 DEF TypeOK, ListInv, rwnx_cmd_free
<1> QED BY <1>2 DEF ListInv

\* A buffer keeps its waiter while the list, the flags and the listed messages
\* stay and at most one caller moves, not away from its command.
LEMMA BufferKept ==
  ASSUME TypeOK, BufferInv, NEW p \in Caller,
         state' = state, Listed' = Listed, flags' = flags,
         \A c \in Listed : msg'[c] = msg[c],
         \A q \in Caller \ {p} : pc'[q] = pc[q] /\ own'[q] = own[q],
         pc[p] \in {"push", "wait", "timedout"}
           => pc'[p] \in {"push", "wait", "timedout"} /\ own'[p] = own[p]
  PROVE  BufferInv'
<1> SUFFICES ASSUME state # "CRASHED", NEW c \in Listed,
                    msg[c].kind = "buffer", flags[c] # {}
             PROVE  \E q \in Caller : own'[q] = c /\ pc'[q] \in {"push", "wait", "timedout"}
  BY DEF BufferInv
<1>1. PICK q \in Caller : own[q] = c /\ pc[q] \in {"push", "wait", "timedout"}
  BY DEF BufferInv
<1>2. own'[q] = c /\ pc'[q] \in {"push", "wait", "timedout"}
  BY <1>1
<1> QED BY <1>2

\* The values flags take along the list are different sets.
LEMMA FlagSets == {"WAIT_CFM"} # {} /\ WAIT # {} /\ {"WAIT_CFM"} # WAIT
<1>1. "WAIT_PUSH" \in WAIT /\ "WAIT_PUSH" \notin {"WAIT_CFM"} /\ "WAIT_CFM" \in {"WAIT_CFM"}
  BY DEF WAIT
<1> QED BY <1>1

\* At most one listed command awaits its confirmation only.
LEMMA OneAwaits ==
  ASSUME TypeOK, ListInv, NEW c \in Listed, NEW d \in Listed,
         flags[c] = {"WAIT_CFM"}, flags[d] = {"WAIT_CFM"}
  PROVE  c = d
<1>1. PICK i \in 1..Len(cmds) : c = cmds[i] BY DEF Listed
<1>2. PICK j \in 1..Len(cmds) : d = cmds[j] BY DEF Listed
<1>3. flags[c] # WAIT /\ flags[d] # WAIT /\ flags[c] # {} /\ flags[d] # {} BY FlagSets
<1>4. ~(i < j) /\ ~(j < i) BY <1>1, <1>2, <1>3 DEF ListInv
<1>5. i \in Int /\ j \in Int BY DEF TypeOK
<1> QED BY <1>1, <1>2, <1>4, <1>5

\* Behind a head that awaits something nothing was pushed.
LEMMA BehindHead ==
  ASSUME TypeOK, ListInv, cmds # <<>>, flags[cmds[1]] # {},
         NEW c \in Listed, c # cmds[1]
  PROVE  flags[c] = WAIT
<1>1. PICK i \in 1..Len(cmds) : c = cmds[i] BY DEF Listed
<1>2. Len(cmds) \in Nat /\ 1 \in 1..Len(cmds) /\ 1 < i BY <1>1 DEF TypeOK
<1> QED BY <1>1, <1>2 DEF ListInv

\* A message that asks for no confirmation gives its entry back at once.
LEMMA SendUnconfirmedStep ==
  ASSUME IInv, NEW p \in Caller, SendUnconfirmed(p)
  PROVE  IInv'
<1> USE DEF SendUnconfirmed, Enter, Queued, mgr, pool, wrk, link
<1>0. Listed' = Listed BY DEF Listed
<1>1. TypeOK' BY DEF IInv, TypeOK, rwnx_cmd_free
<1>2. PoolSuffices' BY DEF IInv, TypeOK, PoolSuffices
<1>3. ListInv'
  <2>1. own[p] \in Cmd /\ own[p] \notin Listed /\ flags[own[p]] = {}
    BY DEF IInv, TypeOK, CallerInv, Holder
  <2> QED BY <2>1, ListKeptByFree DEF IInv
<1>4. CallerInv' BY <1>0 DEF IInv, TypeOK, CallerInv, Holder, Working, rwnx_cmd_free
<1>5. WorkerInv'
  BY <1>0 DEF IInv, TypeOK, WorkerInv, CallerInv, Holder, Working, rwnx_cmd_free
<1>6. FwInv' BY <1>0 DEF IInv, TypeOK, FwInv, CallerInv, Holder, rwnx_cmd_free
<1>7. BufferInv'
  <2>1. \A c \in Listed : msg'[c] = msg[c]
    BY DEF IInv, TypeOK, CallerInv, Holder, rwnx_cmd_free
  <2> QED BY <2>1, <1>0, BufferKept DEF IInv, TypeOK
<1>8. PoolInv' BY <1>0 DEF IInv, TypeOK, PoolInv, Holder, rwnx_cmd_free
<1> QED BY <1>1, <1>2, <1>3, <1>4, <1>5, <1>6, <1>7, <1>8 DEF IInv

\* So does a refused one; cmd_mgr_queue did not list it.
LEMMA RefuseStep ==
  ASSUME IInv, NEW p \in Caller, Refuse(p)
  PROVE  IInv'
<1> USE DEF Refuse, Enter, Queued, Crashed, TooMany, mgr, pool, wrk, link
<1>0. Listed' = Listed BY DEF Listed
<1>1. TypeOK' BY DEF IInv, TypeOK, rwnx_cmd_free
<1>2. PoolSuffices' BY DEF IInv, TypeOK, PoolSuffices
<1>3. ListInv'
  <2>1. own[p] \in Cmd /\ own[p] \notin Listed /\ flags[own[p]] = {}
    BY DEF IInv, TypeOK, CallerInv, Holder
  <2> QED BY <2>1, ListKeptByFree DEF IInv
<1>4. CallerInv' BY <1>0 DEF IInv, TypeOK, CallerInv, Holder, Working, rwnx_cmd_free
<1>5. WorkerInv'
  BY <1>0 DEF IInv, TypeOK, WorkerInv, CallerInv, Holder, Working, rwnx_cmd_free
<1>6. FwInv' BY <1>0 DEF IInv, TypeOK, FwInv, CallerInv, Holder, rwnx_cmd_free
<1>7. BufferInv'
  <2>1. \A c \in Listed : msg'[c] = msg[c]
    BY DEF IInv, TypeOK, CallerInv, Holder, rwnx_cmd_free
  <2> QED BY <2>1, <1>0, BufferKept DEF IInv, TypeOK
<1>8. PoolInv' BY <1>0 DEF IInv, TypeOK, PoolInv, Holder, rwnx_cmd_free
<1> QED BY <1>1, <1>2, <1>3, <1>4, <1>5, <1>6, <1>7, <1>8 DEF IInv

\* A caller that wakes the worker uses its entry no more.
LEMMA WakeStep ==
  ASSUME IInv, NEW p \in Caller, Wake(p)
  PROVE  IInv'
<1> USE DEF Wake, Enter, mgr, pool, wrk, link
<1>0. Listed' = Listed BY DEF Listed
<1>1. TypeOK' BY DEF IInv, TypeOK
<1>2. PoolSuffices' BY DEF IInv, TypeOK, PoolSuffices
<1>3. ListInv' BY ListKept DEF IInv
<1>4. CallerInv' BY <1>0 DEF IInv, TypeOK, CallerInv, Holder, Working
<1>5. WorkerInv' BY <1>0 DEF IInv, WorkerInv
<1>6. FwInv' BY <1>0 DEF IInv, FwInv
<1>7. BufferInv' BY <1>0, BufferKept DEF IInv, TypeOK
<1>8. PoolInv' BY <1>0 DEF IInv, TypeOK, PoolInv, Holder
<1> QED BY <1>1, <1>2, <1>3, <1>4, <1>5, <1>6, <1>7, <1>8 DEF IInv

\* A caller pushes only when the firmware has nothing.
LEMMA PushStep ==
  ASSUME IInv, NEW p \in Caller, Push(p)
  PROVE  IInv'
<1> USE DEF Push, Enter, aicwf_set_cmd_tx, mgr, pool, wrk, link
<1>0. Listed' = Listed BY DEF Listed
<1>1. TypeOK' BY DEF IInv, TypeOK, ListInv, CallerInv, Holder
<1>2. PoolSuffices' BY DEF IInv, TypeOK, PoolSuffices
<1>3. ListInv' BY ListKept DEF IInv
<1>4. CallerInv'
  <2>1. \A q \in Caller : pc[q] = "push" => q = p
    BY OneAwaits DEF IInv, CallerInv, Holder
  <2> QED BY <2>1, <1>0 DEF IInv, TypeOK, CallerInv, Holder, Working
<1>5. WorkerInv' BY <1>0 DEF IInv, WorkerInv
<1>6. FwInv'
  <2>1. /\ own[p] \in Listed /\ flags[own[p]] = {"WAIT_CFM"} /\ fw = <<>>
    BY DEF IInv, CallerInv, Holder
  <2> DEFINE r == [cmd |-> own[p], reqid |-> msg[own[p]].reqid]
  <2>2. fw' = <<r>> BY <2>1
  <2>3. r.cmd = own[p] /\ r.reqid = msg[own[p]].reqid OBVIOUS
  <2> HIDE DEF r, Push, aicwf_set_cmd_tx
  <2>4. Len(fw') = 1 /\ fw'[1] = r BY <2>2
  <2>5. UNCHANGED <<flags, msg, rx>> BY DEF Push
  <2> QED BY <2>1, <2>3, <2>4, <2>5, <1>0 DEF IInv, FwInv
<1>7. BufferInv' BY <1>0, BufferKept DEF IInv, TypeOK
<1>8. PoolInv' BY <1>0 DEF IInv, TypeOK, PoolInv, Holder
<1> QED BY <1>1, <1>2, <1>3, <1>4, <1>5, <1>6, <1>7, <1>8 DEF IInv

\* The entry a caller frees was taken off the list.
LEMMA NotifyStep ==
  ASSUME IInv, NEW p \in Caller, Notify(p)
  PROVE  IInv'
<1> USE DEF Notify, Enter, mgr, pool, wrk, link
<1>0. Listed' = Listed BY DEF Listed
<1>1. TypeOK' BY DEF IInv, TypeOK, rwnx_cmd_free
<1>2. PoolSuffices' BY DEF IInv, TypeOK, PoolSuffices
<1>3. ListInv'
  <2>1. own[p] \in Cmd /\ own[p] \notin Listed /\ flags[own[p]] = {}
    BY DEF IInv, TypeOK, CallerInv, Holder
  <2> QED BY <2>1, ListKeptByFree DEF IInv
<1>4. CallerInv' BY <1>0 DEF IInv, TypeOK, CallerInv, Holder, Working, rwnx_cmd_free
<1>5. WorkerInv'
  BY <1>0 DEF IInv, TypeOK, WorkerInv, CallerInv, Holder, Working, rwnx_cmd_free
<1>6. FwInv' BY <1>0 DEF IInv, TypeOK, FwInv, CallerInv, Holder, rwnx_cmd_free
<1>7. BufferInv'
  <2>1. \A c \in Listed : msg'[c] = msg[c]
    BY DEF IInv, TypeOK, CallerInv, Holder, rwnx_cmd_free
  <2> QED BY <2>1, <1>0, BufferKept DEF IInv, TypeOK
<1>8. PoolInv' BY <1>0 DEF IInv, TypeOK, PoolInv, Holder, rwnx_cmd_free
<1> QED BY <1>1, <1>2, <1>3, <1>4, <1>5, <1>6, <1>7, <1>8 DEF IInv

\* A timeout on its own changes only where the caller is.
LEMMA TimedOutStep ==
  ASSUME IInv, NEW p \in Caller, TimedOut(p)
  PROVE  IInv'
<1> USE DEF TimedOut, Enter, mgr, pool, wrk, link
<1>0. Listed' = Listed BY DEF Listed
<1>1. TypeOK' BY DEF IInv, TypeOK
<1>2. PoolSuffices' BY DEF IInv, TypeOK, PoolSuffices
<1>3. ListInv' BY ListKept DEF IInv
<1>4. CallerInv' BY <1>0 DEF IInv, TypeOK, CallerInv, Holder, Working
<1>5. WorkerInv' BY <1>0 DEF IInv, WorkerInv
<1>6. FwInv' BY <1>0 DEF IInv, FwInv
<1>7. BufferInv' BY <1>0, BufferKept DEF IInv, TypeOK
<1>8. PoolInv' BY <1>0 DEF IInv, TypeOK, PoolInv, Holder
<1> QED BY <1>1, <1>2, <1>3, <1>4, <1>5, <1>6, <1>7, <1>8 DEF IInv

\* A caller that gives up leaves its command on the list, and its entry in use.
LEMMA CallerGivesUpStep ==
  ASSUME IInv, NEW p \in Caller, CallerGivesUp(p)
  PROVE  IInv'
<1> USE DEF CallerGivesUp, GiveUp, Enter, mgr, pool, wrk, link
<1>0. Listed' = Listed BY DEF Listed
<1>1. TypeOK' BY DEF IInv, TypeOK
<1>2. PoolSuffices' BY DEF IInv, TypeOK, PoolSuffices
<1>3. ListInv' BY ListKept DEF IInv
<1>4. CallerInv' BY <1>0 DEF IInv, TypeOK, CallerInv, Holder, Working
<1>5. WorkerInv' BY <1>0 DEF IInv, WorkerInv
<1>6. FwInv' BY <1>0 DEF IInv, FwInv
<1>7. BufferInv' BY DEF BufferInv
<1>8. PoolInv' BY <1>0 DEF IInv, TypeOK, PoolInv, CallerInv, Holder
<1> QED BY <1>1, <1>2, <1>3, <1>4, <1>5, <1>6, <1>7, <1>8 DEF IInv

\* The worker starts.
LEMMA WorkerStartStep ==
  ASSUME IInv, WorkerStart
  PROVE  IInv'
<1> USE DEF WorkerStart, mgr, pool, wrk, link
<1>0. Listed' = Listed BY DEF Listed
<1>1. TypeOK' BY DEF IInv, TypeOK
<1>2. PoolSuffices' BY DEF IInv, TypeOK, PoolSuffices
<1>3. ListInv' BY ListKept DEF IInv
<1>4. CallerInv' BY <1>0 DEF IInv, TypeOK, CallerInv, Holder, Working
<1>5. WorkerInv' BY <1>0 DEF IInv, WorkerInv
<1>6. FwInv' BY <1>0 DEF IInv, FwInv
<1>7. BufferInv' BY <1>0 DEF IInv, BufferInv
<1>8. PoolInv' BY <1>0 DEF IInv, TypeOK, PoolInv, Holder
<1> QED BY <1>1, <1>2, <1>3, <1>4, <1>5, <1>6, <1>7, <1>8 DEF IInv

\* The worker finds the head not pushed, or goes idle.
LEMMA WorkerScanStep ==
  ASSUME IInv, WorkerScan
  PROVE  IInv'
<1> USE DEF WorkerScan, mgr, pool, wrk, link
<1>0. Listed' = Listed BY DEF Listed
<1>1. TypeOK' BY DEF IInv, TypeOK
<1>2. PoolSuffices' BY DEF IInv, TypeOK, PoolSuffices
<1>3. ListInv' BY ListKept DEF IInv
<1>4. CallerInv' BY <1>0 DEF IInv, TypeOK, CallerInv, Holder, Working
<1>5. WorkerInv' BY <1>0 DEF IInv, TypeOK, WorkerInv, ListInv
<1>6. FwInv' BY <1>0 DEF IInv, FwInv
<1>7. BufferInv' BY <1>0 DEF IInv, BufferInv
<1>8. PoolInv' BY <1>0 DEF IInv, TypeOK, PoolInv, Holder
<1> QED BY <1>1, <1>2, <1>3, <1>4, <1>5, <1>6, <1>7, <1>8 DEF IInv

\* The worker pushes the head only when the firmware has nothing.
LEMMA WorkerPushStep ==
  ASSUME IInv, WorkerPush
  PROVE  IInv'
<1> USE DEF WorkerPush, mgr, pool, wrk, link
<1>0. Listed' = Listed BY DEF Listed
<1>1. /\ cmds # <<>> /\ next = cmds[1] /\ flags[next] = WAIT
      /\ next \in Cmd /\ next \in Listed /\ next \in used
  BY DEF IInv, TypeOK, ListInv, WorkerInv, Listed
<1>2. \A c \in Listed \ {next} : flags[c] = WAIT
  BY <1>1, BehindHead DEF IInv, WAIT
<1>3. \A p \in Caller : pc[p] \notin {"push", "wait", "timedout"}
  BY <1>2 DEF IInv, CallerInv, Holder, Working, WAIT
<1>4. fw = <<>> BY <1>1, <1>2, FlagSets DEF IInv, FwInv
<1>5. /\ flags' = [flags EXCEPT ![next] = {"WAIT_CFM"}]
      /\ fw' = <<[cmd |-> next, reqid |-> msg[next].reqid]>>
      /\ msg[next] \in [kind : Kind, reqid : ReqId]
  <2>1. WAIT \ {"WAIT_PUSH"} = {"WAIT_CFM"} BY DEF WAIT
  <2>2. flags' = [flags EXCEPT ![next] = {"WAIT_CFM"}] BY <2>1, <1>1
  <2>3. fw' = <<[cmd |-> next, reqid |-> msg[next].reqid]>> BY <1>4 DEF aicwf_set_cmd_tx
  <2>4. msg[next] \in [kind : Kind, reqid : ReqId] BY <1>1 DEF IInv, ListInv
  <2> QED BY <2>2, <2>3, <2>4
<1>6. TypeOK' BY <1>1, <1>5 DEF IInv, TypeOK, WAIT
<1>7. PoolSuffices' BY DEF IInv, PoolSuffices
<1>8. ListInv'
  <2>1. \A i, j \in 1..Len(cmds) : i < j /\ flags'[cmds[i]] # {} => flags'[cmds[j]] = WAIT
    <3> SUFFICES ASSUME NEW i \in 1..Len(cmds), NEW j \in 1..Len(cmds), i < j
                 PROVE  flags'[cmds[j]] = WAIT
      OBVIOUS
    <3>1. 1 \in 1..Len(cmds) /\ 1 # j BY DEF IInv, TypeOK
    <3>2. cmds[j] \in Listed \ {next} BY <3>1, <1>1 DEF IInv, ListInv, Listed
    <3> QED BY <3>2, <1>2, <1>5
  <2>2. \A c \in Cmd \ used : flags'[c] = {} BY <1>1, <1>5 DEF IInv, ListInv
  <2>3. \A c \in Cmd : "WAIT_PUSH" \in flags'[c] => flags'[c] = WAIT
    BY <1>1, <1>5 DEF IInv, ListInv, TypeOK
  <2>4. \A c \in complete : flags'[c] = {}
    BY <1>1, <1>5 DEF IInv, ListInv, WAIT
  <2> QED BY <2>1, <2>2, <2>3, <2>4 DEF IInv, ListInv
<1>9. CallerInv' BY <1>0, <1>3, <1>5 DEF IInv, TypeOK, CallerInv, Holder, Working
<1>10. WorkerInv' BY <1>0, <1>1, <1>5 DEF IInv, TypeOK, WorkerInv
<1>11. FwInv' BY <1>0, <1>1, <1>5 DEF IInv, TypeOK, FwInv
<1>12. BufferInv'
  <2>1. \A c \in Listed : flags[c] # {} BY <1>1, <1>2, FlagSets
  <2>2. state # "CRASHED" => \A c \in Listed : msg[c].kind # "buffer"
    BY <2>1, <1>3 DEF IInv, BufferInv
  <2> QED BY <2>2, <1>0 DEF BufferInv
<1>13. PoolInv' BY <1>0 DEF IInv, PoolInv, Holder
<1> QED BY <1>6, <1>7, <1>8, <1>9, <1>10, <1>11, <1>12, <1>13 DEF IInv

\* The entry the worker frees was taken off the list.
LEMMA WorkerFreeStep ==
  ASSUME IInv, WorkerFree
  PROVE  IInv'
<1> USE DEF WorkerFree, mgr, pool, wrk, link
<1>0. Listed' = Listed BY DEF Listed
<1>1. TypeOK' BY DEF IInv, TypeOK, rwnx_cmd_free
<1>2. PoolSuffices' BY DEF IInv, TypeOK, PoolSuffices
<1>3. ListInv'
  <2>1. next \in Cmd /\ next \notin Listed /\ flags[next] = {}
    BY DEF IInv, TypeOK, WorkerInv, ListInv
  <2> QED BY <2>1, ListKeptByFree DEF IInv
<1>4. CallerInv' BY <1>0 DEF IInv, TypeOK, CallerInv, Holder, Working, rwnx_cmd_free
<1>5. WorkerInv' BY <1>0 DEF IInv, TypeOK, WorkerInv, rwnx_cmd_free
<1>6. FwInv' BY <1>0 DEF IInv, TypeOK, FwInv, WorkerInv, rwnx_cmd_free
<1>7. BufferInv'
  <2>1. \A c \in Listed : msg'[c] = msg[c]
    BY DEF IInv, TypeOK, WorkerInv, rwnx_cmd_free
  <2> QED BY <2>1, <1>0 DEF IInv, TypeOK, BufferInv
<1>8. PoolInv' BY <1>0 DEF IInv, TypeOK, PoolInv, Holder, rwnx_cmd_free
<1> QED BY <1>1, <1>2, <1>3, <1>4, <1>5, <1>6, <1>7, <1>8 DEF IInv

\* The worker's wait ends.
LEMMA WorkerTimedOutStep ==
  ASSUME IInv, WorkerTimedOut
  PROVE  IInv'
<1> USE DEF WorkerTimedOut, mgr, pool, wrk, link
<1>0. Listed' = Listed BY DEF Listed
<1>1. TypeOK' BY DEF IInv, TypeOK
<1>2. PoolSuffices' BY DEF IInv, TypeOK, PoolSuffices
<1>3. ListInv' BY ListKept DEF IInv
<1>4. CallerInv' BY <1>0 DEF IInv, TypeOK, CallerInv, Holder, Working
<1>5. WorkerInv' BY <1>0 DEF IInv, WorkerInv
<1>6. FwInv' BY <1>0 DEF IInv, FwInv
<1>7. BufferInv' BY <1>0 DEF IInv, BufferInv
<1>8. PoolInv' BY <1>0 DEF IInv, TypeOK, PoolInv, Holder
<1> QED BY <1>1, <1>2, <1>3, <1>4, <1>5, <1>6, <1>7, <1>8 DEF IInv

\* The worker gives up, and its command stays on the list.
LEMMA WorkerGivesUpStep ==
  ASSUME IInv, WorkerGivesUp
  PROVE  IInv'
<1> USE DEF WorkerGivesUp, GiveUp, mgr, pool, wrk, link
<1>0. Listed' = Listed BY DEF Listed
<1>1. TypeOK' BY DEF IInv, TypeOK
<1>2. PoolSuffices' BY DEF IInv, TypeOK, PoolSuffices
<1>3. ListInv' BY ListKept DEF IInv
<1>4. CallerInv' BY <1>0 DEF IInv, TypeOK, CallerInv, Holder, Working
<1>5. WorkerInv' BY <1>0 DEF IInv, WorkerInv
<1>6. FwInv' BY <1>0 DEF IInv, FwInv
<1>7. BufferInv' BY <1>0 DEF IInv, BufferInv
<1>8. PoolInv' BY <1>0 DEF IInv, TypeOK, PoolInv, Holder
<1> QED BY <1>1, <1>2, <1>3, <1>4, <1>5, <1>6, <1>7, <1>8 DEF IInv

\* The receive path takes the lock.
LEMMA MsgindLockStep ==
  ASSUME IInv, MsgindLock
  PROVE  IInv'
<1> USE DEF MsgindLock, mgr, pool, wrk, link
<1>0. Listed' = Listed BY DEF Listed
<1>1. TypeOK' BY DEF IInv, TypeOK
<1>2. PoolSuffices' BY DEF IInv, TypeOK, PoolSuffices
<1>3. ListInv' BY ListKept DEF IInv
<1>4. CallerInv' BY <1>0 DEF IInv, TypeOK, CallerInv, Holder, Working
<1>5. WorkerInv' BY <1>0 DEF IInv, WorkerInv
<1>6. FwInv' BY <1>0 DEF IInv, FwInv
<1>7. BufferInv' BY <1>0 DEF IInv, BufferInv
<1>8. PoolInv' BY <1>0 DEF IInv, TypeOK, PoolInv, Holder
<1> QED BY <1>1, <1>2, <1>3, <1>4, <1>5, <1>6, <1>7, <1>8 DEF IInv

-----------------------------------------------------------------------------
(* The list.                                                                *)

\* What is left of a sequence without its k-th element.
LEMMA RemoveAtProps ==
  ASSUME NEW S, NEW s \in Seq(S), NEW k \in 1..Len(s)
  PROVE  /\ RemoveAt(s, k) \in Seq(S) /\ Len(RemoveAt(s, k)) = Len(s) - 1
         /\ \A j \in 1..Len(s)-1 : RemoveAt(s, k)[j] = IF j < k THEN s[j] ELSE s[j+1]
<1> DEFINE a == SubSeq(s, 1, k-1)  b == SubSeq(s, k+1, Len(s))
<1>0. Len(s) \in Nat OBVIOUS
<1>1. /\ a \in Seq(S) /\ Len(a) = k - 1
      /\ \A i \in 1..k-1 : a[i] = s[i]
  BY <1>0, SubSeqProperties
<1>2. /\ b \in Seq(S) /\ Len(b) = Len(s) - k
      /\ \A i \in 1..Len(s)-k : b[i] = s[k+i]
  <2>1. \A i \in k+1..Len(s) : s[i] \in S BY <1>0
  <2>2. /\ b \in Seq(S) /\ Len(b) = IF k+1 <= Len(s) THEN Len(s)-(k+1)+1 ELSE 0
        /\ \A i \in 1..Len(s)-(k+1)+1 : b[i] = s[(k+1)+i-1]
    <3> HIDE DEF b
    <3> QED BY <2>1, <1>0, SubSeqProperties DEF b
  <2> QED BY <2>2, <1>0
<1> HIDE DEF a, b
<1>3. /\ a \o b \in Seq(S) /\ Len(a \o b) = Len(a) + Len(b)
      /\ \A i \in 1..Len(a)+Len(b) : (a \o b)[i] = IF i <= Len(a) THEN a[i] ELSE b[i - Len(a)]
  BY <1>1, <1>2, ConcatProperties
<1>4. RemoveAt(s, k) = a \o b BY DEF RemoveAt, a, b
<1>5. ASSUME NEW j \in 1..Len(s)-1
      PROVE  (a \o b)[j] = IF j < k THEN s[j] ELSE s[j+1]
  <2>1. CASE j < k BY <2>1, <1>0, <1>1, <1>2, <1>3
  <2>2. CASE ~(j < k)
    <3> DEFINE i == j - (k-1)
    <3>1. i \in 1..Len(s)-k /\ k + i = j + 1 BY <2>2, <1>0
    <3>a. j \in 1..Len(a)+Len(b) /\ ~(j <= Len(a)) /\ j - Len(a) = i BY <2>2, <1>0, <1>1, <1>2
    <3>2. (a \o b)[j] = b[i]
      <4> HIDE DEF i
      <4> QED BY <3>a, <1>3
    <3> HIDE DEF i
    <3>3. b[i] = s[k + i] BY <3>1, <1>2
    <3> QED BY <3>1, <3>2, <3>3, <2>2
  <2> QED BY <2>1, <2>2
<1>6. a \o b \in Seq(S) /\ Len(a \o b) = Len(s) - 1 BY <1>0, <1>1, <1>2, <1>3
<1> QED BY <1>4, <1>5, <1>6

\* list_del takes a listed command out, and nothing else.
LEMMA Deleted ==
  ASSUME TypeOK, ListInv, NEW c \in Listed, cmds' = RemoveFirst(cmds, c)
  PROVE  \E k \in 1..Len(cmds) :
           /\ c = cmds[k]
           /\ cmds' \in Seq(Cmd) /\ Len(cmds') = Len(cmds) - 1
           /\ \A j \in 1..Len(cmds)-1 : cmds'[j] = IF j < k THEN cmds[j] ELSE cmds[j+1]
<1>1. PICK k \in 1..Len(cmds) : c = cmds[k] BY DEF Listed
<1> DEFINE I == {i \in 1..Len(cmds) : cmds[i] = c}
<1>2. I = {k} BY <1>1 DEF ListInv
<1>3. Min(I) = k BY <1>2 DEF Min
<1>4. SelectInSeq(cmds, LAMBDA v : v = c) = k BY <1>2, <1>3 DEF SelectInSeq
<1>5. cmds' = RemoveAt(cmds, k) BY <1>1, <1>4 DEF RemoveFirst
<1>6. cmds \in Seq(Cmd) BY DEF TypeOK
<1>7. /\ cmds' \in Seq(Cmd) /\ Len(cmds') = Len(cmds) - 1
      /\ \A j \in 1..Len(cmds)-1 : cmds'[j] = IF j < k THEN cmds[j] ELSE cmds[j+1]
  BY <1>5, <1>6, RemoveAtProps
<1> QED BY <1>1, <1>7

\* What list_del does to the invariant of the list.
LEMMA ListKeptByDelete ==
  ASSUME TypeOK, ListInv, NEW c \in Listed, flags[c] = {}, list_del(c)
  PROVE  /\ ListInv' /\ Listed' = Listed \ {c}
         /\ cmds' \in Seq(Cmd) /\ queue_sz' \in 0..MaxQueued
         /\ cmds # <<>> /\ c # cmds[1] => cmds' # <<>> /\ cmds'[1] = cmds[1]
<1>1. PICK k \in 1..Len(cmds) :
           /\ c = cmds[k]
           /\ cmds' \in Seq(Cmd) /\ Len(cmds') = Len(cmds) - 1
           /\ \A j \in 1..Len(cmds)-1 : cmds'[j] = IF j < k THEN cmds[j] ELSE cmds[j+1]
  BY Deleted DEF list_del
<1>2. /\ UNCHANGED <<state, used, flags, msg>>
      /\ queue_sz' = queue_sz - 1 /\ complete' = complete \ {c}
  BY DEF list_del
<1>3. /\ Len(cmds) \in Nat /\ k \in Nat /\ 1 <= k /\ k <= Len(cmds)
      /\ queue_sz = Len(cmds) /\ queue_sz <= MaxQueued
  BY <1>1, CmdMgrAssumption DEF TypeOK, ListInv
<1>4. Listed' = Listed \ {c}
  <2>1. ASSUME NEW d \in Listed' PROVE d \in Listed \ {c}
    BY <2>1, <1>1, <1>3 DEF Listed, ListInv
  <2>2. ASSUME NEW d \in Listed, d # c PROVE d \in Listed'
    <3>1. PICK i \in 1..Len(cmds) : d = cmds[i] BY DEF Listed
    <3>2. CASE i < k
      <4>1. i \in 1..Len(cmds') /\ cmds'[i] = d BY <3>1, <3>2, <1>1, <1>3
      <4> QED BY <4>1 DEF Listed
    <3>3. CASE i > k
      <4>1. i-1 \in 1..Len(cmds') /\ cmds'[i-1] = d BY <3>1, <3>3, <1>1, <1>3
      <4> QED BY <4>1 DEF Listed
    <3> QED BY <3>1, <3>2, <3>3, <2>2, <1>1, <1>3
  <2> QED BY <2>1, <2>2
<1>5. ListInv'
  <2>1. queue_sz' = Len(cmds') BY <1>1, <1>2, <1>3
  <2> DEFINE old(j) == IF j < k THEN j ELSE j+1
  <2>2. \A j \in 1..Len(cmds') : old(j) \in 1..Len(cmds) /\ cmds'[j] = cmds[old(j)]
    BY <1>1, <1>3
  <2>3. \A i, j \in 1..Len(cmds') : i < j => old(i) < old(j) BY <1>1, <1>3
  <2>4. \A i, j \in 1..Len(cmds') : old(i) = old(j) => i = j BY <1>1, <1>3
  <2> HIDE DEF old
  <2>5. \A i, j \in 1..Len(cmds') : cmds'[i] = cmds'[j] => i = j BY <2>2, <2>4 DEF ListInv
  <2>6. \A i \in 1..Len(cmds') : cmds'[i] \in used BY <2>2 DEF ListInv
  <2>7. ASSUME NEW i \in 1..Len(cmds'), NEW j \in 1..Len(cmds'), i < j, flags[cmds'[i]] # {}
        PROVE  flags[cmds'[j]] = WAIT
    <3>1. /\ old(i) \in 1..Len(cmds) /\ old(j) \in 1..Len(cmds) /\ old(i) < old(j)
          /\ cmds'[i] = cmds[old(i)] /\ cmds'[j] = cmds[old(j)]
      BY <2>2, <2>3, <2>7
    <3>2. \A a, b \in 1..Len(cmds) : a < b /\ flags[cmds[a]] # {} => flags[cmds[b]] = WAIT
      BY DEF ListInv
    <3>3. flags[cmds[old(i)]] # {} BY <3>1, <2>7
    <3> QED BY <3>1, <3>2, <3>3
  <2> QED BY <2>1, <2>5, <2>6, <2>7, <1>2 DEF ListInv
<1>6. ASSUME cmds # <<>>, c # cmds[1]
      PROVE  cmds' # <<>> /\ cmds'[1] = cmds[1]
  <2>1. 1 < k /\ 1 \in 1..Len(cmds)-1 BY <1>6, <1>1, <1>3
  <2>2. cmds'[1] = cmds[1] /\ Len(cmds') # 0 BY <2>1, <1>1, <1>3
  <2> QED BY <2>2
<1>7. queue_sz' \in 0..MaxQueued BY <1>2, <1>3, CmdMgrAssumption
<1> QED BY <1>1, <1>4, <1>5, <1>6, <1>7

\* A confirmed command leaves the list, and its caller keeps the entry.
LEMMA CompletedStep ==
  ASSUME IInv, NEW p \in Caller, Completed(p)
  PROVE  IInv'
<1> USE DEF Completed, Enter, wrk, link
<1>0. /\ own[p] \in Listed /\ flags[own[p]] = {} /\ p \in Holder
      /\ UNCHANGED <<state, used, flags, msg>> /\ complete' = complete \ {own[p]}
  BY DEF IInv, CallerInv, ListInv, Holder, list_del
<1>1. /\ ListInv' /\ Listed' = Listed \ {own[p]}
      /\ cmds' \in Seq(Cmd) /\ queue_sz' \in 0..MaxQueued
      /\ cmds # <<>> /\ own[p] # cmds[1] => cmds' # <<>> /\ cmds'[1] = cmds[1]
  BY <1>0, ListKeptByDelete DEF IInv
<1>2. TypeOK' BY <1>0, <1>1 DEF IInv, TypeOK
<1>3. PoolSuffices' BY DEF IInv, TypeOK, PoolSuffices
<1>4. CallerInv' BY <1>0, <1>1 DEF IInv, TypeOK, CallerInv, Holder, Working
<1>5. WorkerInv' BY <1>0, <1>1 DEF IInv, WorkerInv, CallerInv, Holder, Working
<1>6. FwInv' BY <1>0, <1>1 DEF IInv, FwInv
<1>7. BufferInv'
  <2> SUFFICES ASSUME state # "CRASHED", NEW c \in Listed, c # own[p],
                      msg[c].kind = "buffer", flags[c] # {}
               PROVE  \E q \in Caller : own'[q] = c /\ pc'[q] \in {"push", "wait", "timedout"}
    BY <1>0, <1>1 DEF BufferInv
  <2>1. PICK q \in Caller : own[q] = c /\ pc[q] \in {"push", "wait", "timedout"}
    BY DEF IInv, BufferInv
  <2> QED BY <2>1 DEF IInv, TypeOK
<1>8. PoolInv' BY <1>0, <1>1 DEF IInv, TypeOK, PoolInv, Holder
<1> QED BY <1>1, <1>2, <1>3, <1>4, <1>5, <1>6, <1>7, <1>8 DEF IInv

\* A confirmed command leaves the list, and the worker keeps the entry.
LEMMA WorkerCompletedStep ==
  ASSUME IInv, WorkerCompleted
  PROVE  IInv'
<1> USE DEF WorkerCompleted, link
<1>0. /\ next \in Listed /\ next \in used /\ next \in Cmd /\ flags[next] = {}
      /\ UNCHANGED <<state, used, flags, msg>> /\ complete' = complete \ {next}
  BY DEF IInv, TypeOK, WorkerInv, ListInv, Listed, list_del
<1>1. /\ ListInv' /\ Listed' = Listed \ {next}
      /\ cmds' \in Seq(Cmd) /\ queue_sz' \in 0..MaxQueued
  BY <1>0, ListKeptByDelete DEF IInv
<1>2. TypeOK' BY <1>0, <1>1 DEF IInv, TypeOK
<1>3. PoolSuffices' BY DEF IInv, PoolSuffices
<1>4. CallerInv' BY <1>0, <1>1 DEF IInv, TypeOK, CallerInv, Holder, Working
<1>5. WorkerInv' BY <1>0, <1>1 DEF IInv, WorkerInv
<1>6. FwInv' BY <1>0, <1>1 DEF IInv, FwInv
<1>7. BufferInv' BY <1>0, <1>1 DEF IInv, BufferInv
<1>8. PoolInv' BY <1>0, <1>1 DEF IInv, PoolInv, Holder
<1> QED BY <1>1, <1>2, <1>3, <1>4, <1>5, <1>6, <1>7, <1>8 DEF IInv

-----------------------------------------------------------------------------
(* Taking an entry.                                                         *)

\* The image of a finite set under a function is no larger than the set.
LEMMA ImageCardinality ==
  ASSUME NEW S, IsFiniteSet(S), NEW f, DOMAIN f = S, f = [x \in S |-> f[x]]
  PROVE  /\ IsFiniteSet({f[x] : x \in S})
         /\ Cardinality({f[x] : x \in S}) <= Cardinality(S)
<1> DEFINE T == {f[x] : x \in S}
<1>1. f \in Surjection(S, T) BY DEF Surjection
<1> HIDE DEF T
<1>2. IsFiniteSet(T) /\ Cardinality(T) <= Cardinality(S) BY <1>1, FS_Surjection
<1> QED BY <1>2 DEF T

\* There is a free entry for a caller that holds none.
LEMMA EntryFree ==
  ASSUME IInv, NEW p \in Caller, p \notin Holder
  PROVE  used # Cmd
<1> DEFINE Own == {own[q] : q \in Caller \ {p}}
<1>1. used \subseteq (Listed \union Own) \union {next}
  BY DEF IInv, PoolInv, Holder
<1>2. IsFiniteSet(Listed) /\ Cardinality(Listed) <= Len(cmds) /\ Cardinality(Listed) \in Nat
  <2>1. Len(cmds) \in Nat /\ DOMAIN cmds = 1..Len(cmds) /\ cmds = [i \in 1..Len(cmds) |-> cmds[i]]
    BY DEF IInv, TypeOK
  <2>2. IsFiniteSet(1..Len(cmds)) /\ Cardinality(1..Len(cmds)) = Len(cmds)
    <3>1. \A n \in Nat : IsFiniteSet(1..n) /\ Cardinality(1..n) = n BY FS_Interval
    <3> QED BY <2>1, <3>1
  <2>3. IsFiniteSet(Listed) /\ Cardinality(Listed) <= Len(cmds)
    BY <2>1, <2>2, ImageCardinality DEF Listed
  <2> QED BY <2>3, FS_CardinalityType
<1>3. IsFiniteSet(Own) /\ Cardinality(Own) <= Cardinality(Caller) - 1 /\ Cardinality(Own) \in Nat
  <2>1. IsFiniteSet(Caller \ {p}) /\ Cardinality(Caller \ {p}) = Cardinality(Caller) - 1
    BY CmdMgrAssumption, FS_RemoveElement
  <2> DEFINE f == [q \in Caller \ {p} |-> own[q]]
  <2>2. DOMAIN f = Caller \ {p} /\ f = [q \in Caller \ {p} |-> f[q]] OBVIOUS
  <2>3. Own = {f[q] : q \in Caller \ {p}} OBVIOUS
  <2> HIDE DEF f, Own
  <2>4. IsFiniteSet(Own) /\ Cardinality(Own) <= Cardinality(Caller \ {p})
    BY <2>1, <2>2, <2>3, ImageCardinality
  <2> QED BY <2>1, <2>4, FS_CardinalityType
<1> HIDE DEF Own
<1>4. /\ IsFiniteSet(Listed \union Own) /\ Cardinality(Listed \union Own) \in Nat
      /\ Cardinality(Listed \union Own) <= Cardinality(Listed) + Cardinality(Own)
  <2>1. /\ IsFiniteSet(Listed \union Own)
        /\ Cardinality(Listed \union Own) =
             Cardinality(Listed) + Cardinality(Own) - Cardinality(Listed \intersect Own)
    BY <1>2, <1>3, FS_Union
  <2>2. IsFiniteSet(Listed \intersect Own)
    <3>1. Listed \intersect Own \in SUBSET Listed OBVIOUS
    <3> QED BY <3>1, <1>2, FS_Subset
  <2>3. Cardinality(Listed \intersect Own) \in Nat /\ Cardinality(Listed \union Own) \in Nat
    BY <2>1, <2>2, FS_CardinalityType
  <2> QED BY <2>1, <2>3, <1>2, <1>3
<1>5. /\ IsFiniteSet((Listed \union Own) \union {next})
      /\ Cardinality((Listed \union Own) \union {next}) <= Cardinality(Listed \union Own) + 1
      /\ Cardinality((Listed \union Own) \union {next}) \in Nat
  <2>1. /\ IsFiniteSet((Listed \union Own) \union {next})
        /\ Cardinality((Listed \union Own) \union {next}) =
            IF next \in Listed \union Own THEN Cardinality(Listed \union Own)
                                          ELSE Cardinality(Listed \union Own) + 1
    BY <1>4, FS_AddElement
  <2> QED BY <2>1, <1>4
<1>6. /\ IsFiniteSet(used) /\ Cardinality(used) \in Nat
      /\ Cardinality(used) <= Cardinality((Listed \union Own) \union {next})
  <2>1. used \in SUBSET ((Listed \union Own) \union {next}) BY <1>1
  <2>2. IsFiniteSet(used) /\ Cardinality(used) <= Cardinality((Listed \union Own) \union {next})
    BY <2>1, <1>5, FS_Subset
  <2> QED BY <2>2, FS_CardinalityType
<1>7. Len(cmds) <= MaxQueued /\ Len(cmds) \in Nat
  BY CmdMgrAssumption DEF IInv, TypeOK, ListInv
<1>8. Cardinality(Cmd) = ArraySize BY CmdMgrAssumption, FS_Interval DEF Cmd
<1>9. Cardinality(Caller) \in Nat BY CmdMgrAssumption, FS_CardinalityType
<1>10. Cardinality(used) < ArraySize
  BY <1>2, <1>3, <1>4, <1>5, <1>6, <1>7, <1>9, CmdMgrAssumption
<1> QED BY <1>6, <1>8, <1>10, CmdMgrAssumption

\* A set of entries that is not empty has a first one.
LEMMA FirstEntry ==
  ASSUME NEW T \in SUBSET Cmd, T # {}
  PROVE  \E c \in T : \A d \in T : c <= d
<1>1. T \subseteq Nat BY CmdMgrAssumption DEF Cmd
<1>2. PICK c \in T : \A d \in T : ~ (<<d, c>> \in OpToRel(<, Nat))
  BY <1>1, NatLessThanWellFounded, WFMin
<1>3. \A d \in T : ~(d < c) BY <1>1, <1>2 DEF OpToRel
<1> QED BY <1>1, <1>3

\* A sender gets an entry that nobody uses and that awaits nothing.
LEMMA SendStep ==
  ASSUME IInv, NEW p \in Caller, NEW k \in Kinds[p], NEW r \in ReqId,
         rwnx_cmd_malloc(p, k, r)
  PROVE  IInv'
<1> DEFINE new == CHOOSE c \in Cmd \ used : \A d \in Cmd \ used : c <= d
           m == [kind |-> k, reqid |-> r]
<1>1. p \notin Holder /\ pc[p] = "idle" BY DEF Holder, rwnx_cmd_malloc
<1>2. used # Cmd BY <1>1, EntryFree
<1>3. new \in Cmd \ used
  <2>1. Cmd \ used \in SUBSET Cmd /\ Cmd \ used # {} BY <1>2 DEF IInv, TypeOK
  <2>2. \E c \in Cmd \ used : \A d \in Cmd \ used : c <= d BY <2>1, FirstEntry
  <2> QED BY <2>2
<1>4. m \in [kind : Kind, reqid : ReqId] BY CmdMgrAssumption
<1>5. /\ used' = used \union {new} /\ msg' = [msg EXCEPT ![new] = m]
      /\ own' = [own EXCEPT ![p] = new] /\ pc' = [pc EXCEPT ![p] = "queue"]
      /\ UNCHANGED <<state, cmds, queue_sz, flags, complete, work, wpc, next, fw, rx, lock>>
  BY <1>2 DEF rwnx_cmd_malloc, Enter, mgr, wrk, link
<1> HIDE DEF new, m
<1>6. Listed' = Listed BY <1>5 DEF Listed
<1>7. new \notin Listed /\ flags[new] = {}
  BY <1>3 DEF IInv, ListInv, Listed
<1>8. TypeOK' BY <1>3, <1>4, <1>5 DEF IInv, TypeOK
<1>9. PoolSuffices' BY <1>5 DEF IInv, TypeOK, PoolSuffices
<1>10. ListInv' BY <1>3, <1>4, <1>5 DEF IInv, TypeOK, ListInv
<1>11. CallerInv'
  BY <1>1, <1>3, <1>5, <1>6, <1>7 DEF IInv, TypeOK, CallerInv, Holder, Working, WorkerInv, Listed, ListInv
<1>12. WorkerInv' BY <1>5, <1>6 DEF IInv, WorkerInv
<1>13. FwInv' BY <1>5, <1>6, <1>7 DEF IInv, TypeOK, FwInv
<1>14. BufferInv'
  <2>0. TypeOK /\ BufferInv BY DEF IInv
  <2>1. \A c \in Listed : msg'[c] = msg[c] BY <1>5, <1>7, <2>0 DEF TypeOK
  <2>2. \A q \in Caller \ {p} : pc'[q] = pc[q] /\ own'[q] = own[q] BY <1>5, <2>0 DEF TypeOK
  <2> QED BY <1>1, <1>5, <1>6, <2>0, <2>1, <2>2, BufferKept
<1>15. PoolInv' BY <1>5, <1>6, <1>1 DEF IInv, TypeOK, PoolInv, Holder
<1> QED BY <1>8, <1>9, <1>10, <1>11, <1>12, <1>13, <1>14, <1>15 DEF IInv

-----------------------------------------------------------------------------
(* Entering the list, and the confirmation.                                 *)

\* A command enters the list deferred, or behind commands that await nothing.
LEMMA EnqueueStep ==
  ASSUME IInv, NEW p \in Caller, Enqueue(p)
  PROVE  IInv'
<1> DEFINE c == own[p]
           F == IF DeferPush(c) THEN WAIT ELSE {"WAIT_CFM"}
           label == IF msg[c].kind = "defer" THEN "wake"
                    ELSE IF DeferPush(c) THEN "wake_first" ELSE "push"
<1>1. /\ c \in Cmd /\ c \in used /\ c \notin Listed /\ flags[c] = {}
      /\ Working => c # next
  BY DEF IInv, TypeOK, CallerInv, Holder, Enqueue
<1>2. /\ flags' = [flags EXCEPT ![c] = F] /\ complete' = complete \ {c}
      /\ cmds' = Append(cmds, c) /\ queue_sz' = queue_sz + 1
      /\ pc' = [pc EXCEPT ![p] = label]
      /\ UNCHANGED <<state, used, msg, own, work, wpc, next, fw, rx, lock>>
  BY <1>1 DEF Enqueue, Enter, wrk, link
<1>3. pc[p] = "queue" /\ MayEnter(c) BY DEF Enqueue
<1>4. F \in {WAIT, {"WAIT_CFM"}} /\ F \in SUBSET WAIT /\ F # {} BY FlagSets DEF WAIT
<1>5. F = WAIT \/ \A d \in Listed : flags[d] = {}
  <2>1. Len(cmds) \in Nat /\ \A d \in Listed : flags[d] \subseteq WAIT
    BY DEF IInv, TypeOK, Listed
  <2>2. ASSUME NEW d \in Listed, flags[d] # {} PROVE DeferPush(c)
    <3>1. PICK i \in 1..Len(cmds) : d = cmds[i] BY DEF Listed
    <3>2. Len(cmds) \in 1..Len(cmds) /\ Last(cmds) \in Listed BY <2>1 DEF Last, Listed
    <3>3. i = Len(cmds) \/ flags[Last(cmds)] = WAIT
      BY <3>1, <3>2, <2>1, <2>2 DEF IInv, ListInv, Last
    <3>4. flags[Last(cmds)] # {} BY <3>1, <3>3, <2>2, FlagSets DEF Last
    <3>5. flags[Last(cmds)] \intersect WAIT # {} BY <3>2, <3>4, <2>1
    <3> QED BY <3>2, <3>5 DEF DeferPush
  <2> QED BY <2>2
<1>6. msg[c].kind = "buffer" => cmds = <<>> /\ label = "push"
  BY <1>3 DEF MayEnter, DeferPush
<1>7. label = "push" => F = {"WAIT_CFM"} /\ fw = <<>>
  <2>1. ASSUME label = "push" PROVE F = {"WAIT_CFM"} BY <2>1
  <2>2. ASSUME label = "push" PROVE fw = <<>> BY <2>1, <2>2, <1>5, FlagSets DEF IInv, FwInv
  <2> QED BY <2>1, <2>2
<1>8. label \in {"wake", "wake_first", "push"} OBVIOUS
<1> HIDE DEF c, F, label
<1>9. /\ cmds' \in Seq(Cmd) /\ Len(cmds') = Len(cmds) + 1 /\ Len(cmds) \in Nat
      /\ \A i \in 1..Len(cmds) : cmds'[i] = cmds[i]
      /\ cmds'[Len(cmds) + 1] = c
      /\ queue_sz = Len(cmds) /\ queue_sz <= MaxQueued
  BY <1>1, <1>2, AppendProperties, CmdMgrAssumption DEF IInv, TypeOK, ListInv
<1>10. Listed' = Listed \union {c}
  <2>1. Listed' \subseteq Listed \union {c} BY <1>9 DEF Listed
  <2>2. Listed \subseteq Listed' BY <1>9 DEF Listed
  <2>3. Len(cmds) + 1 \in 1..Len(cmds') BY <1>9
  <2>4. c \in Listed' BY <2>3, <1>9 DEF Listed
  <2> QED BY <2>1, <2>2, <2>4
<1>11. \A d \in Cmd \ {c} : flags'[d] = flags[d] BY <1>2 DEF IInv, TypeOK
<1>12. flags'[c] = F BY <1>1, <1>2 DEF IInv, TypeOK
<1>13. \A d \in Listed : d # c /\ d \in Cmd /\ flags'[d] = flags[d]
  BY <1>1, <1>11 DEF IInv, TypeOK, Listed
<1>14. TypeOK'
  <2>1. queue_sz' \in 0..MaxQueued
    <3>1. cmds = <<>> => Len(cmds) = 0 OBVIOUS
    <3>2. cmds = <<>> \/ queue_sz # MaxQueued BY <1>3 DEF MayEnter
    <3> QED BY <3>1, <3>2, <1>2, <1>9, CmdMgrAssumption
  <2>2. flags' \in [Cmd -> SUBSET WAIT] BY <1>2, <1>4 DEF IInv, TypeOK
  <2>3. pc' \in [Caller -> {"idle", "queue", "wake", "wake_first", "push", "wait",
                             "notify", "timedout", "oops"}]
    BY <1>2, <1>8 DEF IInv, TypeOK
  <2> QED BY <2>1, <2>2, <2>3, <1>2, <1>9 DEF IInv, TypeOK
<1>15. PoolSuffices' BY <1>2, <1>8 DEF IInv, TypeOK, PoolSuffices
<1>16. ListInv'
  <2>1. queue_sz' = Len(cmds') BY <1>2, <1>9
  <2>2. \A i \in 1..Len(cmds') : i \in 1..Len(cmds) \/ i = Len(cmds) + 1 BY <1>9
  <2>3. \A i \in 1..Len(cmds) : cmds[i] \in Listed BY DEF Listed
  <2>4. \A i, j \in 1..Len(cmds') : cmds'[i] = cmds'[j] => i = j
    BY <2>2, <2>3, <1>9, <1>13 DEF IInv, ListInv
  <2>5. \A i \in 1..Len(cmds') : cmds'[i] \in used'
    BY <2>2, <1>1, <1>2, <1>9 DEF IInv, ListInv
  <2>6. ASSUME NEW i \in 1..Len(cmds'), NEW j \in 1..Len(cmds'), i < j, flags'[cmds'[i]] # {}
        PROVE  flags'[cmds'[j]] = WAIT
    <3>1. i \in 1..Len(cmds) /\ cmds'[i] = cmds[i] /\ cmds[i] \in Listed
      BY <2>2, <2>3, <2>6, <1>9
    <3>2. flags[cmds[i]] # {} BY <3>1, <2>6, <1>13
    <3>3. CASE j \in 1..Len(cmds)
      BY <3>1, <3>2, <3>3, <2>3, <2>6, <1>9, <1>13 DEF IInv, ListInv
    <3>4. CASE j = Len(cmds) + 1
      BY <3>1, <3>2, <3>4, <1>5, <1>9, <1>12
    <3> QED BY <3>3, <3>4, <2>2
  <2>7. \A d \in Cmd \ used' : flags'[d] = {} BY <1>1, <1>2, <1>11 DEF IInv, ListInv
  <2>8. \A d \in Cmd : "WAIT_PUSH" \in flags'[d] => flags'[d] = WAIT
    BY <1>4, <1>11, <1>12 DEF IInv, ListInv
  <2>9. \A d \in complete' : flags'[d] = {} BY <1>2, <1>11 DEF IInv, ListInv, TypeOK
  <2> QED BY <2>1, <2>4, <2>5, <2>6, <2>7, <2>8, <2>9, <1>2 DEF IInv, ListInv
<1>17. CallerInv'
  <2>1. \A q \in Holder' : q \in Holder BY <1>2, <1>3 DEF Holder, IInv, TypeOK
  <2>2. \A q \in Holder : q # p => /\ own[q] # c /\ own[q] \in Cmd
                                   /\ pc'[q] = pc[q] /\ flags'[own[q]] = flags[own[q]]
    BY <1>2, <1>3, <1>11 DEF IInv, TypeOK, CallerInv, Holder, c
  <2> SUFFICES ASSUME NEW q \in Holder'
               PROVE
    /\ own[q] \in used
    /\ \A s \in Holder' : own[q] = own[s] => q = s
    /\ Working => own[q] # next
    /\ pc'[q] \in {"queue", "notify"} => own[q] \notin Listed' /\ flags'[own[q]] = {}
    /\ pc'[q] = "push" => flags'[own[q]] = {"WAIT_CFM"} /\ fw = <<>>
    /\ pc'[q] \in {"push", "wait", "timedout"}
         => own[q] \in Listed' /\ flags'[own[q]] \subseteq {"WAIT_CFM"}
    BY <1>2 DEF CallerInv, Working
  <2>3. /\ own[q] \in used
        /\ \A s \in Holder' : own[q] = own[s] => q = s
        /\ (Working => own[q] # next)
    BY <2>1 DEF IInv, CallerInv
  <2>4. CASE q = p
    <3>1. pc'[q] = label /\ label = "push" BY <2>4, <1>2, <1>8 DEF Holder, IInv, TypeOK
    <3>2. own[q] = c BY <2>4 DEF c
    <3> QED BY <3>1, <3>2, <2>3, <1>7, <1>10, <1>12
  <2>5. CASE q # p BY <2>1, <2>2, <2>3, <2>5, <1>10 DEF IInv, CallerInv
  <2> QED BY <2>4, <2>5
<1>18. WorkerInv'
  <2>1. cmds # <<>> => cmds' # <<>> /\ cmds'[1] = cmds[1] /\ cmds[1] \in Listed
    <3> SUFFICES ASSUME cmds # <<>>
                 PROVE  cmds' # <<>> /\ cmds'[1] = cmds[1] /\ cmds[1] \in Listed
      OBVIOUS
    <3>1. 1 \in 1..Len(cmds) BY <1>9 DEF IInv, TypeOK
    <3>2. cmds' # <<>> BY <1>9
    <3> QED BY <3>1, <3>2, <1>9 DEF Listed
  <2>2. wpc = "free" => next # c /\ next \in Cmd
    BY <1>1 DEF Working, IInv, WorkerInv, TypeOK
  <2> QED BY <2>1, <2>2, <1>2, <1>10, <1>11, <1>13 DEF IInv, WorkerInv
<1>19. FwInv' BY <1>2, <1>10, <1>13 DEF IInv, FwInv
<1>20. BufferInv'
  <2> SUFFICES ASSUME state # "CRASHED", NEW d \in Listed', msg[d].kind = "buffer", flags'[d] # {}
               PROVE  \E q \in Caller : own[q] = d /\ pc'[q] \in {"push", "wait", "timedout"}
    BY <1>2 DEF BufferInv
  <2>1. CASE d = c BY <2>1, <1>2, <1>6 DEF c, IInv, TypeOK
  <2>2. CASE d \in Listed
    <3>1. PICK q \in Caller : own[q] = d /\ pc[q] \in {"push", "wait", "timedout"}
      BY <2>2, <1>13 DEF IInv, BufferInv
    <3>2. pc'[q] = pc[q] BY <3>1, <1>2, <1>3 DEF IInv, TypeOK
    <3> QED BY <3>1, <3>2
  <2> QED BY <2>1, <2>2, <1>10
<1>21. PoolInv'
  <2>1. \A q \in Holder : q # p => q \in Holder' BY <1>2 DEF IInv, TypeOK, Holder
  <2> QED BY <2>1, <1>2, <1>10 DEF IInv, PoolInv, c
<1> QED BY <1>14, <1>15, <1>16, <1>17, <1>18, <1>19, <1>20, <1>21 DEF IInv

\* The receive path finds the command the firmware confirms: nothing before it
\* on the list awaits anything.
LEMMA MatchFinds ==
  ASSUME IInv, rx = "find"
  PROVE  /\ fw # <<>> /\ Len(fw) = 1 /\ Head(fw) = fw[1]
         /\ fw[1].cmd \in Listed /\ flags[fw[1].cmd] = {"WAIT_CFM"}
         /\ \E k \in 1..Len(cmds) : cmds[k] = fw[1].cmd /\ Match(Head(fw).reqid) = k
<1>1. /\ fw # <<>> /\ fw[1].cmd \in Listed /\ flags[fw[1].cmd] = {"WAIT_CFM"}
      /\ fw[1].reqid = msg[fw[1].cmd].reqid /\ Len(fw) <= 1
  BY DEF IInv, FwInv
<1>2. Head(fw) = fw[1] /\ Len(fw) = 1
  <2>1. fw \in Seq([cmd : Cmd, reqid : ReqId]) BY DEF IInv, TypeOK
  <2>2. Len(fw) \in Nat /\ Len(fw) # 0 BY <2>1, <1>1, EmptySeq
  <2>3. Head(fw) = fw[1] BY <1>1
  <2>4. Len(fw) <= 1 BY <1>1
  <2>5. Len(fw) = 1
    <3> HIDE DEF IInv
    <3> QED BY <2>2, <2>4
  <2> QED BY <2>3, <2>5
<1>3. PICK k \in 1..Len(cmds) : cmds[k] = fw[1].cmd BY <1>1 DEF Listed
<1> DEFINE I == {i \in 1..Len(cmds) : /\ msg[cmds[i]].reqid = Head(fw).reqid
                                      /\ "WAIT_CFM" \in flags[cmds[i]]}
<1>4. k \in I BY <1>1, <1>2, <1>3
<1>5. ASSUME NEW i \in I PROVE k <= i
  <2>1. i \in 1..Len(cmds) /\ flags[cmds[i]] # {} OBVIOUS
  <2>2. flags[cmds[k]] # WAIT BY <1>1, <1>3, FlagSets
  <2>3. ~(i < k) BY <2>1, <2>2 DEF IInv, ListInv
  <2> QED BY <2>1, <2>3 DEF IInv, TypeOK
<1>6. \A x \in I : (\A y \in I : x <= y) => x = k
  <2>1. k \in Nat /\ \A x \in I : x \in Nat BY DEF IInv, TypeOK
  <2> HIDE DEF I
  <2> QED BY <2>1, <1>4, <1>5
<1>7. Min(I) = k
  <2> HIDE DEF I
  <2> QED BY <1>4, <1>5, <1>6 DEF Min
<1>8. Match(Head(fw).reqid) = k
  <2>1. Match(Head(fw).reqid) = IF I # {} THEN Min(I) ELSE 0 BY DEF Match, SelectInSeq
  <2> HIDE DEF I
  <2> QED BY <2>1, <1>4, <1>7
<1> QED BY <1>1, <1>2, <1>3, <1>8

\* The confirmation ends the one wait it is for.
LEMMA MsgindStep ==
  ASSUME IInv, Msgind
  PROVE  IInv'
<1> DEFINE d == fw[1].cmd
<1>1. /\ fw # <<>> /\ Len(fw) = 1
      /\ d \in Listed /\ flags[d] = {"WAIT_CFM"}
      /\ \E k \in 1..Len(cmds) : cmds[k] = d /\ Match(Head(fw).reqid) = k
  BY MatchFinds DEF Msgind
<1>2. {"WAIT_CFM"} \ {"WAIT_CFM"} = {} OBVIOUS
<1>3. /\ flags' = [flags EXCEPT ![d] = {}] /\ complete' = complete \union {d}
      /\ rx' = "idle" /\ lock' = "free"
      /\ UNCHANGED <<state, cmds, queue_sz, used, msg, pc, own, work, wpc, next>>
  <2>1. PICK k \in 1..Len(cmds) : cmds[k] = d /\ Match(Head(fw).reqid) = k BY <1>1
  <2>2. k # 0 BY DEF IInv, TypeOK
  <2> HIDE DEF d
  <2>3. /\ flags' = [flags EXCEPT ![d] = @ \ {"WAIT_CFM"}]
        /\ complete' = complete \union {d}
    BY <2>1, <2>2 DEF Msgind, cmd_complete
  <2> QED BY <2>3, <1>1, <1>2 DEF Msgind, mgr, wrk
<1>4. fw' = <<>> /\ fw' \in Seq([cmd : Cmd, reqid : ReqId])
  <2>1. fw' = Tail(fw) /\ fw \in Seq([cmd : Cmd, reqid : ReqId]) BY DEF Msgind, IInv, TypeOK
  <2>2. fw' \in Seq([cmd : Cmd, reqid : ReqId]) /\ Len(fw') = 0
    BY <2>1, <1>1, HeadTailProperties
  <2> QED BY <2>2
<1> HIDE DEF d
<1>5. d \in Cmd BY <1>1 DEF IInv, TypeOK, Listed
<1>6. Listed' = Listed BY <1>3 DEF Listed
<1>7. flags'[d] = {} /\ \A c \in Cmd \ {d} : flags'[c] = flags[c]
  BY <1>3, <1>5 DEF IInv, TypeOK
<1>8. TypeOK' BY <1>3, <1>4, <1>5 DEF IInv, TypeOK
<1>9. PoolSuffices' BY <1>3 DEF IInv, PoolSuffices
<1>10. ListInv'
  <2>1. ASSUME NEW i \in 1..Len(cmds), NEW j \in 1..Len(cmds), i < j, flags'[cmds[i]] # {}
        PROVE  flags'[cmds[j]] = WAIT
    <3>1. cmds[i] \in Cmd /\ cmds[j] \in Cmd BY DEF IInv, TypeOK
    <3>2. flags[cmds[i]] # {} BY <3>1, <2>1, <1>7
    <3>3. flags[cmds[j]] = WAIT BY <3>2, <2>1 DEF IInv, ListInv
    <3>4. cmds[j] # d BY <3>3, <1>1, FlagSets
    <3> QED BY <3>1, <3>3, <3>4, <1>7
  <2>2. \A c \in Cmd \ used : flags'[c] = {} BY <1>7 DEF IInv, ListInv
  <2>3. \A c \in Cmd : "WAIT_PUSH" \in flags'[c] => flags'[c] = WAIT
    BY <1>7 DEF IInv, ListInv
  <2>4. \A c \in complete' : flags'[c] = {} BY <1>3, <1>7 DEF IInv, ListInv, TypeOK
  <2> QED BY <2>1, <2>2, <2>3, <2>4, <1>3 DEF IInv, ListInv
<1>11. CallerInv'
  <2>1. \A q \in Holder : own[q] \in Cmd BY DEF IInv, TypeOK, CallerInv
  <2>2. \A q \in Holder : flags'[own[q]] \in {{}, flags[own[q]]} BY <2>1, <1>7
  <2>3. \A q \in Holder : pc[q] # "push" BY <1>1 DEF IInv, CallerInv
  <2>4. Holder' = Holder /\ Working' = Working BY <1>3 DEF Holder, Working
  <2> QED BY <2>2, <2>3, <2>4, <1>3, <1>6 DEF IInv, CallerInv
<1>12. WorkerInv'
  <2>1. wpc = "push" => next # d /\ next \in Cmd
    BY <1>1, FlagSets DEF IInv, WorkerInv, TypeOK
  <2>2. wpc \in {"wait", "timedout", "free"} => next \in Cmd /\ flags'[next] \in {{}, flags[next]}
    BY <1>7 DEF IInv, WorkerInv, TypeOK
  <2> QED BY <2>1, <2>2, <1>3, <1>6, <1>7 DEF IInv, WorkerInv
<1>13. FwInv' BY <1>3, <1>4 DEF FwInv
<1>14. BufferInv'
  <2>1. \A c \in Listed : flags'[c] # {} => flags[c] # {}
    BY <1>5, <1>7 DEF IInv, TypeOK, Listed
  <2> QED BY <2>1, <1>3, <1>6 DEF IInv, BufferInv
<1>15. PoolInv' BY <1>3, <1>6 DEF IInv, PoolInv, Holder
<1> QED BY <1>8, <1>9, <1>10, <1>11, <1>12, <1>13, <1>14, <1>15 DEF IInv

-----------------------------------------------------------------------------
(* The theorems.                                                            *)

\* The invariant holds at the start.
LEMMA InitInv == Init => IInv
<1> SUFFICES ASSUME Init PROVE IInv OBVIOUS
<1> USE DEF Init
<1>1. Listed = {} /\ Len(cmds) = 0 BY DEF Listed
<1>2. TypeOK
  <2>1. cmds \in Seq(Cmd) /\ fw \in Seq([cmd : Cmd, reqid : ReqId]) OBVIOUS
  <2>2. queue_sz \in 0..MaxQueued BY CmdMgrAssumption
  <2>3. flags \in [Cmd -> SUBSET WAIT] OBVIOUS
  <2>4. msg \in [Cmd -> [kind : Kind, reqid : ReqId] \union {NoMsg}] OBVIOUS
  <2> QED BY <2>1, <2>2, <2>3, <2>4 DEF TypeOK
<1>3. PoolSuffices BY DEF PoolSuffices
<1>4. ListInv BY <1>1 DEF ListInv
<1>5. Holder = {} BY DEF Holder
<1>6. CallerInv /\ WorkerInv BY <1>5 DEF CallerInv, WorkerInv
<1>7. FwInv BY DEF FwInv
<1>8. BufferInv /\ PoolInv BY <1>1 DEF BufferInv, PoolInv
<1> QED BY <1>2, <1>3, <1>4, <1>6, <1>7, <1>8 DEF IInv

\* Stuttering keeps the invariant.
LEMMA StutterInv ==
  ASSUME IInv, UNCHANGED vars PROVE IInv'
<1> USE DEF vars, mgr, pool, wrk, link
<1>1. Listed' = Listed /\ Holder' = Holder /\ Working' = Working
  BY DEF Listed, Holder, Working
<1>2. TypeOK' /\ PoolSuffices' BY DEF IInv, TypeOK, PoolSuffices
<1>3. ListInv' BY ListKept DEF IInv
<1>4. CallerInv' BY <1>1 DEF IInv, CallerInv
<1>5. WorkerInv' BY <1>1 DEF IInv, WorkerInv
<1>6. FwInv' BY <1>1 DEF IInv, FwInv
<1>7. BufferInv' BY <1>1 DEF IInv, BufferInv
<1>8. PoolInv' BY <1>1 DEF IInv, PoolInv
<1> QED BY <1>2, <1>3, <1>4, <1>5, <1>6, <1>7, <1>8 DEF IInv

\* Every step keeps the invariant.
LEMMA NextInv == IInv /\ [Next]_vars => IInv'
<1> SUFFICES ASSUME IInv, [Next]_vars PROVE IInv' OBVIOUS
<1>1. ASSUME NEW p \in Caller, Send(p) PROVE IInv'
  BY <1>1, SendStep DEF Send
<1>2. ASSUME NEW p \in Caller, CallerStep(p) PROVE IInv'
  BY <1>2, SendUnconfirmedStep, RefuseStep, EnqueueStep, WakeStep, PushStep, CompletedStep,
     NotifyStep, TimedOutStep, CallerGivesUpStep DEF CallerStep
<1>3. ASSUME WorkerStep PROVE IInv'
  BY <1>3, WorkerStartStep, WorkerScanStep, WorkerPushStep, WorkerCompletedStep,
     WorkerFreeStep, WorkerTimedOutStep, WorkerGivesUpStep DEF WorkerStep
<1> QED BY <1>1, <1>2, <1>3, MsgindLockStep, MsgindStep, StutterInv DEF Next

\* The invariant holds in every reachable state.
THEOREM Inductive == Spec => []IInv
BY InitInv, NextInv, PTL DEF Spec

\* For any number of senders and any queue limit the list, queue_sz and the
\* entries agree after every step, and rwnx_cmd_malloc finds a free entry for
\* every sender, whatever times out (cmd_mgr_queue, rwnx_send_msg).
THEOREM ListTheorem == Spec => []ListConsistent
<1>1. IInv => ListConsistent
  <2> SUFFICES ASSUME IInv PROVE QueueConsistent BY DEF IInv, ListConsistent
  <2>1. IsInjective(cmds) BY DEF IInv, TypeOK, ListInv, IsInjective
  <2>2. Listed \subseteq used BY DEF IInv, ListInv, Listed
  <2> QED BY <2>1, <2>2 DEF IInv, ListInv, QueueConsistent
<1> QED BY <1>1, Inductive, PTL

\* For any number of senders and message ids, repeated ones included, the
\* firmware has one command at a time, and cmd_mgr_msgind gives its answer to
\* the sender that waits for it, who still has his buffer.
THEOREM AnswerTheorem == Spec => []OneAnswerEach
<1>1. IInv => OneAnswerEach
  <2> SUFFICES ASSUME IInv PROVE OneAnswerEach OBVIOUS
  <2>1. OneOutstanding
    <3> DEFINE A == {c \in Listed : flags[c] \intersect WAIT = {"WAIT_CFM"}}
    <3>1. \A c \in A : c \in Listed /\ flags[c] = {"WAIT_CFM"}
      BY DEF IInv, TypeOK, Listed
    <3>2. \A c, d \in A : c = d BY <3>1, OneAwaits DEF IInv
    <3>3. A = {} \/ \E c : A = {c} BY <3>2
    <3> HIDE DEF A
    <3>4. Cardinality(A) <= 1 BY <3>3, FS_EmptySet, FS_Singleton
    <3> QED BY <3>4 DEF OneOutstanding, A
  <2>2. ASSUME rx = "find"
        PROVE  /\ Match(Head(fw).reqid) # 0 /\ cmds[Match(Head(fw).reqid)] = Head(fw).cmd
               /\ cmds[Match(Head(fw).reqid)] \in Listed
               /\ flags[cmds[Match(Head(fw).reqid)]] = {"WAIT_CFM"}
    BY <2>2, MatchFinds DEF IInv, TypeOK
  <2>3. CfmMatches BY <2>2 DEF CfmMatches
  <2>4. CfmBufferLive
    <3> DEFINE c == cmds[Match(Head(fw).reqid)]
    <3> SUFFICES ASSUME rx = "find", state # "CRASHED", msg[c].kind = "buffer"
                 PROVE  \E p \in Caller : own[p] = c /\ pc[p] \in {"wait", "timedout"}
      BY DEF CfmBufferLive
    <3>1. c \in Listed /\ flags[c] = {"WAIT_CFM"} /\ flags[c] # {} BY <2>2, FlagSets
    <3> HIDE DEF c
    <3>2. PICK p \in Caller : own[p] = c /\ pc[p] \in {"push", "wait", "timedout"}
      BY <3>1 DEF IInv, BufferInv
    <3>3. fw # <<>> BY DEF IInv, FwInv
    <3>4. pc[p] # "push" BY <3>3 DEF IInv, CallerInv, Holder
    <3> QED BY <3>2, <3>4
  <2> QED BY <2>1, <2>3, <2>4 DEF OneAnswerEach
<1> QED BY <1>1, Inductive, PTL
=============================================================================
