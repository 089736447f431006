------------------------------- MODULE CmdMgr -------------------------------
(***************************************************************************)
(* The command manager of the AIC8800 WiFi driver (aic8800_fdrv,           *)
(* rwnx_cmds.c and rwnx_send_msg of rwnx_msg_tx.c).  Threads send commands *)
(* to the firmware through one list; a command is pushed by its own thread *)
(* or, when another is outstanding, left to the cmd_wq worker, and the     *)
(* receive path matches each confirmation with a command of the list.      *)
(*                                                                         *)
(* A section under cmd_mgr->lock is one step.  The receive path takes and  *)
(* releases the lock in two, because one path of cmd_mgr_queue releases a  *)
(* lock it never took.                                                     *)
(***************************************************************************)
EXTENDS Naturals, Sequences, FiniteSets, SequencesExt

CONSTANTS
  Caller,      \* threads that send commands
  ReqId,       \* confirmation message ids
  ArraySize,   \* RWNX_CMD_ARRAY_SIZE
  MaxQueued,   \* RWNX_CMD_MAX_QUEUED
  Kinds        \* the kinds of command each caller sends

Cmd == 1..ArraySize

\* What the code tells apart: a command whose sender gave a buffer for the
\* confirmation, one without, one of the ids that are always deferred, one
\* sent through cmd_mgr_queue_force_defer, and one that is never confirmed.
Kind == {"buffer", "plain", "traffic", "defer", "nocfm"}

ASSUME CmdMgrAssumption ==
  /\ IsFiniteSet(Caller)
  /\ ArraySize \in Nat /\ MaxQueued \in Nat \ {0}
  /\ Cardinality(Caller) + MaxQueued + 1 <= ArraySize
  /\ Kinds \in [Caller -> SUBSET Kind]

VARIABLES
  state,      \* "INITED" or "CRASHED"
  cmds,       \* the list
  queue_sz,
  used,       \* entries of cmd_array in use
  flags,      \* the wait flags of each entry (REQ_CFM is its kind)
  msg,        \* kind and reqid of each entry in use
  complete,   \* entries whose completion is signalled
  pc, own,    \* what each caller does, and with which entry
  work,       \* cmdWork is queued
  wpc, next,  \* the worker, and the command it handles
  fw,         \* commands the firmware has and did not answer
  rx,         \* "idle", or "find" between the lock and unlock of msgind
  lock        \* "free", or "rx"

mgr  == <<state, cmds, queue_sz>>
pool == <<used, flags, msg, complete>>
wrk  == <<work, wpc, next>>
link == <<fw, rx, lock>>
vars == <<mgr, pool, pc, own, wrk, link>>

WAIT == {"WAIT_PUSH", "WAIT_CFM"}
Listed == {cmds[i] : i \in 1..Len(cmds)}

\* The message of a free entry, which nobody reads.
NoMsg == [kind |-> "none"]

Init ==
  /\ state = "INITED" /\ cmds = <<>> /\ queue_sz = 0
  /\ used = {} /\ complete = {}
  /\ flags = [c \in Cmd |-> {}]
  /\ msg = [c \in Cmd |-> NoMsg]
  /\ pc = [p \in Caller |-> "idle"] /\ own = [p \in Caller |-> 0]
  /\ work = FALSE /\ wpc = "idle" /\ next = 0
  /\ fw = <<>> /\ rx = "idle" /\ lock = "free"

Enter(p, label) == pc' = [pc EXCEPT ![p] = label]

-----------------------------------------------------------------------------
(* Shared steps.                                                            *)

rwnx_cmd_free(c) ==
  /\ used' = used \ {c}
  /\ msg' = [msg EXCEPT ![c] = NoMsg]

\* What a waiter does under the lock once complete; it frees the entry later.
BugForgetsSize(c) ==
  /\ cmds' = RemoveFirst(cmds, c)
  /\ queue_sz' = queue_sz
  /\ complete' = complete \ {c}
  /\ UNCHANGED <<state, used, flags, msg>>
list_del(c) ==
  /\ cmds' = RemoveFirst(cmds, c)
  /\ queue_sz' = queue_sz - 1
  /\ complete' = complete \ {c}
  /\ UNCHANGED <<state, used, flags, msg>>

\* No command of this driver is NONBLOCK.
cmd_complete(c) == complete' = complete \union {c}

\* After a timeout: the manager is dead and the command stays on the list,
\* still awaiting its confirmation unless that came in the meantime.
\* (cmd_complete signals nothing while WAIT_CFM is set, so its call here only
\* leaves DONE, which is not modelled: nothing else reads it.)
GiveUp(c) ==
  /\ state' = "CRASHED"
  /\ UNCHANGED <<cmds, queue_sz, pool>>

\* aicwf_set_cmd_tx hands the message to the SDIO bus.
aicwf_set_cmd_tx(c) == fw' = Append(fw, [cmd |-> c, reqid |-> msg[c].reqid])

-----------------------------------------------------------------------------
(* rwnx_send_msg and cmd_mgr_queue.                                         *)

\* rwnx_cmd_malloc takes the first free entry; rwnx_send_msg fills it in but
\* leaves its old flags.  With no entry left it dereferences NULL.
rwnx_cmd_malloc(p, k, r) ==
  /\ pc[p] = "idle"
  /\ IF used = Cmd
       THEN Enter(p, "oops") /\ UNCHANGED <<used, msg, own>>
       ELSE LET c == CHOOSE c \in Cmd \ used :
                       \A d \in Cmd \ used : c <= d
            IN  /\ used' = used \union {c}
                /\ msg' = [msg EXCEPT ![c] = [kind |-> k, reqid |-> r]]
                /\ own' = [own EXCEPT ![p] = c]
                /\ Enter(p, "queue")
  /\ UNCHANGED <<mgr, flags, complete, wrk, link>>

\* A command that asks for no confirmation does not go through the queue.
Queued(p) == msg[own[p]].kind # "nocfm"

SendUnconfirmed(p) ==
  /\ pc[p] = "queue" /\ ~ Queued(p)
  /\ rwnx_cmd_free(own[p])
  /\ Enter(p, "idle")
  /\ own' = [own EXCEPT ![p] = 0]
  /\ UNCHANGED <<mgr, flags, complete, wrk, link>>

\* The refusals.  A command with a buffer looks at the state before it takes
\* the lock, leaves the loop, and then unlocks all the same.
Crashed(p) ==
  /\ state = "CRASHED"
  /\ IF msg[own[p]].kind = "buffer" THEN lock' = "free"
                                    ELSE lock = "free" /\ lock' = lock
TooMany(p) ==
  /\ state # "CRASHED" /\ lock = "free" /\ lock' = lock
  /\ msg[own[p]].kind # "buffer"
  /\ cmds # <<>> /\ queue_sz = MaxQueued

BugKeepsRefused(p) ==
  /\ pc[p] = "queue" /\ Queued(p)
  /\ Crashed(p) \/ TooMany(p)
  /\ Enter(p, "idle")
  /\ own' = [own EXCEPT ![p] = 0]
  /\ UNCHANGED <<mgr, pool, wrk, fw, rx>>
Refuse(p) ==
  /\ pc[p] = "queue" /\ Queued(p)
  /\ Crashed(p) \/ TooMany(p)
  /\ rwnx_cmd_free(own[p])
  /\ Enter(p, "idle")
  /\ own' = [own EXCEPT ![p] = 0]
  /\ UNCHANGED <<mgr, flags, complete, wrk, fw, rx>>

\* A command with a buffer polls until the list is empty; the others need
\* room on it.
BugNoPolling(c) == cmds # <<>> => queue_sz # MaxQueued
MayEnter(c) == IF msg[c].kind = "buffer" THEN cmds = <<>>
                               ELSE cmds # <<>> => queue_sz # MaxQueued

BugDeferUnpushed(c) ==
  \/ msg[c].kind \in {"traffic", "defer"}
  \/ cmds # <<>> /\ "WAIT_PUSH" \in flags[Last(cmds)]
DeferPush(c) ==
  \/ msg[c].kind \in {"traffic", "defer"}
  \/ cmds # <<>> /\ flags[Last(cmds)] \intersect WAIT # {}

Enqueue(p) ==
  LET c == own[p] IN
  /\ pc[p] = "queue" /\ Queued(p) /\ lock = "free"
  /\ state # "CRASHED"
  /\ MayEnter(c)
  /\ flags' = [flags EXCEPT ![c] =
                 @ \union (IF DeferPush(c) THEN WAIT ELSE {"WAIT_CFM"})]
  /\ complete' = complete \ {c}
  /\ cmds' = Append(cmds, c)
  /\ queue_sz' = queue_sz + 1
  /\ Enter(p, IF msg[c].kind = "defer" THEN "wake"
              ELSE IF DeferPush(c) THEN "wake_first" ELSE "push")
  /\ UNCHANGED <<state, used, msg, own, wrk, link>>

\* A deferred command: the caller wakes the worker and returns.  cmd_mgr_queue
\* does so only if the list, read without the lock, has no other command.
Wake(p) ==
  /\ pc[p] \in {"wake", "wake_first"}
  /\ work' = (work \/ pc[p] = "wake" \/ queue_sz <= 1)
  /\ Enter(p, "idle")
  /\ own' = [own EXCEPT ![p] = 0]
  /\ UNCHANGED <<mgr, pool, wpc, next, link>>

Push(p) ==
  /\ pc[p] = "push"
  /\ aicwf_set_cmd_tx(own[p])
  /\ Enter(p, "wait")
  /\ UNCHANGED <<mgr, pool, own, wrk, rx, lock>>

Completed(p) ==
  /\ pc[p] = "wait" /\ own[p] \in complete /\ lock = "free"
  /\ list_del(own[p])
  /\ Enter(p, "notify")
  /\ UNCHANGED <<own, wrk, link>>

\* After the unlock: the entry is freed, and the worker woken if the list,
\* read without the lock, has commands.
BugNoNotify(p) ==
  /\ pc[p] = "notify"
  /\ rwnx_cmd_free(own[p])
  /\ Enter(p, "idle")
  /\ own' = [own EXCEPT ![p] = 0]
  /\ UNCHANGED <<mgr, flags, complete, wrk, link>>
Notify(p) ==
  /\ pc[p] = "notify"
  /\ rwnx_cmd_free(own[p])
  /\ work' = (work \/ cmds # <<>>)
  /\ Enter(p, "idle")
  /\ own' = [own EXCEPT ![p] = 0]
  /\ UNCHANGED <<mgr, flags, complete, wpc, next, link>>

\* wait_for_completion_timeout gives up; the confirmation can still arrive
\* before the caller has the lock.
BugNoTimeout(p) == FALSE /\ UNCHANGED vars
TimedOut(p) ==
  /\ pc[p] = "wait" /\ own[p] \notin complete
  /\ Enter(p, "timedout")
  /\ UNCHANGED <<mgr, pool, own, wrk, link>>

CallerGivesUp(p) ==
  /\ pc[p] = "timedout" /\ lock = "free"
  /\ GiveUp(own[p])
  /\ Enter(p, "idle")
  /\ own' = [own EXCEPT ![p] = 0]
  /\ UNCHANGED <<wrk, link>>

-----------------------------------------------------------------------------
(* cmd_mgr_task_process, the worker.                                        *)

WorkerStart ==
  /\ wpc = "idle" /\ work
  /\ work' = FALSE /\ wpc' = "scan"
  /\ UNCHANGED <<mgr, pool, pc, own, next, link>>

\* Only the first command of the list is looked at.
WorkerScan ==
  /\ wpc = "scan" /\ lock = "free"
  /\ IF cmds # <<>> /\ "WAIT_PUSH" \in flags[Head(cmds)]
       THEN next' = Head(cmds) /\ wpc' = "push"
       ELSE next' = 0 /\ wpc' = "idle"
  /\ UNCHANGED <<mgr, pool, pc, own, work, link>>

WorkerPush ==
  /\ wpc = "push"
  /\ flags' = [flags EXCEPT ![next] = @ \ {"WAIT_PUSH"}]
  /\ aicwf_set_cmd_tx(next)
  /\ wpc' = "wait"
  /\ UNCHANGED <<mgr, used, msg, complete, pc, own, work, next, rx, lock>>

WorkerCompleted ==
  /\ wpc = "wait" /\ next \in complete /\ lock = "free"
  /\ list_del(next)
  /\ wpc' = "free"
  /\ UNCHANGED <<pc, own, work, next, link>>

WorkerFree ==
  /\ wpc = "free"
  /\ rwnx_cmd_free(next)
  /\ wpc' = "scan"
  /\ UNCHANGED <<mgr, flags, complete, pc, own, work, next, link>>

WorkerTimedOut ==
  /\ wpc = "wait" /\ next \notin complete
  /\ wpc' = "timedout"
  /\ UNCHANGED <<mgr, pool, pc, own, work, next, link>>

WorkerGivesUp ==
  /\ wpc = "timedout" /\ lock = "free"
  /\ GiveUp(next)
  /\ wpc' = "scan"
  /\ UNCHANGED <<pc, own, work, next, link>>

-----------------------------------------------------------------------------
(* cmd_mgr_msgind: a confirmation from the firmware.                        *)

MsgindLock ==
  /\ fw # <<>> /\ rx = "idle" /\ lock = "free"
  /\ rx' = "find" /\ lock' = "rx"
  /\ UNCHANGED <<mgr, pool, pc, own, wrk, fw>>

\* The first command of the list that awaits this id.
BugAnyState(r) == SelectInSeq(cmds, LAMBDA c : msg[c].reqid = r)
Match(r) == SelectInSeq(cmds, LAMBDA c : /\ msg[c].reqid = r
                                         /\ "WAIT_CFM" \in flags[c])

Msgind ==
  LET i == Match(Head(fw).reqid) IN
  /\ rx = "find"
  /\ IF i = 0
       THEN UNCHANGED <<flags, complete>>
       ELSE /\ flags' = [flags EXCEPT ![cmds[i]] = @ \ {"WAIT_CFM"}]
            /\ cmd_complete(cmds[i])
  /\ fw' = Tail(fw) /\ rx' = "idle" /\ lock' = "free"
  /\ UNCHANGED <<mgr, used, msg, pc, own, wrk>>

-----------------------------------------------------------------------------
Send(p) == \E k \in Kinds[p], r \in ReqId : rwnx_cmd_malloc(p, k, r)

CallerStep(p) ==
  \/ SendUnconfirmed(p) \/ Refuse(p) \/ Enqueue(p) \/ Wake(p) \/ Push(p)
  \/ Completed(p) \/ Notify(p) \/ TimedOut(p) \/ CallerGivesUp(p)

WorkerStep ==
  \/ WorkerStart \/ WorkerScan \/ WorkerPush \/ WorkerCompleted
  \/ WorkerFree \/ WorkerTimedOut \/ WorkerGivesUp

Next ==
  \/ \E p \in Caller : Send(p) \/ CallerStep(p)
  \/ WorkerStep \/ MsgindLock \/ Msgind

Spec == Init /\ [][Next]_vars

\* A caller back from its wait, which needs the lock.
Return(p) == Completed(p) \/ CallerGivesUp(p)

\* The kernel runs every thread that can run, its timers expire, and its
\* spinlock is a queue, so that a caller back from its wait gets it (SF).
\* The firmware need not answer, and nobody need send.
Fairness ==
  /\ \A p \in Caller : WF_vars(CallerStep(p)) /\ SF_vars(Return(p))
  /\ WF_vars(WorkerStep)
  /\ WF_vars(Msgind)

LiveSpec == Spec /\ Fairness

-----------------------------------------------------------------------------
(* Properties.                                                              *)

TypeOK ==
  /\ state \in {"INITED", "CRASHED"}
  /\ cmds \in Seq(Cmd) /\ queue_sz \in 0..MaxQueued
  /\ used \subseteq Cmd /\ complete \subseteq Cmd
  /\ flags \in [Cmd -> SUBSET WAIT]
  /\ msg \in [Cmd -> [kind : Kind, reqid : ReqId] \union {NoMsg}]
  /\ pc \in [Caller -> {"idle", "queue", "wake", "wake_first", "push", "wait",
                        "notify", "timedout", "oops"}]
  /\ own \in [Caller -> Cmd \union {0}]
  /\ work \in BOOLEAN
  /\ wpc \in {"idle", "scan", "push", "wait", "free", "timedout"}
  /\ next \in Cmd \union {0}
  /\ fw \in Seq([cmd : Cmd, reqid : ReqId])
  /\ rx \in {"idle", "find"} /\ lock \in {"free", "rx"}

\* The list, its counter and the entry pool agree: every listed command is
\* listed once, is counted and is in use, and an entry that is free again
\* carries no wait flag into its next use.
QueueConsistent ==
  /\ queue_sz = Len(cmds)
  /\ IsInjective(cmds)
  /\ Listed \subseteq used
  /\ \A c \in Cmd \ used : flags[c] \intersect WAIT = {}

\* The firmware has at most one command it did not confirm: one is pushed
\* directly only behind a list that awaits nothing.
OneOutstanding ==
  Cardinality({c \in Listed : flags[c] \intersect WAIT = {"WAIT_CFM"}}) <= 1

\* A confirmation reaches the command it answers, although it is matched by
\* message id only.
CfmMatches ==
  rx = "find" => LET i == Match(Head(fw).reqid)
                 IN  i # 0 /\ cmds[i] = Head(fw).cmd

\* Until a command has timed out, a confirmation is copied only into the
\* buffer of a sender that has not returned: a command with a buffer is
\* never deferred.
CfmBufferLive ==
  rx = "find" /\ state # "CRASHED" => LET i == Match(Head(fw).reqid) IN
    i # 0 /\ msg[cmds[i]].kind = "buffer"
      => \E p \in Caller : own[p] = cmds[i] /\ pc[p] \in {"wait", "timedout"}

\* rwnx_send_msg, which does not test for NULL, always gets an entry: the
\* queue limit, the number of senders and the worker bound the entries in
\* use, those a timeout leaves behind included.
PoolSuffices == \A p \in Caller : pc[p] # "oops"

\* Between any two steps of senders, worker and receive path the list, queue_sz
\* and the entry pool agree, and rwnx_send_msg, which does not look, always
\* finds a free entry, although timeouts leave theirs behind
\* (cmd_mgr_queue, rwnx_cmd_malloc).
ListConsistent == TypeOK /\ QueueConsistent /\ PoolSuffices

\* The firmware has one command at a time, and its confirmation, which carries
\* no token, goes to the sender it was meant for, who still has his buffer
\* (cmd_mgr_msgind).
OneAnswerEach == OneOutstanding /\ CfmMatches /\ CfmBufferLive

\* No deferred command is forgotten while the manager works: once it heads
\* the list, which is served in order, somebody wakes the worker to push it.
\* Kept when commands are deferred only behind others, see the README.
Deferred == cmds # <<>> /\ "WAIT_PUSH" \in flags[Head(cmds)]
DeferredServed == Deferred ~> ~ Deferred \/ state = "CRASHED"

\* A sender that waits for its confirmation returns, whether or not the
\* firmware answers.
SendersReturn == \A p \in Caller : pc[p] = "wait" ~> pc[p] = "idle"

\* What the assertion in cmd_complete says of its caller: it holds the lock.
\* Not kept by the code, see the README.
LockHeld == rx = "find" => lock = "rx"
=============================================================================
