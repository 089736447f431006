------------------------ MODULE RemainOnChannelState ------------------------
(***************************************************************************)
(* The state of remaining on a channel (RoC) in the AIC8800 WiFi driver    *)
(* (RemainOnChannel has the steps), and what is true of it in every state. *)
(***************************************************************************)
EXTENDS Naturals, Sequences

CONSTANTS
  RocAllows,   \* what may happen in a behaviour: one of these sets of RocInputs
  MaxRocs,     \* bound: requests, and closes
  MaxTx,       \* bound: management frames sent, where that may happen
  MaxCookie    \* the largest value of roc_cookie_cnt

\* "refuse": the firmware refuses a request, or there is no memory for it
\* "close": the interface is closed and opened again
\* "preempt": indications are handled in the middle of a call
RocInputs == {"refuse", "close", "preempt"}

ASSUME RocAssumption ==
  /\ RocAllows \subseteq SUBSET RocInputs /\ MaxTx \in [RocAllows -> Nat]
  /\ MaxRocs \in Nat /\ MaxCookie \in Nat \ {0}

VARIABLES
  roc_allow,   \* which of RocInputs may happen: the same for all of a behaviour
  roc_elem,    \* rwnx_hw->roc_elem: 0, or the request it points to
  mgmt_roc, on_chan,   \* the requests whose element has the flag
  freed,       \* how often the element of a request was freed
  roc_cookie_cnt,
  txq,         \* the off-channel queue: is it active, is it stopped, its frames
  lost,        \* frames neither sent nor freed
  given, ready, expired,   \* the cookie the stack has for a request
  roc_op,      \* the call in progress
  roc_rx,      \* 0, or the element a handler is about to free
  roc_fifo,    \* messages from the firmware
  roc_fw,      \* the request the firmware serves, or 0
  rocs, txs, roc_closes    \* how many so far

Roc == 1..MaxRocs
Frame == 1..MaxTx[roc_allow]
None == [pc |-> "none"]

-----------------------------------------------------------------------------
\* Every variable has its type.
RocTypeOK ==
  /\ roc_allow \in RocAllows
  /\ roc_elem \in {0} \union Roc /\ roc_rx \in {0} \union Roc /\ roc_fw \in 0..2 * MaxRocs
  /\ mgmt_roc \subseteq Roc /\ on_chan \subseteq Roc
  /\ roc_cookie_cnt \in 1..MaxCookie
  /\ txq \in [active : BOOLEAN, stopped : BOOLEAN, frames : SUBSET Frame]
  /\ lost \subseteq Frame
  /\ {given, ready, expired} \subseteq [Roc -> 0..MaxCookie]
  /\ DOMAIN freed = Roc
  /\ roc_op.pc \in {"none", "sent", "confirmed", "look", "xmit", "queue", "cancel",
                    "forget", "remove"}

\* The cookie a request was given is the one the stack is told it is ready
\* and has expired with.
EventsMatch ==
  \A r \in Roc : given[r] # 0 => /\ ready[r] \in {0, given[r]}
                                 /\ expired[r] \in {0, given[r]}

\* The driver's own requests are never reported.
OwnAreSilent == \A r \in mgmt_roc : ready[r] = 0 /\ expired[r] = 0

\* A request that was never ready never expires.
ReadyFirst == \A r \in Roc : expired[r] # 0 => ready[r] # 0

\* An element is freed once.
\* Not kept by the code, see the README.
FreedOnce == \A r \in Roc : freed[r] <= 1

\* The element mgmt_tx looks into is still there.
\* Not kept by the code, see the README.
StillPending == roc_op.pc = "look" => roc_elem # 0 /\ freed[roc_elem] = 0

\* Every frame is sent or freed, those queued when the request ends too.
NoneLost == lost = {} /\ (roc_elem = 0 /\ roc_op = None => txq.frames = {})

\* The driver's own requests to remain on a channel are never reported, and
\* one that was never ready never expires.  If no indication overtakes the
\* call, the stack is told of a request by the cookie it was given, and every
\* off-channel frame is sent or freed.
RocMatches ==
  /\ RocTypeOK /\ OwnAreSilent /\ ReadyFirst
  /\ roc_allow \subseteq {"refuse"} => EventsMatch /\ NoneLost
=============================================================================
