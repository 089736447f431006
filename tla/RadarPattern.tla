---------------------------- MODULE RadarPattern ----------------------------
(***************************************************************************)
(* The radar pattern detector of the AIC8800 WiFi driver (rwnx_radar.c):   *)
(* pulses come in with the time since the one before, and the detectors of *)
(* every radar type look for the pattern of a regulatory domain in them.   *)
(*                                                                         *)
(* A detector keeps the pulses of its window, newest first, and the        *)
(* sequences it still believes in.  The order of the sequences only        *)
(* matters for what is traced, so they are a set.  One that was never      *)
(* created and one that was reset look the same from outside: both are     *)
(* Empty.                                                                  *)
(***************************************************************************)
EXTENDS Naturals, Sequences, FiniteSets

CONSTANTS
  Unset,           \* NL80211_DFS_UNSET, and any region without a table
  Specs,           \* region |-> sequence of radar_detector_specs
  Freq, Pri, Width,  \* of the pulses; Pri 0: later than can be told
  Overflow,        \* how much later that may be, by jiffies
  WEATHER,         \* 19000000 / 360
  LONG_RADAR_DURATION, LONG_RADAR_BURST_MIN_DURATION, LONG_RADAR_MAX_BURST,
  MaxPulses        \* bound: pulses, and changes of the region

Region == DOMAIN Specs

ASSUME RadarAssumption ==
  /\ Unset \notin Region /\ Freq \subseteq Nat /\ Pri \subseteq Nat /\ Overflow \subseteq Nat /\ Width \subseteq Nat
  /\ \A r \in Region : DOMAIN Specs[r] \subseteq Nat
  /\ \A r \in Region : \A i \in DOMAIN Specs[r] :
       LET rs == Specs[r][i]
       IN  /\ {rs.pri_min, rs.pri_max, rs.num_pri, rs.ppb, rs.tol} \subseteq Nat \ {0}
           /\ rs.ppb > 1
           /\ rs.type = "short" =>
                rs.num_pri = 1 /\ rs.ppb_thresh \in 2..rs.ppb /\ 2 * rs.tol <= rs.pri_min
  /\ {LONG_RADAR_DURATION, LONG_RADAR_BURST_MIN_DURATION} \subseteq Nat
  /\ LONG_RADAR_MAX_BURST \in Nat \ {0, 1}
  /\ MaxPulses \in Nat

VARIABLES
  region, detectors,  \* of the dfs_pattern_detector; detectors by type and frequency
  last_pulse_ts,
  detected,           \* what the last pulse completed: the pulses of its detector
  pulses              \* how many there were

vars == <<region, detectors, last_pulse_ts, detected, pulses>>

\* The history of a detector since its reset: `seen`, the pulses it took, and
\* `dropped`, how many left its queue because it was full.
Empty == [pulses |-> <<>>, sequences |-> {}, seen |-> {}, dropped |-> 0]
NoRadar == [by |-> "nothing"]

Types(r) == IF r = Unset THEN {} ELSE DOMAIN Specs[r]
AllEmpty(r) == [i \in Types(r) |-> [f \in Freq |-> Empty]]

Init ==
  /\ region = Unset /\ detectors = AllEmpty(Unset) /\ last_pulse_ts = 0
  /\ detected = NoRadar /\ pulses = 0

-----------------------------------------------------------------------------
(* The queue of pulses.                                                     *)

window_size(rs) ==
  IF rs.type = "long" THEN LONG_RADAR_DURATION ELSE rs.pri_max * rs.ppb * rs.num_pri
max_count(rs) == IF rs.type = "long" THEN LONG_RADAR_MAX_BURST ELSE rs.ppb * 2

\* The queue without its tail of pulses that are too old.
Within(q, min_valid_ts) ==
  LET rest == {n \in 0..Len(q) : \A i \in n + 1..Len(q) : q[i] < min_valid_ts}
  IN  SubSeq(q, 1, CHOOSE n \in rest : \A m \in rest : n <= m)

\* The oldest pulses leave the window, then the queue when it is full.
BugNoWindow(rs, d, ts) ==
  LET q == <<ts>> \o d.pulses
      full == Len(q) >= max_count(rs)
  IN  [d EXCEPT !.pulses = IF full THEN SubSeq(q, 1, Len(q) - 1) ELSE q,
                !.seen = @ \union {ts}, !.dropped = IF full THEN @ + 1 ELSE @]
pulse_queue_enqueue(rs, d, ts) ==
  LET w == window_size(rs)
      q == Within(<<ts>> \o d.pulses, IF ts <= w THEN 0 ELSE ts - w)
      full == Len(q) >= max_count(rs)
  IN  [d EXCEPT !.pulses = IF full THEN SubSeq(q, 1, Len(q) - 1) ELSE q,
                !.seen = @ \union {ts}, !.dropped = IF full THEN @ + 1 ELSE @]

-----------------------------------------------------------------------------
(* Short, weather and interleaved radars: pulses at multiples of a PRI.     *)

Diff(a, b) == IF a < b THEN b - a ELSE a - b

BugNoUpper(val, fraction, tolerance) ==
  IF fraction = 0 THEN 0
  ELSE IF Diff(val, fraction) <= tolerance THEN 1
  ELSE IF val % fraction <= tolerance THEN val \div fraction
  ELSE 0
BugNoRemainder(val, fraction, tolerance) ==
  IF fraction = 0 THEN 0
  ELSE IF Diff(val, fraction) <= tolerance THEN 1
  ELSE val \div fraction
pde_get_multiple(val, fraction, tolerance) ==
  IF fraction = 0 THEN 0
  ELSE IF Diff(val, fraction) <= tolerance THEN 1
  ELSE IF val % fraction <= tolerance THEN val \div fraction
  ELSE IF fraction - (val % fraction) <= tolerance THEN val \div fraction + 1
  ELSE 0

PPB_THRESH(ppb) == (ppb * 50 + 50) \div 100
ppb_thresh(rs, pri) ==
  IF rs.type = "weather" THEN PPB_THRESH((WEATHER \div pri) % 256) % 256 ELSE rs.ppb_thresh

Largest(S) == CHOOSE x \in S : \A y \in S : y <= x

\* The sequence of the pulse at ts and the i-th of the queue, joined by the
\* older pulses at a multiple of their distance.
BugFalsesAll(rs, q, ts, i) ==
  LET pri == ts - q[i]
      dur == pri * (rs.ppb - 1) + 2 * rs.tol
      match == {j \in i + 1..Len(q) : /\ q[j] + dur >= ts
                                      /\ pde_get_multiple(ts - q[j], pri, rs.tol) > 0}
      oldest == Largest(match \union {i})
  IN  [pri |-> pri, count |-> 2 + Cardinality(match), first_ts |-> q[oldest], last_ts |-> ts,
       count_falses |-> i - 1 + Cardinality(i + 1..Len(q) \ match),
       deadline_ts |-> q[oldest] + dur, ppb_thresh |-> ppb_thresh(rs, pri)]
NewSequence(rs, q, ts, i) ==
  LET pri == ts - q[i]
      dur == pri * (rs.ppb - 1) + 2 * rs.tol
      match == {j \in i + 1..Len(q) : /\ q[j] + dur >= ts
                                      /\ pde_get_multiple(ts - q[j], pri, rs.tol) > 0}
      oldest == Largest(match \union {i})
  IN  [pri |-> pri, count |-> 2 + Cardinality(match), first_ts |-> q[oldest], last_ts |-> ts,
       count_falses |-> i - 1 + Cardinality(i + 1..oldest \ match),
       deadline_ts |-> q[oldest] + dur, ppb_thresh |-> ppb_thresh(rs, pri)]

BugCreatesBelow(rs, q, ts, min_count) ==
  LET far == {i \in DOMAIN q : ts - q[i] \in rs.pri_min + 1..rs.pri_max}
  IN  {ps \in {NewSequence(rs, q, ts, i) : i \in far} : ps.count > min_count}
pde_short_create_sequences(rs, q, ts, min_count) ==
  LET far == {i \in DOMAIN q : ts - q[i] \in rs.pri_min..rs.pri_max}
  IN  {ps \in {NewSequence(rs, q, ts, i) : i \in far} : ps.count > min_count}

Joins(rs, ps, ts) == pde_get_multiple(ts - ps.last_ts, ps.pri, rs.tol) > 0

pde_short_add_to_existing_seqs(rs, S, ts) ==
  {IF Joins(rs, ps, ts) THEN [ps EXCEPT !.last_ts = ts, !.count = @ + 1]
   ELSE [ps EXCEPT !.count_falses = @ + 1] : ps \in {s \in S : ts <= s.deadline_ts}}

pde_short_check_detection(rs, S) ==
  \E ps \in S : ps.count >= ps.ppb_thresh /\ ps.count * rs.num_pri > ps.count_falses

\* Whether the pulse completes the pattern, and the detector after it.
pde_short_add_pulse(rs, d, ts) ==
  IF d.pulses = <<>> THEN [found |-> FALSE, d |-> pulse_queue_enqueue(rs, d, ts)]
  ELSE IF ts - Head(d.pulses) < rs.tol THEN [found |-> FALSE, d |-> d]
  ELSE LET old == pde_short_add_to_existing_seqs(rs, d.sequences, ts)
           longest == Largest({0} \union {ps.count : ps \in {s \in old : s.last_ts = ts}})
           S == old \union pde_short_create_sequences(rs, d.pulses, ts, longest)
       IN  [found |-> pde_short_check_detection(rs, S),
            d |-> pulse_queue_enqueue(rs, [d EXCEPT !.sequences = S], ts)]

-----------------------------------------------------------------------------
(* Long radars: bursts of pulses, one of each queued.                       *)

\* `burst` is the history of a sequence: the pulses of its current burst, the
\* ones at a PRI of the type.
FirstBurst(ts) ==
  [count |-> 1, count_falses |-> 1, first_ts |-> ts, last_ts |-> ts, dur |-> 0,
   deadline_ts |-> ts + LONG_RADAR_DURATION, burst |-> 1]

\* A pulse of the current burst, or of one too soon, is not queued.
SameBurst(rs, ps, delta_ts) ==
  \/ delta_ts <= rs.pri_max
  \/ ps.count > 2 /\ ps.dur + delta_ts < LONG_RADAR_BURST_MIN_DURATION

\* A new burst.  Past the deadline the sequence starts with the oldest burst
\* that is in the window, and the ones before it do not count.
BugCountsOld(d, ps, ts) ==
  LET q == Within(d.pulses, ts - LONG_RADAR_DURATION)
      s == [ps EXCEPT !.count = @ + 1, !.count_falses = 1, !.burst = 1, !.last_ts = ts]
  IN  IF ts <= ps.deadline_ts THEN [q |-> d.pulses, ps |-> s]
      ELSE IF q = <<>> THEN [q |-> q, ps |-> s]
      ELSE [q |-> q, ps |-> [s EXCEPT !.first_ts = q[Len(q)],
                                      !.deadline_ts = q[Len(q)] + LONG_RADAR_DURATION]]
NewBurst(d, ps, ts) ==
  LET q == Within(d.pulses, ts - LONG_RADAR_DURATION)
      s == [ps EXCEPT !.count = @ + 1, !.count_falses = 1, !.burst = 1, !.last_ts = ts]
      cut == [s EXCEPT !.count = @ - (Len(d.pulses) - Len(q))]
  IN  IF ts <= ps.deadline_ts THEN [q |-> d.pulses, ps |-> s]
      ELSE IF q = <<>> THEN [q |-> q, ps |-> cut]
      ELSE [q |-> q, ps |-> [cut EXCEPT !.first_ts = q[Len(q)],
                                        !.deadline_ts = q[Len(q)] + LONG_RADAR_DURATION]]

pde_long_add_pulse(rs, d, ts) ==
  IF d.sequences = {}
  THEN [found |-> FALSE,
        d |-> pulse_queue_enqueue(rs, [d EXCEPT !.sequences = {FirstBurst(ts)}], ts)]
  ELSE LET ps == CHOOSE s \in d.sequences : TRUE
           delta_ts == ts - ps.last_ts
           b == NewBurst(d, ps, ts)
           same == [ps EXCEPT !.last_ts = ts,
                              !.burst = IF delta_ts \in rs.pri_min..rs.pri_max THEN @ + 1 ELSE @,
                              !.count_falses = IF delta_ts = rs.pri_max THEN @ + 1 ELSE @]
           valid == /\ b.ps.count > rs.ppb_thresh
                    /\ ts - b.ps.first_ts > LONG_RADAR_DURATION \div 2
           next == [d EXCEPT !.pulses = b.q,
                             !.sequences = {[b.ps EXCEPT !.dur = delta_ts]}]
       IN  IF SameBurst(rs, ps, delta_ts)
           THEN [found |-> FALSE, d |-> [d EXCEPT !.sequences = {same}, !.seen = @ \union {ts}]]
           ELSE [found |-> valid, d |-> pulse_queue_enqueue(rs, next, ts)]

-----------------------------------------------------------------------------
(* The pattern detector.                                                    *)

\* The detectors that may take a pulse: active ones of this frequency or the
\* next to it, in the order of their creation; or else its own.
BugOwnOnly(D, f) == {f}
pri_detector_get(D, f) ==
  LET near == {g \in Freq : Diff(f, g) \in {0, 2} /\ D[g].pulses # <<>>}
  IN  IF near = {} THEN {f} ELSE near

\* A pulse out of the range of u16 resets the detectors that it would confuse.
dfs_pattern_detector_pri_overflow(D) ==
  [i \in DOMAIN D |-> IF Specs[region][i].type = "long" THEN D[i] ELSE [f \in Freq |-> Empty]]

add_pulse(rs, d, ts) ==
  IF rs.type = "long" THEN pde_long_add_pulse(rs, d, ts) ELSE pde_short_add_pulse(rs, d, ts)

dfs_pattern_detector_add_pulse(f, pri, len) ==
  \E delta \in IF pri = 0 THEN Overflow ELSE {pri} :
  LET ts == last_pulse_ts + delta
      D == IF pri = 0 THEN dfs_pattern_detector_pri_overflow(detectors) ELSE detectors
      fits == {i \in Types(region) : len \in Specs[region][i].width_min..Specs[region][i].width_max}
  IN  /\ region # Unset
      /\ \E g \in [fits -> Freq] :
           /\ \A i \in fits : g[i] \in pri_detector_get(D[i], f)
           /\ LET r == [i \in fits |-> add_pulse(Specs[region][i], D[i][g[i]], ts)]
                  found == {i \in fits : r[i].found}
              IN  IF found = {}
                  THEN /\ detectors' = [i \in DOMAIN D |->
                            IF i \in fits THEN [D[i] EXCEPT ![g[i]] = r[i].d] ELSE D[i]]
                       /\ last_pulse_ts' = ts /\ detected' = NoRadar
                  ELSE /\ detectors' = AllEmpty(region) /\ last_pulse_ts' = 0
                       /\ LET i == CHOOSE i \in found : \A j \in found : i <= j
                          IN  detected' = [by |-> "pattern", rs |-> Specs[region][i], seen |-> r[i].d.seen]
      /\ UNCHANGED region

\* Without a domain every pulse is a radar.
UnsetIsRadar ==
  /\ region = Unset /\ detected' = [by |-> "failsafe"]
  /\ UNCHANGED <<region, detectors, last_pulse_ts>>

\* A region without a table leaves the detectors, which nothing looks at until
\* they are deleted for the next one.
dfs_pattern_detector_set_domain(r) ==
  /\ r # region /\ region' = r /\ detectors' = AllEmpty(r)
  /\ UNCHANGED <<last_pulse_ts, detected>>

Next ==
  /\ pulses < MaxPulses /\ pulses' = pulses + 1
  /\ \/ \E f \in Freq, pri \in Pri, len \in Width : dfs_pattern_detector_add_pulse(f, pri, len)
     \/ UnsetIsRadar
     \/ \E r \in Region \union {Unset} : dfs_pattern_detector_set_domain(r)

Spec == Init /\ [][Next]_vars

-----------------------------------------------------------------------------
TypeOK ==
  /\ region \in Region \union {Unset} /\ DOMAIN detectors = Types(region)
  /\ last_pulse_ts \in Nat /\ pulses \in 0..MaxPulses
  /\ detected.by \in {"nothing", "failsafe", "pattern"}
  /\ \A i \in Types(region) : \A f \in DOMAIN detectors[i] :
       LET d == detectors[i][f] IN (d.pulses = <<>>) = (d.seen = {})

\* P of every detector and its specification.
Every(P(_, _)) ==
  \A i \in Types(region) : \A f \in DOMAIN detectors[i] : P(Specs[region][i], detectors[i][f])

\* A queue holds the pulses of its window, newest first, and fewer than
\* max_count of them, however short their distance.
QueueOf(rs, d) ==
  /\ Len(d.pulses) < max_count(rs)
  /\ \A i \in DOMAIN d.pulses : /\ d.pulses[i] + window_size(rs) >= d.pulses[1]
                                /\ \A j \in 1..i - 1 : d.pulses[j] > d.pulses[i]
QueueBounded == Every(QueueOf)

\* Whatever mix of old and new sequences a pulse goes to, the matching and the
\* false pulses of a sequence are together the pulses since its first one, and
\* no sequence outlives its deadline.
CountOf(rs, d) ==
  rs.type # "long" =>
    \A ps \in d.sequences :
      /\ ps.count + ps.count_falses = Cardinality({t \in d.seen : t >= ps.first_ts})
      /\ d.pulses[1] <= ps.deadline_ts
CountsExact == Every(CountOf)

\* A radar whose pulses come at exactly one PRI of its type is found by the
\* threshold of pulses, wherever fewer other pulses come between and before
\* them since the reset: the sequences they start do not hide it.
TrainOf(rs, d) ==
  rs.type = "short" =>
    \A pri \in rs.pri_min..rs.pri_max, t \in d.seen :
      {t + k * pri : k \in 0..rs.ppb_thresh - 1} \subseteq d.seen
        => Cardinality(d.seen) >= rs.ppb_thresh * (rs.num_pri + 1)
TrainDetected == Every(TrainOf)

\* What is reported as a radar was that many pulses at multiples of some PRI of
\* its type, up to the tolerance of each pulse to the one it followed.
Match(rs, S, pri) ==
  {t \in S : \E k \in 0..rs.ppb : Diff(Largest(S) - t, k * pri) <= (rs.ppb_thresh - 1) * rs.tol}
PatternReal ==
  detected.by = "pattern" /\ detected.rs.type = "short" =>
    \E pri \in detected.rs.pri_min..detected.rs.pri_max :
      Cardinality(Match(detected.rs, detected.seen, pri)) >= detected.rs.ppb_thresh

\* Two detectors of one type that are both at work are more than 2 MHz apart:
\* the pulses of one radar are not split.
Merged ==
  \A i \in Types(region) : \A f, g \in DOMAIN detectors[i] :
    detectors[i][f].pulses # <<>> /\ detectors[i][g].pulses # <<>> => Diff(f, g) # 2

\* The bursts a long sequence counts are the ones queued, also after the oldest
\* left the window, and those the full queue dropped, which it forgets to
\* uncount.
BurstOf(rs, d) ==
  rs.type = "long" => \A ps \in d.sequences : ps.count = Len(d.pulses) + d.dropped
BurstsCounted == Every(BurstOf)

\* Every queue holds the pulses of its window, newest first, and fewer than
\* max_count of them (pulse_queue_enqueue), sequences count what they say
\* (pde_short_create_sequences, pde_long_add_pulse), and two detectors of a type
\* at work are more than 2 MHz apart (pri_detector_get).
DetectorsConsistent == TypeOK /\ QueueBounded /\ CountsExact /\ BurstsCounted /\ Merged

\* count_falses "represents the number of pulse in the current burst".
\* Not kept by the code, see the README.
BurstPulsesOf(rs, d) ==
  rs.type = "long" => \A ps \in d.sequences : ps.count_falses = ps.burst
BurstPulses == Every(BurstPulsesOf)

\* pde_get_multiple returns a multiple within the tolerance, and 0 only if
\* there is none (looked at once, before the first pulse).
MultipleFits(val, fraction, tolerance) ==
  LET factor == pde_get_multiple(val, fraction, tolerance) IN
    /\ factor > 0 => Diff(val, factor * fraction) <= tolerance
    /\ factor = 0 => \A k \in 1..val + 1 : fraction > 0 => Diff(val, k * fraction) > tolerance
MultipleCorrect ==
  pulses = 0 =>
    \A val \in 0..3 * MaxPulses, fraction \in 0..MaxPulses, tolerance \in 0..2 :
      MultipleFits(val, fraction, tolerance)

=============================================================================
