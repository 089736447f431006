------------------------- MODULE RadarPatternProofs -------------------------
(***************************************************************************)
(* Three proofs about the radar detector: what pde_get_multiple returns,   *)
(* for every distance, PRI and tolerance; that the detectors of every      *)
(* region stay consistent, whatever pulses come; and that a short radar is *)
(* reported when its pulses come, and only then.                           *)
(*                                                                         *)
(* The second needs three facts that no single detector function states: a *)
(* short queue holds every pulse since its oldest, so that the places in   *)
(* it count pulses; the one sequence of a long detector ends its deadline  *)
(* within the window of each burst queued, so that cutting the queue and   *)
(* uncounting the bursts agree; and no detector has seen a pulse later     *)
(* than the last one.                                                      *)
(*                                                                         *)
(* The third needs three more of a short detector (Track): the pulses each *)
(* sequence counts are linked, each to the one before within the           *)
(* tolerance; no sequence passes the check, so that the one that does      *)
(* after a pulse is one of that pulse; and as long as fewer pulses came    *)
(* than the queue takes, it holds all those of the window.                 *)
(***************************************************************************)
EXTENDS RadarPattern, FiniteSetTheorems, FunctionTheorems, SequenceTheorems, WellFoundedInduction, TLAPS

\* The quotient and the remainder that pde_get_multiple computes.
LEMMA Division ==
  ASSUME NEW a \in Nat, NEW b \in Nat, b > 0
  PROVE  /\ a \div b \in Nat /\ a % b \in Nat
         /\ a = (a \div b) * b + (a % b) /\ a % b < b
  OBVIOUS

\* Multiples of a PRI come in the order of their factors.
LEMMA Multiples ==
  ASSUME NEW f \in Nat, NEW j \in Nat, NEW k \in Nat, j <= k
  PROVE  j * f <= k * f
  OBVIOUS

\* A distance between two multiples is that far from every multiple.
LEMMA BetweenMultiples ==
  ASSUME NEW val \in Nat, NEW f \in Nat, NEW q \in Nat, NEW r \in Nat, NEW t \in Nat,
         val = q * f + r, r > t, f - r > t, NEW k \in Nat
  PROVE  Diff(val, k * f) > t
<1>1. q * f \in Nat /\ k * f \in Nat
  OBVIOUS
<1>2. CASE k <= q
  <2>1. k * f <= q * f
    BY <1>2, Multiples
  <2> QED BY <1>1, <2>1 DEF Diff
<1>3. CASE q + 1 <= k
  <2>1. (q + 1) * f <= k * f
    BY <1>3, Multiples
  <2>2. (q + 1) * f = q * f + f
    OBVIOUS
  <2> QED BY <1>1, <2>1, <2>2 DEF Diff
<1> QED BY <1>2, <1>3

\* For every distance, PRI and tolerance the factor that pde_get_multiple
\* returns is within the tolerance, and it returns 0 only when none is.
THEOREM MultipleTheorem ==
  ASSUME NEW val \in Nat, NEW fraction \in Nat, NEW tolerance \in Nat
  PROVE  MultipleFits(val, fraction, tolerance)
<1> DEFINE q == val \div fraction
           r == val % fraction
<1>1. CASE fraction = 0
  BY <1>1 DEF MultipleFits, pde_get_multiple
<1>2. CASE fraction > 0 /\ Diff(val, fraction) <= tolerance
  <2>1. pde_get_multiple(val, fraction, tolerance) = 1
    BY <1>2 DEF pde_get_multiple
  <2> QED BY <1>2, <2>1 DEF MultipleFits
<1>3. CASE fraction > 0 /\ ~(Diff(val, fraction) <= tolerance)
  <2>1. /\ q \in Nat /\ r \in Nat /\ q * fraction \in Nat
        /\ val = q * fraction + r /\ r < fraction
    BY <1>3, Division
  <2> HIDE DEF q, r
  <2>2. CASE r <= tolerance
    <3>1. pde_get_multiple(val, fraction, tolerance) = q
      BY <1>3, <2>2 DEF pde_get_multiple, q, r
    <3>2. Diff(val, q * fraction) <= tolerance
      BY <2>1, <2>2 DEF Diff
    <3>3. CASE q > 0
      BY <3>1, <3>2, <3>3 DEF MultipleFits
    <3>4. CASE q = 0
      <4>1. val = r
        BY <2>1, <3>4
      <4> SUFFICES ASSUME NEW k \in 1..val + 1
                   PROVE  Diff(val, k * fraction) > tolerance
        BY <1>3, <3>1, <3>4 DEF MultipleFits
      <4>2. 1 * fraction <= k * fraction /\ k * fraction \in Nat
        BY Multiples
      <4> QED BY <1>3, <2>1, <4>1, <4>2 DEF Diff
    <3> QED BY <2>1, <3>3, <3>4
  <2>3. CASE r > tolerance /\ fraction - r <= tolerance
    <3>1. pde_get_multiple(val, fraction, tolerance) = q + 1
      BY <1>3, <2>1, <2>3 DEF pde_get_multiple, q, r
    <3>2. (q + 1) * fraction = q * fraction + fraction
      BY <2>1
    <3>3. Diff(val, (q + 1) * fraction) <= tolerance
      BY <2>1, <2>3, <3>2 DEF Diff
    <3> QED BY <2>1, <3>1, <3>3 DEF MultipleFits
  <2>4. CASE r > tolerance /\ fraction - r > tolerance
    <3>1. pde_get_multiple(val, fraction, tolerance) = 0
      BY <1>3, <2>1, <2>4 DEF pde_get_multiple, q, r
    <3> SUFFICES ASSUME NEW k \in 1..val + 1
                 PROVE  Diff(val, k * fraction) > tolerance
      BY <1>3, <3>1, 0 \in Nat DEF MultipleFits
    <3>2. k \in Nat
      OBVIOUS
    <3>3. /\ q \in Nat /\ r \in Nat /\ val = q * fraction + r
          /\ r > tolerance /\ fraction - r > tolerance
      BY <2>1, <2>4
    <3> QED BY <3>2, <3>3, BetweenMultiples, Zenon
  <2> QED BY <2>1, <2>2, <2>3, <2>4
<1> QED BY <1>1, <1>2, <1>3

\* The invariant of the runs, for a bound of any size.
THEOREM MultipleCorrectTheorem == MultipleCorrect
<1>1. MaxPulses \in Nat
  BY RadarAssumption
<1> SUFFICES ASSUME NEW val \in 0..3 * MaxPulses, NEW fraction \in 0..MaxPulses,
                    NEW tolerance \in 0..2
             PROVE  MultipleFits(val, fraction, tolerance)
  BY DEF MultipleCorrect
<1> QED BY <1>1, MultipleTheorem

-----------------------------------------------------------------------------
(* The queue of a detector.                                                *)

\* A detector is a record of its queue, its sequences and its history.
IsDetector(d) ==
  /\ d = [pulses |-> d.pulses, sequences |-> d.sequences, seen |-> d.seen, dropped |-> d.dropped]
  /\ d.pulses \in Seq(Nat) /\ d.seen \in SUBSET Nat /\ IsFiniteSet(d.seen) /\ d.dropped \in Nat

\* The newest pulse first.
Ordered(q) == \A i \in DOMAIN q : \A j \in 1..i - 1 : q[j] > q[i]

\* A specification of the tables.
IsSpec(rs) ==
  /\ window_size(rs) \in Nat /\ max_count(rs) \in Nat \ {0, 1}
  /\ rs.pri_min \in Nat \ {0} /\ rs.pri_max \in Nat /\ rs.tol \in Nat \ {0} /\ rs.ppb \in Nat \ {0, 1}

\* What the tables of the regions give.
LEMMA SpecsAre ==
  ASSUME NEW r \in Region, NEW i \in Types(r)
  PROVE  IsSpec(Specs[r][i])
<1> DEFINE rs == Specs[r][i]
<1>1. /\ rs.pri_min \in Nat \ {0} /\ rs.pri_max \in Nat \ {0} /\ rs.tol \in Nat \ {0} /\ rs.ppb \in Nat \ {0}
      /\ rs.num_pri \in Nat \ {0} /\ rs.ppb > 1
  BY RadarAssumption DEF Types
<1>2. LONG_RADAR_DURATION \in Nat /\ LONG_RADAR_MAX_BURST \in Nat \ {0, 1}
  BY RadarAssumption
<1> HIDE DEF rs
<1>a. rs.pri_max * rs.ppb \in Nat
  BY <1>1
<1>b. (rs.pri_max * rs.ppb) * rs.num_pri \in Nat
  BY <1>1, <1>a
<1>3. window_size(rs) \in Nat
  BY <1>2, <1>b DEF window_size
<1>4. max_count(rs) \in Nat \ {0, 1}
  BY <1>1, <1>2 DEF max_count
<1>5. IsSpec(rs)
  BY <1>1, <1>3, <1>4 DEF IsSpec
<1> QED BY <1>5 DEF rs

\* A set of naturals has a least one.
LEMMA Least ==
  ASSUME NEW T \in SUBSET Nat, T # {}
  PROVE  LET n == CHOOSE n \in T : \A m \in T : n <= m IN n \in T /\ \A m \in T : n <= m
<1>2. PICK c \in T : \A d \in T : ~ (<<d, c>> \in OpToRel(<, Nat))
  BY NatLessThanWellFounded, WFMin
<1>3. \A d \in T : ~(d < c) BY <1>2 DEF OpToRel
<1>4. \A d \in T : c <= d BY <1>3
<1> QED BY <1>4

\* The queue without the tail that is too old is the longest prefix in the window.
LEMMA WithinProps ==
  ASSUME NEW q \in Seq(Nat), NEW m \in Int, Ordered(q)
  PROVE  \E n \in 0..Len(q) :
           /\ Within(q, m) \in Seq(Nat) /\ Len(Within(q, m)) = n
           /\ \A i \in 1..n : Within(q, m)[i] = q[i] /\ q[i] >= m
           /\ \A i \in n + 1..Len(q) : q[i] < m
<1> DEFINE rest == {n \in 0..Len(q) : \A i \in n + 1..Len(q) : q[i] < m}
           n == CHOOSE n \in rest : \A k \in rest : n <= k
<1>0. Len(q) \in Nat /\ DOMAIN q = 1..Len(q) /\ \A i \in 1..Len(q) : q[i] \in Nat
  BY LenProperties
<1>1. rest \in SUBSET Nat /\ Len(q) \in rest
  BY <1>0
<1>2. n \in rest /\ \A k \in rest : n <= k
  BY <1>1, Least
<1>3. Within(q, m) = SubSeq(q, 1, n)
  BY DEF Within
<1> HIDE DEF n
<1>4. n \in 0..Len(q) /\ \A i \in n + 1..Len(q) : q[i] < m
  BY <1>2
<1>5. n > 0 => q[n] >= m
  <2> SUFFICES ASSUME n > 0, q[n] < m PROVE FALSE
    BY <1>0, <1>4
  <2>1. \A i \in (n - 1) + 1..Len(q) : q[i] < m
    BY <1>4
  <2>2. n - 1 \in rest
    BY <1>4, <2>1
  <2> HIDE DEF rest
  <2>3. n <= n - 1
    BY <1>2, <2>2
  <2> QED BY <1>4, <2>3
<1>6. \A i \in 1..n : q[i] >= m
  <2> SUFFICES ASSUME NEW i \in 1..n PROVE q[i] >= m
    OBVIOUS
  <2>1. n \in 1..Len(q) /\ n > 0 /\ i \in 1..Len(q)
    BY <1>0, <1>4
  <2>2. CASE i = n
    BY <1>5, <2>1, <2>2
  <2>3. CASE i # n
    <3>1. i \in 1..n - 1
      BY <2>1, <2>3
    <3>2. q[i] > q[n]
      BY <1>0, <2>1, <3>1 DEF Ordered
    <3>3. q[i] \in Nat /\ q[n] \in Nat /\ q[n] >= m
      BY <1>0, <1>5, <2>1
    <3> QED BY <3>2, <3>3
  <2> QED BY <2>2, <2>3
<1>7. \A i \in 1..n : q[i] \in Nat
  BY <1>0, <1>4
<1>8. /\ SubSeq(q, 1, n) \in Seq(Nat) /\ Len(SubSeq(q, 1, n)) = n
      /\ \A i \in 1..n : SubSeq(q, 1, n)[i] = q[i]
  BY <1>4, <1>7, SubSeqProperties
<1> QED BY <1>3, <1>4, <1>6, <1>8

\* What a pulse does to a queue.
LEMMA Enqueued ==
  ASSUME NEW rs, IsSpec(rs), NEW d, IsDetector(d), NEW ts \in Nat,
         Ordered(d.pulses), \A i \in DOMAIN d.pulses : d.pulses[i] < ts,
         Len(d.pulses) < max_count(rs),
         NEW e, e = pulse_queue_enqueue(rs, d, ts)
  PROVE  /\ IsDetector(e) /\ QueueOf(rs, e) /\ Len(e.pulses) \in 1..Len(d.pulses) + 1
         /\ e.pulses[1] = ts
         /\ \A i \in 2..Len(e.pulses) : e.pulses[i] = d.pulses[i - 1]
         /\ e.sequences = d.sequences /\ e.seen = d.seen \union {ts}
         /\ (\A i \in DOMAIN d.pulses : d.pulses[i] + window_size(rs) >= ts)
              => Len(e.pulses) + e.dropped = Len(d.pulses) + 1 + d.dropped
         /\ Len(d.pulses) + 1 < max_count(rs) =>
              \A i \in DOMAIN d.pulses : d.pulses[i] + window_size(rs) >= ts => i + 1 <= Len(e.pulses)
<1> DEFINE w == window_size(rs)
           mc == max_count(rs)
           m == IF ts <= w THEN 0 ELSE ts - w
           p == <<ts>> \o d.pulses
           q == Within(p, m)
           full == Len(q) >= mc
           Q == IF full THEN SubSeq(q, 1, Len(q) - 1) ELSE q
           D == IF full THEN d.dropped + 1 ELSE d.dropped
<1>0. w \in Nat /\ mc \in Nat \ {0, 1} /\ m \in Nat
  BY DEF IsSpec
<1>d. /\ d.pulses \in Seq(Nat) /\ d.seen \in SUBSET Nat /\ IsFiniteSet(d.seen) /\ d.dropped \in Nat
      /\ Len(d.pulses) \in Nat /\ DOMAIN d.pulses = 1..Len(d.pulses)
      /\ \A i \in 1..Len(d.pulses) : d.pulses[i] \in Nat
  BY LenProperties DEF IsDetector
<1>1. /\ p \in Seq(Nat) /\ Len(p) = Len(d.pulses) + 1 /\ p[1] = ts
      /\ \A i \in 2..Len(p) : p[i] = d.pulses[i - 1]
  <2>1. <<ts>> \in Seq(Nat) /\ Len(<<ts>>) = 1 /\ <<ts>>[1] = ts
    OBVIOUS
  <2>2. p \in Seq(Nat) /\ Len(p) = 1 + Len(d.pulses)
    BY <1>d, <2>1, ConcatProperties
  <2>3. \A i \in 1..1 + Len(d.pulses) : p[i] = IF i <= 1 THEN <<ts>>[i] ELSE d.pulses[i - 1]
    BY <1>d, <2>1, ConcatProperties
  <2> QED BY <1>d, <2>1, <2>2, <2>3
<1>e. e = [pulses |-> Q, sequences |-> d.sequences, seen |-> d.seen \union {ts}, dropped |-> D]
  <2>1. e = [d EXCEPT !.pulses = Q, !.seen = @ \union {ts}, !.dropped = IF full THEN @ + 1 ELSE @]
    BY DEF pulse_queue_enqueue
  <2>2. d = [pulses |-> d.pulses, sequences |-> d.sequences, seen |-> d.seen, dropped |-> d.dropped]
    BY DEF IsDetector
  <2> HIDE DEF Q, full
  <2> QED BY <2>1, <2>2 DEF D
<1> HIDE DEF p
<1>2. Ordered(p)
  <2>1. DOMAIN p = 1..Len(p)
    BY <1>1, LenProperties
  <2> SUFFICES ASSUME NEW i \in 1..Len(p), NEW j \in 1..i - 1 PROVE p[j] > p[i]
    BY <2>1 DEF Ordered
  <2>0. i >= 2 /\ i <= Len(d.pulses) + 1 /\ i \in Nat /\ j \in Nat /\ j >= 1 /\ j <= i - 1
    BY <1>1, <1>d
  <2>2. i \in 2..Len(p) /\ i - 1 \in DOMAIN d.pulses /\ p[i] = d.pulses[i - 1]
    <3>1. i \in 2..Len(p) /\ i - 1 \in 1..Len(d.pulses)
      BY <1>1, <1>d, <2>0
    <3> QED BY <1>1, <1>d, <3>1
  <2>3. CASE j = 1
    BY <1>1, <1>d, <2>2, <2>3
  <2>4. CASE j > 1
    <3>1. j \in 2..Len(p) /\ p[j] = d.pulses[j - 1] /\ j - 1 \in 1..(i - 1) - 1
      <4>1. j \in 2..Len(p) /\ j - 1 \in 1..(i - 1) - 1
        BY <1>1, <1>d, <2>0, <2>4
      <4> QED BY <1>1, <4>1
    <3> QED BY <2>2, <3>1 DEF Ordered
  <2> QED BY <2>3, <2>4
<1>3. PICK n \in 0..Len(p) :
           /\ q \in Seq(Nat) /\ Len(q) = n
           /\ \A i \in 1..n : q[i] = p[i] /\ p[i] >= m
           /\ \A i \in n + 1..Len(p) : p[i] < m
  <2> HIDE DEF m
  <2>1. p \in Seq(Nat) /\ m \in Int
    BY <1>0, <1>1
  <2> QED BY <1>2, <2>1, WithinProps
<1> HIDE DEF q
<1>4. n >= 1
  <2> SUFFICES ASSUME n = 0 PROVE FALSE
    BY <1>1, <1>3, <1>d
  <2>1. 1 \in n + 1..Len(p)
    BY <1>1, <1>d
  <2>2. p[1] < m
    BY <1>3, <2>1
  <2> QED BY <1>0, <1>1, <2>2
<1> DEFINE k == IF full THEN n - 1 ELSE n
<1>5. k \in 1..Len(d.pulses) + 1 /\ k < mc /\ k \in Nat /\ k <= n
  <2> DEFINE l == Len(d.pulses)
  <2>1. /\ n \in Nat /\ n >= 1 /\ n <= l + 1 /\ l < mc /\ l \in Nat /\ mc \in Nat \ {0, 1}
        /\ full <=> n >= mc
    BY <1>0, <1>1, <1>3, <1>4, <1>d
  <2> HIDE DEF l, mc, full
  <2>2. k \in 1..l + 1 /\ k < mc /\ k \in Nat /\ k <= n
    BY <2>1
  <2> QED BY <2>2 DEF l
<1>6. Q \in Seq(Nat) /\ Len(Q) = k /\ \A i \in 1..k : Q[i] = p[i] /\ p[i] >= m
  <2>1. CASE full
    <3>1. /\ SubSeq(q, 1, n - 1) \in Seq(Nat) /\ Len(SubSeq(q, 1, n - 1)) = n - 1
          /\ \A i \in 1..n - 1 : SubSeq(q, 1, n - 1)[i] = q[i]
      <4>1. \A i \in 1..n - 1 : q[i] \in Nat
        BY <1>3, LenProperties
      <4> QED BY <1>3, <1>4, <4>1, SubSeqProperties
    <3> QED BY <1>3, <2>1, <3>1
  <2>2. CASE ~full
    BY <1>3, <2>2
  <2> QED BY <2>1, <2>2
<1>7. (\A i \in DOMAIN d.pulses : d.pulses[i] + w >= ts) => k + D = Len(d.pulses) + 1 + d.dropped
  <2> SUFFICES ASSUME \A i \in DOMAIN d.pulses : d.pulses[i] + w >= ts
               PROVE  k + D = Len(d.pulses) + 1 + d.dropped
    OBVIOUS
  <2>1. \A i \in 1..Len(p) : p[i] >= m
    <3> SUFFICES ASSUME NEW i \in 1..Len(p) PROVE p[i] >= m
      OBVIOUS
    <3>1. CASE i = 1
      BY <1>0, <1>1, <3>1
    <3>2. CASE i # 1
      <4>1. i \in 2..Len(p) /\ i - 1 \in 1..Len(d.pulses)
        BY <1>1, <1>d, <3>2
      <4>2. p[i] = d.pulses[i - 1] /\ d.pulses[i - 1] \in Nat /\ d.pulses[i - 1] + w >= ts
        BY <1>1, <1>d, <4>1
      <4> QED BY <1>0, <4>2
    <3> QED BY <3>1, <3>2
  <2>2. n = Len(p)
    <3> SUFFICES ASSUME n < Len(p) PROVE FALSE
      BY <1>1, <1>3, <1>d
    <3>1. Len(p) \in n + 1..Len(p) /\ Len(p) \in 1..Len(p) /\ p[Len(p)] \in Nat
      BY <1>1, <1>3, <1>d, LenProperties
    <3>2. p[Len(p)] < m /\ p[Len(p)] >= m
      BY <1>3, <2>1, <3>1
    <3> QED BY <1>0, <3>1, <3>2
  <2>3. n = Len(d.pulses) + 1 /\ n \in Nat
    BY <1>1, <1>d, <2>2
  <2> HIDE DEF full
  <2>4. CASE full
    <3>1. k = n - 1 /\ D = d.dropped + 1
      BY <2>4
    <3> HIDE DEF k, D
    <3> QED BY <1>d, <2>3, <3>1
  <2>5. CASE ~full
    <3>1. k = n /\ D = d.dropped
      BY <2>5
    <3> HIDE DEF k, D
    <3> QED BY <1>d, <2>3, <3>1
  <2> QED BY <2>4, <2>5
<1>14. Len(d.pulses) + 1 < mc => \A i \in DOMAIN d.pulses : d.pulses[i] + w >= ts => i + 1 <= k
  <2> SUFFICES ASSUME Len(d.pulses) + 1 < mc, NEW i \in 1..Len(d.pulses), d.pulses[i] + w >= ts
               PROVE  i + 1 <= k
    BY <1>d
  <2>1. ~full
    BY <1>0, <1>1, <1>3, <1>d
  <2>2. k = n
    BY <2>1
  <2> SUFFICES ASSUME n < i + 1 PROVE FALSE
    BY <1>3, <2>2
  <2>3. i + 1 \in n + 1..Len(p) /\ i + 1 \in 2..Len(p) /\ (i + 1) - 1 = i
    BY <1>1, <1>3, <1>d
  <2>4. p[i + 1] < m /\ p[i + 1] = d.pulses[i] /\ d.pulses[i] \in Nat
    BY <1>1, <1>3, <1>d, <2>3
  <2> QED BY <1>0, <2>4
<1>8. D \in Nat
  BY <1>d
<1> HIDE DEF Q, D, k, full
<1>9. /\ e.pulses = Q /\ e.sequences = d.sequences /\ e.seen = d.seen \union {ts} /\ e.dropped = D
  BY <1>e
<1>10. IsDetector(e)
  <2>1. IsFiniteSet(d.seen \union {ts})
    BY <1>d, FS_AddElement
  <2> QED BY <1>d, <1>e, <1>6, <1>8, <1>9, <2>1 DEF IsDetector
<1>11. \A i \in 2..k : Q[i] = d.pulses[i - 1]
  <2> SUFFICES ASSUME NEW i \in 2..k PROVE Q[i] = d.pulses[i - 1]
    OBVIOUS
  <2>1. i \in 1..k /\ i \in 2..Len(p)
    BY <1>1, <1>3, <1>5, <1>d
  <2> QED BY <1>1, <1>6, <2>1
<1>12. Q[1] = ts
  <2>1. 1 \in 1..k
    BY <1>5
  <2> QED BY <1>1, <1>6, <2>1
<1>13. QueueOf(rs, e)
  <2>1. DOMAIN Q = 1..k /\ Len(Q) < max_count(rs)
    BY <1>5, <1>6, LenProperties
  <2>2. \A i \in 1..k : Q[i] \in Nat /\ Q[i] >= m
    BY <1>6, LenProperties
  <2>3. \A i \in 1..k : Q[i] + w >= Q[1]
    BY <1>0, <1>12, <2>2
  <2>4. \A i \in 1..k : \A j \in 1..i - 1 : Q[j] > Q[i]
    <3> SUFFICES ASSUME NEW i \in 1..k, NEW j \in 1..i - 1 PROVE Q[j] > Q[i]
      OBVIOUS
    <3>1. i \in DOMAIN p /\ j \in 1..k
      BY <1>1, <1>3, <1>5, LenProperties
    <3>2. p[j] > p[i]
      BY <1>2, <3>1 DEF Ordered
    <3> QED BY <1>6, <3>1, <3>2
  <2> QED BY <1>9, <2>1, <2>3, <2>4 DEF QueueOf
<1> QED BY <1>5, <1>6, <1>7, <1>9, <1>10, <1>11, <1>12, <1>13, <1>14

-----------------------------------------------------------------------------
(* The long detectors.                                                      *)

\* The sequence of a long detector.
LongSeq == [count : Int, count_falses : Nat, first_ts : Nat, last_ts : Nat, dur : Int,
            deadline_ts : Nat, burst : Nat]

\* One sequence, which counts the bursts queued and dropped; those queued were
\* in the window at the deadline.
LongInv(d) ==
  /\ d.sequences = {} => d.pulses = <<>>
  /\ d.sequences # {} =>
       \E ps \in LongSeq :
         /\ d.sequences = {ps} /\ d.pulses # <<>>
         /\ ps.count = Len(d.pulses) + d.dropped
         /\ ps.last_ts \in d.seen /\ ps.deadline_ts >= LONG_RADAR_DURATION
         /\ \A i \in DOMAIN d.pulses : /\ d.pulses[i] <= ps.last_ts
                                       /\ ps.deadline_ts <= d.pulses[i] + LONG_RADAR_DURATION

\* What holds of a detector that has seen the pulses until now.
QueueInv(rs, d, now) ==
  /\ IsDetector(d) /\ QueueOf(rs, d)
  /\ (d.pulses = <<>>) = (d.seen = {})
  /\ (d.pulses = <<>>) => (d.sequences = {} /\ d.dropped = 0)
  /\ \A t \in d.seen : t <= now
  /\ \A i \in DOMAIN d.pulses : d.pulses[i] \in d.seen

\* The durations of the long radars.
LEMMA Durations ==
  /\ LONG_RADAR_DURATION \in Nat /\ LONG_RADAR_BURST_MIN_DURATION \in Nat
  /\ \A rs : rs.type = "long" => window_size(rs) = LONG_RADAR_DURATION
  BY RadarAssumption DEF window_size

\* The changes of a sequence.
SeqBurst(ps, c, t) == [ps EXCEPT !.count = c, !.count_falses = 1, !.burst = 1, !.last_ts = t]
SeqCount(ps, c) == [ps EXCEPT !.count = c]
SeqStart(ps, t, u) == [ps EXCEPT !.first_ts = t, !.deadline_ts = u]
SeqPulse(ps, t, b, f) == [ps EXCEPT !.last_ts = t, !.burst = b, !.count_falses = f]
SeqDur(ps, t) == [ps EXCEPT !.dur = t]

\* A change leaves the other fields of a sequence.
LEMMA SeqChanges ==
  ASSUME NEW ps \in LongSeq
  PROVE  /\ \A c \in Int, t \in Nat : LET x == SeqBurst(ps, c, t) IN
              x \in LongSeq /\ x.last_ts = t /\ x.count = c /\ x.deadline_ts = ps.deadline_ts
         /\ \A c \in Int : LET x == SeqCount(ps, c) IN
              /\ x \in LongSeq /\ x.last_ts = ps.last_ts /\ x.count = c
              /\ x.deadline_ts = ps.deadline_ts
         /\ \A t \in Nat, u \in Nat : LET x == SeqStart(ps, t, u) IN
              x \in LongSeq /\ x.last_ts = ps.last_ts /\ x.count = ps.count /\ x.deadline_ts = u
         /\ \A t \in Nat, b \in Nat, f \in Nat : LET x == SeqPulse(ps, t, b, f) IN
              /\ x \in LongSeq /\ x.last_ts = t /\ x.count = ps.count
              /\ x.deadline_ts = ps.deadline_ts
         /\ \A t \in Int : LET x == SeqDur(ps, t) IN
              /\ x \in LongSeq /\ x.last_ts = ps.last_ts /\ x.count = ps.count
              /\ x.deadline_ts = ps.deadline_ts
<1>1. \A c \in Int, t \in Nat : LET x == SeqBurst(ps, c, t) IN
              x \in LongSeq /\ x.last_ts = t /\ x.count = c /\ x.deadline_ts = ps.deadline_ts
  BY DEF SeqBurst, LongSeq
<1>2. \A c \in Int : LET x == SeqCount(ps, c) IN
              /\ x \in LongSeq /\ x.last_ts = ps.last_ts /\ x.count = c
              /\ x.deadline_ts = ps.deadline_ts
  BY DEF SeqCount, LongSeq
<1>3. \A t \in Nat, u \in Nat : LET x == SeqStart(ps, t, u) IN
              x \in LongSeq /\ x.last_ts = ps.last_ts /\ x.count = ps.count /\ x.deadline_ts = u
  BY DEF SeqStart, LongSeq
<1>4. \A t \in Nat, b \in Nat, f \in Nat : LET x == SeqPulse(ps, t, b, f) IN
              /\ x \in LongSeq /\ x.last_ts = t /\ x.count = ps.count
              /\ x.deadline_ts = ps.deadline_ts
  BY DEF SeqPulse, LongSeq
<1>5. \A t \in Int : LET x == SeqDur(ps, t) IN
              /\ x \in LongSeq /\ x.last_ts = ps.last_ts /\ x.count = ps.count
              /\ x.deadline_ts = ps.deadline_ts
  BY DEF SeqDur, LongSeq
<1> QED BY <1>1, <1>2, <1>3, <1>4, <1>5

\* The queue and the sequence after a new burst.
BurstNext(d, ps, ts, b) ==
  /\ b.q \in Seq(Nat) /\ Len(b.q) <= Len(d.pulses)
  /\ \A i \in 1..Len(b.q) : /\ b.q[i] = d.pulses[i]
                            /\ b.q[i] + LONG_RADAR_DURATION >= ts
                            /\ b.ps.deadline_ts <= b.q[i] + LONG_RADAR_DURATION
  /\ b.ps \in LongSeq /\ b.ps.last_ts = ts
  /\ b.ps.count = ps.count + 1 - (Len(d.pulses) - Len(b.q))
  /\ b.ps.deadline_ts \in LONG_RADAR_DURATION..ts + LONG_RADAR_DURATION

LEMMA NewBurstIs ==
  ASSUME NEW d, IsDetector(d), Ordered(d.pulses), NEW ps \in LongSeq, NEW ts \in Nat,
         ps.deadline_ts >= LONG_RADAR_DURATION,
         \A i \in DOMAIN d.pulses : ps.deadline_ts <= d.pulses[i] + LONG_RADAR_DURATION,
         \A i \in DOMAIN d.pulses : d.pulses[i] < ts, d.pulses # <<>>
  PROVE  BurstNext(d, ps, ts, NewBurst(d, ps, ts))
<1> DEFINE b == NewBurst(d, ps, ts)
<1> DEFINE W == LONG_RADAR_DURATION
           q == Within(d.pulses, ts - W)
           s == [ps EXCEPT !.count = @ + 1, !.count_falses = 1, !.burst = 1, !.last_ts = ts]
           cut == [s EXCEPT !.count = @ - (Len(d.pulses) - Len(q))]
           new == [cut EXCEPT !.first_ts = q[Len(q)], !.deadline_ts = q[Len(q)] + W]
<1>0. /\ W \in Nat /\ ps.count \in Int /\ ps.first_ts \in Nat /\ ps.dur \in Int /\ ps.deadline_ts \in Nat
  BY Durations DEF LongSeq
<1>d. /\ d.pulses \in Seq(Nat) /\ Len(d.pulses) \in Nat /\ DOMAIN d.pulses = 1..Len(d.pulses)
      /\ \A i \in 1..Len(d.pulses) : d.pulses[i] \in Nat
  BY LenProperties DEF IsDetector
<1>e. 1 \in 1..Len(d.pulses)
  BY <1>d
<1>s. /\ s \in LongSeq /\ s.last_ts = ts /\ s.count = ps.count + 1
      /\ s.deadline_ts = ps.deadline_ts
  <2>1. ps.count + 1 \in Int
    BY <1>0
  <2>2. s = SeqBurst(ps, ps.count + 1, ts)
    BY DEF SeqBurst
  <2> HIDE DEF s
  <2>3. \A c \in Int, t \in Nat : LET x == SeqBurst(ps, c, t) IN
           x \in LongSeq /\ x.last_ts = t /\ x.count = c /\ x.deadline_ts = ps.deadline_ts
    BY SeqChanges
  <2> QED BY <2>1, <2>2, <2>3, Zenon
<1>1. b = IF ts <= ps.deadline_ts THEN [q |-> d.pulses, ps |-> s]
          ELSE IF q = <<>> THEN [q |-> q, ps |-> cut] ELSE [q |-> q, ps |-> new]
  BY DEF NewBurst
<1> HIDE DEF s, b
<1> SUFFICES BurstNext(d, ps, ts, b)
  BY DEF b
<1>2. CASE ts <= ps.deadline_ts
  <2>1. b.q = d.pulses /\ b.ps = s
    BY <1>1, <1>2
  <2>3. ps.deadline_ts <= d.pulses[1] + W /\ d.pulses[1] < ts /\ d.pulses[1] \in Nat
    BY <1>d, <1>e
  <2>4. \A i \in 1..Len(d.pulses) : d.pulses[i] + W >= ts /\ ps.deadline_ts <= d.pulses[i] + W
    <3> SUFFICES ASSUME NEW i \in 1..Len(d.pulses)
                 PROVE  d.pulses[i] + W >= ts /\ ps.deadline_ts <= d.pulses[i] + W
      OBVIOUS
    <3>1. ps.deadline_ts <= d.pulses[i] + W /\ d.pulses[i] \in Nat
      BY <1>d
    <3> QED BY <1>0, <1>2, <3>1
  <2>5. b.ps.deadline_ts \in W..ts + W
    <3> HIDE DEF W
    <3>1. ps.deadline_ts \in W..ts + W
      BY <1>0, <2>3 DEF W
    <3> QED BY <1>s, <2>1, <3>1
  <2>6. b.ps.count = ps.count + 1 - (Len(d.pulses) - Len(b.q)) /\ Len(b.q) <= Len(d.pulses)
    <3>1. Len(d.pulses) - Len(b.q) = 0 /\ Len(b.q) <= Len(d.pulses)
      BY <1>d, <2>1
    <3>2. b.ps.count = ps.count + 1 /\ ps.count + 1 - 0 = ps.count + 1
      BY <1>0, <1>s, <2>1
    <3> QED BY <3>1, <3>2
  <2>7. b.q \in Seq(Nat) /\ b.ps \in LongSeq /\ b.ps.last_ts = ts
    BY <1>d, <1>s, <2>1
  <2>8. \A i \in 1..Len(b.q) : /\ b.q[i] = d.pulses[i] /\ b.q[i] + W >= ts
                               /\ b.ps.deadline_ts <= b.q[i] + W
    BY <1>s, <2>1, <2>4
  <2> QED BY <2>5, <2>6, <2>7, <2>8, Zenon DEF BurstNext
<1>3. CASE ~(ts <= ps.deadline_ts)
  <2>1. PICK n \in 0..Len(d.pulses) :
           /\ q \in Seq(Nat) /\ Len(q) = n
           /\ \A i \in 1..n : q[i] = d.pulses[i] /\ d.pulses[i] >= ts - W
           /\ \A i \in n + 1..Len(d.pulses) : d.pulses[i] < ts - W
    <3>1. ts - W \in Int
      BY <1>0
    <3> QED BY <1>d, <3>1, WithinProps
  <2> HIDE DEF q
  <2>2. \A i \in 1..n : q[i] \in Nat /\ q[i] < ts /\ q[i] + W >= ts /\ q[i] = d.pulses[i]
    <3> SUFFICES ASSUME NEW i \in 1..n PROVE q[i] \in Nat /\ q[i] < ts /\ q[i] + W >= ts /\ q[i] = d.pulses[i]
      OBVIOUS
    <3>1. i \in 1..Len(d.pulses)
      BY <1>d, <2>1
    <3>2. q[i] = d.pulses[i] /\ d.pulses[i] >= ts - W
      BY <2>1
    <3>3. d.pulses[i] \in Nat /\ d.pulses[i] < ts
      BY <1>d, <3>1
    <3> DEFINE a == d.pulses[i]
    <3>4. a \in Nat /\ a < ts /\ a >= ts - W /\ W \in Nat
      BY <1>0, <3>2, <3>3
    <3> HIDE DEF a, W
    <3>5. a + W >= ts
      BY <3>4
    <3> QED BY <3>2, <3>3, <3>5 DEF a
  <2>c. /\ cut \in LongSeq /\ cut.last_ts = ts /\ cut.deadline_ts = ps.deadline_ts
        /\ cut.count = ps.count + 1 - (Len(d.pulses) - Len(q))
    <3>1. Len(d.pulses) - Len(q) \in Int
      BY <1>d, <2>1
    <3> HIDE DEF q
    <3>2. s.count - (Len(d.pulses) - Len(q)) \in Int
      BY <1>0, <1>s, <3>1
    <3>3. /\ cut \in LongSeq /\ cut.last_ts = s.last_ts /\ cut.deadline_ts = s.deadline_ts
          /\ cut.count = s.count - (Len(d.pulses) - Len(q))
      <4>1. cut = SeqCount(s, s.count - (Len(d.pulses) - Len(q)))
        BY DEF SeqCount
      <4> HIDE DEF cut
      <4> QED BY <1>s, <3>2, <4>1, SeqChanges
    <3> HIDE DEF cut
    <3>4. cut \in LongSeq /\ cut.last_ts = ts /\ cut.deadline_ts = ps.deadline_ts
      BY <1>s, <3>3, Zenon
    <3>5. cut.count = ps.count + 1 - (Len(d.pulses) - Len(q))
      <4> DEFINE X == Len(d.pulses) - Len(q)
      <4>1. cut.count = s.count - X /\ X \in Int
        BY <3>1, <3>3
      <4>2. s.count = ps.count + 1 /\ ps.count \in Int
        BY <1>0, <1>s
      <4> HIDE DEF X
      <4>3. cut.count = ps.count + 1 - X
        BY <4>1, <4>2
      <4> QED BY <4>3 DEF X
    <3> QED BY <3>4, <3>5, Zenon
  <2> HIDE DEF cut
  <2>3. CASE q = <<>>
    <3>1. b.q = q /\ b.ps = cut /\ n = 0
      BY <1>1, <1>3, <2>1, <2>3
    <3>2. /\ cut \in LongSeq /\ cut.last_ts = ts /\ cut.deadline_ts = ps.deadline_ts
          /\ cut.count = ps.count + 1 - (Len(d.pulses) - Len(q))
      BY <2>c
    <3> QED BY <1>0, <1>3, <1>d, <2>1, <3>1, <3>2 DEF BurstNext
  <2>4. CASE q # <<>>
    <3>1. b.q = q /\ b.ps = new /\ n \in 1..n
      BY <1>1, <1>3, <2>1, <2>4
    <3>2. q[n] \in Nat /\ q[n] < ts
      BY <2>2, <3>1
    <3>3. /\ new \in LongSeq /\ new.last_ts = ts /\ new.deadline_ts = q[n] + W
          /\ new.count = ps.count + 1 - (Len(d.pulses) - Len(q))
      <4>1. q[n] + W \in Nat
        BY <1>0, <3>2
      <4>2. new \in LongSeq /\ new.last_ts = cut.last_ts /\ new.count = cut.count /\ new.deadline_ts = q[n] + W
        <5>1. new = SeqStart(cut, q[n], q[n] + W)
          BY <2>1 DEF SeqStart
        <5> HIDE DEF new
        <5>2. \A t \in Nat, u \in Nat : LET x == SeqStart(cut, t, u) IN
                x \in LongSeq /\ x.last_ts = cut.last_ts /\ x.count = cut.count /\ x.deadline_ts = u
          BY <2>c, SeqChanges
        <5> QED BY <3>2, <4>1, <5>1, <5>2, Zenon
      <4> QED BY <2>c, <4>2
    <3>4. \A i \in 1..n : q[n] + W <= q[i] + W
      <4> SUFFICES ASSUME NEW i \in 1..n PROVE q[n] + W <= q[i] + W
        OBVIOUS
      <4>1. q[i] \in Nat /\ q[n] \in Nat /\ W \in Nat
        BY <1>0, <2>2, <3>2
      <4>2. q[n] <= q[i]
        <5>1. CASE i = n
          BY <4>1, <5>1
        <5>2. CASE i # n
          <6>1. i \in 1..n - 1 /\ n \in DOMAIN d.pulses
            BY <1>d, <2>1, <5>2
          <6>2. d.pulses[i] > d.pulses[n]
            BY <6>1 DEF Ordered
          <6> QED BY <2>2, <3>1, <6>2
        <5> QED BY <5>1, <5>2
      <4> DEFINE x == q[n]
                 y == q[i]
      <4> HIDE DEF x, y, W
      <4>3. x + W <= y + W
        BY <4>1, <4>2 DEF x, y
      <4> QED BY <4>3 DEF x, y
    <3> HIDE DEF new
    <3>5. new.deadline_ts \in W..ts + W
      BY <1>0, <3>2, <3>3
    <3>6. \A i \in 1..n : /\ b.q[i] = d.pulses[i] /\ b.q[i] + W >= ts
                           /\ b.ps.deadline_ts <= b.q[i] + W
      BY <2>2, <3>1, <3>3, <3>4
    <3>7. Len(b.q) = n /\ n <= Len(d.pulses)
      BY <1>d, <2>1, <3>1
    <3> QED BY <2>1, <3>1, <3>3, <3>5, <3>6, <3>7, Zenon DEF BurstNext
  <2> QED BY <2>3, <2>4
<1> QED BY <1>2, <1>3

\* What is used of a queue.
LEMMA QueueFacts ==
  ASSUME NEW rs, NEW d, NEW now \in Nat, QueueInv(rs, d, now)
  PROVE  /\ d.pulses \in Seq(Nat) /\ Len(d.pulses) \in Nat /\ DOMAIN d.pulses = 1..Len(d.pulses)
         /\ \A i \in 1..Len(d.pulses) : d.pulses[i] \in Nat /\ d.pulses[i] <= now /\ d.pulses[i] \in d.seen
         /\ d.seen \in SUBSET Nat /\ IsFiniteSet(d.seen) /\ d.dropped \in Nat
         /\ Ordered(d.pulses) /\ Len(d.pulses) < max_count(rs)
<1>1. d.pulses \in Seq(Nat) /\ d.seen \in SUBSET Nat /\ IsFiniteSet(d.seen) /\ d.dropped \in Nat
  BY DEF QueueInv, IsDetector
<1>2. Len(d.pulses) \in Nat /\ DOMAIN d.pulses = 1..Len(d.pulses) /\ \A i \in 1..Len(d.pulses) : d.pulses[i] \in Nat
  BY <1>1, LenProperties
<1>3. \A i \in 1..Len(d.pulses) : d.pulses[i] <= now /\ d.pulses[i] \in d.seen
  BY <1>2 DEF QueueInv
<1>4. Ordered(d.pulses) /\ Len(d.pulses) < max_count(rs)
  BY DEF QueueInv, QueueOf, Ordered
<1> QED BY <1>1, <1>2, <1>3, <1>4

\* A detector, field by field.
Detector(p, s, n, m) == [pulses |-> p, sequences |-> s, seen |-> n, dropped |-> m]

\* A detector whose queue became q, and its sequences S.
With(d, q, S) == Detector(q, S, d.seen, d.dropped)

\* q is the queue of d without its tail, and older than ts.
Before(d, q, ts) ==
  /\ q \in Seq(Nat) /\ Len(q) <= Len(d.pulses)
  /\ \A i \in 1..Len(q) : q[i] = d.pulses[i] /\ q[i] < ts

\* e is d with the queue q and the pulse ts, and with the sequences S.
Queued(rs, d, q, S, ts, e) ==
  /\ QueueInv(rs, e, ts) /\ e.sequences = S /\ e.seen = d.seen \union {ts}
  /\ Len(e.pulses) \in 1..Len(q) + 1 /\ e.pulses[1] = ts
  /\ \A i \in 2..Len(e.pulses) : e.pulses[i] = q[i - 1]
  /\ (\A i \in 1..Len(q) : q[i] + window_size(rs) >= ts)
       => Len(e.pulses) + e.dropped = Len(q) + 1 + d.dropped
  /\ Len(q) + 1 < max_count(rs) =>
       \A i \in 1..Len(q) : q[i] + window_size(rs) >= ts => i + 1 <= Len(e.pulses)

\* What a queue holds when a pulse came in front of it.
LEMMA QueueStep ==
  ASSUME NEW rs, IsSpec(rs), NEW d, NEW now \in Nat, QueueInv(rs, d, now),
         NEW ts \in Nat, now <= ts, NEW q, Before(d, q, ts), NEW S
  PROVE  Queued(rs, d, q, S, ts, pulse_queue_enqueue(rs, With(d, q, S), ts))
<1> DEFINE c == With(d, q, S)
           e == pulse_queue_enqueue(rs, c, ts)
<1>b. /\ q \in Seq(Nat) /\ Len(q) <= Len(d.pulses) /\ \A i \in 1..Len(q) : q[i] = d.pulses[i]
      /\ \A i \in 1..Len(q) : q[i] < ts
  BY DEF Before
<1>d. /\ Len(d.pulses) \in Nat /\ DOMAIN d.pulses = 1..Len(d.pulses)
      /\ \A i \in 1..Len(d.pulses) : d.pulses[i] \in Nat /\ d.pulses[i] <= now /\ d.pulses[i] \in d.seen
      /\ d.seen \in SUBSET Nat /\ IsFiniteSet(d.seen) /\ d.dropped \in Nat
      /\ Ordered(d.pulses) /\ Len(d.pulses) < max_count(rs)
  BY QueueFacts
<1>q. Len(q) \in Nat /\ DOMAIN q = 1..Len(q) /\ \A i \in 1..Len(q) : q[i] \in Nat
  BY <1>b, LenProperties
<1>c. c.pulses = q /\ c.sequences = S /\ c.seen = d.seen /\ c.dropped = d.dropped
  BY DEF With, Detector
<1>1. IsDetector(c)
  <2>1. c = [pulses |-> c.pulses, sequences |-> c.sequences, seen |-> c.seen, dropped |-> c.dropped]
    BY <1>c DEF With, Detector
  <2> HIDE DEF c
  <2> QED BY <1>b, <1>c, <1>d, <2>1 DEF IsDetector
<1> HIDE DEF c
<1>2. Ordered(c.pulses)
  <2> SUFFICES ASSUME NEW i \in 1..Len(q), NEW j \in 1..i - 1 PROVE q[j] > q[i]
    BY <1>c, <1>q DEF Ordered
  <2>1. i \in DOMAIN d.pulses /\ j \in 1..Len(q)
    BY <1>b, <1>d, <1>q
  <2>2. d.pulses[j] > d.pulses[i]
    BY <1>d, <2>1 DEF Ordered
  <2> QED BY <1>b, <2>1, <2>2
<1>3. max_count(rs) \in Nat
  BY DEF IsSpec
<1>4. Len(c.pulses) < max_count(rs)
  BY <1>b, <1>c, <1>d, <1>q, <1>3
<1>5. \A i \in DOMAIN c.pulses : c.pulses[i] < ts
  BY <1>b, <1>c, <1>q
<1>e. e = pulse_queue_enqueue(rs, c, ts)
  OBVIOUS
<1> HIDE DEF e
<1>6. /\ IsDetector(e) /\ QueueOf(rs, e) /\ Len(e.pulses) \in 1..Len(c.pulses) + 1
      /\ e.pulses[1] = ts
      /\ \A i \in 2..Len(e.pulses) : e.pulses[i] = c.pulses[i - 1]
      /\ e.sequences = c.sequences /\ e.seen = c.seen \union {ts}
      /\ (\A i \in DOMAIN c.pulses : c.pulses[i] + window_size(rs) >= ts)
            => Len(e.pulses) + e.dropped = Len(c.pulses) + 1 + c.dropped
      /\ Len(c.pulses) + 1 < max_count(rs) =>
           \A i \in DOMAIN c.pulses : c.pulses[i] + window_size(rs) >= ts => i + 1 <= Len(e.pulses)
  BY <1>1, <1>2, <1>4, <1>5, <1>e, Enqueued
<1>7. /\ Len(e.pulses) \in 1..Len(q) + 1 /\ \A i \in 2..Len(e.pulses) : e.pulses[i] = q[i - 1]
      /\ e.sequences = S /\ e.seen = d.seen \union {ts}
      /\ (\A i \in 1..Len(q) : q[i] + window_size(rs) >= ts)
            => Len(e.pulses) + e.dropped = Len(q) + 1 + d.dropped
      /\ Len(q) + 1 < max_count(rs) =>
           \A i \in 1..Len(q) : q[i] + window_size(rs) >= ts => i + 1 <= Len(e.pulses)
  BY <1>c, <1>q, <1>6
<1>8. e.pulses # <<>> /\ e.seen # {} /\ DOMAIN e.pulses = 1..Len(e.pulses)
  <2>1. e.pulses \in Seq(Nat) /\ Len(e.pulses) >= 1
    BY <1>6, <1>7, <1>q DEF IsDetector
  <2>2. DOMAIN e.pulses = 1..Len(e.pulses)
    BY <2>1, LenProperties
  <2>3. e.pulses # <<>>
    BY <2>1
  <2>4. e.seen # {}
    BY <1>7
  <2> QED BY <2>2, <2>3, <2>4
<1>9. \A t \in e.seen : t <= ts
  BY <1>7, <1>d DEF QueueInv
<1>10. \A i \in DOMAIN e.pulses : e.pulses[i] \in e.seen
  <2> SUFFICES ASSUME NEW i \in 1..Len(e.pulses) PROVE e.pulses[i] \in e.seen
    BY <1>8
  <2>1. CASE i = 1
    BY <1>6, <1>7, <2>1
  <2>2. CASE i # 1
    <3>1. i \in 2..Len(e.pulses) /\ i - 1 \in 1..Len(q) /\ i - 1 \in 1..Len(d.pulses)
      BY <1>7, <1>b, <1>q, <1>d, <2>2
    <3> QED BY <1>7, <1>b, <1>d, <3>1
  <2> QED BY <2>1, <2>2
<1>11. QueueInv(rs, e, ts)
  BY <1>6, <1>8, <1>9, <1>10 DEF QueueInv
<1>12. Queued(rs, d, q, S, ts, e)
  BY <1>6, <1>7, <1>11 DEF Queued
<1> QED BY <1>12 DEF e, c

\* The same, as the actions write it.
Sequenced(d, S) == [d EXCEPT !.sequences = S]
Changed(d, q, S) == [d EXCEPT !.pulses = q, !.sequences = S]

\* The records they make.
LEMMA Changes ==
  ASSUME NEW p, NEW s, NEW n, NEW m, NEW d, d = Detector(p, s, n, m), NEW q, NEW S
  PROVE  Sequenced(d, S) = Detector(p, S, n, m) /\ Changed(d, q, S) = Detector(q, S, n, m)
<1>1. Sequenced(d, S) = Detector(p, S, n, m)
  BY DEF Sequenced, Detector
<1> DEFINE x == [d EXCEPT !.pulses = q]
<1>2. x = Detector(q, s, n, m)
  BY DEF Detector
<1>3. Changed(d, q, S) = [x EXCEPT !.sequences = S]
  BY Zenon DEF Changed
<1> HIDE DEF x
<1>4. [x EXCEPT !.sequences = S] = Detector(q, S, n, m)
  BY <1>2 DEF Detector
<1> QED BY <1>1, <1>3, <1>4, Zenon

LEMMA Withs ==
  ASSUME NEW d, IsDetector(d), NEW q, NEW S
  PROVE  Sequenced(d, S) = With(d, d.pulses, S) /\ Changed(d, q, S) = With(d, q, S)
<1>1. PICK p, s, n, m :
        d = Detector(p, s, n, m) /\ p = d.pulses /\ n = d.seen /\ m = d.dropped
  <2>1. d = Detector(d.pulses, d.sequences, d.seen, d.dropped)
    BY DEF IsDetector, Detector
  <2> QED BY <2>1, Zenon
<1>2. Sequenced(d, S) = Detector(p, S, n, m) /\ Changed(d, q, S) = Detector(q, S, n, m)
  BY <1>1, Changes
<1> QED BY <1>1, <1>2, Zenon DEF With

\* A pulse keeps what holds of a long detector.
LEMMA LongStep ==
  ASSUME NEW rs, IsSpec(rs), rs.type = "long", NEW d, NEW now \in Nat, QueueInv(rs, d, now),
         LongInv(d), NEW ts \in Nat, now <= ts, NEW e, e = pde_long_add_pulse(rs, d, ts).d
  PROVE  QueueInv(rs, e, ts) /\ LongInv(e) /\ ts \in e.seen
<1> DEFINE W == LONG_RADAR_DURATION
<1>w. W \in Nat /\ window_size(rs) = W
  BY Durations
<1>d. /\ d.pulses \in Seq(Nat) /\ Len(d.pulses) \in Nat /\ DOMAIN d.pulses = 1..Len(d.pulses)
      /\ \A i \in 1..Len(d.pulses) : d.pulses[i] \in Nat /\ d.pulses[i] <= now /\ d.pulses[i] \in d.seen
      /\ d.seen \in SUBSET Nat /\ IsFiniteSet(d.seen) /\ d.dropped \in Nat
      /\ Ordered(d.pulses) /\ Len(d.pulses) < max_count(rs)
  BY QueueFacts
<1>r. d = [pulses |-> d.pulses, sequences |-> d.sequences, seen |-> d.seen, dropped |-> d.dropped]
  BY DEF QueueInv, IsDetector
<1>i. IsDetector(d)
  BY DEF QueueInv
<1>1. CASE d.sequences = {}
  <2> DEFINE ps == FirstBurst(ts)
  <2>1. d.pulses = <<>> /\ d.dropped = 0
    <3>1. d.pulses = <<>>
      BY <1>1 DEF LongInv
    <3> QED BY <3>1 DEF QueueInv
  <2>2. ps \in LongSeq /\ ps.count = 1 /\ ps.last_ts = ts /\ ps.deadline_ts = ts + W
    BY <1>w DEF FirstBurst, LongSeq
  <2> HIDE DEF ps
  <2>3. e = pulse_queue_enqueue(rs, [d EXCEPT !.sequences = {ps}], ts)
    BY <1>1 DEF pde_long_add_pulse, ps
  <2>4. e = pulse_queue_enqueue(rs, With(d, d.pulses, {ps}), ts)
    <3>1. e = pulse_queue_enqueue(rs, Sequenced(d, {ps}), ts)
      BY <2>3 DEF Sequenced
    <3>2. Sequenced(d, {ps}) = With(d, d.pulses, {ps})
      BY <1>i, Withs, Zenon
    <3> QED BY <3>1, <3>2, Zenon
  <2>l. Len(d.pulses) = 0
    BY <2>1
  <2>b. Before(d, d.pulses, ts)
    BY <1>d, <2>l DEF Before
  <2>q. Queued(rs, d, d.pulses, {ps}, ts, e)
    BY <2>4, <2>b, QueueStep
  <2>5. /\ QueueInv(rs, e, ts) /\ e.sequences = {ps} /\ e.seen = d.seen \union {ts}
        /\ Len(e.pulses) \in 1..Len(d.pulses) + 1 /\ e.pulses[1] = ts
        /\ (\A i \in 1..Len(d.pulses) : d.pulses[i] + window_size(rs) >= ts)
             => Len(e.pulses) + e.dropped = Len(d.pulses) + 1 + d.dropped
    BY <2>q DEF Queued
  <2>6. Len(e.pulses) + e.dropped = 1 /\ DOMAIN e.pulses = {1} /\ e.pulses # <<>>
    <3>2. e.pulses \in Seq(Nat) /\ e.dropped \in Nat
      BY <2>5 DEF QueueInv, IsDetector
    <3>3. Len(e.pulses) = 1
      BY <2>5, <2>l
    <3> QED BY <2>1, <2>5, <2>l, <3>2, <3>3
  <2>7. LongInv(e)
    BY <1>w, <2>2, <2>5, <2>6 DEF LongInv
  <2> QED BY <2>5, <2>7
<1>2. CASE d.sequences # {}
  <2>1. PICK ps \in LongSeq :
         /\ d.sequences = {ps} /\ d.pulses # <<>>
         /\ ps.count = Len(d.pulses) + d.dropped
         /\ ps.last_ts \in d.seen /\ ps.deadline_ts >= LONG_RADAR_DURATION
         /\ \A i \in DOMAIN d.pulses : /\ d.pulses[i] <= ps.last_ts
                                       /\ ps.deadline_ts <= d.pulses[i] + LONG_RADAR_DURATION
    BY <1>2 DEF LongInv
  <2>2. (CHOOSE s \in d.sequences : TRUE) = ps
    BY <2>1
  <2>t. /\ ps.count \in Int /\ ps.last_ts \in Nat /\ ps.deadline_ts \in Nat
        /\ ps.burst \in Nat /\ ps.count_falses \in Nat
        /\ ps.last_ts <= now
    BY <2>1 DEF LongSeq, QueueInv
  <2> DEFINE delta_ts == ts - ps.last_ts
             b == NewBurst(d, ps, ts)
             same == [ps EXCEPT !.last_ts = ts,
                              !.burst = IF delta_ts \in rs.pri_min..rs.pri_max THEN @ + 1 ELSE @,
                              !.count_falses = IF delta_ts = rs.pri_max THEN @ + 1 ELSE @]
             nps == [b.ps EXCEPT !.dur = delta_ts]
             next == [d EXCEPT !.pulses = b.q, !.sequences = {nps}]
  <2>3. e = IF SameBurst(rs, ps, delta_ts) THEN [d EXCEPT !.sequences = {same}, !.seen = @ \union {ts}]
            ELSE pulse_queue_enqueue(rs, next, ts)
    BY <1>2, <2>2 DEF pde_long_add_pulse
  <2>4. delta_ts \in Int
    BY <2>t
  <2>5. CASE SameBurst(rs, ps, delta_ts)
    <3>1. same \in LongSeq /\ same.last_ts = ts /\ same.count = ps.count /\ same.deadline_ts = ps.deadline_ts
      <4> DEFINE bu == IF delta_ts \in rs.pri_min..rs.pri_max THEN ps.burst + 1 ELSE ps.burst
                 fa == IF delta_ts = rs.pri_max THEN ps.count_falses + 1 ELSE ps.count_falses
      <4>1. same = SeqPulse(ps, ts, bu, fa)
        BY DEF SeqPulse
      <4>2. bu \in Nat /\ fa \in Nat
        BY <2>t
      <4>3. \A t \in Nat, v \in Nat, f \in Nat : LET x == SeqPulse(ps, t, v, f) IN
              /\ x \in LongSeq /\ x.last_ts = t /\ x.count = ps.count
              /\ x.deadline_ts = ps.deadline_ts
        BY SeqChanges
      <4> HIDE DEF same, bu, fa
      <4> QED BY <4>1, <4>2, <4>3, Zenon
    <3> HIDE DEF same
    <3>2. e = [pulses |-> d.pulses, sequences |-> {same}, seen |-> d.seen \union {ts}, dropped |-> d.dropped]
      BY <1>r, <2>3, <2>5
    <3>3. e.pulses = d.pulses /\ e.sequences = {same} /\ e.seen = d.seen \union {ts} /\ e.dropped = d.dropped
      BY <3>2
    <3>4. IsDetector(e)
      <4>1. IsFiniteSet(d.seen \union {ts})
        BY <1>d, FS_AddElement
      <4> QED BY <1>d, <3>2, <3>3, <4>1 DEF IsDetector
    <3>5. QueueOf(rs, e)
      BY <3>3 DEF QueueInv, QueueOf
    <3>6. \A t \in e.seen : t <= ts
      BY <1>d, <3>3 DEF QueueInv
    <3>7. QueueInv(rs, e, ts)
      BY <1>d, <2>1, <3>3, <3>4, <3>5, <3>6 DEF QueueInv
    <3>8. \A i \in DOMAIN e.pulses : e.pulses[i] <= same.last_ts /\ same.deadline_ts <= e.pulses[i] + LONG_RADAR_DURATION
      <4> SUFFICES ASSUME NEW i \in 1..Len(d.pulses)
                   PROVE  d.pulses[i] <= ts /\ ps.deadline_ts <= d.pulses[i] + LONG_RADAR_DURATION
        BY <1>d, <3>1, <3>3
      <4>1. d.pulses[i] <= now /\ d.pulses[i] \in Nat /\ i \in DOMAIN d.pulses
        BY <1>d
      <4> QED BY <2>1, <4>1
    <3>9. LongInv(e)
      <4>1. /\ e.sequences = {same} /\ e.pulses # <<>>
            /\ same.count = Len(e.pulses) + e.dropped
            /\ same.last_ts \in e.seen /\ same.deadline_ts >= LONG_RADAR_DURATION
        BY <2>1, <3>1, <3>3
      <4> QED BY <3>1, <3>8, <4>1 DEF LongInv
    <3> QED BY <3>3, <3>7, <3>9
  <2>6. CASE ~SameBurst(rs, ps, delta_ts)
    <3>1. ts > ps.last_ts
      <4>1. delta_ts > rs.pri_max
        BY <2>4, <2>6 DEF SameBurst, IsSpec
      <4> QED BY <2>t, <4>1 DEF IsSpec
    <3>2. \A i \in 1..Len(d.pulses) : d.pulses[i] < ts
      <4> SUFFICES ASSUME NEW i \in 1..Len(d.pulses) PROVE d.pulses[i] < ts
        OBVIOUS
      <4>1. d.pulses[i] <= ps.last_ts /\ d.pulses[i] \in Nat
        BY <1>d, <2>1
      <4> QED BY <2>t, <3>1, <4>1
    <3>3. /\ b.q \in Seq(Nat) /\ Len(b.q) <= Len(d.pulses)
          /\ \A i \in 1..Len(b.q) : /\ b.q[i] = d.pulses[i]
                                   /\ b.q[i] + LONG_RADAR_DURATION >= ts
                                   /\ b.ps.deadline_ts <= b.q[i] + LONG_RADAR_DURATION
          /\ b.ps \in LongSeq /\ b.ps.last_ts = ts
          /\ b.ps.count = ps.count + 1 - (Len(d.pulses) - Len(b.q))
          /\ b.ps.deadline_ts \in LONG_RADAR_DURATION..ts + LONG_RADAR_DURATION
      <4>1. IsDetector(d)
        BY <1>i
      <4>2. /\ \A i \in DOMAIN d.pulses : ps.deadline_ts <= d.pulses[i] + LONG_RADAR_DURATION
            /\ \A i \in DOMAIN d.pulses : d.pulses[i] < ts
        BY <1>d, <2>1, <3>2
      <4>4. Ordered(d.pulses) /\ d.pulses # <<>> /\ ps.deadline_ts >= LONG_RADAR_DURATION
        BY <1>d, <2>1
      <4>5. BurstNext(d, ps, ts, b)
        BY <4>1, <4>2, <4>4, NewBurstIs
      <4> QED BY <4>5 DEF BurstNext
    <3> HIDE DEF b
    <3>4. nps \in LongSeq /\ nps.last_ts = ts /\ nps.count = b.ps.count /\ nps.deadline_ts = b.ps.deadline_ts
      <4>1. nps = SeqDur(b.ps, delta_ts)
        BY DEF SeqDur
      <4>2. \A t \in Int : LET x == SeqDur(b.ps, t) IN
              /\ x \in LongSeq /\ x.last_ts = b.ps.last_ts /\ x.count = b.ps.count
              /\ x.deadline_ts = b.ps.deadline_ts
        BY <3>3, SeqChanges
      <4> HIDE DEF nps, delta_ts
      <4>3. /\ nps \in LongSeq /\ nps.last_ts = b.ps.last_ts /\ nps.count = b.ps.count
            /\ nps.deadline_ts = b.ps.deadline_ts
        BY <2>4, <4>1, <4>2, Zenon
      <4> QED BY <3>3, <4>3, Zenon
    <3> HIDE DEF nps, delta_ts
    <3>6. e = pulse_queue_enqueue(rs, With(d, b.q, {nps}), ts)
      <4>1. e = pulse_queue_enqueue(rs, Changed(d, b.q, {nps}), ts)
        BY <2>3, <2>6 DEF Changed
      <4>2. Changed(d, b.q, {nps}) = With(d, b.q, {nps})
        BY <1>i, Withs, Zenon
      <4> QED BY <4>1, <4>2, Zenon
    <3>7. /\ QueueInv(rs, e, ts) /\ e.sequences = {nps} /\ e.seen = d.seen \union {ts}
          /\ Len(e.pulses) \in 1..Len(b.q) + 1 /\ e.pulses[1] = ts
          /\ \A i \in 2..Len(e.pulses) : e.pulses[i] = b.q[i - 1]
          /\ (\A i \in 1..Len(b.q) : b.q[i] + window_size(rs) >= ts)
               => Len(e.pulses) + e.dropped = Len(b.q) + 1 + d.dropped
      <4>1. \A i \in 1..Len(b.q) : b.q[i] < ts /\ b.q[i] = d.pulses[i]
        <5>1. Len(b.q) \in Nat
          BY <3>3, LenProperties
        <5> SUFFICES ASSUME NEW i \in 1..Len(b.q) PROVE b.q[i] < ts /\ b.q[i] = d.pulses[i]
          OBVIOUS
        <5>2. i \in 1..Len(d.pulses)
          BY <1>d, <3>3, <5>1
        <5> QED BY <3>2, <3>3, <5>2
      <4>2. Before(d, b.q, ts)
        BY <3>3, <4>1 DEF Before
      <4>3. Queued(rs, d, b.q, {nps}, ts, e)
        BY <3>6, <4>2, QueueStep
      <4> QED BY <4>3 DEF Queued
    <3>8. Len(e.pulses) + e.dropped = Len(b.q) + 1 + d.dropped
      BY <1>w, <3>3, <3>7
    <3>9. nps.count = Len(e.pulses) + e.dropped
      <4>1. Len(b.q) \in Nat
        BY <3>3, LenProperties
      <4>2. b.ps.count = ps.count + 1 - (Len(d.pulses) - Len(b.q)) /\ ps.count = Len(d.pulses) + d.dropped
        BY <2>1, <3>3
      <4>3. b.ps.count = Len(b.q) + 1 + d.dropped
        <5> DEFINE M == Len(d.pulses)
                   N == Len(b.q)
                   C == ps.count
                   B == b.ps.count
                   X == d.dropped
        <5>1. M \in Nat /\ N \in Nat /\ X \in Nat /\ C = M + X /\ B = C + 1 - (M - N)
          BY <1>d, <4>1, <4>2
        <5> HIDE DEF M, N, C, B, X
        <5>2. B = N + 1 + X
          BY <5>1
        <5> QED BY <5>2 DEF B, N, X
      <4> QED BY <3>4, <3>8, <4>3
    <3>10. \A i \in DOMAIN e.pulses : e.pulses[i] <= nps.last_ts /\ nps.deadline_ts <= e.pulses[i] + LONG_RADAR_DURATION
      <4>1. e.pulses \in Seq(Nat) /\ DOMAIN e.pulses = 1..Len(e.pulses) /\ \A i \in DOMAIN e.pulses : e.pulses[i] <= ts
        BY <3>7, QueueFacts
      <4> SUFFICES ASSUME NEW i \in 1..Len(e.pulses)
                   PROVE  nps.deadline_ts <= e.pulses[i] + LONG_RADAR_DURATION
        BY <3>4, <4>1
      <4>2. CASE i = 1
        BY <1>w, <3>3, <3>4, <3>7, <4>2
      <4>3. CASE i # 1
        <5>1. Len(b.q) \in Nat
          BY <3>3, LenProperties
        <5>2. i \in 2..Len(e.pulses) /\ i - 1 \in 1..Len(b.q)
          BY <3>7, <4>3, <5>1
        <5> QED BY <3>3, <3>4, <3>7, <5>2
      <4> QED BY <4>2, <4>3
    <3>11. LongInv(e)
      <4>1. e.pulses # <<>> /\ nps.last_ts \in e.seen /\ nps.deadline_ts >= LONG_RADAR_DURATION
        BY <1>w, <3>3, <3>4, <3>7
      <4> QED BY <3>4, <3>7, <3>9, <3>10, <4>1 DEF LongInv
    <3> QED BY <3>7, <3>11
  <2> QED BY <2>5, <2>6
<1> QED BY <1>1, <1>2

-----------------------------------------------------------------------------
(* The short detectors.                                                     *)

\* A sequence of a short detector.
ShortSeq(pri, count, first, last, falses, deadline, thresh) ==
  [pri |-> pri, count |-> count, first_ts |-> first, last_ts |-> last,
   count_falses |-> falses, deadline_ts |-> deadline, ppb_thresh |-> thresh]

\* The pulses since one.
Since(seen, first) == {t \in seen : t >= first}

\* A sequence of a detector that has seen the pulses `seen`, the latest at top.
SeqInv(ps, seen, top) ==
  \E pri, last, thresh : \E count, falses, first, deadline \in Nat :
    /\ ps = ShortSeq(pri, count, first, last, falses, deadline, thresh)
    /\ count + falses = Cardinality(Since(seen, first)) /\ first <= top /\ top <= deadline

\* The sequences of a short detector, and its queue, which holds every pulse
\* since its oldest.
ShortInv(d) ==
  /\ \A ps \in d.sequences : SeqInv(ps, d.seen, d.pulses[1])
  /\ \A i \in DOMAIN d.pulses : \A t \in d.seen : t >= d.pulses[i] => \E j \in 1..i : d.pulses[j] = t

\* A new pulse is one more since any older one.
LEMMA OneMore ==
  ASSUME NEW seen \in SUBSET Nat, IsFiniteSet(seen), NEW ts \in Nat, ts \notin seen,
         NEW first \in Nat, first <= ts
  PROVE  /\ Cardinality(Since(seen, first)) \in Nat
         /\ Cardinality(Since(seen \union {ts}, first)) = Cardinality(Since(seen, first)) + 1
<1>1. Since(seen \union {ts}, first) = Since(seen, first) \union {ts}
  BY DEF Since
<1>2. ts \notin Since(seen, first) /\ Since(seen, first) \in SUBSET seen
  BY DEF Since
<1>3. IsFiniteSet(Since(seen, first))
  BY <1>2, FS_Subset
<1>4. Cardinality(Since(seen, first)) \in Nat
  BY <1>3, FS_CardinalityType
<1> QED BY <1>1, <1>2, <1>3, <1>4, FS_AddElement

\* A pulse is one more of the sequence, or of the false ones.
Joined(ps, ts) == [ps EXCEPT !.last_ts = ts, !.count = @ + 1]
Missed(ps) == [ps EXCEPT !.count_falses = @ + 1]

\* What they are of a sequence with these fields.
GoesOn(pri, count, first, last, falses, deadline, thresh, ts) ==
  LET ps == ShortSeq(pri, count, first, last, falses, deadline, thresh)
  IN  /\ Joined(ps, ts) = ShortSeq(pri, count + 1, first, ts, falses, deadline, thresh)
      /\ Missed(ps) = ShortSeq(pri, count, first, last, falses + 1, deadline, thresh)
      /\ ps.deadline_ts = deadline

\* They leave the other fields.
LEMMA ShortChanges ==
  ASSUME NEW pri, NEW count \in Nat, NEW first, NEW last, NEW falses \in Nat, NEW deadline, NEW thresh, NEW ts
  PROVE  GoesOn(pri, count, first, last, falses, deadline, thresh, ts)
<1> DEFINE ps == ShortSeq(pri, count, first, last, falses, deadline, thresh)
<1>1. Missed(ps) = ShortSeq(pri, count, first, last, falses + 1, deadline, thresh)
  BY DEF Missed, ShortSeq
<1> DEFINE x == [ps EXCEPT !.last_ts = ts]
<1>2. x = ShortSeq(pri, count, first, ts, falses, deadline, thresh) /\ x.count = count /\ ps.count = count
  BY DEF ShortSeq
<1>3. Joined(ps, ts) = [x EXCEPT !.count = count + 1]
  BY <1>2 DEF Joined
<1> HIDE DEF x
<1>4. [x EXCEPT !.count = count + 1] = ShortSeq(pri, count + 1, first, ts, falses, deadline, thresh)
  BY <1>2 DEF ShortSeq
<1>5. ps.deadline_ts = deadline
  BY DEF ShortSeq
<1> QED BY <1>1, <1>3, <1>4, <1>5, Zenon DEF GoesOn

\* A sequence that goes on.
LEMMA OldSequence ==
  ASSUME NEW seen \in SUBSET Nat, IsFiniteSet(seen), NEW ts \in Nat, ts \notin seen,
         NEW top \in Nat, top <= ts, NEW ps, SeqInv(ps, seen, top), ts <= ps.deadline_ts
  PROVE  SeqInv(Joined(ps, ts), seen \union {ts}, ts) /\ SeqInv(Missed(ps), seen \union {ts}, ts)
<1>1. PICK pri, last, thresh : \E count, falses, first, deadline \in Nat :
    /\ ps = ShortSeq(pri, count, first, last, falses, deadline, thresh)
    /\ count + falses = Cardinality(Since(seen, first)) /\ first <= top /\ top <= deadline
  BY DEF SeqInv
<1>2. PICK count \in Nat, falses \in Nat, first \in Nat, deadline \in Nat :
    /\ ps = ShortSeq(pri, count, first, last, falses, deadline, thresh)
    /\ count + falses = Cardinality(Since(seen, first)) /\ first <= top /\ top <= deadline
  BY <1>1
<1>3. /\ Joined(ps, ts) = ShortSeq(pri, count + 1, first, ts, falses, deadline, thresh)
      /\ Missed(ps) = ShortSeq(pri, count, first, last, falses + 1, deadline, thresh)
      /\ ps.deadline_ts = deadline
  <2>1. ps = ShortSeq(pri, count, first, last, falses, deadline, thresh)
    BY <1>2
  <2>2. GoesOn(pri, count, first, last, falses, deadline, thresh, ts)
    BY ShortChanges
  <2> QED BY <2>1, <2>2, Zenon DEF GoesOn
<1>4. first <= ts /\ ts <= deadline
  BY <1>2, <1>3
<1>5. Cardinality(Since(seen \union {ts}, first)) = Cardinality(Since(seen, first)) + 1
  BY <1>4, OneMore
<1>6. /\ (count + 1) + falses = Cardinality(Since(seen \union {ts}, first))
      /\ count + (falses + 1) = Cardinality(Since(seen \union {ts}, first))
      /\ count + 1 \in Nat /\ falses + 1 \in Nat
  BY <1>2, <1>5
<1>7. SeqInv(Joined(ps, ts), seen \union {ts}, ts)
  <2> DEFINE c == count + 1
  <2>1. c \in Nat /\ c + falses = Cardinality(Since(seen \union {ts}, first)) /\ Joined(ps, ts) = ShortSeq(pri, c, first, ts, falses, deadline, thresh)
    BY <1>3, <1>6
  <2> HIDE DEF c
  <2> QED BY <1>4, <2>1, Zenon DEF SeqInv
<1>8. SeqInv(Missed(ps), seen \union {ts}, ts)
  <2> DEFINE f == falses + 1
  <2>1. f \in Nat /\ count + f = Cardinality(Since(seen \union {ts}, first)) /\ Missed(ps) = ShortSeq(pri, count, first, last, f, deadline, thresh)
    BY <1>3, <1>6
  <2> HIDE DEF f
  <2> QED BY <1>4, <2>1, Zenon DEF SeqInv
<1> QED BY <1>7, <1>8

\* The largest of a set of numbers, as places in the queue.
LEMMA LargestIs ==
  ASSUME NEW n \in Nat, NEW T \in SUBSET (0..n), T # {}
  PROVE  Largest(T) \in T /\ \A y \in T : y <= Largest(T)
<1> DEFINE U == {m \in 0..n : \A y \in T : y <= m}
           u == CHOOSE k \in U : \A m \in U : k <= m
<1>1. U \in SUBSET Nat /\ n \in U
  OBVIOUS
<1>2. u \in U /\ \A m \in U : u <= m
  BY <1>1, Least
<1> HIDE DEF u
<1>3. u \in 0..n /\ \A y \in T : y <= u
  BY <1>2
<1>4. u \in T
  <2> SUFFICES ASSUME u \notin T PROVE FALSE
    OBVIOUS
  <2>1. \A y \in T : y <= u - 1 /\ y >= 0
    BY <1>3
  <2>2. u - 1 \in 0..n
    <3>1. PICK y \in T : TRUE
      OBVIOUS
    <3>2. y <= u - 1 /\ y >= 0 /\ y \in Nat
      BY <2>1
    <3> QED BY <1>3, <3>2
  <2>3. u - 1 \in U
    BY <2>1, <2>2
  <2> HIDE DEF U
  <2> QED BY <1>2, <1>3, <2>3
<1>5. \E x \in T : \A y \in T : y <= x
  BY <1>3, <1>4
<1> QED BY <1>5 DEF Largest

\* The pulses since one of the queue are those before it in the queue.
LEMMA QueueCount ==
  ASSUME NEW rs, NEW d, NEW now \in Nat, QueueInv(rs, d, now), ShortInv(d), NEW k \in 1..Len(d.pulses)
  PROVE  Cardinality(Since(d.seen, d.pulses[k])) = k
<1>d. /\ d.pulses \in Seq(Nat) /\ Len(d.pulses) \in Nat /\ DOMAIN d.pulses = 1..Len(d.pulses)
      /\ \A i \in 1..Len(d.pulses) : d.pulses[i] \in Nat /\ d.pulses[i] \in d.seen
      /\ d.seen \in SUBSET Nat /\ Ordered(d.pulses)
  BY QueueFacts
<1> DEFINE T == Since(d.seen, d.pulses[k])
           f == [i \in 1..k |-> d.pulses[i]]
<1>1. \A i \in 1..k : i \in 1..Len(d.pulses) /\ \A j \in 1..i - 1 : d.pulses[j] > d.pulses[i]
  BY <1>d DEF Ordered
<1>2. \A i \in 1..k : d.pulses[i] \in T
  <2> SUFFICES ASSUME NEW i \in 1..k PROVE d.pulses[i] >= d.pulses[k]
    BY <1>1, <1>d DEF Since
  <2>1. CASE i = k
    BY <1>1, <1>d, <2>1
  <2>2. CASE i # k
    <3>1. k \in 1..k /\ i \in 1..k - 1
      BY <2>2
    <3>2. d.pulses[i] > d.pulses[k]
      BY <1>1, <3>1
    <3>3. d.pulses[i] \in Nat /\ d.pulses[k] \in Nat
      BY <1>1, <1>d
    <3> QED BY <3>2, <3>3
  <2> QED BY <2>1, <2>2
<1>3. f \in [1..k -> T]
  BY <1>2
<1>4. \A a, b \in 1..k : f[a] = f[b] => a = b
  <2> SUFFICES ASSUME NEW a \in 1..k, NEW b \in 1..k, a < b PROVE d.pulses[a] # d.pulses[b]
    OBVIOUS
  <2>1. a \in 1..b - 1
    OBVIOUS
  <2>2. d.pulses[a] > d.pulses[b] /\ d.pulses[a] \in Nat /\ d.pulses[b] \in Nat
    BY <1>1, <1>d, <2>1
  <2> QED BY <2>2
<1>5. \A t \in T : \E i \in 1..k : f[i] = t
  BY <1>d DEF ShortInv, Since
<1>6. f \in Bijection(1..k, T)
  <2> HIDE DEF f, T
  <2> QED BY <1>3, <1>4, <1>5, Fun_IsBij
<1>7. ExistsBijection(1..k, T)
  <2> HIDE DEF f, T
  <2> QED BY <1>6, Fun_ExistsBij
<1>8. IsFiniteSet(1..k) /\ Cardinality(1..k) = k
  BY FS_Interval
<1> QED BY <1>7, <1>8, FS_Bijection

\* A sequence that starts with the pulse at ts: its pulses and the false ones
\* are all those since its first.
LEMMA NewSequenceIs ==
  ASSUME NEW rs, IsSpec(rs), NEW d, NEW now \in Nat, QueueInv(rs, d, now), ShortInv(d),
         NEW ts \in Nat, ts \notin d.seen, NEW i \in 1..Len(d.pulses),
         ts - d.pulses[i] \in rs.pri_min..rs.pri_max
  PROVE  SeqInv(NewSequence(rs, d.pulses, ts, i), d.seen \union {ts}, ts)
<1> DEFINE q == d.pulses
           n == Len(q)
           pri == ts - q[i]
           dur == pri * (rs.ppb - 1) + 2 * rs.tol
           match == {j \in i + 1..n : /\ q[j] + dur >= ts
                                      /\ pde_get_multiple(ts - q[j], pri, rs.tol) > 0}
           oldest == Largest(match \union {i})
           missed == (i + 1..oldest) \ match
           m == Cardinality(match)
           f == i - 1 + Cardinality(missed)
           thresh == ppb_thresh(rs, pri)
<1>d. /\ n \in Nat /\ DOMAIN q = 1..n
      /\ \A k \in 1..n : q[k] \in Nat /\ q[k] \in d.seen
      /\ d.seen \in SUBSET Nat /\ IsFiniteSet(d.seen) /\ Ordered(q)
  BY QueueFacts
<1>0. NewSequence(rs, q, ts, i) = ShortSeq(pri, 2 + m, q[oldest], ts, f, q[oldest] + dur, thresh)
  BY DEF NewSequence, ShortSeq
<1>1. match \in SUBSET (i + 1..n) /\ i \in 1..n /\ i \in Nat
  BY <1>d
<1>2. \A j \in match : q[j] + dur >= ts
  OBVIOUS
<1>3. dur \in Nat /\ q[i] + dur >= ts
  <2>1. pri \in Nat /\ pri >= 1
    <3>1. rs.pri_min \in Nat \ {0} /\ rs.pri_max \in Nat
      BY DEF IsSpec
    <3>2. pri \in rs.pri_min..rs.pri_max
      OBVIOUS
    <3> HIDE DEF pri
    <3> QED BY <3>1, <3>2
  <2>2. rs.ppb - 1 \in Nat /\ rs.ppb - 1 >= 1 /\ rs.tol \in Nat
    BY DEF IsSpec
  <2>3. q[i] + pri = ts /\ q[i] \in Nat
    BY <1>d
  <2> DEFINE k == rs.ppb - 1
             x == pri * k
  <2> HIDE DEF pri, k
  <2>4. x \in Nat /\ x >= pri
    <3>1. k \in Nat /\ k >= 1
      BY <2>2 DEF k
    <3>2. 1 * pri <= k * pri
      BY <2>1, <3>1, Multiples
    <3>3. k * pri = pri * k /\ pri * k \in Nat
      BY <2>1, <3>1
    <3> QED BY <2>1, <3>2, <3>3
  <2>5. dur = x + 2 * rs.tol
    BY DEF k
  <2> DEFINE a == q[i]
             t == rs.tol
  <2>6. a \in Nat /\ t \in Nat /\ a + pri = ts /\ dur = x + 2 * t
    BY <2>2, <2>3, <2>5
  <2> HIDE DEF x, a, t, dur
  <2>7. dur \in Nat /\ a + dur >= ts
    BY <2>1, <2>4, <2>6
  <2> QED BY <2>7 DEF a
<1> HIDE DEF match, dur, pri, thresh
<1>4. oldest \in match \union {i} /\ \A j \in match \union {i} : j <= oldest
  <2>1. match \union {i} \in SUBSET (0..n)
    BY <1>1, <1>d
  <2> QED BY <1>d, <2>1, LargestIs
<1> HIDE DEF oldest
<1>5. oldest \in i..n /\ oldest \in Nat /\ q[oldest] \in Nat /\ q[oldest] + dur >= ts
  BY <1>1, <1>2, <1>3, <1>4, <1>d
<1>6. match \in SUBSET (i + 1..oldest)
  BY <1>1, <1>4, <1>5
<1>7. /\ IsFiniteSet(i + 1..oldest) /\ Cardinality(i + 1..oldest) = oldest - i
  <2> DEFINE a == i + 1
  <2>1. a \in Int /\ oldest \in Int /\ a = i + 1 /\ i <= oldest
    BY <1>1, <1>5
  <2> HIDE DEF a
  <2>2. /\ IsFiniteSet(a..oldest) /\ Cardinality(a..oldest) = IF a > oldest THEN 0 ELSE oldest - a + 1
    BY <2>1, FS_Interval
  <2>3. (IF a > oldest THEN 0 ELSE oldest - a + 1) = oldest - i
    BY <1>1, <1>5, <2>1
  <2> QED BY <2>2, <2>3 DEF a
<1>8. m \in Nat /\ IsFiniteSet(missed) /\ Cardinality(missed) = oldest - i - m
  <2>1. IsFiniteSet(match)
    BY <1>6, <1>7, FS_Subset
  <2>2. m \in Nat
    BY <2>1, FS_CardinalityType
  <2>3. (i + 1..oldest) \cap match = match
    BY <1>6
  <2>4. IsFiniteSet(missed) /\ Cardinality(missed) = Cardinality(i + 1..oldest) - m
    <3> DEFINE U == i + 1..oldest
    <3>1. IsFiniteSet(U) /\ U \cap match = match
      BY <1>7, <2>3
    <3> HIDE DEF U
    <3>2. IsFiniteSet(U \ match) /\ Cardinality(U \ match) = Cardinality(U) - Cardinality(U \cap match)
      BY <3>1, FS_Difference
    <3>3. IsFiniteSet(U \ match) /\ Cardinality(U \ match) = Cardinality(U) - Cardinality(match)
      BY <3>1, <3>2
    <3> QED BY <3>3 DEF U
  <2> QED BY <1>7, <2>2, <2>4
<1>9. f \in Nat /\ (2 + m) + f = oldest + 1
  <2>1. Cardinality(missed) \in Nat
    BY <1>8, FS_CardinalityType
  <2> DEFINE c == Cardinality(missed)
  <2>2. c \in Nat /\ c = oldest - i - m /\ m \in Nat
    BY <1>8, <2>1
  <2> HIDE DEF c, m
  <2> QED BY <1>1, <1>5, <2>2 DEF c
<1>10. Cardinality(Since(d.seen, q[oldest])) = oldest
  <2>1. oldest \in 1..n
    BY <1>1, <1>5
  <2> QED BY <2>1, QueueCount
<1>11. q[oldest] <= ts
  <2>1. oldest \in 1..n /\ q[oldest] \in d.seen
    BY <1>1, <1>5, <1>d
  <2>2. CASE oldest = i
    <3>1. pri \in Nat
      BY <1>d DEF IsSpec, pri
    <3> QED BY <2>2, <3>1, <1>d DEF pri
  <2>3. CASE oldest # i
    <3>1. oldest \in DOMAIN q /\ i \in 1..oldest - 1
      BY <1>1, <1>5, <1>d, <2>3
    <3>2. q[i] > q[oldest]
      BY <1>d, <3>1 DEF Ordered
    <3>3. pri \in Nat
      BY <1>d DEF IsSpec, pri
    <3> QED BY <1>d, <1>5, <3>2, <3>3 DEF pri
  <2> QED BY <2>2, <2>3
<1>12. Cardinality(Since(d.seen \union {ts}, q[oldest])) = oldest + 1
  <2> DEFINE a == q[oldest]
  <2>1. a \in Nat /\ a <= ts /\ Cardinality(Since(d.seen, a)) = oldest
    BY <1>5, <1>10, <1>11
  <2> HIDE DEF a
  <2>2. Cardinality(Since(d.seen \union {ts}, a)) = Cardinality(Since(d.seen, a)) + 1
    BY <1>d, <2>1, OneMore
  <2> QED BY <2>1, <2>2 DEF a
<1> DEFINE C == 2 + m
           F == q[oldest]
           D == q[oldest] + dur
<1>13. /\ C \in Nat /\ f \in Nat /\ F \in Nat /\ D \in Nat /\ F <= ts /\ ts <= D
       /\ C + f = Cardinality(Since(d.seen \union {ts}, F))
       /\ NewSequence(rs, q, ts, i) = ShortSeq(pri, C, F, ts, f, D, thresh)
  <2>1. F \in Nat /\ D \in Nat /\ F <= ts /\ ts <= D
    BY <1>3, <1>5, <1>11
  <2>2. C \in Nat /\ f \in Nat
    BY <1>8, <1>9
  <2>3. C + f = Cardinality(Since(d.seen \union {ts}, F))
    BY <1>9, <1>12
  <2> QED BY <1>0, <2>1, <2>2, <2>3, Zenon
<1> HIDE DEF C, F, D, f
<1> QED BY <1>13, Zenon DEF SeqInv

\* A pulse in front of the queue leaves it complete.
LEMMA QueueComplete ==
  ASSUME NEW rs, NEW d, NEW now \in Nat, QueueInv(rs, d, now), ShortInv(d),
         NEW ts \in Nat, now <= ts, NEW S, NEW e, Queued(rs, d, d.pulses, S, ts, e)
  PROVE  \A i \in DOMAIN e.pulses : \A t \in e.seen : t >= e.pulses[i] => \E j \in 1..i : e.pulses[j] = t
<1>d. /\ Len(d.pulses) \in Nat /\ DOMAIN d.pulses = 1..Len(d.pulses) /\ d.seen \in SUBSET Nat
  BY QueueFacts
<1>e. /\ QueueInv(rs, e, ts) /\ e.seen = d.seen \union {ts} /\ Len(e.pulses) \in 1..Len(d.pulses) + 1
      /\ e.pulses[1] = ts /\ \A i \in 2..Len(e.pulses) : e.pulses[i] = d.pulses[i - 1]
  BY DEF Queued
<1>f. DOMAIN e.pulses = 1..Len(e.pulses) /\ Len(e.pulses) \in Nat
  BY <1>e, QueueFacts
<1> SUFFICES ASSUME NEW i \in 1..Len(e.pulses), NEW t \in e.seen, t >= e.pulses[i]
             PROVE  \E j \in 1..i : e.pulses[j] = t
  BY <1>f
<1>1. CASE t = ts
  <2>1. 1 \in 1..i
    BY <1>f
  <2> QED BY <1>1, <1>e, <2>1
<1>2. CASE t # ts
  <2>1. t \in d.seen /\ t \in Nat /\ t <= now
    BY <1>2, <1>d, <1>e DEF QueueInv
  <2>2. i # 1
    BY <1>2, <1>e, <2>1
  <2>3. i \in 2..Len(e.pulses) /\ i - 1 \in DOMAIN d.pulses
    BY <1>d, <1>e, <1>f, <2>2
  <2>4. t >= d.pulses[i - 1]
    BY <1>e, <2>3
  <2>5. PICK j \in 1..i - 1 : d.pulses[j] = t
    BY <2>1, <2>3, <2>4 DEF ShortInv
  <2>6. j + 1 \in 1..i /\ j + 1 \in 2..Len(e.pulses) /\ (j + 1) - 1 = j
    BY <1>f, <2>3
  <2>7. e.pulses[j + 1] = t
    BY <1>e, <2>5, <2>6
  <2> QED BY <2>6, <2>7
<1> QED BY <1>1, <1>2

\* A pulse that is not too close to the last one.
Apt(rs, d, ts) == d.pulses # <<>> /\ ~(ts - Head(d.pulses) < rs.tol)

\* It is a new one.
LEMMA AptIs ==
  ASSUME NEW rs, IsSpec(rs), NEW d, NEW now \in Nat, QueueInv(rs, d, now), ShortInv(d),
         NEW ts \in Nat, now <= ts, Apt(rs, d, ts)
  PROVE  /\ 1 \in 1..Len(d.pulses) /\ d.pulses[1] \in Nat /\ d.pulses[1] < ts
         /\ \A i \in 1..Len(d.pulses) : d.pulses[i] < ts
         /\ ts \notin d.seen /\ \A t \in d.seen : t < ts
<1> DEFINE q == d.pulses
<1>d. /\ q \in Seq(Nat) /\ Len(q) \in Nat /\ DOMAIN q = 1..Len(q)
      /\ \A i \in 1..Len(q) : q[i] \in Nat /\ q[i] <= now /\ q[i] \in d.seen
      /\ d.seen \in SUBSET Nat /\ Ordered(q)
  BY QueueFacts
<1>2. 1 \in 1..Len(q) /\ q[1] \in Nat /\ q[1] < ts
  <2>1. Len(q) >= 1
    BY <1>d DEF Apt
  <2>2. Head(q) = q[1] /\ q[1] \in Nat
    BY <1>d, <2>1 DEF Apt
  <2>3. rs.tol \in Nat \ {0}
    BY DEF IsSpec
  <2> QED BY <1>d, <2>1, <2>2, <2>3 DEF Apt
<1>3. \A i \in 1..Len(q) : q[i] < ts
  <2> SUFFICES ASSUME NEW i \in 1..Len(q), i # 1 PROVE q[i] < ts
    BY <1>2
  <2>1. i \in DOMAIN q /\ 1 \in 1..i - 1 /\ q[i] \in Nat
    BY <1>d
  <2>2. q[1] > q[i]
    BY <1>d, <2>1 DEF Ordered
  <2> QED BY <1>2, <2>1, <2>2
<1>4. ts \notin d.seen
  <2> SUFFICES ASSUME ts \in d.seen PROVE FALSE
    OBVIOUS
  <2>1. ts >= q[1] /\ 1 \in DOMAIN q
    BY <1>d, <1>2
  <2>2. PICK j \in 1..1 : q[j] = ts
    BY <2>1 DEF ShortInv
  <2> QED BY <1>2, <2>2
<1>5. \A t \in d.seen : t < ts
  <2> SUFFICES ASSUME NEW t \in d.seen PROVE t < ts
    OBVIOUS
  <2>1. t \in Nat /\ t <= now /\ t # ts
    BY <1>4, <1>d DEF QueueInv
  <2> QED BY <2>1
<1> QED BY <1>2, <1>3, <1>4, <1>5

\* The sequences after it: the old ones, the count a new one has to exceed, and
\* the new ones.
Olds(rs, d, ts) == pde_short_add_to_existing_seqs(rs, d.sequences, ts)
Longest(rs, d, ts) ==
  Largest({0} \union {ps.count : ps \in {s \in Olds(rs, d, ts) : s.last_ts = ts}})
News(rs, d, ts) == pde_short_create_sequences(rs, d.pulses, ts, Longest(rs, d, ts))
After(rs, d, ts) == Olds(rs, d, ts) \union News(rs, d, ts)

\* What becomes of a detector that takes the pulse.
LEMMA Takes ==
  ASSUME NEW rs, IsSpec(rs), NEW d, NEW now \in Nat, QueueInv(rs, d, now), ShortInv(d),
         NEW ts \in Nat, now <= ts, Apt(rs, d, ts)
  PROVE  LET r == pde_short_add_pulse(rs, d, ts)
         IN  /\ r.found = pde_short_check_detection(rs, After(rs, d, ts))
             /\ Queued(rs, d, d.pulses, After(rs, d, ts), ts, r.d)
<1> DEFINE r == pde_short_add_pulse(rs, d, ts)
           S == After(rs, d, ts)
<1>d. d.pulses \in Seq(Nat) /\ IsDetector(d) /\ Len(d.pulses) \in Nat
  BY QueueFacts DEF QueueInv
<1>1. \A i \in 1..Len(d.pulses) : d.pulses[i] < ts
  BY AptIs
<1>2. /\ r.found = pde_short_check_detection(rs, S)
      /\ r.d = pulse_queue_enqueue(rs, Sequenced(d, S), ts)
  BY DEF Apt, pde_short_add_pulse, Sequenced, After, Olds, News, Longest
<1> HIDE DEF r, S
<1>3. Sequenced(d, S) = With(d, d.pulses, S)
  BY <1>d, Withs, Zenon
<1>4. Before(d, d.pulses, ts)
  BY <1>d, <1>1 DEF Before
<1>5. Queued(rs, d, d.pulses, S, ts, pulse_queue_enqueue(rs, With(d, d.pulses, S), ts))
  BY <1>4, QueueStep
<1>6. Queued(rs, d, d.pulses, S, ts, r.d)
  BY <1>2, <1>3, <1>5
<1> QED BY <1>2, <1>6 DEF r, S

\* An old sequence went on, and a new one started, in time.
LEMMA AfterIs ==
  ASSUME NEW rs, NEW d, NEW ts
  PROVE  /\ \A x \in Olds(rs, d, ts) : \E ps \in d.sequences :
              /\ ts <= ps.deadline_ts
              /\ x = IF Joins(rs, ps, ts) THEN Joined(ps, ts) ELSE Missed(ps)
         /\ \A x \in News(rs, d, ts) : \E i \in DOMAIN d.pulses :
              ts - d.pulses[i] \in rs.pri_min..rs.pri_max /\ x = NewSequence(rs, d.pulses, ts, i)
BY DEF Olds, News, pde_short_add_to_existing_seqs, pde_short_create_sequences, Joined, Missed

\* All of them count the pulses since their first.
LEMMA AfterInv ==
  ASSUME NEW rs, IsSpec(rs), NEW d, NEW now \in Nat, QueueInv(rs, d, now), ShortInv(d),
         NEW ts \in Nat, now <= ts, Apt(rs, d, ts)
  PROVE  \A x \in After(rs, d, ts) : SeqInv(x, d.seen \union {ts}, ts)
<1> DEFINE q == d.pulses
           seen == d.seen \union {ts}
<1>d. DOMAIN q = 1..Len(q) /\ d.seen \in SUBSET Nat /\ IsFiniteSet(d.seen)
  BY QueueFacts
<1>1. q[1] \in Nat /\ q[1] < ts /\ ts \notin d.seen
  BY AptIs
<1>2. ASSUME NEW x \in Olds(rs, d, ts) PROVE SeqInv(x, seen, ts)
  <2>1. PICK ps \in d.sequences :
          ts <= ps.deadline_ts /\ x = IF Joins(rs, ps, ts) THEN Joined(ps, ts) ELSE Missed(ps)
    BY AfterIs
  <2>2. SeqInv(ps, d.seen, q[1])
    BY DEF ShortInv
  <2>3. q[1] <= ts
    BY <1>1
  <2>4. SeqInv(Joined(ps, ts), seen, ts) /\ SeqInv(Missed(ps), seen, ts)
    BY <1>d, <1>1, <2>1, <2>2, <2>3, OldSequence
  <2> QED BY <2>1, <2>4
<1>3. ASSUME NEW x \in News(rs, d, ts) PROVE SeqInv(x, seen, ts)
  <2>1. PICK i \in DOMAIN q : ts - q[i] \in rs.pri_min..rs.pri_max /\ x = NewSequence(rs, q, ts, i)
    BY AfterIs
  <2>2. i \in 1..Len(d.pulses)
    BY <1>d
  <2> QED BY <1>1, <2>1, <2>2, NewSequenceIs
<1> QED BY <1>2, <1>3 DEF After

\* A pulse keeps what holds of a short detector.
LEMMA ShortStep ==
  ASSUME NEW rs, IsSpec(rs), NEW d, NEW now \in Nat, QueueInv(rs, d, now),
         ShortInv(d), NEW ts \in Nat, now <= ts
  PROVE  LET e == pde_short_add_pulse(rs, d, ts).d
         IN  QueueInv(rs, e, ts) /\ ShortInv(e)
<1> DEFINE e == pde_short_add_pulse(rs, d, ts).d
<1>d. /\ d.pulses \in Seq(Nat) /\ Len(d.pulses) \in Nat /\ DOMAIN d.pulses = 1..Len(d.pulses)
      /\ \A i \in 1..Len(d.pulses) : d.pulses[i] \in Nat /\ d.pulses[i] <= now /\ d.pulses[i] \in d.seen
      /\ d.seen \in SUBSET Nat /\ IsFiniteSet(d.seen)
      /\ Ordered(d.pulses)
  BY QueueFacts
<1>i. IsDetector(d)
  BY DEF QueueInv
<1>1. CASE d.pulses = <<>>
  <2>1. d.sequences = {}
    BY <1>1 DEF QueueInv
  <2>2. e = pulse_queue_enqueue(rs, d, ts)
    BY <1>1 DEF pde_short_add_pulse
  <2>3. d = With(d, d.pulses, d.sequences)
    BY <1>i DEF IsDetector, With, Detector
  <2>4. Before(d, d.pulses, ts)
    BY <1>1, <1>d DEF Before
  <2> HIDE DEF e
  <2>5. e = pulse_queue_enqueue(rs, With(d, d.pulses, d.sequences), ts)
    BY <2>2, <2>3, Zenon
  <2>6. Queued(rs, d, d.pulses, d.sequences, ts, e)
    BY <2>4, <2>5, QueueStep
  <2>7. QueueInv(rs, e, ts) /\ e.sequences = {}
    BY <2>1, <2>6 DEF Queued
  <2>8. ShortInv(e)
    <3>1. \A i \in DOMAIN e.pulses : \A t \in e.seen : t >= e.pulses[i] => \E j \in 1..i : e.pulses[j] = t
      BY <2>6, QueueComplete
    <3> QED BY <2>7, <3>1, Zenon DEF ShortInv
  <2> QED BY <2>7, <2>8 DEF e
<1>2. CASE d.pulses # <<>> /\ ts - Head(d.pulses) < rs.tol
  <2>1. e = d
    BY <1>2 DEF pde_short_add_pulse
  <2>2. QueueInv(rs, d, ts)
    <3>1. \A t \in d.seen : t <= ts
      BY <1>d DEF QueueInv
    <3> QED BY <3>1 DEF QueueInv
  <2> QED BY <2>1, <2>2
<1>3. CASE Apt(rs, d, ts)
  <2> DEFINE S == After(rs, d, ts)
  <2>1. Queued(rs, d, d.pulses, S, ts, e)
    BY <1>3, Takes
  <2>2. \A ps \in S : SeqInv(ps, d.seen \union {ts}, ts)
    BY <1>3, AfterInv
  <2> HIDE DEF S, e
  <2>3. QueueInv(rs, e, ts) /\ e.sequences = S /\ e.pulses[1] = ts /\ e.seen = d.seen \union {ts}
    BY <2>1 DEF Queued
  <2>4. ShortInv(e)
    <3>1. \A i \in DOMAIN e.pulses : \A t \in e.seen : t >= e.pulses[i] => \E j \in 1..i : e.pulses[j] = t
      BY <2>1, QueueComplete
    <3> QED BY <2>2, <2>3, <3>1 DEF ShortInv
  <2> QED BY <2>3, <2>4 DEF e
<1> QED BY <1>1, <1>2, <1>3 DEF Apt

-----------------------------------------------------------------------------
(* All the detectors.                                                       *)

\* What holds of a detector of a radar type that has seen the pulses until now.
DetInv(rs, d, now) ==
  /\ QueueInv(rs, d, now)
  /\ rs.type = "long" => LongInv(d)
  /\ rs.type # "long" => ShortInv(d)

\* Of all the detectors of a type.
Apart(row) == \A f, g \in Freq : row[f].pulses # <<>> /\ row[g].pulses # <<>> => Diff(f, g) # 2
Row(rs, row, now) == DOMAIN row = Freq /\ (\A f \in Freq : DetInv(rs, row[f], now)) /\ Apart(row)

Rows(r, D, now) == DOMAIN D = Types(r) /\ \A i \in Types(r) : Row(Specs[r][i], D[i], now)

\* The inductive invariant.
IInv ==
  /\ region \in Region \union {Unset} /\ last_pulse_ts \in Nat /\ pulses \in 0..MaxPulses
  /\ detected.by \in {"nothing", "failsafe", "pattern"}
  /\ Rows(region, detectors, last_pulse_ts)

\* Nothing of a detector changes as time passes.
LEMMA DetLater ==
  ASSUME NEW rs, NEW d, NEW now \in Nat, NEW ts \in Nat, now <= ts, DetInv(rs, d, now)
  PROVE  DetInv(rs, d, ts)
<1>1. d.seen \in SUBSET Nat
  BY DEF DetInv, QueueInv, IsDetector
<1>2. \A t \in d.seen : t <= ts
  BY <1>1 DEF DetInv, QueueInv
<1> QED BY <1>2 DEF DetInv, QueueInv

\* A reset detector.
LEMMA EmptyIs ==
  ASSUME NEW rs, IsSpec(rs), NEW now \in Nat
  PROVE  DetInv(rs, Empty, now) /\ Empty.pulses = <<>>
<1>1. /\ Empty.pulses = <<>> /\ Empty.sequences = {} /\ Empty.seen = {} /\ Empty.dropped = 0
      /\ Empty = [pulses |-> <<>>, sequences |-> {}, seen |-> {}, dropped |-> 0]
  BY DEF Empty
<1>2. IsDetector(Empty)
  BY <1>1, FS_EmptySet DEF IsDetector
<1>3. DOMAIN Empty.pulses = {} /\ Len(Empty.pulses) = 0
  BY <1>1
<1>4. QueueOf(rs, Empty)
  BY <1>3 DEF QueueOf, IsSpec
<1>5. QueueInv(rs, Empty, now)
  BY <1>1, <1>2, <1>3, <1>4 DEF QueueInv
<1>6. LongInv(Empty) /\ ShortInv(Empty)
  BY <1>1, <1>3 DEF LongInv, ShortInv
<1> QED BY <1>1, <1>5, <1>6 DEF DetInv

\* The detectors of a type after a reset.
LEMMA EmptyRow ==
  ASSUME NEW rs, IsSpec(rs), NEW now \in Nat
  PROVE  Row(rs, [f \in Freq |-> Empty], now)
  BY EmptyIs DEF Row, Apart

\* A pulse keeps what holds of a detector of any type.
LEMMA DetStep ==
  ASSUME NEW rs, IsSpec(rs), NEW d, NEW now \in Nat, DetInv(rs, d, now), NEW ts \in Nat, now <= ts
  PROVE  DetInv(rs, add_pulse(rs, d, ts).d, ts)
<1>1. CASE rs.type = "long"
  <2>1. add_pulse(rs, d, ts).d = pde_long_add_pulse(rs, d, ts).d
    BY <1>1 DEF add_pulse
  <2>2. QueueInv(rs, d, now) /\ LongInv(d)
    BY <1>1 DEF DetInv
  <2> DEFINE e == pde_long_add_pulse(rs, d, ts).d
  <2>3. e = pde_long_add_pulse(rs, d, ts).d
    OBVIOUS
  <2> HIDE DEF e
  <2>4. QueueInv(rs, e, ts) /\ LongInv(e)
    BY <1>1, <2>2, <2>3, LongStep
  <2> QED BY <1>1, <2>1, <2>4 DEF DetInv, e
<1>2. CASE rs.type # "long"
  <2>1. add_pulse(rs, d, ts).d = pde_short_add_pulse(rs, d, ts).d
    BY <1>2 DEF add_pulse
  <2>2. QueueInv(rs, d, now) /\ ShortInv(d)
    BY <1>2 DEF DetInv
  <2> DEFINE e == pde_short_add_pulse(rs, d, ts).d
  <2>3. QueueInv(rs, e, ts) /\ ShortInv(e)
    BY <2>2, ShortStep
  <2> HIDE DEF e
  <2> QED BY <1>2, <2>1, <2>3 DEF DetInv, e
<1> QED BY <1>1, <1>2

\* The detectors of a type the pulse is not for.
LEMMA RowLater ==
  ASSUME NEW rs, NEW row, NEW now \in Nat, NEW ts \in Nat, now <= ts, Row(rs, row, now)
  PROVE  Row(rs, row, ts)
  BY DetLater DEF Row

\* The pulse goes to a detector at work, or to one that is apart from them.
LEMMA RowStep ==
  ASSUME NEW rs, IsSpec(rs), NEW row, NEW now \in Nat, Row(rs, row, now), NEW ts \in Nat, now <= ts,
         NEW f \in Freq, NEW g \in Freq, g \in pri_detector_get(row, f), NEW d, DetInv(rs, d, ts)
  PROVE  Row(rs, [row EXCEPT ![g] = d], ts)
<1> DEFINE new == [row EXCEPT ![g] = d]
<1>1. DOMAIN new = Freq /\ new[g] = d /\ \A h \in Freq : h # g => new[h] = row[h]
  BY DEF Row
<1>2. \A h \in Freq : DetInv(rs, new[h], ts)
  BY <1>1, DetLater DEF Row
<1> HIDE DEF new
<1>3. \A h \in Freq : h # g /\ row[h].pulses # <<>> => Diff(g, h) # 2
  <2> DEFINE near == {h \in Freq : Diff(f, h) \in {0, 2} /\ row[h].pulses # <<>>}
  <2>1. CASE near = {}
    <3>1. g = f
      BY <2>1 DEF pri_detector_get
    <3> QED BY <2>1, <3>1
  <2>2. CASE near # {}
    <3>1. row[g].pulses # <<>>
      BY <2>2 DEF pri_detector_get
    <3> QED BY <3>1 DEF Row, Apart
  <2> QED BY <2>1, <2>2
<1>4. \A a, b \in Freq : Diff(a, b) = Diff(b, a) /\ Diff(a, a) # 2
  BY RadarAssumption DEF Diff
<1>5. Apart(new)
  <2> SUFFICES ASSUME NEW a \in Freq, NEW b \in Freq, new[a].pulses # <<>>, new[b].pulses # <<>>
               PROVE  Diff(a, b) # 2
    BY DEF Apart
  <2>1. CASE a # g /\ b # g
    BY <1>1, <2>1 DEF Row, Apart
  <2>2. CASE a = g /\ b # g
    BY <1>1, <1>3, <2>2
  <2>3. CASE a # g /\ b = g
    BY <1>1, <1>3, <1>4, <2>3
  <2>4. CASE a = g /\ b = g
    BY <1>4, <2>4
  <2> QED BY <2>1, <2>2, <2>3, <2>4
<1> QED BY <1>1, <1>2, <1>5 DEF Row, new

\* The specification of a detector in any region, Unset too, which has none.
LEMMA SpecAt ==
  ASSUME NEW r \in Region \union {Unset}, NEW i \in Types(r)
  PROVE  IsSpec(Specs[r][i])
<1>1. r \in Region
  BY DEF Types
<1> QED BY <1>1, SpecsAre

\* The detectors after a reset.
LEMMA AllEmptyRows ==
  ASSUME NEW r \in Region \union {Unset}, NEW now \in Nat
  PROVE  Rows(r, AllEmpty(r), now)
<1>1. \A i \in Types(r) : Row(Specs[r][i], [f \in Freq |-> Empty], now)
  BY SpecAt, EmptyRow
<1> QED BY <1>1 DEF Rows, AllEmpty

\* The first state.
LEMMA InitInv == Init => IInv
<1> SUFFICES ASSUME Init PROVE IInv
  OBVIOUS
<1>1. Unset \in Region \union {Unset} /\ 0 \in Nat /\ MaxPulses \in Nat
  BY RadarAssumption
<1>2. Rows(Unset, AllEmpty(Unset), 0)
  BY <1>1, AllEmptyRows
<1>3. detected.by = "nothing"
  BY DEF Init, NoRadar
<1> QED BY <1>1, <1>2, <1>3 DEF Init, IInv

\* The detectors after a pulse.
LEMMA PulseInv ==
  ASSUME IInv, NEW f \in Freq, NEW pri \in Pri, NEW len \in Width,
         dfs_pattern_detector_add_pulse(f, pri, len)
  PROVE  /\ region' = region /\ last_pulse_ts' \in Nat
         /\ detected'.by \in {"nothing", "failsafe", "pattern"}
         /\ Rows(region, detectors', last_pulse_ts')
<1>0. region \in Region \union {Unset} /\ last_pulse_ts \in Nat /\ Rows(region, detectors, last_pulse_ts)
  BY DEF IInv
<1> DEFINE Q == IF pri = 0 THEN dfs_pattern_detector_pri_overflow(detectors) ELSE detectors
           fits == {i \in Types(region) : len \in Specs[region][i].width_min..Specs[region][i].width_max}
<1>1. PICK delta \in IF pri = 0 THEN Overflow ELSE {pri} :
  LET ts == last_pulse_ts + delta
  IN  /\ region # Unset
      /\ \E g \in [fits -> Freq] :
           /\ \A i \in fits : g[i] \in pri_detector_get(Q[i], f)
           /\ LET r == [i \in fits |-> add_pulse(Specs[region][i], Q[i][g[i]], ts)]
                  found == {i \in fits : r[i].found}
              IN  IF found = {}
                  THEN /\ detectors' = [i \in DOMAIN Q |->
                            IF i \in fits THEN [Q[i] EXCEPT ![g[i]] = r[i].d] ELSE Q[i]]
                       /\ last_pulse_ts' = ts /\ detected' = NoRadar
                  ELSE /\ detectors' = AllEmpty(region) /\ last_pulse_ts' = 0
                       /\ LET i == CHOOSE i \in found : \A j \in found : i <= j
                          IN  detected' = [by |-> "pattern", rs |-> Specs[region][i], seen |-> r[i].d.seen]
      /\ UNCHANGED region
  BY DEF dfs_pattern_detector_add_pulse
<1> DEFINE ts == last_pulse_ts + delta
<1>2. ts \in Nat /\ last_pulse_ts <= ts
  <2>1. delta \in Nat
    BY RadarAssumption
  <2> QED BY <1>0, <2>1
<1>3. Rows(region, Q, last_pulse_ts)
  <2>1. CASE pri = 0
    <3>1. DOMAIN Q = Types(region)
      BY <1>0, <2>1 DEF dfs_pattern_detector_pri_overflow, Rows
    <3> SUFFICES ASSUME NEW i \in Types(region) PROVE Row(Specs[region][i], Q[i], last_pulse_ts)
      BY <3>1 DEF Rows
    <3>2. Q[i] = IF Specs[region][i].type = "long" THEN detectors[i] ELSE [h \in Freq |-> Empty]
      BY <1>0, <2>1, <3>1 DEF dfs_pattern_detector_pri_overflow, Rows
    <3>3. Row(Specs[region][i], [h \in Freq |-> Empty], last_pulse_ts)
      BY <1>0, SpecAt, EmptyRow
    <3>4. Row(Specs[region][i], detectors[i], last_pulse_ts)
      BY <1>0 DEF Rows
    <3> QED BY <3>2, <3>3, <3>4
  <2>2. CASE pri # 0
    BY <1>0, <2>2
  <2> QED BY <2>1, <2>2
<1> HIDE DEF ts, Q
<1>4. PICK g \in [fits -> Freq] :
           /\ \A i \in fits : g[i] \in pri_detector_get(Q[i], f)
           /\ LET r == [i \in fits |-> add_pulse(Specs[region][i], Q[i][g[i]], ts)]
                  found == {i \in fits : r[i].found}
              IN  IF found = {}
                  THEN /\ detectors' = [i \in DOMAIN Q |->
                            IF i \in fits THEN [Q[i] EXCEPT ![g[i]] = r[i].d] ELSE Q[i]]
                       /\ last_pulse_ts' = ts /\ detected' = NoRadar
                  ELSE /\ detectors' = AllEmpty(region) /\ last_pulse_ts' = 0
                       /\ LET i == CHOOSE i \in found : \A j \in found : i <= j
                          IN  detected' = [by |-> "pattern", rs |-> Specs[region][i], seen |-> r[i].d.seen]
  BY <1>1 DEF ts
<1> DEFINE r == [i \in fits |-> add_pulse(Specs[region][i], Q[i][g[i]], ts)]
           found == {i \in fits : r[i].found}
<1>5. region' = region
  BY <1>1
<1>6. CASE found = {}
  <2>1. /\ detectors' = [i \in DOMAIN Q |-> IF i \in fits THEN [Q[i] EXCEPT ![g[i]] = r[i].d] ELSE Q[i]]
        /\ last_pulse_ts' = ts /\ detected' = NoRadar
    BY <1>4, <1>6
  <2>2. DOMAIN detectors' = Types(region)
    BY <1>3, <2>1 DEF Rows
  <2>3. ASSUME NEW i \in Types(region) PROVE Row(Specs[region][i], detectors'[i], ts)
    <3> DEFINE rs == Specs[region][i]
               row == Q[i]
    <3>1. IsSpec(rs) /\ Row(rs, row, last_pulse_ts)
      BY <1>0, <1>3, SpecAt DEF Rows
    <3>2. CASE i \in fits
      <4> DEFINE d == add_pulse(rs, row[g[i]], ts).d
                 h == g[i]
      <4>1. h \in Freq /\ h \in pri_detector_get(row, f)
        BY <1>4, <3>2
      <4>2. detectors'[i] = [row EXCEPT ![h] = d]
        BY <2>1, <2>2, <3>2
      <4> HIDE DEF rs, row, h
      <4>3. DetInv(rs, row[h], last_pulse_ts)
        BY <3>1, <4>1 DEF Row
      <4>4. DetInv(rs, d, ts)
        BY <1>0, <1>2, <3>1, <4>3, DetStep DEF h
      <4> HIDE DEF d
      <4>5. Row(rs, [row EXCEPT ![h] = d], ts)
        BY <1>0, <1>2, <3>1, <4>1, <4>4, RowStep
      <4> QED BY <4>2, <4>5 DEF rs
    <3>3. CASE i \notin fits
      <4>1. detectors'[i] = row
        BY <2>1, <2>2, <3>3
      <4> HIDE DEF rs, row
      <4>2. Row(rs, row, ts)
        BY <1>0, <1>2, <3>1, RowLater
      <4> QED BY <4>1, <4>2 DEF rs
    <3> QED BY <3>2, <3>3
  <2>4. Rows(region, detectors', last_pulse_ts')
    BY <2>1, <2>2, <2>3 DEF Rows
  <2> QED BY <1>2, <1>5, <2>1, <2>4 DEF NoRadar
<1>7. CASE found # {}
  <2>1. /\ detectors' = AllEmpty(region) /\ last_pulse_ts' = 0
        /\ LET i == CHOOSE i \in found : \A j \in found : i <= j
           IN  detected' = [by |-> "pattern", rs |-> Specs[region][i], seen |-> r[i].d.seen]
    BY <1>4, <1>7
  <2>2. detected'.by = "pattern"
    BY <2>1
  <2>3. Rows(region, AllEmpty(region), 0)
    BY <1>0, AllEmptyRows
  <2> QED BY <1>5, <2>1, <2>2, <2>3
<1> QED BY <1>6, <1>7

\* Every step.
LEMMA NextInv == IInv /\ [Next]_vars => IInv'
<1> SUFFICES ASSUME IInv, [Next]_vars PROVE IInv'
  OBVIOUS
<1>0. /\ region \in Region \union {Unset} /\ last_pulse_ts \in Nat /\ pulses \in 0..MaxPulses
      /\ detected.by \in {"nothing", "failsafe", "pattern"}
      /\ Rows(region, detectors, last_pulse_ts) /\ MaxPulses \in Nat
  BY RadarAssumption DEF IInv
<1>1. CASE UNCHANGED vars
  BY <1>0, <1>1 DEF IInv, vars, Rows, Row, Apart
<1>2. CASE Next
  <2>0. pulses' \in 0..MaxPulses
    BY <1>0, <1>2 DEF Next
  <2>1. ASSUME NEW f \in Freq, NEW pri \in Pri, NEW len \in Width,
               dfs_pattern_detector_add_pulse(f, pri, len)
        PROVE  IInv'
    <3>1. /\ region' = region /\ last_pulse_ts' \in Nat
          /\ detected'.by \in {"nothing", "failsafe", "pattern"}
          /\ Rows(region, detectors', last_pulse_ts')
      BY <2>1, PulseInv
    <3> QED BY <1>0, <2>0, <3>1 DEF IInv, Rows, Row, Apart
  <2>2. CASE UnsetIsRadar
    <3>1. detected'.by = "failsafe"
      BY <2>2 DEF UnsetIsRadar
    <3> QED BY <1>0, <2>0, <2>2, <3>1 DEF UnsetIsRadar, IInv, Rows, Row, Apart
  <2>3. ASSUME NEW r \in Region \union {Unset}, dfs_pattern_detector_set_domain(r) PROVE IInv'
    <3>1. /\ region' = r /\ detectors' = AllEmpty(r) /\ last_pulse_ts' = last_pulse_ts
          /\ detected' = detected
      BY <2>3 DEF dfs_pattern_detector_set_domain
    <3>2. Rows(r, AllEmpty(r), last_pulse_ts)
      BY <1>0, AllEmptyRows
    <3> QED BY <1>0, <2>0, <3>1, <3>2 DEF IInv, Rows, Row, Apart
  <2> QED BY <1>2, <2>1, <2>2, <2>3 DEF Next
<1> QED BY <1>1, <1>2

\* What the invariant is for.
LEMMA InvIs == IInv => DetectorsConsistent
<1> SUFFICES ASSUME IInv PROVE DetectorsConsistent
  OBVIOUS
<1>1. /\ DOMAIN detectors = Types(region)
      /\ \A i \in Types(region) : Row(Specs[region][i], detectors[i], last_pulse_ts)
  BY DEF IInv, Rows
<1>2. ASSUME NEW i \in Types(region), NEW f \in DOMAIN detectors[i]
      PROVE  DetInv(Specs[region][i], detectors[i][f], last_pulse_ts)
  BY <1>1 DEF Row
<1>3. ASSUME NEW rs, NEW d, DetInv(rs, d, last_pulse_ts)
      PROVE  /\ (d.pulses = <<>>) = (d.seen = {}) /\ QueueOf(rs, d)
             /\ CountOf(rs, d) /\ BurstOf(rs, d)
  <2>1. (d.pulses = <<>>) = (d.seen = {}) /\ QueueOf(rs, d)
    BY <1>3 DEF DetInv, QueueInv
  <2>2. CountOf(rs, d)
    <3> SUFFICES ASSUME rs.type # "long", NEW ps \in d.sequences
                 PROVE  /\ ps.count + ps.count_falses = Cardinality({t \in d.seen : t >= ps.first_ts})
                        /\ d.pulses[1] <= ps.deadline_ts
      BY DEF CountOf
    <3>1. SeqInv(ps, d.seen, d.pulses[1])
      BY <1>3 DEF DetInv, ShortInv
    <3>2. PICK pri, last, thresh : \E count, falses, first, deadline \in Nat :
        /\ ps = ShortSeq(pri, count, first, last, falses, deadline, thresh)
        /\ count + falses = Cardinality(Since(d.seen, first)) /\ first <= d.pulses[1] /\ d.pulses[1] <= deadline
      BY <3>1 DEF SeqInv
    <3>3. PICK count \in Nat, falses \in Nat, first \in Nat, deadline \in Nat :
        /\ ps = ShortSeq(pri, count, first, last, falses, deadline, thresh)
        /\ count + falses = Cardinality(Since(d.seen, first)) /\ first <= d.pulses[1] /\ d.pulses[1] <= deadline
      BY <3>2
    <3>4. ps.count = count /\ ps.count_falses = falses /\ ps.first_ts = first /\ ps.deadline_ts = deadline
      BY <3>3 DEF ShortSeq
    <3> QED BY <3>3, <3>4 DEF Since
  <2>3. BurstOf(rs, d)
    <3> SUFFICES ASSUME rs.type = "long", NEW ps \in d.sequences
                 PROVE  ps.count = Len(d.pulses) + d.dropped
      BY DEF BurstOf
    <3> QED BY <1>3 DEF DetInv, LongInv
  <2> QED BY <2>1, <2>2, <2>3
<1>4. TypeOK
  <2>1. ASSUME NEW i \in Types(region), NEW f \in DOMAIN detectors[i]
        PROVE  (detectors[i][f].pulses = <<>>) = (detectors[i][f].seen = {})
    BY <1>2, <1>3
  <2> QED BY <1>1, <2>1 DEF TypeOK, IInv
<1>5. QueueBounded /\ CountsExact /\ BurstsCounted
  BY <1>2, <1>3 DEF QueueBounded, CountsExact, BurstsCounted, Every
<1>6. Merged
  BY <1>1 DEF Row, Apart, Merged
<1> QED BY <1>4, <1>5, <1>6 DEF DetectorsConsistent

\* Every queue holds the pulses of its window, newest first, and fewer than
\* max_count (pulse_queue_enqueue); the matching and the false pulses of a
\* sequence are together the pulses since its first one, also when it starts in
\* the middle of the queue (pde_short_create_sequences); a long sequence counts
\* the bursts queued and dropped (pde_long_add_pulse); two detectors of a type at
\* work are more than 2 MHz apart (pri_detector_get).  For every table, window,
\* threshold and sequence of pulses.
THEOREM DetectorsTheorem == Spec => []DetectorsConsistent
BY InitInv, NextInv, InvIs, PTL DEF Spec

-----------------------------------------------------------------------------
(* The patterns of the short radars.                                        *)

\* A specification of a short radar.
IsShort(rs) ==
  /\ rs.type = "short" /\ rs.num_pri = 1 /\ rs.ppb_thresh \in 2..rs.ppb /\ 2 * rs.tol <= rs.pri_min
  /\ rs.pri_min \in Nat \ {0} /\ rs.pri_max \in Nat /\ rs.tol \in Nat \ {0} /\ rs.ppb \in Nat \ {0, 1}
  /\ window_size(rs) = rs.pri_max * rs.ppb /\ max_count(rs) = rs.ppb * 2

\* What the tables of the regions give.
LEMMA ShortsAre ==
  ASSUME NEW r \in Region, NEW i \in Types(r), Specs[r][i].type = "short"
  PROVE  IsShort(Specs[r][i])
<1> DEFINE rs == Specs[r][i]
<1>1. /\ rs.pri_min \in Nat \ {0} /\ rs.pri_max \in Nat \ {0} /\ rs.tol \in Nat \ {0} /\ rs.ppb \in Nat \ {0}
      /\ rs.ppb > 1 /\ rs.num_pri = 1 /\ rs.ppb_thresh \in 2..rs.ppb /\ 2 * rs.tol <= rs.pri_min
  BY RadarAssumption DEF Types
<1>2. rs.type = "short"
  OBVIOUS
<1> HIDE DEF rs
<1>3. (rs.pri_max * rs.ppb) * 1 = rs.pri_max * rs.ppb
  BY <1>1
<1>4. window_size(rs) = rs.pri_max * rs.ppb /\ max_count(rs) = rs.ppb * 2
  BY <1>1, <1>2, <1>3 DEF window_size, max_count
<1>5. IsShort(rs)
  BY <1>1, <1>2, <1>4 DEF IsShort
<1> QED BY <1>5 DEF rs

\* A distance is near a multiple of the PRI, up to n - 1 tolerances.
Near(tol, dist, pri, n) == \E k \in Nat : Diff(dist, k * pri) <= (n - 1) * tol

\* n of the pulses `seen`, from first to last, are near multiples of the PRI
\* before the last.
Linked(tol, seen, first, last, pri, n) ==
  \E M \in SUBSET seen :
    /\ Cardinality(M) >= n
    /\ \A t \in M : first <= t /\ t <= last /\ Near(tol, last - t, pri, n)

\* The factor is a number.
LEMMA MultipleIs ==
  ASSUME NEW val \in Nat, NEW fraction \in Nat, NEW tolerance \in Nat
  PROVE  pde_get_multiple(val, fraction, tolerance) \in Nat
<1>1. CASE fraction = 0
  BY <1>1 DEF pde_get_multiple
<1>2. CASE fraction > 0
  <2>1. val \div fraction \in Nat
    BY <1>2, Division
  <2> QED BY <1>2, <2>1 DEF pde_get_multiple
<1> QED BY <1>1, <1>2

\* One tolerance is enough for any two pulses.
LEMMA NearWithin ==
  ASSUME NEW tol \in Nat, NEW pri \in Nat, NEW dist \in Nat, NEW n \in Nat, n - 1 >= 1,
         NEW k \in Nat, Diff(dist, k * pri) <= tol
  PROVE  Near(tol, dist, pri, n)
<1>1. PICK m \in Nat : m = n - 1
  OBVIOUS
<1>2. 1 * tol <= m * tol /\ m * tol \in Nat
  BY <1>1, Multiples
<1>3. Diff(dist, k * pri) \in Nat
  <2>1. k * pri \in Nat
    OBVIOUS
  <2> QED BY <2>1 DEF Diff
<1>4. Diff(dist, k * pri) <= m * tol
  BY <1>2, <1>3
<1> QED BY <1>1, <1>4 DEF Near

\* Two distances add up, and so do their tolerances.
LEMMA NearLater ==
  ASSUME NEW tol \in Nat, NEW pri \in Nat, NEW n \in Nat \ {0},
         NEW t \in Nat, NEW last \in Nat, NEW ts \in Nat, t <= last, last <= ts,
         Near(tol, last - t, pri, n), pde_get_multiple(ts - last, pri, tol) > 0
  PROVE  Near(tol, ts - t, pri, n + 1)
<1>1. PICK k \in Nat : Diff(last - t, k * pri) <= (n - 1) * tol
  BY DEF Near
<1> DEFINE a == last - t
           b == ts - last
<1>2. a \in Nat /\ b \in Nat /\ ts - t = a + b
  OBVIOUS
<1>3. PICK f \in Nat : f = pde_get_multiple(b, pri, tol) /\ f > 0
  BY <1>2, MultipleIs
<1>4. Diff(b, f * pri) <= tol
  <2> HIDE DEF b
  <2>1. MultipleFits(b, pri, tol)
    BY <1>2, MultipleTheorem
  <2> QED BY <1>3, <2>1 DEF MultipleFits
<1> HIDE DEF a, b
<1>5. PICK x \in Nat, y \in Nat, z \in Nat : x = k * pri /\ y = f * pri /\ z = (n - 1) * tol
  OBVIOUS
<1>6. (k + f) * pri = x + y /\ ((n + 1) - 1) * tol = z + tol
  <2>1. (k + f) * pri = k * pri + f * pri
    OBVIOUS
  <2>2. ((n + 1) - 1) * tol = (n - 1) * tol + tol
    OBVIOUS
  <2> QED BY <1>5, <2>1, <2>2
<1>7. Diff(a, x) <= z /\ Diff(b, y) <= tol
  BY <1>1, <1>4, <1>5 DEF a
<1>8. Diff(a + b, x + y) <= z + tol
  BY <1>2, <1>5, <1>7 DEF Diff
<1>9. k + f \in Nat
  OBVIOUS
<1> QED BY <1>2, <1>6, <1>8, <1>9 DEF Near

\* The pulse at ts joins the pulses linked to the last one.
LEMMA LinkedLater ==
  ASSUME NEW tol \in Nat, NEW pri \in Nat, NEW n \in Nat \ {0},
         NEW seen \in SUBSET Nat, IsFiniteSet(seen), NEW ts \in Nat, ts \notin seen,
         NEW first \in Nat, NEW last \in seen, first <= ts, last <= ts,
         Linked(tol, seen, first, last, pri, n), pde_get_multiple(ts - last, pri, tol) > 0
  PROVE  Linked(tol, seen \union {ts}, first, ts, pri, n + 1)
<1>1. PICK M \in SUBSET seen :
    /\ Cardinality(M) >= n
    /\ \A t \in M : first <= t /\ t <= last /\ Near(tol, last - t, pri, n)
  BY DEF Linked
<1>2. IsFiniteSet(M) /\ ts \notin M
  BY FS_Subset
<1>3. Cardinality(M \union {ts}) = Cardinality(M) + 1 /\ Cardinality(M) \in Nat
  BY <1>2, FS_AddElement, FS_CardinalityType
<1>4. Cardinality(M \union {ts}) >= n + 1
  BY <1>1, <1>3
<1>5. ASSUME NEW t \in M PROVE first <= t /\ t <= ts /\ Near(tol, ts - t, pri, n + 1)
  <2>1. t \in Nat /\ last \in Nat /\ t <= last /\ first <= t /\ Near(tol, last - t, pri, n)
    BY <1>1
  <2>2. Near(tol, ts - t, pri, n + 1)
    BY <2>1, NearLater
  <2> QED BY <2>1, <2>2
<1>6. Near(tol, ts - ts, pri, n + 1)
  <2>1. 0 * pri = 0 /\ ((n + 1) - 1) * tol \in Nat /\ ts - ts = 0
    OBVIOUS
  <2>2. Diff(ts - ts, 0 * pri) <= ((n + 1) - 1) * tol
    BY <2>1 DEF Diff
  <2> QED BY <2>2 DEF Near
<1>7. M \union {ts} \in SUBSET (seen \union {ts})
  OBVIOUS
<1>8. \A t \in M \union {ts} : first <= t /\ t <= ts /\ Near(tol, ts - t, pri, n + 1)
  BY <1>5, <1>6
<1> QED BY <1>4, <1>7, <1>8 DEF Linked

\* One pulse is linked to itself.
LEMMA LinkedOne ==
  ASSUME NEW tol \in Nat, NEW pri \in Nat, NEW seen, NEW ts \in Nat, ts \in seen,
         NEW first \in Nat, first <= ts
  PROVE  Linked(tol, seen, first, ts, pri, 1)
<1>1. Cardinality({ts}) = 1
  BY FS_Singleton
<1>2. Near(tol, ts - ts, pri, 1)
  <2>1. 0 * pri = 0 /\ (1 - 1) * tol = 0 /\ ts - ts = 0
    OBVIOUS
  <2>2. Diff(ts - ts, 0 * pri) <= (1 - 1) * tol
    BY <2>1 DEF Diff
  <2> QED BY <2>2 DEF Near
<1>3. {ts} \in SUBSET seen /\ Cardinality({ts}) >= 1
  BY <1>1
<1>4. \A t \in {ts} : first <= t /\ t <= ts /\ Near(tol, ts - t, pri, 1)
  BY <1>2
<1> QED BY <1>3, <1>4 DEF Linked

\* Later pulses leave those linked.
LEMMA LinkedStill ==
  ASSUME NEW tol, NEW pri, NEW n, NEW seen, NEW ts, NEW first, NEW last,
         Linked(tol, seen, first, last, pri, n)
  PROVE  Linked(tol, seen \union {ts}, first, last, pri, n)
BY DEF Linked

\* The pulses a sequence counts are multiples of its PRI, up to the tolerance
\* of each to the one before, and its deadline is where the last could come.
Chain(rs, ps, seen) ==
  /\ ps.pri \in rs.pri_min..rs.pri_max /\ ps.ppb_thresh = rs.ppb_thresh /\ ps.last_ts \in seen
  /\ ps.deadline_ts = ps.first_ts + (ps.pri * (rs.ppb - 1) + 2 * rs.tol)
  /\ \A n \in 1..ps.count : Linked(rs.tol, seen, ps.first_ts, ps.last_ts, ps.pri, n)

\* What is used of a sequence.
SeqFacts(ps, seen, top) ==
  /\ ps.count \in Nat /\ ps.count_falses \in Nat /\ ps.first_ts \in Nat /\ ps.deadline_ts \in Nat
  /\ ps.count + ps.count_falses = Cardinality(Since(seen, ps.first_ts))
  /\ ps.first_ts <= top /\ top <= ps.deadline_ts

\* The fields of a sequence and of what becomes of it.
Becomes(x, pri, count, first, last, falses, deadline, thresh) ==
  /\ x.pri = pri /\ x.count = count /\ x.first_ts = first /\ x.last_ts = last
  /\ x.count_falses = falses /\ x.deadline_ts = deadline /\ x.ppb_thresh = thresh
LEMMA Fields ==
  ASSUME NEW pri, NEW count, NEW first, NEW last, NEW falses, NEW deadline, NEW thresh
  PROVE  Becomes(ShortSeq(pri, count, first, last, falses, deadline, thresh),
                 pri, count, first, last, falses, deadline, thresh)
BY DEF ShortSeq, Becomes

LEMMA SeqFields ==
  ASSUME NEW ps, NEW seen, NEW top, SeqInv(ps, seen, top), NEW ts
  PROVE  /\ SeqFacts(ps, seen, top)
         /\ Becomes(Joined(ps, ts), ps.pri, ps.count + 1, ps.first_ts, ts, ps.count_falses,
                    ps.deadline_ts, ps.ppb_thresh)
         /\ Becomes(Missed(ps), ps.pri, ps.count, ps.first_ts, ps.last_ts, ps.count_falses + 1,
                    ps.deadline_ts, ps.ppb_thresh)
<1>1. PICK pri, last, thresh : \E count, falses, first, deadline \in Nat :
    /\ ps = ShortSeq(pri, count, first, last, falses, deadline, thresh)
    /\ count + falses = Cardinality(Since(seen, first)) /\ first <= top /\ top <= deadline
  BY DEF SeqInv
<1>2. PICK count \in Nat, falses \in Nat, first \in Nat, deadline \in Nat :
    /\ ps = ShortSeq(pri, count, first, last, falses, deadline, thresh)
    /\ count + falses = Cardinality(Since(seen, first)) /\ first <= top /\ top <= deadline
  BY <1>1
<1>3. Becomes(ps, pri, count, first, last, falses, deadline, thresh)
  BY <1>2, Fields
<1>4. /\ Joined(ps, ts) = ShortSeq(pri, count + 1, first, ts, falses, deadline, thresh)
      /\ Missed(ps) = ShortSeq(pri, count, first, last, falses + 1, deadline, thresh)
  <2>1. ps = ShortSeq(pri, count, first, last, falses, deadline, thresh)
    BY <1>2
  <2>2. GoesOn(pri, count, first, last, falses, deadline, thresh, ts)
    BY ShortChanges
  <2> QED BY <2>1, <2>2, Zenon DEF GoesOn
<1>5. /\ Becomes(Joined(ps, ts), pri, count + 1, first, ts, falses, deadline, thresh)
      /\ Becomes(Missed(ps), pri, count, first, last, falses + 1, deadline, thresh)
  BY <1>4, Fields
<1>6. SeqFacts(ps, seen, top)
  BY <1>2, <1>3 DEF Becomes, SeqFacts
<1>7. /\ pri = ps.pri /\ count = ps.count /\ first = ps.first_ts /\ last = ps.last_ts
      /\ falses = ps.count_falses /\ deadline = ps.deadline_ts /\ thresh = ps.ppb_thresh
  BY <1>3 DEF Becomes
<1> QED BY ONLY <1>5, <1>6, <1>7, Zenon

\* What becomes of the pulses of a sequence.
LEMMA ChainLater ==
  ASSUME NEW rs, IsShort(rs), NEW seen \in SUBSET Nat, IsFiniteSet(seen), NEW ts \in Nat, ts \notin seen,
         \A t \in seen : t <= ts, NEW top \in Nat, top <= ts,
         NEW ps, SeqInv(ps, seen, top), Chain(rs, ps, seen)
  PROVE  /\ Chain(rs, Missed(ps), seen \union {ts})
         /\ Joins(rs, ps, ts) => Chain(rs, Joined(ps, ts), seen \union {ts})
<1>1. /\ SeqFacts(ps, seen, top)
      /\ Becomes(Joined(ps, ts), ps.pri, ps.count + 1, ps.first_ts, ts, ps.count_falses,
                 ps.deadline_ts, ps.ppb_thresh)
      /\ Becomes(Missed(ps), ps.pri, ps.count, ps.first_ts, ps.last_ts, ps.count_falses + 1,
                 ps.deadline_ts, ps.ppb_thresh)
  BY SeqFields
<1>2. /\ ps.count \in Nat /\ ps.first_ts \in Nat /\ ps.first_ts <= ts /\ ps.pri \in Nat /\ rs.tol \in Nat
      /\ ps.last_ts \in seen /\ ps.last_ts <= ts
  <2>1. ps.count \in Nat /\ ps.first_ts \in Nat /\ ps.first_ts <= top /\ top <= ts
    BY <1>1 DEF SeqFacts
  <2>2. ps.pri \in rs.pri_min..rs.pri_max /\ rs.pri_min \in Nat /\ rs.pri_max \in Nat /\ rs.tol \in Nat
    BY DEF Chain, IsShort
  <2>3. ps.last_ts \in seen
    BY DEF Chain
  <2>4. ps.pri \in Nat
    BY <2>2
  <2>5. ps.first_ts <= ts
    BY <2>1
  <2> QED BY <2>1, <2>2, <2>3, <2>4, <2>5
<1>3. Chain(rs, Missed(ps), seen \union {ts})
  <2> DEFINE x == Missed(ps)
  <2>1. /\ x.pri = ps.pri /\ x.count = ps.count /\ x.first_ts = ps.first_ts /\ x.last_ts = ps.last_ts
        /\ x.deadline_ts = ps.deadline_ts /\ x.ppb_thresh = ps.ppb_thresh
    BY <1>1 DEF Becomes
  <2> HIDE DEF x
  <2>2. \A n \in 1..ps.count :
          Linked(rs.tol, seen \union {ts}, ps.first_ts, ps.last_ts, ps.pri, n)
    BY LinkedStill DEF Chain
  <2>3. Chain(rs, x, seen \union {ts})
    BY <2>1, <2>2 DEF Chain
  <2> QED BY <2>3 DEF x
<1>4. ASSUME Joins(rs, ps, ts) PROVE Chain(rs, Joined(ps, ts), seen \union {ts})
  <2> DEFINE x == Joined(ps, ts)
  <2>1. /\ x.pri = ps.pri /\ x.count = ps.count + 1 /\ x.first_ts = ps.first_ts /\ x.last_ts = ts
        /\ x.deadline_ts = ps.deadline_ts /\ x.ppb_thresh = ps.ppb_thresh
    BY <1>1 DEF Becomes
  <2> HIDE DEF x
  <2>2. pde_get_multiple(ts - ps.last_ts, ps.pri, rs.tol) > 0
    BY <1>4 DEF Joins
  <2>3. \A n \in 1..ps.count + 1 : Linked(rs.tol, seen \union {ts}, ps.first_ts, ts, ps.pri, n)
    <3> SUFFICES ASSUME NEW n \in 1..ps.count + 1
                 PROVE  Linked(rs.tol, seen \union {ts}, ps.first_ts, ts, ps.pri, n)
      OBVIOUS
    <3>1. CASE n = 1
      BY <1>2, <3>1, LinkedOne
    <3>2. CASE n # 1
      <4>1. PICK m \in 1..ps.count : n = m + 1
        BY <1>2, <3>2
      <4>2. Linked(rs.tol, seen, ps.first_ts, ps.last_ts, ps.pri, m)
        BY <4>1 DEF Chain
      <4>3. m \in Nat \ {0}
        OBVIOUS
      <4> QED BY <1>2, <2>2, <4>1, <4>2, <4>3, LinkedLater
    <3> QED BY <3>1, <3>2
  <2>4. Chain(rs, x, seen \union {ts})
    BY <2>1, <2>3 DEF Chain
  <2> QED BY <2>4 DEF x
<1> QED BY <1>3, <1>4

\* An injection of a set into a finite one.
LEMMA AtLeast ==
  ASSUME NEW S, NEW T, IsFiniteSet(T), NEW f \in [S -> T], \A a, b \in S : f[a] = f[b] => a = b
  PROVE  Cardinality(S) <= Cardinality(T)
<1>1. f \in Injection(S, T)
  BY Fun_IsInj
<1> QED BY <1>1, FS_Injection

\* The pulses a new sequence starts with.
LEMMA ChainNew ==
  ASSUME NEW rs, IsShort(rs), IsSpec(rs), NEW d, NEW now \in Nat, QueueInv(rs, d, now),
         NEW ts \in Nat, ts \notin d.seen, NEW i \in 1..Len(d.pulses),
         ts - d.pulses[i] \in rs.pri_min..rs.pri_max, ppb_thresh(rs, ts - d.pulses[i]) = rs.ppb_thresh
  PROVE  Chain(rs, NewSequence(rs, d.pulses, ts, i), d.seen \union {ts})
<1> DEFINE q == d.pulses
           n == Len(q)
           pri == ts - q[i]
           dur == pri * (rs.ppb - 1) + 2 * rs.tol
           match == {j \in i + 1..n : /\ q[j] + dur >= ts
                                      /\ pde_get_multiple(ts - q[j], pri, rs.tol) > 0}
           oldest == Largest(match \union {i})
           x == NewSequence(rs, q, ts, i)
           seen == d.seen \union {ts}
<1>d. /\ n \in Nat /\ DOMAIN q = 1..n
      /\ \A k \in 1..n : q[k] \in Nat /\ q[k] \in d.seen
      /\ d.seen \in SUBSET Nat /\ IsFiniteSet(d.seen) /\ Ordered(q)
  BY QueueFacts
<1>0. /\ x.pri = pri /\ x.count = 2 + Cardinality(match) /\ x.first_ts = q[oldest] /\ x.last_ts = ts
      /\ x.deadline_ts = q[oldest] + dur /\ x.ppb_thresh = rs.ppb_thresh
  BY DEF NewSequence
<1>p. pri \in Nat \ {0} /\ pri \in rs.pri_min..rs.pri_max /\ rs.tol \in Nat
  BY DEF IsShort
<1>1. match \in SUBSET (i + 1..n) /\ i \in 1..n /\ i \in Nat
  BY <1>d
<1>2. \A j \in match : pde_get_multiple(ts - q[j], pri, rs.tol) > 0
  OBVIOUS
<1> HIDE DEF match, x
<1>3. IsFiniteSet(match) /\ Cardinality(match) \in Nat
  <2>1. IsFiniteSet(1..n) /\ match \in SUBSET (1..n)
    BY <1>1, <1>d, FS_Interval
  <2>2. IsFiniteSet(match)
    BY <2>1, FS_Subset
  <2> QED BY <2>2, FS_CardinalityType
<1>4. oldest \in match \union {i} /\ \A j \in match \union {i} : j <= oldest
  <2>1. match \union {i} \in SUBSET (0..n)
    BY <1>1, <1>d
  <2> QED BY <1>d, <2>1, LargestIs
<1> HIDE DEF oldest
<1> DEFINE P == match \union {i}
           F == q[oldest]
<1>5. /\ P \in SUBSET (1..n) /\ oldest \in 1..n /\ F \in Nat
      /\ \A j \in P : q[j] \in Nat /\ q[j] \in d.seen /\ F <= q[j] /\ q[j] <= ts
  <2>1. P \in SUBSET (1..n) /\ oldest \in 1..n
    BY <1>1, <1>4, <1>d
  <2>2. \A j, k \in 1..n : j <= k => q[k] <= q[j] /\ q[j] \in Nat /\ q[k] \in Nat
    <3> SUFFICES ASSUME NEW j \in 1..n, NEW k \in 1..n, j < k PROVE q[k] <= q[j]
      BY <1>d
    <3>1. j \in 1..k - 1
      BY <1>d
    <3>2. q[j] > q[k] /\ q[j] \in Nat /\ q[k] \in Nat
      BY <1>d, <3>1 DEF Ordered
    <3> QED BY <3>2
  <2>3. \A j \in P : i <= j /\ j <= oldest
    BY <1>1, <1>4, <1>d
  <2>4. q[i] <= ts
    <3>1. q[i] \in Nat
      BY <1>1, <1>d
    <3> QED BY <1>p, <3>1
  <2>5. \A j \in P : F <= q[j] /\ q[j] <= q[i] /\ q[j] \in Nat /\ q[i] \in Nat
    BY <1>1, <2>1, <2>2, <2>3
  <2>6. \A j \in P : q[j] <= ts
    BY <2>4, <2>5
  <2> QED BY <1>d, <2>1, <2>5, <2>6
<1>6. Cardinality(P) = Cardinality(match) + 1 /\ IsFiniteSet(P)
  <2>1. i \notin match
    BY <1>1
  <2> QED BY <1>3, <2>1, FS_AddElement
<1> DEFINE M == {t \in d.seen : \E j \in P : q[j] = t}
<1>7. Cardinality(M \union {ts}) >= 2 + Cardinality(match) /\ M \in SUBSET d.seen
  <2> DEFINE f == [j \in P |-> q[j]]
  <2>1. f \in [P -> M]
    BY <1>5
  <2>2. \A a, b \in P : f[a] = f[b] => a = b
    <3>1. ASSUME NEW a \in P, NEW b \in P, a < b PROVE q[a] # q[b]
      <4>1. a \in 1..b - 1 /\ b \in DOMAIN q /\ a \in 1..n
        BY <1>5, <1>d, <3>1
      <4>2. q[a] > q[b] /\ q[a] \in Nat /\ q[b] \in Nat
        BY <1>5, <1>d, <4>1 DEF Ordered
      <4> QED BY <4>2
    <3>2. \A a \in P : f[a] = q[a] /\ a \in Nat
      BY <1>5
    <3> HIDE DEF f, P
    <3>3. \A a, b \in P : a < b \/ b < a \/ a = b
      BY <3>2
    <3> QED BY <3>1, <3>2, <3>3, Zenon
  <2>3. IsFiniteSet(M) /\ ts \notin M
    BY <1>d, FS_Subset
  <2> HIDE DEF f, M, P
  <2>4. Cardinality(P) <= Cardinality(M)
    BY <2>1, <2>2, <2>3, AtLeast
  <2>5. Cardinality(M) \in Nat /\ Cardinality(M \union {ts}) = Cardinality(M) + 1
    BY <2>3, FS_AddElement, FS_CardinalityType
  <2>6. M \in SUBSET d.seen
    BY DEF M
  <2> QED BY <1>3, <1>6, <2>4, <2>5, <2>6
<1>8. ASSUME NEW j \in P PROVE \E k \in Nat : Diff(ts - q[j], k * pri) <= rs.tol
  <2>1. ts - q[j] \in Nat
    BY <1>5
  <2>2. CASE j = i
    <3>1. 1 * pri = pri /\ Diff(pri, pri) = 0
      BY <1>p DEF Diff
    <3>2. Diff(ts - q[j], 1 * pri) <= rs.tol
      BY <1>p, <2>2, <3>1
    <3> QED BY <3>2
  <2>3. CASE j \in match
    <3> DEFINE b == ts - q[j]
    <3>1. pde_get_multiple(b, pri, rs.tol) > 0
      BY <1>2, <2>3
    <3>2. b \in Nat /\ pri \in Nat /\ rs.tol \in Nat
      BY <1>p, <2>1
    <3> HIDE DEF b, pri
    <3>3. PICK f \in Nat : f = pde_get_multiple(b, pri, rs.tol)
      BY <3>2, MultipleIs
    <3>4. MultipleFits(b, pri, rs.tol)
      BY <3>2, MultipleTheorem
    <3>5. Diff(b, f * pri) <= rs.tol
      BY <3>1, <3>3, <3>4 DEF MultipleFits
    <3> QED BY <3>5 DEF b
  <2> QED BY <2>2, <2>3
<1>9. ASSUME NEW m \in 1..2 + Cardinality(match) PROVE Linked(rs.tol, seen, F, ts, pri, m)
  <2>1. CASE m = 1
    <3>1. F <= ts
      BY <1>5, <1>4
    <3> QED BY <1>5, <1>p, <2>1, <3>1, LinkedOne
  <2>2. CASE m # 1
    <3>1. m \in Nat /\ m - 1 >= 1 /\ Cardinality(M \union {ts}) >= m
      <4>1. Cardinality(M \union {ts}) \in Nat
        <5>1. IsFiniteSet(M \union {ts})
          <6>1. IsFiniteSet(M)
            BY <1>d, FS_Subset
          <6> QED BY <6>1, FS_AddElement
        <5> QED BY <5>1, FS_CardinalityType
      <4> QED BY <1>3, <1>7, <2>2, <4>1
    <3>3. ASSUME NEW t \in M PROVE F <= t /\ t <= ts /\ Near(rs.tol, ts - t, pri, m)
      <4>1. PICK j \in P : q[j] = t
        OBVIOUS
      <4>2. PICK k \in Nat : Diff(ts - q[j], k * pri) <= rs.tol
        BY <1>8
      <4>3. q[j] \in Nat /\ F <= q[j] /\ q[j] <= ts
        BY <1>5
      <4>4. PICK b \in Nat : b = ts - q[j]
        BY <4>3
      <4>5. Near(rs.tol, b, pri, m)
        BY <1>p, <3>1, <4>2, <4>4, NearWithin
      <4> QED BY <4>1, <4>3, <4>4, <4>5
    <3>4. F <= ts /\ ts <= ts /\ Near(rs.tol, ts - ts, pri, m)
      <4>1. 0 * pri = 0 /\ ts - ts = 0 /\ F <= ts
        BY <1>4, <1>5, <1>p
      <4>2. Diff(0, 0 * pri) <= rs.tol
        BY <1>p, <4>1 DEF Diff
      <4>3. Near(rs.tol, 0, pri, m)
        BY <1>p, <3>1, <4>2, NearWithin
      <4> QED BY <4>1, <4>3
    <3>5. M \union {ts} \in SUBSET seen
      BY <1>7
    <3> HIDE DEF M
    <3>6. \A t \in M \union {ts} : F <= t /\ t <= ts /\ Near(rs.tol, ts - t, pri, m)
      BY <3>3, <3>4
    <3> QED BY <3>1, <3>5, <3>6 DEF Linked
  <2> QED BY <2>1, <2>2
<1> HIDE DEF pri, F
<1>10. \A m \in 1..x.count : Linked(rs.tol, seen, x.first_ts, x.last_ts, x.pri, m)
  BY <1>0, <1>9 DEF F
<1>11. x.deadline_ts = x.first_ts + (x.pri * (rs.ppb - 1) + 2 * rs.tol)
  BY <1>0
<1>12. x.pri \in rs.pri_min..rs.pri_max /\ x.ppb_thresh = rs.ppb_thresh /\ x.last_ts \in seen
  BY <1>0, <1>p
<1>13. Chain(rs, x, seen)
  BY <1>10, <1>11, <1>12 DEF Chain
<1> QED BY <1>13 DEF x

\* Whether a sequence passes the check.
Passes(rs, ps) == ps.count >= ps.ppb_thresh /\ ps.count * rs.num_pri > ps.count_falses

\* Every pulse of the window is queued, unless there were enough to fill it.
Reach(rs, d) ==
  Cardinality(d.seen) < max_count(rs) =>
    \A t \in d.seen : t + window_size(rs) >= d.pulses[1] => \E i \in DOMAIN d.pulses : d.pulses[i] = t

\* What holds of a short detector besides: no pattern has been missed.
Track(rs, d) ==
  rs.type = "short" =>
    /\ TrainOf(rs, d) /\ Reach(rs, d)
    /\ \A ps \in d.sequences : Chain(rs, ps, d.seen) /\ ~Passes(rs, ps)

\* The pulses of all the sequences are linked.
LEMMA AfterChain ==
  ASSUME NEW rs, IsSpec(rs), IsShort(rs), NEW d, NEW now \in Nat, QueueInv(rs, d, now), ShortInv(d),
         NEW ts \in Nat, now <= ts, Apt(rs, d, ts), Track(rs, d)
  PROVE  \A x \in After(rs, d, ts) : Chain(rs, x, d.seen \union {ts})
<1> DEFINE q == d.pulses
           seen == d.seen \union {ts}
<1>d. DOMAIN q = 1..Len(q) /\ d.seen \in SUBSET Nat /\ IsFiniteSet(d.seen)
  BY QueueFacts
<1>1. q[1] \in Nat /\ q[1] < ts /\ ts \notin d.seen /\ \A t \in d.seen : t < ts
  BY AptIs
<1>2. ASSUME NEW x \in Olds(rs, d, ts) PROVE Chain(rs, x, seen)
  <2>1. PICK ps \in d.sequences :
          ts <= ps.deadline_ts /\ x = IF Joins(rs, ps, ts) THEN Joined(ps, ts) ELSE Missed(ps)
    BY AfterIs
  <2>2. SeqInv(ps, d.seen, q[1]) /\ Chain(rs, ps, d.seen)
    BY DEF ShortInv, Track, IsShort
  <2>3. q[1] <= ts /\ \A t \in d.seen : t <= ts
    BY <1>1, <1>d
  <2>4. Chain(rs, Missed(ps), seen) /\ (Joins(rs, ps, ts) => Chain(rs, Joined(ps, ts), seen))
    BY <1>d, <1>1, <2>2, <2>3, ChainLater
  <2> QED BY <2>1, <2>4
<1>3. ASSUME NEW x \in News(rs, d, ts) PROVE Chain(rs, x, seen)
  <2>1. PICK i \in DOMAIN q : ts - q[i] \in rs.pri_min..rs.pri_max /\ x = NewSequence(rs, q, ts, i)
    BY AfterIs
  <2>2. i \in 1..Len(d.pulses)
    BY <1>d
  <2>3. ppb_thresh(rs, ts - q[i]) = rs.ppb_thresh
    BY DEF ppb_thresh, IsShort
  <2> QED BY <1>1, <2>1, <2>2, <2>3, ChainNew
<1> QED BY <1>2, <1>3 DEF After

\* A queue holds no more pulses than came.
LEMMA QueueFew ==
  ASSUME NEW rs, NEW d, NEW now \in Nat, QueueInv(rs, d, now), ShortInv(d)
  PROVE  Len(d.pulses) <= Cardinality(d.seen) /\ Len(d.pulses) \in Nat /\ Cardinality(d.seen) \in Nat
<1>d. Len(d.pulses) \in Nat /\ d.seen \in SUBSET Nat /\ IsFiniteSet(d.seen)
  BY QueueFacts
<1>0. Cardinality(d.seen) \in Nat
  BY <1>d, FS_CardinalityType
<1>1. CASE Len(d.pulses) = 0
  BY <1>0, <1>1
<1>2. CASE Len(d.pulses) # 0
  <2> DEFINE k == Len(d.pulses)
             T == Since(d.seen, d.pulses[k])
  <2>1. k \in 1..Len(d.pulses)
    BY <1>d, <1>2
  <2>2. Cardinality(T) = k
    BY <2>1, QueueCount
  <2>3. T \in SUBSET d.seen
    BY DEF Since
  <2> HIDE DEF T
  <2>4. Cardinality(T) <= Cardinality(d.seen)
    BY <1>d, <2>3, FS_Subset
  <2> QED BY <1>0, <1>d, <2>2, <2>4
<1> QED BY <1>1, <1>2

\* The pulse leaves the queue within reach.
LEMMA ReachStep ==
  ASSUME NEW rs, IsSpec(rs), NEW d, NEW now \in Nat, QueueInv(rs, d, now), ShortInv(d),
         NEW ts \in Nat, now <= ts, Apt(rs, d, ts), Reach(rs, d),
         NEW S, NEW e, Queued(rs, d, d.pulses, S, ts, e)
  PROVE  Reach(rs, e)
<1> DEFINE q == d.pulses
<1>d. DOMAIN q = 1..Len(q) /\ d.seen \in SUBSET Nat /\ IsFiniteSet(d.seen) /\ Len(q) \in Nat
  BY QueueFacts
<1>a. 1 \in 1..Len(q) /\ q[1] \in Nat /\ q[1] < ts /\ ts \notin d.seen /\ \A t \in d.seen : t < ts
  BY AptIs
<1>e. /\ QueueInv(rs, e, ts) /\ e.seen = d.seen \union {ts} /\ Len(e.pulses) \in 1..Len(q) + 1
      /\ e.pulses[1] = ts /\ \A i \in 2..Len(e.pulses) : e.pulses[i] = q[i - 1]
      /\ Len(q) + 1 < max_count(rs) =>
           \A i \in 1..Len(q) : q[i] + window_size(rs) >= ts => i + 1 <= Len(e.pulses)
  BY DEF Queued
<1>f. DOMAIN e.pulses = 1..Len(e.pulses) /\ Len(e.pulses) \in Nat
  BY <1>e, QueueFacts
<1>w. window_size(rs) \in Nat /\ max_count(rs) \in Nat
  BY DEF IsSpec
<1> SUFFICES ASSUME Cardinality(e.seen) < max_count(rs), NEW t \in e.seen, t + window_size(rs) >= ts
             PROVE  \E i \in 1..Len(e.pulses) : e.pulses[i] = t
  BY <1>e, <1>f DEF Reach
<1>1. CASE t = ts
  <2>1. 1 \in 1..Len(e.pulses)
    BY <1>e, <1>f
  <2> QED BY <1>1, <1>e, <2>1
<1>2. CASE t # ts
  <2>1. t \in d.seen /\ t \in Nat
    BY <1>2, <1>d, <1>e
  <2>2. Cardinality(e.seen) = Cardinality(d.seen) + 1
    BY <1>a, <1>d, <1>e, FS_AddElement
  <2>3. Len(q) <= Cardinality(d.seen) /\ Cardinality(d.seen) \in Nat
    BY QueueFew
  <2>4. Cardinality(d.seen) < max_count(rs) /\ Len(q) + 1 < max_count(rs)
    BY <1>d, <1>w, <2>2, <2>3
  <2>5. t + window_size(rs) >= q[1]
    BY <1>a, <1>w, <2>1
  <2>6. PICK i \in DOMAIN q : q[i] = t
    BY <2>1, <2>4, <2>5 DEF Reach
  <2>7. i \in 1..Len(q) /\ i + 1 <= Len(e.pulses)
    BY <1>d, <1>e, <2>4, <2>6
  <2>8. i + 1 \in 2..Len(e.pulses) /\ (i + 1) - 1 = i /\ i + 1 \in 1..Len(e.pulses)
    BY <1>d, <1>f, <2>7
  <2>9. e.pulses[i + 1] = t
    BY <1>e, <2>6, <2>8
  <2> QED BY <2>8, <2>9
<1> QED BY <1>1, <1>2

\* The largest multiple that a pattern of the type can have is enough.
LEMMA NearMost ==
  ASSUME NEW tol, NEW pri \in Nat, NEW dist \in Nat, NEW n, NEW e \in Nat, e = (n - 1) * tol,
         Near(tol, dist, pri, n), NEW p \in Nat, dist <= p * pri
  PROVE  \E k \in 0..p : Diff(dist, k * pri) <= e
<1>1. PICK k \in Nat : Diff(dist, k * pri) <= e
  BY Zenon DEF Near
<1>2. CASE k <= p
  <2>1. k \in 0..p
    BY <1>2
  <2> QED BY <1>1, <2>1, Zenon
<1>3. CASE p <= k
  <2>1. p * pri <= k * pri /\ p * pri \in Nat /\ k * pri \in Nat
    BY <1>3, Multiples
  <2>2. Diff(dist, p * pri) <= e
    BY <1>1, <2>1 DEF Diff
  <2>3. p \in 0..p
    OBVIOUS
  <2> QED BY <2>2, <2>3
<1> QED BY <1>2, <1>3

\* What is reported as a radar of a type.
Real(rs, S) ==
  \E pri \in rs.pri_min..rs.pri_max : Cardinality(Match(rs, S, pri)) >= rs.ppb_thresh

\* The one that completes a pattern is a sequence of the pulse, and the pulses
\* it counts match.
LEMMA FoundReal ==
  ASSUME NEW rs, IsSpec(rs), IsShort(rs), NEW d, NEW now \in Nat, QueueInv(rs, d, now), ShortInv(d),
         NEW ts \in Nat, now <= ts, Apt(rs, d, ts), Track(rs, d),
         pde_short_check_detection(rs, After(rs, d, ts))
  PROVE  Real(rs, d.seen \union {ts})
<1> DEFINE q == d.pulses
           seen == d.seen \union {ts}
<1>d. DOMAIN q = 1..Len(q) /\ d.seen \in SUBSET Nat /\ IsFiniteSet(d.seen) /\ Len(q) \in Nat
  BY QueueFacts
<1>a. ts \notin d.seen /\ \A t \in d.seen : t < ts
  BY AptIs
<1>r. /\ rs.ppb_thresh \in 2..rs.ppb /\ rs.ppb \in Nat /\ rs.tol \in Nat /\ rs.num_pri = 1
      /\ 2 * rs.tol <= rs.pri_min /\ rs.pri_min \in Nat /\ rs.pri_max \in Nat
  BY DEF IsShort
<1>1. PICK x \in After(rs, d, ts) : Passes(rs, x)
  BY DEF pde_short_check_detection, Passes
<1>2. SeqInv(x, seen, ts) /\ Chain(rs, x, seen)
  BY AfterInv, AfterChain
<1>3. x.last_ts = ts
  <2>1. CASE x \in News(rs, d, ts)
    <3>1. PICK i \in DOMAIN q : x = NewSequence(rs, q, ts, i)
      BY <2>1, AfterIs
    <3> QED BY <3>1 DEF NewSequence
  <2>2. CASE x \in Olds(rs, d, ts)
    <3>1. PICK ps \in d.sequences : x = IF Joins(rs, ps, ts) THEN Joined(ps, ts) ELSE Missed(ps)
      BY <2>2, AfterIs
    <3>2. SeqInv(ps, d.seen, q[1]) /\ ~Passes(rs, ps)
      BY DEF ShortInv, Track, IsShort
    <3>3. /\ SeqFacts(ps, d.seen, q[1])
          /\ Becomes(Joined(ps, ts), ps.pri, ps.count + 1, ps.first_ts, ts, ps.count_falses,
                     ps.deadline_ts, ps.ppb_thresh)
          /\ Becomes(Missed(ps), ps.pri, ps.count, ps.first_ts, ps.last_ts, ps.count_falses + 1,
                     ps.deadline_ts, ps.ppb_thresh)
      BY <3>2, SeqFields
    <3>4. CASE Joins(rs, ps, ts)
      BY <3>1, <3>3, <3>4 DEF Becomes
    <3>5. CASE ~Joins(rs, ps, ts)
      <4>1. /\ x.count = ps.count /\ x.count_falses = ps.count_falses + 1 /\ x.ppb_thresh = ps.ppb_thresh
            /\ ps.count \in Nat /\ ps.count_falses \in Nat
        BY <3>1, <3>3, <3>5 DEF Becomes, SeqFacts
      <4>2. ps.count >= ps.ppb_thresh /\ ps.count * rs.num_pri > ps.count_falses + 1
        BY <1>1, <4>1 DEF Passes
      <4>3. ps.count * 1 > ps.count_falses
        BY <1>r, <4>1, <4>2
      <4> QED BY <1>r, <3>2, <4>2, <4>3 DEF Passes
    <3> QED BY <3>4, <3>5
  <2> QED BY <2>1, <2>2 DEF After
<1>4. SeqFacts(x, seen, ts)
  BY <1>2, SeqFields
<1>5. PICK pri \in Nat, thresh \in Nat, first \in Nat, tol \in Nat, p \in Nat, low \in Nat :
        /\ pri = x.pri /\ thresh = rs.ppb_thresh /\ first = x.first_ts /\ tol = rs.tol
        /\ p = rs.ppb /\ low = rs.pri_min
  <2>1. x.pri \in rs.pri_min..rs.pri_max /\ x.first_ts \in Nat
    BY <1>2, <1>4 DEF Chain, SeqFacts
  <2>2. x.pri \in Nat
    BY <1>r, <2>1
  <2>3. rs.ppb_thresh \in Nat
    BY <1>r
  <2> QED BY <1>r, <2>1, <2>2, <2>3
<1>6. /\ pri \in rs.pri_min..rs.pri_max /\ low <= pri /\ 2 * tol <= low /\ thresh >= 2 /\ p >= 1
      /\ thresh \in 1..x.count /\ x.deadline_ts = first + (pri * (p - 1) + 2 * tol) /\ ts <= x.deadline_ts
  <2>1. x.pri \in rs.pri_min..rs.pri_max /\ x.ppb_thresh = rs.ppb_thresh
    BY <1>2 DEF Chain
  <2>2. x.deadline_ts = first + (pri * (p - 1) + 2 * tol)
    BY <1>2, <1>5 DEF Chain
  <2>3. ts <= x.deadline_ts /\ x.count \in Nat
    BY <1>4 DEF SeqFacts
  <2>4. x.count >= x.ppb_thresh
    BY <1>1 DEF Passes
  <2>5. low <= pri /\ 2 * tol <= low /\ thresh >= 2 /\ p >= 1
    BY <1>r, <1>5, <2>1
  <2>6. thresh \in 1..x.count
    BY <1>5, <2>1, <2>3, <2>4, <2>5
  <2> QED BY <1>5, <2>1, <2>2, <2>3, <2>5, <2>6
<1>7. PICK M \in SUBSET seen :
        /\ Cardinality(M) >= thresh
        /\ \A t \in M : first <= t /\ t <= ts /\ Near(tol, ts - t, pri, thresh)
  <2>1. Linked(rs.tol, seen, x.first_ts, x.last_ts, x.pri, thresh)
    BY <1>2, <1>6 DEF Chain
  <2>2. Linked(tol, seen, first, ts, pri, thresh)
    BY <1>3, <1>5, <2>1
  <2> QED BY <2>2 DEF Linked
<1>8. Largest(seen) = ts
  <2>1. ts \in seen /\ \A y \in seen : y <= ts
    BY <1>a, <1>d
  <2>2. \E y \in seen : \A z \in seen : z <= y
    BY <2>1
  <2>3. Largest(seen) \in seen /\ \A y \in seen : y <= Largest(seen)
    BY <2>2 DEF Largest
  <2>4. Largest(seen) \in Nat
    BY <1>d, <2>3
  <2>5. Largest(seen) <= ts /\ ts <= Largest(seen)
    BY <2>1, <2>3
  <2> QED BY <2>4, <2>5
<1>9. M \in SUBSET Match(rs, seen, pri)
  <2> SUFFICES ASSUME NEW t \in M
               PROVE  \E k \in 0..rs.ppb : Diff(ts - t, k * pri) <= (rs.ppb_thresh - 1) * rs.tol
    BY <1>8 DEF Match
  <2>1. first <= t /\ t <= ts /\ Near(tol, ts - t, pri, thresh) /\ t \in Nat
    BY <1>7, <1>d
  <2>2. PICK b \in Nat : b = ts - t
    BY <2>1
  <2>3. PICK y \in Nat : y = pri * (p - 1)
    BY <1>6
  <2>4. p * pri = y + pri
    BY <2>3
  <2>5. b <= y + 2 * tol
    <3>1. ts <= first + (y + 2 * tol)
      BY <1>6, <2>3
    <3> QED BY <2>1, <2>2, <3>1
  <2>6. b <= p * pri
    BY <1>6, <2>4, <2>5
  <2>7. PICK e \in Nat : e = (thresh - 1) * tol
    BY <1>6
  <2>8. \E k \in 0..p : Diff(b, k * pri) <= e
    BY <2>1, <2>2, <2>6, <2>7, NearMost
  <2> QED BY <1>5, <2>2, <2>7, <2>8
<1>10. Cardinality(Match(rs, seen, pri)) >= thresh
  <2>1. IsFiniteSet(seen)
    BY <1>d, FS_AddElement
  <2>2. Match(rs, seen, pri) \in SUBSET seen
    BY DEF Match
  <2>3. IsFiniteSet(Match(rs, seen, pri))
    BY <2>1, <2>2, FS_Subset
  <2>4. Cardinality(M) <= Cardinality(Match(rs, seen, pri)) /\ IsFiniteSet(M)
    BY <1>9, <2>3, FS_Subset
  <2>5. Cardinality(M) \in Nat /\ Cardinality(Match(rs, seen, pri)) \in Nat
    BY <2>3, <2>4, FS_CardinalityType
  <2> QED BY <1>7, <2>4, <2>5
<1> QED BY <1>5, <1>6, <1>10 DEF Real

\* A sequence with enough pulses, of less than twice as many, passes.
LEMMA Enough ==
  ASSUME NEW rs, IsShort(rs), NEW seen, IsFiniteSet(seen), Cardinality(seen) < 2 * rs.ppb_thresh,
         NEW x, NEW top, SeqInv(x, seen, top), Chain(rs, x, seen), x.count >= rs.ppb_thresh
  PROVE  Passes(rs, x)
<1>1. /\ x.count \in Nat /\ x.count_falses \in Nat
      /\ x.count + x.count_falses = Cardinality(Since(seen, x.first_ts))
  BY SeqFields DEF SeqFacts
<1>2. Cardinality(Since(seen, x.first_ts)) <= Cardinality(seen) /\ Cardinality(seen) \in Nat
  <2>1. Since(seen, x.first_ts) \in SUBSET seen
    BY DEF Since
  <2> QED BY <2>1, FS_Subset, FS_CardinalityType
<1>3. x.ppb_thresh = rs.ppb_thresh /\ rs.ppb_thresh \in Nat /\ rs.num_pri = 1
  <2>1. rs.ppb_thresh \in 2..rs.ppb /\ rs.ppb \in Nat /\ rs.num_pri = 1
    BY DEF IsShort
  <2> QED BY <2>1 DEF Chain
<1>4. x.count * 1 = x.count /\ x.count > x.count_falses
  BY <1>1, <1>2, <1>3
<1> QED BY <1>3, <1>4 DEF Passes

\* A new sequence has every pulse of the queue at a multiple of its PRI that
\* its duration reaches.
LEMMA CountsTrain ==
  ASSUME NEW rs, IsShort(rs), IsSpec(rs), NEW d, NEW now \in Nat, QueueInv(rs, d, now),
         NEW ts \in Nat, NEW pri \in Nat \ {0}, NEW c \in Nat, c + 2 <= rs.ppb,
         NEW t \in Nat, ts = t + (c + 1) * pri,
         \A k \in 0..c : \E j \in 1..Len(d.pulses) : d.pulses[j] = t + k * pri,
         NEW i \in 1..Len(d.pulses), d.pulses[i] = t + c * pri
  PROVE  NewSequence(rs, d.pulses, ts, i).count >= c + 2
<1> DEFINE q == d.pulses
           n == Len(q)
           dur == pri * (rs.ppb - 1) + 2 * rs.tol
           match == {j \in i + 1..n : /\ q[j] + dur >= ts
                                      /\ pde_get_multiple(ts - q[j], pri, rs.tol) > 0}
           J(k) == CHOOSE j \in 1..n : q[j] = t + k * pri
           f == [k \in 0..c - 1 |-> J(k)]
<1>d. /\ n \in Nat /\ DOMAIN q = 1..n /\ Ordered(q) /\ \A k \in 1..n : q[k] \in Nat
  BY QueueFacts
<1>0. (c + 1) * pri = c * pri + pri /\ c * pri \in Nat
  OBVIOUS
<1>1. ts - q[i] = pri
  BY <1>0
<1>2. NewSequence(rs, q, ts, i).count = 2 + Cardinality(match)
  BY <1>1 DEF NewSequence
<1>3. ASSUME NEW k \in 0..c - 1 PROVE J(k) \in match /\ q[J(k)] = t + k * pri
  <2>1. k \in 0..c /\ k \in Nat /\ c - k \in Nat \ {0}
    OBVIOUS
  <2>2. J(k) \in 1..n /\ q[J(k)] = t + k * pri
    BY <2>1
  <2> DEFINE j == J(k)
  <2> HIDE DEF J
  <2>3. PICK a \in Nat : a = k * pri
    BY <2>1
  <2>4. PICK m \in Nat : m = (c + 1) - k
    OBVIOUS
  <2>5. PICK b \in Nat : b = m * pri
    OBVIOUS
  <2>6. ts = q[j] + b
    <3>1. (c + 1) * pri = k * pri + m * pri
      BY <2>1, <2>4
    <3> QED BY <2>2, <2>3, <2>5, <3>1
  <2>7. q[j] < q[i] /\ q[j] \in Nat /\ q[i] \in Nat
    <3>1. m >= 2
      BY <2>1, <2>4
    <3>2. 2 * pri <= m * pri
      BY <3>1, Multiples
    <3> QED BY <1>1, <1>d, <2>2, <2>5, <2>6, <3>2
  <2>8. j \in i + 1..n
    <3> SUFFICES ASSUME j <= i PROVE FALSE
      BY <1>d, <2>2
    <3>1. CASE j = i
      BY <2>7, <3>1
    <3>2. CASE j # i
      <4>1. j \in 1..i - 1 /\ i \in DOMAIN q
        BY <1>d, <2>2, <3>2
      <4>2. q[j] > q[i]
        BY <1>d, <4>1 DEF Ordered
      <4> QED BY <2>7, <4>2
    <3> QED BY <3>1, <3>2
  <2>9. q[j] + dur >= ts
    <3>1. PICK p \in Nat, tol \in Nat : p = rs.ppb - 1 /\ tol = rs.tol
      BY DEF IsShort
    <3>2. m <= p
      <4>1. rs.ppb \in Nat
        BY DEF IsShort
      <4> QED BY <2>1, <2>4, <3>1, <4>1
    <3>3. m * pri <= p * pri
      BY <3>2, Multiples
    <3>4. PICK y \in Nat : y = pri * p /\ y >= b
      BY <2>5, <3>3
    <3>5. dur = y + 2 * tol
      BY <3>1, <3>4
    <3> HIDE DEF dur
    <3>6. dur >= b /\ dur \in Nat
      BY <3>4, <3>5
    <3> QED BY <2>6, <2>7, <3>6
  <2>10. pde_get_multiple(ts - q[j], pri, rs.tol) > 0
    <3>1. ts - q[j] = b
      BY <2>6, <2>7
    <3>2. PICK tol \in Nat : tol = rs.tol
      BY DEF IsShort
    <3>3. PICK g \in Nat : g = pde_get_multiple(b, pri, tol)
      BY MultipleIs
    <3>4. MultipleFits(b, pri, tol)
      BY MultipleTheorem
    <3>5. m >= 1 /\ m <= b + 1
      <4>1. m * 1 <= m * pri
        <5>1. 1 * m <= pri * m
          BY Multiples
        <5> QED BY <5>1
      <4> QED BY <2>1, <2>4, <2>5, <4>1
    <3>6. Diff(b, m * pri) = 0
      BY <2>5 DEF Diff
    <3>7. g # 0
      <4> SUFFICES ASSUME g = 0 PROVE FALSE
        OBVIOUS
      <4>1. m \in 1..b + 1 /\ pri > 0
        BY <3>5
      <4>2. Diff(b, m * pri) > tol
        BY <3>3, <3>4, <4>1 DEF MultipleFits
      <4> QED BY <3>6, <4>2
    <3> QED BY <3>1, <3>2, <3>3, <3>7
  <2> QED BY <2>2, <2>8, <2>9, <2>10
<1> HIDE DEF match, J
<1>4. f \in [0..c - 1 -> match]
  BY <1>3
<1>5. \A a, b \in 0..c - 1 : f[a] = f[b] => a = b
  <2> SUFFICES ASSUME NEW a \in 0..c - 1, NEW b \in 0..c - 1, f[a] = f[b] PROVE a = b
    OBVIOUS
  <2>1. t + a * pri = t + b * pri
    BY <1>3
  <2>2. a * pri = b * pri
    <3>1. a * pri \in Nat /\ b * pri \in Nat
      OBVIOUS
    <3> QED BY <2>1, <3>1
  <2>3. CASE a < b
    <3>1. (a + 1) * pri <= b * pri
      BY <2>3, Multiples
    <3>2. (a + 1) * pri = a * pri + pri /\ a * pri \in Nat
      OBVIOUS
    <3> QED BY <2>2, <3>1, <3>2
  <2>4. CASE b < a
    <3>1. (b + 1) * pri <= a * pri
      BY <2>4, Multiples
    <3>2. (b + 1) * pri = b * pri + pri /\ b * pri \in Nat
      OBVIOUS
    <3> QED BY <2>2, <3>1, <3>2
  <2> QED BY <2>3, <2>4
<1>6. IsFiniteSet(match) /\ Cardinality(match) \in Nat
  <2>1. IsFiniteSet(i + 1..n)
    <3>1. i + 1 \in Int /\ n \in Int
      BY <1>d
    <3> QED BY <3>1, FS_Interval
  <2>2. match \in SUBSET (i + 1..n)
    BY DEF match
  <2>3. IsFiniteSet(match)
    BY <2>1, <2>2, FS_Subset
  <2> QED BY <2>3, FS_CardinalityType
<1> HIDE DEF f
<1>7. Cardinality(0..c - 1) <= Cardinality(match)
  BY <1>4, <1>5, <1>6, AtLeast
<1>8. Cardinality(0..c - 1) = c
  <2> DEFINE z == c - 1
  <2>1. 0 \in Int /\ z \in Int /\ c = z + 1
    OBVIOUS
  <2> HIDE DEF z
  <2>2. Cardinality(0..z) = IF 0 > z THEN 0 ELSE z - 0 + 1
    BY <2>1, FS_Interval
  <2>3. (IF 0 > z THEN 0 ELSE z - 0 + 1) = c
    BY <2>1
  <2> QED BY <2>2, <2>3 DEF z
<1> QED BY <1>2, <1>6, <1>7, <1>8

\* A train whose last pulse this is would have been found: the sequence that
\* starts at its last distance counts it, or one that counts more was there.
LEMMA TrainStep ==
  ASSUME NEW rs, IsSpec(rs), IsShort(rs), NEW d, NEW now \in Nat, QueueInv(rs, d, now), ShortInv(d),
         NEW ts \in Nat, now <= ts, Apt(rs, d, ts), Track(rs, d),
         ~pde_short_check_detection(rs, After(rs, d, ts)), NEW e, e.seen = d.seen \union {ts}
  PROVE  TrainOf(rs, e)
<1> DEFINE q == d.pulses
           seen == d.seen \union {ts}
           Train(t, pri) == {t + k * pri : k \in 0..rs.ppb_thresh - 1}
<1>d. /\ DOMAIN q = 1..Len(q) /\ d.seen \in SUBSET Nat /\ IsFiniteSet(d.seen) /\ Len(q) \in Nat
      /\ \A k \in 1..Len(q) : q[k] \in Nat
  BY QueueFacts
<1>a. q[1] \in Nat /\ q[1] < ts /\ ts \notin d.seen /\ \A t \in d.seen : t < ts
  BY AptIs
<1>r. /\ rs.ppb_thresh \in 2..rs.ppb /\ rs.ppb \in Nat /\ rs.ppb > 1 /\ rs.num_pri = 1 /\ rs.type = "short"
      /\ rs.pri_min \in Nat \ {0} /\ rs.pri_max \in Nat
      /\ window_size(rs) = rs.pri_max * rs.ppb /\ max_count(rs) = rs.ppb * 2
  BY DEF IsShort
<1>c. Cardinality(seen) = Cardinality(d.seen) + 1 /\ Cardinality(d.seen) \in Nat /\ IsFiniteSet(seen)
  BY <1>a, <1>d, FS_AddElement, FS_CardinalityType
<1>p. \A x \in After(rs, d, ts) : ~Passes(rs, x) /\ SeqInv(x, seen, ts) /\ Chain(rs, x, seen)
  BY AfterInv, AfterChain DEF pde_short_check_detection, Passes
<1>2. PICK thresh \in Nat : thresh = rs.ppb_thresh /\ thresh >= 2 /\ thresh <= rs.ppb
  BY <1>r
<1>3. thresh * (rs.num_pri + 1) = thresh * 2
  BY <1>r
<1> HIDE DEF seen
<1> SUFFICES ASSUME NEW pri \in rs.pri_min..rs.pri_max, NEW t \in seen, Train(t, pri) \in SUBSET seen,
                    Cardinality(seen) < thresh * 2
             PROVE  FALSE
  <2>1. e.seen = seen /\ Cardinality(seen) \in Nat
    BY <1>c DEF seen
  <2>2. \A pri \in rs.pri_min..rs.pri_max, t \in e.seen :
          {t + k * pri : k \in 0..rs.ppb_thresh - 1} \subseteq e.seen
             => Cardinality(e.seen) >= rs.ppb_thresh * (rs.num_pri + 1)
    BY <1>2, <1>3, <2>1
  <2> QED BY <2>2 DEF TrainOf
<1>4. pri \in Nat \ {0} /\ t \in Nat /\ seen \in SUBSET Nat /\ \A u \in seen : u <= ts
  BY <1>a, <1>d, <1>r DEF seen
<1>5. CASE ts \notin Train(t, pri)
  <2>1. t \in Train(t, pri)
    <3>1. 0 \in 0..rs.ppb_thresh - 1 /\ t + 0 * pri = t
      BY <1>2, <1>4
    <3> QED BY <3>1
  <2>2. Train(t, pri) \in SUBSET d.seen
    BY <1>5 DEF seen
  <2>3. t \in d.seen
    BY <2>1, <2>2
  <2>4. Cardinality(d.seen) >= rs.ppb_thresh * (rs.num_pri + 1)
    BY <1>r, <2>2, <2>3 DEF Track, TrainOf
  <2>5. Cardinality(d.seen) >= thresh * 2
    BY <1>2, <1>3, <2>4
  <2>6. Cardinality(seen) = Cardinality(d.seen) + 1 /\ Cardinality(d.seen) \in Nat
    BY <1>c DEF seen
  <2> QED BY <2>5, <2>6
<1>6. CASE ts \in Train(t, pri)
  <2>1. PICK c \in Nat : thresh = c + 2
    <3>1. thresh - 2 \in Nat /\ thresh = (thresh - 2) + 2
      BY <1>2
    <3> QED BY <3>1
  <2>2. \A k \in 0..c + 1 : t + k * pri \in seen /\ k * pri \in Nat
    BY <1>2, <1>4, <2>1
  <2>3. ts = t + (c + 1) * pri
    <3>1. PICK k \in 0..c + 1 : ts = t + k * pri
      BY <1>2, <1>6, <2>1
    <3>2. k * pri <= (c + 1) * pri
      BY <1>4, Multiples
    <3>3. t + (c + 1) * pri <= ts /\ (c + 1) * pri \in Nat
      BY <1>4, <2>2
    <3> QED BY <1>4, <2>2, <3>1, <3>2, <3>3
  <2>4. \A k \in 0..c : \E j \in 1..Len(q) : q[j] = t + k * pri
    <3> SUFFICES ASSUME NEW k \in 0..c PROVE \E j \in 1..Len(q) : q[j] = t + k * pri
      OBVIOUS
    <3>1. PICK u \in Nat : u = t + k * pri
      BY <1>4
    <3>2. PICK m \in Nat : c + 1 = k + m /\ m >= 1
      <4>1. (c + 1) - k \in Nat /\ (c + 1) - k >= 1 /\ c + 1 = k + ((c + 1) - k)
        OBVIOUS
      <4> QED BY <4>1
    <3>3. PICK b \in Nat : b = m * pri /\ b >= 1
      <4>1. 1 * pri <= m * pri /\ m * pri \in Nat
        BY <1>4, <3>2, Multiples
      <4> QED BY <1>4, <4>1
    <3>4. ts = u + b
      <4>1. (c + 1) * pri = k * pri + m * pri
        BY <1>4, <3>2
      <4>2. k * pri \in Nat
        BY <1>4
      <4> QED BY <1>4, <2>3, <3>1, <3>3, <4>1, <4>2
    <3>5. u \in d.seen
      BY <2>2, <3>1, <3>3, <3>4 DEF seen
    <3>6. b <= window_size(rs) /\ window_size(rs) \in Nat
      <4>1. m <= rs.ppb
        BY <1>2, <1>r, <2>1, <3>2
      <4>2. m * pri <= rs.ppb * pri
        BY <1>4, <1>r, <4>1, Multiples
      <4>3. pri * rs.ppb <= rs.pri_max * rs.ppb
        BY <1>4, <1>r, Multiples
      <4>4. PICK y \in Nat, z \in Nat : y = rs.ppb * pri /\ y = pri * rs.ppb /\ z = rs.pri_max * rs.ppb
        BY <1>4, <1>r
      <4> QED BY <1>r, <3>3, <4>2, <4>3, <4>4
    <3>7. u + window_size(rs) >= q[1]
      BY <1>a, <3>4, <3>6
    <3>8. Cardinality(d.seen) < max_count(rs)
      BY <1>2, <1>c, <1>r
    <3>9. \E j \in DOMAIN q : q[j] = u
      BY <1>r, <3>5, <3>7, <3>8 DEF Track, Reach
    <3> QED BY <1>d, <3>1, <3>9
  <2>5. PICK i \in 1..Len(q) : q[i] = t + c * pri
    <3>1. c \in 0..c
      OBVIOUS
    <3> QED BY <2>4, <3>1, Zenon
  <2> DEFINE x == NewSequence(rs, q, ts, i)
  <2>6. x.count >= thresh
    <3>1. c + 2 <= rs.ppb
      BY <1>2, <2>1
    <3>2. x.count >= c + 2
      BY <1>4, <2>3, <2>4, <2>5, <3>1, CountsTrain
    <3> QED BY <2>1, <3>2
  <2>7. ts - q[i] = pri
    <3>1. (c + 1) * pri = c * pri + pri /\ c * pri \in Nat
      BY <1>4
    <3> QED BY <1>4, <2>3, <2>5, <3>1
  <2>8. SeqInv(x, seen, ts) /\ x.count \in Nat
    <3>1. ts \notin d.seen /\ ts - d.pulses[i] \in rs.pri_min..rs.pri_max
      BY <1>a, <2>7
    <3>2. SeqInv(x, d.seen \union {ts}, ts)
      BY <3>1, NewSequenceIs
    <3> QED BY <3>2, SeqFields DEF seen, SeqFacts
  <2> HIDE DEF x
  <2>9. Cardinality(seen) < 2 * rs.ppb_thresh
    BY <1>2, <1>c DEF seen
  <2>10. CASE x.count > Longest(rs, d, ts)
    <3>1. x \in News(rs, d, ts)
      BY <1>d, <2>7, <2>10 DEF x, News, pde_short_create_sequences
    <3>2. x \in After(rs, d, ts)
      BY <3>1 DEF After
    <3>3. Passes(rs, x)
      BY <1>2, <1>c, <1>p, <2>6, <2>9, <3>2, Enough DEF seen
    <3> QED BY <1>p, <3>2, <3>3
  <2>11. CASE ~(x.count > Longest(rs, d, ts))
    <3> DEFINE T == {0} \union {ps.count : ps \in {s \in Olds(rs, d, ts) : s.last_ts = ts}}
    <3>1. PICK n \in Nat : n = Cardinality(seen)
      BY <1>c DEF seen
    <3>2. T \in SUBSET (0..n)
      <4> SUFFICES ASSUME NEW ps \in Olds(rs, d, ts) PROVE ps.count \in 0..n
        BY <3>1
      <4>1. SeqInv(ps, seen, ts)
        BY <1>p DEF After
      <4>2. /\ ps.count \in Nat /\ ps.count_falses \in Nat
            /\ ps.count + ps.count_falses = Cardinality(Since(seen, ps.first_ts))
        BY <4>1, SeqFields DEF SeqFacts
      <4>3. Since(seen, ps.first_ts) \in SUBSET seen
        BY DEF Since
      <4>4. Cardinality(Since(seen, ps.first_ts)) <= n
        BY <1>c, <3>1, <4>3, FS_Subset DEF seen
      <4> QED BY <3>1, <4>2, <4>4
    <3>3. T # {} /\ Longest(rs, d, ts) = Largest(T)
      BY DEF Longest
    <3> HIDE DEF T
    <3>4. Largest(T) \in T
      BY <3>1, <3>2, <3>3, LargestIs
    <3>5. Largest(T) >= thresh /\ Largest(T) \in Nat
      <4>1. Largest(T) \in 0..n
        BY <3>2, <3>4
      <4>2. ~(x.count > Largest(T))
        BY <2>11, <3>3
      <4> QED BY <2>6, <2>8, <4>1, <4>2
    <3>6. PICK ps \in Olds(rs, d, ts) : ps.count = Largest(T)
      <4>1. PICK z \in T : z = Largest(T)
        BY <3>4
      <4>2. z # 0
        BY <1>2, <3>5, <4>1
      <4>3. \E ps \in Olds(rs, d, ts) : ps.count = z
        BY <4>2 DEF T
      <4> QED BY <4>1, <4>3
    <3>7. ps \in After(rs, d, ts) /\ ps.count >= rs.ppb_thresh
      BY <1>2, <3>5, <3>6 DEF After
    <3>8. Passes(rs, ps)
      BY <1>c, <1>p, <2>9, <3>7, Enough DEF seen
    <3> QED BY <1>p, <3>7, <3>8
  <2> QED BY <2>10, <2>11
<1> QED BY <1>5, <1>6

\* A pulse completes a pattern, or misses none.
Answers(rs, found, e) ==
  /\ found /\ rs.type = "short" => Real(rs, e.seen)
  /\ ~found => Track(rs, e)
LEMMA TrackStep ==
  ASSUME NEW rs, IsSpec(rs), rs.type = "short" => IsShort(rs), NEW d, NEW now \in Nat, DetInv(rs, d, now),
         Track(rs, d), NEW ts \in Nat, now <= ts
  PROVE  Answers(rs, add_pulse(rs, d, ts).found, add_pulse(rs, d, ts).d)
<1>1. CASE rs.type # "short"
  BY <1>1 DEF Track, Answers
<1>2. CASE rs.type = "short"
  <2> DEFINE r == add_pulse(rs, d, ts)
             e == r.d
  <2>0. IsShort(rs) /\ QueueInv(rs, d, now) /\ ShortInv(d) /\ r = pde_short_add_pulse(rs, d, ts)
    BY <1>2 DEF DetInv, add_pulse
  <2>d. d.pulses \in Seq(Nat) /\ Len(d.pulses) \in Nat /\ IsDetector(d)
    BY <2>0, QueueFacts DEF QueueInv
  <2>1. CASE d.pulses = <<>>
    <3>1. r.found = FALSE /\ e = pulse_queue_enqueue(rs, d, ts)
      BY <2>0, <2>1 DEF pde_short_add_pulse
    <3>2. d.sequences = {} /\ d.seen = {}
      BY <2>0, <2>1 DEF QueueInv
    <3>3. d = With(d, d.pulses, d.sequences)
      BY <2>d DEF IsDetector, With, Detector
    <3>4. Before(d, d.pulses, ts)
      BY <2>1, <2>d DEF Before
    <3> HIDE DEF r
    <3>5. e = pulse_queue_enqueue(rs, With(d, d.pulses, d.sequences), ts)
      BY <3>1, <3>3, Zenon
    <3>6. Queued(rs, d, d.pulses, d.sequences, ts, pulse_queue_enqueue(rs, With(d, d.pulses, d.sequences), ts))
      BY <2>0, <3>4, QueueStep
    <3>7. QueueInv(rs, e, ts) /\ e.sequences = {} /\ e.seen = {ts} /\ e.pulses[1] = ts /\ Len(e.pulses) >= 1
      BY <2>d, <3>2, <3>5, <3>6 DEF Queued
    <3>8. TrainOf(rs, e)
      <4> SUFFICES ASSUME NEW pri \in rs.pri_min..rs.pri_max, NEW t \in e.seen,
                          {t + k * pri : k \in 0..rs.ppb_thresh - 1} \subseteq e.seen
                   PROVE  FALSE
        BY DEF TrainOf
      <4>1. rs.ppb_thresh \in 2..rs.ppb /\ rs.ppb \in Nat /\ rs.pri_min \in Nat \ {0} /\ rs.pri_max \in Nat
        BY <2>0 DEF IsShort
      <4>2. pri \in Nat \ {0} /\ 1 \in 0..rs.ppb_thresh - 1
        BY <4>1
      <4>3. t = ts /\ t + 1 * pri = ts
        BY <3>7, <4>2
      <4> QED BY <4>2, <4>3
    <3>9. Reach(rs, e)
      <4>1. 1 \in DOMAIN e.pulses
        BY <3>7, QueueFacts
      <4> QED BY <3>7, <4>1 DEF Reach
    <3>10. Track(rs, e)
      BY <3>7, <3>8, <3>9 DEF Track
    <3> QED BY <3>1, <3>10 DEF Answers, r
  <2>2. CASE d.pulses # <<>> /\ ~Apt(rs, d, ts)
    <3>1. r.found = FALSE /\ e = d
      BY <2>0, <2>2 DEF Apt, pde_short_add_pulse
    <3> HIDE DEF r
    <3> QED BY <3>1 DEF Answers, r
  <2>3. CASE Apt(rs, d, ts)
    <3> DEFINE S == After(rs, d, ts)
    <3>1. r.found = pde_short_check_detection(rs, S) /\ Queued(rs, d, d.pulses, S, ts, e)
      BY <2>0, <2>3, Takes
    <3> HIDE DEF r
    <3>2. e.sequences = S /\ e.seen = d.seen \union {ts}
      BY <3>1 DEF Queued
    <3>3. ASSUME r.found PROVE Real(rs, e.seen)
      <4>1. pde_short_check_detection(rs, S)
        BY <3>1, <3>3
      <4>2. Real(rs, d.seen \union {ts})
        BY <2>0, <2>3, <4>1, FoundReal
      <4> QED BY <3>2, <4>2
    <3>4. ASSUME ~r.found PROVE Track(rs, e)
      <4>1. ~pde_short_check_detection(rs, S)
        BY <3>1, <3>4
      <4>2. TrainOf(rs, e)
        BY <2>0, <2>3, <3>2, <4>1, TrainStep
      <4>3. Reach(rs, d)
        BY <1>2 DEF Track
      <4>4. Reach(rs, e)
        BY <2>0, <2>3, <3>1, <4>3, ReachStep
      <4>5. \A x \in S : Chain(rs, x, d.seen \union {ts})
        BY <2>0, <2>3, AfterChain
      <4>6. \A x \in S : ~Passes(rs, x)
        BY <4>1 DEF pde_short_check_detection, Passes
      <4> HIDE DEF S
      <4> QED BY <3>2, <4>2, <4>4, <4>5, <4>6 DEF Track
    <3> QED BY <3>3, <3>4 DEF Answers, r
  <2> QED BY <2>1, <2>2, <2>3 DEF Apt
<1> QED BY <1>1, <1>2

\* No detector has missed a pattern.
Tracked(r, D) == \A i \in Types(r) : \A f \in Freq : Track(Specs[r][i], D[i][f])

LEMMA EmptyTracked ==
  ASSUME NEW rs PROVE Track(rs, Empty)
BY DEF Track, TrainOf, Reach, Empty

LEMMA AllEmptyTracked ==
  ASSUME NEW r PROVE Tracked(r, AllEmpty(r))
BY EmptyTracked DEF Tracked, AllEmpty

\* The same specification, where it is a short one.
LEMMA ShortAt ==
  ASSUME NEW r \in Region \union {Unset}, NEW i \in Types(r), Specs[r][i].type = "short"
  PROVE  IsShort(Specs[r][i])
<1>1. r \in Region
  BY DEF Types
<1> QED BY <1>1, ShortsAre

\* What a pulse reports is a pattern, or none has been missed.
LEMMA PulseTracked ==
  ASSUME IInv, Tracked(region, detectors), NEW f \in Freq, NEW pri \in Pri, NEW len \in Width,
         dfs_pattern_detector_add_pulse(f, pri, len)
  PROVE  Tracked(region, detectors') /\ PatternReal'
<1>0. region \in Region \union {Unset} /\ last_pulse_ts \in Nat /\ Rows(region, detectors, last_pulse_ts)
  BY DEF IInv
<1> DEFINE Q == IF pri = 0 THEN dfs_pattern_detector_pri_overflow(detectors) ELSE detectors
           fits == {i \in Types(region) : len \in Specs[region][i].width_min..Specs[region][i].width_max}
<1>1. PICK delta \in IF pri = 0 THEN Overflow ELSE {pri} :
  LET ts == last_pulse_ts + delta
  IN  /\ region # Unset
      /\ \E g \in [fits -> Freq] :
           /\ \A i \in fits : g[i] \in pri_detector_get(Q[i], f)
           /\ LET r == [i \in fits |-> add_pulse(Specs[region][i], Q[i][g[i]], ts)]
                  found == {i \in fits : r[i].found}
              IN  IF found = {}
                  THEN /\ detectors' = [i \in DOMAIN Q |->
                            IF i \in fits THEN [Q[i] EXCEPT ![g[i]] = r[i].d] ELSE Q[i]]
                       /\ last_pulse_ts' = ts /\ detected' = NoRadar
                  ELSE /\ detectors' = AllEmpty(region) /\ last_pulse_ts' = 0
                       /\ LET i == CHOOSE i \in found : \A j \in found : i <= j
                          IN  detected' = [by |-> "pattern", rs |-> Specs[region][i], seen |-> r[i].d.seen]
      /\ UNCHANGED region
  BY DEF dfs_pattern_detector_add_pulse
<1> DEFINE ts == last_pulse_ts + delta
<1>2. ts \in Nat /\ last_pulse_ts <= ts
  <2>1. delta \in Nat
    BY RadarAssumption
  <2> QED BY <1>0, <2>1
<1>3. Rows(region, Q, last_pulse_ts) /\ Tracked(region, Q)
  <2>1. CASE pri = 0
    <3>1. DOMAIN Q = Types(region)
      BY <1>0, <2>1 DEF dfs_pattern_detector_pri_overflow, Rows
    <3>2. ASSUME NEW i \in Types(region)
          PROVE  /\ Row(Specs[region][i], Q[i], last_pulse_ts)
                 /\ \A h \in Freq : Track(Specs[region][i], Q[i][h])
      <4>2. Q[i] = IF Specs[region][i].type = "long" THEN detectors[i] ELSE [h \in Freq |-> Empty]
        BY <1>0, <2>1, <3>1 DEF dfs_pattern_detector_pri_overflow, Rows
      <4>3. /\ Row(Specs[region][i], [h \in Freq |-> Empty], last_pulse_ts)
            /\ \A h \in Freq : Track(Specs[region][i], [g \in Freq |-> Empty][h])
        BY <1>0, SpecAt, EmptyRow, EmptyTracked
      <4>4. Row(Specs[region][i], detectors[i], last_pulse_ts) /\ \A h \in Freq : Track(Specs[region][i], detectors[i][h])
        BY <1>0 DEF Rows, Tracked
      <4> HIDE DEF Q
      <4> QED BY <4>2, <4>3, <4>4
    <3> HIDE DEF Q
    <3> QED BY <3>1, <3>2 DEF Rows, Tracked
  <2>2. CASE pri # 0
    BY <1>0, <2>2
  <2> QED BY <2>1, <2>2
<1> HIDE DEF ts, Q
<1>4. PICK g \in [fits -> Freq] :
           /\ \A i \in fits : g[i] \in pri_detector_get(Q[i], f)
           /\ LET r == [i \in fits |-> add_pulse(Specs[region][i], Q[i][g[i]], ts)]
                  found == {i \in fits : r[i].found}
              IN  IF found = {}
                  THEN /\ detectors' = [i \in DOMAIN Q |->
                            IF i \in fits THEN [Q[i] EXCEPT ![g[i]] = r[i].d] ELSE Q[i]]
                       /\ last_pulse_ts' = ts /\ detected' = NoRadar
                  ELSE /\ detectors' = AllEmpty(region) /\ last_pulse_ts' = 0
                       /\ LET i == CHOOSE i \in found : \A j \in found : i <= j
                          IN  detected' = [by |-> "pattern", rs |-> Specs[region][i], seen |-> r[i].d.seen]
  BY <1>1 DEF ts
<1> DEFINE r == [i \in fits |-> add_pulse(Specs[region][i], Q[i][g[i]], ts)]
           found == {i \in fits : r[i].found}
<1>5. ASSUME NEW i \in fits PROVE Answers(Specs[region][i], r[i].found, r[i].d)
  <2> DEFINE rs == Specs[region][i]
             d == Q[i][g[i]]
  <2>1. i \in Types(region) /\ g[i] \in Freq /\ r[i] = add_pulse(rs, d, ts)
    OBVIOUS
  <2>2. IsSpec(rs) /\ (rs.type = "short" => IsShort(rs))
    BY <1>0, <2>1, SpecAt, ShortAt
  <2>3. DetInv(rs, d, last_pulse_ts) /\ Track(rs, d)
    BY <1>3, <2>1 DEF Rows, Row, Tracked
  <2> HIDE DEF rs, d, r
  <2>4. Answers(rs, add_pulse(rs, d, ts).found, add_pulse(rs, d, ts).d)
    BY <1>0, <1>2, <2>2, <2>3, TrackStep
  <2> QED BY <2>1, <2>4 DEF rs
<1>6. CASE found = {}
  <2>1. /\ detectors' = [i \in DOMAIN Q |-> IF i \in fits THEN [Q[i] EXCEPT ![g[i]] = r[i].d] ELSE Q[i]]
        /\ detected' = NoRadar
    BY <1>4, <1>6
  <2>2. DOMAIN Q = Types(region)
    BY <1>3 DEF Rows
  <2>3. ASSUME NEW i \in Types(region), NEW h \in Freq
        PROVE  Track(Specs[region][i], detectors'[i][h])
    <3>1. Track(Specs[region][i], Q[i][h]) /\ DOMAIN Q[i] = Freq
      BY <1>3 DEF Tracked, Rows, Row
    <3>2. CASE i \in fits
      <4>1. detectors'[i] = [Q[i] EXCEPT ![g[i]] = r[i].d]
        BY <2>1, <2>2, <3>2
      <4>2. ~r[i].found
        BY <1>6, <3>2
      <4>3. Track(Specs[region][i], r[i].d)
        BY <1>5, <3>2, <4>2 DEF Answers
      <4> HIDE DEF r
      <4> QED BY <3>1, <4>1, <4>3
    <3>3. CASE i \notin fits
      BY <2>1, <2>2, <3>1, <3>3
    <3> QED BY <3>2, <3>3
  <2>4. detected'.by = "nothing"
    BY <2>1 DEF NoRadar
  <2> QED BY <2>3, <2>4 DEF Tracked, PatternReal
<1>7. CASE found # {}
  <2> DEFINE i == CHOOSE i \in found : \A j \in found : i <= j
  <2>1. /\ detectors' = AllEmpty(region)
        /\ detected' = [by |-> "pattern", rs |-> Specs[region][i], seen |-> r[i].d.seen]
    BY <1>4, <1>7
  <2>2. i \in found
    <3>1. found \in SUBSET Nat
      <4>1. Types(region) \in SUBSET Nat
        BY <1>0, RadarAssumption DEF Types
      <4> QED BY <4>1
    <3> HIDE DEF found
    <3> QED BY <1>7, <3>1, Least
  <2> HIDE DEF i
  <2>3. i \in fits /\ r[i].found
    BY <2>2
  <2>4. Answers(Specs[region][i], r[i].found, r[i].d)
    BY <1>5, <2>3
  <2> DEFINE e == r[i].d
  <2> HIDE DEF r
  <2>5. detected'.rs = Specs[region][i] /\ detected'.seen = e.seen
    BY <2>1
  <2>6. detected'.rs.type = "short" => Real(detected'.rs, detected'.seen)
    BY <2>3, <2>4, <2>5 DEF Answers
  <2>7. PatternReal'
    BY <2>6 DEF PatternReal, Real
  <2>8. Tracked(region, detectors')
    BY <2>1, AllEmptyTracked
  <2> QED BY <2>7, <2>8
<1> QED BY <1>6, <1>7

\* The patterns hold in the first state and after every step.
LEMMA PatternsInit == Init => Tracked(region, detectors) /\ PatternReal
<1> SUFFICES ASSUME Init PROVE Tracked(region, detectors) /\ PatternReal
  OBVIOUS
<1>1. region = Unset /\ detectors = AllEmpty(Unset) /\ detected.by = "nothing"
  BY DEF Init, NoRadar
<1> QED BY <1>1, AllEmptyTracked DEF PatternReal

Patterns == IInv /\ Tracked(region, detectors) /\ PatternReal

LEMMA PatternsNext == Patterns /\ [Next]_vars => Patterns'
<1> SUFFICES ASSUME Patterns, [Next]_vars PROVE Patterns'
  OBVIOUS
<1>0. IInv' /\ IInv /\ Tracked(region, detectors) /\ PatternReal
  BY NextInv DEF Patterns
<1>1. CASE UNCHANGED vars
  <2>1. region' = region /\ detectors' = detectors /\ detected' = detected
    BY <1>1 DEF vars
  <2> QED BY <1>0, <2>1 DEF Patterns, Tracked, PatternReal
<1>2. CASE Next
  <2>1. ASSUME NEW f \in Freq, NEW pri \in Pri, NEW len \in Width,
               dfs_pattern_detector_add_pulse(f, pri, len)
        PROVE  Tracked(region, detectors)' /\ PatternReal'
    <3>1. Tracked(region, detectors') /\ PatternReal'
      BY <1>0, <2>1, PulseTracked
    <3>2. region' = region
      BY <2>1 DEF dfs_pattern_detector_add_pulse
    <3> QED BY <3>1, <3>2 DEF Tracked
  <2>2. CASE UnsetIsRadar
    <3>1. detected'.by = "failsafe" /\ region' = region /\ detectors' = detectors
      BY <2>2 DEF UnsetIsRadar
    <3> QED BY <1>0, <3>1 DEF Patterns, Tracked, PatternReal
  <2>3. ASSUME NEW r \in Region \union {Unset}, dfs_pattern_detector_set_domain(r)
        PROVE  Tracked(region, detectors)' /\ PatternReal'
    <3>1. region' = r /\ detectors' = AllEmpty(r) /\ detected' = detected
      BY <2>3 DEF dfs_pattern_detector_set_domain
    <3>2. Tracked(r, AllEmpty(r))
      BY AllEmptyTracked
    <3> QED BY <1>0, <3>1, <3>2 DEF Tracked, PatternReal
  <2> QED BY <1>0, <1>2, <2>1, <2>2, <2>3 DEF Next, Patterns
<1> QED BY <1>1, <1>2

\* What they are for.
LEMMA PatternsIs == Patterns => TrainDetected /\ PatternReal
<1> SUFFICES ASSUME Patterns
             PROVE  TrainDetected
  BY DEF Patterns
<1>1. ASSUME NEW i \in Types(region), NEW f \in DOMAIN detectors[i]
      PROVE  TrainOf(Specs[region][i], detectors[i][f])
  <2>1. DOMAIN detectors[i] = Freq
    BY DEF Patterns, IInv, Rows, Row
  <2>2. Track(Specs[region][i], detectors[i][f])
    BY <2>1 DEF Patterns, Tracked
  <2> QED BY <2>2 DEF Track, TrainOf
<1> QED BY <1>1 DEF TrainDetected, Every

\* A train of pulses at exactly one PRI of a short type is reported with its
\* threshold's last pulse at the latest, unless there came as many other pulses
\* since the reset: none of the sequences those start, and neither the window
\* nor the full queue, hides it (pde_short_create_sequences,
\* pulse_queue_enqueue).  For every table of types and sequence of pulses.
THEOREM TrainTheorem == Spec => []TrainDetected
BY InitInv, PatternsInit, PatternsNext, PatternsIs, PTL DEF Spec, Patterns

\* Whatever is reported as a short radar is a pattern: its threshold of pulses
\* at multiples of a PRI of the type before the last, each up to the tolerance
\* from the one before (pde_short_check_detection).
THEOREM RealTheorem == Spec => []PatternReal
BY InitInv, PatternsInit, PatternsNext, PatternsIs, PTL DEF Spec, Patterns

=============================================================================
