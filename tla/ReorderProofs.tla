---------------------------- MODULE ReorderProofs ----------------------------
(***************************************************************************)
(* Proofs about the receive reordering: the window of a block-ack session  *)
(* (ReorderWindow), for every window size and set of indices, and the      *)
(* driver's buffer (RxReorder), which implements it on 12-bit numbers, for *)
(* every modulus, window, pool and gap the driver's comparisons allow.     *)
(***************************************************************************)
EXTENDS RxReorder, ReorderWindowState, FiniteSetTheorems, SequenceTheorems, WellFoundedInduction, TLAPS

Alone == INSTANCE ReorderWindow

-----------------------------------------------------------------------------
(* The window: what it holds stays inside, and frames leave it in order.    *)
(* The inductive invariant is the conjunction of Alone!TypeOK and WindowBound:    *)
(* order follows from it because a held frame lies above the position the   *)
(* window has, and a frame handed up below the one it gets.                 *)

WinInv == Alone!TypeOK /\ WindowBound

(* Moving a window whose frames all lie at or above base and less than WinSize
   above the new lower end keeps the invariant and hands up in order. *)
LEMMA AdvanceSound ==
  ASSUME NEW held \in SUBSET Index, NEW lo \in Int, NEW base \in Int,
         base <= lo, \A y \in held : base <= y /\ y < lo + WinSize,
         Alone!Advance(held, lo)
  PROVE  Alone!TypeOK' /\ WindowBound' /\ ind' # Unset /\ lo <= ind'
         /\ \A y \in out' : base <= y /\ y < ind'
<1>1. PICK n \in Index : /\ Alone!FirstHole(held, lo, n)
                         /\ ind' = n
                         /\ buf' = {y \in held : y > n}
                         /\ out' = {y \in held : y < n}
  BY DEF Alone!Advance
<1>2. n \in Int /\ lo <= n /\ n # Unset
  BY <1>1, IndexAssumption DEF Alone!FirstHole
<1>3. \A y \in held : y \in Int
  BY IndexAssumption
<1>4. Alone!TypeOK'
  BY <1>1 DEF Alone!TypeOK
<1>5. WindowBound'
  BY <1>1, <1>2, <1>3, WinSizeAssumption DEF WindowBound
<1>6. QED
  BY <1>1, <1>2, <1>3, <1>4, <1>5

(* What one step of the window does to the invariant and to the order. *)
LEMMA StepSound ==
  ASSUME WinInv, Alone!Next
  PROVE  /\ WinInv'
         /\ \A y \in out' :
              /\ ind # Unset /\ ind' # Unset /\ ind' # ind => ind <= y /\ y < ind'
              /\ ind # Unset /\ y < ind => ind' = ind /\ buf' = buf /\ out' = {y}
<1> USE DEF WinInv
<1>1. /\ buf \in SUBSET Index /\ out \in SUBSET Index /\ ind \in Index \cup {Unset}
      /\ \A y \in Index : y \in Int
      /\ Unset \notin Index /\ WinSize \in Nat \ {0}
  BY IndexAssumption, WinSizeAssumption DEF Alone!TypeOK
<1>2. ASSUME NEW x \in Index, Alone!Accept(x)
      PROVE  WinInv' /\ (ind # Unset => \A y \in out' : ind <= y /\ y < ind')
  <2> DEFINE lo == IF x - WinSize + 1 > Alone!Base(x) THEN x - WinSize + 1 ELSE Alone!Base(x)
  <2>1. x \in Int /\ x \notin buf /\ Alone!Base(x) \in Int /\ x >= Alone!Base(x)
    BY <1>1, <1>2 DEF Alone!Accept, Alone!Base
  <2>2. \A y \in buf : Alone!Base(x) <= y /\ y < Alone!Base(x) + WinSize
    <3>1. SUFFICES ASSUME NEW y \in buf PROVE Alone!Base(x) <= y /\ y < Alone!Base(x) + WinSize
      OBVIOUS
    <3>2. y \in Int /\ ind # Unset /\ ind \in Int /\ ind < y /\ y < ind + WinSize
      BY <1>1 DEF WindowBound
    <3>3. Alone!Base(x) = ind
      BY <3>2 DEF Alone!Base
    <3>4. QED
      BY <1>1, <3>2, <3>3
  <2>3. lo \in Int /\ Alone!Base(x) <= lo /\ x < lo + WinSize
    BY <1>1, <2>1
  <2>4. \A y \in buf \cup {x} : Alone!Base(x) <= y /\ y < lo + WinSize
    BY <1>1, <2>1, <2>2, <2>3
  <2>5. Alone!Advance(buf \cup {x}, lo) /\ buf \cup {x} \in SUBSET Index
    BY <1>1, <1>2 DEF Alone!Accept
  <2> HIDE DEF lo
  <2>6. Alone!TypeOK' /\ WindowBound' /\ \A y \in out' : Alone!Base(x) <= y /\ y < ind'
    BY <2>1, <2>3, <2>4, <2>5, AdvanceSound
  <2>7. QED
    BY <2>6 DEF Alone!Base
<1>3. ASSUME NEW x \in Index, Alone!Late(x)
      PROVE  WinInv' /\ ind' = ind /\ buf' = buf /\ out' = {x}
  BY <1>1, <1>3 DEF Alone!Late, Alone!TypeOK, WindowBound
<1>4. ASSUME Alone!GiveUp
      PROVE  WinInv' /\ ind # Unset /\ \A y \in out' : ind <= y /\ y < ind'
  <2>1. PICK lo \in buf : (\A y \in buf : lo <= y) /\ Alone!Advance(buf, lo)
    BY <1>4 DEF Alone!GiveUp
  <2>2. ind # Unset /\ ind \in Int /\ lo \in Int /\ ind <= lo
    BY <1>1, <2>1 DEF WindowBound
  <2>3. \A y \in buf : ind <= y /\ y < lo + WinSize
    BY <1>1, <2>2 DEF WindowBound
  <2>4. QED
    BY <1>1, <2>1, <2>2, <2>3, AdvanceSound
<1>5. ASSUME Alone!Flush
      PROVE  WinInv' /\ ind' = Unset /\ \A y \in out' : ind # Unset /\ ind < y
  BY <1>1, <1>5 DEF Alone!Flush, Alone!TypeOK, WindowBound
<1>6. ASSUME Alone!Discard \/ Alone!Idle
      PROVE  WinInv' /\ out' = {}
  BY <1>1, <1>6 DEF Alone!Discard, Alone!Idle, Alone!TypeOK, WindowBound
<1>7. \A y \in out' : y \in Int
  BY <1>1, <1>2, <1>3, <1>4, <1>5, <1>6 DEF Alone!Next, Alone!TypeOK
<1>8. QED
  BY <1>1, <1>2, <1>3, <1>4, <1>5, <1>6, <1>7 DEF Alone!Next

(* The held frames stay inside the window: at most WinSize - 1 frames wait
   behind the hole, for every window size. *)
THEOREM WindowTheorem == Alone!Spec => [](Alone!TypeOK /\ WindowBound)
<1>1. Alone!Init => WinInv
  BY DEF Alone!Init, WinInv, Alone!TypeOK, WindowBound
<1>2. WinInv /\ [Alone!Next]_(Alone!vars) => WinInv'
  <2>1. WinInv /\ UNCHANGED Alone!vars => WinInv'
    BY DEF Alone!vars, WinInv, Alone!TypeOK, WindowBound
  <2>2. QED
    BY <2>1, StepSound
<1>3. QED
  BY <1>1, <1>2, PTL DEF Alone!Spec, WinInv

(* Frames leave the window in order, and only a late frame, which moves
   nothing, comes from below it. *)
THEOREM OrderTheorem == Alone!Spec => OrderedRelease
<1>1. WinInv /\ [Alone!Next]_(Alone!vars)
        => [\A y \in out' :
              /\ ind # Unset /\ ind' # Unset /\ ind' # ind => ind <= y /\ y < ind'
              /\ ind # Unset /\ y < ind => ind' = ind /\ buf' = buf /\ out' = {y}]_<<ind, buf, out>>
  BY StepSound DEF Alone!vars
<1>2. Alone!Spec => []WinInv
  BY WindowTheorem DEF WinInv
<1>3. QED
  BY <1>1, <1>2, PTL DEF Alone!Spec, OrderedRelease

-----------------------------------------------------------------------------
(* Sequence numbers: what the driver reads off 12 bits, in terms of frames. *)

\* A number is its quotient times the modulus and its remainder.
LEMMA DivMod ==
  ASSUME NEW a \in Int, NEW m \in Nat \ {0}
  PROVE  a = m * (a \div m) + (a % m) /\ a % m \in 0 .. m - 1 /\ a \div m \in Int
  BY SMT

(* A quotient and a remainder are the only ones of their number. *)
LEMMA Unique ==
  ASSUME NEW m \in Nat \ {0}, NEW p \in Int, NEW q \in Int,
         NEW r \in 0 .. m - 1, NEW s \in 0 .. m - 1, m * p + r = m * q + s
  PROVE  p = q /\ r = s
<1>1. ~(p < q)
  <2>1. SUFFICES ASSUME p < q PROVE FALSE
    OBVIOUS
  <2>2. m * (q - p - 1) >= 0
    BY <2>1
  <2>3. m * q = m * p + m + m * (q - p - 1)
    OBVIOUS
  <2>4. QED
    BY <2>2, <2>3
<1>2. ~(q < p)
  <2>1. SUFFICES ASSUME q < p PROVE FALSE
    OBVIOUS
  <2>2. m * (p - q - 1) >= 0
    BY <2>1
  <2>3. m * p = m * q + m + m * (p - q - 1)
    OBVIOUS
  <2>4. QED
    BY <2>2, <2>3
<1>3. QED
  BY <1>1, <1>2

\* The remainder of a number written with one.
LEMMA ModIs ==
  ASSUME NEW m \in Nat \ {0}, NEW q \in Int, NEW r \in 0 .. m - 1
  PROVE  (m * q + r) % m = r
<1>1. m * q + r \in Int
  OBVIOUS
<1>2. QED
  BY <1>1, DivMod, Unique

(* The difference of two remainders is that of their numbers. *)
LEMMA ModDiff ==
  ASSUME NEW a \in Int, NEW b \in Int, NEW m \in Nat \ {0}
  PROVE  (a - (b % m)) % m = (a - b) % m /\ ((a % m) - b) % m = (a - b) % m
<1> DEFINE A == a \div m
           B == b \div m
           D == (a - b) \div m
           ra == a % m
           rb == b % m
           r == (a - b) % m
<1>1. A \in Int /\ B \in Int /\ D \in Int /\ ra \in Int /\ rb \in Int /\ r \in 0 .. m - 1
  BY DivMod
<1>2. a = m * A + ra /\ b = m * B + rb /\ a - b = m * D + r
  BY DivMod
<1> HIDE DEF A, B, D, ra, rb, r
<1>3. a - rb = m * (D + B) + r /\ ra - b = m * (D - A) + r
  BY <1>1, <1>2
<1>4. D + B \in Int /\ D - A \in Int
  BY <1>1
<1>5. (a - rb) % m = r /\ (ra - b) % m = r
  BY <1>1, <1>3, <1>4, ModIs
<1>6. QED
  BY <1>5 DEF ra, rb, r

\* The remainder of a number less than one modulus away from zero.
LEMMA ModSmall ==
  ASSUME NEW m \in Nat \ {0}, NEW d \in Int
  PROVE  /\ 0 <= d /\ d < m => d % m = d
         /\ -m <= d /\ d < 0 => d % m = d + m
<1>1. ASSUME 0 <= d, d < m PROVE d % m = d
  <2>1. d = m * 0 + d /\ d \in 0 .. m - 1
    BY <1>1
  <2>2. QED
    BY <2>1, ModIs
<1>2. ASSUME -m <= d, d < 0 PROVE d % m = d + m
  <2>1. d = m * (-1) + (d + m) /\ d + m \in 0 .. m - 1 /\ -1 \in Int
    BY <1>2
  <2>2. QED
    BY <2>1, ModIs
<1>3. QED
  BY <1>1, <1>2

(* Frames this close to one another are told apart by their numbers. *)
Reach == AICWF_REORDER_WINSIZE + MaxGap

\* The constants, as the lemmas below use them.
LEMMA Sizes ==
  /\ AICWF_REORDER_WINSIZE \in Nat \ {0} /\ MaxGap \in Nat /\ MAX_REORD_RXFRAME \in Nat
  /\ SnMod \in Nat \ {0} /\ SnMod \div 2 \in Nat /\ Reach \in Nat
  /\ Reach < SnMod \div 2 /\ 2 * (SnMod \div 2) <= SnMod /\ NoSn \notin Int
  BY RxAssumption DEF Reach

\* A sequence number lies in its range, and is not the unset one.
LEMMA SnType ==
  ASSUME NEW a \in Int
  PROVE  Sn(a) \in 0 .. SnMod - 1 /\ Sn(a) \in Int /\ Sn(a) # NoSn
<1>1. Sn(a) \in 0 .. SnMod - 1 /\ 0 .. SnMod - 1 \subseteq Int
  BY DivMod, Sizes DEF Sn
<1>2. QED
  BY <1>1, Sizes

\* SN_LESS orders the numbers of near frames as the frames are ordered.
LEMMA SnLess ==
  ASSUME NEW a \in Int, NEW b \in Int, b - a <= Reach + 1, a - b <= Reach
  PROVE  SN_LESS(Sn(a), Sn(b)) <=> a < b
<1>1. (Sn(a) - Sn(b)) % SnMod = (a - b) % SnMod
  <2>1. (Sn(a) - Sn(b)) % SnMod = (a - Sn(b)) % SnMod
    BY SnType, Sizes, ModDiff DEF Sn
  <2>2. QED
    BY <2>1, Sizes, ModDiff DEF Sn
<1> DEFINE d == a - b
<1>2. d \in Int /\ d <= Reach /\ -d <= Reach + 1 /\ (d < 0 <=> a < b)
  OBVIOUS
<1> HIDE DEF d
<1>3. d % SnMod >= SnMod \div 2 <=> d < 0
  <2>1. CASE d < 0
    <3>1. d % SnMod = d + SnMod
      BY <1>2, <2>1, Sizes, ModSmall
    <3>2. QED
      BY <1>2, <2>1, <3>1, Sizes
  <2>2. CASE ~(d < 0)
    <3>1. d % SnMod = d
      BY <1>2, <2>2, Sizes, ModSmall
    <3>2. QED
      BY <1>2, <2>2, <3>1, Sizes
  <2>3. QED
    BY <2>1, <2>2
<1>4. QED
  BY <1>1, <1>2, <1>3 DEF SN_LESS, d

\* Near frames with one number are one frame.
LEMMA SnSame ==
  ASSUME NEW a \in Int, NEW b \in Int, b - a <= Reach + 1, a - b <= Reach
  PROVE  Sn(a) = Sn(b) <=> a = b
<1>1. CASE a < b
  <2>1. SN_LESS(Sn(a), Sn(b))
    BY <1>1, SnLess
  <2>2. ~SN_LESS(Sn(a), Sn(a))
    BY SnLess, Sizes
  <2>3. QED
    BY <1>1, <2>1, <2>2
<1>2. CASE b < a
  <2>1. a - b <= Reach + 1 /\ b - a <= Reach
    BY <1>2, Sizes
  <2>2. SN_LESS(Sn(b), Sn(a))
    BY <1>2, <2>1, SnLess
  <2>3. ~SN_LESS(Sn(a), Sn(a))
    BY SnLess, Sizes
  <2>4. QED
    BY <1>2, <2>2, <2>3
<1>3. QED
  BY <1>1, <1>2

\* Steps of the driver's arithmetic on numbers are steps over frames.
LEMMA SnPlus ==
  ASSUME NEW a \in Int, NEW k \in Int
  PROVE  (Sn(a) + k) % SnMod = Sn(a + k)
<1> DEFINE j == -k
<1>1. (Sn(a) - j) % SnMod = (a - j) % SnMod
  <2>1. j \in Int
    OBVIOUS
  <2> HIDE DEF j
  <2>2. QED
    BY <2>1, Sizes, ModDiff DEF Sn
<1>2. Sn(a) - j = Sn(a) + k /\ a - j = a + k
  BY SnType
<1>3. QED
  BY <1>1, <1>2 DEF Sn

(* The frame of a number, of those at or below h + 1. *)
LEMMA SnBack ==
  ASSUME NEW a \in Int, NEW h \in Int, a <= h, h - a <= Reach
  PROVE  h - ((h - Sn(a)) % SnMod) = a
<1>1. (h - Sn(a)) % SnMod = (h - a) % SnMod
  BY Sizes, ModDiff DEF Sn
<1>2. (h - a) % SnMod = h - a
  BY Sizes, ModSmall
<1>3. QED
  BY <1>1, <1>2

-----------------------------------------------------------------------------
(* Sequences of frames in the peer's order.                                 *)

Sorted(s) == \A i, j \in DOMAIN s : i < j => s[i] < s[j]

(* A set of numbers has a least one. *)
LEMMA LeastNat ==
  ASSUME NEW N \in SUBSET Nat, N # {}
  PROVE  \E n \in N : \A m \in N : n <= m
<1> DEFINE R == OpToRel(<, Nat)
<1>1. IsWellFoundedOn(R, Nat)
  BY NatLessThanWellFounded
<1> HIDE DEF R
<1>2. PICK n \in N : \A m \in N : ~ (<<m, n>> \in R)
  BY <1>1, WFMin
<1>3. \A m, k \in Nat : <<k, m>> \in R <=> k < m
  BY DEF R, OpToRel
<1>4. ASSUME NEW m \in N PROVE n <= m
  <2>1. n \in Nat /\ m \in Nat /\ ~ (<<m, n>> \in R)
    BY <1>2
  <2>2. ~ (m < n)
    BY <1>3, <2>1
  <2>3. QED
    BY <2>1, <2>2
<1>5. QED
  BY <1>4

(* The place SelectInSeq finds: in front of it nothing is selected. *)
LEMMA FirstAt ==
  ASSUME NEW n \in Nat, NEW S \in SUBSET (1 .. n), S # {}
  PROVE  Min(S) \in S /\ Min(S) \in 1 .. n /\ \A j \in S : Min(S) <= j
<1>1. S \in SUBSET Nat
  OBVIOUS
<1>2. \E i \in S : \A j \in S : i <= j
  BY <1>1, LeastNat
<1>3. QED
  BY <1>2 DEF Min

(* A frame inserted in its place. *)
LEMMA Inserted ==
  ASSUME NEW F \in SUBSET Int, NEW s \in Seq(F), Sorted(s), NEW x \in F, NEW k \in 1 .. Len(s) + 1,
         \A i \in 1 .. k - 1 : s[i] < x, \A i \in k .. Len(s) : x < s[i]
  PROVE  LET t == InsertAt(s, k, x)
         IN  /\ t \in Seq(F) /\ Len(t) = Len(s) + 1
             /\ Sorted(t) /\ ToSet(t) = ToSet(s) \cup {x}
<1> DEFINE t == InsertAt(s, k, x)
<1>a. Len(s) \in Nat /\ \A i \in 1 .. Len(s) : s[i] \in F /\ s[i] \in Int
  <2>1. Len(s) \in Nat
    BY LenProperties
  <2>2. \A i \in 1 .. Len(s) : s[i] \in F
    BY ElementOfSeq
  <2>3. QED
    BY <2>1, <2>2
<1>b. /\ SubSeq(s, 1, k - 1) \in Seq(F) /\ Len(SubSeq(s, 1, k - 1)) = k - 1
      /\ \A i \in 1 .. k - 1 : SubSeq(s, 1, k - 1)[i] = s[i]
  BY <1>a, SubSeqProperties
<1>c. /\ SubSeq(s, k, Len(s)) \in Seq(F) /\ Len(SubSeq(s, k, Len(s))) = Len(s) - k + 1
      /\ \A i \in 1 .. Len(s) - k + 1 : SubSeq(s, k, Len(s))[i] = s[k + i - 1]
  BY <1>a, SubSeqProperties
<1> DEFINE A == SubSeq(s, 1, k - 1)
           B == SubSeq(s, k, Len(s))
<1>d. A \in Seq(F) /\ Len(A) = k - 1 /\ B \in Seq(F) /\ Len(B) = Len(s) - k + 1
  BY <1>b, <1>c
<1>e. t = A \o <<x>> \o B /\ <<x>> \in Seq(F) /\ Len(<<x>>) = 1 /\ <<x>>[1] = x
  BY DEF InsertAt
<1>f. \A i \in 1 .. k - 1 : A[i] = s[i]
  BY <1>b
<1>g. \A i \in 1 .. Len(s) - k + 1 : B[i] = s[k + i - 1]
  BY <1>c
<1> HIDE DEF A, B, t
<1>h. A \o <<x>> \in Seq(F) /\ Len(A \o <<x>>) = k /\ \A i \in 1 .. k : (A \o <<x>>)[i] = IF i < k THEN A[i] ELSE x
  <2>1. /\ A \o <<x>> \in Seq(F) /\ Len(A \o <<x>>) = k - 1 + 1
        /\ \A i \in 1 .. k - 1 + 1 : (A \o <<x>>)[i] = IF i <= k - 1 THEN A[i] ELSE <<x>>[i - (k - 1)]
    BY <1>d, <1>e, ConcatProperties
  <2>2. QED
    BY <1>e, <2>1
<1> DEFINE C == A \o <<x>>
<1> HIDE DEF C
<1>i. C \in Seq(F) /\ Len(C) = k /\ t = C \o B
  BY <1>e, <1>h DEF C
<1>1. t \in Seq(F) /\ Len(t) = Len(s) + 1
  <2>1. t \in Seq(F) /\ Len(t) = Len(C) + Len(B)
    BY <1>d, <1>i, ConcatProperties
  <2>2. QED
    BY <1>a, <1>d, <1>i, <2>1
<1>j. \A i \in 1 .. Len(s) + 1 : t[i] = IF i <= k THEN C[i] ELSE B[i - k]
  <2>1. \A i \in 1 .. k + (Len(s) - k + 1) : t[i] = IF i <= k THEN C[i] ELSE B[i - k]
    BY <1>d, <1>i, ConcatProperties
  <2>2. k + (Len(s) - k + 1) = Len(s) + 1
    BY <1>a
  <2>3. QED
    BY <2>1, <2>2
<1>2. \A i \in 1 .. Len(s) + 1 : t[i] = IF i < k THEN s[i] ELSE IF i = k THEN x ELSE s[i - 1]
  <2>1. SUFFICES ASSUME NEW i \in 1 .. Len(s) + 1
                 PROVE  t[i] = IF i < k THEN s[i] ELSE IF i = k THEN x ELSE s[i - 1]
    OBVIOUS
  <2>2. CASE i <= k
    BY <1>f, <1>h, <1>j, <2>2 DEF C
  <2>3. CASE k < i
    <3>1. i - k \in 1 .. Len(s) - k + 1 /\ k + (i - k) - 1 = i - 1
      BY <1>a, <2>3
    <3>2. QED
      BY <1>g, <1>j, <2>3, <3>1
  <2>4. QED
    BY <2>2, <2>3
<1>3. DOMAIN t = 1 .. Len(s) + 1 /\ DOMAIN s = 1 .. Len(s)
  BY <1>1
<1>4. \A i \in 1 .. Len(s) : s[i] \in Int
  BY <1>a
<1>5. \A i, j \in 1 .. Len(s) : i < j => s[i] < s[j]
  BY <1>3 DEF Sorted
<1>6. ASSUME NEW i \in 1 .. Len(s) + 1, NEW j \in 1 .. Len(s) + 1, i < j
      PROVE  t[i] < t[j]
  <2>1. CASE j < k
    BY <1>2, <1>5, <1>6, <2>1
  <2>2. CASE j = k
    BY <1>2, <1>6, <2>2
  <2>3. CASE k < j
    <3>1. t[j] = s[j - 1] /\ j - 1 \in 1 .. Len(s)
      BY <1>2, <1>6, <2>3
    <3>2. CASE i < k
      BY <1>2, <1>5, <1>6, <2>3, <3>1, <3>2
    <3>3. CASE i = k
      BY <1>2, <1>6, <2>3, <3>1, <3>3
    <3>4. CASE k < i
      <4>1. t[i] = s[i - 1] /\ i - 1 \in 1 .. Len(s) /\ i - 1 < j - 1
        BY <1>2, <1>6, <3>4
      <4>2. QED
        BY <1>5, <3>1, <4>1
    <3>5. QED
      BY <3>2, <3>3, <3>4
  <2>4. QED
    BY <2>1, <2>2, <2>3
<1>7. ToSet(t) \subseteq ToSet(s) \cup {x}
  <2>1. SUFFICES ASSUME NEW i \in 1 .. Len(s) + 1 PROVE t[i] = x \/ \E j \in 1 .. Len(s) : t[i] = s[j]
    BY <1>3 DEF ToSet
  <2>2. CASE i < k
    BY <1>2, <2>2
  <2>3. CASE i > k
    <3>1. i - 1 \in 1 .. Len(s) /\ t[i] = s[i - 1]
      BY <1>2, <2>3
    <3>2. QED
      BY <3>1
  <2>4. QED
    BY <1>2, <2>2, <2>3
<1>8. ToSet(s) \cup {x} \subseteq ToSet(t)
  <2>1. x \in ToSet(t)
    BY <1>2, <1>3 DEF ToSet
  <2>2. ASSUME NEW j \in 1 .. Len(s) PROVE \E i \in 1 .. Len(s) + 1 : t[i] = s[j]
    <3>1. CASE j < k
      BY <1>2, <3>1
    <3>2. CASE ~(j < k)
      <4>1. j + 1 \in 1 .. Len(s) + 1 /\ t[j + 1] = s[j]
        BY <1>2, <3>2
      <4>2. QED
        BY <4>1
    <3>3. QED
      BY <3>1, <3>2
  <2>3. QED
    BY <1>3, <2>1, <2>2 DEF ToSet
<1>9. QED
  BY <1>1, <1>3, <1>6, <1>7, <1>8 DEF Sorted, t

(* A sequence cut where the frames pass n. *)
LEMMA Cut ==
  ASSUME NEW F \in SUBSET Int, NEW s \in Seq(F), Sorted(s), NEW n \in Int, n \notin ToSet(s),
         NEW k \in 0 .. Len(s), \A i \in 1 .. k : s[i] <= n, \A i \in k + 1 .. Len(s) : n < s[i]
  PROVE  LET front == SubSeq(s, 1, k)
             back == SubSeq(s, k + 1, Len(s))
         IN  /\ front \in Seq(F) /\ Sorted(front) /\ ToSet(front) = {y \in ToSet(s) : y < n}
             /\ back \in Seq(F) /\ Sorted(back) /\ ToSet(back) = {y \in ToSet(s) : y > n}
             /\ Len(front) + Len(back) = Len(s)
<1> DEFINE front == SubSeq(s, 1, k)
           back == SubSeq(s, k + 1, Len(s))
<1>a. Len(s) \in Nat /\ \A i \in 1 .. Len(s) : s[i] \in F /\ s[i] \in Int
  <2>1. Len(s) \in Nat
    BY LenProperties
  <2>2. \A i \in 1 .. Len(s) : s[i] \in F
    BY ElementOfSeq
  <2>3. QED
    BY <2>1, <2>2
<1>b. front \in Seq(F) /\ Len(front) = k /\ \A i \in 1 .. k : front[i] = s[i]
  BY <1>a, SubSeqProperties
<1>c. /\ back \in Seq(F) /\ Len(back) = Len(s) - k
      /\ \A i \in 1 .. Len(s) - (k + 1) + 1 : back[i] = s[(k + 1) + i - 1]
  BY <1>a, SubSeqProperties
<1> HIDE DEF front, back
<1>1. /\ front \in Seq(F) /\ Len(front) = k /\ DOMAIN front = 1 .. k
      /\ back \in Seq(F) /\ Len(back) = Len(s) - k /\ DOMAIN back = 1 .. Len(s) - k
      /\ DOMAIN s = 1 .. Len(s)
  BY <1>b, <1>c
<1>2. \A i \in 1 .. k : front[i] = s[i]
  BY <1>b
<1>3. \A i \in 1 .. Len(s) - k : back[i] = s[i + k]
  <2>1. SUFFICES ASSUME NEW i \in 1 .. Len(s) - k PROVE back[i] = s[i + k]
    OBVIOUS
  <2>2. i \in 1 .. Len(s) - (k + 1) + 1 /\ (k + 1) + i - 1 = i + k
    BY <1>a
  <2>3. QED
    BY <1>c, <2>2
<1>4. \A i \in 1 .. Len(s) : s[i] \in Int /\ s[i] # n
  BY <1>a, <1>1 DEF ToSet
<1>5. \A i, j \in 1 .. Len(s) : i < j => s[i] < s[j]
  BY <1>1 DEF Sorted
<1>6. Sorted(front)
  <2>1. SUFFICES ASSUME NEW i \in 1 .. k, NEW j \in 1 .. k, i < j PROVE front[i] < front[j]
    BY <1>1 DEF Sorted
  <2>2. i \in 1 .. Len(s) /\ j \in 1 .. Len(s)
    BY <1>a
  <2>3. QED
    BY <1>2, <1>5, <2>1, <2>2
<1>7. Sorted(back)
  <2>1. SUFFICES ASSUME NEW i \in 1 .. Len(s) - k, NEW j \in 1 .. Len(s) - k, i < j PROVE back[i] < back[j]
    BY <1>1 DEF Sorted
  <2>2. i + k \in 1 .. Len(s) /\ j + k \in 1 .. Len(s) /\ i + k < j + k
    BY <2>1
  <2>3. QED
    BY <1>3, <1>5, <2>2
<1>8. ToSet(front) = {y \in ToSet(s) : y < n}
  <2>1. \A i \in 1 .. Len(s) : s[i] < n <=> i <= k
    BY <1>4
  <2>2. QED
    BY <1>1, <1>2, <2>1 DEF ToSet
<1>9. ToSet(back) = {y \in ToSet(s) : y > n}
  <2>1. ASSUME NEW i \in 1 .. Len(s), s[i] > n PROVE i - k \in 1 .. Len(s) - k /\ back[i - k] = s[i]
    <3>1. i - k \in 1 .. Len(s) - k
      BY <1>4, <2>1
    <3>2. QED
      BY <1>3, <3>1
  <2>2. ASSUME NEW i \in 1 .. Len(s) - k PROVE i + k \in 1 .. Len(s) /\ back[i] = s[i + k] /\ s[i + k] > n
    <3>1. i + k \in k + 1 .. Len(s) /\ i + k \in 1 .. Len(s)
      BY <2>2
    <3>2. QED
      BY <1>3, <3>1
  <2>3. ASSUME NEW y \in ToSet(back) PROVE y \in ToSet(s) /\ y > n
    <3>1. PICK i \in 1 .. Len(s) - k : y = back[i]
      BY <1>1 DEF ToSet
    <3>2. QED
      BY <1>1, <2>2, <3>1 DEF ToSet
  <2>4. ASSUME NEW y \in ToSet(s), y > n PROVE y \in ToSet(back)
    <3>1. PICK i \in 1 .. Len(s) : y = s[i]
      BY <1>1 DEF ToSet
    <3>2. i - k \in 1 .. Len(s) - k /\ back[i - k] = y
      BY <2>1, <2>4, <3>1
    <3>3. QED
      BY <1>1, <3>2 DEF ToSet
  <2>5. QED
    BY <2>3, <2>4
<1>10. QED
  <2>1. Len(front) + Len(back) = Len(s)
    BY <1>a, <1>1
  <2>2. QED
    BY <1>1, <1>6, <1>7, <1>8, <1>9, <2>1 DEF front, back

-----------------------------------------------------------------------------
(* Where the run of frames that begins at lo ends.                          *)

\* n is the first hole of T at or above lo.
Gap(T, lo, n) == lo <= n /\ n \notin T /\ \A m \in lo .. n - 1 : m \in T

\* A finite set has a first hole at or above a place.
LEMMA GapExists ==
  ASSUME NEW T \in SUBSET Int, NEW lo \in Int, NEW b \in Int, lo <= b + 1, \A y \in T : y <= b
  PROVE  \E n \in lo .. b + 1 : Gap(T, lo, n)
<1> DEFINE N == {m \in Nat : lo + m \notin T}
<1>1. b + 1 - lo \in N
  OBVIOUS
<1>2. PICK m \in N : \A k \in N : m <= k
  BY <1>1, LeastNat
<1>3. lo + m \in lo .. b + 1 /\ lo + m \notin T
  BY <1>1, <1>2
<1>4. ASSUME NEW y \in lo .. lo + m - 1 PROVE y \in T
  <2>1. y - lo \in Nat /\ ~ (m <= y - lo) /\ lo + (y - lo) = y
    BY <1>2
  <2>2. QED
    BY <1>2, <2>1
<1>5. QED
  BY <1>3, <1>4 DEF Gap

\* It has one only.
LEMMA GapUnique ==
  ASSUME NEW T, NEW lo \in Int, NEW m \in Int, NEW n \in Int, Gap(T, lo, m), Gap(T, lo, n)
  PROVE  m = n
<1>1. ~ (m < n) /\ ~ (n < m)
  BY DEF Gap
<1>2. QED
  BY <1>1

(* A set of places has a last one. *)
LEMMA LastAt ==
  ASSUME NEW n \in Nat, NEW S \in SUBSET (1 .. n), S # {}
  PROVE  Max(S) \in S /\ \A j \in S : Max(S) >= j
<1> DEFINE N == {n - j : j \in S}
<1>1. N \in SUBSET Nat /\ N # {}
  <2>1. \A j \in S : n - j \in Nat
    OBVIOUS
  <2>2. QED
    BY <2>1
<1>2. PICK k \in N : \A m \in N : k <= m
  BY <1>1, LeastNat
<1>3. PICK i \in S : k = n - i
  OBVIOUS
<1>4. \A j \in S : i >= j
  BY <1>2, <1>3
<1>5. QED
  BY <1>3, <1>4 DEF Max

(* What reord_rxframes_process has found when it has passed the frames of T,
   the run having begun at lo. *)
Found(T, lo) ==
  LET n == CHOOSE k \in Int : Gap(T, lo, k)
  IN  [ind |-> Sn(n), more |-> \E y \in T : y > n]

\* The scan over one more frame.
Passes(acc, y) ==
  IF acc.more \/ SN_LESS(acc.ind, Sn(y))
  THEN [ind |-> acc.ind, more |-> TRUE]
  ELSE [ind |-> IF acc.ind = Sn(y) THEN (acc.ind + 1) % SnMod ELSE acc.ind, more |-> FALSE]

\* What Found says while a frame beyond a hole is held.
LEMMA FoundMore ==
  ASSUME NEW T \in SUBSET Int, NEW lo \in Int, NEW n \in Int, Gap(T, lo, n), NEW z \in T, n < z
  PROVE  Found(T, lo) = [ind |-> Sn(n), more |-> TRUE]
<1>1. (CHOOSE k \in Int : Gap(T, lo, k)) = n
  BY GapUnique
<1>2. (\E y \in T : y > n) = TRUE
  OBVIOUS
<1>3. QED
  BY <1>1, <1>2 DEF Found

\* What it says when none is.
LEMMA FoundAll ==
  ASSUME NEW T \in SUBSET Int, NEW lo \in Int, NEW n \in Int, Gap(T, lo, n), \A z \in T : ~(z > n)
  PROVE  Found(T, lo) = [ind |-> Sn(n), more |-> FALSE]
<1>1. (CHOOSE k \in Int : Gap(T, lo, k)) = n
  BY GapUnique
<1>2. (\E y \in T : y > n) = FALSE
  OBVIOUS
<1>3. QED
  BY <1>1, <1>2 DEF Found

\* One frame moves the scan by one place or not at all.
LEMMA PassesIs ==
  ASSUME NEW i, NEW y
  PROVE  /\ Passes([ind |-> i, more |-> TRUE], y) = [ind |-> i, more |-> TRUE]
         /\ SN_LESS(i, Sn(y)) => Passes([ind |-> i, more |-> FALSE], y) = [ind |-> i, more |-> TRUE]
         /\ ~SN_LESS(i, Sn(y)) => Passes([ind |-> i, more |-> FALSE], y)
                                    = [ind |-> IF i = Sn(y) THEN (i + 1) % SnMod ELSE i, more |-> FALSE]
  BY DEF Passes

\* The frames of T lie above a, up to b.
Within(T, a, b) == \A z \in T : a < z /\ z <= b

(* One more frame, above all before it. *)
LEMMA FoundStep ==
  ASSUME NEW a \in Int, NEW b \in Int, NEW lo \in Int, a <= lo, lo <= b + 1, b - a <= Reach,
         NEW T \in SUBSET Int, NEW y \in Int, NEW U \in SUBSET Int, U = T \cup {y},
         Within(U, a, b), \A z \in T : z < y
  PROVE  Found(U, lo) = Passes(Found(T, lo), y)
<1>0. Reach \in Nat /\ U \in SUBSET Int /\ y \in U /\ \A z \in U : a < z /\ z <= b
  BY Sizes DEF Within
<1>a. \A z \in T : z <= b
  BY <1>0
<1>1. PICK n \in lo .. b + 1 : Gap(T, lo, n)
  BY <1>a, GapExists
<1>2. n \in Int /\ n \notin T /\ y - n <= Reach + 1 /\ n - y <= Reach
  BY <1>0, <1>1 DEF Gap
<1>4. SN_LESS(Sn(n), Sn(y)) <=> n < y
  BY <1>2, SnLess
<1>5. Sn(n) = Sn(y) <=> n = y
  BY <1>2, SnSame
<1>6. CASE n < y
  <2>1. Gap(U, lo, n)
    BY <1>1, <1>6 DEF Gap
  <2>3. Found(U, lo) = [ind |-> Sn(n), more |-> TRUE]
    BY <1>0, <1>2, <1>6, <2>1, FoundMore
  <2>4. Found(T, lo) \in {[ind |-> Sn(n), more |-> TRUE], [ind |-> Sn(n), more |-> FALSE]}
    <3>1. CASE \A z \in T : ~(z > n)
      BY <1>1, <1>2, <3>1, FoundAll
    <3>2. CASE ~(\A z \in T : ~(z > n))
      <4>1. PICK z \in T : n < z
        BY <1>2, <3>2
      <4>2. QED
        BY <1>1, <1>2, <4>1, FoundMore
    <3>3. QED
      BY <3>1, <3>2
  <2>5. Passes(Found(T, lo), y) = [ind |-> Sn(n), more |-> TRUE]
    BY <1>4, <1>6, <2>4, PassesIs
  <2>6. QED
    BY <2>3, <2>5
<1>7. CASE n >= y
  <2>1. \A z \in T : ~(z > n)
    BY <1>2, <1>7
  <2>2. Found(T, lo) = [ind |-> Sn(n), more |-> FALSE]
    BY <1>1, <1>2, <2>1, FoundAll
  <2>3. ~ SN_LESS(Sn(n), Sn(y))
    BY <1>2, <1>4, <1>7
  <2>4. Passes(Found(T, lo), y) = [ind |-> IF Sn(n) = Sn(y) THEN (Sn(n) + 1) % SnMod ELSE Sn(n), more |-> FALSE]
    BY <2>2, <2>3, PassesIs
  <2>5. CASE n = y
    <3>1. Gap(U, lo, n + 1) /\ n + 1 \in Int
      BY <1>1, <1>2, <2>5 DEF Gap
    <3>2. \A z \in U : ~(z > n + 1)
      BY <1>2, <2>5
    <3>3. Found(U, lo) = [ind |-> Sn(n + 1), more |-> FALSE]
      BY <1>0, <3>1, <3>2, FoundAll
    <3>4. (Sn(n) + 1) % SnMod = Sn(n + 1)
      BY <1>2, SnPlus
    <3>5. QED
      BY <1>5, <2>4, <2>5, <3>3, <3>4
  <2>6. CASE n # y
    <3>1. Gap(U, lo, n)
      BY <1>1, <2>6 DEF Gap
    <3>2. \A z \in U : ~(z > n)
      BY <1>2, <1>7, <2>1
    <3>3. Found(U, lo) = [ind |-> Sn(n), more |-> FALSE]
      BY <1>0, <1>2, <3>1, <3>2, FoundAll
    <3>4. QED
      BY <1>5, <2>4, <2>6, <3>3
  <2>7. QED
    BY <2>5, <2>6
<1>8. QED
  BY <1>2, <1>6, <1>7

(* The loop of reord_rxframes_process over a sorted list: the window comes to
   stand at the first hole, and more tells whether a frame lies behind it. *)
LEMMA Processed ==
  ASSUME NEW F \in SUBSET Int, NEW s \in Seq(F), Sorted(s),
         NEW a \in Int, NEW b \in Int, NEW lo \in Int, a <= lo, lo <= b + 1, b - a <= Reach,
         Within(ToSet(s), a, b)
  PROVE  \E n \in lo .. b + 1, more \in BOOLEAN :
           /\ Gap(ToSet(s), lo, n)
           /\ more <=> \E y \in ToSet(s) : y > n
           /\ reord_rxframes_process(Sn(lo), s) = [ind |-> Sn(n), more |-> more]
<1>z. ASSUME NEW T \in SUBSET Int, NEW y \in Int, NEW A \in SUBSET Int, A = T \cup {y},
             \A z \in T : z < y, Within(A, a, b)
      PROVE  Found(A, lo) = Passes(Found(T, lo), y)
  BY <1>z, FoundStep
<1> DEFINE D == DOMAIN s
           At(S) == {s[i] : i \in S}
           base == [ind |-> Sn(lo), more |-> FALSE]
           E(g) == g = [S \in SUBSET D |->
                          IF S = {} THEN base
                          ELSE LET x == Max(S) IN Passes(g[S \ {x}], s[x])]
           it == CHOOSE g : E(g)
<1>1. reord_rxframes_process(Sn(lo), s) = it[D]
  BY DEF reord_rxframes_process, FoldLeft, MapThenFoldSet, Passes
<1>2. Len(s) \in Nat /\ D = 1 .. Len(s) /\ \A i \in D : s[i] \in Int /\ s[i] \in ToSet(s)
  <2>1. Len(s) \in Nat /\ D = 1 .. Len(s)
    BY LenProperties
  <2>2. \A i \in D : s[i] \in F /\ s[i] \in ToSet(s)
    BY <2>1, ElementOfSeq DEF ToSet
  <2>3. QED
    BY <2>1, <2>2
<1>3. \A S \in SUBSET D : At(S) \in SUBSET Int /\ At(S) \subseteq ToSet(s)
  BY <1>2
<1>4. Found(At({}), lo) = base
  <2>1. Gap({}, lo, lo) /\ {} \in SUBSET Int /\ At({}) = {}
    BY DEF Gap
  <2>2. \A y \in {} : ~(y > lo)
    OBVIOUS
  <2>3. Found({}, lo) = [ind |-> Sn(lo), more |-> FALSE]
    BY <2>1, <2>2, FoundAll
  <2>4. QED
    BY <2>1, <2>3
<1>5. ASSUME NEW S \in SUBSET D, S # {}
      PROVE  Max(S) \in S /\ Found(At(S), lo) = Passes(Found(At(S \ {Max(S)}), lo), s[Max(S)])
  <2>1. PICK x : x = Max(S)
    OBVIOUS
  <2>2. x \in S /\ \A j \in S : x >= j
    BY <1>2, <1>5, <2>1, LastAt
  <2>3. At(S) = At(S \ {x}) \cup {s[x]}
    BY <2>2
  <2>4. \A z \in At(S \ {x}) : z < s[x]
    <3>1. SUFFICES ASSUME NEW j \in S \ {x} PROVE s[j] < s[x]
      OBVIOUS
    <3>2. j \in D /\ x \in D /\ j < x
      BY <1>2, <2>2
    <3>3. QED
      BY <3>2 DEF Sorted
  <2>5. \A z \in At(S \ {x}) \cup {s[x]} : a < z /\ z <= b
    BY <1>3, <2>3 DEF Within
  <2>6. At(S \ {x}) \in SUBSET Int /\ s[x] \in Int
    BY <1>2, <1>3, <2>2
  <2> DEFINE A == At(S)
             T == At(S \ {x})
             y == s[x]
  <2>a. /\ T \in SUBSET Int /\ A \in SUBSET Int /\ y \in Int /\ A = T \cup {y}
        /\ \A z \in T : z < y
        /\ Within(A, a, b)
    BY <2>3, <2>4, <2>5, <2>6 DEF Within
  <2> HIDE DEF A, T, y
  <2>b. Found(A, lo) = Passes(Found(T, lo), y)
    BY <2>a, <1>z
  <2>7. Found(At(S), lo) = Passes(Found(At(S \ {x}), lo), s[x])
    BY <2>b DEF A, T, y
  <2>8. QED
    BY <2>1, <2>2, <2>3, <2>7
<1> HIDE DEF At, base
<1>6. E(it)
  <2> DEFINE G == [S \in SUBSET D |-> Found(At(S), lo)]
  <2>1. G = [S \in SUBSET D |-> IF S = {} THEN base
                                ELSE LET x == Max(S) IN Passes(G[S \ {x}], s[x])]
    <3>1. SUFFICES ASSUME NEW S \in SUBSET D
                   PROVE  G[S] = IF S = {} THEN base
                                 ELSE LET x == Max(S) IN Passes(G[S \ {x}], s[x])
      OBVIOUS
    <3>2. CASE S = {}
      BY <1>4, <3>2
    <3>3. CASE S # {}
      BY <1>5, <3>3
    <3>4. QED
      BY <3>2, <3>3
  <2>2. E(G)
    BY <2>1
  <2> HIDE DEF E, G
  <2>3. QED
    BY <2>2
<1> HIDE DEF it
<1>7. \A S \in SUBSET D : it[S] = IF S = {} THEN base ELSE LET x == Max(S) IN Passes(it[S \ {x}], s[x])
  BY <1>6
<1> HIDE DEF E
<1>8. \A S \in SUBSET D : it[S] = Found(At(S), lo)
  <2> DEFINE Bad == {S \in SUBSET D : it[S] # Found(At(S), lo)}
             Sizes_ == {Cardinality(S) : S \in Bad}
  <2>1. \A S \in SUBSET D : IsFiniteSet(S) /\ Cardinality(S) \in Nat
    <3>1. IsFiniteSet(D)
      BY <1>2, FS_Interval
    <3>2. \A S \in SUBSET D : IsFiniteSet(S)
      BY <3>1, FS_Subset
    <3>3. QED
      BY <3>2, FS_CardinalityType
  <2>2. SUFFICES ASSUME Bad # {} PROVE FALSE
    OBVIOUS
  <2>3. Sizes_ \in SUBSET Nat /\ Sizes_ # {}
    BY <2>1, <2>2
  <2>4. PICK c \in Sizes_ : \A d \in Sizes_ : c <= d
    BY <2>3, LeastNat
  <2>5. PICK S \in Bad : c = Cardinality(S)
    OBVIOUS
  <2>6. S # {}
    BY <1>4, <1>7, <2>5
  <2>7. PICK x : x = Max(S)
    OBVIOUS
  <2>8. x \in S /\ Found(At(S), lo) = Passes(Found(At(S \ {x}), lo), s[x])
    BY <1>5, <2>5, <2>6, <2>7
  <2>9. Cardinality(S \ {x}) = c - 1 /\ S \ {x} \in SUBSET D /\ c \in Nat
    BY <2>1, <2>3, <2>5, <2>8, FS_RemoveElement
  <2>10. S \ {x} \notin Bad
    BY <2>4, <2>9
  <2>11. it[S] = Passes(it[S \ {x}], s[x])
    BY <1>7, <2>5, <2>6, <2>7
  <2>12. QED
    BY <2>5, <2>8, <2>9, <2>10, <2>11
<1>9. At(D) = ToSet(s) /\ D \in SUBSET D
  BY DEF At, ToSet
<1>10. ToSet(s) \in SUBSET Int /\ \A y \in ToSet(s) : y <= b
  BY <1>3, <1>9 DEF Within
<1>11. PICK n \in lo .. b + 1 : Gap(ToSet(s), lo, n)
  BY <1>10, GapExists
<1>12. CASE ~(\A y \in ToSet(s) : ~(y > n))
  <2>0. PICK z \in ToSet(s) : n < z
    BY <1>10, <1>12
  <2>1. Found(ToSet(s), lo) = [ind |-> Sn(n), more |-> TRUE]
    BY <1>10, <1>11, <2>0, FoundMore
  <2>2. TRUE <=> \E y \in ToSet(s) : y > n
    BY <1>12
  <2>3. QED
    BY <1>1, <1>8, <1>9, <1>11, <2>1, <2>2
<1>13. CASE \A y \in ToSet(s) : ~(y > n)
  <2>1. Found(ToSet(s), lo) = [ind |-> Sn(n), more |-> FALSE]
    BY <1>10, <1>11, <1>13, FoundAll
  <2>2. FALSE <=> \E y \in ToSet(s) : y > n
    BY <1>13
  <2>3. QED
    BY <1>1, <1>8, <1>9, <1>11, <2>1, <2>2
<1>14. QED
  BY <1>12, <1>13

-----------------------------------------------------------------------------
(* The buffer's invariant.                                                  *)

(* The frame ind_sn is the number of, as the refinement reads it. *)
Pos == (hi + 1) - (((hi + 1) - ind_sn) % SnMod)

(* The position and the list are of use while there is a session, or something held. *)
Windowed == info /\ (enabled \/ reord_list # <<>>)

CtrlInv ==
  /\ ind_sn = NoSn <=> ~info
  /\ ~info => ~enabled /\ reord_list = <<>>
  /\ rx # "idle" => ~enabled
  /\ ~enabled /\ rx \in {"idle", "flush"} => reord_list = <<>>

(* The window spans the frames from Pos to its end, and none above it came. *)
HeldInv ==
  /\ Sorted(reord_list)
  /\ Windowed => /\ hi + 1 - AICWF_REORDER_WINSIZE <= Pos
                 /\ Within(ToSet(reord_list), Pos, hi)

TimerInv ==
  /\ HeldIsTimed
  /\ ~enabled /\ rx = "idle" => ~reord_timer
  /\ "late_timer" \notin allow =>
       /\ rx \in {"stop", "cancel", "free"} => ~handler_runs /\ ~reord_timer_work /\ ~worker_runs
       /\ rx \in {"cancel", "free"} => ~reord_timer
       /\ NoDangling

PoolInv ==
  /\ freeq + Len(reord_list) <= MAX_REORD_RXFRAME
  /\ "alloc_fails" \notin allow => PoolConserved

RxInv == TypeOK /\ CtrlInv /\ HeldInv /\ TimerInv /\ PoolInv /\ UpSorted

\* Frames are integers.
LEMMA FrameInt ==
  /\ First .. MaxFrame \in SUBSET Int /\ First \in Int /\ MaxFrame \in Int
  /\ Frame = First .. MaxFrame
  BY RxAssumption DEF Frame

\* The position is the frame at or below hi + 1 that ind_sn numbers.
LEMMA PosType ==
  ASSUME TypeOK, CtrlInv, info
  PROVE  /\ hi \in Int /\ Pos \in Int /\ Pos <= hi + 1 /\ Sn(Pos) = ind_sn /\ ind_sn \in 0 .. SnMod - 1
<1>1. hi \in Int /\ ind_sn \in 0 .. SnMod - 1 /\ ind_sn \in Int
  BY Sizes, RxAssumption DEF TypeOK, CtrlInv
<1> DEFINE h == hi + 1
           d == (h - ind_sn) % SnMod
<1>2. h \in Int /\ h - ind_sn \in Int
  BY <1>1
<1>3. d \in 0 .. SnMod - 1
  BY <1>2, DivMod, Sizes
<1>4. Sn(h - d) = ind_sn
  <2>1. (h - d) % SnMod = (h - (h - ind_sn)) % SnMod
    BY <1>2, Sizes, ModDiff
  <2>2. h - (h - ind_sn) = ind_sn
    BY <1>1
  <2>3. ind_sn % SnMod = ind_sn
    BY <1>1, Sizes, ModSmall
  <2>4. QED
    BY <2>1, <2>2, <2>3 DEF Sn
<1>5. Pos = h - d
  BY DEF Pos
<1> HIDE DEF d
<1>6. h - d \in Int /\ h - d <= h
  BY <1>2, <1>3, Sizes
<1>7. QED
  BY <1>1, <1>4, <1>5, <1>6

(* Where the window stands when frame x arrives. *)
From(x) == IF info /\ enabled THEN Pos ELSE x

(* Where it has to move for x, as reord_need_check finds it. *)
Needed(x) ==
  IF x = From(x) THEN From(x) + 1
  ELSE IF x > From(x) + AICWF_REORDER_WINSIZE - 1 THEN x - AICWF_REORDER_WINSIZE + 1 ELSE From(x)

\* The position a frame sees lies within reach of it.
LEMMA FromIs ==
  ASSUME RxInv, NEW x \in Frame, Arrives(x)
  PROVE  /\ x \in Int /\ hi \in Int /\ From(x) \in Int /\ Position(Sn(x)) = Sn(From(x))
         /\ From(x) <= hi + 1 \/ From(x) = x
         /\ hi + 1 - AICWF_REORDER_WINSIZE <= From(x)
         /\ x - From(x) <= Reach /\ From(x) - x <= AICWF_REORDER_WINSIZE
         /\ Within(ToSet(reord_list), From(x), hi)
<1>1. x \in Int /\ hi \in Int /\ hi - AICWF_REORDER_WINSIZE < x /\ x <= hi + 1 + MaxGap
  BY FrameInt, RxAssumption DEF Arrives, RxInv, TypeOK
<1>2. CASE info /\ enabled
  <2>1. Pos \in Int /\ Pos <= hi + 1 /\ Sn(Pos) = ind_sn /\ ind_sn # NoSn
    BY <1>2, PosType DEF RxInv, CtrlInv
  <2>2. hi + 1 - AICWF_REORDER_WINSIZE <= Pos /\ Within(ToSet(reord_list), Pos, hi)
    BY <1>2 DEF RxInv, HeldInv, Windowed
  <2>3. QED
    BY <1>1, <1>2, <2>1, <2>2, Sizes DEF From, Position, Reach
<1>3. CASE ~(info /\ enabled)
  <2>1. reord_list = <<>>
    BY <1>3 DEF RxInv, CtrlInv, Arrives
  <2>2. Within(ToSet(reord_list), x, hi)
    BY <2>1 DEF Within, ToSet
  <2>3. QED
    BY <1>1, <1>3, <2>2, Sizes DEF From, Position, Reach
<1>4. QED
  BY <1>2, <1>3

\* IsLate finds the frames below the position.
LEMMA LateIs ==
  ASSUME RxInv, NEW x \in Frame, Arrives(x)
  PROVE  IsLate(Sn(x)) <=> x < From(x)
<1>1. From(x) - x <= Reach + 1 /\ x - From(x) <= Reach
  BY FromIs, Sizes DEF Reach
<1>2. QED
  BY <1>1, FromIs, SnLess DEF IsLate

\* reord_need_check, over frames: where the window has to move for frame x.
LEMMA NeededIs ==
  ASSUME RxInv, NEW x \in Frame, Arrives(x), From(x) <= x
  PROVE  reord_need_check(Sn(x)) = Sn(Needed(x))
<1> DEFINE w == AICWF_REORDER_WINSIZE
           p == From(x)
           e == p + w - 1
<1>1. x \in Int /\ p \in Int /\ p <= x /\ x - p <= Reach /\ Position(Sn(x)) = Sn(p) /\ w \in Nat \ {0}
  BY FromIs, Sizes
<1>2. Sn(x) = Sn(p) <=> x = p
  BY <1>1, Sizes, SnSame
<1>3. (Sn(p) + 1) % SnMod = Sn(p + 1)
  BY <1>1, SnPlus
<1>4. (Sn(p) + w - 1) % SnMod = Sn(e)
  <2>1. (Sn(p) + (w - 1)) % SnMod = Sn(p + (w - 1)) /\ w - 1 \in Int
    BY <1>1, SnPlus
  <2>2. Sn(p) + (w - 1) = Sn(p) + w - 1 /\ p + (w - 1) = e
    BY <1>1, SnType
  <2>3. QED
    BY <2>1, <2>2
<1>5. SN_LESS(Sn(e), Sn(x)) <=> e < x
  <2>1. e \in Int /\ x - e <= Reach + 1 /\ e - x <= Reach
    BY <1>1, Sizes DEF Reach
  <2>2. QED
    BY <1>1, <2>1, SnLess
<1>6. (IF Sn(x) >= w - 1 THEN Sn(x) - (w - 1) ELSE SnMod - 1 - (w - (Sn(x) + 1)) + 1) = Sn(x - w + 1)
  <2> DEFINE sn == Sn(x)
             k == -(w - 1)
  <2>1. sn \in 0 .. SnMod - 1 /\ sn \in Int /\ k \in Int /\ w <= SnMod
    BY <1>1, SnType, Sizes DEF Reach
  <2>2. (sn + k) % SnMod = Sn(x + k)
    BY <1>1, <2>1, SnPlus
  <2>3. x + k = x - w + 1
    BY <1>1
  <2> HIDE DEF sn
  <2>4. CASE sn >= w - 1
    <3>1. (sn + k) % SnMod = sn + k
      BY <1>1, <2>1, <2>4, Sizes, ModSmall
    <3>2. sn + k = sn - (w - 1)
      BY <1>1, <2>1
    <3>3. QED
      BY <2>2, <2>3, <2>4, <3>1, <3>2 DEF sn
  <2>5. CASE ~(sn >= w - 1)
    <3>1. (sn + k) % SnMod = sn + k + SnMod
      <4>1. sn + k \in Int /\ -SnMod <= sn + k /\ sn + k < 0
        BY <1>1, <2>1, <2>5, Sizes
      <4>2. QED
        BY <4>1, Sizes, ModSmall
    <3>2. sn + k + SnMod = SnMod - 1 - (w - (sn + 1)) + 1
      BY <1>1, <2>1, Sizes
    <3>3. QED
      BY <2>2, <2>3, <2>5, <3>1, <3>2 DEF sn
  <2>6. QED
    BY <2>4, <2>5
<1>7. CASE x = p
  BY <1>1, <1>2, <1>3, <1>7 DEF reord_need_check, Needed
<1>8. CASE x # p /\ e < x
  BY <1>1, <1>2, <1>4, <1>5, <1>6, <1>8 DEF reord_need_check, Needed
<1>9. CASE x # p /\ ~(e < x)
  BY <1>1, <1>2, <1>4, <1>5, <1>9 DEF reord_need_check, Needed
<1>10. QED
  BY <1>7, <1>8, <1>9

-----------------------------------------------------------------------------
(* What the steps do to the list.                                           *)

(* The window comes to stand at n: of the sorted s, the frames below n are
   handed up and the ones above stay. *)
MovesTo(s, n) ==
  /\ n \notin ToSet(s)
  /\ up' \in Seq(First .. MaxFrame) /\ Sorted(up') /\ ToSet(up') = {y \in ToSet(s) : y < n}
  /\ reord_list' \in Seq(First .. MaxFrame) /\ Sorted(reord_list')
  /\ ToSet(reord_list') = {y \in ToSet(s) : y > n}
  /\ Len(up') + Len(reord_list') = Len(s)

\* reord_rxframes_ind cuts the list at the position.
LEMMA IndMoves ==
  ASSUME NEW s \in Seq(First .. MaxFrame), Sorted(s), NEW a \in Int, NEW b \in Int, b - a <= Reach,
         Within(ToSet(s), a, b), NEW n \in Int, a <= n, n <= b + 1, n \notin ToSet(s),
         reord_rxframes_ind(Sn(n), s)
  PROVE  MovesTo(s, n)
<1> DEFINE S == {i \in 1 .. Len(s) : SN_LESS(Sn(n), Sn(s[i]))}
           k == IF S # {} THEN Min(S) - 1 ELSE Len(s)
<1>1. Len(s) \in Nat /\ \A i \in 1 .. Len(s) : s[i] \in Int /\ s[i] \in ToSet(s)
  <2>1. Len(s) \in Nat /\ DOMAIN s = 1 .. Len(s)
    BY LenProperties
  <2>2. \A i \in 1 .. Len(s) : s[i] \in First .. MaxFrame /\ s[i] \in ToSet(s)
    BY <2>1, ElementOfSeq DEF ToSet
  <2>3. QED
    BY <2>1, <2>2, FrameInt
<1>2. \A i \in 1 .. Len(s) : SN_LESS(Sn(n), Sn(s[i])) <=> n < s[i]
  <2>1. SUFFICES ASSUME NEW i \in 1 .. Len(s) PROVE SN_LESS(Sn(n), Sn(s[i])) <=> n < s[i]
    OBVIOUS
  <2>2. s[i] \in Int /\ s[i] - n <= Reach + 1 /\ n - s[i] <= Reach
    BY <1>1, Sizes DEF Within
  <2>3. QED
    BY <2>2, SnLess
<1>3. S = {i \in 1 .. Len(s) : n < s[i]}
  BY <1>2
<1>4. up' = SubSeq(s, 1, k) /\ reord_list' = SubSeq(s, k + 1, Len(s))
  <2>1. CASE S = {}
    BY <2>1 DEF reord_rxframes_ind, SelectInSeq
  <2>2. CASE S # {}
    <3>1. Min(S) \in 1 .. Len(s)
      BY <1>1, <2>2, FirstAt
    <3>2. Min(S) # 0 /\ k = Min(S) - 1
      BY <1>1, <2>2, <3>1
    <3>3. up' = SubSeq(s, 1, Min(S) - 1) /\ reord_list' = SubSeq(s, Min(S) - 1 + 1, Len(s))
      BY <2>2, <3>2 DEF reord_rxframes_ind, SelectInSeq
    <3>4. QED
      BY <3>2, <3>3
  <2>3. QED
    BY <2>1, <2>2
<1>5. k \in 0 .. Len(s) /\ (\A i \in 1 .. k : s[i] <= n) /\ \A i \in k + 1 .. Len(s) : n < s[i]
  <2>1. CASE S = {}
    BY <1>1, <1>3, <2>1
  <2>2. CASE S # {}
    <3>1. Min(S) \in S /\ Min(S) \in 1 .. Len(s) /\ \A j \in S : Min(S) <= j
      BY <1>1, <2>2, FirstAt
    <3>2. n < s[Min(S)]
      BY <1>3, <3>1
    <3>3. \A i \in 1 .. Len(s) : Min(S) < i => s[Min(S)] < s[i]
      BY <3>1, LenProperties DEF Sorted
    <3>4. PICK m : m = Min(S)
      OBVIOUS
    <3>5. k = m - 1 /\ m \in 1 .. Len(s) /\ n < s[m]
      BY <2>2, <3>1, <3>2, <3>4
    <3>6. \A i \in 1 .. Len(s) : m < i => s[m] < s[i]
      BY <3>3, <3>4
    <3>7. \A i \in 1 .. Len(s) : i < m => s[i] <= n
      BY <1>1, <1>3, <3>1, <3>4
    <3> HIDE DEF k
    <3>8. k \in 0 .. Len(s) /\ \A i \in 1 .. k : s[i] <= n
      BY <1>1, <3>5, <3>7
    <3>9. ASSUME NEW i \in k + 1 .. Len(s) PROVE n < s[i]
      <4>1. i \in 1 .. Len(s) /\ i >= m
        BY <1>1, <3>5
      <4>2. CASE i = m
        BY <3>5, <4>2
      <4>3. CASE i > m
        BY <1>1, <3>5, <3>6, <4>1, <4>3
      <4>4. QED
        BY <3>5, <4>1, <4>2, <4>3
    <3>10. QED
      BY <3>8, <3>9
  <2>3. QED
    BY <2>1, <2>2
<1> HIDE DEF k
<1> DEFINE front == SubSeq(s, 1, k)
           back == SubSeq(s, k + 1, Len(s))
<1>6. /\ front \in Seq(First .. MaxFrame) /\ Sorted(front) /\ ToSet(front) = {y \in ToSet(s) : y < n}
      /\ back \in Seq(First .. MaxFrame) /\ Sorted(back) /\ ToSet(back) = {y \in ToSet(s) : y > n}
      /\ Len(front) + Len(back) = Len(s)
  BY <1>5, FrameInt, Cut
<1>7. up' = front /\ reord_list' = back
  BY <1>4
<1> HIDE DEF front, back
<1>8. QED
  BY <1>6, <1>7 DEF MovesTo

\* Place and IsQueued, over frames.
LEMMA Placed ==
  ASSUME RxInv, NEW x \in Frame, Arrives(x), From(x) <= x
  PROVE  LET k == Place(Sn(x))
         IN  /\ k \in 1 .. Len(reord_list) + 1
             /\ \A i \in 1 .. k - 1 : reord_list[i] < x
             /\ \A i \in k .. Len(reord_list) : x <= reord_list[i]
             /\ IsQueued(Sn(x)) <=> x \in ToSet(reord_list)
             /\ ~IsQueued(Sn(x)) => \A i \in k .. Len(reord_list) : x < reord_list[i]
<1> DEFINE s == reord_list
           S == {i \in 1 .. Len(s) : ~SN_LESS(Sn(s[i]), Sn(x))}
           k == Place(Sn(x))
<1>a. /\ x \in Int /\ hi \in Int /\ From(x) \in Int /\ x - From(x) <= Reach
      /\ hi + 1 - AICWF_REORDER_WINSIZE <= From(x) /\ Within(ToSet(s), From(x), hi)
  BY FromIs
<1>0. s \in Seq(First .. MaxFrame) /\ Sorted(s)
  BY DEF RxInv, TypeOK, HeldInv
<1>b. DOMAIN s = 1 .. Len(s) /\ Len(s) \in Nat
  BY <1>0, LenProperties
<1> HIDE DEF s
<1>1. \A i \in 1 .. Len(s) : s[i] \in Int /\ s[i] \in ToSet(s) /\ From(x) < s[i] /\ s[i] <= hi
  <2>1. \A i \in 1 .. Len(s) : s[i] \in First .. MaxFrame /\ s[i] \in ToSet(s)
    BY <1>0, <1>b, ElementOfSeq DEF ToSet
  <2>2. QED
    BY <2>1, <1>a, FrameInt DEF Within
<1>2. \A i \in 1 .. Len(s) : (SN_LESS(Sn(s[i]), Sn(x)) <=> s[i] < x) /\ (Sn(s[i]) = Sn(x) <=> s[i] = x)
  <2>1. SUFFICES ASSUME NEW i \in 1 .. Len(s)
                 PROVE  (SN_LESS(Sn(s[i]), Sn(x)) <=> s[i] < x) /\ (Sn(s[i]) = Sn(x) <=> s[i] = x)
    OBVIOUS
  <2>2. s[i] \in Int /\ x - s[i] <= Reach + 1 /\ s[i] - x <= Reach
    BY <1>1, <1>a, Sizes DEF Reach
  <2>3. QED
    BY <1>a, <2>2, SnLess, SnSame
<1>3. S = {i \in 1 .. Len(s) : ~(s[i] < x)}
  BY <1>2
<1>4. k = IF S # {} THEN Min(S) ELSE Len(s) + 1
  <2>1. CASE S = {}
    BY <2>1 DEF Place, SelectInSeq, s
  <2>2. CASE S # {}
    <3>1. Min(S) \in 1 .. Len(s)
      BY <1>b, <2>2, FirstAt
    <3>2. QED
      BY <2>2, <3>1 DEF Place, SelectInSeq, s
  <2>3. QED
    BY <2>1, <2>2
<1>5. IsQueued(Sn(x)) <=> k <= Len(s) /\ Sn(s[k]) = Sn(x)
  BY DEF IsQueued, s
<1> HIDE DEF k
<1>6. \A i, j \in 1 .. Len(s) : i < j => s[i] < s[j]
  BY <1>0, <1>b DEF Sorted
<1>7. /\ k \in 1 .. Len(s) + 1
      /\ \A i \in 1 .. k - 1 : s[i] < x
      /\ \A i \in k .. Len(s) : x <= s[i] /\ (i > k => x < s[i])
  <2>1. CASE S = {}
    BY <1>b, <1>3, <1>4, <2>1
  <2>2. CASE S # {}
    <3>1. k \in S /\ k \in 1 .. Len(s) /\ \A j \in S : k <= j
      BY <1>b, <1>4, <2>2, FirstAt
    <3>a. ~(s[k] < x)
      BY <1>3, <3>1
    <3>2. x <= s[k]
      BY <1>1, <1>a, <3>1, <3>a
    <3>3. \A i \in 1 .. k - 1 : s[i] < x
      BY <1>3, <3>1
    <3>4. ASSUME NEW i \in k .. Len(s) PROVE x <= s[i] /\ (i > k => x < s[i])
      <4>1. i \in 1 .. Len(s)
        BY <3>1
      <4>2. QED
        BY <1>1, <1>6, <1>a, <3>1, <3>2, <4>1
    <3>5. QED
      BY <1>b, <3>1, <3>3, <3>4
  <2>3. QED
    BY <2>1, <2>2
<1>8. IsQueued(Sn(x)) <=> x \in ToSet(s)
  <2>1. ASSUME IsQueued(Sn(x)) PROVE x \in ToSet(s)
    BY <1>1, <1>2, <1>5, <1>7, <2>1
  <2>2. ASSUME x \in ToSet(s) PROVE IsQueued(Sn(x))
    <3>1. PICK i \in 1 .. Len(s) : x = s[i]
      BY <1>b, <2>2 DEF ToSet
    <3>2. ~(i < k) /\ ~(i > k)
      BY <1>1, <1>7, <1>b, <1>a, <3>1
    <3>3. i = k
      BY <1>7, <3>2
    <3>4. QED
      BY <1>5, <3>1, <3>3
  <2>3. QED
    BY <2>1, <2>2
<1>9. ASSUME ~IsQueued(Sn(x)), NEW i \in k .. Len(s) PROVE x < s[i]
  <2>1. i \in 1 .. Len(s) /\ x <= s[i]
    BY <1>7, <1>b
  <2>2. x # s[i]
    BY <1>8, <1>1, <1>9, <2>1
  <2>3. QED
    BY <1>1, <1>a, <2>1, <2>2
<1>10. QED
  BY <1>7, <1>8, <1>9 DEF k, s

(* The window and the list after a step that moved it to n. *)
LEMMA Stands ==
  ASSUME NEW n \in Int, hi' \in Int, ind_sn' = Sn(n), n <= hi' + 1, hi' + 1 - AICWF_REORDER_WINSIZE <= n
  PROVE  Pos' = n
<1>1. ASSUME NEW h \in Int, n <= h + 1, h + 1 - AICWF_REORDER_WINSIZE <= n
      PROVE  (h + 1) - (((h + 1) - Sn(n)) % SnMod) = n
  <2> DEFINE k == h + 1
  <2>1. k \in Int /\ n <= k /\ k - n <= Reach
    BY <1>1, Sizes DEF Reach
  <2> HIDE DEF k
  <2>2. k - ((k - Sn(n)) % SnMod) = n
    BY <2>1, SnBack
  <2>3. QED
    BY <2>2 DEF k
<1>2. (hi' + 1) - (((hi' + 1) - Sn(n)) % SnMod) = n
  BY <1>1
<1>3. QED
  BY <1>2 DEF Pos

\* An empty list holds nothing.
LEMMA EmptyIs ==
  ASSUME NEW F, NEW s \in Seq(F)
  PROVE  s = <<>> <=> ToSet(s) = {}
<1>1. Len(s) \in Nat /\ DOMAIN s = 1 .. Len(s)
  BY LenProperties
<1>2. ASSUME s # <<>> PROVE ToSet(s) # {}
  <2>1. 1 \in DOMAIN s
    BY <1>1, <1>2, EmptySeq
  <2>2. QED
    BY <2>1 DEF ToSet
<1>3. ToSet(<<>>) = {}
  BY DEF ToSet
<1>4. QED
  BY <1>2, <1>3

(* The lemmas about lists, for those of frames. *)
LEMMA InsertedFrame ==
  ASSUME NEW s \in Seq(First .. MaxFrame), Sorted(s), NEW x \in First .. MaxFrame, NEW k \in 1 .. Len(s) + 1,
         \A i \in 1 .. k - 1 : s[i] < x, \A i \in k .. Len(s) : x < s[i]
  PROVE  /\ InsertAt(s, k, x) \in Seq(First .. MaxFrame) /\ Len(InsertAt(s, k, x)) = Len(s) + 1
         /\ Sorted(InsertAt(s, k, x)) /\ ToSet(InsertAt(s, k, x)) = ToSet(s) \cup {x}
<1>1. PICK F \in SUBSET Int : F = First .. MaxFrame
  BY FrameInt
<1>2. s \in Seq(F) /\ x \in F
  BY <1>1
<1>3. /\ InsertAt(s, k, x) \in Seq(F) /\ Len(InsertAt(s, k, x)) = Len(s) + 1
      /\ Sorted(InsertAt(s, k, x)) /\ ToSet(InsertAt(s, k, x)) = ToSet(s) \cup {x}
  BY <1>2, Inserted
<1>4. QED
  BY <1>1, <1>3

\* Processed, for lists of frames.
LEMMA ProcessedFrames ==
  ASSUME NEW s \in Seq(First .. MaxFrame), Sorted(s),
         NEW a \in Int, NEW b \in Int, NEW lo \in Int, a <= lo, lo <= b + 1, b - a <= Reach,
         Within(ToSet(s), a, b)
  PROVE  \E n \in lo .. b + 1, more \in BOOLEAN :
           /\ Gap(ToSet(s), lo, n)
           /\ more <=> \E y \in ToSet(s) : y > n
           /\ reord_rxframes_process(Sn(lo), s) = [ind |-> Sn(n), more |-> more]
<1>1. First .. MaxFrame \in SUBSET Int
  BY FrameInt
<1>2. QED
  BY <1>1, Processed

(* A frame of the window: it joins the list, and the window moves to the first
   hole at or behind the place reord_need_check asks for. *)
LEMMA ReceiveMoves ==
  ASSUME RxInv, NEW x \in Frame, Receive(x)
  PROVE  /\ From(x) <= x /\ x \notin ToSet(reord_list)
         /\ hi' \in Int /\ hi <= hi' /\ x <= hi' /\ hi' \in First - 1 .. MaxFrame
         /\ \E n \in Int, t \in Seq(First .. MaxFrame) :
              /\ Len(t) = Len(reord_list) + 1 /\ ToSet(t) = ToSet(reord_list) \cup {x}
              /\ MovesTo(t, n) /\ Gap(ToSet(t), Needed(x), n)
              /\ ind_sn' = Sn(n) /\ n <= hi' + 1 /\ hi' + 1 - AICWF_REORDER_WINSIZE <= n
              /\ Within(ToSet(t), From(x) - 1, hi')
              /\ reord_timer' \in BOOLEAN /\ (reord_timer' <=> reord_list' # <<>>)
              /\ freeq' = freeq - 1 + Len(up')
<1> DEFINE w == AICWF_REORDER_WINSIZE
           p == From(x)
           t == reord_rxframe_enqueue(x)
           lo == Needed(x)
           moved == reord_rxframes_process(reord_need_check(Sn(x)), t)
<1>1. /\ Arrives(x) /\ ~IsLate(Sn(x)) /\ ~IsQueued(Sn(x))
      /\ ind_sn' = moved.ind /\ reord_timer' = moved.more
      /\ reord_rxframes_ind(moved.ind, t)
      /\ freeq' = freeq - 1 + Len(up')
  BY DEF Receive
<1>2. /\ x \in Int /\ hi \in Int /\ p \in Int /\ p <= x /\ (p <= hi + 1 \/ p = x)
      /\ hi + 1 - w <= p /\ x - p <= Reach /\ p - x <= w
      /\ Within(ToSet(reord_list), p, hi) /\ w \in Nat \ {0} /\ w <= Reach
  <2>1. ~(x < p)
    BY <1>1, LateIs
  <2>2. QED
    BY <1>1, <2>1, FromIs, Sizes DEF Reach
<1>3. /\ hi' = (IF x > hi THEN x ELSE hi) /\ hi' \in Int /\ hi <= hi' /\ x <= hi' /\ hi' \in First - 1 .. MaxFrame
  <2>1. hi' = (IF x > hi THEN x ELSE hi) /\ x \in First .. MaxFrame /\ hi \in First - 1 .. MaxFrame
    BY <1>1, FrameInt DEF Arrives, RxInv, TypeOK
  <2>2. QED
    BY <1>2, <2>1, FrameInt
<1>4. reord_list \in Seq(First .. MaxFrame) /\ Sorted(reord_list) /\ x \in First .. MaxFrame
  BY FrameInt DEF RxInv, TypeOK, HeldInv
<1>5. x \notin ToSet(reord_list)
  BY <1>1, <1>2, Placed
<1>6. /\ t \in Seq(First .. MaxFrame) /\ Len(t) = Len(reord_list) + 1
      /\ Sorted(t) /\ ToSet(t) = ToSet(reord_list) \cup {x}
  <2> DEFINE k == Place(Sn(x))
  <2>1. /\ k \in 1 .. Len(reord_list) + 1 /\ \A i \in 1 .. k - 1 : reord_list[i] < x
        /\ \A i \in k .. Len(reord_list) : x < reord_list[i]
    BY <1>1, <1>2, Placed
  <2>2. t = InsertAt(reord_list, k, x)
    BY DEF reord_rxframe_enqueue
  <2> HIDE DEF k
  <2>3. QED
    BY <1>4, <2>1, <2>2, InsertedFrame
<1> HIDE DEF t
<1>7. reord_need_check(Sn(x)) = Sn(lo)
  BY <1>1, <1>2, NeededIs
<1> DEFINE a == IF x = p THEN p - 1 ELSE p
           h == IF x > hi THEN x ELSE hi
<1>8. /\ a \in Int /\ h \in Int /\ lo \in Int /\ a <= lo /\ p <= lo /\ lo <= h + 1 /\ h - a <= Reach /\ h + 1 - w <= lo
  <2>1. lo = IF x = p THEN p + 1 ELSE IF x > p + w - 1 THEN x - w + 1 ELSE p
    BY DEF Needed
  <2>2. h - a <= Reach
    BY <1>2, Sizes DEF Reach
  <2>3. QED
    BY <1>2, <2>1, <2>2
<1>9. Within(ToSet(t), a, h) /\ Within(ToSet(t), p - 1, h)
  <2>1. SUFFICES ASSUME NEW y \in ToSet(t) PROVE a < y /\ p - 1 < y /\ y <= h
    BY DEF Within
  <2>2. CASE y = x
    BY <1>2, <2>2
  <2>3. CASE y \in ToSet(reord_list)
    <3>1. y \in Int /\ p < y /\ y <= hi
      <4>1. PICK i \in DOMAIN reord_list : y = reord_list[i]
        BY <2>3 DEF ToSet
      <4>2. y \in First .. MaxFrame
        BY <1>4, <4>1, ElementOfSeq, LenProperties
      <4>3. QED
        BY <1>2, <2>3, <4>2, FrameInt DEF Within
    <3>2. QED
      BY <1>2, <3>1
  <2>4. QED
    BY <1>6, <2>2, <2>3
<1> HIDE DEF lo, a, h
<1>11. PICK n \in lo .. h + 1, more \in BOOLEAN :
          /\ Gap(ToSet(t), lo, n)
          /\ more <=> \E y \in ToSet(t) : y > n
          /\ reord_rxframes_process(Sn(lo), t) = [ind |-> Sn(n), more |-> more]
  BY <1>6, <1>8, <1>9, ProcessedFrames
<1>12. ind_sn' = Sn(n) /\ reord_timer' = more /\ reord_rxframes_ind(Sn(n), t)
  BY <1>1, <1>7, <1>11
<1>13. n \in Int /\ a <= n /\ n <= h + 1 /\ n \notin ToSet(t) /\ h + 1 - w <= n
  BY <1>2, <1>8, <1>11 DEF Gap
<1>14. MovesTo(t, n)
  BY <1>6, <1>8, <1>9, <1>12, <1>13, IndMoves
<1>15. more <=> reord_list' # <<>>
  <2>1. more <=> ToSet(reord_list') # {}
    BY <1>11, <1>14 DEF MovesTo
  <2>2. QED
    BY <1>14, <2>1, EmptyIs DEF MovesTo
<1>16. hi' = h
  BY <1>3 DEF h
<1>17. QED
  BY <1>1, <1>2, <1>3, <1>5, <1>6, <1>9, <1>11, <1>12, <1>13, <1>14, <1>15, <1>16 DEF lo

(* The timer's work: the window moves to the first hole behind the first frame held. *)
LEMMA WorkerMoves ==
  ASSUME RxInv, reord_timeout_worker, reord_list # <<>>
  PROVE  /\ info /\ Pos \in Int /\ hi \in Int /\ hi' = hi
         /\ \E n \in Int, lo \in ToSet(reord_list) :
              /\ \A y \in ToSet(reord_list) : lo <= y
              /\ MovesTo(reord_list, n) /\ Gap(ToSet(reord_list), lo, n)
              /\ ind_sn' = Sn(n) /\ n <= hi + 1 /\ hi + 1 - AICWF_REORDER_WINSIZE <= n
              /\ reord_timer' \in BOOLEAN /\ (reord_list' # <<>> => reord_timer')
              /\ freeq' = freeq + Len(up')
<1> DEFINE s == reord_list
           lo == Head(s)
           moved == reord_rxframes_process(Sn(lo), s)
<1>1. /\ ind_sn' = moved.ind /\ reord_timer' = (reord_timer \/ moved.more)
      /\ reord_rxframes_ind(moved.ind, s)
      /\ freeq' = freeq + Len(up') /\ hi' = hi
  BY DEF reord_timeout_worker
<1>2. info /\ Pos \in Int /\ hi \in Int
  BY PosType DEF RxInv, CtrlInv
<1>3. hi + 1 - AICWF_REORDER_WINSIZE <= Pos /\ Within(ToSet(s), Pos, hi)
  BY <1>2 DEF RxInv, HeldInv, Windowed
<1>4. s \in Seq(First .. MaxFrame) /\ Sorted(s) /\ s # <<>> /\ reord_timer \in BOOLEAN
  BY DEF RxInv, TypeOK, HeldInv
<1> HIDE DEF s
<1>5. Len(s) \in Nat \ {0} /\ DOMAIN s = 1 .. Len(s) /\ lo = s[1]
  BY <1>4, EmptySeq, LenProperties, HeadTailProperties
<1>6. lo \in ToSet(s) /\ lo \in Int /\ Pos < lo /\ lo <= hi
  <2>0. 1 \in DOMAIN s
    BY <1>5
  <2>a. s[1] \in ToSet(s)
    BY <2>0 DEF ToSet
  <2>b. s[1] \in First .. MaxFrame
    <3>1. 1 \in 1 .. Len(s)
      BY <1>5
    <3>2. QED
      BY <1>4, <3>1, ElementOfSeq
  <2>1. lo \in ToSet(s) /\ lo \in First .. MaxFrame
    BY <1>5, <2>a, <2>b
  <2>2. QED
    BY <1>3, <2>1, FrameInt DEF Within
<1>7. \A y \in ToSet(s) : lo <= y
  <2>1. SUFFICES ASSUME NEW i \in 1 .. Len(s) PROVE lo <= s[i]
    BY <1>5 DEF ToSet
  <2>2. i = 1 \/ s[1] < s[i]
    BY <1>4, <1>5 DEF Sorted
  <2>3. s[i] \in Int
    BY <1>4, ElementOfSeq, FrameInt
  <2>4. QED
    BY <1>5, <1>6, <2>2, <2>3
<1> HIDE DEF lo
<1>8. hi - Pos <= Reach /\ Pos <= lo /\ lo <= hi + 1 /\ lo \in Int
  BY <1>2, <1>3, <1>6, Sizes DEF Reach
<1>9. PICK n \in lo .. hi + 1, more \in BOOLEAN :
          /\ Gap(ToSet(s), lo, n)
          /\ more <=> \E y \in ToSet(s) : y > n
          /\ reord_rxframes_process(Sn(lo), s) = [ind |-> Sn(n), more |-> more]
  <2>1. ASSUME NEW a \in Int, NEW b \in Int, a = Pos, b = hi
        PROVE  \E n \in lo .. b + 1, more \in BOOLEAN :
                 /\ Gap(ToSet(s), lo, n)
                 /\ more <=> \E y \in ToSet(s) : y > n
                 /\ reord_rxframes_process(Sn(lo), s) = [ind |-> Sn(n), more |-> more]
    <3>1. /\ s \in Seq(First .. MaxFrame) /\ Sorted(s) /\ lo \in Int
          /\ a <= lo /\ lo <= b + 1 /\ b - a <= Reach /\ Within(ToSet(s), a, b)
      BY <1>3, <1>4, <1>8, <2>1
    <3>2. QED
      BY <3>1, ProcessedFrames
  <2>2. QED
    BY <1>2, <2>1
<1>10. ind_sn' = Sn(n) /\ reord_timer' = (reord_timer \/ more) /\ reord_rxframes_ind(Sn(n), s)
  BY <1>1, <1>9
<1>11. n \in Int /\ Pos <= n /\ n <= hi + 1 /\ n \notin ToSet(s) /\ hi + 1 - AICWF_REORDER_WINSIZE <= n
  BY <1>2, <1>3, <1>6, <1>8, <1>9, Sizes DEF Gap
<1>12. MovesTo(s, n)
  BY <1>2, <1>3, <1>4, <1>8, <1>10, <1>11, IndMoves
<1>13. more <=> reord_list' # <<>>
  <2>1. more <=> ToSet(reord_list') # {}
    BY <1>9, <1>12 DEF MovesTo
  <2>2. QED
    BY <1>12, <2>1, EmptyIs DEF MovesTo
<1>14. QED
  BY <1>1, <1>2, <1>4, <1>6, <1>7, <1>9, <1>10, <1>11, <1>12, <1>13 DEF s

-----------------------------------------------------------------------------
(* The steps keep the invariant.                                            *)

\* The invariant holds at the start.
LEMMA RxInitInv == Init => RxInv
<1> SUFFICES ASSUME Init PROVE RxInv
  OBVIOUS
<1>1. <<>> \in Seq(First .. MaxFrame) /\ Len(<<>>) = 0 /\ Sorted(<<>>)
  BY EmptySeq DEF Sorted
<1>2. First - 1 \in First - 1 .. MaxFrame /\ MAX_REORD_RXFRAME \in 0 .. MAX_REORD_RXFRAME
  BY RxAssumption
<1>3. TypeOK
  BY <1>1, <1>2 DEF Init, TypeOK
<1>4. CtrlInv /\ HeldInv
  BY <1>1 DEF Init, CtrlInv, HeldInv, Windowed
<1>5. TimerInv
  BY DEF Init, TimerInv, HeldIsTimed, NoDangling
<1>6. PoolInv
  BY <1>1, RxAssumption DEF Init, PoolInv, PoolConserved
<1>7. UpSorted
  BY DEF Init, UpSorted
<1>8. QED
  BY <1>3, <1>4, <1>5, <1>6, <1>7 DEF RxInv

(* A step that leaves the control block and the highest frame alone keeps what
   is said of them. *)
LEMMA CtrlStays ==
  ASSUME RxInv, UNCHANGED <<ctrl, hi>>
  PROVE  HeldInv' /\ Pos' = Pos /\ (Windowed' <=> Windowed) /\ Len(reord_list) \in Nat /\ freeq \in Int
<1>1. Len(reord_list) \in Nat /\ freeq \in Int
  BY LenProperties DEF RxInv, TypeOK
<1>2. QED
  BY <1>1 DEF RxInv, HeldInv, Within, Windowed, Pos, ctrl

\* A step that hands nothing up.
LEMMA EmptyUp ==
  ASSUME up' = <<>>
  PROVE  up' \in Seq(First .. MaxFrame) /\ UpSorted' /\ Len(up') = 0 /\ ToSet(up') = {}
  BY EmptySeq DEF UpSorted, ToSet

(* A late frame moves nothing: it is below the position, and not the highest. *)
LEMMA LateFacts ==
  ASSUME RxInv, NEW x \in Frame, Arrives(x), IsLate(Sn(x))
  PROVE  info /\ enabled /\ Windowed /\ x < Pos /\ x <= hi /\ hi' = hi /\ x \in First .. MaxFrame
<1>1. x < From(x) /\ x \in Int /\ hi \in Int
  BY LateIs, FromIs
<1>2. info /\ enabled /\ x < Pos
  BY <1>1 DEF From
<1>3. Pos <= hi + 1 /\ Pos \in Int
  BY <1>2, PosType DEF RxInv
<1>4. x <= hi
  BY <1>1, <1>2, <1>3
<1>5. hi' = hi
  BY <1>1, <1>4 DEF Arrives
<1>6. QED
  BY <1>2, <1>4, <1>5, FrameInt DEF Windowed

(* Nor does a frame the list holds: the window does not have to move for it. *)
LEMMA AgainFacts ==
  ASSUME RxInv, NEW x \in Frame, ReceiveAgain(x)
  PROVE  UNCHANGED <<ctrl, hi>>
<1>1. Arrives(x) /\ ~IsLate(Sn(x)) /\ IsQueued(Sn(x)) /\ ind_sn' = reord_need_check(Sn(x))
  BY DEF ReceiveAgain
<1>2. /\ x \in Int /\ hi \in Int /\ From(x) \in Int /\ hi + 1 - AICWF_REORDER_WINSIZE <= From(x)
      /\ Within(ToSet(reord_list), From(x), hi)
  BY <1>1, FromIs
<1>3. From(x) <= x
  BY <1>1, <1>2, LateIs
<1>4. x \in ToSet(reord_list)
  BY <1>1, <1>3, Placed
<1>5. From(x) < x /\ x <= hi
  BY <1>2, <1>4 DEF Within
<1>6. info /\ enabled
  BY <1>2, <1>5 DEF From
<1>7. Needed(x) = From(x)
  BY <1>2, <1>5, Sizes DEF Needed
<1>8. ind_sn' = Sn(Pos)
  BY <1>1, <1>3, <1>6, <1>7, NeededIs DEF From
<1>9. Sn(Pos) = ind_sn
  BY <1>6, PosType DEF RxInv
<1>10. hi' = hi
  BY <1>1, <1>2, <1>5 DEF Arrives
<1>11. QED
  BY <1>8, <1>9, <1>10 DEF ReceiveAgain, ctrl

\* A frame that enters the list keeps the invariant.
LEMMA ReceiveInv ==
  ASSUME RxInv, NEW x \in Frame, Receive(x), Same
  PROVE  RxInv'
<1>1. /\ hi' \in First - 1 .. MaxFrame /\ hi' \in Int
  BY ReceiveMoves
<1>2. PICK n \in Int, t \in Seq(First .. MaxFrame) :
        /\ Len(t) = Len(reord_list) + 1 /\ MovesTo(t, n)
        /\ ind_sn' = Sn(n) /\ n <= hi' + 1 /\ hi' + 1 - AICWF_REORDER_WINSIZE <= n
        /\ Within(ToSet(t), From(x) - 1, hi')
        /\ reord_timer' \in BOOLEAN /\ (reord_timer' <=> reord_list' # <<>>)
        /\ freeq' = freeq - 1 + Len(up')
  BY ReceiveMoves
<1>3. /\ info' = TRUE /\ enabled' = TRUE /\ rx = "idle" /\ freeq > 0
      /\ UNCHANGED <<handler_runs, reord_timer_work, worker_runs, rx, dangling, allow>>
  BY DEF Receive, Arrives, Same
<1>4. ind_sn' \in 0 .. SnMod - 1 /\ ind_sn' # NoSn
  BY <1>2, SnType
<1>5. /\ freeq \in 0 .. MAX_REORD_RXFRAME /\ Len(reord_list) \in Nat /\ Len(up') \in Nat /\ Len(reord_list') \in Nat
      /\ Len(up') + Len(reord_list') = Len(reord_list) + 1 /\ MAX_REORD_RXFRAME \in Nat
  BY <1>2, LenProperties, RxAssumption DEF MovesTo, RxInv, TypeOK
<1>6. freeq' + Len(reord_list') = freeq + Len(reord_list) /\ freeq' >= 0 /\ freeq' \in Int
  BY <1>2, <1>3, <1>5
<1>7. TypeOK'
  <2>1. freeq' \in 0 .. MAX_REORD_RXFRAME
    BY <1>5, <1>6 DEF RxInv, PoolInv
  <2>2. QED
    BY <1>1, <1>2, <1>3, <1>4, <2>1 DEF RxInv, TypeOK, MovesTo
<1>8. CtrlInv'
  BY <1>3, <1>4 DEF CtrlInv
<1>9. HeldInv'
  <2>1. Pos' = n
    BY <1>1, <1>2, Stands
  <2>2. Sorted(reord_list') /\ ToSet(reord_list') = {y \in ToSet(t) : y > n}
    BY <1>2 DEF MovesTo
  <2>3. Within(ToSet(reord_list'), n, hi')
    BY <1>2, <2>2 DEF Within
  <2>4. QED
    BY <1>2, <2>1, <2>2, <2>3 DEF HeldInv
<1>10. TimerInv'
  BY <1>2, <1>3 DEF RxInv, TimerInv, HeldIsTimed, NoDangling
<1>11. PoolInv'
  BY <1>3, <1>6 DEF RxInv, PoolInv, PoolConserved
<1>12. UpSorted'
  BY <1>2 DEF UpSorted, Sorted, MovesTo
<1>13. QED
  BY <1>7, <1>8, <1>9, <1>10, <1>11, <1>12 DEF RxInv

\* So does the work the timer queues.
LEMMA WorkerInv ==
  ASSUME RxInv, reord_timeout_worker, Same
  PROVE  RxInv'
<1>1. /\ worker_runs /\ worker_runs' = FALSE
      /\ UNCHANGED <<info, enabled, handler_runs, reord_timer_work, rx, hi, dangling, allow>>
      /\ freeq' = freeq + Len(up')
  BY DEF reord_timeout_worker, Same
<1>2. CASE reord_list = <<>>
  <2>1. up' = <<>> /\ UNCHANGED <<ind_sn, reord_list, reord_timer>>
    BY <1>2 DEF reord_timeout_worker
  <2>2. up' \in Seq(First .. MaxFrame) /\ UpSorted' /\ Len(up') = 0
    BY <2>1, EmptyUp
  <2>3. freeq' = freeq
    BY <1>1, <2>2 DEF RxInv, TypeOK
  <2>4. HeldInv'
    BY <1>1, <2>1, CtrlStays DEF ctrl
  <2>5. TypeOK' /\ CtrlInv' /\ PoolInv'
    BY <1>1, <2>1, <2>2, <2>3 DEF RxInv, TypeOK, CtrlInv, PoolInv, PoolConserved
  <2>6. TimerInv'
    BY <1>1, <1>2, <2>1 DEF RxInv, TimerInv, HeldIsTimed, NoDangling
  <2>7. QED
    BY <2>2, <2>4, <2>5, <2>6 DEF RxInv
<1>3. CASE reord_list # <<>>
  <2>1. info /\ Pos \in Int /\ hi \in Int /\ hi' = hi
    BY <1>3, WorkerMoves
  <2>2. PICK n \in Int :
          /\ MovesTo(reord_list, n)
          /\ ind_sn' = Sn(n) /\ n <= hi + 1 /\ hi + 1 - AICWF_REORDER_WINSIZE <= n
          /\ reord_timer' \in BOOLEAN /\ (reord_list' # <<>> => reord_timer')
    BY <1>3, WorkerMoves
  <2>3. rx \notin {"idle", "flush"} \/ enabled
    BY <1>3 DEF RxInv, CtrlInv
  <2>4. ind_sn' \in 0 .. SnMod - 1 /\ ind_sn' # NoSn
    BY <2>2, SnType
  <2>5. /\ freeq \in 0 .. MAX_REORD_RXFRAME /\ Len(reord_list) \in Nat /\ Len(up') \in Nat /\ Len(reord_list') \in Nat
        /\ Len(up') + Len(reord_list') = Len(reord_list) /\ MAX_REORD_RXFRAME \in Nat
    BY <2>2, LenProperties, RxAssumption DEF MovesTo, RxInv, TypeOK
  <2>6. freeq' + Len(reord_list') = freeq + Len(reord_list) /\ freeq' >= 0 /\ freeq' \in Int
    BY <1>1, <2>5
  <2>7. TypeOK'
    <3>1. freeq' \in 0 .. MAX_REORD_RXFRAME
      BY <2>5, <2>6 DEF RxInv, PoolInv
    <3>2. QED
      BY <1>1, <2>2, <2>4, <3>1 DEF RxInv, TypeOK, MovesTo
  <2>8. CtrlInv'
    BY <1>1, <2>1, <2>3, <2>4 DEF RxInv, CtrlInv
  <2>9. HeldInv'
    <3>1. Pos' = n
      BY <2>1, <2>2, Stands
    <3>2. Sorted(reord_list') /\ ToSet(reord_list') = {y \in ToSet(reord_list) : y > n}
      BY <2>2 DEF MovesTo
    <3>3. Within(ToSet(reord_list), Pos, hi)
      BY <1>3, <2>1 DEF RxInv, HeldInv, Windowed
    <3>4. Within(ToSet(reord_list'), n, hi')
      BY <2>1, <3>2, <3>3 DEF Within
    <3>5. QED
      BY <2>1, <2>2, <3>1, <3>2, <3>4 DEF HeldInv
  <2>10. TimerInv'
    BY <1>1, <2>2, <2>3 DEF RxInv, TimerInv, HeldIsTimed, NoDangling
  <2>11. PoolInv'
    BY <1>1, <2>6 DEF RxInv, PoolInv, PoolConserved
  <2>12. UpSorted'
    BY <2>2 DEF UpSorted, Sorted, MovesTo
  <2>13. QED
    BY <2>7, <2>8, <2>9, <2>10, <2>11, <2>12 DEF RxInv
<1>4. QED
  BY <1>2, <1>3

(* The steps that leave the list alone. *)
LEMMA QuietInv ==
  ASSUME RxInv, Same, NEW x \in Frame,
         \/ ReceiveLate(x, TRUE) \/ ReceiveLate(x, FALSE) \/ ReceiveAgain(x) \/ DropNoFrame \/ InitStaFails
         \/ TimerFires \/ reord_timeout_handler \/ WorkerStarts
         \/ FlushCancel \/ DeinitDelTimer \/ DeinitCancelWork
  PROVE  RxInv' /\ UNCHANGED <<ctrl, hi>>
<1>1. UNCHANGED <<ctrl, hi>>
  BY LateFacts, AgainFacts DEF ReceiveLate, DropNoFrame, InitStaFails, TimerFires, reord_timeout_handler,
     WorkerStarts, FlushCancel, DeinitDelTimer, DeinitCancelWork
<1>2. HeldInv' /\ Len(reord_list) \in Nat /\ freeq \in Int
  BY <1>1, CtrlStays
<1>3. up' = <<>> \/ up' = <<x>>
  BY DEF ReceiveLate, ReceiveAgain, DropNoFrame, InitStaFails, TimerFires, reord_timeout_handler,
     WorkerStarts, FlushCancel, DeinitDelTimer, DeinitCancelWork
<1>4. up' \in Seq(First .. MaxFrame) /\ UpSorted'
  <2>1. CASE up' = <<>>
    BY <2>1, EmptyUp
  <2>2. CASE up' = <<x>>
    BY <2>2, FrameInt DEF UpSorted
  <2>3. QED
    BY <1>3, <2>1, <2>2
<1>5. freeq' = freeq \/ InitStaFails
  BY DEF ReceiveLate, ReceiveAgain, DropNoFrame, TimerFires, reord_timeout_handler,
     WorkerStarts, FlushCancel, DeinitDelTimer, DeinitCancelWork
<1>6. PoolInv' /\ freeq' \in 0 .. MAX_REORD_RXFRAME
  <2>1. CASE freeq' = freeq
    BY <1>1, <2>1 DEF RxInv, TypeOK, PoolInv, PoolConserved, Same, ctrl
  <2>2. CASE InitStaFails
    BY <1>1, <1>2, <2>2, RxAssumption DEF RxInv, TypeOK, PoolInv, PoolConserved, Same, InitStaFails, ctrl
  <2>3. QED
    BY <1>5, <2>1, <2>2
<1>7. /\ rx' \in {"idle", "flush", "stop", "cancel", "free"} /\ dangling' = dangling
      /\ reord_timer' \in BOOLEAN /\ handler_runs' \in BOOLEAN /\ reord_timer_work' \in BOOLEAN /\ worker_runs' \in BOOLEAN
  BY DEF RxInv, TypeOK, ReceiveLate, ReceiveAgain, DropNoFrame, InitStaFails, TimerFires, reord_timeout_handler,
     WorkerStarts, FlushCancel, DeinitDelTimer, DeinitCancelWork, timers
<1>8. TypeOK'
  BY <1>1, <1>4, <1>6, <1>7 DEF RxInv, TypeOK, Same, ctrl
<1>9. CtrlInv'
  BY <1>1 DEF RxInv, TypeOK, CtrlInv, ctrl, ReceiveLate, ReceiveAgain, DropNoFrame, InitStaFails, TimerFires,
     reord_timeout_handler, WorkerStarts, FlushCancel, DeinitDelTimer, DeinitCancelWork
<1>10. TimerInv'
  <2>1. CASE UNCHANGED <<timers, rx, dangling>>
    BY <1>1, <2>1 DEF RxInv, TimerInv, HeldIsTimed, NoDangling, Same, ctrl, timers
  <2>2. CASE TimerFires \/ reord_timeout_handler \/ WorkerStarts
    BY <1>1, <2>2 DEF RxInv, TimerInv, HeldIsTimed, NoDangling, Same, ctrl, TimerFires, reord_timeout_handler, WorkerStarts
  <2>3. CASE FlushCancel
    BY <1>1, <2>3 DEF RxInv, CtrlInv, TimerInv, HeldIsTimed, NoDangling, Same, ctrl, FlushCancel
  <2>4. CASE DeinitDelTimer \/ DeinitCancelWork
    BY <1>1, <2>4 DEF RxInv, CtrlInv, TimerInv, HeldIsTimed, NoDangling, Same, ctrl, DeinitDelTimer, DeinitCancelWork
  <2>5. UNCHANGED <<timers, rx, dangling>> \/ TimerFires \/ reord_timeout_handler \/ WorkerStarts
        \/ FlushCancel \/ DeinitDelTimer \/ DeinitCancelWork
    BY DEF ReceiveLate, ReceiveAgain, DropNoFrame, InitStaFails
  <2>6. QED
    BY <2>1, <2>2, <2>3, <2>4, <2>5
<1>11. QED
  BY <1>1, <1>2, <1>4, <1>6, <1>8, <1>9, <1>10 DEF RxInv

(* The ends of a session and of an association. *)
LEMMA EndInv ==
  ASSUME RxInv, Same, FlushList \/ DeinitStop \/ DeinitFree
  PROVE  RxInv'
<1>1. /\ Len(reord_list) \in Nat /\ freeq \in 0 .. MAX_REORD_RXFRAME /\ MAX_REORD_RXFRAME \in Nat
      /\ <<>> \in Seq(First .. MaxFrame) /\ Len(<<>>) = 0 /\ Sorted(<<>>)
  BY LenProperties, EmptySeq, RxAssumption DEF RxInv, TypeOK, Sorted
<1>2. CASE FlushList
  <2>a. freeq' = freeq + Len(reord_list) /\ freeq' \in 0 .. MAX_REORD_RXFRAME /\ Len(reord_list') = 0
    BY <1>1, <1>2 DEF RxInv, PoolInv, FlushList
  <2>b. TypeOK'
    BY <1>1, <1>2, <2>a DEF RxInv, TypeOK, FlushList, Same, timers
  <2>1. TypeOK' /\ PoolInv'
    BY <1>1, <2>a, <2>b DEF RxInv, PoolInv, PoolConserved, Same
  <2>2. CtrlInv' /\ HeldInv'
    BY <1>1, <1>2 DEF RxInv, CtrlInv, HeldInv, Windowed, FlushList
  <2>3. TimerInv'
    BY <1>2 DEF RxInv, TimerInv, HeldIsTimed, NoDangling, FlushList, Same, timers
  <2>4. UpSorted'
    BY <1>2 DEF RxInv, HeldInv, Sorted, UpSorted, FlushList
  <2>5. QED
    BY <2>1, <2>2, <2>3, <2>4 DEF RxInv
<1>3. CASE DeinitStop
  <2>1. TypeOK' /\ PoolInv'
    BY <1>1, <1>3 DEF RxInv, TypeOK, PoolInv, PoolConserved, DeinitStop, Same, timers
  <2>2. CtrlInv'
    BY <1>3 DEF RxInv, CtrlInv, DeinitStop
  <2>3. HeldInv'
    <3>1. enabled \/ reord_list = <<>>
      BY <1>3 DEF RxInv, CtrlInv, DeinitStop
    <3>2. UNCHANGED <<info, ind_sn, reord_list, hi>>
      BY <1>3 DEF DeinitStop
    <3>3. Pos' = Pos
      BY <3>2 DEF Pos
    <3>4. Windowed' => Windowed
      BY <3>1, <3>2, <1>3 DEF Windowed, DeinitStop
    <3>5. QED
      BY <3>2, <3>3, <3>4 DEF RxInv, HeldInv
  <2>4. TimerInv'
    BY <1>3 DEF RxInv, CtrlInv, TimerInv, HeldIsTimed, NoDangling, DeinitStop, Same, timers
  <2>5. UpSorted'
    BY <1>3, EmptyUp DEF DeinitStop
  <2>6. QED
    BY <2>1, <2>2, <2>3, <2>4, <2>5 DEF RxInv
<1>4. CASE DeinitFree
  <2>a. freeq' = freeq + Len(reord_list) /\ freeq' \in 0 .. MAX_REORD_RXFRAME /\ Len(reord_list') = 0
    BY <1>1, <1>4 DEF RxInv, PoolInv, DeinitFree
  <2>c. dangling' \in BOOLEAN
    BY <1>4 DEF DeinitFree
  <2>b. TypeOK'
    BY <1>1, <1>4, <2>a, <2>c DEF RxInv, TypeOK, DeinitFree, Same
  <2>1. TypeOK' /\ PoolInv'
    BY <1>1, <2>a, <2>b DEF RxInv, PoolInv, PoolConserved, Same
  <2>2. CtrlInv' /\ HeldInv'
    BY <1>1, <1>4 DEF RxInv, CtrlInv, HeldInv, Windowed, DeinitFree
  <2>3. TimerInv'
    BY <1>4 DEF RxInv, TimerInv, HeldIsTimed, NoDangling, DeinitFree, Same
  <2>4. UpSorted'
    BY <1>4, EmptyUp DEF DeinitFree
  <2>5. QED
    BY <2>1, <2>2, <2>3, <2>4 DEF RxInv
<1>5. QED
  BY <1>2, <1>3, <1>4

\* Every step keeps the invariant.
LEMMA RxStepInv ==
  ASSUME RxInv, [Next]_vars
  PROVE  RxInv'
<1>1. CASE UNCHANGED vars
  BY <1>1 DEF vars, ctrl, timers, RxInv, TypeOK, CtrlInv, HeldInv, TimerInv, PoolInv, UpSorted, Windowed, Pos,
     HeldIsTimed, NoDangling, PoolConserved
<1>2. CASE Next
  <2>1. First \in Frame
    BY RxAssumption DEF Frame
  <2>2. QED
    BY <1>2, <2>1, QuietInv, ReceiveInv, WorkerInv, EndInv DEF Next
<1>3. QED
  BY <1>1, <1>2

(* The frames held back stay in the peer's order and inside its window, every
   recv_msdu is accounted for, someone comes for what is held, and a freed
   reord_ctrl leaves nothing running behind (rwnx_rx.c, "reord_..."). *)
THEOREM BufferTheorem == Spec => []BufferConsistent
<1>1. RxInv => BufferConsistent
  BY DEF RxInv, BufferConsistent, TimerInv, PoolInv
<1>2. QED
  BY <1>1, RxInitInv, RxStepInv, PTL DEF Spec
-----------------------------------------------------------------------------
(* Every step of the buffer is one of the window.                           *)

(* The position of the window the refinement reads off the buffer. *)
WInd == IF Windowed THEN Pos ELSE NoSn

\* The refinement's position is WInd.
LEMMA WIndIs ==
  /\ RxInv => (IF ~info \/ ind_sn = NoSn \/ (~enabled /\ reord_list = <<>>) THEN NoSn
               ELSE (hi + 1) - (((hi + 1) - ind_sn) % SnMod)) = WInd
  /\ RxInv' => (IF ~info' \/ ind_sn' = NoSn \/ (~enabled' /\ reord_list' = <<>>) THEN NoSn
                ELSE (hi' + 1) - (((hi' + 1) - ind_sn') % SnMod)) = WInd'
  BY DEF WInd, Windowed, Pos, RxInv, CtrlInv

\* What the window's variables are of.
LEMMA WindowTypes ==
  ASSUME RxInv
  PROVE  /\ WInd # NoSn => Windowed /\ WInd = Pos
         /\ Windowed => WInd \in Int /\ WInd # NoSn /\ WInd = Pos
         /\ ToSet(up) \subseteq First .. MaxFrame /\ ToSet(reord_list) \subseteq First .. MaxFrame
<1>1. Windowed => Pos \in Int
  BY PosType DEF RxInv, Windowed
<1>2. \A s \in Seq(First .. MaxFrame) : ToSet(s) \subseteq First .. MaxFrame
  BY ElementOfSeq, LenProperties DEF ToSet
<1>3. QED
  BY <1>1, <1>2, Sizes DEF WInd, RxInv, TypeOK

\* A step that moves nothing and hands nothing up is Idle.
LEMMA MapsIdle ==
  ASSUME RxInv, RxInv', WInd' = WInd, ToSet(reord_list') = ToSet(reord_list), ToSet(up') = {}
  PROVE  Window!Idle
  BY WIndIs DEF Window!Idle

\* One that hands up a frame below the position is Late.
LEMMA MapsLate ==
  ASSUME RxInv, RxInv', WInd' = WInd, ToSet(reord_list') = ToSet(reord_list), NEW x, ToSet(up') = {x},
         WInd # NoSn, x < WInd
  PROVE  Window!Late(x)
  BY WIndIs DEF Window!Late

\* One that leaves no position and no frame is Flush or Discard.
LEMMA MapsEnd ==
  ASSUME RxInv, RxInv', WInd' = NoSn, ToSet(reord_list') = {}
  PROVE  /\ ToSet(up') = ToSet(reord_list) => Window!Flush
         /\ ToSet(up') = {} => Window!Discard
  BY WIndIs DEF Window!Flush, Window!Discard

\* One that moves to the first hole is Advance.
LEMMA MapsAdvance ==
  ASSUME RxInv', NEW held, NEW lo, NEW n \in First - AICWF_REORDER_WINSIZE .. MaxFrame + 1,
         Gap(held, lo, n), WInd' = n,
         ToSet(reord_list') = {y \in held : y > n}, ToSet(up') = {y \in held : y < n}
  PROVE  Window!Advance(held, lo)
<1>1. Window!FirstHole(held, lo, n)
  BY DEF Window!FirstHole, Gap
<1>2. QED
  BY <1>1, WIndIs DEF Window!Advance

\* The window and the driver place a new frame alike.
LEMMA BaseIs ==
  ASSUME RxInv, rx = "idle", NEW x
  PROVE  Window!Base(x) = From(x)
<1>1. Windowed <=> info /\ enabled
  BY DEF Windowed, RxInv, CtrlInv
<1>2. Windowed => Pos # NoSn
  BY PosType, Sizes DEF RxInv, Windowed
<1>3. QED
  BY <1>1, <1>2, WIndIs DEF Window!Base, From, WInd

\* A position between the window's ends is an index.
LEMMA InRange ==
  ASSUME NEW n \in Int, NEW h \in Int, NEW f \in Int, NEW m \in Int, NEW w \in Int,
         f - 1 <= h, h <= m, n <= h + 1, h + 1 - w <= n
  PROVE  n \in f - w .. m + 1
  OBVIOUS

\* Receive is Accept.
LEMMA MapsReceive ==
  ASSUME RxInv, RxInv', NEW x \in Frame, Receive(x)
  PROVE  x \in First - AICWF_REORDER_WINSIZE .. MaxFrame + 1 /\ Window!Accept(x)
<1>1. /\ From(x) <= x /\ x \notin ToSet(reord_list) /\ hi' \in First - 1 .. MaxFrame /\ hi' \in Int
  BY ReceiveMoves
<1>2. PICK n \in Int, t \in Seq(First .. MaxFrame) :
        /\ ToSet(t) = ToSet(reord_list) \cup {x}
        /\ MovesTo(t, n) /\ Gap(ToSet(t), Needed(x), n)
        /\ ind_sn' = Sn(n) /\ n <= hi' + 1 /\ hi' + 1 - AICWF_REORDER_WINSIZE <= n
  BY ReceiveMoves
<1>3. /\ Arrives(x) /\ rx = "idle" /\ info' = TRUE /\ enabled' = TRUE
  BY DEF Receive, Arrives
<1>4. x \in Int /\ From(x) \in Int /\ x \in First .. MaxFrame
  BY <1>3, FromIs, FrameInt
<1>5. n \in First - AICWF_REORDER_WINSIZE .. MaxFrame + 1 /\ x \in First - AICWF_REORDER_WINSIZE .. MaxFrame + 1
  <2>1. PICK h \in Int : h = hi' /\ First - 1 <= h /\ h <= MaxFrame
    BY <1>1, Sizes, FrameInt
  <2>2. n <= h + 1 /\ h + 1 - AICWF_REORDER_WINSIZE <= n
    BY <1>2, <2>1
  <2>3. n \in First - AICWF_REORDER_WINSIZE .. MaxFrame + 1
    <3>1. AICWF_REORDER_WINSIZE \in Int
      BY Sizes
    <3>2. QED
      BY <2>1, <2>2, <3>1, FrameInt, InRange
  <2>4. x \in First - AICWF_REORDER_WINSIZE .. MaxFrame + 1
    BY <1>4, Sizes, FrameInt
  <2>5. QED
    BY <2>3, <2>4
<1> DEFINE lo == IF x - AICWF_REORDER_WINSIZE + 1 > From(x) THEN x - AICWF_REORDER_WINSIZE + 1 ELSE From(x)
<1>6. Gap(ToSet(t), lo, n)
  <2>1. CASE x = From(x)
    <3>1. Needed(x) = x + 1 /\ lo = x
      BY <1>4, <2>1, Sizes DEF Needed
    <3>2. x \in ToSet(t)
      BY <1>2
    <3>3. QED
      BY <1>2, <1>4, <3>1, <3>2 DEF Gap
  <2>2. CASE x # From(x)
    <3>1. Needed(x) = lo
      BY <1>4, <2>2, Sizes DEF Needed
    <3>2. QED
      BY <1>2, <3>1
  <2>3. QED
    BY <2>1, <2>2
<1>7. WInd' = n
  <2>1. Pos' = n
    BY <1>1, <1>2, Stands
  <2>2. QED
    BY <1>3, <2>1 DEF WInd, Windowed
<1>8. Window!Advance(ToSet(reord_list) \cup {x}, lo)
  BY <1>2, <1>5, <1>6, <1>7, MapsAdvance DEF MovesTo
<1>9. Window!Base(x) = From(x)
  BY <1>3, BaseIs
<1>10. QED
  BY <1>1, <1>4, <1>5, <1>8, <1>9 DEF Window!Accept

\* The timer's work gives up the holes before the first frame held.
LEMMA MapsWorker ==
  ASSUME RxInv, RxInv', reord_timeout_worker
  PROVE  Window!GiveUp \/ Window!Flush \/ Window!Idle
<1>1. CASE reord_list = <<>>
  <2>1. UNCHANGED <<ctrl, hi>> /\ up' = <<>>
    BY <1>1 DEF reord_timeout_worker, ctrl
  <2>2. WInd' = WInd /\ ToSet(reord_list') = ToSet(reord_list) /\ ToSet(up') = {}
    BY <2>1, EmptyUp DEF WInd, Windowed, Pos, ctrl
  <2>3. QED
    BY <2>2, MapsIdle
<1>2. CASE reord_list # <<>>
  <2>1. info /\ Pos \in Int /\ hi \in Int /\ hi' = hi
    BY <1>2, WorkerMoves
  <2>2. PICK n \in Int, lo \in ToSet(reord_list) :
          /\ \A y \in ToSet(reord_list) : lo <= y
          /\ MovesTo(reord_list, n) /\ Gap(ToSet(reord_list), lo, n)
          /\ ind_sn' = Sn(n) /\ n <= hi + 1 /\ hi + 1 - AICWF_REORDER_WINSIZE <= n
    BY <1>2, WorkerMoves
  <2>3. UNCHANGED <<info, enabled>>
    BY DEF reord_timeout_worker
  <2>4. Pos' = n
    BY <2>1, <2>2, Stands
  <2>5. n \in First - AICWF_REORDER_WINSIZE .. MaxFrame + 1
    <3>1. hi \in First - 1 .. MaxFrame
      BY DEF RxInv, TypeOK
    <3>2. QED
      BY <2>2, <3>1, Sizes, FrameInt
  <2>6. CASE Windowed'
    <3>1. WInd' = n
      BY <2>4, <2>6 DEF WInd
    <3>2. Window!Advance(ToSet(reord_list), lo)
      BY <2>2, <2>5, <3>1, MapsAdvance DEF MovesTo
    <3>3. Window!GiveUp
      BY <2>2, <3>2 DEF Window!GiveUp
    <3>4. QED
      BY <3>3
  <2>7. CASE ~Windowed'
    <3>1. WInd' = NoSn /\ reord_list' = <<>>
      BY <2>1, <2>3, <2>7 DEF WInd, Windowed
    <3>2. ToSet(reord_list') = {}
      BY <3>1 DEF ToSet
    <3>3. ToSet(up') = ToSet(reord_list)
      <4>1. \A y \in ToSet(reord_list) : y \in Int /\ y # n /\ ~(y > n)
        <5>1. \A y \in ToSet(reord_list) : y \in Int
          BY WindowTypes, FrameInt
        <5>2. QED
          BY <2>2, <3>2, <5>1 DEF MovesTo
      <4>2. QED
        BY <2>2, <4>1 DEF MovesTo
    <3>4. QED
      BY <3>1, <3>2, <3>3, MapsEnd
  <2>8. QED
    BY <2>6, <2>7
<1>3. QED
  BY <1>1, <1>2

\* The steps that leave the list alone.
LEMMA MapsQuiet ==
  ASSUME RxInv, RxInv', NEW x \in Frame, UNCHANGED <<ctrl, hi>>,
         \/ ReceiveLate(x, TRUE) \/ ReceiveLate(x, FALSE) \/ ReceiveAgain(x) \/ DropNoFrame \/ InitStaFails
         \/ TimerFires \/ reord_timeout_handler \/ WorkerStarts
         \/ FlushCancel \/ DeinitDelTimer \/ DeinitCancelWork
  PROVE  Window!Next
<1>1. WInd' = WInd /\ ToSet(reord_list') = ToSet(reord_list)
  BY DEF WInd, Windowed, Pos, ctrl
<1>2. CASE up' = <<>>
  <2>1. Window!Idle
    BY <1>1, <1>2, EmptyUp, MapsIdle
  <2>2. QED
    BY <2>1 DEF Window!Next
<1>3. CASE ReceiveLate(x, FALSE)
  <2>1. Arrives(x) /\ IsLate(Sn(x)) /\ up' = <<x>>
    BY <1>3 DEF ReceiveLate
  <2>2. Windowed /\ x < Pos /\ x \in First .. MaxFrame
    BY <2>1, LateFacts
  <2>3. ToSet(up') = {x}
    BY <2>1 DEF ToSet
  <2>4. WInd # NoSn /\ x < WInd
    BY <2>2, WindowTypes
  <2>5. Window!Late(x)
    BY <1>1, <2>3, <2>4, MapsLate
  <2>6. x \in First - AICWF_REORDER_WINSIZE .. MaxFrame + 1
    BY <2>2, Sizes, FrameInt
  <2>7. QED
    BY <2>5, <2>6 DEF Window!Next
<1>4. QED
  BY <1>2, <1>3 DEF ReceiveLate, ReceiveAgain, DropNoFrame, InitStaFails, TimerFires, reord_timeout_handler,
     WorkerStarts, FlushCancel, DeinitDelTimer, DeinitCancelWork

\* The ends of a session and of an association.
LEMMA MapsEnds ==
  ASSUME RxInv, RxInv', FlushList \/ DeinitStop \/ DeinitFree
  PROVE  Window!Flush \/ Window!Discard \/ Window!Idle
<1>1. CASE FlushList
  <2>1. WInd' = NoSn /\ ToSet(reord_list') = {} /\ ToSet(up') = ToSet(reord_list)
    BY <1>1 DEF FlushList, WInd, Windowed, ToSet
  <2>2. QED
    BY <2>1, MapsEnd
<1>2. CASE DeinitStop
  <2>1. UNCHANGED <<info, ind_sn, reord_list, hi>> /\ up' = <<>> /\ enabled' = FALSE /\ info
    BY <1>2 DEF DeinitStop
  <2>2. Pos' = Pos /\ ToSet(reord_list') = ToSet(reord_list) /\ ToSet(up') = {}
    BY <2>1, EmptyUp DEF Pos
  <2>3. CASE reord_list = <<>>
    <3>1. WInd' = NoSn /\ ToSet(reord_list') = {}
      BY <2>1, <2>3 DEF WInd, Windowed, ToSet
    <3>2. QED
      BY <2>2, <3>1, MapsEnd
  <2>4. CASE reord_list # <<>>
    <3>1. WInd' = WInd
      BY <2>1, <2>2, <2>4 DEF WInd, Windowed
    <3>2. QED
      BY <2>2, <3>1, MapsIdle
  <2>5. QED
    BY <2>3, <2>4
<1>3. CASE DeinitFree
  <2>1. WInd' = NoSn /\ ToSet(reord_list') = {} /\ ToSet(up') = {}
    BY <1>3 DEF DeinitFree, WInd, Windowed, ToSet
  <2>2. QED
    BY <2>1, MapsEnd
<1>4. QED
  BY <1>1, <1>2, <1>3

\* Every step of the buffer is one of the window.
LEMMA MapsStep ==
  ASSUME RxInv, RxInv', [Next]_vars
  PROVE  [Window!Next]_(Window!vars)
<1>1. CASE UNCHANGED vars
  <2>1. UNCHANGED Window!vars
    BY <1>1 DEF Window!vars, vars, ctrl
  <2>2. QED
    BY <2>1
<1>2. CASE Next
  <2>1. First \in Frame /\ Same
    BY <1>2, RxAssumption DEF Frame, Next
  <2>2. ASSUME NEW x \in Frame, Receive(x) PROVE Window!Next
    BY <2>2, MapsReceive DEF Window!Next
  <2>3. ASSUME reord_timeout_worker PROVE Window!Next
    BY <2>3, MapsWorker DEF Window!Next
  <2>4. ASSUME FlushList \/ DeinitStop \/ DeinitFree PROVE Window!Next
    BY <2>4, MapsEnds DEF Window!Next
  <2>5. ASSUME NEW x \in Frame,
               \/ ReceiveLate(x, TRUE) \/ ReceiveLate(x, FALSE) \/ ReceiveAgain(x) \/ DropNoFrame \/ InitStaFails
               \/ TimerFires \/ reord_timeout_handler \/ WorkerStarts
               \/ FlushCancel \/ DeinitDelTimer \/ DeinitCancelWork
        PROVE  Window!Next
    BY <2>1, <2>5, QuietInv, MapsQuiet
  <2>6. QED
    BY <1>2, <2>1, <2>2, <2>3, <2>4, <2>5 DEF Next
<1>3. QED
  BY <1>1, <1>2

(* The driver's buffer implements the window: what it does with 12-bit numbers
   is what the window does with the frames, over loss, reordering, repetition,
   wrap-around, expiry, the end of a session and teardown. *)
THEOREM RefinementTheorem == Spec => WindowRefined
<1>1. Init => Window!Init
  <2>1. SUFFICES ASSUME Init PROVE Window!Init
    OBVIOUS
  <2>2. ToSet(<<>>) = {}
    BY DEF ToSet
  <2>3. info = FALSE /\ ToSet(reord_list) = {} /\ ToSet(up) = {}
    BY <2>1, <2>2 DEF Init
  <2>4. QED
    BY <2>3, Zenon DEF Window!Init
<1>2. RxInv /\ RxInv' /\ [Next]_vars => [Window!Next]_(Window!vars)
  BY MapsStep
<1>3. RxInv /\ [Next]_vars => RxInv'
  BY RxStepInv
<1>4. QED
  BY <1>1, <1>2, <1>3, RxInitInv, PTL DEF Spec, WindowRefined, Window!Spec

=============================================================================
