------------------------- MODULE RateLimiterProofs -------------------------
(***************************************************************************)
(* Proofs about RateLimiter, for any keys, settings, deque size, window,   *)
(* resolution of the clock and horizon.                                    *)
(*                                                                         *)
(* What rate_limit_check reads of a key is its deque less the stamps that  *)
(* have left the window (View).  The invariant relates that, and not the   *)
(* deque, to what was granted: it is the last MaxLen of the grants still   *)
(* in the window (Remembered), so pruning, the sweep of stale keys and the *)
(* passing of time need one lemma each on sequences of stamps.             *)
(***************************************************************************)
EXTENDS RateLimiter, TLAPS, SequenceTheorems, WellFoundedInduction

View(k) == Recent(StampsOf(k), now)

\* The sequences of stamps the limiter handles.
Stamps == {s \in Seq(Nat) : Sorted(s)}

\* r is the last MaxLen elements of g.
IsLast(r, g) ==
  /\ Len(r) = IF Len(g) <= MaxLen THEN Len(g) ELSE MaxLen
  /\ \A i \in 1..Len(r) : r[i] = g[Len(g) - Len(r) + i]

-----------------------------------------------------------------------------
\* A set of numbers that is not empty has a least.
LEMMA LeastIs ==
  ASSUME NEW S \in SUBSET Nat, S # {}
  PROVE  \E n \in S : \A k \in S : n <= k
<1>1. PICK n \in S : \A k \in S : <<k, n>> \notin OpToRel(<, Nat)
  BY NatLessThanWellFounded, WFMin, Zenon
<1>2. \A k \in S : n <= k
  <2>1. SUFFICES ASSUME NEW k \in S PROVE ~(k < n)
    OBVIOUS
  <2>2. QED
    BY <1>1, Zenon DEF OpToRel
<1>3. QED
  BY <1>2

\* The loop stops, at the first stamp that is still in the window.
LEMMA PoppedIs ==
  ASSUME NEW s \in Seq(Nat), NEW t \in Int
  PROVE  /\ Popped(s, t) \in 0..Len(s)
         /\ \A i \in 1..Popped(s, t) : s[i] < t - Window
         /\ Popped(s, t) < Len(s) => s[Popped(s, t) + 1] >= t - Window
<1> DEFINE Stop(n) == n < Len(s) => s[n + 1] >= t - Window
           S == {n \in 0..Len(s) : Stop(n)}
<1>1. Len(s) \in S /\ S \in SUBSET Nat
  OBVIOUS
<1>2. PICK n \in S : \A k \in S : n <= k
  BY <1>1, LeastIs
<1>3. Window \in Nat
  BY LimiterAssumption DEF Window
<1>4. ASSUME NEW i \in 1..n PROVE s[i] < t - Window
  <2>1. i - 1 \in 0..Len(s) /\ i - 1 < n /\ i - 1 < Len(s)
    BY <1>2
  <2>2. ~Stop(i - 1)
    BY <1>2, <2>1
  <2>3. s[i] \in Nat
    BY <2>1
  <2>4. QED
    BY <1>3, <2>2, <2>3
<1>5. \E m \in 0..Len(s) :
        /\ \A i \in 1..m : s[i] < t - Window
        /\ m < Len(s) => s[m + 1] >= t - Window
  BY <1>2, <1>4
<1>6. QED
  BY <1>5 DEF Popped

LEMMA WindowType == Window \in Nat
BY LimiterAssumption DEF Window

\* What the loop leaves: the stamps of the window, in their order.
LEMMA RecentIs ==
  ASSUME NEW s \in Stamps, NEW t \in Int
  PROVE  /\ Recent(s, t) \in Stamps
         /\ Popped(s, t) \in 0..Len(s)
         /\ Len(Recent(s, t)) = Len(s) - Popped(s, t)
         /\ \A i \in 1..Len(Recent(s, t)) :
              Recent(s, t)[i] = s[i + Popped(s, t)] /\ Recent(s, t)[i] >= t - Window
         /\ \A i \in 1..Popped(s, t) : s[i] < t - Window
<1> DEFINE p == Popped(s, t)
           r == Recent(s, t)
<1>1. s \in Seq(Nat) /\ Len(s) \in Nat /\ \A i, j \in 1..Len(s) : i < j => s[i] <= s[j]
  BY DEF Stamps, Sorted
<1>2. /\ p \in 0..Len(s)
      /\ \A i \in 1..p : s[i] < t - Window
      /\ p < Len(s) => s[p + 1] >= t - Window
  BY <1>1, PoppedIs
<1> HIDE DEF p
<1>3. r = SubSeq(s, p + 1, Len(s))
  BY DEF Recent, p
<1>4. \A i \in p + 1..Len(s) : s[i] \in Nat
  BY <1>1, <1>2
<1>5. /\ r \in Seq(Nat)
      /\ Len(r) = IF p + 1 <= Len(s) THEN Len(s) - (p + 1) + 1 ELSE 0
      /\ \A i \in 1..Len(s) - (p + 1) + 1 : r[i] = s[p + 1 + i - 1]
  BY <1>1, <1>2, <1>3, <1>4, SubSeqProperties
<1> HIDE DEF r
<1>6. Len(r) = Len(s) - p
  BY <1>1, <1>2, <1>5
<1>7. \A i \in 1..Len(r) : r[i] = s[i + p] /\ i + p \in 1..Len(s)
  BY <1>1, <1>2, <1>5, <1>6
<1>8. ASSUME NEW i \in 1..Len(r) PROVE r[i] >= t - Window
  <2>1. p < Len(s) /\ s[p + 1] \in Nat /\ s[i + p] \in Nat
    BY <1>1, <1>2, <1>6, <1>7, <1>8
  <2>2. s[p + 1] <= s[i + p]
    <3>1. p + 1 \in 1..Len(s) /\ i + p \in 1..Len(s) /\ (p + 1 = i + p \/ p + 1 < i + p)
      BY <1>2, <1>7, <1>8, <2>1
    <3>2. CASE p + 1 = i + p
      BY <2>1, <3>2
    <3>3. CASE p + 1 < i + p
      BY <1>1, <3>1, <3>3
    <3>4. QED
      BY <3>1, <3>2, <3>3
  <2>3. QED
    BY <1>2, <1>7, <1>8, <2>1, <2>2, WindowType
<1>9. Sorted(r)
  <2>1. SUFFICES ASSUME NEW i \in 1..Len(r), NEW j \in 1..Len(r), i < j PROVE r[i] <= r[j]
    BY DEF Sorted
  <2>2. i + p \in 1..Len(s) /\ j + p \in 1..Len(s) /\ i + p < j + p
    BY <1>2, <1>7, <2>1
  <2>3. s[i + p] <= s[j + p]
    BY <1>1, <2>2
  <2>4. QED
    BY <1>7, <2>3
<1>10. r \in Stamps
  BY <1>5, <1>9 DEF Stamps
<1>11. QED
  BY <1>2, <1>6, <1>7, <1>8, <1>10 DEF p, r

\* How many the loop drops is settled by where the window begins.
LEMMA PoppedOnly ==
  ASSUME NEW s \in Stamps, NEW t \in Int, NEW p \in 0..Len(s),
         \A i \in 1..p : s[i] < t - Window,
         p < Len(s) => s[p + 1] >= t - Window
  PROVE  Popped(s, t) = p
<1> DEFINE q == Popped(s, t)
<1>1. s \in Seq(Nat) /\ Len(s) \in Nat /\ \A i \in 1..Len(s) : s[i] \in Nat
  BY DEF Stamps
<1>2. /\ q \in 0..Len(s)
      /\ \A i \in 1..q : s[i] < t - Window
      /\ q < Len(s) => s[q + 1] >= t - Window
  BY <1>1, PoppedIs
<1> HIDE DEF q
<1>3. ~(p < q)
  BY <1>1, <1>2, WindowType
<1>4. ~(q < p)
  BY <1>1, <1>2, WindowType
<1>5. p = q
  BY <1>1, <1>2, <1>3, <1>4
<1>6. QED
  BY <1>5 DEF q

\* The same, for a number of dropped stamps that is known.
LEMMA RecentFrom ==
  ASSUME NEW s \in Stamps, NEW t \in Int, NEW p, Popped(s, t) = p
  PROVE  /\ Recent(s, t) \in Seq(Nat)
         /\ Len(Recent(s, t)) = Len(s) - p
         /\ \A i \in 1..Len(Recent(s, t)) : Recent(s, t)[i] = s[i + p]
<1>1. Recent(s, t) \in Stamps
  BY RecentIs
<1>2. Recent(s, t) \in Seq(Nat)
  BY <1>1 DEF Stamps
<1>3. QED
  BY <1>2, RecentIs

\* Nothing is dropped while every stamp is in the window.
LEMMA RecentAll ==
  ASSUME NEW s \in Stamps, NEW t \in Int, \A i \in 1..Len(s) : s[i] >= t - Window
  PROVE  Recent(s, t) = s
<1>1. s \in Seq(Nat) /\ Len(s) \in Nat
  BY DEF Stamps
<1>2. Popped(s, t) = 0
  BY <1>1, PoppedOnly
<1>3. /\ Recent(s, t) \in Seq(Nat) /\ Len(Recent(s, t)) = Len(s) - 0
      /\ \A i \in 1..Len(Recent(s, t)) : Recent(s, t)[i] = s[i + 0]
  BY <1>2, RecentFrom
<1>4. QED
  BY <1>1, <1>3, SeqEqual

\* All is dropped once the newest stamp has left it.
LEMMA RecentNone ==
  ASSUME NEW s \in Stamps, NEW t \in Int, s = <<>> \/ s[Len(s)] < t - Window
  PROVE  Recent(s, t) = <<>>
<1>1. /\ s \in Seq(Nat) /\ Len(s) \in Nat /\ \A i \in 1..Len(s) : s[i] \in Nat
      /\ \A i, j \in 1..Len(s) : i < j => s[i] <= s[j]
  BY DEF Stamps, Sorted
<1>2. \A i \in 1..Len(s) : s[i] < t - Window
  <2>1. SUFFICES ASSUME NEW i \in 1..Len(s) PROVE s[i] < t - Window
    OBVIOUS
  <2>2. Len(s) # 0 /\ s # <<>> /\ Len(s) \in 1..Len(s)
    BY <1>1
  <2>3. s[i] <= s[Len(s)]
    BY <1>1, <2>2
  <2>4. QED
    BY <1>1, <2>2, <2>3, WindowType
<1>3. Popped(s, t) = Len(s)
  BY <1>1, <1>2, PoppedOnly
<1>4. Recent(s, t) \in Seq(Nat) /\ Len(Recent(s, t)) = 0
  BY <1>1, <1>3, RecentIs DEF Stamps
<1>5. QED
  BY <1>4, EmptySeq

\* Pruning now and again later drops what pruning later would.
LEMMA RecentAgain ==
  ASSUME NEW s \in Stamps, NEW t \in Int, NEW u \in Int, t <= u
  PROVE  Recent(Recent(s, t), u) = Recent(s, u)
<1> DEFINE p == Popped(s, t)
           q == Popped(s, u)
           r == Recent(s, t)
<1>1. s \in Seq(Nat) /\ Len(s) \in Nat /\ \A i \in 1..Len(s) : s[i] \in Nat
  BY DEF Stamps
<1>2. /\ r \in Stamps /\ p \in 0..Len(s) /\ Len(r) = Len(s) - p
      /\ \A i \in 1..Len(r) : r[i] = s[i + p]
      /\ \A i \in 1..p : s[i] < t - Window
  BY RecentIs
<1>3. /\ q \in 0..Len(s)
      /\ \A i \in 1..q : s[i] < u - Window
      /\ q < Len(s) => s[q + 1] >= u - Window
  BY <1>1, PoppedIs
<1>4. Recent(s, u) \in Seq(Nat) /\ Len(Recent(s, u)) = Len(s) - q
      /\ \A i \in 1..Len(Recent(s, u)) : Recent(s, u)[i] = s[i + q]
  BY RecentIs DEF Stamps
<1> HIDE DEF p, q, r
<1>5. p <= q
  <2>1. SUFFICES ASSUME q < p PROVE FALSE
    BY <1>2, <1>3
  <2>2. q + 1 \in 1..p /\ q < Len(s) /\ s[q + 1] \in Nat
    BY <1>1, <1>2, <1>3, <2>1
  <2>3. s[q + 1] < t - Window /\ s[q + 1] >= u - Window
    BY <1>2, <1>3, <2>2
  <2>4. QED
    BY <2>2, <2>3, WindowType
<1>6. Popped(r, u) = q - p
  <2>1. q - p \in 0..Len(r)
    BY <1>1, <1>2, <1>3, <1>5
  <2>2. ASSUME NEW i \in 1..q - p PROVE r[i] < u - Window
    <3>1. i \in 1..Len(r) /\ i + p \in 1..q
      BY <1>1, <1>2, <1>3, <1>5, <2>2
    <3>2. QED
      BY <1>2, <1>3, <3>1
  <2>3. ASSUME q - p < Len(r) PROVE r[q - p + 1] >= u - Window
    <3>1. q - p + 1 \in 1..Len(r) /\ q - p + 1 + p = q + 1 /\ q < Len(s)
      BY <1>1, <1>2, <1>3, <1>5, <2>3
    <3>2. r[q - p + 1] = s[q + 1]
      BY <1>2, <3>1
    <3>3. QED
      BY <1>3, <3>1, <3>2
  <2>4. QED
    BY <1>2, <2>1, <2>2, <2>3, PoppedOnly
<1>7. /\ Recent(r, u) \in Seq(Nat)
      /\ Len(Recent(r, u)) = Len(r) - (q - p)
      /\ \A i \in 1..Len(Recent(r, u)) : Recent(r, u)[i] = r[i + (q - p)]
  BY <1>2, <1>6, RecentFrom
<1>8. Len(Recent(r, u)) = Len(Recent(s, u))
  BY <1>1, <1>2, <1>3, <1>4, <1>5, <1>7
<1>9. ASSUME NEW i \in 1..Len(Recent(r, u)) PROVE Recent(r, u)[i] = Recent(s, u)[i]
  <2>1. i + (q - p) \in 1..Len(r) /\ i + (q - p) + p = i + q
    BY <1>1, <1>2, <1>3, <1>5, <1>7, <1>9
  <2>2. QED
    BY <1>2, <1>4, <1>7, <1>8, <1>9, <2>1
<1>10. Recent(r, u) = Recent(s, u)
  BY <1>4, <1>7, <1>8, <1>9, SeqEqual
<1>11. QED
  BY <1>10 DEF r

-----------------------------------------------------------------------------
\* Time passes over the grants and over what is remembered of them alike.
LEMMA LastOfRecent ==
  ASSUME NEW r \in Stamps, NEW g \in Stamps, NEW t \in Int, IsLast(r, g)
  PROVE  IsLast(Recent(r, t), Recent(g, t))
<1> DEFINE p == Popped(g, t)
           o == Len(g) - Len(r)
           q == IF p <= o THEN 0 ELSE p - o
<1>1. /\ r \in Seq(Nat) /\ g \in Seq(Nat)
      /\ Len(r) \in Nat /\ Len(g) \in Nat
      /\ \A i \in 1..Len(r) : r[i] \in Nat
      /\ \A i \in 1..Len(g) : g[i] \in Nat
      /\ \A i, j \in 1..Len(g) : i < j => g[i] <= g[j]
  BY DEF Stamps, Sorted
<1>2. MaxLen \in Nat /\ Len(r) <= Len(g) /\ Len(r) <= MaxLen
      /\ (Len(r) = Len(g) \/ Len(r) = MaxLen)
      /\ \A i \in 1..Len(r) : r[i] = g[o + i]
  <2>1. Len(r) = (IF Len(g) <= MaxLen THEN Len(g) ELSE MaxLen) /\ MaxLen \in Nat
    BY LimiterAssumption DEF IsLast
  <2>2. \A i \in 1..Len(r) : r[i] = g[o + i]
    BY DEF IsLast
  <2>3. Len(r) <= Len(g) /\ Len(r) <= MaxLen /\ (Len(r) = Len(g) \/ Len(r) = MaxLen)
    <3>1. CASE Len(g) <= MaxLen
      BY <1>1, <2>1, <3>1
    <3>2. CASE ~(Len(g) <= MaxLen)
      BY <1>1, <2>1, <3>2
    <3>3. QED
      BY <3>1, <3>2
  <2>4. QED
    BY <2>1, <2>2, <2>3
<1>3. /\ p \in 0..Len(g) /\ Len(Recent(g, t)) = Len(g) - p
      /\ \A i \in 1..Len(Recent(g, t)) : Recent(g, t)[i] = g[i + p]
      /\ \A i \in 1..Len(Recent(g, t)) : g[i + p] >= t - Window
      /\ \A i \in 1..p : g[i] < t - Window
  BY RecentIs
<1>4. o \in Nat /\ q \in 0..Len(r) /\ (q > 0 => p = o + q) /\ (q = 0 => p <= o)
  <2>1. o \in Nat /\ p \in Nat
    BY <1>1, <1>2, <1>3
  <2>2. p <= Len(g)
    BY <1>3
  <2> HIDE DEF p
  <2>3. CASE p <= o
    BY <1>1, <2>1, <2>3
  <2>4. CASE ~(p <= o)
    BY <1>1, <2>1, <2>2, <2>4
  <2>5. QED
    BY <2>3, <2>4
<1> HIDE DEF p, q
<1>5. Popped(r, t) = q
  <2>1. ASSUME NEW i \in 1..q PROVE r[i] < t - Window
    <3>1. o + i \in 1..p /\ i \in 1..Len(r)
      <4>1. p \in Nat /\ Len(r) \in Nat /\ q > 0
        BY <1>1, <1>2, <1>3, <1>4, <2>1
      <4>2. p = o + q /\ q <= Len(r) /\ o \in Nat /\ q \in Nat
        BY <1>4, <4>1
      <4>3. QED
        BY <2>1, <4>1, <4>2
    <3>2. QED
      BY <1>2, <1>3, <3>1
  <2>2. ASSUME q < Len(r) PROVE r[q + 1] >= t - Window
    <3>1. q + 1 \in 1..Len(r) /\ o + (q + 1) \in p + 1..Len(g)
      <4>1. p \in Nat /\ o = Len(g) - Len(r)
        BY <1>1, <1>3
      <4>2. QED
        BY <1>1, <1>4, <2>2, <4>1
    <3>2. o + (q + 1) - p \in 1..Len(Recent(g, t)) /\ o + (q + 1) - p + p = o + (q + 1)
      BY <1>1, <1>3, <1>4, <3>1
    <3>3. g[o + (q + 1)] >= t - Window
      BY <1>3, <3>2
    <3>4. QED
      BY <1>2, <3>1, <3>3
  <2>3. QED
    BY <1>4, <2>1, <2>2, PoppedOnly
<1>6. /\ Len(Recent(r, t)) = Len(r) - q
      /\ \A i \in 1..Len(Recent(r, t)) : Recent(r, t)[i] = r[i + q]
  BY <1>5, RecentFrom
<1>7. p \in Nat /\ p <= Len(g) /\ o = Len(g) - Len(r)
  BY <1>1, <1>3
<1> HIDE DEF o
<1>8. Len(r) = IF Len(g) <= MaxLen THEN Len(g) ELSE MaxLen
  BY DEF IsLast
<1>9. Len(Recent(r, t)) = IF Len(Recent(g, t)) <= MaxLen THEN Len(Recent(g, t)) ELSE MaxLen
  <2>1. Len(Recent(r, t)) = Len(r) - q /\ Len(Recent(g, t)) = Len(g) - p
    BY <1>3, <1>6
  <2>2. Len(r) \in Nat /\ Len(g) \in Nat /\ MaxLen \in Nat /\ q \in Nat /\ q <= Len(r)
    BY <1>1, <1>2, <1>4
  <2>3. CASE q = 0
    BY <1>4, <1>7, <1>8, <2>1, <2>2, <2>3
  <2>4. CASE q > 0
    BY <1>4, <1>7, <1>8, <2>1, <2>2, <2>4
  <2>5. QED
    BY <2>2, <2>3, <2>4
<1>10. ASSUME NEW i \in 1..Len(Recent(r, t))
       PROVE  Recent(r, t)[i] = Recent(g, t)[Len(Recent(g, t)) - Len(Recent(r, t)) + i]
  <2> DEFINE j == Len(Recent(g, t)) - Len(Recent(r, t)) + i
  <2>1. j \in 1..Len(Recent(g, t)) /\ j + p = o + (i + q) /\ i + q \in 1..Len(r)
    <3>1. Len(Recent(r, t)) = Len(r) - q /\ Len(Recent(g, t)) = Len(g) - p
      BY <1>3, <1>6
    <3>2. Len(r) \in Nat /\ Len(g) \in Nat /\ q \in Nat /\ i \in Nat /\ 1 <= i /\ i <= Len(r) - q
      BY <1>1, <1>4, <1>10, <3>1
    <3>3. CASE q = 0
      BY <1>4, <1>7, <3>1, <3>2, <3>3
    <3>4. CASE q > 0
      BY <1>4, <1>7, <3>1, <3>2, <3>4
    <3>5. QED
      BY <3>2, <3>3, <3>4
  <2> HIDE DEF j
  <2>2. Recent(r, t)[i] = g[o + (i + q)] /\ Recent(g, t)[j] = g[j + p]
    BY <1>2, <1>3, <1>6, <1>10, <2>1
  <2>3. Recent(r, t)[i] = Recent(g, t)[j]
    BY <2>1, <2>2
  <2>4. QED
    BY <2>3 DEF j
<1>11. QED
  BY <1>9, <1>10 DEF IsLast

\* A grant goes on the end of both; a full deque loses its oldest stamp.
LEMMA AppendIs ==
  ASSUME NEW r \in Stamps, NEW t \in Nat, Len(r) <= MaxLen,
         \A i \in 1..Len(r) : r[i] <= t
  PROVE  LET a == AppendToDeque(r, t)
             d == IF Len(r) < MaxLen THEN 0 ELSE 1
         IN  /\ a \in Stamps
             /\ Len(a) = Len(r) + 1 - d
             /\ \A i \in 1..Len(a) - 1 : a[i] = r[i + d]
             /\ a[Len(a)] = t
             /\ Len(a) \in 1..MaxLen
<1> DEFINE a == AppendToDeque(r, t)
           d == IF Len(r) < MaxLen THEN 0 ELSE 1
<1>1. /\ r \in Seq(Nat) /\ Len(r) \in Nat
      /\ \A i \in 1..Len(r) : r[i] \in Nat
      /\ \A i, j \in 1..Len(r) : i < j => r[i] <= r[j]
      /\ MaxLen \in Nat /\ MaxLen > 0
  BY LimiterAssumption DEF Stamps, Sorted
<1>2. /\ a \in Seq(Nat) /\ Len(a) = Len(r) + 1 - d
      /\ \A i \in 1..Len(a) - 1 : a[i] = r[i + d]
      /\ a[Len(a)] = t
  <2>1. CASE Len(r) < MaxLen
    <3>1. a = Append(r, t) /\ d = 0
      BY <2>1 DEF AppendToDeque
    <3>2. QED
      BY <1>1, <3>1, AppendProperties
  <2>2. CASE ~(Len(r) < MaxLen)
    <3>1. a = Append(Tail(r), t) /\ d = 1 /\ r # <<>>
      BY <1>1, <2>2 DEF AppendToDeque
    <3>2. /\ Tail(r) \in Seq(Nat) /\ Len(Tail(r)) = Len(r) - 1
          /\ \A i \in 1..Len(r) - 1 : Tail(r)[i] = r[i + 1]
      BY <1>1, <3>1, HeadTailProperties
    <3>3. QED
      BY <1>1, <3>1, <3>2, AppendProperties
  <2>3. QED
    BY <2>1, <2>2
<1>3. d \in {0, 1} /\ (d = 0 <=> Len(r) < MaxLen)
  OBVIOUS
<1> HIDE DEF a, d
<1>4. Len(a) \in 1..MaxLen
  BY <1>1, <1>2, <1>3
<1>5. \A i \in 1..Len(a) - 1 : a[i] = r[i + d] /\ i + d \in 1..Len(r)
  BY <1>1, <1>2, <1>3
<1>6. Sorted(a)
  <2>1. SUFFICES ASSUME NEW i \in 1..Len(a), NEW j \in 1..Len(a), i < j PROVE a[i] <= a[j]
    BY DEF Sorted
  <2>2. i \in 1..Len(a) - 1
    BY <1>4, <2>1
  <2>3. CASE j = Len(a)
    BY <1>2, <1>5, <2>2, <2>3
  <2>4. CASE j # Len(a)
    <3>1. j \in 1..Len(a) - 1
      BY <1>4, <2>1, <2>4
    <3>2. i + d < j + d
      BY <1>3, <2>1
    <3>3. QED
      BY <1>1, <1>5, <2>2, <3>1, <3>2
  <2>5. QED
    BY <2>3, <2>4
<1>7. a \in Stamps
  BY <1>2, <1>6 DEF Stamps
<1>8. QED
  BY <1>2, <1>4, <1>7 DEF a, d

LEMMA LastOfAppend ==
  ASSUME NEW r \in Stamps, NEW g \in Stamps, NEW t \in Nat, IsLast(r, g),
         \A i \in 1..Len(g) : g[i] <= t
  PROVE  IsLast(AppendToDeque(r, t), Append(g, t))
<1> DEFINE a == AppendToDeque(r, t)
           b == Append(g, t)
           d == IF Len(r) < MaxLen THEN 0 ELSE 1
<1>1. /\ r \in Seq(Nat) /\ g \in Seq(Nat) /\ Len(r) \in Nat /\ Len(g) \in Nat
      /\ MaxLen \in Nat /\ MaxLen > 0
  BY LimiterAssumption DEF Stamps
<1>2. /\ Len(r) = IF Len(g) <= MaxLen THEN Len(g) ELSE MaxLen
      /\ \A i \in 1..Len(r) : r[i] = g[Len(g) - Len(r) + i]
  BY DEF IsLast
<1>3. ASSUME NEW i \in 1..Len(r)
      PROVE  Len(g) - Len(r) + i \in 1..Len(g) /\ r[i] <= t
  <2>1. Len(g) - Len(r) + i \in 1..Len(g)
    BY <1>1, <1>2, <1>3
  <2>2. r[i] = g[Len(g) - Len(r) + i]
    BY <1>2, <1>3
  <2>3. QED
    BY <2>1, <2>2
<1>4. /\ Len(a) = Len(r) + 1 - d
      /\ \A i \in 1..Len(a) - 1 : a[i] = r[i + d]
      /\ a[Len(a)] = t /\ Len(a) \in 1..MaxLen
  <2>1. Len(r) <= MaxLen /\ \A i \in 1..Len(r) : r[i] <= t
    BY <1>1, <1>2, <1>3
  <2>2. QED
    BY <2>1, AppendIs
<1>5. Len(b) = Len(g) + 1 /\ b[Len(b)] = t /\ \A i \in 1..Len(g) : b[i] = g[i]
  BY <1>1, AppendProperties
<1>6. d \in {0, 1} /\ (d = 0 <=> Len(r) < MaxLen)
  OBVIOUS
<1> HIDE DEF a, b, d
<1>7. Len(a) = IF Len(b) <= MaxLen THEN Len(b) ELSE MaxLen
  BY <1>1, <1>2, <1>4, <1>5, <1>6
<1>8. ASSUME NEW i \in 1..Len(a) PROVE a[i] = b[Len(b) - Len(a) + i]
  <2>1. CASE i = Len(a)
    BY <1>1, <1>4, <1>5, <2>1
  <2>2. CASE i # Len(a)
    <3>1. i \in 1..Len(a) - 1 /\ i + d \in 1..Len(r)
      BY <1>1, <1>4, <1>6, <1>8, <2>2
    <3>2. Len(b) - Len(a) + i = Len(g) - Len(r) + (i + d)
      BY <1>1, <1>4, <1>5, <1>6
    <3>3. QED
      BY <1>2, <1>3, <1>4, <1>5, <3>1, <3>2
  <2>3. QED
    BY <2>1, <2>2
<1>9. QED
  BY <1>7, <1>8 DEF IsLast, a, b

-----------------------------------------------------------------------------
\* The types of the state, the sequences as such.
Typed ==
  /\ TypeOK
  /\ history \in [DOMAIN history -> Stamps]
  /\ granted \in [Key -> Stamps]

\* The grants kept are those of the window, none in the future.
InWindow ==
  \A k \in Key : \A i \in 1..Len(granted[k]) :
    granted[k][i] >= now - Window /\ granted[k][i] <= now

Remembered == \A k \in Key : IsLast(View(k), granted[k])

\* A key that was told to come back at promise.at had as many stamps as its
\* limit then, and the oldest of them leaves the window before that.
Promised ==
  /\ promise = [k \in Key |-> promise[k]]
  /\ \A k \in Key : promise[k] # NoPromise =>
       /\ promise[k].limit \in Nat \ {0}
       /\ promise[k].at \in Int
       /\ Len(View(k)) <= promise[k].limit
       /\ Len(View(k)) = promise[k].limit => View(k)[1] + Window < promise[k].at

\* WindowCapped, of the settings a deque has room for.
CappedToDeque ==
  last.allowed /\ last.setting # Unset /\ last.setting > 0 /\ last.setting <= MaxLen
    => Len(granted[last.key]) <= last.setting

IndInv == Typed /\ InWindow /\ Remembered

\* A key without a deque is one with an empty deque.
LEMMA StampsOfTyped ==
  ASSUME Typed, NEW k \in Key
  PROVE  /\ StampsOf(k) \in Stamps
         /\ Len(StampsOf(k)) <= MaxLen
         /\ \A i \in 1..Len(StampsOf(k)) : StampsOf(k)[i] <= now
<1>1. <<>> \in Stamps /\ Len(<<>>) = 0
  BY DEF Stamps, Sorted
<1>2. CASE k \in DOMAIN history
  BY <1>2 DEF StampsOf, Typed, TypeOK
<1>3. CASE k \notin DOMAIN history
  <2>1. StampsOf(k) = <<>>
    BY <1>3 DEF StampsOf
  <2>2. QED
    BY <1>1, <2>1, LimiterAssumption
<1>4. QED
  BY <1>2, <1>3

\* What the limiter reads of a key are stamps of the window.
LEMMA ViewTyped ==
  ASSUME Typed, NEW k \in Key
  PROVE  /\ View(k) \in Stamps
         /\ Len(View(k)) \in Nat /\ Len(View(k)) <= MaxLen
         /\ \A i \in 1..Len(View(k)) : View(k)[i] \in Nat
         /\ \A i \in 1..Len(View(k)) : View(k)[i] >= now - Window
         /\ \A i \in 1..Len(View(k)) : View(k)[i] <= now
<1> DEFINE s == StampsOf(k)
           p == Popped(s, now)
<1>1. s \in Stamps /\ Len(s) \in Nat /\ Len(s) <= MaxLen /\ \A i \in 1..Len(s) : s[i] <= now
  BY StampsOfTyped DEF Stamps
<1>2. now \in Int
  BY DEF Typed, TypeOK
<1> HIDE DEF s
<1>3. /\ Recent(s, now) \in Stamps /\ p \in 0..Len(s)
      /\ Len(Recent(s, now)) = Len(s) - p
      /\ \A i \in 1..Len(Recent(s, now)) :
           Recent(s, now)[i] = s[i + p] /\ Recent(s, now)[i] >= now - Window
  BY <1>1, <1>2, RecentIs
<1> HIDE DEF p
<1>4. View(k) = Recent(s, now)
  BY DEF View, s
<1>5. Len(View(k)) \in Nat /\ Len(View(k)) <= MaxLen
  BY <1>1, <1>3, <1>4, LimiterAssumption
<1>6. ASSUME NEW i \in 1..Len(View(k)) PROVE View(k)[i] <= now
  <2>1. i + p \in 1..Len(s)
    BY <1>1, <1>3, <1>4, <1>6
  <2>2. QED
    BY <1>1, <1>3, <1>4, <1>6, <2>1
<1>7. \A i \in 1..Len(View(k)) : View(k)[i] \in Nat
  BY <1>3, <1>4 DEF Stamps
<1>8. QED
  BY <1>3, <1>4, <1>5, <1>6, <1>7

\* Pruning a deque now, which is what a check does first, changes nothing of
\* what the limiter reads.
LEMMA ViewPruned ==
  ASSUME Typed, NEW k \in Key
  PROVE  Recent(View(k), now) = View(k)
  <1>1. View(k) \in Stamps /\ now \in Int /\ \A i \in 1..Len(View(k)) : View(k)[i] >= now - Window
    BY ViewTyped DEF Typed, TypeOK
  <1>2. QED
    BY <1>1, RecentAll

-----------------------------------------------------------------------------
\* The deques after a check: the key's own, and the others as they were or
\* swept because no stamp of theirs is in the window.
Swept(h, k, stamps) ==
  /\ DOMAIN h \subseteq DOMAIN history \cup {k}
  /\ h = [j \in DOMAIN h |-> h[j]]
  /\ k \in DOMAIN h /\ h[k] = stamps
  /\ \A j \in DOMAIN h : j # k => j \in DOMAIN history /\ h[j] = history[j]
  /\ \A j \in DOMAIN history : j # k /\ j \notin DOMAIN h =>
       history[j] = <<>> \/ history[j][Len(history[j])] < now - Window

LEMMA StampedIsSwept ==
  ASSUME NEW k \in Key, NEW stamps
  PROVE  Swept(WithStamps(k, stamps), k, stamps)
BY DEF Swept, WithStamps

LEMMA SweepKeepsKey ==
  ASSUME NEW k \in Key, NEW stamps \in Stamps, stamps # <<>>,
         stamps[Len(stamps)] >= now - Window,
         Typed
  PROVE  Swept(WithoutStale(WithStamps(k, stamps)), k, stamps)
<1> DEFINE h == WithStamps(k, stamps)
           live == {j \in DOMAIN h : h[j] # <<>> /\ h[j][Len(h[j])] >= now - Window}
           w == WithoutStale(h)
<1>1. /\ DOMAIN h = DOMAIN history \cup {k} /\ h[k] = stamps
      /\ \A j \in DOMAIN history : j # k => h[j] = history[j]
  BY DEF WithStamps
<1> HIDE DEF h
<1>2. w = [j \in live |-> h[j]]
  BY DEF WithoutStale
<1>3. k \in live
  BY <1>1
<1>4. ASSUME NEW j \in DOMAIN history, j # k, j \notin live
      PROVE  history[j] = <<>> \/ history[j][Len(history[j])] < now - Window
  <2>1. history[j] = <<>> \/ ~(history[j][Len(history[j])] >= now - Window)
    BY <1>1, <1>4
  <2>2. history[j] \in Stamps /\ now \in Int
    BY DEF Typed, TypeOK
  <2>3. history[j] # <<>> => history[j][Len(history[j])] \in Nat
    BY <2>2 DEF Stamps
  <2>4. QED
    BY <2>1, <2>2, <2>3, WindowType
<1>5. DOMAIN w = live /\ \A j \in live : w[j] = h[j]
  BY <1>2
<1>6. w = [j \in DOMAIN w |-> w[j]]
  BY <1>2
<1>7. \A j \in live : j # k => j \in DOMAIN history /\ w[j] = history[j]
  BY <1>1, <1>5
<1>8. live \subseteq DOMAIN history \cup {k} /\ w[k] = stamps
  BY <1>1, <1>3, <1>5
<1> HIDE DEF live, w
<1>9. Swept(w, k, stamps)
  BY <1>3, <1>4, <1>5, <1>6, <1>7, <1>8 DEF Swept
<1>10. QED
  BY <1>9 DEF w, h

\* No other key notices: what the limiter reads of it stays.
LEMMA SweptOthers ==
  ASSUME Typed, NEW k \in Key, NEW stamps, Swept(history', k, stamps), now' = now,
         NEW j \in Key, j # k
  PROVE  View(j)' = View(j)
<1>1. CASE j \in DOMAIN history'
  <2>1. StampsOf(j)' = StampsOf(j)
    BY <1>1 DEF Swept, StampsOf
  <2>2. QED
    BY <2>1 DEF View
<1>2. CASE j \notin DOMAIN history' /\ j \notin DOMAIN history
  <2>1. StampsOf(j)' = StampsOf(j)
    BY <1>2 DEF StampsOf
  <2>2. QED
    BY <2>1 DEF View
<1>3. CASE j \notin DOMAIN history' /\ j \in DOMAIN history
  <2>1. StampsOf(j)' = <<>> /\ StampsOf(j) = history[j] /\ history[j] \in Stamps /\ now \in Int
    BY <1>3 DEF StampsOf, Typed, TypeOK
  <2>2. history[j] = <<>> \/ history[j][Len(history[j])] < now - Window
    BY <1>3 DEF Swept
  <2>3. Recent(history[j], now) = <<>>
    BY <2>1, <2>2, RecentNone
  <2>4. <<>> \in Stamps
    BY DEF Stamps, Sorted
  <2>5. Recent(<<>>, now) = <<>>
    BY <2>1, <2>4, RecentNone
  <2>6. QED
    BY <2>1, <2>3, <2>5 DEF View
<1>4. QED
  BY <1>1, <1>2, <1>3

\* The key itself reads what was stored, if all of that is in the window.
LEMMA SweptKey ==
  ASSUME NEW k \in Key, NEW stamps \in Stamps, Swept(history', k, stamps),
         now' = now, now \in Int, \A i \in 1..Len(stamps) : stamps[i] >= now - Window
  PROVE  View(k)' = stamps
<1>1. StampsOf(k)' = stamps
  BY DEF Swept, StampsOf
<1>2. Recent(stamps, now) = stamps
  BY RecentAll
<1>3. QED
  BY <1>1, <1>2 DEF View

\* The types that a check keeps.
LEMMA SweptTyped ==
  ASSUME Typed, NEW k \in Key, NEW stamps \in Stamps, Swept(history', k, stamps), now' = now,
         Len(stamps) <= MaxLen, \A i \in 1..Len(stamps) : stamps[i] <= now,
         last' \in [key : Key, setting : Setting \cup {Unset}, allowed : BOOLEAN],
         granted' \in [Key -> Stamps]
  PROVE  Typed'
<1>1. DOMAIN history' \subseteq Key
  BY DEF Swept, Typed, TypeOK
<1>2. ASSUME NEW j \in DOMAIN history'
      PROVE  /\ history'[j] \in Stamps /\ Len(history'[j]) <= MaxLen
             /\ \A i \in 1..Len(history'[j]) : history'[j][i] <= now
  BY <1>2 DEF Swept, Typed, TypeOK
<1>3. history' \in [DOMAIN history' -> Stamps]
  BY <1>2 DEF Swept
<1>4. ASSUME NEW j \in DOMAIN history'
      PROVE  /\ Sorted(history'[j])
             /\ \A i \in 1..Len(history'[j]) : history'[j][i] \in 0..now
  <2>1. Sorted(history'[j]) /\ history'[j] \in Seq(Nat)
    BY <1>2, <1>4 DEF Stamps
  <2>2. \A i \in 1..Len(history'[j]) : history'[j][i] \in Nat
    BY <2>1
  <2>3. now \in Nat
    BY DEF Typed, TypeOK
  <2>4. QED
    BY <1>2, <1>4, <2>1, <2>2, <2>3
<1>5. TypeOK'
  BY <1>1, <1>2, <1>4 DEF Typed, TypeOK
<1>6. QED
  BY <1>3, <1>5 DEF Typed

-----------------------------------------------------------------------------
LEMMA InitInv == Init => IndInv /\ Promised /\ CappedToDeque
<1> SUFFICES ASSUME Init PROVE IndInv /\ Promised /\ CappedToDeque
  OBVIOUS
<1> USE LimiterAssumption
<1>1. /\ now = 0 /\ DOMAIN history = {} /\ history = [k \in DOMAIN history |-> history[k]]
      /\ granted = [k \in Key |-> <<>>] /\ last = NoAnswer
      /\ promise = [k \in Key |-> NoPromise]
  BY DEF Init
<1>2. <<>> \in Stamps /\ Len(<<>>) = 0
  BY DEF Stamps, Sorted
<1>3. NoAnswer \in [key : Key, setting : Setting \cup {Unset}, allowed : BOOLEAN]
  BY DEF NoAnswer
<1>4. Typed
  <2>1. TypeOK
    BY <1>1, <1>3 DEF TypeOK
  <2>2. QED
    BY <1>1, <1>2, <2>1 DEF Typed
<1>5. InWindow
  BY <1>1, <1>2 DEF InWindow
<1>6. ASSUME NEW k \in Key PROVE View(k) = <<>> /\ granted[k] = <<>>
  <2>1. StampsOf(k) = <<>> /\ now \in Int
    BY <1>1 DEF StampsOf
  <2>2. Recent(<<>>, now) = <<>>
    BY <1>2, <2>1, RecentNone
  <2>3. QED
    BY <1>1, <2>1, <2>2 DEF View
<1>7. Remembered
  BY <1>2, <1>6 DEF Remembered, IsLast
<1>8. Promised
  BY <1>1 DEF Promised
<1>9. CappedToDeque
  BY <1>1 DEF CappedToDeque, NoAnswer
<1>10. QED
  BY <1>4, <1>5, <1>7, <1>8, <1>9 DEF IndInv

\* Time passes.
LEMMA TickView ==
  ASSUME IndInv, Tick, NEW k \in Key
  PROVE  View(k)' = Recent(View(k), now') /\ granted'[k] = Recent(granted[k], now')
         /\ now' \in Nat /\ now' = now + 1
<1>1. history' = history /\ now' = now + 1 /\ granted'[k] = Recent(granted[k], now')
  BY DEF Tick
<1>2. now \in Int /\ now' \in Nat /\ now <= now'
  BY <1>1 DEF IndInv, Typed, TypeOK
<1>3. StampsOf(k)' = StampsOf(k)
  BY <1>1 DEF StampsOf
<1>4. StampsOf(k) \in Stamps
  BY StampsOfTyped DEF IndInv
<1>5. Recent(Recent(StampsOf(k), now), now') = Recent(StampsOf(k), now')
  BY <1>2, <1>4, RecentAgain
<1>6. QED
  BY <1>1, <1>2, <1>3, <1>5 DEF View

LEMMA TickInv ==
  ASSUME IndInv, Promised, CappedToDeque, Tick
  PROVE  IndInv' /\ Promised' /\ CappedToDeque'
<1>1. /\ history' = history /\ last' = last /\ promise' = promise
      /\ granted' = [k \in Key |-> Recent(granted[k], now')]
      /\ now' = now + 1 /\ now < Horizon
  BY DEF Tick
<1>2. /\ now \in Nat /\ now' \in Nat /\ now' \in Int /\ now' \in 0..Horizon /\ Window \in Nat
      /\ granted \in [Key -> Stamps] /\ Typed
  BY <1>1, WindowType, LimiterAssumption DEF IndInv, Typed, TypeOK
<1>3. ASSUME NEW k \in Key
      PROVE  /\ granted'[k] \in Stamps
             /\ Len(granted'[k]) <= Len(granted[k])
             /\ Len(granted'[k]) \in Nat /\ Len(granted[k]) \in Nat
             /\ \A i \in 1..Len(granted'[k]) :
                  granted'[k][i] >= now' - Window /\ granted'[k][i] <= now'
  <2> DEFINE g == granted[k]
             p == Popped(g, now')
  <2>1. g \in Stamps /\ Len(g) \in Nat /\ \A i \in 1..Len(g) : g[i] \in Nat /\ g[i] <= now
    BY <1>2 DEF Stamps, IndInv, InWindow
  <2>2. granted'[k] = Recent(g, now')
    BY <1>1
  <2> HIDE DEF g
  <2>3. /\ Recent(g, now') \in Stamps /\ p \in 0..Len(g)
        /\ Len(Recent(g, now')) = Len(g) - p
        /\ \A i \in 1..Len(Recent(g, now')) :
             Recent(g, now')[i] = g[i + p] /\ Recent(g, now')[i] >= now' - Window
    BY <1>2, <2>1, RecentIs
  <2> HIDE DEF p
  <2>4. Len(granted'[k]) \in Nat /\ Len(granted'[k]) <= Len(g)
    BY <2>1, <2>2, <2>3
  <2>5. ASSUME NEW i \in 1..Len(granted'[k])
        PROVE  granted'[k][i] >= now' - Window /\ granted'[k][i] <= now'
    <3>1. i + p \in 1..Len(g)
      BY <2>1, <2>2, <2>3, <2>5
    <3>2. granted'[k][i] = g[i + p] /\ granted'[k][i] >= now' - Window
      BY <2>2, <2>3, <2>5
    <3>3. QED
      BY <1>1, <1>2, <2>1, <3>1, <3>2
  <2>6. QED
    BY <2>1, <2>2, <2>3, <2>4, <2>5 DEF g
<1>4. Typed'
  <2>1. granted' \in [Key -> Stamps]
    BY <1>1, <1>3
  <2>2. TypeOK'
    <3>1. ASSUME NEW k \in DOMAIN history, NEW i \in 1..Len(history[k])
          PROVE  history[k][i] \in 0..now'
      <4>1. history[k][i] \in 0..now
        BY <3>1 DEF IndInv, Typed, TypeOK
      <4>2. QED
        BY <1>1, <1>2, <4>1
    <3>2. QED
      BY <1>1, <1>2, <3>1 DEF Typed, TypeOK
  <2>3. QED
    BY <1>1, <1>2, <2>1, <2>2 DEF Typed
<1>5. InWindow'
  <2>1. Window' = Window
    BY DEF Window
  <2>2. QED
    BY <1>3, <2>1 DEF InWindow
<1>6. ASSUME NEW k \in Key PROVE IsLast(View(k)', granted'[k])
  <2>1. View(k) \in Stamps /\ granted[k] \in Stamps /\ IsLast(View(k), granted[k])
    BY <1>2, ViewTyped DEF IndInv, Remembered
  <2>2. QED
    BY <1>2, <2>1, TickView, LastOfRecent
<1>7. Remembered'
  BY <1>6 DEF Remembered, IsLast
<1>8. Promised'
  <2> SUFFICES ASSUME NEW k \in Key, promise[k] # NoPromise
               PROVE  /\ Len(View(k)') <= promise[k].limit
                      /\ Len(View(k)') = promise[k].limit
                           => View(k)'[1] + Window < promise[k].at
    BY <1>1 DEF Promised, NoPromise, Window
  <2> DEFINE v == View(k)
             p == Popped(v, now')
  <2>1. /\ promise[k].limit \in Nat \ {0} /\ Len(v) <= promise[k].limit
        /\ Len(v) = promise[k].limit => v[1] + Window < promise[k].at
    BY DEF Promised
  <2>2. v \in Stamps /\ Len(v) \in Nat
    BY <1>2, ViewTyped
  <2>3. View(k)' = Recent(v, now')
    BY TickView
  <2> HIDE DEF v
  <2>4. /\ p \in 0..Len(v) /\ Len(Recent(v, now')) = Len(v) - p
        /\ \A i \in 1..Len(Recent(v, now')) : Recent(v, now')[i] = v[i + p]
    BY <1>2, <2>2, RecentIs
  <2> HIDE DEF p
  <2>5. Len(View(k)') <= promise[k].limit
    BY <2>1, <2>2, <2>3, <2>4
  <2>6. ASSUME Len(View(k)') = promise[k].limit
        PROVE  View(k)'[1] + Window < promise[k].at
    <3>1. p = 0 /\ Len(v) = promise[k].limit /\ 1 \in 1..Len(Recent(v, now'))
      BY <2>1, <2>2, <2>3, <2>4, <2>6
    <3>2. Recent(v, now')[1] = v[1 + 0]
      BY <2>4, <3>1
    <3>3. QED
      BY <2>1, <2>3, <3>1, <3>2
  <2>7. QED
    BY <2>5, <2>6
<1>9. CappedToDeque'
  <2> SUFFICES ASSUME last.allowed, last.setting # Unset, last.setting > 0,
                      last.setting <= MaxLen
               PROVE  Len(granted'[last.key]) <= last.setting
    BY <1>1 DEF CappedToDeque
  <2>1. last.key \in Key /\ last.setting \in Nat
    BY <1>2, LimiterAssumption DEF Typed, TypeOK
  <2>2. Len(granted[last.key]) <= last.setting
    BY DEF CappedToDeque
  <2>3. QED
    BY <1>3, <2>1, <2>2
<1>10. QED
  BY <1>4, <1>5, <1>7, <1>8, <1>9 DEF IndInv

-----------------------------------------------------------------------------
\* max(1, int(x) + 1) whole seconds are more than x.
LEMMA RoundsUp ==
  ASSUME NEW x \in Nat, NEW T \in Nat \ {0}
  PROVE  (x \div T + 1) * T \in Nat /\ (x \div T + 1) * T > x /\ x \div T \in Nat
<1>1. x \div T \in Nat
  OBVIOUS
<1>2. x = T * (x \div T) + (x % T) /\ x % T < T /\ x % T \in Nat
  OBVIOUS
<1>3. (x \div T + 1) * T > x
  OBVIOUS
<1>4. ASSUME NEW q \in Nat PROVE (q + 1) * T \in Nat
  OBVIOUS
<1>5. QED
  BY <1>1, <1>3, <1>4

\* Retry-After is later than the oldest stamp's way out of the window.
LEMMA RetryAfterIs ==
  ASSUME now \in Nat, NEW oldest \in Nat, oldest >= now - Window
  PROVE  /\ now + RetryAfter(oldest) * TicksPerSecond \in Int
         /\ oldest + Window < now + RetryAfter(oldest) * TicksPerSecond
<1> DEFINE x == oldest + Window - now
           s == x \div TicksPerSecond + 1
<1>1. x \in Nat /\ TicksPerSecond \in Nat \ {0} /\ oldest + Window = now + x
  BY WindowType, LimiterAssumption
<1>2. RetryAfter(oldest) = IF s < 1 THEN 1 ELSE s
  BY DEF RetryAfter
<1> HIDE DEF x
<1>3. x \div TicksPerSecond \in Nat /\ s * TicksPerSecond \in Nat /\ s * TicksPerSecond > x
  BY <1>1, RoundsUp
<1>4. RetryAfter(oldest) = s
  BY <1>2, <1>3
<1> HIDE DEF s
<1>5. RetryAfter(oldest) * TicksPerSecond \in Nat /\ RetryAfter(oldest) * TicksPerSecond > x
  BY <1>3, <1>4
<1>6. QED
  BY <1>1, <1>5

\* 0 stands for the default, so every setting has a positive limit.
LEMMA LimitIs ==
  ASSUME NEW setting \in Setting
  PROVE  /\ EffectiveLimit(setting) \in Nat \ {0}
         /\ setting # Unset => setting \in Nat
         /\ setting # Unset /\ setting > 0 => EffectiveLimit(setting) = setting
BY LimiterAssumption DEF EffectiveLimit

LEMMA RefuseInv ==
  ASSUME IndInv, Promised, CappedToDeque, NEW k \in Key, NEW setting \in Setting,
         Refuse(k, setting, View(k)), now' = now,
         Len(View(k)) >= EffectiveLimit(setting)
  PROVE  IndInv' /\ Promised' /\ CappedToDeque'
<1> DEFINE limit == EffectiveLimit(setting)
           v == View(k)
           at == now + RetryAfter(v[1]) * TicksPerSecond
<1>1. Typed /\ now \in Nat /\ now \in Int /\ granted \in [Key -> Stamps]
      /\ limit \in Nat \ {0}
  BY LimitIs DEF IndInv, Typed, TypeOK
<1>2. /\ v \in Stamps /\ Len(v) \in Nat /\ Len(v) <= MaxLen
      /\ \A i \in 1..Len(v) : v[i] \in Nat /\ v[i] >= now - Window /\ v[i] <= now
  BY <1>1, ViewTyped
<1>3. /\ history' = WithStamps(k, v)
      /\ last' = [key |-> k, setting |-> setting, allowed |-> FALSE]
      /\ promise' = [promise EXCEPT ![k] =
           IF Len(v) = limit THEN [limit |-> limit, at |-> at] ELSE NoPromise]
      /\ granted' = granted
  BY DEF Refuse
<1> HIDE DEF limit, v, at
<1>4. Swept(history', k, v)
  BY <1>3, StampedIsSwept
<1>5. View(k)' = v
  BY <1>1, <1>2, <1>4, SweptKey
<1>6. \A j \in Key : View(j)' = View(j)
  BY <1>1, <1>4, <1>5, SweptOthers DEF v
<1>7. Typed'
  <2>1. last' \in [key : Key, setting : Setting \cup {Unset}, allowed : BOOLEAN]
    BY <1>3
  <2>2. QED
    BY <1>1, <1>2, <1>3, <1>4, <2>1, SweptTyped
<1>8. InWindow' /\ Remembered'
  <2>1. InWindow'
    BY <1>3 DEF IndInv, InWindow, Window
  <2>2. Remembered'
    BY <1>3, <1>6 DEF IndInv, Remembered, IsLast
  <2>3. QED
    BY <2>1, <2>2
<1>9. Promised'
  <2> SUFFICES ASSUME NEW j \in Key, promise'[j] # NoPromise
               PROVE  /\ promise'[j].limit \in Nat \ {0}
                      /\ promise'[j].at \in Int
                      /\ Len(View(j)) <= promise'[j].limit
                      /\ Len(View(j)) = promise'[j].limit
                           => View(j)[1] + Window < promise'[j].at
    BY <1>3, <1>6 DEF Promised, NoPromise, Window
  <2>1. CASE j # k \/ promise'[j] = promise[j]
    <3>1. promise'[j] = promise[j]
      BY <1>3, <2>1
    <3>2. QED
      BY <3>1 DEF Promised
  <2>2. CASE j = k /\ promise'[j] # promise[j]
    <3>1. Len(v) = limit /\ promise'[k] = [limit |-> limit, at |-> at]
      BY <1>3, <2>2
    <3>2. 1 \in 1..Len(v)
      BY <1>1, <1>2, <3>1
    <3>3. at \in Int /\ v[1] + Window < at
      BY <1>1, <1>2, <3>2, RetryAfterIs DEF at
    <3>4. promise'[k].limit = limit /\ promise'[k].at = at
      BY <3>1
    <3>5. QED
      BY <1>1, <2>2, <3>1, <3>3, <3>4 DEF v
  <2>3. QED
    BY <2>1, <2>2
<1>10. CappedToDeque'
  BY <1>3 DEF CappedToDeque
<1>11. QED
  BY <1>7, <1>8, <1>9, <1>10 DEF IndInv

LEMMA GrantInv ==
  ASSUME IndInv, Promised, CappedToDeque, NEW k \in Key, NEW setting \in Setting,
         Grant(k, setting, View(k)), now' = now,
         ~(Len(View(k)) >= EffectiveLimit(setting))
  PROVE  IndInv' /\ Promised' /\ CappedToDeque'
<1> DEFINE v == View(k)
           a == AppendToDeque(v, now)
<1>1. Typed /\ now \in Nat /\ now \in Int /\ granted \in [Key -> Stamps] /\ Window \in Nat
  BY WindowType DEF IndInv, Typed, TypeOK
<1>2. /\ v \in Stamps /\ Len(v) \in Nat /\ Len(v) <= MaxLen
      /\ \A i \in 1..Len(v) : v[i] \in Nat
      /\ \A i \in 1..Len(v) : v[i] >= now - Window
      /\ \A i \in 1..Len(v) : v[i] <= now
  BY <1>1, ViewTyped
<1>3. /\ history' = LET stamped == WithStamps(k, a)
                    IN  IF Cardinality(DOMAIN stamped) > GCThreshold
                          THEN WithoutStale(stamped) ELSE stamped
      /\ granted' = [granted EXCEPT ![k] = Append(granted[k], now)]
      /\ last' = [key |-> k, setting |-> setting, allowed |-> TRUE]
      /\ promise' = [promise EXCEPT ![k] = NoPromise]
  BY DEF Grant
<1>4. history' = WithStamps(k, a) \/ history' = WithoutStale(WithStamps(k, a))
  BY <1>3
<1> HIDE DEF v
<1>5. /\ a \in Stamps /\ Len(a) \in 1..MaxLen /\ a[Len(a)] = now
      /\ \A i \in 1..Len(a) - 1 : a[i] = v[i + (IF Len(v) < MaxLen THEN 0 ELSE 1)]
      /\ Len(a) = Len(v) + 1 - (IF Len(v) < MaxLen THEN 0 ELSE 1)
  BY <1>1, <1>2, AppendIs
<1> HIDE DEF a
<1>6. ASSUME NEW i \in 1..Len(a) PROVE a[i] >= now - Window /\ a[i] <= now
  <2>1. CASE i = Len(a)
    BY <1>1, <1>5, <2>1
  <2>2. CASE i # Len(a)
    <3> DEFINE d == IF Len(v) < MaxLen THEN 0 ELSE 1
    <3>1. d \in {0, 1} /\ Len(a) = Len(v) + 1 - d /\ \A j \in 1..Len(a) - 1 : a[j] = v[j + d]
      BY <1>5
    <3> HIDE DEF d
    <3>2. i \in 1..Len(a) - 1 /\ i + d \in 1..Len(v)
      BY <1>2, <1>5, <1>6, <2>2, <3>1
    <3>3. QED
      BY <1>2, <3>1, <3>2
  <2>3. QED
    BY <2>1, <2>2
<1>7. Swept(history', k, a)
  <2>1. a # <<>> /\ a[Len(a)] >= now - Window
    BY <1>1, <1>5
  <2>2. QED
    BY <1>1, <1>4, <1>5, <2>1, StampedIsSwept, SweepKeepsKey
<1>8. View(k)' = a /\ \A j \in Key : j # k => View(j)' = View(j)
  BY <1>1, <1>5, <1>6, <1>7, SweptKey, SweptOthers
<1> DEFINE g == granted[k]
<1>9. /\ g \in Stamps /\ g \in Seq(Nat) /\ Len(g) \in Nat
      /\ \A i \in 1..Len(g) : g[i] \in Nat /\ g[i] >= now - Window /\ g[i] <= now
      /\ \A i, j \in 1..Len(g) : i < j => g[i] <= g[j]
      /\ IsLast(v, g)
  BY <1>1 DEF Stamps, Sorted, IndInv, InWindow, Remembered, v
<1>10. granted'[k] = Append(g, now) /\ \A j \in Key : j # k => granted'[j] = granted[j]
  BY <1>1, <1>3
<1> HIDE DEF g
<1>11. /\ Append(g, now) \in Seq(Nat) /\ Len(Append(g, now)) = Len(g) + 1
       /\ \A i \in 1..Len(g) : Append(g, now)[i] = g[i]
       /\ Append(g, now)[Len(g) + 1] = now
  BY <1>1, <1>9, AppendProperties
<1>12. ASSUME NEW i \in 1..Len(Append(g, now))
       PROVE  Append(g, now)[i] >= now - Window /\ Append(g, now)[i] <= now
  <2>1. i \in 1..Len(g) \/ i = Len(g) + 1
    BY <1>9, <1>11, <1>12
  <2>2. QED
    BY <1>1, <1>9, <1>11, <2>1
<1>13. Append(g, now) \in Stamps
  <2> DEFINE b == Append(g, now)
  <2>1. SUFFICES ASSUME NEW i \in 1..Len(b), NEW j \in 1..Len(b), i < j PROVE b[i] <= b[j]
    BY <1>11 DEF Stamps, Sorted
  <2>2. i \in 1..Len(g) /\ (j \in 1..Len(g) \/ j = Len(g) + 1)
    BY <1>9, <1>11, <2>1
  <2>3. QED
    BY <1>9, <1>11, <2>1, <2>2
<1>14. granted' \in [Key -> Stamps]
  BY <1>1, <1>3, <1>13 DEF g
<1>15. Typed'
  <2>1. last' \in [key : Key, setting : Setting \cup {Unset}, allowed : BOOLEAN]
    BY <1>3
  <2>2. Len(a) <= MaxLen /\ \A i \in 1..Len(a) : a[i] <= now
    BY <1>5, <1>6, LimiterAssumption
  <2>3. QED
    BY <1>1, <1>5, <1>7, <1>14, <2>1, <2>2, SweptTyped
<1>16. InWindow'
  <2>1. ASSUME NEW j \in Key, NEW i \in 1..Len(granted'[j])
        PROVE  granted'[j][i] >= now - Window /\ granted'[j][i] <= now
    <3>1. CASE j = k
      BY <1>10, <1>12, <2>1, <3>1
    <3>2. CASE j # k
      BY <1>10, <2>1, <3>2 DEF IndInv, InWindow
    <3>3. QED
      BY <3>1, <3>2
  <2>2. QED
    BY <2>1 DEF InWindow, Window
<1>17. Remembered'
  <2>1. IsLast(a, Append(g, now))
    BY <1>1, <1>2, <1>9, LastOfAppend DEF a
  <2>2. \A j \in Key : IsLast(View(j)', granted'[j])
    BY <1>8, <1>10, <2>1 DEF IndInv, Remembered
  <2>3. QED
    BY <2>2 DEF Remembered, IsLast
<1>18. Promised'
  <2> SUFFICES ASSUME NEW j \in Key, promise'[j] # NoPromise
               PROVE  /\ promise'[j].limit \in Nat \ {0}
                      /\ promise'[j].at \in Int
                      /\ Len(View(j)') <= promise'[j].limit
                      /\ Len(View(j)') = promise'[j].limit
                           => View(j)'[1] + Window < promise'[j].at
    BY <1>3 DEF Promised, NoPromise, Window
  <2>1. j # k /\ promise'[j] = promise[j]
    BY <1>3 DEF Promised
  <2>2. QED
    BY <1>8, <2>1 DEF Promised
<1>19. CappedToDeque'
  <2> SUFFICES ASSUME setting # Unset, setting > 0, setting <= MaxLen
               PROVE  Len(granted'[k]) <= setting
    BY <1>3 DEF CappedToDeque
  <2>1. EffectiveLimit(setting) = setting /\ setting \in Nat
    BY LimitIs
  <2>2. Len(v) < setting
    BY <1>2, <2>1 DEF v
  <2>3. Len(v) = IF Len(g) <= MaxLen THEN Len(g) ELSE MaxLen
    BY <1>9 DEF IsLast
  <2>4. Len(g) < setting
    BY <1>2, <1>9, <2>1, <2>2, <2>3, LimiterAssumption
  <2>5. QED
    BY <1>9, <1>10, <1>11, <2>1, <2>4
<1>20. QED
  BY <1>15, <1>16, <1>17, <1>18, <1>19 DEF IndInv

LEMMA NextInv ==
  IndInv /\ Promised /\ CappedToDeque /\ [Next]_vars
    => IndInv' /\ Promised' /\ CappedToDeque'
<1> SUFFICES ASSUME IndInv, Promised, CappedToDeque, [Next]_vars
             PROVE  IndInv' /\ Promised' /\ CappedToDeque'
  OBVIOUS
<1>1. ASSUME NEW k \in Key, NEW setting \in Setting, Check(k, setting)
      PROVE  IndInv' /\ Promised' /\ CappedToDeque'
  <2>1. EffectiveLimit(setting) \in Nat \ {0}
    BY LimitIs
  <2>2. \/ Len(View(k)) >= EffectiveLimit(setting) /\ Refuse(k, setting, View(k))
        \/ ~(Len(View(k)) >= EffectiveLimit(setting)) /\ Grant(k, setting, View(k))
    BY <1>1, <2>1 DEF Check, View
  <2>3. now' = now
    BY <1>1 DEF Check
  <2>4. QED
    BY <2>2, <2>3, RefuseInv, GrantInv
<1>2. CASE UNCHANGED vars
  <2>1. \A k \in Key : View(k)' = View(k)
    BY <1>2 DEF vars, View, StampsOf
  <2>2. IndInv'
    BY <1>2, <2>1 DEF vars, IndInv, Typed, TypeOK, InWindow, Window, Remembered, IsLast
  <2>3. Promised' /\ CappedToDeque'
    BY <1>2, <2>1 DEF vars, Promised, NoPromise, Window, CappedToDeque
  <2>4. QED
    BY <2>2, <2>3
<1>3. QED
  BY <1>1, <1>2, TickInv DEF Next

\* What the limiter reads of a key is the newest of what it granted, in every
\* reachable state, and the promises it made stand.
THEOREM Invariance == Spec => [](IndInv /\ Promised /\ CappedToDeque)
BY InitInv, NextInv, PTL DEF Spec

\* TypeOK: a deque never outgrows its maxlen, its stamps are in order and
\* none is in the future: what popleft and history[0] rely on.
THEOREM TypeCorrect == Spec => []TypeOK
<1>1. IndInv => TypeOK
  BY DEF IndInv, Typed
<1>2. QED
  BY <1>1, Invariance, PTL

\* NothingForgotten: pruning a deque and sweeping stale keys out of the dict
\* lose no stamp that still counts.
THEOREM Remembers == Spec => []NothingForgotten
<1>1. IndInv => NothingForgotten
  <2> SUFFICES ASSUME IndInv, NEW k \in Key, Len(granted[k]) <= MaxLen
               PROVE  View(k) = Recent(granted[k], now)
    BY DEF NothingForgotten, View
  <2>1. /\ granted[k] \in Stamps /\ granted[k] \in Seq(Nat) /\ now \in Int
        /\ \A i \in 1..Len(granted[k]) : granted[k][i] >= now - Window
        /\ IsLast(View(k), granted[k])
    BY DEF IndInv, Typed, TypeOK, InWindow, Remembered, Stamps
  <2>2. Recent(granted[k], now) = granted[k]
    BY <2>1, RecentAll
  <2>3. View(k) \in Seq(Nat) /\ Len(View(k)) = Len(granted[k]) /\ Len(granted[k]) \in Nat
    BY <2>1, ViewTyped DEF IndInv, IsLast, Stamps
  <2>4. \A i \in 1..Len(View(k)) : View(k)[i] = granted[k][i]
    <3>1. \A i \in 1..Len(View(k)) :
            View(k)[i] = granted[k][Len(granted[k]) - Len(View(k)) + i]
      BY <2>1 DEF IsLast
    <3>2. \A i \in 1..Len(View(k)) : Len(granted[k]) - Len(View(k)) + i = i
      BY <2>3
    <3>3. QED
      BY <3>1, <3>2
  <2>5. View(k) = granted[k]
    BY <2>1, <2>3, <2>4, SeqEqual
  <2>6. QED
    BY <2>2, <2>5
<1>2. QED
  BY <1>1, Invariance, PTL

\* RetryAfterHonest: a client that waits as long as Retry-After says, with
\* no other grant to its key meanwhile, is not over its limit any more.
THEOREM RetryAfterKept == Spec => []RetryAfterHonest
<1>1. IndInv /\ Promised => RetryAfterHonest
  <2> SUFFICES ASSUME IndInv, Promised, NEW k \in Key,
                      promise[k] # NoPromise, now >= promise[k].at
               PROVE  Len(View(k)) < promise[k].limit
    BY DEF RetryAfterHonest, View
  <2>1. /\ promise[k].limit \in Nat \ {0} /\ promise[k].at \in Int
        /\ Len(View(k)) <= promise[k].limit
        /\ Len(View(k)) = promise[k].limit => View(k)[1] + Window < promise[k].at
    BY DEF Promised
  <2>2. /\ Len(View(k)) \in Nat /\ now \in Nat /\ Window \in Nat
        /\ \A i \in 1..Len(View(k)) : View(k)[i] \in Nat /\ View(k)[i] >= now - Window
    BY ViewTyped, WindowType DEF IndInv, Typed, TypeOK
  <2>3. ASSUME Len(View(k)) = promise[k].limit PROVE FALSE
    <3>1. 1 \in 1..Len(View(k))
      BY <2>1, <2>2, <2>3
    <3>2. View(k)[1] \in Nat /\ View(k)[1] >= now - Window
      BY <2>2, <3>1
    <3>3. QED
      BY <2>1, <2>2, <2>3, <3>2
  <2>4. QED
    BY <2>1, <2>2, <2>3
<1>2. QED
  BY <1>1, Invariance, PTL

\* "Any positive value caps requests/minute per API key" is true of every
\* value a deque has room for, whatever settings other projects have and
\* however often a key is used above its limit under them.
THEOREM CapsUpToDeque == Spec => []CappedToDeque
BY Invariance, PTL

\* WindowCapped: so it is true if no pushed setting is above maxlen, which
\* nothing enforces: the run with a larger one shows it exceeded.
THEOREM CapHolds ==
  ASSUME \A setting \in Setting : setting = Unset \/ setting <= MaxLen
  PROVE  Spec => []WindowCapped
<1>1. IndInv /\ CappedToDeque => WindowCapped
  BY DEF IndInv, Typed, TypeOK, CappedToDeque, WindowCapped
<1>2. QED
  BY <1>1, Invariance, PTL
=============================================================================
