------------------------ MODULE PairingLimiterProofs ------------------------
(***************************************************************************)
(* The bound that the limiter puts on the pairing requests of one machine, *)
(* proved for any window, any limit and any number of handlers, addresses  *)
(* and machines, with clock readings that reach the limiter in any order.  *)
(*                                                                         *)
(* The limiter keeps one window per machine and forgets it when it is      *)
(* over, so its count alone says nothing about the requests of the last    *)
(* RateWindow.  The invariant LimiterInv relates a window to the readings  *)
(* of all the requests of the machine that passed: how many of them lie in *)
(* the RateWindow before the newest reading, and how many of those after   *)
(* the window's start.  Each request with a stale reading is worth a full  *)
(* window in all of these bounds.                                          *)
(***************************************************************************)
EXTENDS PairingLimiter, FiniteSetTheorems, TLAPS

\* The requests of device d in p with a reading of lo or later.
Since(p, d, lo) == {i \in DOMAIN p : p[i].device = d /\ lo <= p[i].at}

\* Those with a reading in the RateWindow that starts at t.
During(p, d, t) ==
  {i \in DOMAIN p : p[i].device = d /\ t <= p[i].at /\ p[i].at < t + RateWindow}

AtMost(S, n) == IsFiniteSet(S) /\ Cardinality(S) <= n

\* What window w of device d says about the requests p that have passed, when n
\* is the newest reading and k is granted to the stale ones.
Knows(p, d, w, n, k) ==
  /\ w.start <= n /\ w.count <= RateLimit
  /\ w.count > 0 =>
       /\ AtMost(Since(p, d, n - RateWindow + 1), RateLimit - 1 + w.count + k)
       /\ \A lo \in Int : lo >= w.start + 1 /\ lo >= n - RateWindow + 1
            => AtMost(Since(p, d, lo), w.count - 1 + k)
       /\ \A lo \in Int : lo >= w.start + RateWindow /\ lo >= n
            => AtMost(Since(p, d, lo), k)
  /\ w.count = 0 =>
       /\ AtMost(Since(p, d, n - RateWindow + 1), RateLimit - 1 + k)
       /\ AtMost(Since(p, d, n), k)
  /\ \A t \in Int : AtMost(During(p, d, t), 2 * RateLimit - 1 + k)

\* With q instead of p any count of device d grows by one at most.
OneMore(p, q, d) ==
  \A lo, n, k \in Int : n + 1 <= k =>
    /\ AtMost(Since(p, d, lo), n) => AtMost(Since(q, d, lo), k)
    /\ AtMost(During(p, d, lo), n) => AtMost(During(q, d, lo), k)

LimiterTypeOK ==
  /\ clock \in Nat /\ newest \in Nat
  /\ windows \in [Key -> [start : Nat, count : Nat]]
  /\ reading \in [Caller -> Reading \cup {NoReading}]
  /\ passed \in Seq([device : Device, at : Nat])
  /\ stale \in [Device -> Nat]

LimiterInv ==
  /\ LimiterTypeOK
  /\ \A d \in Device : Knows(passed, d, windows[d], newest, RateLimit * stale[d])

-----------------------------------------------------------------------------
\* The bounds are numbers.
LEMMA Limits ==
  RateWindow \in Nat /\ RateWindow >= 1 /\ RateLimit \in Nat /\ RateLimit >= 1
BY LimiterAssumption

\* A part of a set with at most n elements has at most n.
LEMMA AtMostPart ==
  ASSUME NEW S, NEW T, NEW n \in Int, NEW k \in Int, T \subseteq S, AtMost(S, n), n <= k
  PROVE  AtMost(T, k)
<1>1. IsFiniteSet(T) /\ Cardinality(T) <= Cardinality(S)
  BY FS_Subset DEF AtMost
<1>2. Cardinality(S) \in Nat /\ Cardinality(T) \in Nat
  BY <1>1, FS_CardinalityType DEF AtMost
<1> QED BY <1>1, <1>2 DEF AtMost

\* One element more.
LEMMA AtMostMore ==
  ASSUME NEW S, NEW T, NEW x, NEW n \in Int, NEW k \in Int,
         T \subseteq S \cup {x}, AtMost(S, n), n + 1 <= k
  PROVE  AtMost(T, k)
<1>1. IsFiniteSet(S \cup {x}) /\ Cardinality(S \cup {x}) <= Cardinality(S) + 1
  <2>1. /\ IsFiniteSet(S \cup {x})
        /\ Cardinality(S \cup {x}) = IF x \in S THEN Cardinality(S) ELSE Cardinality(S) + 1
    BY FS_AddElement DEF AtMost
  <2>2. Cardinality(S) \in Nat
    BY FS_CardinalityType DEF AtMost
  <2> QED BY <2>1, <2>2
<1>2. Cardinality(S) \in Nat /\ Cardinality(S \cup {x}) \in Nat
  BY <1>1, FS_CardinalityType DEF AtMost
<1>3. AtMost(S \cup {x}, n + 1)
  BY <1>1, <1>2 DEF AtMost
<1> QED BY <1>3, AtMostPart

\* An element of a sequence is of the sequence's type.
LEMMA SeqElement ==
  ASSUME NEW S, NEW p \in Seq(S) PROVE \A i \in DOMAIN p : p[i] \in S
OBVIOUS

\* What is later, and what is in an interval, is a part of what is earlier.
LEMMA SinceLater ==
  ASSUME NEW p \in Seq([device : Device, at : Nat]), NEW d \in Device
  PROVE  \A a, b \in Int : a <= b => /\ Since(p, d, b) \subseteq Since(p, d, a)
                                     /\ During(p, d, b) \subseteq Since(p, d, a)
<1>1. \A i \in DOMAIN p : p[i] \in [device : Device, at : Nat]
  BY SeqElement
<1>2. \A i \in DOMAIN p : p[i].at \in Nat
  BY <1>1
<1> QED BY <1>2 DEF Since, During

\* One more request passes.
LEMMA PassedMore ==
  ASSUME NEW p \in Seq([device : Device, at : Nat]), NEW d \in Device, NEW c \in Device,
         NEW t \in Nat, NEW lo \in Int
  PROVE  LET q == Append(p, [device |-> c, at |-> t])
         IN  /\ q \in Seq([device : Device, at : Nat])
             /\ Since(q, d, lo) \subseteq Since(p, d, lo) \cup {Len(p) + 1}
             /\ During(q, d, lo) \subseteq During(p, d, lo) \cup {Len(p) + 1}
             /\ c # d \/ t < lo => Since(q, d, lo) \subseteq Since(p, d, lo)
             /\ c # d \/ t < lo \/ t >= lo + RateWindow
                  => During(q, d, lo) \subseteq During(p, d, lo)
<1> DEFINE e == [device |-> c, at |-> t]
           q == Append(p, e)
<1>1. e \in [device : Device, at : Nat] /\ e.device = c /\ e.at = t
  OBVIOUS
<1> HIDE DEF e
<1>2. /\ q \in Seq([device : Device, at : Nat]) /\ DOMAIN q = 1 .. Len(p) + 1
      /\ DOMAIN p = 1 .. Len(p) /\ Len(p) \in Nat
      /\ q[Len(p) + 1] = e /\ \A i \in 1 .. Len(p) : q[i] = p[i]
  BY <1>1
<1> HIDE DEF q
<1>3. \A i \in DOMAIN q : (i \in DOMAIN p /\ q[i] = p[i]) \/ (i = Len(p) + 1 /\ q[i] = e)
  <2>1. \A i \in 1 .. Len(p) + 1 : i \in 1 .. Len(p) \/ i = Len(p) + 1
    BY <1>2
  <2> QED BY <1>2, <2>1
<1>4. /\ Since(q, d, lo) \subseteq Since(p, d, lo) \cup {Len(p) + 1}
      /\ During(q, d, lo) \subseteq During(p, d, lo) \cup {Len(p) + 1}
  BY <1>3 DEF Since, During
<1>5. c # d \/ t < lo => Since(q, d, lo) \subseteq Since(p, d, lo)
  BY <1>1, <1>3 DEF Since
<1>6. c # d \/ t < lo \/ t >= lo + RateWindow => During(q, d, lo) \subseteq During(p, d, lo)
  BY <1>1, <1>3, Limits DEF During
<1> QED BY <1>2, <1>4, <1>5, <1>6 DEF q, e

\* It adds at most one to any count.
LEMMA CountMore ==
  ASSUME NEW p \in Seq([device : Device, at : Nat]), NEW d \in Device, NEW t \in Nat,
         NEW q, q = Append(p, [device |-> d, at |-> t])
  PROVE  OneMore(p, q, d)
<1> SUFFICES ASSUME NEW lo \in Int, NEW n \in Int, NEW k \in Int, n + 1 <= k
             PROVE  /\ AtMost(Since(p, d, lo), n) => AtMost(Since(q, d, lo), k)
                    /\ AtMost(During(p, d, lo), n) => AtMost(During(q, d, lo), k)
  BY DEF OneMore
<1> DEFINE A == Since(p, d, lo)
           B == Since(q, d, lo)
           C == During(p, d, lo)
           D == During(q, d, lo)
           N == Len(p) + 1
<1>1. B \subseteq A \cup {N} /\ D \subseteq C \cup {N}
  BY PassedMore
<1> HIDE DEF A, B, C, D, N
<1>2. AtMost(A, n) => AtMost(B, k)
  BY <1>1, AtMostMore
<1>3. AtMost(C, n) => AtMost(D, k)
  BY <1>1, AtMostMore
<1> QED BY <1>2, <1>3 DEF A, B, C, D

-----------------------------------------------------------------------------
\* Eviction at a reading t, which may be older than the newest one.
LEMMA KnowsEvicted ==
  ASSUME NEW p \in Seq([device : Device, at : Nat]), NEW d \in Device,
         NEW w \in [start : Nat, count : Nat], NEW n \in Nat, NEW k \in Nat, NEW t \in Nat,
         NEW m \in Nat, m = IF t < n THEN n ELSE t,
         NEW v, v = (IF t >= w.start + RateWindow THEN NoWindow ELSE w),
         Knows(p, d, w, n, k)
  PROVE  Knows(p, d, v, m, k)
<1> USE Limits
<1>1. m >= n /\ m >= t /\ w.start \in Nat /\ w.count \in Nat
  OBVIOUS
<1>2. \A t1 \in Int : AtMost(During(p, d, t1), 2 * RateLimit - 1 + k)
  BY DEF Knows
<1>3. CASE w.count = 0
  <2>1. v.count = 0 /\ v.start <= m
    BY <1>1, <1>3 DEF NoWindow, Knows
  <2>2. AtMost(Since(p, d, m - RateWindow + 1), RateLimit - 1 + k)
    <3>0. /\ m - RateWindow + 1 \in Int /\ n - RateWindow + 1 \in Int
          /\ n - RateWindow + 1 <= m - RateWindow + 1
      BY <1>1
    <3>1. Since(p, d, m - RateWindow + 1) \subseteq Since(p, d, n - RateWindow + 1)
      BY <3>0, SinceLater
    <3>2. AtMost(Since(p, d, n - RateWindow + 1), RateLimit - 1 + k)
      BY <1>3 DEF Knows
    <3> QED BY <3>1, <3>2, AtMostPart
  <2>3. AtMost(Since(p, d, m), k)
    <3>0. m \in Int /\ n \in Int /\ n <= m
      BY <1>1
    <3>1. Since(p, d, m) \subseteq Since(p, d, n)
      BY <3>0, SinceLater
    <3>2. AtMost(Since(p, d, n), k)
      BY <1>3 DEF Knows
    <3> QED BY <3>1, <3>2, AtMostPart
  <2> QED BY <1>2, <2>1, <2>2, <2>3 DEF Knows
<1>4. CASE w.count > 0 /\ t >= w.start + RateWindow
  <2>1. v.count = 0 /\ v.start <= m
    BY <1>4 DEF NoWindow
  <2>2. AtMost(Since(p, d, m - RateWindow + 1), RateLimit - 1 + k)
    <3>1. AtMost(Since(p, d, m - RateWindow + 1), w.count - 1 + k)
      <4>1. /\ m - RateWindow + 1 \in Int /\ m - RateWindow + 1 >= w.start + 1
            /\ m - RateWindow + 1 >= n - RateWindow + 1
        BY <1>1, <1>4
      <4> QED BY <1>4, <4>1 DEF Knows
    <3>2. w.count - 1 + k <= RateLimit - 1 + k
      BY DEF Knows
    <3> QED BY <1>1, <3>1, <3>2, AtMostPart
  <2>3. AtMost(Since(p, d, m), k)
    <3>1. m \in Int /\ m >= w.start + RateWindow /\ m >= n
      BY <1>1, <1>4
    <3> QED BY <1>4, <3>1 DEF Knows
  <2> QED BY <1>2, <2>1, <2>2, <2>3 DEF Knows
<1>5. CASE w.count > 0 /\ ~(t >= w.start + RateWindow)
  <2>1. v = w /\ w.start <= m /\ w.count <= RateLimit
    BY <1>1, <1>5 DEF Knows
  <2>2. AtMost(Since(p, d, m - RateWindow + 1), RateLimit - 1 + w.count + k)
    <3>0. /\ m - RateWindow + 1 \in Int /\ n - RateWindow + 1 \in Int
          /\ n - RateWindow + 1 <= m - RateWindow + 1
      BY <1>1
    <3>1. Since(p, d, m - RateWindow + 1) \subseteq Since(p, d, n - RateWindow + 1)
      BY <3>0, SinceLater
    <3>2. AtMost(Since(p, d, n - RateWindow + 1), RateLimit - 1 + w.count + k)
      BY <1>5 DEF Knows
    <3> QED BY <1>1, <3>1, <3>2, AtMostPart
  <2>3. \A lo \in Int : lo >= w.start + 1 /\ lo >= m - RateWindow + 1
          => AtMost(Since(p, d, lo), w.count - 1 + k)
    BY <1>1, <1>5 DEF Knows
  <2>4. \A lo \in Int : lo >= w.start + RateWindow /\ lo >= m => AtMost(Since(p, d, lo), k)
    BY <1>1, <1>5 DEF Knows
  <2> QED BY <1>2, <1>5, <2>1, <2>2, <2>3, <2>4 DEF Knows
<1> QED BY <1>1, <1>3, <1>4, <1>5

\* A request of the device passes with the newest reading: it counts in a window
\* that is not over or opens one.
LEMMA KnowsPassed ==
  ASSUME NEW p \in Seq([device : Device, at : Nat]), NEW d \in Device,
         NEW w \in [start : Nat, count : Nat], NEW k \in Nat, NEW t \in Nat,
         Knows(p, d, w, t, k), w.count < RateLimit,
         w.count > 0 => t < w.start + RateWindow,
         NEW q, q = Append(p, [device |-> d, at |-> t]),
         NEW v \in [start : Nat, count : Nat], v.count = w.count + 1,
         v.start = IF w.count = 0 THEN t ELSE w.start
  PROVE  Knows(q, d, v, t, k)
<1> USE Limits
<1>9. OneMore(p, q, d)
  BY CountMore
<1>1. /\ v.count > 0 /\ v.count <= RateLimit /\ v.start <= t
      /\ w.count \in Nat /\ w.start \in Nat /\ v.count \in Nat /\ v.start \in Nat
      /\ t < v.start + RateWindow
  BY DEF Knows
<1>2. \A lo \in Int : /\ t < lo => Since(q, d, lo) \subseteq Since(p, d, lo)
                      /\ t < lo \/ t >= lo + RateWindow
                           => During(q, d, lo) \subseteq During(p, d, lo)
  BY PassedMore
<1>3. AtMost(Since(q, d, t - RateWindow + 1), RateLimit - 1 + v.count + k)
  <2>1. CASE w.count > 0
    <3>1. AtMost(Since(p, d, t - RateWindow + 1), RateLimit - 1 + w.count + k)
      BY <2>1 DEF Knows
    <3>2. /\ t - RateWindow + 1 \in Int /\ RateLimit - 1 + w.count + k \in Int
          /\ RateLimit - 1 + v.count + k \in Int
      BY <1>1
    <3>3. RateLimit - 1 + w.count + k + 1 <= RateLimit - 1 + v.count + k
      <4>1. v.count = w.count + 1
        OBVIOUS
      <4> QED BY <1>1, <4>1
    <3> QED BY <3>1, <3>2, <3>3, <1>9 DEF OneMore
  <2>2. CASE w.count = 0
    <3>1. AtMost(Since(p, d, t - RateWindow + 1), RateLimit - 1 + k)
      BY <2>2 DEF Knows
    <3>2. /\ t - RateWindow + 1 \in Int /\ RateLimit - 1 + k \in Int
          /\ RateLimit - 1 + v.count + k \in Int
          /\ RateLimit - 1 + k + 1 <= RateLimit - 1 + v.count + k
      BY <1>1
    <3> QED BY <3>1, <3>2, <1>9 DEF OneMore
  <2> QED BY <1>1, <2>1, <2>2
<1>4. ASSUME NEW lo \in Int, lo >= v.start + 1, lo >= t - RateWindow + 1
      PROVE  AtMost(Since(q, d, lo), v.count - 1 + k)
  <2>1. CASE w.count = 0
    <3>0. t < lo /\ v.count - 1 + k = k /\ t \in Int /\ t <= lo
      BY <1>1, <1>4, <2>1
    <3>1. Since(p, d, lo) \subseteq Since(p, d, t)
      BY <3>0, SinceLater
    <3>2. AtMost(Since(p, d, t), k)
      BY <2>1 DEF Knows
    <3>3. Since(q, d, lo) \subseteq Since(p, d, t)
      BY <1>2, <3>0, <3>1
    <3>4. AtMost(Since(q, d, lo), k)
      BY <3>2, <3>3, AtMostPart
    <3> QED BY <3>0, <3>4
  <2>2. CASE w.count > 0
    <3>1. AtMost(Since(p, d, lo), w.count - 1 + k)
      BY <1>1, <1>4, <2>2 DEF Knows
    <3>2. /\ w.count - 1 + k \in Int /\ v.count - 1 + k \in Int
          /\ w.count - 1 + k + 1 <= v.count - 1 + k
      BY <1>1
    <3> QED BY <3>1, <3>2, <1>9 DEF OneMore
  <2> QED BY <1>1, <2>1, <2>2
<1>5. ASSUME NEW lo \in Int, lo >= v.start + RateWindow, lo >= t
      PROVE  AtMost(Since(q, d, lo), k)
  <2>1. t < lo /\ Since(q, d, lo) \subseteq Since(p, d, lo)
    BY <1>1, <1>2, <1>5
  <2>2. AtMost(Since(p, d, lo), k)
    <3>1. CASE w.count = 0
      <4>0. t \in Int /\ t <= lo
        BY <2>1
      <4>1. Since(p, d, lo) \subseteq Since(p, d, t)
        BY <4>0, SinceLater
      <4>2. AtMost(Since(p, d, t), k)
        BY <3>1 DEF Knows
      <4> QED BY <4>1, <4>2, AtMostPart
    <3>2. CASE w.count > 0
      BY <1>1, <1>5, <3>2 DEF Knows
    <3> QED BY <1>1, <3>1, <3>2
  <2> QED BY <2>1, <2>2, AtMostPart
<1>6. ASSUME NEW u \in Int
      PROVE  AtMost(During(q, d, u), 2 * RateLimit - 1 + k)
  <2>1. CASE t < u \/ t >= u + RateWindow
    <3>1. During(q, d, u) \subseteq During(p, d, u)
      BY <1>2, <2>1
    <3>2. AtMost(During(p, d, u), 2 * RateLimit - 1 + k)
      BY DEF Knows
    <3> QED BY <3>1, <3>2, AtMostPart
  <2>2. CASE ~(t < u \/ t >= u + RateWindow)
    <3>0. q \in Seq([device : Device, at : Nat])
      BY PassedMore
    <3>1. During(q, d, u) \subseteq Since(q, d, t - RateWindow + 1)
      <4>1. t - RateWindow + 1 <= u /\ t - RateWindow + 1 \in Int
        BY <2>2
      <4> QED BY <3>0, <4>1, SinceLater
    <3>2. RateLimit - 1 + v.count + k <= 2 * RateLimit - 1 + k
      BY <1>1
    <3> QED BY <1>1, <1>3, <3>1, <3>2, AtMostPart
  <2> QED BY <2>1, <2>2
<1> QED BY <1>1, <1>3, <1>4, <1>5, <1>6 DEF Knows

\* A request of the device passes with a reading t older than the newest one, n.
LEMMA KnowsStale ==
  ASSUME NEW p \in Seq([device : Device, at : Nat]), NEW d \in Device,
         NEW w \in [start : Nat, count : Nat], NEW k \in Nat, NEW t \in Nat, NEW n \in Nat,
         Knows(p, d, w, n, k), w.count < RateLimit, t < n,
         NEW q, q = Append(p, [device |-> d, at |-> t]),
         NEW v \in [start : Nat, count : Nat], v.count = w.count + 1,
         v.start = IF w.count = 0 THEN t ELSE w.start
  PROVE  Knows(q, d, v, n, k + RateLimit)
<1> USE Limits
<1>9. OneMore(p, q, d)
  BY CountMore
<1>1. /\ v.count > 0 /\ v.count <= RateLimit /\ v.start <= n
      /\ w.count \in Nat /\ w.start \in Nat /\ v.count \in Nat /\ v.start \in Nat
  BY DEF Knows
<1>2. q \in Seq([device : Device, at : Nat])
  BY PassedMore
<1>3. ASSUME w.count = 0, NEW lo \in Int, lo >= n - RateWindow + 1
      PROVE  AtMost(Since(q, d, lo), k + RateLimit)
  <2>1. AtMost(Since(p, d, n - RateWindow + 1), RateLimit - 1 + k)
    BY <1>3 DEF Knows
  <2>2. /\ n - RateWindow + 1 \in Int /\ RateLimit - 1 + k \in Int /\ k + RateLimit \in Int
        /\ RateLimit - 1 + k + 1 <= k + RateLimit
    OBVIOUS
  <2>3. AtMost(Since(q, d, n - RateWindow + 1), k + RateLimit)
    BY <2>1, <2>2, <1>9 DEF OneMore
  <2>4. Since(q, d, lo) \subseteq Since(q, d, n - RateWindow + 1)
    BY <1>2, <1>3, <2>2, SinceLater
  <2> QED BY <2>2, <2>3, <2>4, AtMostPart
<1>4. AtMost(Since(q, d, n - RateWindow + 1), RateLimit - 1 + v.count + (k + RateLimit))
  <2>1. CASE w.count = 0
    <3>1. AtMost(Since(q, d, n - RateWindow + 1), k + RateLimit)
      BY <1>3, <2>1
    <3>2. k + RateLimit <= RateLimit - 1 + v.count + (k + RateLimit)
      BY <1>1
    <3> QED BY <1>1, <3>1, <3>2, AtMostPart
  <2>2. CASE w.count > 0
    <3>1. AtMost(Since(p, d, n - RateWindow + 1), RateLimit - 1 + w.count + k)
      BY <2>2 DEF Knows
    <3>2. /\ n - RateWindow + 1 \in Int /\ RateLimit - 1 + w.count + k \in Int
          /\ RateLimit - 1 + v.count + (k + RateLimit) \in Int
      BY <1>1
    <3>3. RateLimit - 1 + w.count + k + 1 <= RateLimit - 1 + v.count + (k + RateLimit)
      <4>1. v.count = w.count + 1
        OBVIOUS
      <4> QED BY <1>1, <4>1
    <3> QED BY <3>1, <3>2, <3>3, <1>9 DEF OneMore
  <2> QED BY <1>1, <2>1, <2>2
<1>5. ASSUME NEW lo \in Int, lo >= v.start + 1, lo >= n - RateWindow + 1
      PROVE  AtMost(Since(q, d, lo), v.count - 1 + (k + RateLimit))
  <2>1. CASE w.count = 0
    <3>1. AtMost(Since(q, d, lo), k + RateLimit) /\ v.count - 1 + (k + RateLimit) = k + RateLimit
      BY <1>3, <1>5, <2>1
    <3> QED BY <3>1
  <2>2. CASE w.count > 0
    <3>1. AtMost(Since(p, d, lo), w.count - 1 + k)
      BY <1>5, <2>2 DEF Knows
    <3>2. /\ w.count - 1 + k \in Int /\ v.count - 1 + (k + RateLimit) \in Int
          /\ w.count - 1 + k + 1 <= v.count - 1 + (k + RateLimit)
      BY <1>1
    <3> QED BY <3>1, <3>2, <1>9 DEF OneMore
  <2> QED BY <1>1, <2>1, <2>2
<1>6. ASSUME NEW lo \in Int, lo >= v.start + RateWindow, lo >= n
      PROVE  AtMost(Since(q, d, lo), k + RateLimit)
  <2>1. CASE w.count = 0
    BY <1>3, <1>6, <2>1
  <2>2. CASE w.count > 0
    <3>1. AtMost(Since(p, d, lo), k)
      BY <1>6, <2>2 DEF Knows
    <3>2. k \in Int /\ k + RateLimit \in Int /\ k + 1 <= k + RateLimit
      OBVIOUS
    <3> QED BY <3>1, <3>2, <1>9 DEF OneMore
  <2> QED BY <1>1, <2>1, <2>2
<1>7. ASSUME NEW u \in Int
      PROVE  AtMost(During(q, d, u), 2 * RateLimit - 1 + (k + RateLimit))
  <2>1. AtMost(During(p, d, u), 2 * RateLimit - 1 + k)
    BY DEF Knows
  <2>2. /\ 2 * RateLimit - 1 + k \in Int /\ 2 * RateLimit - 1 + (k + RateLimit) \in Int
        /\ 2 * RateLimit - 1 + k + 1 <= 2 * RateLimit - 1 + (k + RateLimit)
    OBVIOUS
  <2> QED BY <2>1, <2>2, <1>9 DEF OneMore
<1> QED BY <1>1, <1>4, <1>5, <1>6, <1>7, SMTT(60) DEF Knows

\* A request of another device passes.
LEMMA KnowsOther ==
  ASSUME NEW p \in Seq([device : Device, at : Nat]), NEW d \in Device, NEW c \in Device,
         c # d, NEW t \in Nat, NEW w \in [start : Nat, count : Nat], NEW n \in Nat,
         NEW k \in Nat, Knows(p, d, w, n, k)
  PROVE  Knows(Append(p, [device |-> c, at |-> t]), d, w, n, k)
<1> DEFINE q == Append(p, [device |-> c, at |-> t])
<1>1. \A lo \in Int : /\ Since(q, d, lo) \subseteq Since(p, d, lo)
                      /\ During(q, d, lo) \subseteq During(p, d, lo)
  BY PassedMore
<1> HIDE DEF q
<1>2. ASSUME NEW lo \in Int, NEW a \in Int
      PROVE  /\ AtMost(Since(p, d, lo), a) => AtMost(Since(q, d, lo), a)
             /\ AtMost(During(p, d, lo), a) => AtMost(During(q, d, lo), a)
  BY <1>1, AtMostPart
<1>3. w.count \in Nat /\ w.start \in Nat /\ n - RateWindow + 1 \in Int /\ n \in Int
  BY Limits
<1>4. /\ RateLimit - 1 + w.count + k \in Int /\ w.count - 1 + k \in Int /\ k \in Int
      /\ RateLimit - 1 + k \in Int /\ 2 * RateLimit - 1 + k \in Int
  BY <1>3, Limits
<1>5. w.count > 0 =>
        /\ AtMost(Since(q, d, n - RateWindow + 1), RateLimit - 1 + w.count + k)
        /\ \A lo \in Int : lo >= w.start + 1 /\ lo >= n - RateWindow + 1
             => AtMost(Since(q, d, lo), w.count - 1 + k)
        /\ \A lo \in Int : lo >= w.start + RateWindow /\ lo >= n
             => AtMost(Since(q, d, lo), k)
  BY <1>2, <1>3, <1>4 DEF Knows
<1>6. w.count = 0 => /\ AtMost(Since(q, d, n - RateWindow + 1), RateLimit - 1 + k)
                     /\ AtMost(Since(q, d, n), k)
  BY <1>2, <1>3, <1>4 DEF Knows
<1>7. \A u \in Int : AtMost(During(q, d, u), 2 * RateLimit - 1 + k)
  BY <1>2, <1>4 DEF Knows
<1>8. w.start <= n /\ w.count <= RateLimit
  BY DEF Knows
<1>9. Knows(q, d, w, n, k)
  BY <1>5, <1>6, <1>7, <1>8 DEF Knows
<1> QED BY <1>9 DEF q

-----------------------------------------------------------------------------
\* Nothing has passed at the start.
LEMMA LimiterInvInit == LimiterInit => LimiterInv
<1> SUFFICES ASSUME LimiterInit PROVE LimiterInv
  OBVIOUS
<1> USE Limits
<1>1. LimiterTypeOK
  BY DEF LimiterInit, LimiterTypeOK, NoWindow
<1>2. ASSUME NEW d \in Device
      PROVE  Knows(passed, d, windows[d], newest, RateLimit * stale[d])
  <2>1. \A lo \in Int : Since(passed, d, lo) = {} /\ During(passed, d, lo) = {}
    BY DEF LimiterInit, Since, During
  <2>2. \A n \in Nat : AtMost({}, n)
    BY FS_EmptySet DEF AtMost
  <2>3. /\ windows[d].count = 0 /\ windows[d].start = 0 /\ newest = 0 /\ stale[d] = 0
        /\ RateLimit * stale[d] = 0
    BY DEF LimiterInit, Key, NoWindow
  <2>4. /\ 2 * RateLimit - 1 + 0 \in Nat /\ RateLimit - 1 + 0 \in Nat /\ 0 \in Nat
        /\ newest - RateWindow + 1 \in Int /\ newest \in Int
    BY <2>3
  <2>5. /\ AtMost(Since(passed, d, newest - RateWindow + 1), RateLimit - 1 + 0)
        /\ AtMost(Since(passed, d, newest), 0)
        /\ \A t \in Int : AtMost(During(passed, d, t), 2 * RateLimit - 1 + 0)
    BY <2>1, <2>2, <2>4
  <2>6. windows[d].start <= newest /\ windows[d].count <= RateLimit /\ ~(windows[d].count > 0)
    BY <2>3
  <2> QED BY <2>3, <2>5, <2>6 DEF Knows
<1> QED BY <1>1, <1>2 DEF LimiterInv

\* A request that is let pass, and one that is refused.
LEMMA AllowInv ==
  ASSUME LimiterInv, NEW c \in Caller, Allow(c)
  PROVE  LimiterInv'
<1> USE Limits
<1> DEFINE e == reading[c].device
           a == reading[c].address
           t == reading[c].at
           w == EvictExpired(windows, t)
           n == IF t < newest THEN newest ELSE t
<1>0. LimiterTypeOK
  BY DEF LimiterInv
<1>1. e \in Device /\ a \in Address /\ t \in Nat /\ e # a /\ e \in Key /\ a \in Key
  <2>1. reading[c] \in Reading
    BY <1>0 DEF Allow, LimiterTypeOK
  <2>2. e \in Device /\ a \in Address /\ t \in Nat
    BY <2>1 DEF Reading
  <2>3. Device \cap Address = {}
    BY LimiterAssumption
  <2> QED BY <2>2, <2>3 DEF Key
<1>2. newest' = n /\ n \in Nat /\ clock' \in Nat
  BY <1>0, <1>1 DEF Allow, LimiterTypeOK
<1>3. w \in [Key -> [start : Nat, count : Nat]]
  BY <1>0 DEF LimiterTypeOK, EvictExpired, NoWindow
<1>4. reading' \in [Caller -> Reading \cup {NoReading}]
  BY <1>0 DEF Allow, LimiterTypeOK
<1>5. \A d \in Device : /\ w[d].count > 0 => t < w[d].start + RateWindow
                        /\ RateLimit * stale[d] \in Nat
  BY <1>0, <1>1 DEF EvictExpired, NoWindow, Key, LimiterTypeOK
<1>6. ASSUME NEW d \in Device
      PROVE  Knows(passed, d, w[d], n, RateLimit * stale[d])
  <2>1. w[d] = IF t >= windows[d].start + RateWindow THEN NoWindow ELSE windows[d]
    BY DEF EvictExpired, Key
  <2>2. /\ windows[d] \in [start : Nat, count : Nat] /\ newest \in Nat
        /\ passed \in Seq([device : Device, at : Nat])
    BY <1>0 DEF LimiterTypeOK, Key
  <2>3. Knows(passed, d, windows[d], newest, RateLimit * stale[d])
    BY DEF LimiterInv
  <2> HIDE DEF w, t
  <2> QED BY <1>1, <1>2, <1>5, <2>1, <2>2, <2>3, KnowsEvicted
<1>7. CASE ~Allowed(w, a, e)
  <2>1. windows' = w /\ passed' = passed /\ stale' = stale
    BY <1>7 DEF Allow
  <2>2. LimiterTypeOK'
    BY <1>0, <1>2, <1>3, <1>4, <2>1 DEF LimiterTypeOK
  <2> QED BY <1>2, <1>6, <2>1, <2>2 DEF LimiterInv
<1>8. CASE Allowed(w, a, e)
  <2> DEFINE q == Append(passed, [device |-> e, at |-> t])
  <2>1. /\ windows' = Counted(w, a, e, t) /\ passed' = q
        /\ stale' = IF t < newest THEN [stale EXCEPT ![e] = @ + 1] ELSE stale
    BY <1>8 DEF Allow
  <2>2. q \in Seq([device : Device, at : Nat])
    BY <1>0, <1>1 DEF LimiterTypeOK
  <2>3. windows' \in [Key -> [start : Nat, count : Nat]]
    <3> HIDE DEF w, t
    <3> QED BY <1>1, <1>3, <2>1 DEF Counted
  <2>4. stale' \in [Device -> Nat]
    BY <1>0, <1>1, <2>1 DEF LimiterTypeOK
  <2>5. LimiterTypeOK'
    BY <1>2, <1>4, <2>1, <2>2, <2>3, <2>4 DEF LimiterTypeOK
  <2>6. passed \in Seq([device : Device, at : Nat])
    BY <1>0 DEF LimiterTypeOK
  <2>7. Knows(q, e, windows'[e], n, RateLimit * stale'[e])
    <3>1. /\ windows'[e] \in [start : Nat, count : Nat] /\ w[e] \in [start : Nat, count : Nat]
          /\ windows'[e].count = w[e].count + 1
          /\ windows'[e].start = IF w[e].count = 0 THEN t ELSE w[e].start
          /\ w[e].count < RateLimit
      <4>1. windows'[e] = [start |-> IF w[e].count = 0 THEN t ELSE w[e].start,
                           count |-> w[e].count + 1]
        BY <1>1, <2>1 DEF Counted
      <4>2. w[e].count < RateLimit
        BY <1>8 DEF Allowed
      <4> HIDE DEF w, t, e
      <4> QED BY <1>1, <1>3, <2>3, <4>1, <4>2
    <3>2. CASE t < newest
      <4>1. n = newest /\ stale'[e] = stale[e] + 1 /\ stale[e] \in Nat
        BY <1>0, <1>1, <2>1, <3>2 DEF LimiterTypeOK
      <4>2. RateLimit * stale'[e] = RateLimit * stale[e] + RateLimit
        BY <4>1
      <4>3. Knows(passed, e, w[e], n, RateLimit * stale[e])
        BY <1>1, <1>6
      <4>4. t < n /\ RateLimit * stale[e] \in Nat
        BY <1>1, <1>5, <3>2, <4>1
      <4> HIDE DEF w, t, e, n
      <4>5. Knows(q, e, windows'[e], n, RateLimit * stale[e] + RateLimit)
        BY <1>1, <1>2, <2>6, <3>1, <4>3, <4>4, KnowsStale
      <4> QED BY <4>2, <4>5
    <3>3. CASE ~(t < newest)
      <4>1. n = t /\ stale' = stale
        BY <2>1, <3>3
      <4>2. Knows(passed, e, w[e], t, RateLimit * stale[e])
        BY <1>1, <1>6, <4>1
      <4>3. (w[e].count > 0 => t < w[e].start + RateWindow) /\ RateLimit * stale[e] \in Nat
        BY <1>1, <1>5
      <4> HIDE DEF w, t, e, n
      <4>4. Knows(q, e, windows'[e], t, RateLimit * stale[e])
        BY <1>1, <2>6, <3>1, <4>2, <4>3, KnowsPassed
      <4> QED BY <4>1, <4>4
    <3> QED BY <3>2, <3>3
  <2>8. ASSUME NEW d \in Device, d # e
        PROVE  Knows(q, d, windows'[d], n, RateLimit * stale'[d])
    <3>1. windows'[d] = w[d] /\ stale'[d] = stale[d] /\ w[d] \in [start : Nat, count : Nat]
      <4>0. Device \cap Address = {}
        BY LimiterAssumption
      <4>1. d \in Key /\ d # a
        BY <1>1, <4>0 DEF Key
      <4>2. windows'[d] = w[d]
        BY <2>1, <2>8, <4>1 DEF Counted
      <4>3. stale'[d] = stale[d]
        BY <1>0, <1>1, <2>1, <2>8 DEF LimiterTypeOK
      <4> HIDE DEF w
      <4> QED BY <1>3, <4>1, <4>2, <4>3
    <3>2. Knows(passed, d, w[d], n, RateLimit * stale[d]) /\ RateLimit * stale[d] \in Nat
      BY <1>5, <1>6
    <3> HIDE DEF w, t, e, n
    <3>3. Knows(q, d, w[d], n, RateLimit * stale[d])
      BY <1>1, <1>2, <2>6, <2>8, <3>1, <3>2, KnowsOther
    <3> QED BY <3>1, <3>3
  <2> HIDE DEF q, n
  <2> QED BY <1>2, <2>1, <2>5, <2>7, <2>8 DEF LimiterInv
<1> QED BY <1>7, <1>8

\* The invariant is inductive.
LEMMA LimiterStep == LimiterInv /\ [LimiterNext]_limiterVars => LimiterInv'
<1> SUFFICES ASSUME LimiterInv, [LimiterNext]_limiterVars PROVE LimiterInv'
  OBVIOUS
<1>0. LimiterTypeOK
  BY DEF LimiterInv
<1>1. ASSUME NEW c \in Caller, NEW a \in Address, NEW d \in Device, ReadClock(c, a, d)
      PROVE  LimiterInv'
  <2>1. [device |-> d, address |-> a, at |-> clock] \in Reading
    BY <1>0 DEF LimiterTypeOK, Reading
  <2>2. LimiterTypeOK'
    BY <1>0, <1>1, <2>1 DEF LimiterTypeOK, ReadClock
  <2> QED BY <1>1, <2>2 DEF ReadClock, LimiterInv
<1>2. ASSUME NEW c \in Caller, Allow(c) PROVE LimiterInv'
  BY <1>2, AllowInv
<1>3. CASE LimiterTick
  <2>1. LimiterTypeOK'
    BY <1>0, <1>3 DEF LimiterTypeOK, LimiterTick
  <2> QED BY <1>3, <2>1 DEF LimiterTick, LimiterInv
<1>4. CASE UNCHANGED limiterVars
  BY <1>4 DEF limiterVars, LimiterInv, LimiterTypeOK
<1> QED BY <1>1, <1>2, <1>3, <1>4 DEF LimiterNext

\* What every window says about the requests that have passed holds in every
\* reachable state, in whatever order the readings reach the limiter.
THEOREM LimiterInvariant == LimiterSpec => []LimiterInv
BY LimiterInvInit, LimiterStep, PTL DEF LimiterSpec

\* The limiter's promise: a machine gets at most 2 * RateLimit - 1 requests
\* through in a RateWindow, and RateLimit more for each of its requests that
\* passed with a clock reading older than one used before.
THEOREM RateBounded == LimiterSpec => []RateBound
<1>1. LimiterInv => RateBound
  <2> SUFFICES ASSUME LimiterInv, NEW d \in Device, NEW t \in 0 .. clock
               PROVE  Cardinality(PassedIn(d, t, t + RateWindow))
                        <= 2 * RateLimit - 1 + RateLimit * stale[d]
    BY DEF RateBound
  <2>1. t \in Int
    BY DEF LimiterInv, LimiterTypeOK
  <2>2. PassedIn(d, t, t + RateWindow) = During(passed, d, t)
    BY DEF PassedIn, During
  <2>3. AtMost(During(passed, d, t), 2 * RateLimit - 1 + RateLimit * stale[d])
    BY <2>1 DEF LimiterInv, Knows
  <2> QED BY <2>2, <2>3 DEF AtMost
<1> QED BY <1>1, LimiterInvariant, PTL

=============================================================================
