------------------------- MODULE NetworkUsageProofs -------------------------
(***************************************************************************)
(* Proofs about NetworkUsage for any number of days and workers, any       *)
(* length of a month and any counters: today's bytes are part of the       *)
(* month's, no byte is counted twice, and none is forgotten.               *)
(*                                                                         *)
(* The totals are sums over all days.  What a sum does when one day        *)
(* changes is shown by induction over the set of days, with the induction  *)
(* hypothesis given as a set.                                              *)
(***************************************************************************)
EXTENDS NetworkUsage, FiniteSetTheorems, WellFoundedInduction, TLAPS

-----------------------------------------------------------------------------
(* Induction, with sets in the place of predicates.                        *)

\* A set that holds 0 and, with a number, its successor holds every number.
LEMMA NatSetInduction ==
  ASSUME NEW G, 0 \in G, \A n \in Nat : n \in G => n + 1 \in G
  PROVE  \A n \in Nat : n \in G
<1> DEFINE R == {p \in Nat \X Nat : p[1] < p[2]}
           T == Nat \ G
<1>1. IsWellFoundedOn(R, Nat)
  BY NatLessThanWellFounded DEF OpToRel
<1>2. SUFFICES ASSUME T # {} PROVE FALSE
  OBVIOUS
<1>3. PICK x \in T : \A y \in T : ~(<<y, x>> \in R)
  <2> HIDE DEF R
  <2> QED BY <1>1, <1>2, WFMin
<1>4. x # 0 /\ x - 1 \in Nat
  OBVIOUS
<1>5. <<x - 1, x>> \in R
  BY <1>4
<1>6. x - 1 \in G
  BY <1>3, <1>4, <1>5
<1> QED BY <1>4, <1>6

\* The element that a fold over the set s takes first.
Pick(s) == CHOOSE y \in s : TRUE

\* A set that holds {} and, with what is left when its first element is taken,
\* a subset of S, holds S.
LEMMA SubsetInduction ==
  ASSUME NEW S, IsFiniteSet(S), NEW G, {} \in G,
         \A U \in SUBSET S : U # {} /\ U \ {Pick(U)} \in G => U \in G
  PROVE  S \in G
<1> DEFINE H == {n \in Nat : \A U \in SUBSET S : Cardinality(U) = n => U \in G}
<1>1. \A U \in SUBSET S : IsFiniteSet(U) /\ Cardinality(U) \in Nat
  BY FS_Subset, FS_CardinalityType
<1>2. 0 \in H
  BY <1>1, FS_EmptySet
<1>3. ASSUME NEW n \in Nat, n \in H
      PROVE  n + 1 \in H
  <2> SUFFICES ASSUME NEW U \in SUBSET S, Cardinality(U) = n + 1
               PROVE  U \in G
    OBVIOUS
  <2>1. U # {} /\ Pick(U) \in U
    BY FS_EmptySet DEF Pick
  <2>2. Cardinality(U \ {Pick(U)}) = n
    BY <1>1, <2>1, FS_RemoveElement
  <2>3. U \ {Pick(U)} \in G
    BY <1>3, <2>2
  <2> QED BY <2>1, <2>3
<1>4. \A n \in Nat : n \in H
  <2> HIDE DEF H
  <2> QED BY <1>2, <1>3, NatSetInduction
<1> QED BY <1>1, <1>4

-----------------------------------------------------------------------------
(* Sums over days.                                                         *)

\* g is the fold of the column x of L over the subsets of S.
SumEq(g, L, x, S) ==
  g = [s \in SUBSET S |->
         IF s = {} THEN 0 ELSE L[Pick(s)][x] + g[s \ {Pick(s)}]]
SumOf(L, x, S) == LET g == CHOOSE g : SumEq(g, L, x, S) IN g[S]

\* The recursion of the fold has a solution.
LEMMA SumExists ==
  ASSUME NEW S, IsFiniteSet(S), NEW L, NEW x, \A d \in S : L[d][x] \in Nat
  PROVE  \E g : SumEq(g, L, x, S)
<1> DEFINE Solves(g, n) ==
             \A s \in SUBSET S : Cardinality(s) <= n =>
               g[s] = IF s = {} THEN 0 ELSE L[Pick(s)][x] + g[s \ {Pick(s)}]
           H == {n \in Nat : \E g \in [SUBSET S -> Nat] : Solves(g, n)}
<1>1. /\ Cardinality({}) = 0
      /\ \A s \in SUBSET S :
           /\ Cardinality(s) \in Nat /\ (Cardinality(s) = 0 <=> s = {})
           /\ s # {} => /\ Pick(s) \in s
                        /\ s \ {Pick(s)} \in SUBSET S
                        /\ Cardinality(s \ {Pick(s)}) = Cardinality(s) - 1
  <2>1. \A s \in SUBSET S : IsFiniteSet(s) /\ Cardinality(s) \in Nat
    BY FS_Subset, FS_CardinalityType
  <2>2. \A s \in SUBSET S : s # {} => Pick(s) \in s
    BY DEF Pick
  <2> QED BY <2>1, <2>2, FS_EmptySet, FS_RemoveElement
<1>2. 0 \in H
  <2> DEFINE g == [s \in SUBSET S |-> 0]
  <2>1. g \in [SUBSET S -> Nat]
    OBVIOUS
  <2>2. ASSUME NEW s \in SUBSET S, Cardinality(s) <= 0
        PROVE  s = {} /\ g[s] = 0
    <3>1. Cardinality(s) \in Nat /\ (Cardinality(s) = 0 <=> s = {})
      BY <1>1
    <3>2. Cardinality(s) = 0
      BY <2>2, <3>1
    <3> QED BY <3>1, <3>2
  <2>3. Solves(g, 0)
    BY <2>2
  <2> QED BY <2>1, <2>3
<1>3. ASSUME NEW n \in Nat, n \in H
      PROVE  n + 1 \in H
  <2>1. PICK g \in [SUBSET S -> Nat] : Solves(g, n)
    BY <1>3
  <2> DEFINE k == [s \in SUBSET S |-> IF Cardinality(s) = n + 1
                                      THEN L[Pick(s)][x] + g[s \ {Pick(s)}]
                                      ELSE g[s]]
  <2>2. ASSUME NEW s \in SUBSET S
        PROVE  k[s] \in Nat
    <3>1. CASE Cardinality(s) = n + 1
      <4>1. s # {} /\ Pick(s) \in S /\ s \ {Pick(s)} \in SUBSET S
        BY <1>1, <3>1
      <4>2. L[Pick(s)][x] \in Nat /\ g[s \ {Pick(s)}] \in Nat
        BY <4>1
      <4> QED BY <3>1, <4>2
    <3>2. CASE Cardinality(s) # n + 1
      BY <3>2
    <3> QED BY <3>1, <3>2
  <2>3. k \in [SUBSET S -> Nat]
    BY <2>2
  <2>4. ASSUME NEW s \in SUBSET S, Cardinality(s) <= n + 1
        PROVE  k[s] = IF s = {} THEN 0 ELSE L[Pick(s)][x] + k[s \ {Pick(s)}]
    <3>1. CASE s = {}
      BY <1>1, <2>1, <3>1
    <3>2. CASE s # {} /\ Cardinality(s) = n + 1
      <4>1. Cardinality(s \ {Pick(s)}) = n /\ s \ {Pick(s)} \in SUBSET S
        BY <1>1, <3>2
      <4>2. Cardinality(s \ {Pick(s)}) # n + 1
        BY <4>1
      <4>3. k[s \ {Pick(s)}] = g[s \ {Pick(s)}]
        BY <4>1, <4>2
      <4> QED BY <3>2, <4>3
    <3>3. CASE s # {} /\ Cardinality(s) # n + 1
      <4> DEFINE c == Cardinality(s)
                 t == s \ {Pick(s)}
      <4>0. c \in Nat /\ c <= n + 1 /\ c # n + 1 /\ t \in SUBSET S /\ Cardinality(t) = c - 1
        BY <1>1, <2>4, <3>3
      <4> HIDE DEF c, t
      <4>1. c <= n /\ Cardinality(t) # n + 1
        BY <4>0
      <4> USE DEF c, t
      <4>2. k[s] = g[s] /\ k[s \ {Pick(s)}] = g[s \ {Pick(s)}]
        BY <4>0, <4>1, <3>3
      <4> QED BY <2>1, <3>3, <4>1, <4>2
    <3> QED BY <3>1, <3>2, <3>3
  <2> HIDE DEF k
  <2>5. Solves(k, n + 1)
    BY <2>4
  <2> HIDE DEF Solves
  <2>6. n + 1 \in Nat /\ \E j \in [SUBSET S -> Nat] : Solves(j, n + 1)
    BY <2>3, <2>5
  <2> QED BY <2>6
<1>4. \A n \in Nat : n \in H
  <2> HIDE DEF H
  <2> QED BY <1>2, <1>3, NatSetInduction
<1>5. PICK g \in [SUBSET S -> Nat] : Solves(g, Cardinality(S))
  BY <1>1, <1>4
<1>6. \A s \in SUBSET S : Cardinality(s) <= Cardinality(S)
  BY FS_Subset
<1>7. SumEq(g, L, x, S)
  BY <1>5, <1>6 DEF SumEq
<1> QED BY <1>7

\* g computes the sum, one element after the other.
IsFold(g, L, x, S) ==
  /\ g \in [SUBSET S -> Nat] /\ SumOf(L, x, S) = g[S] /\ g[{}] = 0
  /\ \A s \in SUBSET S : s # {} => g[s] = L[Pick(s)][x] + g[s \ {Pick(s)}]

\* The sum of natural numbers is one, and there is a fold that computes it.
LEMMA SumFold ==
  ASSUME NEW S, IsFiniteSet(S), NEW L, NEW x, \A d \in S : L[d][x] \in Nat
  PROVE  \E g : IsFold(g, L, x, S)
<1> DEFINE g == CHOOSE g : SumEq(g, L, x, S)
<1>1. SumEq(g, L, x, S)
  BY SumExists
<1>2. SumOf(L, x, S) = g[S]
  BY DEF SumOf
<1> HIDE DEF g
<1>3. /\ g[{}] = 0 /\ DOMAIN g = SUBSET S /\ g = [s \in SUBSET S |-> g[s]]
      /\ \A s \in SUBSET S : s # {} => g[s] = L[Pick(s)][x] + g[s \ {Pick(s)}]
  BY <1>1 DEF SumEq
<1>4. ASSUME NEW U \in SUBSET S
      PROVE  g[U] \in Nat
  <2> DEFINE G == {s \in SUBSET S : g[s] \in Nat}
  <2>1. {} \in G
    BY <1>3
  <2>2. ASSUME NEW s \in SUBSET U, s # {}, s \ {Pick(s)} \in G
        PROVE  s \in G
    <3>1. Pick(s) \in S /\ L[Pick(s)][x] \in Nat
      BY <2>2 DEF Pick
    <3>2. g[s] = L[Pick(s)][x] + g[s \ {Pick(s)}] /\ g[s \ {Pick(s)}] \in Nat
      BY <1>3, <2>2
    <3> QED BY <3>1, <3>2
  <2>3. IsFiniteSet(U)
    BY FS_Subset
  <2>4. U \in G
    <3> HIDE DEF G
    <3> QED BY <2>1, <2>2, <2>3, SubsetInduction
  <2> QED BY <2>4
<1>5. g \in [SUBSET S -> Nat]
  BY <1>3, <1>4
<1>6. IsFold(g, L, x, S)
  BY <1>2, <1>3, <1>5 DEF IsFold
<1> QED BY <1>6

\* L and M agree in column x everywhere in S but at e.
DiffersAt(L, M, x, S, e) ==
  /\ IsFiniteSet(S) /\ e \in S
  /\ \A d \in S : L[d][x] \in Nat /\ M[d][x] \in Nat
  /\ \A d \in S : d # e => M[d][x] = L[d][x]

SumChanges(L, M, x, S, e) ==
  SumOf(M, x, S) = SumOf(L, x, S) + (M[e][x] - L[e][x])

\* When one element changes, the sum changes by as much.
LEMMA SumChange ==
  ASSUME NEW S, NEW L, NEW M, NEW x, NEW e, DiffersAt(L, M, x, S, e)
  PROVE  SumChanges(L, M, x, S, e)
<1> USE DEF DiffersAt, SumChanges
<1>0. (\A d \in S : L[d][x] \in Nat) /\ (\A d \in S : M[d][x] \in Nat)
  OBVIOUS
<1>1. PICK g : IsFold(g, L, x, S)
  BY <1>0, SumFold
<1>2. PICK h : IsFold(h, M, x, S)
  BY <1>0, SumFold
<1> DEFINE G == {s \in SUBSET S :
                   h[s] = g[s] + (IF e \in s THEN M[e][x] - L[e][x] ELSE 0)}
<1>3. {} \in G
  BY <1>1, <1>2 DEF IsFold
<1>4. ASSUME NEW s \in SUBSET S, s # {}, s \ {Pick(s)} \in G
      PROVE  s \in G
  <2> DEFINE p == Pick(s)
             t == s \ {p}
  <2>1. p \in s /\ p \in S /\ t \in SUBSET S
    BY <1>4 DEF Pick
  <2> HIDE DEF p
  <2>2. g[s] = L[p][x] + g[t] /\ h[s] = M[p][x] + h[t]
    BY <1>1, <1>2, <1>4 DEF p, IsFold
  <2>3. h[t] = g[t] + (IF e \in t THEN M[e][x] - L[e][x] ELSE 0)
    BY <1>4 DEF p
  <2>4. /\ g[s] \in Nat /\ h[s] \in Nat /\ g[t] \in Nat /\ h[t] \in Nat
        /\ L[p][x] \in Nat /\ M[p][x] \in Nat /\ L[e][x] \in Nat /\ M[e][x] \in Nat
    BY <1>1, <1>2, <2>1 DEF IsFold
  <2>5. CASE p = e
    <3>1. e \notin t /\ e \in s
      BY <2>1, <2>5
    <3>2. h[s] = g[s] + (M[e][x] - L[e][x])
      BY <2>2, <2>3, <2>4, <2>5, <3>1
    <3> QED BY <3>1, <3>2
  <2>6. CASE p # e
    <3>1. M[p][x] = L[p][x] /\ (e \in t <=> e \in s)
      BY <2>1, <2>6
    <3>2. h[s] = g[s] + (IF e \in s THEN M[e][x] - L[e][x] ELSE 0)
      BY <2>2, <2>3, <2>4, <3>1
    <3> QED BY <3>2
  <2> QED BY <2>5, <2>6
<1>5. S \in G
  <2> HIDE DEF G
  <2> QED BY <1>3, <1>4, SubsetInduction
<1> QED BY <1>1, <1>2, <1>5 DEF IsFold

\* The sum of nothing is nothing.
LEMMA SumZero ==
  ASSUME NEW S, IsFiniteSet(S), NEW L, NEW x, \A d \in S : L[d][x] = 0
  PROVE  SumOf(L, x, S) = 0
<1>0. \A d \in S : L[d][x] \in Nat
  OBVIOUS
<1>1. PICK g : IsFold(g, L, x, S)
  BY <1>0, SumFold
<1> DEFINE G == {s \in SUBSET S : g[s] = 0}
<1>2. {} \in G
  BY <1>1 DEF IsFold
<1>3. ASSUME NEW s \in SUBSET S, s # {}, s \ {Pick(s)} \in G
      PROVE  s \in G
  <2>1. Pick(s) \in S
    BY <1>3 DEF Pick
  <2> QED BY <1>1, <1>3, <2>1 DEF IsFold
<1>4. S \in G
  <2> HIDE DEF G
  <2> QED BY <1>2, <1>3, SubsetInduction
<1> QED BY <1>1, <1>4 DEF IsFold

-----------------------------------------------------------------------------
(* The inductive invariant.                                                *)

\* What an account is judged by: the clock, the counters, the bytes that may be
\* counted, and whether checkpoints have been in order so far.
Limit == Plus(moved, back)
Env == [day |-> day, counter |-> counter, limit |-> Limit, raced |-> raced, clean |-> clean]
EnvType == [day : Day, counter : Counter, limit : Counter, raced : BOOLEAN, clean : BOOLEAN]

Sum(s, x) == SumOf(s.ledger, x, Day)
DaysOfMonth(d) == {e \in Day : Month(e) = Month(d)}

\* A state is the zero value or one that a sample has written.
Written(s) ==
  /\ s = Fresh \/ (s.init /\ s.day \in Day /\ s.ledger[s.day] = s.today)
  /\ \A x \in Dir : s.today[x] <= s.month[x]

\* The totals, and the totals with what the counters have grown by since, are
\* covered by bytes that may be counted.
Covered(s, E) ==
  \A x \in Dir :
    /\ Sum(s, x) <= E.limit[x]
    /\ s.init => Sum(s, x) + (E.counter[x] - s.prev[x]) <= E.limit[x]

\* The totals are exactly what the counters grew by since the first sample, none
\* of it after the day of the state, and the month's is the sum of its days.
Complete(s, E) ==
  s.init =>
    /\ s.day <= E.day
    /\ \A d \in Day : d > s.day => s.ledger[d] = Zero
    /\ \A x \in Dir :
         /\ s.prev[x] <= E.counter[x]
         /\ Sum(s, x) = s.prev[x] - s.first[x]
         /\ s.month[x] = SumOf(s.ledger, x, DaysOfMonth(s.day))

AccountOK(s, E) ==
  /\ Written(s)
  /\ ~E.raced => Covered(s, E)
  /\ E.clean => Complete(s, E)

\* The counters c, read on day e, may still be accounted for on top of s: neither
\* what the sample would add nor what the next one could add is beyond the limit.
ReadingCovered(s, c, E) ==
  \A x \in Dir :
    /\ Sum(s, x) + (E.counter[x] - c[x]) <= E.limit[x]
    /\ s.init => Sum(s, x) + (c[x] - s.prev[x]) <= E.limit[x]

\* The reading is not older than s.
ReadingInOrder(s, c, e, E) ==
  /\ e <= E.day /\ \A x \in Dir : c[x] <= E.counter[x]
  /\ s.init => s.day <= e /\ \A x \in Dir : s.prev[x] <= c[x]

ReadingOK(s, c, e, E) ==
  /\ ~E.raced => ReadingCovered(s, c, E)
  /\ E.clean => ReadingInOrder(s, c, e, E)

\* The states that a sampler p may account its reading on, when the checkpoint
\* is f.
Bases(p, f) == IF p.loaded THEN {p.state} ELSE {f, Fresh}

SamplerOK(p, f, E) ==
  /\ AccountOK(p.state, E)
  /\ ~p.loaded => p.state = Fresh
  /\ p.pc = "read" => /\ p.on \in Day
                      /\ \A s \in Bases(p, f) : ReadingOK(s, p.at, p.on, E)

UsageInv ==
  /\ TypeOK /\ (clean => ~raced)
  /\ AccountOK(file, Env)
  /\ \A w \in Worker : SamplerOK(sampler[w], file, Env)

-----------------------------------------------------------------------------
(* A sample, on a state s.                                                 *)

\* Days are natural numbers and months go with them.
LEMMA DayLemma ==
  /\ Day \subseteq Nat /\ NoDay \notin Day /\ 0 \in Day /\ IsFiniteSet(Day)
  /\ \A d \in Day : Month(d) = d \div DaysPerMonth /\ Month(d) \in Nat
  /\ \A d, e \in Day : d <= e => Month(d) <= Month(e)
<1>1. Day \subseteq Nat /\ NoDay \notin Day /\ 0 \in Day
  BY UsageAssumption DEF Day, NoDay
<1>2. IsFiniteSet(Day)
  BY UsageAssumption, FS_Interval DEF Day
<1>3. ASSUME NEW d \in Day
      PROVE  Month(d) = d \div DaysPerMonth /\ Month(d) \in Nat
  BY <1>1, UsageAssumption DEF Month
<1>4. ASSUME NEW a \in Nat, NEW b \in Nat, NEW k \in Nat \ {0}, a <= b
      PROVE  a \div k <= b \div k
  BY <1>4
<1> QED BY <1>1, <1>2, <1>3, <1>4, UsageAssumption

\* The zero values.
LEMMA ZeroLemma ==
  /\ Zero \in Counter /\ \A x \in Dir : Zero[x] = 0
  /\ Fresh \in State /\ ~Fresh.init /\ Fresh.day = NoDay
  /\ Fresh.ledger = [d \in Day |-> Zero]
  /\ \A x \in Dir : Fresh.today[x] = 0 /\ Fresh.month[x] = 0
BY DEF Zero, Counter, Fresh, State

\* What the fields of a state are.
LEMMA StateLemma ==
  ASSUME NEW s \in State, NEW x \in Dir
  PROVE  /\ s.prev[x] \in Nat /\ s.first[x] \in Nat
         /\ s.today[x] \in Nat /\ s.month[x] \in Nat
         /\ s.ledger \in [Day -> Counter] /\ \A d \in Day : s.ledger[d][x] \in Nat
         /\ \A S \in SUBSET Day : SumOf(s.ledger, x, S) \in Nat
         /\ Sum(s, x) \in Nat
<1>1. s.ledger \in [Day -> Counter] /\ \A d \in Day : s.ledger[d][x] \in Nat
  BY DEF State, Counter
<1>2. ASSUME NEW S \in SUBSET Day
      PROVE  SumOf(s.ledger, x, S) \in Nat
  <2>1. IsFiniteSet(S) /\ \A d \in S : s.ledger[d][x] \in Nat
    BY <1>1, DayLemma, FS_Subset
  <2>2. PICK g : IsFold(g, s.ledger, x, S)
    BY <2>1, SumFold
  <2> QED BY <2>2 DEF IsFold
<1>3. Sum(s, x) \in Nat
  BY <1>2 DEF Sum
<1>4. s.prev[x] \in Nat /\ s.first[x] \in Nat /\ s.today[x] \in Nat /\ s.month[x] \in Nat
  BY DEF State, Counter
<1> QED BY <1>1, <1>2, <1>3, <1>4

\* The bytes that a sample of c adds to s.
Added(s, c) == Increase(s, c)

\* They are what the counters have grown by, or nothing.
LEMMA AddedLemma ==
  ASSUME NEW s \in State, NEW c \in Counter
  PROVE  /\ Added(s, c) \in Counter
         /\ \A x \in Dir : Added(s, c)[x] = 0 \/ (s.init /\ Added(s, c)[x] = c[x] - s.prev[x])
         /\ s.init /\ (\A x \in Dir : s.prev[x] <= c[x]) =>
              \A x \in Dir : Added(s, c)[x] = c[x] - s.prev[x]
<1>1. \A x \in Dir : c[x] \in Nat /\ s.prev[x] \in Nat
  BY StateLemma DEF Counter
<1>2. CASE s.init /\ \A x \in Dir : c[x] >= s.prev[x]
  <2>1. Added(s, c) = [x \in Dir |-> c[x] - s.prev[x]]
    BY <1>2 DEF Added, Increase
  <2>2. \A x \in Dir : Added(s, c)[x] = c[x] - s.prev[x] /\ Added(s, c)[x] \in Nat
    BY <1>1, <1>2, <2>1
  <2>3. Added(s, c) \in Counter
    BY <2>1, <2>2 DEF Counter
  <2> QED BY <1>2, <2>2, <2>3
<1>3. CASE ~(s.init /\ \A x \in Dir : c[x] >= s.prev[x])
  <2>1. Added(s, c) = Zero
    BY <1>3 DEF Added, Increase
  <2>2. ~(s.init /\ \A x \in Dir : s.prev[x] <= c[x])
    BY <1>1, <1>3
  <2> QED BY <2>1, <2>2, ZeroLemma
<1> QED BY <1>2, <1>3

\* t is s after a sample of c on day d.
IsSampled(t, s, c, d) ==
  /\ t \in State /\ t.init /\ t.day = d /\ t.prev = c
  /\ t.first = IF s.init THEN s.first ELSE c
  /\ t.ledger = [s.ledger EXCEPT ![d] = t.today]
  /\ \A x \in Dir :
       /\ t.today[x] = (IF s.day = d THEN s.today[x] ELSE 0) + Added(s, c)[x]
       /\ t.month[x] = (IF Month(s.day) = Month(d) THEN s.month[x] ELSE 0) + Added(s, c)[x]

\* Sampled turns the periods first and adds then.
LEMMA SampledLemma ==
  ASSUME NEW s \in State, NEW c \in Counter, NEW d \in Day
  PROVE  IsSampled(Sampled(s, c, d), s, c, d)
<1> DEFINE r == RollPeriod(s, d)
           a == Added(s, c)
           t == Sampled(s, c, d)
<1>1. /\ r \in State /\ r.init = s.init /\ r.prev = s.prev
      /\ r.today = (IF s.day # d THEN Zero ELSE s.today)
      /\ r.month = (IF Month(s.day) # Month(d) THEN Zero ELSE s.month)
  BY ZeroLemma DEF RollPeriod, State
<1>2. Increase(r, c) = a
  BY <1>1 DEF Increase, Added
<1>3. t = [init |-> TRUE, day |-> d, today |-> Plus(r.today, a), month |-> Plus(r.month, a),
           prev |-> c, first |-> IF s.init THEN s.first ELSE c,
           ledger |-> [s.ledger EXCEPT ![d] = Plus(r.today, a)]]
  BY <1>2 DEF Sampled
<1> HIDE DEF r, a, t
<1>4. a \in Counter
  BY AddedLemma DEF a
<1>5. /\ r.today \in Counter /\ r.month \in Counter
      /\ \A x \in Dir : r.today[x] \in Nat /\ r.month[x] \in Nat /\ a[x] \in Nat
  BY <1>1, <1>4 DEF State, Counter
<1>6. /\ Plus(r.today, a) \in Counter /\ Plus(r.month, a) \in Counter
      /\ \A x \in Dir : /\ Plus(r.today, a)[x] = r.today[x] + a[x]
                        /\ Plus(r.month, a)[x] = r.month[x] + a[x]
  BY <1>5 DEF Plus, Counter
<1>7. /\ (IF s.init THEN s.first ELSE c) \in Counter
      /\ [s.ledger EXCEPT ![d] = Plus(r.today, a)] \in [Day -> Counter]
  BY <1>6 DEF State
<1>8. /\ t \in State /\ t.init /\ t.day = d /\ t.prev = c
      /\ t.first = (IF s.init THEN s.first ELSE c)
      /\ t.today = Plus(r.today, a) /\ t.month = Plus(r.month, a)
      /\ t.ledger = [s.ledger EXCEPT ![d] = t.today]
  BY <1>3, <1>6, <1>7 DEF State
<1>9. ASSUME NEW x \in Dir
      PROVE  /\ t.today[x] = (IF s.day = d THEN s.today[x] ELSE 0) + a[x]
             /\ t.month[x] = (IF Month(s.day) = Month(d) THEN s.month[x] ELSE 0) + a[x]
  <2>1. /\ r.today[x] = IF s.day = d THEN s.today[x] ELSE 0
        /\ r.month[x] = IF Month(s.day) = Month(d) THEN s.month[x] ELSE 0
    BY <1>1, ZeroLemma
  <2> QED BY <1>6, <1>8, <2>1
<1>10. IsSampled(t, s, c, d)
  BY <1>8, <1>9 DEF IsSampled, a
<1> QED BY <1>10 DEF t

\* A ledger's total changes by what one of its entries changes by.
LEMMA SumUpdate ==
  ASSUME NEW S \in SUBSET Day, NEW x \in Dir, NEW L \in [Day -> Counter], NEW T \in Counter,
         NEW d \in S, NEW M, M = [L EXCEPT ![d] = T]
  PROVE  SumOf(M, x, S) = SumOf(L, x, S) + (T[x] - L[d][x])
<1>1. IsFiniteSet(S)
  BY DayLemma, FS_Subset
<1>2. \A e \in S : L[e] \in Counter /\ M[e] \in Counter
  OBVIOUS
<1>3. \A e \in S : L[e][x] \in Nat /\ M[e][x] \in Nat
  BY <1>2 DEF Counter
<1>4. M[d] = T /\ \A e \in S : e # d => M[e] = L[e]
  OBVIOUS
<1>5. \A e \in S : e # d => M[e][x] = L[e][x]
  BY <1>4
<1>6. DiffersAt(L, M, x, S, d)
  BY <1>1, <1>3, <1>5 DEF DiffersAt
<1>7. SumChanges(L, M, x, S, d)
  BY <1>6, SumChange
<1> QED BY <1>4, <1>7 DEF SumChanges

\* Only the entry of the day changes, so that is what the totals change by.
LEMMA SampledSums ==
  ASSUME NEW s \in State, NEW c \in Counter, NEW d \in Day, NEW t, IsSampled(t, s, c, d),
         NEW x \in Dir, NEW S \in SUBSET Day, d \in S
  PROVE  SumOf(t.ledger, x, S) = SumOf(s.ledger, x, S) + (t.today[x] - s.ledger[d][x])
<1>1. /\ t.ledger = [s.ledger EXCEPT ![d] = t.today]
      /\ s.ledger \in [Day -> Counter] /\ t.today \in Counter
  BY DEF IsSampled, State
<1> DEFINE L == s.ledger
           M == t.ledger
           T == t.today
<1> HIDE DEF L, M, T
<1>2. L \in [Day -> Counter] /\ T \in Counter /\ M = [L EXCEPT ![d] = T]
  BY <1>1 DEF L, M, T
<1>3. SumOf(M, x, S) = SumOf(L, x, S) + (T[x] - L[d][x])
  BY <1>2, SumUpdate
<1> QED BY <1>3 DEF L, M, T

\* A sample keeps today's bytes part of the month's.
LEMMA SampledWritten ==
  ASSUME NEW s \in State, Written(s), NEW c \in Counter, NEW d \in Day,
         NEW t, IsSampled(t, s, c, d)
  PROVE  Written(t)
<1>1. t \in State /\ t.init /\ t.day = d /\ t.ledger = [s.ledger EXCEPT ![d] = t.today]
  BY DEF IsSampled
<1>2. t.ledger[t.day] = t.today
  BY <1>1, StateLemma DEF State
<1>3. ASSUME NEW x \in Dir
      PROVE  t.today[x] <= t.month[x]
  <2>1. /\ t.today[x] = (IF s.day = d THEN s.today[x] ELSE 0) + Added(s, c)[x]
        /\ t.month[x] = (IF Month(s.day) = Month(d) THEN s.month[x] ELSE 0) + Added(s, c)[x]
    BY DEF IsSampled
  <2>2. Added(s, c)[x] \in Nat /\ s.today[x] \in Nat /\ s.month[x] \in Nat
    BY AddedLemma, StateLemma DEF Counter
  <2>3. s.today[x] <= s.month[x]
    BY DEF Written
  <2> QED BY <2>1, <2>2, <2>3
<1> QED BY <1>1, <1>2, <1>3 DEF Written

\* A sample stays within the limit, and so does the one after it.
LEMMA SampledCovered ==
  ASSUME NEW E \in EnvType, NEW s \in State, Written(s), NEW c \in Counter, NEW d \in Day,
         Covered(s, E), ReadingCovered(s, c, E), NEW t, IsSampled(t, s, c, d)
  PROVE  Covered(t, E)
<1> SUFFICES ASSUME NEW x \in Dir
             PROVE  /\ Sum(t, x) <= E.limit[x]
                    /\ Sum(t, x) + (E.counter[x] - t.prev[x]) <= E.limit[x]
  BY DEF Covered
<1> DEFINE old == Sum(s, x)
           new == Sum(t, x)
           add == Added(s, c)[x]
           lim == E.limit[x]
           cnt == E.counter[x]
<1>1. t \in State /\ t.prev = c
  BY DEF IsSampled
<1>2. old \in Nat /\ new \in Nat /\ add \in Nat /\ lim \in Nat /\ cnt \in Nat /\ c[x] \in Nat
  BY <1>1, StateLemma, AddedLemma DEF Counter, EnvType
<1>3. /\ s.prev[x] \in Nat /\ s.today[x] \in Nat /\ s.ledger[d][x] \in Nat /\ t.today[x] \in Nat
  BY <1>1, StateLemma
<1>4. new = old + (t.today[x] - s.ledger[d][x])
  BY SampledSums DEF Sum
<1>5. t.today[x] = (IF s.day = d THEN s.today[x] ELSE 0) + add
  BY DEF IsSampled
<1>6. s.day = d => s.today[x] = s.ledger[d][x]
  BY ZeroLemma, DayLemma DEF Written
<1>7. add = 0 \/ (s.init /\ add = c[x] - s.prev[x])
  BY AddedLemma
<1>8. /\ old <= lim /\ old + (cnt - c[x]) <= lim
      /\ s.init => old + (cnt - s.prev[x]) <= lim /\ old + (c[x] - s.prev[x]) <= lim
  BY DEF Covered, ReadingCovered
<1> HIDE DEF old, new, add, lim, cnt
<1>9. new <= old + add
  BY <1>2, <1>3, <1>4, <1>5, <1>6
<1>10. old + add <= lim /\ old + add + (cnt - c[x]) <= lim
  BY <1>2, <1>3, <1>7, <1>8
<1>11. new <= lim /\ new + (cnt - c[x]) <= lim
  BY <1>2, <1>9, <1>10
<1> QED BY <1>1, <1>11 DEF new, lim, cnt

\* The first sample of an account has counted nothing yet.
LEMMA SampledFirst ==
  ASSUME NEW E \in EnvType, NEW s \in State, Written(s), ~s.init, NEW c \in Counter,
         NEW d \in Day, ReadingInOrder(s, c, d, E), NEW t, IsSampled(t, s, c, d)
  PROVE  Complete(t, E)
<1>1. /\ t \in State /\ t.day = d /\ t.prev = c /\ t.first = c
      /\ t.ledger = [s.ledger EXCEPT ![d] = t.today]
  BY DEF IsSampled
<1>2. s = Fresh /\ s.ledger = [e \in Day |-> Zero] /\ s.day = NoDay
  BY ZeroLemma DEF Written
<1>3. ASSUME NEW x \in Dir PROVE t.today[x] = 0 /\ t.month[x] = 0
  <2>1. s.day # d /\ Month(s.day) # Month(d)
    BY <1>2, DayLemma DEF Month, NoDay
  <2>2. Added(s, c)[x] = 0
    BY AddedLemma
  <2> QED BY <2>1, <2>2 DEF IsSampled
<1>4. ASSUME NEW e \in Day, e > d PROVE t.ledger[e] = Zero
  <2>1. e # d
    BY <1>4, DayLemma
  <2> QED BY <1>1, <1>2, <2>1
<1>5. ASSUME NEW x \in Dir, NEW S \in SUBSET Day, d \in S
      PROVE  SumOf(t.ledger, x, S) = 0
  <2>1. IsFiniteSet(S) /\ \A e \in S : s.ledger[e][x] = 0
    BY <1>2, ZeroLemma, DayLemma, FS_Subset
  <2>2. SumOf(s.ledger, x, S) = 0 /\ s.ledger[d][x] = 0
    BY <1>5, <2>1, SumZero
  <2>3. SumOf(t.ledger, x, S) = SumOf(s.ledger, x, S) + (t.today[x] - s.ledger[d][x])
    BY <1>5, SampledSums
  <2> QED BY <1>3, <2>2, <2>3
<1>6. DaysOfMonth(d) \in SUBSET Day /\ d \in DaysOfMonth(d)
  BY DEF DaysOfMonth
<1>7. ASSUME NEW x \in Dir
      PROVE  /\ c[x] <= E.counter[x] /\ Sum(t, x) = c[x] - c[x]
             /\ t.month[x] = SumOf(t.ledger, x, DaysOfMonth(d))
  <2>1. c[x] \in Nat /\ c[x] <= E.counter[x]
    BY DEF Counter, ReadingInOrder
  <2>2. Sum(t, x) = 0 /\ SumOf(t.ledger, x, DaysOfMonth(d)) = 0
    BY <1>5, <1>6 DEF Sum
  <2> QED BY <1>3, <2>1, <2>2
<1>8. d <= E.day
  BY DEF ReadingInOrder
<1> QED BY <1>1, <1>4, <1>7, <1>8 DEF Complete

\* The days of a month that s has not reached are empty.
LEMMA MonthAhead ==
  ASSUME NEW s \in State, NEW d \in Day, s.day \in Day, s.day <= d, Month(s.day) # Month(d),
         \A e \in Day : e > s.day => s.ledger[e] = Zero, NEW x \in Dir
  PROVE  SumOf(s.ledger, x, DaysOfMonth(d)) = 0
<1>1. ASSUME NEW e \in DaysOfMonth(d) PROVE s.ledger[e][x] = 0
  <2>1. e \in Day /\ Month(e) = Month(d)
    BY DEF DaysOfMonth
  <2>2. Month(s.day) <= Month(d)
    BY DayLemma
  <2>3. ~(e <= s.day)
    <3> SUFFICES ASSUME e <= s.day PROVE FALSE
      OBVIOUS
    <3>1. Month(e) <= Month(s.day)
      BY <2>1, DayLemma
    <3>2. Month(e) \in Nat /\ Month(s.day) \in Nat /\ Month(d) \in Nat
      BY <2>1, DayLemma
    <3> QED BY <2>1, <2>2, <3>1, <3>2
  <2>4. e > s.day
    <3>1. e \in Nat /\ s.day \in Nat
      BY <2>1, DayLemma
    <3> QED BY <2>3, <3>1
  <2> QED BY <2>1, <2>4, ZeroLemma
<1>2. IsFiniteSet(DaysOfMonth(d))
  BY DayLemma, FS_Subset DEF DaysOfMonth
<1> QED BY <1>1, <1>2, SumZero

\* A later one adds what the counters have grown by to the day, to the month and
\* to the total.
LEMMA SampledLater ==
  ASSUME NEW E \in EnvType, NEW s \in State, Written(s), s.init, NEW c \in Counter,
         NEW d \in Day, Complete(s, E), ReadingInOrder(s, c, d, E),
         NEW t, IsSampled(t, s, c, d)
  PROVE  Complete(t, E)
<1>1. /\ t \in State /\ t.day = d /\ t.prev = c /\ t.first = s.first
      /\ t.ledger = [s.ledger EXCEPT ![d] = t.today]
  BY DEF IsSampled
<1>2. /\ s.day \in Day /\ s.ledger[s.day] = s.today /\ s.day <= d /\ d <= E.day
      /\ \A e \in Day : e > s.day => s.ledger[e] = Zero
  BY ZeroLemma DEF Written, Complete, ReadingInOrder
<1>3. s.day \in Nat /\ d \in Nat
  BY <1>2, DayLemma
<1>4. ASSUME NEW e \in Day, e > d PROVE t.ledger[e] = Zero
  <2>1. e \in Nat
    BY DayLemma
  <2>2. e # d /\ e > s.day
    BY <1>2, <1>3, <1>4, <2>1
  <2>3. s.ledger \in [Day -> Counter]
    BY DEF State
  <2> QED BY <1>1, <1>2, <2>2, <2>3
<1>5. DaysOfMonth(d) \in SUBSET Day /\ d \in DaysOfMonth(d)
  BY DEF DaysOfMonth
<1>6. ASSUME NEW x \in Dir
      PROVE  /\ c[x] <= E.counter[x] /\ Sum(t, x) = c[x] - s.first[x]
             /\ t.month[x] = SumOf(t.ledger, x, DaysOfMonth(d))
  <2> DEFINE add == Added(s, c)[x]
             led == s.ledger[d][x]
             old == Sum(s, x)
             mon == SumOf(s.ledger, x, DaysOfMonth(d))
  <2>1. /\ c[x] \in Nat /\ s.prev[x] \in Nat /\ s.today[x] \in Nat /\ s.month[x] \in Nat
        /\ s.first[x] \in Nat /\ led \in Nat /\ old \in Nat /\ mon \in Nat
    BY <1>5, StateLemma DEF Counter
  <2>2. /\ c[x] <= E.counter[x] /\ old = s.prev[x] - s.first[x]
        /\ s.month[x] = SumOf(s.ledger, x, DaysOfMonth(s.day))
    BY DEF Complete, ReadingInOrder
  <2>3. add = c[x] - s.prev[x]
    BY AddedLemma DEF ReadingInOrder
  <2>4. /\ t.today[x] = (IF s.day = d THEN s.today[x] ELSE 0) + add
        /\ t.month[x] = (IF Month(s.day) = Month(d) THEN s.month[x] ELSE 0) + add
    BY DEF IsSampled
  <2>5. led = IF s.day = d THEN s.today[x] ELSE 0
    <3>1. CASE s.day = d
      BY <1>2, <3>1
    <3>2. CASE s.day # d
      <4>1. d > s.day
        BY <1>2, <1>3, <3>2
      <4> QED BY <1>2, <3>2, <4>1, ZeroLemma
    <3> QED BY <3>1, <3>2
  <2>6. mon = IF Month(s.day) = Month(d) THEN s.month[x] ELSE 0
    <3>1. CASE Month(s.day) = Month(d)
      BY <2>2, <3>1 DEF DaysOfMonth
    <3>2. CASE Month(s.day) # Month(d)
      BY <1>2, <3>2, MonthAhead
    <3> QED BY <3>1, <3>2
  <2>7. /\ Sum(t, x) = old + (t.today[x] - led)
        /\ SumOf(t.ledger, x, DaysOfMonth(d)) = mon + (t.today[x] - led)
    BY <1>5, SampledSums DEF Sum
  <2> HIDE DEF add, led, old, mon
  <2>8. t.today[x] - led = add
    BY <2>1, <2>3, <2>4, <2>5
  <2>9. Sum(t, x) = c[x] - s.first[x]
    BY <2>1, <2>2, <2>3, <2>7, <2>8
  <2>10. t.month[x] = SumOf(t.ledger, x, DaysOfMonth(d))
    BY <2>1, <2>3, <2>4, <2>6, <2>7, <2>8
  <2> QED BY <2>2, <2>9, <2>10
<1> QED BY <1>1, <1>2, <1>4, <1>6 DEF Complete

\* An account on which a reading may be accounted for stays one.
LEMMA SampledOK ==
  ASSUME NEW E \in EnvType, NEW s \in State, AccountOK(s, E), NEW c \in Counter,
         NEW d \in Day, ReadingOK(s, c, d, E)
  PROVE  Sampled(s, c, d) \in State /\ AccountOK(Sampled(s, c, d), E)
<1>1. PICK t : t = Sampled(s, c, d) /\ IsSampled(t, s, c, d)
  BY SampledLemma
<1>2. t \in State /\ Written(s)
  BY <1>1 DEF IsSampled, AccountOK
<1>3. Written(t)
  BY <1>1, <1>2, SampledWritten
<1>4. ~E.raced => Covered(t, E)
  BY <1>1, <1>2, SampledCovered DEF AccountOK, ReadingOK
<1>5. E.clean => Complete(t, E)
  BY <1>1, <1>2, SampledFirst, SampledLater DEF AccountOK, ReadingOK
<1> QED BY <1>1, <1>2, <1>3, <1>4, <1>5 DEF AccountOK

-----------------------------------------------------------------------------
(* Steps.                                                                  *)

\* The counters grow by no more than the bytes that may be counted, and while
\* all is clean neither they nor the clock go back.
Grows(E, F) ==
  /\ \A x \in Dir : /\ E.limit[x] <= F.limit[x]
                    /\ F.counter[x] - E.counter[x] <= F.limit[x] - E.limit[x]
  /\ E.raced => F.raced
  /\ F.clean => /\ E.clean /\ E.day <= F.day
                /\ \A x \in Dir : E.counter[x] <= F.counter[x]

\* What holds of an account or a reading still holds after such a step.
LEMMA GrowsLemma ==
  ASSUME NEW E \in EnvType, NEW F \in EnvType, Grows(E, F), NEW s \in State, Written(s)
  PROVE  /\ AccountOK(s, E) => AccountOK(s, F)
         /\ \A c \in Counter, e \in Day : ReadingOK(s, c, e, E) => ReadingOK(s, c, e, F)
<1>1. ASSUME NEW x \in Dir
      PROVE  /\ E.limit[x] \in Nat /\ F.limit[x] \in Nat
             /\ E.counter[x] \in Nat /\ F.counter[x] \in Nat
             /\ s.prev[x] \in Nat /\ Sum(s, x) \in Nat
  BY StateLemma DEF EnvType, Counter
<1>2. ASSUME NEW x \in Dir
      PROVE  /\ E.limit[x] <= F.limit[x]
             /\ F.counter[x] - E.counter[x] <= F.limit[x] - E.limit[x]
  BY DEF Grows
<1>3. E.day \in Nat /\ F.day \in Nat /\ (s.init => s.day \in Nat)
  BY ZeroLemma, DayLemma DEF EnvType, Written
<1>4. Covered(s, E) => Covered(s, F)
  <2> SUFFICES ASSUME Covered(s, E), NEW x \in Dir
               PROVE  /\ Sum(s, x) <= F.limit[x]
                      /\ s.init => Sum(s, x) + (F.counter[x] - s.prev[x]) <= F.limit[x]
    BY DEF Covered
  <2>1. /\ Sum(s, x) <= E.limit[x]
        /\ s.init => Sum(s, x) + (E.counter[x] - s.prev[x]) <= E.limit[x]
    BY DEF Covered
  <2> QED BY <1>1, <1>2, <2>1
<1>5. F.clean /\ Complete(s, E) => Complete(s, F)
  <2> SUFFICES ASSUME F.clean, Complete(s, E), s.init PROVE Complete(s, F)
    BY DEF Complete
  <2>1. s.day <= F.day
    BY <1>3 DEF Complete, Grows
  <2>2. \A x \in Dir : s.prev[x] <= F.counter[x]
    <3> SUFFICES ASSUME NEW x \in Dir PROVE s.prev[x] <= F.counter[x]
      OBVIOUS
    <3>1. s.prev[x] <= E.counter[x] /\ E.counter[x] <= F.counter[x]
      BY DEF Complete, Grows
    <3> QED BY <1>1, <3>1
  <2> QED BY <2>1, <2>2 DEF Complete
<1>6. ASSUME NEW c \in Counter, ReadingCovered(s, c, E)
      PROVE  ReadingCovered(s, c, F)
  <2> SUFFICES ASSUME NEW x \in Dir
               PROVE  /\ Sum(s, x) + (F.counter[x] - c[x]) <= F.limit[x]
                      /\ s.init => Sum(s, x) + (c[x] - s.prev[x]) <= F.limit[x]
    BY DEF ReadingCovered
  <2>1. /\ Sum(s, x) + (E.counter[x] - c[x]) <= E.limit[x]
        /\ s.init => Sum(s, x) + (c[x] - s.prev[x]) <= E.limit[x]
    BY <1>6 DEF ReadingCovered
  <2>2. c[x] \in Nat
    BY DEF Counter
  <2> QED BY <1>1, <1>2, <2>1, <2>2
<1>7. ASSUME NEW c \in Counter, NEW e \in Day, F.clean, ReadingInOrder(s, c, e, E)
      PROVE  ReadingInOrder(s, c, e, F)
  <2>1. e \in Nat
    BY DayLemma
  <2>2. e <= F.day
    BY <1>3, <1>7, <2>1 DEF ReadingInOrder, Grows
  <2>3. \A x \in Dir : c[x] <= F.counter[x]
    <3> SUFFICES ASSUME NEW x \in Dir PROVE c[x] <= F.counter[x]
      OBVIOUS
    <3>1. c[x] <= E.counter[x] /\ E.counter[x] <= F.counter[x] /\ c[x] \in Nat
      BY <1>7 DEF ReadingInOrder, Grows, Counter
    <3> QED BY <1>1, <3>1
  <2> QED BY <1>7, <2>2, <2>3 DEF ReadingInOrder
<1>8. AccountOK(s, E) => AccountOK(s, F)
  BY <1>4, <1>5 DEF AccountOK, Grows
<1>9. \A c \in Counter, e \in Day : ReadingOK(s, c, e, E) => ReadingOK(s, c, e, F)
  BY <1>6, <1>7 DEF ReadingOK, Grows
<1> QED BY <1>8, <1>9

\* Nothing is wrong with the zero value.
LEMMA FreshOK ==
  ASSUME NEW E \in EnvType
  PROVE  AccountOK(Fresh, E)
<1>1. Written(Fresh)
  BY ZeroLemma DEF Written
<1>2. ASSUME NEW x \in Dir PROVE Sum(Fresh, x) = 0 /\ E.limit[x] \in Nat
  <2>1. IsFiniteSet(Day) /\ \A d \in Day : Fresh.ledger[d][x] = 0
    BY ZeroLemma, DayLemma
  <2> QED BY <2>1, SumZero DEF Sum, EnvType, Counter
<1>3. Covered(Fresh, E)
  BY <1>2, ZeroLemma DEF Covered
<1>4. Complete(Fresh, E)
  BY ZeroLemma DEF Complete
<1> QED BY <1>1, <1>3, <1>4 DEF AccountOK

\* A reading that is made now fits any account.
LEMMA NewReading ==
  ASSUME NEW E \in EnvType, NEW s \in State, AccountOK(s, E)
  PROVE  ReadingOK(s, E.counter, E.day, E)
<1>1. ASSUME NEW x \in Dir
      PROVE  E.limit[x] \in Nat /\ E.counter[x] \in Nat /\ s.prev[x] \in Nat /\ Sum(s, x) \in Nat
  BY StateLemma DEF EnvType, Counter
<1>2. ASSUME Covered(s, E) PROVE ReadingCovered(s, E.counter, E)
  <2> SUFFICES ASSUME NEW x \in Dir
               PROVE  /\ Sum(s, x) + (E.counter[x] - E.counter[x]) <= E.limit[x]
                      /\ s.init => Sum(s, x) + (E.counter[x] - s.prev[x]) <= E.limit[x]
    BY DEF ReadingCovered
  <2>1. /\ Sum(s, x) <= E.limit[x]
        /\ s.init => Sum(s, x) + (E.counter[x] - s.prev[x]) <= E.limit[x]
    BY <1>2 DEF Covered
  <2> QED BY <1>1, <2>1
<1>3. ASSUME Complete(s, E) PROVE ReadingInOrder(s, E.counter, E.day, E)
  <2>1. E.day \in Nat
    BY DayLemma DEF EnvType
  <2>2. E.day <= E.day /\ \A x \in Dir : E.counter[x] <= E.counter[x]
    BY <1>1, <2>1
  <2> QED BY <1>3, <2>2 DEF Complete, ReadingInOrder
<1> QED BY <1>2, <1>3 DEF AccountOK, ReadingOK

\* The environment before and after a step.
LEMMA EnvLemma ==
  /\ TypeOK => Env \in EnvType /\ Limit \in Counter
  /\ TypeOK' => Env' \in EnvType /\ Limit' \in Counter
<1>1. ASSUME NEW a \in Counter, NEW b \in Counter
      PROVE  Plus(a, b) \in Counter
  <2>1. \A x \in Dir : a[x] + b[x] \in Nat
    BY DEF Counter
  <2> QED BY <2>1 DEF Plus, Counter
<1>2. ASSUME TypeOK PROVE Env \in EnvType /\ Limit \in Counter
  <2>1. Limit \in Counter
    BY <1>1, <1>2 DEF TypeOK, Limit
  <2> QED BY <1>2, <2>1 DEF TypeOK, Env, EnvType
<1>3. ASSUME TypeOK' PROVE Env' \in EnvType /\ Limit' \in Counter
  <2>1. Limit' \in Counter
    BY <1>1, <1>3 DEF TypeOK, Limit
  <2> QED BY <1>3, <2>1 DEF TypeOK, Env, EnvType
<1> QED BY <1>2, <1>3

\* A step of the samplers leaves clock and counters alone.
LEMMA StillGrows ==
  ASSUME TypeOK, UNCHANGED <<day, counter, moved, back>>, raced => raced', clean' => clean
  PROVE  Grows(Env, Env')
<1>1. Limit' = Limit /\ Limit \in Counter /\ day \in Nat /\ counter \in Counter
  BY EnvLemma, DayLemma DEF Limit, TypeOK
<1>2. \A x \in Dir : Limit[x] \in Nat /\ counter[x] \in Nat
  BY <1>1 DEF Counter
<1>3. /\ Env.limit = Limit /\ Env.counter = counter /\ Env.day = day
      /\ Env.raced = raced /\ Env.clean = clean
      /\ Env'.limit = Limit /\ Env'.counter = counter /\ Env'.day = day
      /\ Env'.raced = raced' /\ Env'.clean = clean'
  BY <1>1 DEF Env
<1>4. ASSUME NEW x \in Dir
      PROVE  /\ Limit[x] <= Limit[x] /\ counter[x] <= counter[x]
             /\ counter[x] - counter[x] <= Limit[x] - Limit[x]
  BY <1>2
<1>5. day <= day
  BY <1>1
<1> QED BY <1>3, <1>4, <1>5 DEF Grows

\* The invariant survives a step that changes no checkpoint, when it holds of the
\* samplers that changed.
LEMMA Keep ==
  ASSUME UsageInv, TypeOK', Grows(Env, Env'), clean' => ~raced', file' = file,
         \A w \in Worker : sampler'[w] = sampler[w] \/ SamplerOK(sampler'[w], file, Env')
  PROVE  UsageInv'
<1>1. Env \in EnvType /\ Env' \in EnvType /\ file \in State /\ Fresh \in State
  BY EnvLemma, ZeroLemma DEF UsageInv, TypeOK
<1>2. AccountOK(file, Env')
  BY <1>1, GrowsLemma DEF UsageInv, AccountOK
<1>3. ASSUME NEW w \in Worker, sampler'[w] = sampler[w]
      PROVE  SamplerOK(sampler[w], file, Env')
  <2> DEFINE p == sampler[w]
  <2>1. p \in Sampler /\ SamplerOK(p, file, Env)
    BY DEF UsageInv, TypeOK
  <2> HIDE DEF p
  <2>2. p.state \in State /\ p.at \in Counter
    BY <2>1 DEF Sampler
  <2>3. AccountOK(p.state, Env')
    BY <1>1, <2>1, <2>2, GrowsLemma DEF SamplerOK, AccountOK
  <2>4. ASSUME p.pc = "read", NEW s \in Bases(p, file)
        PROVE  p.on \in Day /\ ReadingOK(s, p.at, p.on, Env')
    <3>1. p.on \in Day /\ ReadingOK(s, p.at, p.on, Env)
      BY <2>1, <2>4 DEF SamplerOK
    <3>2. s \in State /\ AccountOK(s, Env)
      BY <1>1, <2>1, <2>2, FreshOK DEF Bases, SamplerOK, UsageInv
    <3> QED BY <1>1, <2>2, <3>1, <3>2, GrowsLemma DEF AccountOK
  <2>5. p.pc = "read" => p.on \in Day
    BY <2>1 DEF SamplerOK
  <2>6. SamplerOK(p, file, Env')
    BY <2>1, <2>3, <2>4, <2>5 DEF SamplerOK
  <2> QED BY <2>6 DEF p
<1>4. ASSUME NEW w \in Worker PROVE SamplerOK(sampler'[w], file, Env')
  BY <1>3
<1> QED BY <1>2, <1>4 DEF UsageInv

-----------------------------------------------------------------------------
(* The samplers.                                                           *)

\* A worker that is not there, or has just begun.
LEMMA NewSampler ==
  /\ Gone \in Sampler /\ New \in Sampler
  /\ \A f, E : E \in EnvType => SamplerOK(Gone, f, E) /\ SamplerOK(New, f, E)
<1>1. /\ Gone \in Sampler /\ Gone.pc = "gone" /\ Gone.state = Fresh
      /\ New \in Sampler /\ New.pc = "idle" /\ New.state = Fresh
  BY ZeroLemma DEF Gone, New, Sampler
<1> QED BY <1>1, FreshOK DEF SamplerOK

\* What a step of sampler w sets.
LEMMA SetSampler ==
  ASSUME UsageInv, NEW w \in Worker, NEW p, sampler' = [sampler EXCEPT ![w] = p]
  PROVE  sampler'[w] = p /\ \A v \in Worker : v # w => sampler'[v] = sampler[v]
BY DEF UsageInv, TypeOK

\* The counters and the clock are read together.
LEMMA ReadCountersInv ==
  ASSUME UsageInv, NEW w \in Worker, ReadCounters(w)
  PROVE  UsageInv'
<1> DEFINE q == sampler[w]
           p == [q EXCEPT !.pc = "read", !.at = counter, !.on = day]
<1>1. q \in Sampler /\ SamplerOK(q, file, Env) /\ counter \in Counter /\ day \in Day
  BY DEF UsageInv, TypeOK
<1>2. sampler' = [sampler EXCEPT ![w] = p]
  BY DEF ReadCounters, UsageInv, TypeOK
<1>3. /\ p \in Sampler /\ p.pc = "read" /\ p.at = counter /\ p.on = day
      /\ p.state = q.state /\ p.loaded = q.loaded
  BY <1>1 DEF Sampler
<1> HIDE DEF q, p
<1>4. TypeOK'
  BY <1>2, <1>3 DEF UsageInv, TypeOK, ReadCounters
<1>5. /\ Env' = Env /\ Env \in EnvType /\ Env.counter = counter /\ Env.day = day
      /\ Grows(Env, Env')
  <2>1. Env' = Env
    BY DEF ReadCounters, Env, Limit
  <2>2. Grows(Env, Env')
    BY StillGrows DEF UsageInv, ReadCounters
  <2> QED BY <2>1, <2>2, EnvLemma DEF UsageInv, Env
<1>6. ASSUME NEW s \in Bases(p, file) PROVE ReadingOK(s, p.at, p.on, Env)
  <2>1. s \in State /\ AccountOK(s, Env)
    BY <1>1, <1>3, <1>5, FreshOK, ZeroLemma
    DEF Bases, SamplerOK, Sampler, UsageInv, TypeOK
  <2>2. ReadingOK(s, Env.counter, Env.day, Env)
    BY <1>5, <2>1, NewReading
  <2> QED BY <1>3, <1>5, <2>2
<1>7. SamplerOK(p, file, Env')
  BY <1>1, <1>3, <1>5, <1>6 DEF SamplerOK
<1>8. \A v \in Worker : sampler'[v] = sampler[v] \/ SamplerOK(sampler'[v], file, Env')
  BY <1>2, <1>7, SetSampler
<1>9. file' = file /\ (clean' => ~raced')
  BY DEF UsageInv, ReadCounters
<1> QED BY <1>4, <1>5, <1>8, <1>9, Keep

\* A failure is counted.
LEMMA FaultType ==
  ASSUME UsageInv, Fault
  PROVE  faults' \in 0 .. MaxFaults
BY UsageAssumption DEF UsageInv, TypeOK, Fault

\* A sample is accounted for on the sampler's own state, on the checkpoint or on
\* the zero value.
LEMMA AccountInv ==
  ASSUME UsageInv, NEW w \in Worker, Account(w)
  PROVE  UsageInv'
<1> DEFINE q == sampler[w]
<1>1. q \in Sampler /\ SamplerOK(q, file, Env) /\ file \in State /\ q.pc = "read"
  BY DEF UsageInv, TypeOK, Account
<1>2. PICK s \in Bases(q, file) :
        sampler' = [sampler EXCEPT ![w] = [pc |-> "save", loaded |-> TRUE,
                                           state |-> Sampled(s, q.at, q.on),
                                           at |-> Zero, on |-> NoDay]]
  <2>1. PICK s \in {q.state, file, Fresh} :
          /\ \/ q.loaded /\ s = q.state
             \/ ~q.loaded /\ s = file
             \/ ~q.loaded /\ s = Fresh
          /\ sampler' = [sampler EXCEPT ![w] = [pc |-> "save", loaded |-> TRUE,
                                                state |-> Sampled(s, q.at, q.on),
                                                at |-> Zero, on |-> NoDay]]
    BY DEF Account
  <2>2. s \in Bases(q, file)
    BY <2>1 DEF Bases
  <2> QED BY <2>1, <2>2
<1>3. q.at \in Counter /\ q.on \in Day /\ ReadingOK(s, q.at, q.on, Env)
  BY <1>1 DEF SamplerOK, Sampler
<1>4. Env' = Env /\ Env \in EnvType /\ Grows(Env, Env')
  <2>1. Env' = Env
    BY DEF Account, Env, Limit
  <2>2. Grows(Env, Env')
    BY StillGrows DEF UsageInv, Account
  <2> QED BY <2>1, <2>2, EnvLemma DEF UsageInv
<1>5. s \in State /\ AccountOK(s, Env)
  BY <1>1, <1>4, FreshOK, ZeroLemma DEF Bases, SamplerOK, Sampler, UsageInv
<1> DEFINE t == Sampled(s, q.at, q.on)
           p == [pc |-> "save", loaded |-> TRUE, state |-> t, at |-> Zero, on |-> NoDay]
<1>6. t \in State /\ AccountOK(t, Env)
  BY <1>3, <1>4, <1>5, SampledOK
<1> HIDE DEF t
<1>7. p \in Sampler /\ p.pc = "save" /\ p.loaded /\ p.state = t
  BY <1>6, ZeroLemma DEF Sampler
<1>8. sampler' = [sampler EXCEPT ![w] = p]
  BY <1>2 DEF t
<1> HIDE DEF p, q
<1>9. faults' \in 0 .. MaxFaults
  BY FaultType DEF UsageInv, TypeOK, Account
<1>10. TypeOK'
  BY <1>7, <1>8, <1>9 DEF UsageInv, TypeOK, Account
<1>11. SamplerOK(p, file, Env')
  BY <1>4, <1>6, <1>7 DEF SamplerOK
<1>12. \A v \in Worker : sampler'[v] = sampler[v] \/ SamplerOK(sampler'[v], file, Env')
  BY <1>8, <1>11, SetSampler
<1>13. file' = file /\ (clean' => ~raced')
  BY DEF UsageInv, Account
<1> QED BY <1>4, <1>10, <1>12, <1>13, Keep

\* A new checkpoint that overtakes a reading is the only one that can disturb
\* another sampler, and from then on nothing is claimed.
LEMMA SaveInv ==
  ASSUME UsageInv, NEW w \in Worker, Save(w)
  PROVE  UsageInv'
<1> DEFINE q == sampler[w]
           p == [q EXCEPT !.pc = "idle"]
<1>1. q \in Sampler /\ SamplerOK(q, file, Env)
  BY DEF UsageInv, TypeOK
<1>2. sampler' = [sampler EXCEPT ![w] = p]
  BY DEF Save, UsageInv, TypeOK
<1>3. p \in Sampler /\ p.pc = "idle" /\ p.state = q.state /\ p.loaded = q.loaded
  BY <1>1 DEF Sampler
<1>4. /\ faults' \in 0 .. MaxFaults /\ file' \in {file, q.state} /\ q.state \in State
      /\ raced' \in BOOLEAN /\ clean' \in BOOLEAN /\ (clean' => ~raced')
      /\ (raced => raced') /\ (clean' => clean)
      /\ UNCHANGED <<day, counter, running, starts, moved, back>>
  <2>1. q.state \in State /\ faults' \in 0 .. MaxFaults /\ file' \in {file, q.state}
    BY <1>1, FaultType DEF UsageInv, TypeOK, Save, Sampler
  <2>2. UNCHANGED <<day, counter, running, starts, moved, back>>
    BY DEF Save
  <2>3. clean \in BOOLEAN /\ raced \in BOOLEAN /\ (clean => ~raced)
    BY DEF UsageInv, TypeOK
  <2>4. CASE UNCHANGED <<file, raced, clean>>
    BY <2>1, <2>2, <2>3, <2>4
  <2>5. CASE ~UNCHANGED <<file, raced, clean>>
    <3>1. /\ raced' = (raced \/ \E v \in Worker : sampler[v].pc = "read" /\ ~sampler[v].loaded)
          /\ clean' = (clean /\ ~raced')
      BY <2>5 DEF Save
    <3>2. raced' \in BOOLEAN /\ clean' \in BOOLEAN
      BY <3>1
    <3>3. (clean' => ~raced') /\ (raced => raced') /\ (clean' => clean)
      BY <2>3, <3>1, <3>2
    <3> QED BY <2>1, <2>2, <3>2, <3>3
  <2> QED BY <2>4, <2>5
<1> HIDE DEF p
<1>5. TypeOK'
  BY <1>2, <1>3, <1>4 DEF UsageInv, TypeOK
<1>6. Env \in EnvType /\ Env' \in EnvType /\ Grows(Env, Env')
  BY <1>4, <1>5, StillGrows, EnvLemma DEF UsageInv
<1>7. AccountOK(q.state, Env')
  BY <1>1, <1>4, <1>6, GrowsLemma DEF SamplerOK, AccountOK
<1>8. SamplerOK(p, file, Env')
  BY <1>1, <1>3, <1>7 DEF SamplerOK
<1>9. CASE file' = file
  BY <1>2, <1>4, <1>5, <1>6, <1>8, <1>9, SetSampler, Keep
<1>10. CASE file' # file
  <2>1. /\ file' = q.state
        /\ raced' = (raced \/ \E v \in Worker : sampler[v].pc = "read" /\ ~sampler[v].loaded)
    BY <1>10 DEF Save
  <2>2. Env'.raced = raced' /\ Env'.clean = clean'
    BY DEF Env
  <2>3. ASSUME NEW v \in Worker PROVE SamplerOK(sampler'[v], q.state, Env')
    <3>1. CASE v = w
      BY <1>1, <1>2, <1>3, <1>7, <3>1, SetSampler DEF SamplerOK
    <3>2. CASE v # w
      <4> DEFINE r == sampler[v]
      <4>1. sampler'[v] = r /\ r \in Sampler /\ SamplerOK(r, file, Env)
        BY <1>2, <3>2, SetSampler DEF UsageInv, TypeOK
      <4>2. r.state \in State /\ r.at \in Counter
        BY <4>1 DEF Sampler
      <4>3. AccountOK(r.state, Env')
        BY <1>6, <4>1, <4>2, GrowsLemma DEF SamplerOK, AccountOK
      <4>4. ASSUME r.pc = "read", NEW s \in Bases(r, q.state)
            PROVE  r.on \in Day /\ ReadingOK(s, r.at, r.on, Env')
        <5>1. r.on \in Day
          BY <4>1, <4>4 DEF SamplerOK
        <5>2. CASE r.loaded
          <6>1. s = r.state /\ s \in Bases(r, file)
            BY <4>4, <5>2 DEF Bases
          <6>2. ReadingOK(s, r.at, r.on, Env) /\ Written(s) /\ s \in State
            BY <4>1, <4>2, <4>4, <6>1 DEF SamplerOK, AccountOK
          <6> QED BY <1>6, <4>2, <5>1, <6>2, GrowsLemma
        <5>3. CASE ~r.loaded
          <6>1. raced' /\ ~clean'
            BY <1>4, <2>1, <4>4, <5>3
          <6> QED BY <2>2, <5>1, <6>1 DEF ReadingOK
        <5> QED BY <5>2, <5>3
      <4>5. r.pc = "read" => r.on \in Day
        BY <4>1 DEF SamplerOK
      <4> HIDE DEF r
      <4>6. SamplerOK(r, q.state, Env')
        BY <4>1, <4>3, <4>4, <4>5 DEF SamplerOK
      <4> QED BY <4>1, <4>6
    <3> QED BY <3>1, <3>2
  <2> QED BY <1>4, <1>5, <1>7, <2>1, <2>3 DEF UsageInv
<1> QED BY <1>9, <1>10

-----------------------------------------------------------------------------
(* Workers and the device.                                                 *)

\* Workers come, go and crash without a trace but the checkpoint.
LEMMA WorkersInv ==
  ASSUME UsageInv, Crash \/ \E w \in Worker : StartWorker(w) \/ EndWorker(w)
  PROVE  UsageInv'
<1>1. /\ UNCHANGED <<day, counter, file, faults, moved, back, raced, clean>>
      /\ running' \in Worker
      /\ \A w \in Worker : sampler'[w] \in {sampler[w], Gone, New}
      /\ sampler' \in [Worker -> Sampler]
  BY NewSampler DEF Crash, StartWorker, EndWorker, UsageInv, TypeOK
<1>2. starts' \in 0 .. MaxStarts
  BY UsageAssumption DEF Crash, StartWorker, EndWorker, UsageInv, TypeOK
<1>3. TypeOK'
  BY <1>1, <1>2 DEF UsageInv, TypeOK
<1>4. Grows(Env, Env') /\ Env' \in EnvType
  BY <1>1, <1>3, StillGrows, EnvLemma DEF UsageInv
<1>5. \A w \in Worker : sampler'[w] = sampler[w] \/ SamplerOK(sampler'[w], file, Env')
  BY <1>1, <1>4, NewSampler
<1> QED BY <1>1, <1>3, <1>4, <1>5, Keep DEF UsageInv

\* The counters' growth, in either direction, against that of the limit.
CountersGrow ==
  /\ counter' \in Counter /\ moved' \in Counter /\ back' \in Counter
  /\ \A x \in Dir : /\ moved[x] + back[x] <= moved'[x] + back'[x]
                    /\ counter'[x] - counter[x]
                         <= (moved'[x] + back'[x]) - (moved[x] + back[x])
                    /\ clean' => counter[x] <= counter'[x]

\* A byte that moves and an interface that comes back raise the limit by what
\* they raise the counters.
LEMMA DeviceGrows ==
  ASSUME UsageInv,
         NextDay \/ ClockBack \/ ChangeInterfaces \/ \E x \in Dir : Move(x)
  PROVE  CountersGrow
<1>1. counter \in Counter /\ moved \in Counter /\ back \in Counter
  BY DEF UsageInv, TypeOK
<1>2. \A x \in Dir : counter[x] \in Nat /\ moved[x] \in Nat /\ back[x] \in Nat
  BY <1>1 DEF Counter
<1>3. CASE UNCHANGED <<counter, moved, back>>
  <2>1. ASSUME NEW x \in Dir
        PROVE  /\ moved[x] + back[x] <= moved[x] + back[x]
               /\ counter[x] - counter[x] <= (moved[x] + back[x]) - (moved[x] + back[x])
               /\ counter[x] <= counter[x]
    BY <1>2
  <2> QED BY <1>1, <1>3, <2>1 DEF CountersGrow
<1>4. ASSUME NEW y \in Dir, Move(y) PROVE CountersGrow
  <2>1. /\ counter' = [counter EXCEPT ![y] = @ + 1] /\ back' = back
        /\ moved' = [moved EXCEPT ![y] = @ + 1]
    BY <1>4 DEF Move
  <2>2. counter' \in Counter /\ moved' \in Counter /\ back' \in Counter
    BY <1>1, <1>2, <2>1 DEF Counter
  <2>3. ASSUME NEW x \in Dir
        PROVE  \/ counter'[x] = counter[x] /\ moved'[x] = moved[x]
               \/ counter'[x] = counter[x] + 1 /\ moved'[x] = moved[x] + 1
    BY <1>1, <2>1 DEF Counter
  <2>4. ASSUME NEW x \in Dir
        PROVE  /\ moved[x] + back[x] <= moved'[x] + back'[x]
               /\ counter'[x] - counter[x]
                    <= (moved'[x] + back'[x]) - (moved[x] + back[x])
               /\ counter[x] <= counter'[x]
    BY <1>2, <2>1, <2>3
  <2> QED BY <2>2, <2>4 DEF CountersGrow
<1>5. ASSUME ChangeInterfaces PROVE CountersGrow
  <2>1. /\ counter' \in [Dir -> 0 .. MaxCounter] /\ moved' = moved /\ ~clean'
        /\ back' = [x \in Dir |-> IF counter'[x] > counter[x]
                                  THEN back[x] + (counter'[x] - counter[x]) ELSE back[x]]
    BY <1>5 DEF ChangeInterfaces
  <2>2. counter' \in Counter
    BY <2>1, UsageAssumption DEF Counter
  <2>3. ASSUME NEW x \in Dir
        PROVE  /\ counter'[x] \in Nat /\ back'[x] \in Nat
               /\ back[x] <= back'[x] /\ counter'[x] - counter[x] <= back'[x] - back[x]
    <3>1. /\ counter'[x] \in Nat /\ counter[x] \in Nat /\ back[x] \in Nat
          /\ back'[x] = IF counter'[x] > counter[x]
                        THEN back[x] + (counter'[x] - counter[x]) ELSE back[x]
      BY <1>2, <2>1, <2>2 DEF Counter
    <3> QED BY <3>1
  <2>4. back' \in Counter /\ moved' \in Counter
    BY <1>1, <2>1, <2>3 DEF Counter
  <2>5. ASSUME NEW x \in Dir
        PROVE  /\ moved[x] + back[x] <= moved'[x] + back'[x]
               /\ counter'[x] - counter[x]
                    <= (moved'[x] + back'[x]) - (moved[x] + back[x])
    BY <1>2, <2>1, <2>3
  <2> QED BY <2>1, <2>2, <2>4, <2>5 DEF CountersGrow
<1> QED BY <1>3, <1>4, <1>5 DEF NextDay, ClockBack

\* The device's clock and counters change.
LEMMA DeviceInv ==
  ASSUME UsageInv,
         NextDay \/ ClockBack \/ ChangeInterfaces \/ \E x \in Dir : Move(x)
  PROVE  UsageInv'
<1>1. /\ UNCHANGED <<sampler, running, file, starts, raced>>
      /\ clean' = clean \/ clean' = FALSE
  BY DEF NextDay, ClockBack, ChangeInterfaces, Move
<1>2. faults' \in 0 .. MaxFaults
  BY FaultType DEF NextDay, ClockBack, ChangeInterfaces, Move, UsageInv, TypeOK
<1>3. day \in Nat /\ day' \in Day /\ day' \in Nat /\ (clean' => day <= day')
  <2>1. CASE NextDay
    BY <2>1, UsageAssumption DEF NextDay, UsageInv, TypeOK, Day
  <2>2. CASE ClockBack
    BY <2>2, UsageAssumption DEF ClockBack, UsageInv, TypeOK, Day
  <2>3. CASE UNCHANGED day
    <3>1. day \in Nat /\ day \in Day
      BY DayLemma DEF UsageInv, TypeOK
    <3>2. day <= day
      BY <3>1
    <3> QED BY <2>3, <3>1, <3>2
  <2> QED BY <2>1, <2>2, <2>3 DEF ChangeInterfaces, Move
<1>4. CountersGrow
  BY DeviceGrows
<1>5. TypeOK'
  <2>1. clean' \in BOOLEAN
    BY <1>1 DEF UsageInv, TypeOK
  <2> QED BY <1>1, <1>2, <1>3, <1>4, <2>1 DEF UsageInv, TypeOK, CountersGrow
<1>6. Grows(Env, Env')
  <2>1. /\ Env.limit = Limit /\ Env.counter = counter /\ Env.day = day
        /\ Env.raced = raced /\ Env.clean = clean
        /\ Env'.limit = Limit' /\ Env'.counter = counter' /\ Env'.day = day'
        /\ Env'.raced = raced' /\ Env'.clean = clean'
    BY DEF Env
  <2>2. \A x \in Dir : Limit[x] = moved[x] + back[x] /\ Limit'[x] = moved'[x] + back'[x]
    BY DEF Limit, Plus
  <2>3. (raced => raced') /\ (clean' => clean)
    BY <1>1
  <2> QED BY <1>3, <1>4, <2>1, <2>2, <2>3 DEF Grows, CountersGrow
<1>7. clean' => ~raced'
  BY <1>1 DEF UsageInv
<1>8. file' = file /\ \A w \in Worker : sampler'[w] = sampler[w]
  BY <1>1
<1> QED BY <1>5, <1>6, <1>7, <1>8, Keep

-----------------------------------------------------------------------------
\* Nothing has been sampled at the start.
LEMMA UsageInit == Init => UsageInv
<1> SUFFICES ASSUME Init PROVE UsageInv
  OBVIOUS
<1>1. \A w \in Worker : sampler[w] \in {New, Gone}
  BY DEF Init
<1>2. sampler \in [Worker -> Sampler]
  BY NewSampler DEF Init
<1>3. faults \in 0 .. MaxFaults /\ starts \in 0 .. MaxStarts /\ running \in Worker
  BY UsageAssumption DEF Init
<1>4. counter \in Counter /\ moved \in Counter /\ back \in Counter
  BY ZeroLemma DEF Init, Counter
<1>5. TypeOK
  BY <1>2, <1>3, <1>4, DayLemma, ZeroLemma DEF Init, TypeOK
<1>6. Env \in EnvType /\ file = Fresh /\ ~raced
  BY <1>5, EnvLemma DEF Init
<1>7. AccountOK(file, Env)
  BY <1>6, FreshOK
<1>8. \A w \in Worker : SamplerOK(sampler[w], file, Env)
  BY <1>1, <1>6, NewSampler
<1> QED BY <1>5, <1>6, <1>7, <1>8 DEF UsageInv

\* The invariant is inductive.
LEMMA UsageStep == UsageInv /\ [Next]_vars => UsageInv'
<1> SUFFICES ASSUME UsageInv, [Next]_vars PROVE UsageInv'
  OBVIOUS
<1>1. CASE UNCHANGED vars
  BY <1>1 DEF vars, UsageInv, TypeOK, Env, Limit
<1>2. CASE Next
  BY <1>2, ReadCountersInv, AccountInv, SaveInv, WorkersInv, DeviceInv DEF Next, Step
<1> QED BY <1>1, <1>2

\* In every reachable state, with any number of workers that overlap, every
\* account and every reading that is still to be accounted for is covered by
\* bytes that may be counted while no checkpoint has overtaken a reading, and
\* complete while clock and interfaces have not changed either.
THEOREM UsageInvariant == Spec => []UsageInv
BY UsageInit, UsageStep, PTL DEF Spec

\* The samplers and the checkpoint keep their types: no total is ever negative.
THEOREM UsageTypes == Spec => []TypeOK
<1>1. UsageInv => TypeOK
  BY DEF UsageInv
<1> QED BY <1>1, UsageInvariant, PTL

\* What the invariant says of every account.
LEMMA AccountsOK ==
  ASSUME UsageInv, NEW s \in Accounts
  PROVE  s \in State /\ AccountOK(s, Env)
BY DEF UsageInv, TypeOK, Accounts, SamplerOK, Sampler

\* Today's bytes are part of the month's in every sampler and in the checkpoint,
\* whenever a day or month turns.
THEOREM DayWithinMonth == Spec => []TodayWithinMonth
<1>1. UsageInv => TodayWithinMonth
  BY AccountsOK DEF TodayWithinMonth, AccountOK, Written
<1> QED BY <1>1, UsageInvariant, PTL

\* What the days of an account claim together never exceeds the bytes that moved
\* and those that interfaces brought back, unless a checkpoint overtook a reading.
THEOREM NothingTwice == Spec => []NoByteTwice
<1>1. UsageInv => NoByteTwice
  <2> SUFFICES ASSUME UsageInv, ~raced, NEW s \in Accounts, NEW x \in Dir
               PROVE  Total(s, x) <= moved[x] + back[x]
    BY DEF NoByteTwice
  <2>1. Total(s, x) = Sum(s, x)
    BY DEF Total, Sum, MapThenSumSet, MapThenFoldSet, SumOf, SumEq, Pick
  <2>2. Env.limit = Limit /\ ~Env.raced /\ Limit[x] = moved[x] + back[x]
    BY DEF Env, Limit, Plus
  <2>3. Sum(s, x) <= Env.limit[x]
    BY <2>2, AccountsOK DEF AccountOK, Covered
  <2> QED BY <2>1, <2>2, <2>3
<1> QED BY <1>1, UsageInvariant, PTL

\* While checkpoints, clock and interfaces are in order, the days of an account
\* are what the counters grew by since its first sample, and the month's total is
\* the sum of its days.
THEOREM NothingLost == Spec => []EveryByteCounted
<1>1. UsageInv => EveryByteCounted
  <2> SUFFICES ASSUME UsageInv, clean, NEW s \in Accounts, NEW x \in Dir, s.init
               PROVE  /\ Total(s, x) = s.prev[x] - s.first[x]
                      /\ s.month[x] = MonthTotal(s, x)
    BY DEF EveryByteCounted
  <2>1. Total(s, x) = Sum(s, x)
    BY DEF Total, Sum, MapThenSumSet, MapThenFoldSet, SumOf, SumEq, Pick
  <2>2. MonthTotal(s, x) = SumOf(s.ledger, x, DaysOfMonth(s.day))
    BY DEF MonthTotal, MapThenSumSet, MapThenFoldSet, SumOf, SumEq, Pick, DaysOfMonth
  <2>3. Env.clean
    BY DEF Env
  <2>4. Sum(s, x) = s.prev[x] - s.first[x] /\ s.month[x] = SumOf(s.ledger, x, DaysOfMonth(s.day))
    BY <2>3, AccountsOK DEF AccountOK, Complete
  <2> QED BY <2>1, <2>2, <2>4
<1> QED BY <1>1, UsageInvariant, PTL

=============================================================================
